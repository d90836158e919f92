------------------------------- MODULE MCConf -------------------------------
(***************************************************************************)
(* Conf for TLC: the files an administrator writes in turn.                *)
(***************************************************************************)
EXTENDS Conf

CONSTANTS c1, c2, h1, h2

Two == {c1, c2}
One == {h1}
TwoHosts == {h1, h2}
OneName == {1}
OneUser == {"irc"}

\* a line of the file, in which the fields it does not use are blank
Line(t) == [t |-> t, num |-> NoField, max |-> 0, freq |-> 0, name |-> 0, host |-> NoHost,
            user |-> "*", numeric |-> FALSE, flined |-> FALSE]
Y(n, max, freq) == [Line("Y") EXCEPT !.num = n, !.max = max, !.freq = freq]
I(n) == [Line("I") EXCEPT !.num = n]
F(n) == [Line("I") EXCEPT !.num = n, !.flined = TRUE]
O(n) == [Line("O") EXCEPT !.num = n]
CN(t, n, name, host) == [Line(t) EXCEPT !.num = n, !.name = name, !.host = host]
Numeric(ln) == [ln EXCEPT !.numeric = TRUE]
For(ln, user) == [ln EXCEPT !.user = user]
H(name) == [Line("H") EXCEPT !.name = name]
HOf(name, n) == [H(name) EXCEPT !.num = n]

\* a class of users, with an F line that its limits do not hold, and a class of
\* servers, whose hub line names it as well
Full == <<Y(2, 1, 2), I(2), F(2), O(2), Y(3, 2, 0), HOf(1, 3),
          For(Numeric(CN("C", 3, 1, h1)), "irc"), Numeric(CN("N", 3, 1, h1))>>

\* the first class takes more users, but one of an address; the other is gone, so
\* that its lines fall back to class 0, and the server has moved to a host whose
\* address is to be looked up
Moved == <<Y(2, 2, 1), I(2), Line("bad"),
           CN("C", 3, 1, h2), Numeric(CN("N", 3, 1, h2))>>
Steady == {Full, Moved}

\* not in Conf_all.cfg: a hub line of a class that is gone, so that ClassesKept fails
Hubless == {Full, <<HOf(1, 3)>>}

Symmetry == Permutations(Slots)
=============================================================================
