------------------------------- MODULE MCUsers -------------------------------
(* Three servers in a row, a - b - c, and what may happen on them. *)
EXTENDS Users, TLC

CONSTANTS a, b, c, u1, u2, u3, u4, u5

Chain == (a :> (b :> b @@ c :> b) @@ b :> (a :> a @@ c :> c) @@ c :> (a :> b @@ b :> b))

Nick(u) == [cmd |-> "NICK", u |-> u]
Mode(u, add, del) == [cmd |-> "MODE", u |-> u, add |-> add, del |-> del]
Oper(u, global, hold) == [cmd |-> "OPER", u |-> u, line |-> [global |-> global, hold |-> hold]]
Away(u, on) == [cmd |-> "AWAY", u |-> u, on |-> on]
Gone(u) == [cmd |-> "QUIT", u |-> u]
Kill(by, u) == [cmd |-> "KILL", by |-> by, u |-> u]
Say(cmd, by) == [cmd |-> cmd, by |-> by]
Lose(s, t) == [cmd |-> "CUT", s |-> s, t |-> t]
Make(s, t) == [cmd |-> "LINK", s |-> s, t |-> t]
Squit(by, name) == [cmd |-> "SQUIT", by |-> by, name |-> name]

Plain ==
  [links |-> {<<a, b>>, <<b, a>>, <<b, c>>, <<c, b>>}, toward |-> Chain,
   home |-> (u1 :> a @@ u2 :> b @@ u3 :> c @@ u4 :> a @@ u5 :> c),
   start |-> User, burst_away |-> FALSE, modes |-> [u \in User |-> {"i"}], events |-> {}]

\* Users register, become operators of both kinds, change their modes, are
\* killed and quit.
Ranks == [Plain EXCEPT
  !.start = {u1, u3, u4},
  !.modes = [@ EXCEPT ![u1] = {"i", "o", "s"}, ![u4] = {"s"}],
  !.events = {Nick(u2), Oper(u2, TRUE, {}), Mode(u2, {"s"}, {"o", "i"}), Oper(u4, FALSE, {}),
              Mode(u4, {"i", "w"}, {"o"}), Kill(u1, u2), Kill(u4, u1), Gone(u4)}]
Twice == [Plain EXCEPT
  !.modes = [@ EXCEPT ![u1] = {"o", "w"}, ![u3] = {}],
  !.events = {Oper(u3, TRUE, {"w", "l"}), Oper(u3, FALSE, {}), Mode(u3, {"o", "w"}, {"i"}),
              Mode(u3, {"z"}, {"o"}), Kill(u3, u1), Kill(u1, u3), Gone(u3)}]

\* An O line that makes its operators invisible.
Hidden == [Plain EXCEPT
  !.modes = [@ EXCEPT ![u2] = {}],
  !.events = {Mode(u1, {}, {"i"}), Oper(u1, TRUE, {"i", "w"}), Mode(u1, {"w"}, {"i", "o"}),
              Oper(u2, FALSE, {"i"}), Gone(u2), Nick(u2)}]

\* A link is lost and made again, by one side or the other.
Splits == [Plain EXCEPT
  !.burst_away = TRUE,
  !.start = {u1, u2, u3, u4},
  !.events = {Lose(b, c), Make(b, c), Nick(u5), Mode(u3, {"w"}, {"i"}), Away(u3, TRUE),
              Gone(u1), Oper(u4, TRUE, {})}]
SplitsFar == [Plain EXCEPT
  !.modes = [@ EXCEPT ![u3] = {"o", "w", "z"}],
  !.events = {Lose(a, b), Make(b, a), Lose(b, c), Make(c, b), Mode(u3, {"i"}, {"o"}), Away(u1, TRUE),
              Gone(u4)}]

\* A far server is squitted while its users come and change.
Squits == [Plain EXCEPT
  !.start = {u1, u2, u3, u4},
  !.modes = [@ EXCEPT ![u1] = {"o", "w", "s"}, ![u2] = {"o", "w"}, ![u4] = {"O", "w"}],
  !.events = {Squit(u1, c), Nick(u5), Mode(u3, {"w"}, {"i"}), Gone(u3), Away(u4, TRUE)}]
SquitsNear == [Plain EXCEPT
  !.modes = [@ EXCEPT ![u1] = {"o", "w"}, ![u2] = {"O", "s", "w"}, ![u3] = {"o", "w"}, ![u4] = {"O"}],
  !.events = {Squit(u2, c), Squit(u2, a), Squit(u4, b), Squit(u3, a), Away(u3, TRUE)}]

Rejoins == [Squits EXCEPT
  !.events = {Squit(u1, c), Make(b, c), Mode(u1, {}, {"o"}), Oper(u4, TRUE, {}), Away(u2, TRUE)}]

\* Messages to operators while others become operators or cease to be.
Words == [Plain EXCEPT
  !.modes = [@ EXCEPT ![u1] = {"o", "z", "w"}, ![u2] = {"O", "z", "l"}, ![u3] = {"o", "z"},
                      ![u4] = {"O", "l", "z"}],
  !.events = {Say("WALLOPS", u1), Say("OPERWALL", u1), Say("LOCOPS", u4), Say("OPERWALL", u2),
              Say("WALLOPS", u3), Oper(u5, TRUE, {})}]
WordsOf == [Plain EXCEPT
  !.modes = [@ EXCEPT ![u1] = {"o", "z", "w"}, ![u2] = {"O", "z", "l"}, ![u4] = {"O", "s", "z"}],
  !.events = {Oper(u5, TRUE, {}), Say("OPERWALL", u5), Say("WALLOPS", u5), Mode(u5, {"i"}, {"o"}),
              Oper(u3, FALSE, {"z"}), Say("OPERWALL", u3), Say("LOCOPS", u3)}]

TheScenes == {Ranks, Twice, Hidden, Splits, SplitsFar, Squits, SquitsNear, Rejoins, Words, WordsOf}
=============================================================================
