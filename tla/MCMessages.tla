----------------------------- MODULE MCMessages -----------------------------
(* Three servers in a row, sa - sb - sc, and what may happen on them. *)
EXTENDS Messages

CONSTANTS sa, sb, sc, u1, u2, u3, u4, u5, ch

Chain == (sa :> (sb :> sb @@ sc :> sb) @@ sb :> (sa :> sa @@ sc :> sc) @@ sc :> (sa :> sb @@ sb :> sb))
Row == {<<sa, sb>>, <<sb, sa>>, <<sb, sc>>, <<sc, sb>>}

Flags(f) == [x \in Chan |-> [u \in User |-> IF u \in DOMAIN f THEN f[u] ELSE {}]]
Homes(f) == [u \in User |-> f[u]]

Msg(by, to) == [cmd |-> "MSG", by |-> by, to |-> to, notice |-> FALSE, ctcp |-> FALSE]
Note(by, to) == [Msg(by, to) EXCEPT !.notice = TRUE]
Ctcp(by, to) == [Msg(by, to) EXCEPT !.ctcp = TRUE]
To(k, x) == [k |-> k, x |-> x]
Ask(by, x) == [cmd |-> "TIME", by |-> by, to |-> <<To("name", x)>>]
Knock(by) == [cmd |-> "KNOCK", by |-> by, to |-> <<To("knock", ch)>>]

Quit(u) == [cmd |-> "QUIT", u |-> u]
Come(u) == [cmd |-> "NICK", u |-> u]
Join(u) == [cmd |-> "JOIN", u |-> u, c |-> ch]
Part(u) == [cmd |-> "PART", u |-> u, c |-> ch]
Mode(by, who, f) == [cmd |-> "MODE", by |-> by, who |-> who, c |-> ch, flags |-> f]

Plain ==
  [links |-> Row, toward |-> Chain,
   caps |-> [s \in Server |-> {"CHW", "KNOCK"}], knocks |-> {},
   nick |-> (u1 :> "n1" @@ u2 :> "n2" @@ u3 :> "n3" @@ u4 :> "n4" @@ u5 :> "n5"),
   ident |-> (u1 :> "i1" @@ u2 :> "i2" @@ u3 :> "i3" @@ u4 :> "i4" @@ u5 :> "i3"),
   home |-> (u1 :> sa @@ u2 :> sb @@ u3 :> sc @@ u4 :> sa @@ u5 :> sc),
   opers |-> {}, start |-> User,
   flags |-> Flags(<<>>), modes |-> [x \in Chan |-> {"n"}], locals |-> {},
   say |-> <<>>, events |-> {}, ticks |-> 0, fills |-> {}]

In == {"in"}
Op == {"in", "o"}
Voice == {"in", "v"}

\* Messages to a channel while others join, leave and quit.
Talk == [Plain EXCEPT
  !.flags = Flags(u1 :> Op @@ u2 :> In @@ u3 :> In @@ u4 :> In),
  !.say = <<Msg(u1, <<To("chan", ch)>>), Msg(u3, <<To("chan", ch)>>)>>,
  !.events = {Quit(u2), Join(u5), Part(u4)}]

\* The right to speak is taken while the message is under way.
Mute == [Plain EXCEPT
  !.flags = Flags(u1 :> Voice @@ u2 :> Op @@ u3 :> In @@ u4 :> Voice),
  !.modes = [x \in Chan |-> {"m", "n"}],
  !.say = <<Msg(u1, <<To("chan", ch)>>), Note(u4, <<To("chan", ch)>>), Msg(u3, <<To("chan", ch)>>)>>,
  !.events = {Mode(u2, u1, In), Part(u2)}]

\* A nick moves from sc to sa or to sb while messages for it are under way.
Moves == [Plain EXCEPT
  !.start = User \ {u4, u5},
  !.nick = (u1 :> "n1" @@ u2 :> "n2" @@ u3 :> "n3" @@ u4 :> "n3" @@ u5 :> "n5"),
  !.say = <<Msg(u1, <<To("nick", "n3")>>), Note(u2, <<To("nick", "n3"), To("nick", "n1")>>),
            Ask(u1, "n3"), Msg(u3, <<To("nick", "n1")>>)>>,
  !.events = {Quit(u3), Come(u4)}]
MovesNear == [Moves EXCEPT !.home = [@ EXCEPT ![u4] = sb],
                           !.say = <<Msg(u1, <<To("nick", "n3")>>), Ask(u1, "n3"), Ask(u1, sc)>>]

\* user@server, masks, queries, an operator.
Names == [Plain EXCEPT
  !.opers = {u1},
  !.say = <<Msg(u2, <<To("at", [user |-> "i3", server |-> sc]), To("mask", {sa, sc})>>),
            Msg(u1, <<To("mask", {sa, sc}), To("chan", ch)>>), Ask(u3, sa)>>,
  !.events = {Quit(u5), Quit(u3)}]

\* Messages to the operators and to the voiced, links with and without CHW,
\* and what follows them in the list.
Wall(caps) == [Plain EXCEPT
  !.caps = [s \in Server |-> IF s = sc THEN caps ELSE {"CHW", "KNOCK"}],
  !.flags = Flags(u1 :> Op @@ u2 :> Voice @@ u3 :> Op @@ u4 :> Voice @@ u5 :> Op),
  !.say = <<Msg(u1, <<To("ops", ch), To("nick", "n2")>>), Note(u2, <<To("voiced", ch)>>),
            Msg(u3, <<To("ops", ch)>>)>>,
  !.events = {Mode(u1, u4, Op), Part(u4)}]
Denied == [Plain EXCEPT
  !.flags = Flags(u2 :> Op @@ u3 :> Voice @@ u4 :> In),
  !.say = <<Msg(u1, <<To("ops", ch), To("nick", "n2"), To("mask", {sa})>>),
            Note(u4, <<To("voiced", ch), To("chan", ch)>>), Msg(u5, <<To("chan", ch)>>)>>,
  !.events = {Part(u2), Quit(u3)}]

\* KNOCK among servers that were compiled with and without it.
Knocks(able, caps) == [Plain EXCEPT
  !.knocks = able, !.caps = [s \in Server |-> IF s = sc THEN caps ELSE {"KNOCK"}],
  !.flags = Flags(u2 :> Op @@ u3 :> Op @@ u5 :> Op),
  !.modes = [x \in Chan |-> {"i"}],
  !.say = <<Knock(u1), Knock(u4), Knock(u1), Knock(u2)>>,
  !.events = {Part(u5)}, !.ticks = 2]

\* CTCPs to a client and to a channel, the queue of a client.
Flood == [Plain EXCEPT
  !.home = [@ EXCEPT ![u4] = sb],
  !.flags = Flags(u2 :> Op @@ u3 :> In),
  !.modes = [x \in Chan |-> {}],
  !.say = <<Ctcp(u1, <<To("nick", "n2")>>), Ctcp(u1, <<To("nick", "n2")>>),
            Ctcp(u4, <<To("nick", "n2"), To("nick", "n2")>>)>>,
  !.events = {Quit(u1), Quit(u2)}, !.ticks = 2]
FloodSlow == [Flood EXCEPT
  !.say = <<Ctcp(u4, <<To("nick", "n2")>>), Ctcp(u4, <<To("nick", "n2")>>),
            Ctcp(u4, <<To("nick", "n2"), To("nick", "n2")>>), Ctcp(u3, <<To("nick", "n2")>>)>>,
  !.events = {Quit(u4)}, !.ticks = 4]
FloodChan == [Flood EXCEPT
  !.flags = Flags(u2 :> Op),
  !.say = <<Ctcp(u1, <<To("chan", ch)>>), Ctcp(u4, <<To("chan", ch)>>), Ctcp(u2, <<To("ops", ch)>>)>>,
  !.events = {Quit(u1), Part(u2)}, !.ticks = 1]
Drones == [Plain EXCEPT
  !.say = <<Msg(u1, <<To("nick", "n2")>>), Note(u4, <<To("nick", "n2")>>),
            Msg(u3, <<To("nick", "n2")>>), Msg(u3, <<To("nick", "n2")>>)>>,
  !.ticks = 2, !.fills = {u2}]

\* A channel of one server, and one that is juped.
Special == [Plain EXCEPT
  !.flags = Flags(u1 :> Op @@ u4 :> In),
  !.locals = Chan,
  !.say = <<Msg(u1, <<To("chan", ch)>>), Msg(u4, <<To("chan", ch)>>)>>,
  !.events = {Part(u4), Quit(u1)}]
Juped == [Special EXCEPT !.locals = {}, !.modes = [x \in Chan |-> {"j"}]]

TheScenes ==
  {Talk, Mute, Moves, MovesNear, Names, Wall({"CHW"}), Wall({}), Denied,
   Knocks({sa, sb, sc}, {"KNOCK"}), Knocks({sa, sc}, {"KNOCK"}), Knocks({sa, sb}, {}),
   Flood, FloodSlow, FloodChan, Drones, Special, Juped}
=============================================================================
