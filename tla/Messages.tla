------------------------------ MODULE Messages ------------------------------
(***************************************************************************)
(* The routing of messages over a tree of servers: PRIVMSG and NOTICE to   *)
(* nicks, channels, channel operators, masks and user@server, KNOCK, a     *)
(* query sent with hunt_server, the error replies that come back as        *)
(* numerics, and the flood controls in the way (m_message.c, send.c,       *)
(* flud.c, parse.c, s_serv.c, channel.c).                                  *)
(*                                                                         *)
(* While messages are under way users come and go, join, leave and lose    *)
(* their rights; a nick that is free may be taken by another user          *)
(* elsewhere.  Nick collisions and the merging of channels are the         *)
(* business of NickTS and ChannelTS and do not occur here.                 *)
(*                                                                         *)
(* A message carries a label, by which the copies of it are counted.       *)
(***************************************************************************)
EXTENDS Flud, FiniteSets

CONSTANTS Server, User, Chan,
          DRONETIME, DRONECOUNT,
          PACE_WAIT, KNOCK_DELAY, KNOCK_DELAY_CHANNEL,
          Scenes

\* The clock does not start at 0: no block and no delay is left over.
Start == FLUDBLOCK + PACE_WAIT + KNOCK_DELAY + KNOCK_DELAY_CHANNEL

\* The targets of a message and the commands of users.
Kind == {"nick", "chan", "ops", "voiced", "mask", "at"}
IsTarget(t) == t.k \in Kind /\ (t.k \in {"chan", "ops", "voiced"} => t.x \in Chan)
IsCommand(c) ==
  /\ c.by \in User
  /\ c.cmd \in {"MSG", "KNOCK", "TIME"}
  /\ Len(c.to) \in Nat /\ DOMAIN c.to = 1..Len(c.to)
  /\ c.cmd = "MSG" => /\ c.notice \in BOOLEAN /\ c.ctcp \in BOOLEAN
                      /\ \A k \in DOMAIN c.to : IsTarget(c.to[k])
  /\ c.cmd # "MSG" => Len(c.to) = 1
  /\ c.cmd = "KNOCK" => c.to[1].x \in Chan

\* What all servers are told of users and of the members of channels.
News ==
  [cmd : {"NICK", "QUIT"}, u : User] \cup [cmd : {"JOIN", "PART"}, u : User, c : Chan]
    \cup [cmd : {"MODE"}, by : User, who : User, c : Chan,
            flags : {f \in SUBSET {"in", "o", "v"} : "in" \in f}]

ASSUME UserAssumption == IsFiniteSet(User) /\ User \cap Chan = {}

ASSUME SceneAssumption ==
  /\ {DRONETIME, DRONECOUNT, PACE_WAIT, KNOCK_DELAY, KNOCK_DELAY_CHANNEL} \subseteq Nat
  /\ \A sc \in Scenes :
       /\ sc.links \subseteq Server \X Server
       /\ \A p \in sc.links : <<p[2], p[1]>> \in sc.links
       /\ \A s, t \in Server : s # t => <<s, sc.toward[s][t]>> \in sc.links
       /\ sc.home \in [User -> Server]
       /\ sc.opers \cup sc.start \subseteq User
       /\ sc.caps \in [Server -> SUBSET {"CHW", "KNOCK"}]
       /\ sc.knocks \subseteq Server
       /\ sc.flags \in [Chan -> [User -> SUBSET {"in", "o", "v"}]]
       /\ \A i \in DOMAIN sc.say : IsCommand(sc.say[i])
       /\ sc.events \subseteq News

VARIABLES scene,    \* servers, users, channels and what is to happen
          left,     \* what is still to happen
          now,      \* the clock, in seconds
          online,   \* [Server -> the users it knows]
          flags,    \* [Server -> [Chan -> [User -> membership and its flags]]]
          view,     \* [User -> [Chan -> the members the client has been told of]]
          wire,     \* [link -> the lines on it]
          got,      \* [User -> [Label -> copies received]]
          errs,     \* [User -> [Label -> replies received]]
          sent,     \* the labels that were accepted where they were sent
          lost,     \* those a flood control threw away
          ghosts,   \* users removed as ghosts
          flud,     \* [Server -> the CTCP counters]
          heard,    \* [Server -> [target -> the CTCPs it was sent, when and by whom]]
          drone,    \* [User -> the privmsg counter of a local client]
          knock     \* [Server -> the times of the last KNOCKs]

vars == <<scene, left, now, online, flags, view, wire, got, errs, sent, lost,
          ghosts, flud, heard, drone, knock>>

\* The k-th target of the i-th command, or the departure of a user.
Labels(sc) == UNION {{<<i, k>> : k \in DOMAIN sc.say[i].to} : i \in DOMAIN sc.say} \cup User

Init ==
  /\ scene \in Scenes
  /\ left = [say |-> DOMAIN scene.say, events |-> scene.events, ticks |-> scene.ticks]
  /\ now = Start
  /\ online = [s \in Server |-> scene.start]
  /\ flags = [s \in Server |-> scene.flags]
  /\ view = [u \in User |-> [c \in Chan |->
               IF scene.flags[c][u] = {} THEN {} ELSE {v \in User : scene.flags[c][v] # {}}]]
  /\ wire = [l \in scene.links |-> <<>>]
  /\ got = [u \in User |-> [n \in Labels(scene) |-> 0]]
  /\ errs = got
  /\ sent = {} /\ lost = {} /\ ghosts = {}
  /\ flud = [s \in Server |-> NoFlud(User \cup Chan, User)]
  /\ heard = [s \in Server |-> [t \in User \cup Chan |-> <<>>]]
  /\ drone = [u \in User |-> [first |-> 0, n |-> 0, noticed |-> 0, queue |-> "low"]]
  /\ knock = [s \in Server |-> [used |-> 0, user |-> [u \in User |-> 0],
                                chan |-> [c \in Chan |-> 0]]]

World == [online |-> online, flags |-> flags, view |-> view, wire |-> wire, got |-> got,
          errs |-> errs, sent |-> sent, lost |-> lost, ghosts |-> ghosts, flud |-> flud, heard |-> heard,
          drone |-> drone, knock |-> knock]

Become(w) ==
  /\ online' = w.online /\ flags' = w.flags /\ view' = w.view /\ wire' = w.wire
  /\ got' = w.got /\ errs' = w.errs /\ sent' = w.sent /\ lost' = w.lost
  /\ ghosts' = w.ghosts /\ flud' = w.flud /\ heard' = w.heard /\ drone' = w.drone /\ knock' = w.knock

-----------------------------------------------------------------------------
(* Who is where                                                            *)

Nick(u) == scene.nick[u]
Local(s, u) == scene.home[u] = s                      \* MyConnect
IsOper(u) == u \in scene.opers

\* The `from' of a client: the client itself, or the link it is behind.
From(s, u) == IF Local(s, u) THEN u ELSE scene.toward[s][scene.home[u]]

\* find_person: the user that bears a nick here, as a set.
Bearer(w, s, nick) == {u \in w.online[s] : Nick(u) = nick}

Members(w, s, c) == {u \in User : w.flags[s][c][u] # {}}
With(w, s, c, type) == {u \in User : w.flags[s][c][u] \cap type # {}}
Exists(w, s, c) == Members(w, s, c) # {} \/ "j" \in scene.modes[c]

Links(s) == {t \in Server : <<s, t>> \in scene.links}

-----------------------------------------------------------------------------
(* Sending (send.c)                                                        *)

\* One line to each of the links ts; local clients us each get a copy.
Send(w, s, ts, line) ==
  [w EXCEPT !.wire = [l \in DOMAIN @ |->
     IF l[1] = s /\ l[2] \in ts THEN Append(w.wire[l], line) ELSE w.wire[l]]]

Deliver(w, us, lab) ==
  [w EXCEPT !.got = [u \in User |->
     IF u \in us THEN [w.got[u] EXCEPT ![lab] = @ + 1] ELSE w.got[u]]]

\* sendto_serv_butone: `one' is a user or a link or nobody.
sendto_serv_butone(w, s, one, line) == Send(w, s, Links(s) \ {one}, line)

\* sendto_match_servs: a channel with & is nobody else's business.
sendto_match_servs(w, s, c, one, line) ==
  IF c \in scene.locals THEN w ELSE sendto_serv_butone(w, s, one, line)

\* Slip: only local users get their error replies.
NumericLocal(w, s, u, lab) ==
  IF Local(s, u) THEN [w EXCEPT !.errs[u][lab] = @ + 1] ELSE w

\* A numeric for a user, from this server.
Numeric(w, s, u, lab) ==
  IF Local(s, u) THEN [w EXCEPT !.errs[u][lab] = @ + 1]
  ELSE Send(w, s, {From(s, u)}, [cmd |-> "NUMERIC", by |-> s, to |-> Nick(u), lab |-> lab])

\* Accepted where it was sent.
Accept(w, s, u, lab) == IF Local(s, u) THEN [w EXCEPT !.sent = @ \cup {lab}] ELSE w

\* Slip: a line for every member behind a link.
ButoneEach(w, s, one, c, lab, line) ==
  LET to == {u \in Members(w, s, c) : From(s, u) # one}
      per(t) == [i \in 1..Cardinality({u \in to : From(s, u) = t}) |-> line]
  IN [Deliver(w, {u \in to : Local(s, u)}, lab)
        EXCEPT !.wire = [l \in DOMAIN @ |->
                           IF l[1] = s THEN w.wire[l] \o per(l[2]) ELSE w.wire[l]]]

\* sendto_channel_butone: every local member, and every link once (sentalong).
sendto_channel_butone(w, s, one, c, lab, line) ==
  LET to == {u \in Members(w, s, c) : From(s, u) # one} IN
  Send(Deliver(w, {u \in to : Local(s, u)}, lab),
       s, {From(s, u) : u \in {v \in to : ~Local(s, v)}}, line)

\* A NOTICE to each of the users behind a link that has not the capability.
Notices(w, s, by, us, lab) ==
  LET line(u) == [cmd |-> "MSG", by |-> Nick(by), notice |-> TRUE, ctcp |-> FALSE,
                  to |-> <<[k |-> "nick", x |-> Nick(u), lab |-> lab]>>]
      per(t) == LET q == SetToSeq({u \in us : From(s, u) = t})
                IN [i \in DOMAIN q |-> line(q[i])]
  IN [w EXCEPT !.wire = [l \in DOMAIN @ |->
        IF l[1] = s THEN w.wire[l] \o per(l[2]) ELSE w.wire[l]]]

Has(s, u, cap) == cap \in scene.caps[From(s, u)]

\* Slip: only one member behind a link without the capability is told.
TypeOnce(w, s, one, by, c, type, lab) ==
  LET to == {u \in With(w, s, c, type) : From(s, u) # one}
      far == {u \in to : ~Local(s, u)}
      few == {u \in far : ~Has(s, u, "CHW")}
      at == [k |-> "ops", x |-> c, lab |-> lab]
      line == [cmd |-> "MSG", by |-> Nick(by), to |-> <<at>>, notice |-> TRUE, ctcp |-> FALSE]
  IN Notices(Send(Deliver(w, to \ far, lab), s, {From(s, u) : u \in far \ few}, line),
             s, by, IF few = {} THEN {} ELSE {CHOOSE u \in few : TRUE}, lab)

\* sendto_channel_type.  The character sent on is `@' whenever the type has
\* the operators in it, and it always has.
sendto_channel_type(w, s, one, by, c, type, lab) ==
  LET to == {u \in With(w, s, c, type) : From(s, u) # one}
      far == {u \in to : ~Local(s, u)}
      chw == {u \in far : Has(s, u, "CHW")}
      at == [k |-> "ops", x |-> c, lab |-> lab]
      line == [cmd |-> "MSG", by |-> Nick(by), to |-> <<at>>, notice |-> TRUE, ctcp |-> FALSE]
  IN Notices(Send(Deliver(w, to \ far, lab), s, {From(s, u) : u \in chw}, line),
             s, by, far \ chw, lab)

send_knock(w, s, one, by, c, lab) ==
  LET to == {u \in With(w, s, c, {"o"}) : From(s, u) # one}
      far == {u \in to : ~Local(s, u)}
      able == {u \in far : Has(s, u, "KNOCK")}
      line == [cmd |-> "KNOCK", by |-> Nick(by), c |-> c, lab |-> lab]
  IN Notices(Send(Deliver(w, to \ far, lab), s, {From(s, u) : u \in able}, line),
             s, by, far \ able, lab)

\* sendto_match_butone: the local users of a matching server, the sender not
\* excepted, and every link but the one it came from.
sendto_match_butone(w, s, one, mask, lab, line) ==
  LET here == IF s \in mask THEN {u \in w.online[s] : Local(s, u)} ELSE {} IN
  sendto_serv_butone(Deliver(w, here, lab), s, one, line)

-----------------------------------------------------------------------------
(* Coming and going                                                        *)

\* Slip: the user leaves its channels before the others are told.
CommonLate(w, s, u) == {}

\* Those who share a channel with u, each once (sendto_common_channels).
Common(w, s, u) ==
  {v \in w.online[s] \ {u} : Local(s, v) /\ \E c \in Chan : {u, v} \subseteq Members(w, s, c)}

\* The fluders of a channel that has lost its last member.
FreeEmpty(w, s, f) == free_fluders(f, {c \in Chan : ~Exists(w, s, c)})

\* exit_one_client and release_client_state: u leaves the lists of s.
exit_one_client(w, s, u) ==
  LET told == Common(w, s, u)
      v == [Deliver(w, told, u) EXCEPT
             !.online[s] = @ \ {u},
             !.flags[s] = [c \in Chan |-> [@[c] EXCEPT ![u] = {}]],
             !.view = [x \in User |-> IF x \in told THEN [c \in Chan |-> w.view[x][c] \ {u}]
                                      ELSE w.view[x]]]
      f == IF Local(s, u) THEN free_fluders(w.flud[s], {u}) ELSE w.flud[s]
  IN [v EXCEPT !.flud[s] = FreeEmpty(v, s, free_fludees(f, u))]

\* A line that all the servers are to have, and what each does with it.
Apply(w, s, m) ==
  LET near == {v \in User : Local(s, v) /\ v \in Members(w, s, m.c)} IN
  CASE m.cmd = "NICK" -> [w EXCEPT !.online[s] = @ \cup {m.u}]
    [] m.cmd = "QUIT" -> exit_one_client(w, s, m.u)
    [] m.cmd = "JOIN" ->
         [w EXCEPT !.flags[s][m.c][m.u] = {"in"},
                   !.view = [v \in User |->
                      IF v \in near THEN [w.view[v] EXCEPT ![m.c] = @ \cup {m.u}]
                      ELSE IF v = m.u /\ Local(s, v)
                      THEN [w.view[v] EXCEPT ![m.c] = Members(w, s, m.c) \cup {m.u}]
                      ELSE w.view[v]]]
    [] m.cmd = "PART" ->
         LET v == [w EXCEPT !.flags[s][m.c][m.u] = {},
                            !.view = [x \in User |->
                               IF x = m.u /\ Local(s, x) THEN [w.view[x] EXCEPT ![m.c] = {}]
                               ELSE IF x \in near THEN [w.view[x] EXCEPT ![m.c] = @ \ {m.u}]
                               ELSE w.view[x]]]
         IN [v EXCEPT !.flud[s] = FreeEmpty(v, s, @)]
    [] m.cmd = "MODE" ->
         IF m.who \notin Members(w, s, m.c) THEN w
         ELSE [w EXCEPT !.flags[s][m.c][m.who] = m.flags]

Everywhere(w, s, one, m) ==
  LET v == Apply(w, s, m) IN
  IF m.cmd \in {"NICK", "QUIT"} THEN sendto_serv_butone(v, s, one, m)
  ELSE sendto_match_servs(v, s, m.c, one, m)

Killed(w, s, one, nick) ==
  LET us == Bearer(w, s, nick)
      u == CHOOSE x \in us : TRUE
  IN IF us = {} THEN w
     ELSE exit_one_client(sendto_serv_butone(w, s, one, [cmd |-> "KILL", nick |-> nick]), s, u)

-----------------------------------------------------------------------------
(* A message to one user (vsendto_prefix_one)                              *)

\* A user reached by the link the message came from must be a ghost, and is
\* killed on all servers.
sendto_prefix_one(w, s, to, from, lab, line) ==
  IF ~Local(s, from) /\ From(s, to) = From(s, from)
  THEN LET v == Numeric([w EXCEPT !.ghosts = @ \cup {to}], s, from, lab) IN
       exit_one_client(sendto_serv_butone(v, s, {}, [cmd |-> "KILL", nick |-> Nick(to)]), s, to)
  ELSE IF Local(s, to) THEN Deliver(w, {to}, lab)
  ELSE Send(w, s, {From(s, to)}, line)

-----------------------------------------------------------------------------
(* PRIVMSG and NOTICE (m_message): the targets of the list one after the   *)
(* other.  a.type is what an @ or a + has left behind, a.stop that the     *)
(* function has returned.                                                  *)

Flooded(w, s, u, t, m) ==
  IF m.notice \/ ~m.ctcp THEN w
  ELSE [w EXCEPT !.flud[s] = check_for_flud(@, t, u, now),
                 !.heard[s][t] = Append(@, [at |-> now, by |-> u])]

can_send(w, s, u, c) ==
  /\ ~(Local(s, u) /\ "j" \in scene.modes[c])
  /\ "m" \in scene.modes[c] => w.flags[s][c][u] \cap {"o", "v"} # {}
  /\ "n" \in scene.modes[c] => u \in Members(w, s, c)

\* An operator's # may be a host mask: a channel it is not on is none.
ToChannel(a, s, u, m, t) ==
  LET c == t.x
      v == Flooded(a.w, s, u, c, m)
      line == [m EXCEPT !.to = <<t>>]
      mask == IsOper(u) /\ c \notin scene.locals /\ u \notin Members(a.w, s, c)
  IN IF mask \/ ~Exists(a.w, s, c) THEN [a EXCEPT !.w = Numeric(a.w, s, u, t.lab)]
     ELSE IF can_send(v, s, u, c)
     THEN [a EXCEPT !.w = sendto_channel_butone(Accept(v, s, u, t.lab), s, From(s, u),
                                                c, t.lab, line)]
     ELSE [a EXCEPT !.w = IF m.notice THEN v ELSE Numeric(v, s, u, t.lab)]

\* @#channel, +#channel: operators and voiced members may speak.  A message
\* that has been sent ends the list.
ToType(a, s, u, m, t) ==
  LET c == t.x
      b == [a EXCEPT !.type = IF t.k = "ops" THEN {"o"} ELSE {"o", "v"}]
      v == Flooded(a.w, s, u, c, m)
  IN IF ~Exists(a.w, s, c) THEN [b EXCEPT !.w = Numeric(a.w, s, u, t.lab)]
     ELSE IF u \notin With(a.w, s, c, {"o", "v"})
     THEN [b EXCEPT !.w = IF m.notice THEN v ELSE Numeric(v, s, u, t.lab)]
     ELSE [b EXCEPT !.w = sendto_channel_type(Accept(v, s, u, t.lab), s, From(s, u), u, c,
                                              b.type, t.lab),
                    !.stop = TRUE]

\* Slip: the counter goes on behind its limit.
DroneUncapped(d) == [d EXCEPT !.n = @ + 1, !.first = now]

\* ANTI_DRONE_FLOOD: the counter of a local client that gets a privmsg, its
\* send queue being low (a quarter), high (over a half) or between.
Drone(d) ==
  LET up == IF d.queue = "high" /\ d.noticed <= 1 THEN 2
            ELSE IF d.noticed = 0 THEN 1 ELSE d.noticed
  IN IF DRONETIME = 0 THEN d
     ELSE IF d.first + DRONETIME < now THEN [d EXCEPT !.n = 1, !.first = now, !.noticed = 0]
     ELSE IF d.n <= DRONECOUNT THEN [d EXCEPT !.n = @ + 1]
     ELSE [d EXCEPT !.noticed = IF d.queue = "low" /\ up = 2 THEN 1 ELSE up]

ToNick(a, s, u, m, t) ==
  LET to == CHOOSE x \in Bearer(a.w, s, t.x) : TRUE
      ctcp == Local(s, to) /\ ~m.notice /\ m.ctcp
      v == Accept(IF ctcp THEN Flooded(a.w, s, u, to, m) ELSE a.w, s, u, t.lab)
      counted == Local(s, to) /\ ~IsOper(u)
      x == IF counted THEN [v EXCEPT !.drone[to] = Drone(@)] ELSE v
      lose(y) == [a EXCEPT !.w = [y EXCEPT !.lost = @ \cup {t.lab}], !.stop = TRUE]
  IN IF Bearer(a.w, s, t.x) = {} THEN [a EXCEPT !.w = Numeric(a.w, s, u, t.lab)]
     ELSE IF ctcp /\ Blocking(v.flud[s], to, now) THEN lose(v)
     ELSE IF counted /\ x.drone[to].noticed = 2 THEN lose(x)
     ELSE [a EXCEPT !.w = sendto_prefix_one(x, s, to, u, t.lab, [m EXCEPT !.to = <<t>>])]

\* $mask, for operators only: the list ends for everybody else.
ToMask(a, s, u, m, t) ==
  IF ~IsOper(u) THEN [a EXCEPT !.w = Numeric(a.w, s, u, t.lab), !.stop = TRUE]
  ELSE [a EXCEPT !.w = sendto_match_butone(Accept(a.w, s, u, t.lab), s,
                         IF Local(s, u) THEN {} ELSE From(s, u), t.x, t.lab,
                         [m EXCEPT !.to = <<t>>])]

\* user@server: delivered there if exactly one user has the name.
ToUserAt(a, s, u, m, t) ==
  LET here == {x \in a.w.online[s] : Local(s, x) /\ scene.ident[x] = t.x.user}
      v == Accept(a.w, s, u, t.lab)
      line == [m EXCEPT !.to = <<t>>]
  IN [a EXCEPT !.w =
        IF t.x.server # s THEN Send(v, s, {scene.toward[s][t.x.server]}, line)
        ELSE IF here = {} THEN Numeric(v, s, u, t.lab)
        ELSE IF Cardinality(here) = 1
        THEN sendto_prefix_one(v, s, CHOOSE x \in here : TRUE, u, t.lab, line)
        ELSE IF m.notice THEN v ELSE Numeric(v, s, u, t.lab)]

\* After an @ or + that failed everything but a channel is taken for the
\* name of a channel that does not exist.
Target(a, s, u, m, t) ==
  IF a.stop THEN a
  ELSE IF t.k = "chan" THEN ToChannel(a, s, u, m, t)
  ELSE IF t.k \in {"ops", "voiced"} THEN ToType(a, s, u, m, t)
  ELSE IF a.type # {} THEN [a EXCEPT !.w = Numeric(a.w, s, u, t.lab)]
  ELSE CASE t.k = "nick" -> ToNick(a, s, u, m, t)
         [] t.k = "mask" -> ToMask(a, s, u, m, t)
         [] t.k = "at"   -> ToUserAt(a, s, u, m, t)

m_message(w, s, u, m) ==
  LET loop[i \in 0..Len(m.to)] ==
        IF i = 0 THEN [w |-> w, type |-> {}, stop |-> FALSE]
        ELSE Target(loop[i - 1], s, u, m, m.to[i])
  IN loop[Len(m.to)].w

-----------------------------------------------------------------------------
(* KNOCK, queries, numerics                                                *)

\* The delays of a KNOCK given by a local user; a refused one has used up the
\* server's turn all the same.
Paced(w, s, u) == ~IsOper(u) /\ w.knock[s].used + PACE_WAIT > now
Delayed(w, s, u, c) ==
  \/ w.knock[s].user[u] + KNOCK_DELAY > now
  \/ w.knock[s].chan[c] + KNOCK_DELAY_CHANNEL > now

m_knock(w, s, u, m) ==
  LET c == m.c
      local == Local(s, u)
      refused == IF local THEN Numeric(w, s, u, m.lab) ELSE w
      used == IF local /\ ~IsOper(u) THEN [w EXCEPT !.knock[s].used = now] ELSE w
      v == [used EXCEPT !.knock[s].chan[c] = now,
                        !.knock[s].user = IF local THEN [@ EXCEPT ![u] = now] ELSE @]
      able == {t \in Links(s) \ {From(s, u)} : "KNOCK" \in scene.caps[t]}
  IN IF s \notin scene.knocks
     THEN IF local THEN refused ELSE Send(w, s, able, m)
     ELSE IF \/ ~Exists(w, s, c)
             \/ "i" \notin scene.modes[c]
             \/ local /\ "p" \in scene.modes[c]
             \/ u \in Members(w, s, c)
     THEN refused
     ELSE IF local /\ Paced(w, s, u) THEN w
     ELSE IF local /\ Delayed(w, s, u, c) THEN Numeric(used, s, u, m.lab)
     ELSE send_knock(Accept(v, s, u, m.lab), s, From(s, u), u, c, m.lab)

\* hunt_server: a query goes on to the server named, or to the one of the
\* user named unless that is where it came from.
hunt_server(w, s, u, m) ==
  LET us == {x \in Bearer(w, s, m.x) : Local(s, x) \/ From(s, x) # From(s, u)} IN
  CASE m.x = s -> [isme |-> TRUE, w |-> w]
    [] m.x \in Server \ {s} ->
         [isme |-> FALSE, w |-> Send(w, s, {scene.toward[s][m.x]}, m)]
    [] m.x \notin Server /\ us = {} -> [isme |-> FALSE, w |-> Numeric(w, s, u, m.lab)]
    [] m.x \notin Server /\ us # {} ->
         LET x == CHOOSE y \in us : TRUE IN
         IF Local(s, x) THEN [isme |-> TRUE, w |-> w]
         ELSE [isme |-> FALSE, w |-> Send(w, s, {From(s, x)}, m)]

m_time(w, s, u, m) ==
  LET h == hunt_server(Accept(w, s, u, m.lab), s, u, m) IN
  IF h.isme THEN Numeric(h.w, s, u, m.lab) ELSE h.w

\* Slip: a numeric for an unknown nick is answered (the ping pong that the
\* comment above do_numeric warns of).
NumericAnswered(w, s, t, m) ==
  LET us == Bearer(w, s, m.to)
      u == CHOOSE x \in us : TRUE
  IN IF us = {} THEN Send(w, s, {t}, [m EXCEPT !.by = s])
     ELSE IF From(s, u) = t THEN w
     ELSE IF Local(s, u) THEN [w EXCEPT !.errs[u][m.lab] = @ + 1]
     ELSE Send(w, s, {From(s, u)}, m)

\* do_numeric: a numeric that would go back to where it came from is dropped.
do_numeric(w, s, t, m) ==
  LET us == Bearer(w, s, m.to)
      u == CHOOSE x \in us : TRUE
  IN IF us = {} \/ From(s, u) = t THEN w
     ELSE IF Local(s, u) THEN [w EXCEPT !.errs[u][m.lab] = @ + 1]
     ELSE Send(w, s, {From(s, u)}, m)

-----------------------------------------------------------------------------
(* The steps                                                               *)

\* parse: the sender must be known, by way of this link; one that is unknown
\* is killed where the line came from, one of another direction ignored.
FromUser(w, s, t, m) ==
  LET us == Bearer(w, s, m.by)
      u == CHOOSE x \in us : TRUE
  IN IF us = {} THEN Send(w, s, {t}, [cmd |-> "KILL", nick |-> m.by])
     ELSE IF From(s, u) # t THEN w
     ELSE CASE m.cmd = "MSG"   -> m_message(w, s, u, m)
            [] m.cmd = "KNOCK" -> m_knock(w, s, u, m)
            [] m.cmd = "TIME"  -> m_time(w, s, u, m)

\* Who did it.
Actor(m) == IF m.cmd = "MODE" THEN m.by ELSE m.u

Handle(w, s, t, m) ==
  CASE m.cmd \in {"MSG", "KNOCK", "TIME"} -> FromUser(w, s, t, m)
    [] m.cmd = "NUMERIC" -> do_numeric(w, s, t, m)
    [] m.cmd = "KILL"    -> Killed(w, s, t, m.nick)
    [] m.cmd = "NICK"    -> Everywhere(w, s, t, m)
    [] OTHER             ->
         IF Actor(m) \in w.online[s] THEN Everywhere(w, s, t, m)
         ELSE Send(w, s, {t}, [cmd |-> "KILL", nick |-> Nick(Actor(m))])

read_packet(t, s) ==
  /\ <<t, s>> \in scene.links
  /\ wire[<<t, s>>] # <<>>
  /\ Become(Handle([World EXCEPT !.wire[<<t, s>>] = Tail(@)], s, t, Head(wire[<<t, s>>])))
  /\ UNCHANGED <<scene, left, now>>

\* What the i-th command of the scene makes of the world.
Given(i) ==
  LET c == scene.say[i]
      s == scene.home[c.by]
      labelled == [k \in DOMAIN c.to |-> [k |-> c.to[k].k, x |-> c.to[k].x, lab |-> <<i, k>>]]
  IN CASE c.cmd = "MSG" ->
            m_message(World, s, c.by, [cmd |-> "MSG", by |-> Nick(c.by), to |-> labelled,
                                       notice |-> c.notice, ctcp |-> c.ctcp])
       [] c.cmd = "KNOCK" ->
            m_knock(World, s, c.by, [cmd |-> "KNOCK", by |-> Nick(c.by), c |-> c.to[1].x,
                                     lab |-> <<i, 1>>])
       [] c.cmd = "TIME" ->
            m_time(World, s, c.by, [cmd |-> "TIME", by |-> Nick(c.by), x |-> c.to[1].x,
                                    lab |-> <<i, 1>>])

\* Slip: what is queued of a client that has gone is still obeyed.
CommandDead(i) ==
  /\ i \in left.say
  /\ Become(Given(i))
  /\ left' = [left EXCEPT !.say = @ \ {i}]
  /\ UNCHANGED <<scene, now>>

\* A local user gives a command.
Command(i) ==
  /\ i \in left.say
  /\ scene.say[i].by \in online[scene.home[scene.say[i].by]]
  /\ Become(Given(i))
  /\ left' = [left EXCEPT !.say = @ \ {i}]
  /\ UNCHANGED <<scene, now>>

\* A user comes, goes, joins, leaves, or an operator of a channel takes or
\* gives rights.  A nick can be taken when nobody here bears it.
May(m) ==
  LET s == scene.home[Actor(m)] IN
  CASE m.cmd = "NICK" -> Bearer(World, s, Nick(m.u)) = {}
    [] m.cmd = "QUIT" -> m.u \in online[s]
    [] m.cmd = "JOIN" -> /\ m.u \in online[s] \ Members(World, s, m.c)
                         /\ Members(World, s, m.c) # {}
    [] m.cmd = "PART" -> m.u \in Members(World, s, m.c)
    [] m.cmd = "MODE" -> {m.by} \subseteq With(World, s, m.c, {"o"})

Event(m) ==
  LET s == scene.home[Actor(m)] IN
  /\ m \in left.events
  /\ May(m)
  /\ Become(Everywhere(World, s, {}, m))
  /\ left' = [left EXCEPT !.events = @ \ {m}]
  /\ UNCHANGED <<scene, now>>

\* A second passes; the send queue of a client fills or drains (external).
Tick ==
  /\ left.ticks > 0
  /\ now' = now + 1
  /\ left' = [left EXCEPT !.ticks = @ - 1]
  /\ UNCHANGED <<scene, online, flags, view, wire, got, errs, sent, lost, ghosts, flud,
                 heard, drone, knock>>

Queue(u, level) ==
  /\ u \in scene.fills
  /\ drone[u].queue # level
  /\ drone' = [drone EXCEPT ![u].queue = level]
  /\ UNCHANGED <<scene, left, now, online, flags, view, wire, got, errs, sent, lost, ghosts,
                 flud, heard, knock>>

Next ==
  \/ \E s, t \in Server : read_packet(t, s)
  \/ \E i \in left.say : Command(i)
  \/ \E m \in left.events : Event(m)
  \/ Tick
  \/ \E u \in User, level \in {"low", "middle", "high"} : Queue(u, level)

Quiet == \A l \in scene.links : wire[l] = <<>>

\* A server reads what has come: as long as something is under way, a line
\* is read at some time.
Fairness == []<>Quiet \/ []<><<left' = left /\ wire' # wire>>_vars

Spec == Init /\ [][Next]_vars /\ Fairness

-----------------------------------------------------------------------------
(* Properties                                                              *)

\* The types of the lists and of the counters.
TypeOK ==
  /\ scene \in Scenes
  /\ now \in Nat
  /\ online \in [Server -> SUBSET User]
  /\ flags \in [Server -> [Chan -> [User -> SUBSET {"in", "o", "v"}]]]
  /\ view \in [User -> [Chan -> SUBSET User]]
  /\ \A u \in User : drone[u].noticed \in 0..2 /\ drone[u].n \in 0..(DRONECOUNT + 1)
  /\ sent \cup lost \subseteq Labels(scene)

\* No copy of a message, of a departure or of a reply reaches anybody twice,
\* whoever joins, leaves or goes while it is under way.
AtMostOnce == \A u \in User, n \in Labels(scene) : got[u][n] <= 1 /\ errs[u][n] <= 1

\* A user nothing happens to.
Steady(u) ==
  /\ u \in scene.start
  /\ \A m \in scene.events : u # (IF m.cmd = "MODE" THEN m.who ELSE m.u)

Flag(c, type) == {u \in User : scene.flags[c][u] \cap type # {}}

\* Those who must, and those who may, get what was sent to many.
Must(i, k) ==
  LET by == scene.say[i].by
      c == scene.say[i].to[k].x
  IN CASE scene.say[i].cmd = "KNOCK" -> {u \in Flag(c, {"o"}) : scene.home[u] \in scene.knocks}
       [] scene.say[i].to[k].k = "chan" -> Flag(c, {"in"}) \ {by}
       [] scene.say[i].to[k].k = "ops" -> Flag(c, {"o"}) \ {by}
       [] scene.say[i].to[k].k = "voiced" ->
            {u \in Flag(c, {"o", "v"}) \ {by} :
               "o" \in scene.flags[c][u] \/ scene.home[u] = scene.home[by]}
       [] scene.say[i].to[k].k = "mask" -> {u \in User : scene.home[u] \in c}

MayGet(i, k) ==
  LET t == scene.say[i].to[k] IN
  CASE scene.say[i].cmd = "KNOCK" -> Flag(t.x, {"o"})
    [] t.k = "voiced" -> Flag(t.x, {"o", "v"}) \ {scene.say[i].by}
    [] OTHER -> Must(i, k)

Many(i, k) == scene.say[i].cmd = "KNOCK" \/ scene.say[i].to[k].k \in {"chan", "ops", "voiced", "mask"}

\* What was accepted from a user nothing happens to reaches every member,
\* operator or user of the mask nothing happens to, however the links are
\* equipped (CHW, KNOCK) and whatever the others do meanwhile, and nobody
\* else.
ReachesAll ==
  \A i \in DOMAIN scene.say : \A k \in DOMAIN scene.say[i].to :
    Many(i, k) => \A u \in User :
      /\ Steady(u) /\ u \notin MayGet(i, k) => got[u][<<i, k>>] = 0
      /\ /\ Quiet /\ <<i, k>> \in sent
         /\ Steady(scene.say[i].by) /\ Steady(u) /\ u \in Must(i, k)
         => got[u][<<i, k>>] = 1

\* What was sent to one user ends exactly once: it reaches the one that bears
\* the nick, or the sender gets a reply, or a flood control of the receiving
\* server took it; a query is answered once.
OneOutcome ==
  \A i \in DOMAIN scene.say : \A k \in DOMAIN scene.say[i].to :
    LET n == <<i, k>>
        by == scene.say[i].by
        t == scene.say[i].to[k]
        to == {u \in User : got[u][n] > 0}
        fates == Cardinality(to) + errs[by][n] + Cardinality({n} \cap lost)
    IN ~Many(i, k) =>
         /\ fates <= 1
         /\ Quiet /\ n \in sent /\ Steady(by) => fates = 1
         /\ \A u \in to : CASE t.k = "nick" -> Nick(u) = t.x
                            [] t.k = "at" -> scene.ident[u] = t.x.user /\ scene.home[u] = t.x.server
         /\ \A u \in User \ {by} : errs[u][n] = 0

\* A message never makes a server take its receiver for a ghost and kill it
\* in the middle of the walk over a member list (vsendto_prefix_one), and a
\* line never comes from somebody unknown.
NeverGhosted ==
  /\ ghosts = {}
  /\ \A l \in scene.links : \A i \in DOMAIN wire[l] : wire[l][i].cmd # "KILL"

\* A client has been told of exactly the members its server lists for the
\* channels it is on.
ViewRight ==
  \A u \in User, c \in Chan :
    LET s == scene.home[u] IN
    u \in Members(World, s, c) => view[u][c] = Members(World, s, c)

\* The flood lists hold no one who has gone and no channel that is no more,
\* and both ends of every entry are there.
FludListsRight ==
  \A s \in Server :
    LET f == flud[s] IN
    /\ Crossed(f)
    /\ \A u \in User : /\ f.fludees[u] # <<>> => u \in online[s]
                       /\ f.fluders[u] # <<>> => u \in online[s] /\ Local(s, u)
    /\ \A c \in Chan : f.fluders[c] # <<>> => Exists(World, s, c)

\* A block begins only when more than FLUDNUM CTCPs came in FLUDTIME seconds.
FludBlocksFloods ==
  [][\A s \in Server, t \in User \cup Chan :
       ~Blocking(flud[s], t, now) /\ Blocking(flud'[s], t, now')
         => Cardinality({i \in DOMAIN heard'[s][t] : heard'[s][t][i].at >= now - FLUDTIME})
              > FLUDNUM]_vars

\* Everything that was sent comes to an end.
Settles == <>[]Quiet

\* A message reaches the members it is for, or the one user it is for, or its
\* sender learns that it does not; and what clients were told of the members of
\* a channel is what their server lists (m_message, sendto_channel_butone,
\* sendto_channel_type, sendto_common_channels).
Heard == ReachesAll /\ OneOutcome /\ NeverGhosted /\ ViewRight

\* The variables have their types, and the two sides of the flood lists match
\* whoever exits (check_for_flud, free_fluders, free_fludees).
ListsSound == TypeOK /\ FludListsRight
=============================================================================
