-------------------------------- MODULE Users --------------------------------
(***************************************************************************)
(* Users, their modes and the operators, as each server lists and counts   *)
(* them: registration and its NICK line, MODE of a user, OPER, AWAY, QUIT, *)
(* KILL, the burst after a link and the removals after a split, LUSERS,    *)
(* and what is sent to operators: WALLOPS, OPERWALL, LOCOPS and notices    *)
(* (s_user.c, m_oper.c, m_kill.c, m_away.c, client.c, send.c).             *)
(*                                                                         *)
(* The servers form a tree whose links may go and come again; how a link   *)
(* is made is the business of Links, nick collisions that of NickTS: every *)
(* user has a nick of its own.                                             *)
(***************************************************************************)
EXTENDS Integers, Sequences, FiniteSets, SequencesExt

CONSTANTS Server, User, Scenes

\* Invisible, operator, wallops; local operator, server notices, operwall,
\* locops.  Only the first three are told to other servers.
Modes == {"i", "o", "w", "O", "s", "z", "l"}
SEND_UMODES == {"i", "o", "w"}
OPER_UMODES == {"o", "w", "s", "z"}
LOCOP_UMODES == {"O", "w", "s"}

\* What a client may ask for.  A MODE of O is read as one of o; an O line gives
\* neither (oper_flags_from_string).  CUT and LINK are events of the net.
Event ==
  [cmd : {"NICK", "QUIT"}, u : User]
    \cup [cmd : {"MODE"}, u : User, add : SUBSET (Modes \ {"O"}), del : SUBSET (Modes \ {"O"})]
    \cup [cmd : {"OPER"}, u : User,
          line : [global : BOOLEAN, hold : SUBSET (Modes \ {"o", "O"})]]
    \cup [cmd : {"AWAY"}, u : User, on : BOOLEAN]
    \cup [cmd : {"KILL"}, by : User, u : User]
    \cup [cmd : {"WALLOPS", "OPERWALL", "LOCOPS"}, by : User]
    \cup [cmd : {"SQUIT"}, by : User, name : Server]
    \cup [cmd : {"CUT", "LINK"}, s : Server, t : Server]

ASSUME UserAssumption == IsFiniteSet(User) /\ IsFiniteSet(Server) /\ User \cap Server = {}

ASSUME SceneAssumption ==
  \A sc \in Scenes :
    /\ sc.links \subseteq {p \in Server \X Server : p[1] # p[2]}
    /\ \A p \in sc.links : <<p[2], p[1]>> \in sc.links
    /\ \A s, t \in Server : s # t => <<s, sc.toward[s][t]>> \in sc.links
    /\ sc.home \in [User -> Server]
    /\ sc.start \subseteq User
    /\ sc.modes \in [User -> SUBSET Modes]
    /\ sc.burst_away \in BOOLEAN      \* compiled with BURST_AWAY
    /\ sc.events \subseteq Event

VARIABLES scene,    \* the tree, the users and what is to happen
          left,     \* what is still to happen
          st,       \* [link -> "down", "open" or "up" at its first end]
          wire,     \* [link -> the lines on it]
          known,    \* [Server -> the other servers it knows]
          here,     \* [Server -> the users it knows]
          umodes,   \* [Server -> [User -> modes]]
          away,     \* [Server -> the users that are away]
          count,    \* [Server -> Count: total, invisi, oper, local]
          opers,    \* [Server -> oper_cptr_list]
          got,      \* [User -> [event -> copies of its message]]
          sent,     \* the messages accepted and the servers they are for
          slips     \* [Server -> what Count is known to be wrong by]

vars == <<scene, left, st, wire, known, here, umodes, away, count, opers, got, sent, slips>>

NoLabel == [cmd |-> "none"]
Labels(sc) == sc.events \cup {NoLabel}

Home(u) == scene.home[u]
Local(s, u) == Home(u) = s
AnOper(m) == m \cap {"o", "O"} # {}

\* What there is to count (the loop of show_lusers).
Recount(h, m, s) ==
  [total |-> Cardinality(h[s]),
   invisi |-> Cardinality({u \in h[s] : "i" \in m[s][u]}),
   oper |-> Cardinality({u \in h[s] : AnOper(m[s][u])}),
   local |-> Cardinality({u \in h[s] : Local(s, u)})]

NoSlip == [total |-> 0, invisi |-> 0]

Init ==
  /\ scene \in Scenes
  /\ left = scene.events
  /\ st = [l \in scene.links |-> "up"]
  /\ wire = [l \in scene.links |-> <<>>]
  /\ known = [s \in Server |-> Server \ {s}]
  /\ here = [s \in Server |-> scene.start]
  /\ umodes = [s \in Server |-> [u \in User |->
                IF u \notin scene.start THEN {}
                ELSE IF Local(s, u) THEN scene.modes[u] ELSE scene.modes[u] \cap SEND_UMODES]]
  /\ away = [s \in Server |-> {}]
  /\ count = [s \in Server |-> Recount(here, umodes, s)]
  /\ opers = [s \in Server |->
                SetToSeq({u \in scene.start : Local(s, u) /\ AnOper(scene.modes[u])})]
  /\ got = [u \in User |-> [m \in Labels(scene) |-> 0]]
  /\ sent = {}
  /\ slips = [s \in Server |-> NoSlip]

World == [st |-> st, wire |-> wire, known |-> known, here |-> here, umodes |-> umodes,
          away |-> away, count |-> count, opers |-> opers, got |-> got, sent |-> sent,
          slips |-> slips]

Become(w) ==
  /\ st' = w.st /\ wire' = w.wire /\ known' = w.known /\ here' = w.here
  /\ umodes' = w.umodes /\ away' = w.away /\ count' = w.count /\ opers' = w.opers
  /\ got' = w.got /\ sent' = w.sent /\ slips' = w.slips

-----------------------------------------------------------------------------
(* Sending (send.c)                                                        *)

Links(w, s) == {t \in Server : <<s, t>> \in scene.links /\ w.st[<<s, t>>] = "up"}

\* sendto_one for each of the links ts: an end that is closed hears nothing.
Send(w, s, ts, line) ==
  [w EXCEPT !.wire = [l \in DOMAIN @ |->
     IF l[1] = s /\ l[2] \in ts /\ w.st[<<l[2], s>>] # "down" THEN Append(w.wire[l], line)
     ELSE w.wire[l]]]

sendto_serv_butone(w, s, one, line) == Send(w, s, Links(w, s) \ {one}, line)

Deliver(w, us, lab) ==
  [w EXCEPT !.got = [u \in User |->
     IF u \in us THEN [w.got[u] EXCEPT ![lab] = @ + 1] ELSE w.got[u]]]

\* Accepted, and for whom.
Accept(w, lab, servers) == [w EXCEPT !.sent = @ \cup {[lab |-> lab, to |-> servers]}]

\* The local users a list walk finds: sendto_ops goes through the local
\* users, the others through the operator list.
Listed(w, s, mode) == {u \in Range(w.opers[s]) : mode \in w.umodes[s][u]}

sendto_ops(w, s, lab) ==
  Deliver(w, {u \in w.here[s] : /\ Local(s, u)
                                /\ AnOper(w.umodes[s][u])
                                /\ "s" \in w.umodes[s][u]}, lab)
sendto_realops(w, s, lab) == Deliver(w, Listed(w, s, "s"), lab)
send_operwall(w, s, lab) == Deliver(w, Listed(w, s, "z"), lab)
send_locops(w, s, lab) ==
  Deliver(w, {u \in Listed(w, s, "l") : AnOper(w.umodes[s][u])}, lab)

From(s, u) == IF Local(s, u) THEN u ELSE scene.toward[s][Home(u)]

WALLOPS(by, lab) == [cmd |-> "WALLOPS", by |-> by, lab |-> lab]

\* Those a server's wallops is for, but not back where it came from.
Wallopsed(w, s, one) ==
  {u \in w.here[s] : /\ AnOper(w.umodes[s][u])
                     /\ "w" \in w.umodes[s][u]
                     /\ From(s, u) # one}

\* sendto_wallops_butone for a server, and sendto_ops_butone: every operator
\* with +w, each link once.
sendto_wallops_butone(w, s, one, by, lab) ==
  LET to == Wallopsed(w, s, one) IN
  Send(Deliver(w, {u \in to : Local(s, u)}, lab),
       s, {From(s, u) : u \in {v \in to : ~Local(s, v)}}, WALLOPS(by, lab))

-----------------------------------------------------------------------------
(* Entering and leaving the lists of a server                              *)

B(p) == IF p THEN 1 ELSE 0

\* A user is added with its modes (register_user, nickkilldone).
Enter(w, s, u, m) ==
  [w EXCEPT !.here[s] = @ \cup {u},
            !.umodes[s][u] = m,
            !.count[s] = [total |-> @.total + 1,
                          invisi |-> @.invisi + B("i" \in m),
                          oper |-> @.oper + B("o" \in m),
                          local |-> @.local + B(Local(s, u))]]

\* Slip: an operator that leaves stays in the list of operators.
RemoveKept(w, s, u) ==
  LET m == w.umodes[s][u] IN
  [w EXCEPT !.here[s] = @ \ {u}, !.umodes[s][u] = {}, !.away[s] = @ \ {u},
            !.count[s] = [total |-> @.total - 1, invisi |-> @.invisi - B("i" \in m),
                          oper |-> @.oper - B(AnOper(m)), local |-> @.local - B(Local(s, u))]]

\* The operator list q without u (exit_client, user_mode): the walk stops at
\* the first entry for it.
Unlisted(q, u) ==
  IF u \notin Range(q) THEN q
  ELSE LET k == CHOOSE i \in DOMAIN q : q[i] = u /\ \A j \in 1 .. i - 1 : q[j] # u
       IN [i \in 1 .. Len(q) - 1 |-> IF i < k THEN q[i] ELSE q[i + 1]]

\* remove_client_from_list and its counters, the operator list.
remove_client(w, s, u) ==
  LET m == w.umodes[s][u] IN
  [w EXCEPT !.here[s] = @ \ {u},
            !.umodes[s][u] = {},
            !.away[s] = @ \ {u},
            !.opers[s] = Unlisted(@, u),
            !.count[s] = [total |-> @.total - 1,
                          invisi |-> @.invisi - B("i" \in m),
                          oper |-> @.oper - B(AnOper(m)),
                          local |-> @.local - B(Local(s, u))]]

\* exit_one_client for a user that was not killed: the others get a QUIT.
Quit(w, s, one, u) ==
  remove_client(sendto_serv_butone(w, s, one, [cmd |-> "QUIT", u |-> u]), s, u)

\* What hangs on a lost server goes with it (recurse_remove_clients).
Forget(w, s, servers) ==
  LET gone == {u \in w.here[s] : Home(u) \in servers}
      m == w.umodes[s]
  IN [w EXCEPT !.known[s] = @ \ servers,
               !.here[s] = @ \ gone,
               !.umodes[s] = [u \in User |-> IF u \in gone THEN {} ELSE m[u]],
               !.away[s] = @ \ gone,
               !.count[s] = [total |-> @.total - Cardinality(gone),
                             invisi |-> @.invisi - Cardinality({u \in gone : "i" \in m[u]}),
                             oper |-> @.oper - Cardinality({u \in gone : AnOper(m[u])}),
                             local |-> @.local]]

\* exit_client for a server: the others get one SQUIT (all links have QS),
\* but neither the side it was on nor the one the SQUIT came from.
ExitServer(w, s, x, cptr) ==
  LET side == scene.toward[s][x]
      gone == {y \in w.known[s] : y = x \/ scene.toward[x][y] # scene.toward[x][s]}
      line == [cmd |-> "SQUIT", by |-> s, name |-> x, lab |-> NoLabel]
  IN Forget(Send(w, s, Links(w, s) \ {side, cptr}, line), s, gone)

\* The link itself is closed: the peer will read an end of file.
ExitLink(w, s, t, cptr) ==
  LET v == [Send(w, s, {t}, [cmd |-> "EOF"])
              EXCEPT !.st[<<s, t>>] = "down", !.wire[<<t, s>>] = <<>>]
  IN IF w.st[<<s, t>>] = "up" THEN ExitServer(v, s, t, cptr) ELSE v

-----------------------------------------------------------------------------
(* Registration and the lines of other servers                             *)

NICK(u, m) == [cmd |-> "NICK", u |-> u, modes |-> m \cap SEND_UMODES]

\* register_user for a local client: it is made invisible.
register_user(w, s, u) ==
  sendto_serv_butone(Enter(w, s, u, {"i"}), s, {}, NICK(u, {"i"}))

\* A user that is introduced but here already collides with itself: the
\* timestamps are the same, and it is killed everywhere.
Collided(w, s, u) ==
  remove_client(sendto_serv_butone(w, s, {}, [cmd |-> "KILL", by |-> s, u |-> u, lab |-> NoLabel]),
                s, u)

\* m_nick, nickkilldone, do_user and register_user for a user of another
\* server.  One whose server is not known is killed as a ghost; its modes were
\* counted before and are at its exit, but the total is lowered without having
\* been raised.
m_nick(w, s, t, m) ==
  IF m.u \in w.here[s] THEN Collided(w, s, m.u)
  ELSE IF Home(m.u) \in w.known[s]
  THEN sendto_serv_butone(Enter(w, s, m.u, m.modes), s, t, m)
  ELSE [Send(w, s, {t}, [cmd |-> "KILL", by |-> s, u |-> m.u, lab |-> NoLabel])
          EXCEPT !.count[s].total = @ - 1,
                 !.slips[s].total = @ + 1]

\* Slip: all the modes are told.
UmodeOutAll(w, s, cptr, u, old) ==
  LET new == w.umodes[s][u]
      line == [cmd |-> "MODE", u |-> u, add |-> new \ old, del |-> old \ new]
  IN IF line.add \cup line.del = {} THEN w ELSE sendto_serv_butone(w, s, cptr, line)

\* The difference a MODE made, for the other servers (send_umode_out): of a
\* local user only the modes they know.
send_umode_out(w, s, cptr, u, old) ==
  LET new == w.umodes[s][u]
      told == IF Local(s, u) THEN SEND_UMODES ELSE Modes
      line == [cmd |-> "MODE", u |-> u, add |-> (new \ old) \cap told,
                                        del |-> (old \ new) \cap told]
  IN IF line.add \cup line.del = {} THEN w ELSE sendto_serv_butone(w, s, cptr, line)

\* Slip: -o lowers the counter whoever gives it ("only decrement the oper
\* counts if an oper to begin with").
UserModeAny(w, s, cptr, u, add, del) ==
  LET old == w.umodes[s][u]
      gains == "o" \in add /\ ~Local(s, u) /\ "o" \notin old
      new == (old \ (del \cup IF "o" \in del THEN {"O"} ELSE {}))
               \cup (IF Local(s, u) THEN add \ {"o"} ELSE add)
      v == [w EXCEPT !.umodes[s][u] = new,
                     !.opers[s] = IF "o" \in del THEN Unlisted(@, u) ELSE @,
                     !.count[s] = [total |-> @.total, local |-> @.local,
                                   invisi |-> @.invisi + B("i" \in new \ old) - B("i" \in old \ new),
                                   oper |-> @.oper + B(gains) - B("o" \in del)]]
  IN send_umode_out(v, s, cptr, u, old)

\* user_mode: +o is for servers only; -o takes both kinds of operator away.
user_mode(w, s, cptr, u, add, del) ==
  LET old == w.umodes[s][u]
      gains == "o" \in add /\ ~Local(s, u) /\ "o" \notin old
      drops == "o" \in del /\ AnOper(old)
      new == (old \ ((del \ {"o"}) \cup IF drops THEN {"o", "O"} ELSE {}))
               \cup (IF Local(s, u) THEN add \ {"o"} ELSE add)
      v == [w EXCEPT !.umodes[s][u] = new,
                     !.opers[s] = IF drops THEN Unlisted(@, u) ELSE @,
                     !.count[s] = [total |-> @.total, local |-> @.local,
                                   invisi |-> @.invisi + B("i" \in new \ old) - B("i" \in old \ new),
                                   oper |-> @.oper + B(gains) - B(drops)]]
  IN send_umode_out(v, s, cptr, u, old)

\* Slip: the modes of an O line are not told.
OperUntold(w, s, u, line, lab) ==
  LET old == w.umodes[s][u]
      kind == IF line.global THEN "o" ELSE "O"
      flags == IF line.hold # {} THEN line.hold
               ELSE IF line.global THEN OPER_UMODES ELSE LOCOP_UMODES
      v == [w EXCEPT !.umodes[s][u] = old \cup {kind} \cup flags,
                     !.opers[s] = <<u>> \o @, !.count[s].oper = @ + 1,
                     !.slips[s].invisi = @ + B("i" \in flags \ old)]
  IN sendto_ops(Accept(v, lab, {s}), s, lab)

\* m_oper, the name and the password being right.  An O line that sets +i
\* makes the user invisible without counting it.
m_oper(w, s, u, line, lab) ==
  LET old == w.umodes[s][u]
      kind == IF line.global THEN "o" ELSE "O"
      flags == IF line.hold # {} THEN line.hold
               ELSE IF line.global THEN OPER_UMODES ELSE LOCOP_UMODES
      v == [w EXCEPT !.umodes[s][u] = old \cup {kind} \cup flags,
                     !.opers[s] = <<u>> \o @,
                     !.count[s].oper = @ + 1,
                     !.slips[s].invisi = @ + B("i" \in flags \ old)]
  IN IF AnOper(old) THEN w
     ELSE send_umode_out(sendto_ops(Accept(v, lab, {s}), s, lab), s, u, u, old)

\* Slip: the line goes back where it came from too.
AwayBack(w, s, cptr, u, on) ==
  sendto_serv_butone([w EXCEPT !.away[s] = IF on THEN @ \cup {u} ELSE @ \ {u}],
                     s, {}, [cmd |-> "AWAY", u |-> u, on |-> on])

m_away(w, s, cptr, u, on) ==
  sendto_serv_butone([w EXCEPT !.away[s] = IF on THEN @ \cup {u} ELSE @ \ {u}],
                     s, cptr, [cmd |-> "AWAY", u |-> u, on |-> on])

\* m_kill.  A local operator that kills a local user makes it quit; otherwise
\* the KILL goes on to all but where it came from, and there is no QUIT.
m_kill(w, s, cptr, m) ==
  LET v == IF m.by \in User /\ AnOper(w.umodes[s][m.by]) THEN sendto_realops(w, s, m.lab) ELSE w
      mine == m.by \in User /\ Home(m.by) = s /\ Local(s, m.u)
  IN IF m.u \notin w.here[s] THEN w
     ELSE IF mine THEN Quit(v, s, {}, m.u)
     ELSE remove_client(sendto_serv_butone(v, s, cptr, m), s, m.u)

\* m_wallops: of a user to those with +z, of a server to the operators with +w.
m_wallops(w, s, cptr, m) ==
  IF m.by \in Server THEN sendto_wallops_butone(w, s, cptr, m.by, m.lab)
  ELSE sendto_serv_butone(send_operwall(w, s, m.lab), s, cptr, m)

\* Slip: the line is passed on by the server of the sender only.
OperwallLocal(w, s, cptr, m) ==
  IF ~AnOper(w.umodes[s][m.by]) THEN w
  ELSE LET v == send_operwall(w, s, m.lab)
       IN IF Local(s, m.by) THEN sendto_serv_butone(v, s, cptr, m) ELSE v

\* m_operwall: the sender must be an operator at every server, and a local
\* operator is one at its own only.
m_operwall(w, s, cptr, m) ==
  IF ~AnOper(w.umodes[s][m.by]) THEN w
  ELSE send_operwall(sendto_serv_butone(w, s, cptr, m), s, m.lab)

-----------------------------------------------------------------------------
(* Servers                                                                 *)

\* The end of a link that has just been made is told of all servers and
\* users, the others of the new server (server_estab, sendnick_TS).
server_estab(w, s, t, reply) ==
  LET server(x) == [cmd |-> "SERVER", by |-> s, name |-> x]
      away_line(u) == IF scene.burst_away /\ u \in w.away[s] THEN <<[cmd |-> "AWAY", u |-> u, on |-> TRUE]>> ELSE <<>>
      user(u) == <<NICK(u, w.umodes[s][u])>> \o away_line(u)
      hello == IF reply THEN <<[cmd |-> "HELLO", reply |-> FALSE]>> ELSE <<>>
      names == SetToSeq(w.known[s])
      users == SetToSeq(w.here[s])
      lines == hello \o [i \in DOMAIN names |-> server(names[i])]
                     \o FlattenSeq([i \in DOMAIN users |-> user(users[i])])
      told == sendto_serv_butone(w, s, t, server(t))
  IN [told EXCEPT !.st[<<s, t>>] = "up",
                  !.known[s] = @ \cup {t},
                  !.wire[<<s, t>>] = @ \o lines]

\* m_server from a server.  A server that is there already has two paths, and
\* the younger link goes; in a tree both are the link that names it again.
m_server(w, s, t, m) ==
  IF m.name = s \/ m.name \in w.known[s] THEN ExitLink(w, s, t, t)
  ELSE sendto_serv_butone([w EXCEPT !.known[s] = @ \cup {m.name}], s, t, [m EXCEPT !.by = s])

\* m_squit from a server.  One that hangs on this server is announced to all
\* operators before it goes.
Squitted(w, s, t, m) ==
  LET side == scene.toward[s][m.name]
      v == ExitServer(w, s, m.name, t)
  IN IF m.name = s THEN ExitLink(w, s, t, t)
     ELSE IF m.name \notin w.known[s] THEN w
     ELSE IF side = m.name
     THEN ExitLink(sendto_wallops_butone(Accept(w, m.lab, Server), s, {}, s, m.lab),
                   s, side, t)
     ELSE IF side = t THEN v ELSE Send(v, s, {side}, m)

\* SQUIT by an operator of this server.
m_squit(w, s, u, m) ==
  LET side == scene.toward[s][m.name] IN
  IF side = m.name THEN ExitLink(sendto_ops(w, s, m), s, side, {})
  ELSE Send(ExitServer(w, s, m.name, {}), s, {side},
            [cmd |-> "SQUIT", by |-> u, name |-> m.name, lab |-> m])

-----------------------------------------------------------------------------
(* The steps                                                               *)

Actor(m) == IF m.cmd \in {"NICK", "MODE", "OPER", "AWAY", "QUIT"} THEN m.u ELSE m.by

\* parse: a sender that is not known is removed where the line came from.
Prefixed(w, s, t, m, v) ==
  LET by == Actor(m) IN
  IF by \in Server
  THEN IF by \in w.known[s] THEN v
       ELSE Send(w, s, {t}, [cmd |-> "SQUIT", by |-> s, name |-> by, lab |-> NoLabel])
  ELSE IF by \in w.here[s] THEN v
       ELSE Send(w, s, {t}, [cmd |-> "KILL", by |-> s, u |-> by, lab |-> NoLabel])

Handle(w, s, t, m) ==
  CASE m.cmd = "EOF"      -> ExitLink(w, s, t, t)
    [] m.cmd = "HELLO"    -> server_estab(w, s, t, m.reply)
    [] m.cmd = "NICK"     -> m_nick(w, s, t, m)
    [] m.cmd = "SERVER"   -> Prefixed(w, s, t, m, m_server(w, s, t, m))
    [] m.cmd = "SQUIT"    -> Prefixed(w, s, t, m, Squitted(w, s, t, m))
    [] m.cmd = "MODE"     -> Prefixed(w, s, t, m, user_mode(w, s, t, m.u, m.add, m.del))
    [] m.cmd = "AWAY"     -> Prefixed(w, s, t, m, m_away(w, s, t, m.u, m.on))
    [] m.cmd = "QUIT"     -> Prefixed(w, s, t, m, Quit(w, s, t, m.u))
    [] m.cmd = "KILL"     -> Prefixed(w, s, t, m, m_kill(w, s, t, m))
    [] m.cmd = "WALLOPS"  -> Prefixed(w, s, t, m, m_wallops(w, s, t, m))
    [] m.cmd = "OPERWALL" -> Prefixed(w, s, t, m, m_operwall(w, s, t, m))

read_packet(t, s) ==
  /\ <<t, s>> \in scene.links
  /\ wire[<<t, s>>] # <<>>
  /\ Become(Handle([World EXCEPT !.wire[<<t, s>>] = Tail(@)], s, t, Head(wire[<<t, s>>])))
  /\ UNCHANGED <<scene, left>>

\* A line of a local client: what it may do, and what it does.
Privileged(s, u) == u \in here[s] /\ AnOper(umodes[s][u])
Global(s, u) == "o" \in umodes[s][u]

May(m) ==
  LET s == Home(Actor(m)) IN
  CASE m.cmd = "NICK" -> m.u \notin here[s]
    [] m.cmd \in {"MODE", "OPER", "AWAY", "QUIT"} -> m.u \in here[s]
    [] m.cmd = "KILL" -> /\ Privileged(s, m.by)
                         /\ m.u \in here[s]
                         /\ Local(s, m.u) \/ Global(s, m.by)
    [] m.cmd = "SQUIT" -> /\ Privileged(s, m.by)
                          /\ m.name \in known[s]
                          /\ scene.toward[s][m.name] = m.name \/ Global(s, m.by)
    [] OTHER -> Privileged(s, m.by)

\* Whom an operator's message is for: of a local operator an OPERWALL stays
\* at home.
Audience(s, m) ==
  IF m.cmd = "WALLOPS" \/ (m.cmd = "OPERWALL" /\ Global(s, m.by)) THEN Server ELSE {s}

Do(s, m) ==
  LET w == World
      said == Accept(w, m, Audience(s, m))
  IN CASE m.cmd = "NICK"     -> register_user(w, s, m.u)
       [] m.cmd = "MODE"     -> user_mode(w, s, m.u, m.u, m.add, m.del)
       [] m.cmd = "OPER"     -> m_oper(w, s, m.u, m.line, m)
       [] m.cmd = "AWAY"     -> m_away(w, s, m.u, m.u, m.on)
       [] m.cmd = "QUIT"     -> Quit(w, s, m.u, m.u)
       [] m.cmd = "KILL"     -> m_kill(w, s, m.by, [cmd |-> "KILL", by |-> m.by, u |-> m.u, lab |-> m])
       [] m.cmd = "WALLOPS"  -> m_wallops(said, s, m.by, WALLOPS(m.by, m))
       [] m.cmd = "OPERWALL" -> m_operwall(said, s, m.by, [cmd |-> "OPERWALL", by |-> m.by, lab |-> m])
       [] m.cmd = "LOCOPS"   -> send_locops(said, s, m)
       [] m.cmd = "SQUIT"    -> m_squit(w, s, m.by, m)

Command(m) ==
  /\ m \in left
  /\ m.cmd \notin {"CUT", "LINK"}
  /\ May(m)
  /\ Become(Do(Home(Actor(m)), m))
  /\ left' = left \ {m}
  /\ UNCHANGED scene

\* The net loses a link with all that is on its way.
Cut(s, t) ==
  LET m == [cmd |-> "CUT", s |-> s, t |-> t] IN
  /\ m \in left
  /\ st[<<s, t>>] = "up" /\ st[<<t, s>>] = "up"
  /\ Become([World EXCEPT !.wire[<<s, t>>] = <<[cmd |-> "EOF"]>>,
                          !.wire[<<t, s>>] = <<[cmd |-> "EOF"]>>])
  /\ left' = left \ {m}
  /\ UNCHANGED scene

\* s connects to t.
Link(s, t) ==
  LET m == [cmd |-> "LINK", s |-> s, t |-> t] IN
  /\ m \in left
  /\ st[<<s, t>>] = "down" /\ st[<<t, s>>] = "down"
  /\ wire[<<s, t>>] = <<>> /\ wire[<<t, s>>] = <<>>
  /\ Become([World EXCEPT !.st[<<s, t>>] = "open", !.st[<<t, s>>] = "open",
                          !.wire[<<s, t>>] = <<[cmd |-> "HELLO", reply |-> TRUE]>>])
  /\ left' = left \ {m}
  /\ UNCHANGED scene

\* LUSERS with the cache expired counts again and corrects the counters.
show_lusers(s) ==
  /\ count[s] # Recount(here, umodes, s)
  /\ count' = [count EXCEPT ![s] = Recount(here, umodes, s)]
  /\ slips' = [slips EXCEPT ![s] = NoSlip]
  /\ UNCHANGED <<scene, left, st, wire, known, here, umodes, away, opers, got, sent>>

Next ==
  \/ \E s, t \in Server : read_packet(t, s)
  \/ \E m \in left : Command(m)
  \/ \E s, t \in Server : Cut(s, t)
  \/ \E s, t \in Server : Link(s, t)
  \/ \E s \in Server : show_lusers(s)

Quiet == \A l \in scene.links : wire[l] = <<>>

\* A server reads what has come: as long as something is under way, a line
\* is read at some time.
Fairness == []<>Quiet \/ []<><<left' = left /\ wire' # wire>>_vars

Spec == Init /\ [][Next]_vars /\ Fairness

-----------------------------------------------------------------------------
(* Properties                                                              *)

\* The types of the lists, and what is not listed has no modes.
TypeOK ==
  /\ scene \in Scenes
  /\ st \in [scene.links -> {"down", "open", "up"}]
  /\ \A s \in Server :
       /\ known[s] \subseteq Server \ {s}
       /\ away[s] \subseteq here[s] /\ here[s] \subseteq User
       /\ \A u \in User : /\ umodes[s][u] \subseteq IF Local(s, u) THEN Modes ELSE SEND_UMODES
                          /\ u \notin here[s] => umodes[s][u] = {}

\* Every counter is what a walk over the list would count, but for the two
\* slips the code makes: a ghost lowers the total, and an O line with +i
\* hides a user uncounted.  So LUSERS corrects nothing else ("Oper count off
\* by %d").
CountsRight ==
  \A s \in Server :
    count[s] = [Recount(here, umodes, s)
                  EXCEPT !.total = @ - slips[s].total, !.invisi = @ - slips[s].invisi]

\* The operator list holds exactly the operators among the local users, each
\* once, whichever way they got or lost their rights or left.
OperListRight ==
  \A s \in Server :
    /\ \A i, j \in DOMAIN opers[s] : opers[s][i] = opers[s][j] => i = j
    /\ Range(opers[s]) = {u \in here[s] : Local(s, u) /\ AnOper(umodes[s][u])}

Up(s, t) == st[<<s, t>>] = "up" /\ st[<<t, s>>] = "up"

\* s and t are connected, directly or by the servers between.
Connected(s, t) ==
  LET next == scene.toward[s][t] IN
  s # t => /\ Up(s, next)
           /\ next # t => Up(next, scene.toward[next][t])

\* Nothing is to happen to the links.
Firm == \A m \in scene.events : m.cmd \notin {"CUT", "LINK"}

\* Once all is read, every server knows exactly the servers it is connected
\* to and their users, with the modes they have at home, and nobody as away
\* that is not (nor the other way, unless a burst without AWAY came between),
\* whatever was cut and linked again meanwhile.
ViewsAgree ==
  Quiet => \A s, t \in Server :
    s # t =>
    /\ t \in known[s] <=> Connected(s, t)
    /\ \A u \in User : Home(u) = t =>
         IF Connected(s, t)
         THEN /\ u \in here[s] <=> u \in here[t]
              /\ u \in away[s] => u \in away[t]
              /\ u \in away[t] /\ (scene.burst_away \/ Firm) => u \in away[s]
              /\ umodes[s][u] = umodes[t][u] \cap SEND_UMODES
         ELSE u \notin here[s]

\* Nothing is to happen to the user.
Stays(u) == u \in scene.start /\ \A m \in scene.events : m.cmd \in {"QUIT", "KILL"} => m.u # u
Steady(u) == Stays(u) /\ \A m \in scene.events : m.cmd \in {"MODE", "OPER"} => m.u # u

\* The server that announces the SQUIT m, and those it still reaches.
Announcer(m) == scene.toward[m.name][Home(m.by)]
Remain(m) == {s \in Server : s # m.name /\ scene.toward[m.name][s] = Announcer(m)}

\* Those nothing happens to that an operator's message must and may reach.
MustHear(m, to) ==
  LET has(u, f) == f \subseteq scene.modes[u] /\ Home(u) \in to IN
  CASE m.cmd \in {"WALLOPS", "OPERWALL"} -> {u \in User : has(u, {"z"}) /\ AnOper(scene.modes[u])}
    [] m.cmd = "LOCOPS" -> {u \in User : has(u, {"l"}) /\ AnOper(scene.modes[u])}
    [] m.cmd = "OPER"   -> {u \in User : has(u, {"s"}) /\ AnOper(scene.modes[u])}
    [] m.cmd = "SQUIT"  -> {u \in User : has(u, {"w", "o"}) /\ Home(u) \in Remain(m)}
    [] OTHER -> {}

MayHear(m, to) ==
  CASE m.cmd = "SQUIT" -> {u \in User : AnOper(scene.modes[u]) /\ scene.modes[u] \cap {"w", "s"} # {}}
    [] m.cmd = "KILL"  -> {u \in User : AnOper(scene.modes[u]) /\ "s" \in scene.modes[u]}
    [] OTHER -> MustHear(m, to)

\* What an operator that stays says to operators reaches each of those it is
\* for exactly once, and nobody else, while others become operators, cease to
\* be and leave; nothing reaches anybody twice.
OperatorsHear ==
  /\ \A u \in User, m \in scene.events : got[u][m] <= 1
  /\ \A r \in {x \in sent : x.lab # NoLabel} : \A u \in User : Steady(u) =>
       /\ u \notin MayHear(r.lab, r.to) => got[u][r.lab] = 0
       /\ Quiet /\ Firm /\ Stays(Actor(r.lab)) /\ u \in MustHear(r.lab, r.to) => got[u][r.lab] = 1

\* Everything that was sent comes to an end.
Settles == <>[]Quiet

\* The counters of users and operators and the list of operators are exact on
\* every server (user_mode, m_oper, remove_client_from_list).
ListsSound == TypeOK /\ CountsRight /\ OperListRight
=============================================================================
