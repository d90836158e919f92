------------------------------- MODULE Links -------------------------------
(***************************************************************************)
(* The network of servers: connecting, the handshake, the burst of server  *)
(* names, the relay of new servers, the search for loops, SQUIT and the    *)
(* removal of everything behind a lost link (m_server.c, s_serv.c,         *)
(* m_squit.c, client.c).                                                   *)
(*                                                                         *)
(* Every server keeps its own list of the servers it knows; the lists      *)
(* change by the messages read from the connections, one reader at a time. *)
(* A connection carries its lines in order.  The end that closes it sends  *)
(* what is queued and then an end of file; what travels towards it is      *)
(* lost.  Users, channels and wallops are left out: NickTS and ChannelTS   *)
(* are about them.  Server names are not masked.                           *)
(***************************************************************************)
EXTENDS Integers, Sequences, FiniteSets, SequencesExt

CONSTANTS Server, MaxConn,
          Scenes      \* the configurations and the events to be explored

Conn == 1..MaxConn
None == 0

(***************************************************************************)
(* A scene: the links that stand at the start and the lists that go with   *)
(* them, how often s may dial t, the SQUITs that operators may give,       *)
(* the connections the net may lose, the servers whose operators may turn  *)
(* AUTOCONN off, the servers compiled as hubs and those that offer QS, the *)
(* pairs with clocks too far apart, and for each pair the lines of the     *)
(* configuration: C and N lines, the password sent and the one expected,   *)
(* the ports (depths) of the H and the L line, None where there is none.   *)
(***************************************************************************)
Line == [cn: BOOLEAN, sends: STRING, wants: STRING,
         hub: {-1} \cup Nat, leaf: {-1} \cup Nat]

Known(s) == [name: Server \ {s}, via: Conn, up: Server, hop: Nat]

\* The list K of s: a name once, and every server behind one listed before it
\* that is reached by the same link, but for those linked to s.
Rooted(K, s) ==
  /\ \A i, j \in DOMAIN K : K[i].name = K[j].name => i = j
  /\ \A i \in DOMAIN K : \/ K[i].up = s
                         \/ \E j \in 1..(i - 1) : K[j].name = K[i].up /\ K[j].via = K[i].via

\* The lists at the start: a link is listed at both of its ends, and has two.
Standing(K) ==
  \A s, t \in Server : \A i \in DOMAIN K[s], j \in DOMAIN K[t] :
    LET e == K[s][i]
        f == K[t][j]
    IN  /\ e.up = s => \E k \in DOMAIN K[e.name] :
             LET g == K[e.name][k] IN g.name = s /\ g.via = e.via /\ g.up = e.name
        /\ e.up = s /\ f.up = t /\ e.via = f.via
             => IF s = t THEN e.name = f.name ELSE e.name = t

ASSUME SceneAssumption ==
  /\ MaxConn \in Nat
  /\ None \notin Server
  /\ \A sc \in Scenes :
       /\ sc.known \in [Server -> Seq([name: Server, via: Conn, up: Server, hop: Nat])]
       /\ \A s \in Server : /\ \A i \in DOMAIN sc.known[s] : sc.known[s][i] \in Known(s)
                            /\ Rooted(sc.known[s], s)
                            /\ Len(sc.known[s]) < Cardinality(Server)
       /\ Standing(sc.known)
       /\ sc.dials \in [Server \X Server -> Nat]
       /\ \A s \in Server : sc.dials[<<s, s>>] = 0
       /\ sc.squits \subseteq Server \X Server
       /\ sc.cuts \in Nat
       /\ {sc.off, sc.hubs, sc.qs} \subseteq SUBSET Server
       /\ sc.skewed \subseteq SUBSET Server
       /\ \A p \in Server \X Server : sc.conf[p] \in Line

VARIABLES scene,     \* fixed at the start
          left,      \* the events still to come
          end,       \* [Conn -> [Server -> the Client structure of the link]]
          wire,      \* [Conn -> [Server -> lines on their way to that end]]
          known,     \* [Server -> the servers it knows, oldest first]
          count,     \* [Server -> Count.server and Count.myserver]
          auto       \* [Server -> AUTOCONN is on]

vars == <<scene, left, end, wire, known, count, auto>>

States == {"none", "connecting", "handshake", "backlog", "unknown", "server", "closed"}
NoEnd == [st |-> "none", pass |-> "", ts |-> FALSE, caps |-> {}, first |-> 0]

\* send_capabilities: a server offers all it was compiled with.
Caps(s) == IF s \in scene.qs THEN {"CAP", "QS"} ELSE {"CAP"}

Init ==
  /\ scene \in Scenes
  /\ left = [dials |-> scene.dials, squits |-> scene.squits, cuts |-> scene.cuts,
             off |-> scene.off]
  /\ known = scene.known
  /\ end = [c \in Conn |-> [s \in Server |->
              LET peer == {e \in Range(known[s]) : e.via = c /\ e.up = s} IN
              IF peer = {} THEN NoEnd
              ELSE [NoEnd EXCEPT !.st = "server", !.ts = TRUE, !.first = 1,
                                 !.caps = UNION {Caps(e.name) : e \in peer}]]]
  /\ wire = [c \in Conn |-> [s \in Server |-> <<>>]]
  /\ count = [s \in Server |->
               [server |-> Len(known[s]) + 1,
                myserver |-> Cardinality({known[s][i].via : i \in DOMAIN known[s]})]]
  /\ auto = [s \in Server |-> TRUE]

World == [end |-> end, wire |-> wire, known |-> known, count |-> count]

Become(w) ==
  /\ end' = w.end
  /\ wire' = w.wire
  /\ known' = w.known
  /\ count' = w.count

-----------------------------------------------------------------------------
\* The other end of a connection.
Peer(w, c, s) == CHOOSE t \in Server \ {s} : w.end[c][t].st # "none"

IsServerLink(w, c, s) == w.end[c][s].st = "server"
Linked(w, s) == {c \in Conn : IsServerLink(w, c, s)}        \* serv_cptr_list

find_server(w, s, name) == {i \in DOMAIN w.known[s] : w.known[s][i].name = name}
Entry(w, s, name) == w.known[s][CHOOSE i \in find_server(w, s, name) : TRUE]

\* sendto_one: nothing is written to a closed descriptor.
Send(w, s, c, lines) ==
  LET t == Peer(w, c, s) IN
  IF w.end[c][s].st = "closed" \/ w.end[c][t].st = "closed" THEN w
  ELSE [w EXCEPT !.wire[c][t] = @ \o lines]

\* sendto_serv_butone and its kin: each link of cs gets its own lines.
SendEach(w, s, cs, lines) ==
  [w EXCEPT !.wire = [c \in Conn |->
     IF c \notin cs THEN w.wire[c]
     ELSE LET t == Peer(w, c, s) IN
          IF w.end[c][t].st = "closed" THEN w.wire[c]
          ELSE [w.wire[c] EXCEPT ![t] = @ \o lines[c]]]]

\* close_connection
Close(w, s, c) ==
  [Send(w, s, c, <<[cmd |-> "EOF"]>>)
     EXCEPT !.end[c][s] = [@ EXCEPT !.st = "closed", !.pass = ""],
            !.wire[c][s] = <<>>]

-----------------------------------------------------------------------------
(* Leaving: exit_client and what it calls                                  *)

SQUIT(by, user, name) == [cmd |-> "SQUIT", by |-> by, user |-> user, name |-> name]

\* The elements of a list that are in S.
Keep(q, S) ==
  LET walk[i \in 0..Len(q)] ==
        IF i = 0 THEN <<>>
        ELSE IF q[i] \in S THEN Append(walk[i - 1], q[i]) ELSE walk[i - 1]
  IN walk[Len(q)]

\* The server `name' and all that hang on it: a server follows its
\* introducer in the list.
Dependents(K, name) ==
  LET walk[i \in 0..Len(K)] ==
        IF i = 0 THEN {name}
        ELSE IF K[i].up \in walk[i - 1] THEN walk[i - 1] \cup {K[i].name} ELSE walk[i - 1]
  IN walk[Len(K)]

\* Those of the list that stay when the servers `gone' go.
Stay(K, gone) == Keep(K, {e \in Range(K) : e.name \notin gone})

\* With QS one SQUIT stands for all the servers behind; otherwise each gets
\* one of its own, the dependents first.
recurse_send_quits(w, s, name, to) ==
  LET gone == Dependents(w.known[s], name)
      behind == Keep(w.known[s], {e \in Range(w.known[s]) : e.name \in gone})
  IN IF "QS" \in w.end[to][s].caps THEN <<SQUIT(None, FALSE, name)>>
     ELSE [i \in DOMAIN behind |-> SQUIT(None, FALSE, Reverse(behind)[i].name)]

\* Slip: the link a SQUIT came from is never told.
ToldOthers(w, s, via, cptr) == Linked(w, s) \ {via, cptr}

\* Who is told: every server link but the one the lost server was behind,
\* and not the link the SQUIT came from if that one has QS.
Told(w, s, via, cptr) ==
  {c \in Linked(w, s) : c # via /\ ~(c = cptr /\ "QS" \in w.end[c][s].caps)}

\* Slip: the servers behind the lost one stay in the count.
RemoveCountsOne(w, s, name, via, cptr) ==
  LET gone == Dependents(w.known[s], name)
      v == SendEach(w, s, Told(w, s, via, cptr),
                    [to \in Conn |-> recurse_send_quits(w, s, name, to)])
  IN [v EXCEPT !.known[s] = Stay(@, gone),
               !.count[s].server = @ - 1]

remove_dependents(w, s, name, via, cptr) ==
  LET gone == Dependents(w.known[s], name)
      v == SendEach(w, s, Told(w, s, via, cptr),
                    [to \in Conn |-> recurse_send_quits(w, s, name, to)])
  IN [v EXCEPT !.known[s] = Stay(@, gone),
               !.count[s].server = @ - Cardinality(gone)]

\* exit_client for a connection of this server: cptr is the link that caused
\* it, which is not told.
ExitLink(w, s, c, cptr) ==
  LET e == CHOOSE e \in Range(w.known[s]) : e.via = c /\ e.up = s
      v == Close(w, s, c)
  IN IF ~IsServerLink(w, c, s) THEN v
     ELSE remove_dependents([v EXCEPT !.count[s].myserver = @ - 1], s, e.name, c, cptr)

\* exit_client for any server: one that is not linked here is also told
\* itself, unless the SQUIT came from its side.
exit_client(w, s, name, cptr, by, user) ==
  LET e == Entry(w, s, name)
      v == remove_dependents(w, s, name, e.via, cptr)
  IN IF e.up = s THEN ExitLink(w, s, e.via, cptr)
     ELSE IF e.via = cptr THEN v
     ELSE Send(v, s, e.via, <<SQUIT(by, user, name)>>)

-----------------------------------------------------------------------------
(* The handshake                                                           *)

SERVER(by, name, hop) == [cmd |-> "SERVER", by |-> by, name |-> name, hop |-> hop]

\* Slip: a server introduces itself without counting the hop.
HelloNoHop(s, t) ==
  (IF scene.conf[<<s, t>>].sends = "" THEN <<>>
   ELSE <<[cmd |-> "PASS", pass |-> scene.conf[<<s, t>>].sends]>>)
  \o <<[cmd |-> "CAPAB", caps |-> Caps(s)], SERVER(None, s, 0)>>

\* PASS, CAPAB and SERVER, sent by completed_connection and server_estab.
Hello(s, t) ==
  (IF scene.conf[<<s, t>>].sends = "" THEN <<>>
   ELSE <<[cmd |-> "PASS", pass |-> scene.conf[<<s, t>>].sends]>>)
  \o <<[cmd |-> "CAPAB", caps |-> Caps(s)],
       SERVER(None, s, 1)>>

\* m_pass
Pass(w, s, c, m) ==
  IF w.end[c][s].st \notin {"unknown", "handshake"} THEN w
  ELSE [w EXCEPT !.end[c][s].pass = m.pass, !.end[c][s].ts = TRUE]

\* m_capab: a second one closes the link.
Capab(w, s, c, m) ==
  IF w.end[c][s].st \notin {"unknown", "handshake"} THEN w
  ELSE IF w.end[c][s].caps # {} THEN ExitLink(w, s, c, c)
  ELSE [w EXCEPT !.end[c][s].caps = m.caps]

\* m_svinfo: a clock too far away closes the link, burst and all.
Svinfo(w, s, c, m) ==
  IF \/ w.end[c][s].st = "unknown"
     \/ w.end[c][s].st = "server" /\ {s, Peer(w, c, s)} \in scene.skewed
  THEN ExitLink(w, s, c, c) ELSE w

\* The servers of the burst, oldest first, with the name of their introducer.
Burst(w, s, c) ==
  LET rest == Keep(w.known[s], {e \in Range(w.known[s]) : e.via # c})
  IN [i \in DOMAIN rest |-> SERVER(rest[i].up, rest[i].name, rest[i].hop + 1)]

\* A new server is added to the list and the counters.
Add(w, s, name, via, up, hop) ==
  [w EXCEPT !.known[s] = Append(@, [name |-> name, via |-> via, up |-> up, hop |-> hop]),
            !.count[s].server = @ + 1]

server_estab(w, s, c, name, hop) ==
  LET e == w.end[c][s]
      conf == scene.conf[<<s, name>>]
      hello == IF e.st = "unknown" THEN Hello(s, name) ELSE <<>>
      others == Linked(w, s)
      linked == [Add(w, s, name, c, s, hop) EXCEPT !.end[c][s].st = "server",
                                                   !.end[c][s].pass = "",
                                                   !.count[s].myserver = @ + 1]
      told == SendEach(linked, s, others, [o \in others |-> <<SERVER(s, name, 2)>>])
  IN IF conf.wants # "" /\ conf.wants # e.pass THEN ExitLink(w, s, c, c)
     ELSE IF s \notin scene.hubs /\ others # {} THEN ExitLink(w, s, c, c)
     ELSE Send(told, s, c, hello \o <<[cmd |-> "SVINFO"]>> \o Burst(told, s, c))

\* The second half of m_server, once the name is free.
Introduce(w, s, c, m) ==
  LET conf == scene.conf[<<s, Peer(w, c, s)>>]
      up == IF m.by = None THEN Peer(w, c, s) ELSE m.by
      v == Add(w, s, m.name, c, up, m.hop)
  IN IF ~IsServerLink(w, c, s)
     THEN IF w.end[c][s].ts THEN server_estab(w, s, c, m.name, m.hop)
          ELSE ExitLink(w, s, c, c)
     ELSE IF \/ conf.leaf # -1 /\ (conf.leaf = 0 \/ m.hop > conf.leaf)
             \/ conf.hub = -1
             \/ conf.hub > 0 /\ m.hop > conf.hub
     THEN ExitLink(w, s, c, c)
     ELSE SendEach(v, s, Linked(v, s) \ {c},
                   [o \in Conn |-> <<SERVER(up, m.name, m.hop + 1)>>])

\* Slip: a name that is known already is added again.
ServerUnchecked(w, s, c, m) ==
  IF \/ ~IsServerLink(w, c, s) /\ ~scene.conf[<<s, m.name>>].cn
     \/ ~auto[s]
     \/ m.name = s
  THEN ExitLink(w, s, c, c)
  ELSE Introduce(w, s, c, m)

\* m_server.  When the name is known already the younger of the two links
\* goes; if that is the other one, the message is obeyed after it has gone.
m_server(w, s, c, m) ==
  LET old == Entry(w, s, m.name).via IN
  IF \/ ~IsServerLink(w, c, s) /\ ~scene.conf[<<s, m.name>>].cn
     \/ ~auto[s]
     \/ m.name = s
  THEN ExitLink(w, s, c, c)
  ELSE IF find_server(w, s, m.name) = {} THEN Introduce(w, s, c, m)
  ELSE IF w.end[c][s].first > w.end[old][s].first \/ old = c THEN ExitLink(w, s, c, c)
  ELSE Introduce(ExitLink(w, s, old, old), s, c, m)

-----------------------------------------------------------------------------
(* Reading                                                                 *)

\* Slip: a SQUIT for a server that is not known is answered with a SQUIT.
SquitBack(w, s, c, m) ==
  LET by == IF m.by = None THEN Peer(w, c, s) ELSE m.by IN
  IF ~IsServerLink(w, c, s) THEN w
  ELSE IF m.name = s THEN ExitLink(w, s, c, c)
  ELSE IF find_server(w, s, m.name) = {} THEN Send(w, s, c, <<SQUIT(None, FALSE, m.name)>>)
  ELSE exit_client(w, s, m.name, c, by, m.by # None /\ m.user)

\* m_squit from a server: the name of this server means the link itself.
Squitted(w, s, c, m) ==
  LET by == IF m.by = None THEN Peer(w, c, s) ELSE m.by IN
  IF ~IsServerLink(w, c, s) THEN w
  ELSE IF m.name = s THEN ExitLink(w, s, c, c)
  ELSE IF find_server(w, s, m.name) = {} THEN w
  ELSE exit_client(w, s, m.name, c, by, m.by # None /\ m.user)

\* An unknown server in a prefix is squitted, an unknown user killed.
remove_unknown(w, s, c, m) ==
  IF m.cmd = "SQUIT" /\ m.user THEN w ELSE Send(w, s, c, <<SQUIT(s, FALSE, m.by)>>)

\* parse: the prefix must be known, and known by way of this link; one of
\* another direction is ignored (cancel_clients).
Prefixed(w, s, c, m) ==
  LET handled == IF m.cmd = "SERVER" THEN m_server(w, s, c, m) ELSE Squitted(w, s, c, m)
  IN IF m.by = None \/ ~IsServerLink(w, c, s) THEN handled
     ELSE IF m.by = s THEN w
     ELSE IF find_server(w, s, m.by) = {} THEN remove_unknown(w, s, c, m)
     ELSE IF Entry(w, s, m.by).via # c THEN w
     ELSE handled

Handle(w, s, c, m) ==
  IF w.end[c][s].st = "closed" THEN w
  ELSE CASE m.cmd = "PASS"   -> Pass(w, s, c, m)
         [] m.cmd = "CAPAB"  -> Capab(w, s, c, m)
         [] m.cmd = "SVINFO" -> Svinfo(w, s, c, m)
         [] m.cmd \in {"SERVER", "SQUIT"} -> Prefixed(w, s, c, m)
         [] m.cmd = "EOF"    -> ExitLink(w, s, c, c)

\* The lines one read gives to parse: PASS, CAPAB and SVINFO concern nobody
\* but the link, so a read goes on to the first line that does.
Packet(q) ==
  LET far == {i \in DOMAIN q : q[i].cmd \in {"SERVER", "SQUIT", "EOF"}}
      last == IF far = {} THEN Len(q) ELSE CHOOSE i \in far : \A j \in far : i <= j
  IN SubSeq(q, 1, last)

read_packet(c, s) ==
  LET q == wire[c][s]
      p == Packet(q)
      w == [World EXCEPT !.wire[c][s] = SubSeq(q, Len(p) + 1, Len(q))]
      loop[i \in 0..Len(p)] == IF i = 0 THEN w ELSE Handle(loop[i - 1], s, c, p[i])
  IN /\ q # <<>>
     /\ end[c][s].st \in {"unknown", "handshake", "server"}
     /\ Become(loop[Len(p)])
     /\ UNCHANGED <<scene, left, auto>>

-----------------------------------------------------------------------------
(* Connecting, breaking, operators                                         *)

\* The clock counts seconds: a new link is as old as the last one or younger.
Stamps(s) ==
  LET latest == CHOOSE n \in 0..MaxConn :
                  /\ \A c \in Conn : end[c][s].first <= n
                  /\ n = 0 \/ \E c \in Conn : end[c][s].first = n
  IN {latest, latest + 1} \cap 1..MaxConn

\* try_connections or CONNECT: not if the server is known already.
connect_server(s, t) ==
  \E c \in Conn, n \in Stamps(s) :
    /\ left.dials[<<s, t>>] > 0
    /\ \A r \in Server : end[c][r].st = "none"
    /\ \A d \in 1..(c - 1) : \E r \in Server : end[d][r].st # "none"
    /\ scene.conf[<<s, t>>].cn
    /\ find_server(World, s, t) = {}
    /\ end' = [end EXCEPT ![c][s] = [NoEnd EXCEPT !.st = "connecting", !.first = n],
                          ![c][t] = [NoEnd EXCEPT !.st = "backlog"]]
    /\ left' = [left EXCEPT !.dials[<<s, t>>] = @ - 1]
    /\ UNCHANGED <<scene, wire, known, count, auto>>

\* The connection is taken from the listener (add_connection).
add_connection(c, t) ==
  /\ end[c][t].st = "backlog"
  /\ \E n \in Stamps(t) :
       end' = [end EXCEPT ![c][t] = [@ EXCEPT !.st = "unknown", !.first = n]]
  /\ UNCHANGED <<scene, left, wire, known, count, auto>>

completed_connection(c, s) ==
  /\ end[c][s].st = "connecting"
  /\ Become(Send([World EXCEPT !.end[c][s].st = "handshake"], s, c,
                 Hello(s, Peer(World, c, s))))
  /\ UNCHANGED <<scene, left, auto>>

\* The net loses a connection with all that is on its way: both ends will
\* read an error.
Cut(c) ==
  /\ left.cuts > 0
  /\ \E s, t \in Server :
       /\ s # t
       /\ {end[c][s].st, end[c][t].st} \subseteq {"unknown", "handshake", "server"}
       /\ wire' = [wire EXCEPT ![c][s] = <<[cmd |-> "EOF"]>>, ![c][t] = <<[cmd |-> "EOF"]>>]
  /\ left' = [left EXCEPT !.cuts = @ - 1]
  /\ UNCHANGED <<scene, end, known, count, auto>>

\* SQUIT by an operator of s.
m_squit(s, t) ==
  /\ <<s, t>> \in left.squits
  /\ find_server(World, s, t) # {}
  /\ Become(exit_client(World, s, t, None, s, TRUE))
  /\ left' = [left EXCEPT !.squits = @ \ {<<s, t>>}]
  /\ UNCHANGED <<scene, auto>>

\* SET AUTOCONN 0 by an operator of s: from now on a link that introduces
\* anything is closed.
set_autoconn(s) ==
  /\ s \in left.off
  /\ auto' = [auto EXCEPT ![s] = FALSE]
  /\ left' = [left EXCEPT !.off = @ \ {s}]
  /\ UNCHANGED <<scene, end, wire, known, count>>

Next ==
  \/ \E c \in Conn, s \in Server : read_packet(c, s)
  \/ \E c \in Conn, s \in Server : add_connection(c, s)
  \/ \E c \in Conn, s \in Server : completed_connection(c, s)
  \/ \E s, t \in Server : connect_server(s, t)
  \/ \E c \in Conn : Cut(c)
  \/ \E s, t \in Server : m_squit(s, t)
  \/ \E s \in Server : set_autoconn(s)

\* Nothing is on its way and no connection is half made.
Quiet ==
  \A c \in Conn, s \in Server : wire[c][s] = <<>> /\ end[c][s].st \notin {"backlog", "connecting"}

\* A server whose poll loop runs reads what has come, takes new connections
\* and goes on with those it made: as long as there is something to do, a
\* step that is no operator's and no accident's (left is untouched) happens.
Fairness == []<>Quiet \/ []<><<left' = left>>_vars

Spec == Init /\ [][Next]_vars /\ Fairness

-----------------------------------------------------------------------------
(* Properties                                                              *)

\* The types of the lists and of the links.
TypeOK ==
  /\ scene \in Scenes
  /\ \A s \in Server :
       /\ \A i \in DOMAIN known[s] : known[s][i] \in Known(s)
       /\ count[s] \in [server: Nat, myserver: Nat]
       /\ \A c \in Conn : end[c][s].st \in States /\ end[c][s].first \in 0..MaxConn
  /\ auto \in [Server -> BOOLEAN]

\* What exit_client relies on: a name is listed once, the links are exactly
\* the servers introduced by this one, and every other server hangs on one
\* listed before it that is reached by the same link.  So the loops of
\* exit_client that look for servers remove_dependents forgot never find
\* one ("this shouldn't be necessary if the remove_dependents() stuff works").
TreeOK ==
  \A s \in Server :
    LET K == known[s] IN
    /\ Rooted(K, s)
    /\ Linked(World, s) = {K[i].via : i \in DOMAIN K}
    /\ \A c \in Linked(World, s) : \E i \in DOMAIN K : K[i].via = c /\ K[i].up = s
    /\ \A i \in DOMAIN K : K[i].up = s => K[i].name = Peer(World, K[i].via, s)

\* Count.server and Count.myserver count what is listed.
CountsRight ==
  \A s \in Server : /\ count[s].server = Len(known[s]) + 1
                    /\ count[s].myserver = Cardinality(Linked(World, s))

Up(s, t) == \E c \in Conn : IsServerLink(World, c, s) /\ IsServerLink(World, c, t)

\* At every moment a server is one hop farther than the one it hangs on.
HopsRight ==
  \A s \in Server : \A i \in DOMAIN known[s] :
    LET e == known[s][i] IN
    IF e.up = s THEN e.hop = 1
    ELSE \E j \in 1..(i - 1) : known[s][j].name = e.up /\ known[s][j].hop + 1 = e.hop

\* The distances fit at every moment, and once all is read, a server knows
\* exactly the servers it is connected to, directly or through others, each
\* at its true distance and by the link that leads there, and a link that
\* stands at one end stands at the other: no loop, no ghost and no server
\* missing, however links were made at the same time, lost or squitted.
ViewsAgree ==
  /\ HopsRight
  /\ Quiet => \A s \in Server :
    /\ \A c \in Conn : end[c][s].st \in {"none", "server", "closed"}
    /\ \A c \in Linked(World, s) : IsServerLink(World, c, Peer(World, c, s))
    /\ \A i \in DOMAIN known[s] :
         LET e == known[s][i]
             p == Peer(World, e.via, s)
         IN \/ e.name = p
            \/ \E j \in DOMAIN known[p] : /\ known[p][j].name = e.name
                                          /\ known[p][j].via # e.via
                                          /\ known[p][j].hop + 1 = e.hop
    /\ \A t \in Server \ {s} :
         Up(s, t) => /\ find_server(World, s, t) # {}
                     /\ \A j \in DOMAIN known[t] :
                          known[t][j].name # s => find_server(World, s, known[t][j].name) # {}

\* Whatever happens, the servers come to rest: no SQUIT and no SERVER goes
\* round for ever.
Settles == <>[]Quiet

\* The lists of servers of each server form a tree and are counted right
\* (m_server, server_estab, remove_dependents).
ListsSound == TypeOK /\ TreeOK /\ CountsRight
=============================================================================
