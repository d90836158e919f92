------------------------------- MODULE NickTS -------------------------------
(***************************************************************************)
(* Nick names on a network of servers: m_nick and nickkilldone (s_user.c), *)
(* m_kill (m_kill.c), the chase of a nick through the history              *)
(* (m_whowas.c), the checks of a line's source in parse() (parse.c) and    *)
(* the burst of clients when servers link (s_serv.c).                      *)
(*                                                                         *)
(* Between servers a client is only known by its nick: every line names    *)
(* its source and its target by the nick they had when the line was sent.  *)
(* Servers form a tree, as in ChannelTS; a User is one connection of one   *)
(* client to its home server.                                              *)
(***************************************************************************)
EXTENDS Naturals, Sequences, FiniteSets

CONSTANTS
    Server,      \* the servers of the network
    User,        \* the clients
    Home,        \* Home[u]: the server u is connected to
    Hop,         \* Hop[s][t]: s's neighbour on the path to t (->from at s)
    UserHost,    \* UserHost[u]: u's username and host
    Nick,        \* the nick names, told apart without regard to case
    NoUser,      \* no client
    MaxChanges,  \* MAX_NICK_CHANGES
    Scripts      \* what may happen; a behaviour follows one of them

Neighbours(s) == {t \in Server \ {s} : Hop[s][t] = t}

\* The users s reaches through its neighbour t (acptr->from == t).
Via(s, t) == {u \in User : Home[u] # s /\ Hop[s][Home[u]] = t}

ASSUME NickAssumption ==
    /\ Home \in [User -> Server]
    /\ Hop \in [Server -> [Server -> Server]]
    /\ NoUser \notin User
    /\ MaxChanges \in Nat
    /\ \A sc \in Scripts :
          /\ sc.clock \in [Server -> SUBSET (Nat \ {0})]
          /\ sc.budget \in Nat

\* The servers form a tree: two neighbours see every user on one side of the
\* link between them, and on the same side.
ASSUME TreeAssumption ==
    \A s \in Server : \A t \in Neighbours(s) :
        /\ s \in Neighbours(t)
        /\ Via(t, s) = User \ Via(s, t)

VARIABLES
    clients,  \* clients[s]: the client structures of s that have a nick
    online,   \* online[s][n]: the client the newest history entry for n points to
    time,     \* time[s]: CurrentTime of s when it last gave out a timestamp
    changes,  \* changes[u]: u->number_of_nick_changes
    linked,   \* linked[s]: the neighbours s has established a link with
    wire,     \* wire[s][t]: messages s has sent t and t has not parsed yet
    gone,     \* users whose connection has ended
    script,   \* the script the behaviour follows: the commands and events that
              \* happen (does), the values CurrentTime may have at s, servers'
              \* clocks being only roughly in step (clock[s]), how much happens
              \* (budget), and whether clients only come and links only open,
              \* so that all who leave lost a collision (meet)
    budget    \* bound: client commands and network events still allowed

vars == <<clients, online, time, changes, linked, wire, gone, script, budget>>

\* A client structure; registered: NICK and USER have both arrived, and the
\* other servers have been told.
Client == [user : User, nick : Nick, ts : Nat \ {0}, registered : BOOLEAN]

Message ==
    [type : {"SERVER", "EOF"}]
        \cup [type : {"NICK"}, user : User, nick : Nick, ts : Nat \ {0}]
        \cup [type : {"CHANGE"}, old : Nick, nick : Nick, ts : Nat \ {0}]
        \cup [type : {"KILL", "QUIT"}, nick : Nick]
        \cup [type : {"SQUIT"}, users : SUBSET User]

KillOf(n) == [type |-> "KILL", nick |-> n]

\* Slip: the timestamp is left out.
IntroductionNoTS(c) == [type |-> "NICK", user |-> c.user, nick |-> c.nick, ts |-> 0]

Introduction(c) == [type |-> "NICK", user |-> c.user, nick |-> c.nick, ts |-> c.ts]

\* find_client: the structures of s that have nick n.
Named(s, n) == {c \in clients[s] : c.nick = n}

Local(s, c) == Home[c.user] = s

\* sendto_serv_butone
SendButOne(w, s, t, msgs) ==
    [w EXCEPT ![s] = [x \in Server |->
        IF x \in linked[s] \ {t} THEN @[x] \o msgs ELSE @[x]]]

SendAll(w, s, msgs) == SendButOne(w, s, s, msgs)

-----------------------------------------------------------------------------
(* The state after clients left s, and after one took a nick there         *)

\* Slip: nobody tells the history.
OffHistoryNot(h, left) == h

\* off_history: the entries that pointed to one of the users that left point
\* nowhere, and so does the new entry add_history makes for its last nick.
OffHistory(h, left) ==
    LET users == {c.user : c \in left}
        nicks == {c.nick : c \in {x \in left : x.registered}}
    IN [n \in Nick |-> IF n \in nicks \/ h[n] \in users THEN NoUser ELSE h[n]]

\* exit_client at s of the clients left; then the structures was turn into new.
Update(s, left, was, new) ==
    /\ clients' = [clients EXCEPT ![s] = (@ \ (left \cup was)) \cup new]
    /\ online' = [online EXCEPT ![s] = OffHistory(@, left)]
    /\ gone' = gone \cup {c.user : c \in {x \in left : Local(s, x)}}

\* Slip: the client that had the nick is not exited.
RenameOver(s, c, n, ts, left) ==
    /\ clients' = [clients EXCEPT ![s] =
           (@ \ {c}) \cup {[c EXCEPT !.nick = n, !.ts = ts]}]
    /\ online' = [online EXCEPT ![s][c.nick] = c.user]
    /\ UNCHANGED gone

\* nickkilldone for a nick change, left having been exited before: the old
\* nick's newest history entry points to the client (add_history(sptr, 1)).
Rename(s, c, n, ts, left) ==
    /\ clients' = [clients EXCEPT ![s] =
           (@ \ ({c} \cup left)) \cup {[c EXCEPT !.nick = n, !.ts = ts]}]
    /\ online' = [online EXCEPT ![s] =
           IF c.registered THEN [OffHistory(@, left) EXCEPT ![c.nick] = c.user]
           ELSE OffHistory(@, left)]
    /\ gone' = gone \cup {x.user : x \in {y \in left : Local(s, y)}}

\* The nick is free, or held by a connection here that never registered: that
\* one is exited ("Overridden") and makes room.
FreeFor(s, n) == \A c \in Named(s, n) : ~c.registered

-----------------------------------------------------------------------------
(* m_nick from a server                                                    *)

Tie(ts, c) == ts = 0 \/ c.ts = 0 \/ ts = c.ts

\* Slip: ours is always killed.
LosesNever(u, ts, c) == FALSE

\* Slip: ours is never killed.
LosesAlways(u, ts, c) == TRUE

\* The newcomer loses: against another user@host the younger nick does,
\* against the same one (a reconnect) the older.
Loses(u, ts, c) ==
    IF UserHost[u] = UserHost[c.user] THEN ts < c.ts ELSE ts > c.ts

\* "NICK new": a neighbour introduces a client.
RecvNick(s, t, m, w) ==
    LET new == [user |-> m.user, nick |-> m.nick, ts |-> m.ts,
                registered |-> TRUE]
        old == Named(s, m.nick)
    IN \/ /\ FreeFor(s, m.nick)
          /\ Update(s, old, {}, {new})
          /\ wire' = SendButOne(w, s, t, <<m>>)
       \/ \E c \in old :
          /\ c.registered
          /\ \/ /\ Tie(m.ts, c)
                /\ Update(s, {c}, {}, {})
                /\ wire' = SendAll(w, s, <<KillOf(m.nick)>>)
             \/ /\ ~Tie(m.ts, c) /\ Loses(m.user, m.ts, c)
                /\ wire' = w
                /\ UNCHANGED <<clients, online, gone>>
             \/ /\ ~Tie(m.ts, c) /\ ~Loses(m.user, m.ts, c)
                /\ Update(s, {c}, {}, {new})
                /\ wire' = SendButOne(w, s, t, <<KillOf(m.nick), m>>)

\* parse(): the source of a line is a client that is not known here
\* (remove_unknown), or that is not behind the link the line came from
\* (cancel_clients, which ignores the line).
UnknownPrefix(s, t, n, w) ==
    /\ Named(s, n) = {}
    /\ wire' = [w EXCEPT ![s][t] = Append(@, KillOf(n))]
    /\ UNCHANGED <<clients, online, gone>>

WrongDirection(s, t, n, w) ==
    /\ \E c \in Named(s, n) : c.user \notin Via(s, t)
    /\ wire' = w
    /\ UNCHANGED <<clients, online, gone>>

\* ":old NICK new"
RecvChange(s, t, m, w) ==
    \/ UnknownPrefix(s, t, m.old, w)
    \/ WrongDirection(s, t, m.old, w)
    \/ \E src \in Named(s, m.old) :
       /\ src.user \in Via(s, t)
       /\ \/ /\ FreeFor(s, m.nick)
             /\ Rename(s, src, m.nick, m.ts, Named(s, m.nick))
             /\ wire' = SendButOne(w, s, t, <<m>>)
          \/ \E c \in Named(s, m.nick) :
             /\ c.registered
             /\ \/ /\ Tie(m.ts, c)
                   /\ Update(s, {c, src}, {}, {})
                   /\ wire' = SendAll(w, s, <<KillOf(m.old), KillOf(m.nick)>>)
                \/ /\ ~Tie(m.ts, c) /\ Loses(src.user, m.ts, c)
                   /\ Update(s, {src}, {}, {})
                   /\ wire' = SendButOne(w, s, t, <<KillOf(m.old)>>)
                \/ /\ ~Tie(m.ts, c) /\ ~Loses(src.user, m.ts, c)
                   /\ Rename(s, src, m.nick, m.ts, {c})
                   /\ wire' = SendButOne(w, s, t, <<KillOf(m.nick), m>>)

-----------------------------------------------------------------------------
(* Other messages from a neighbour                                         *)

\* m_kill: whoever has the nick now, or else the client that had it last and
\* is still online under another one.
Victim(s, n) ==
    IF Named(s, n) # {} THEN Named(s, n)
    ELSE {c \in clients[s] : c.user = online[s][n]}

\* Slip: a KILL for a client that is not known is answered.
RecvKillAnswered(s, t, m, w) ==
    \/ UnknownPrefix(s, t, m.nick, w)
    \/ \E c \in Named(s, m.nick) :
       /\ Update(s, {c}, {}, {})
       /\ wire' = SendButOne(w, s, t, <<KillOf(c.nick)>>)

\* A KILL rewritten for the new nick also goes back to where it came from.
RecvKill(s, t, m, w) ==
    \/ /\ Victim(s, m.nick) = {}
       /\ wire' = w
       /\ UNCHANGED <<clients, online, gone>>
    \/ \E c \in Victim(s, m.nick) :
       /\ Update(s, {c}, {}, {})
       /\ wire' = IF Named(s, m.nick) = {}
                  THEN SendAll(w, s, <<KillOf(c.nick)>>)
                  ELSE SendButOne(w, s, t, <<KillOf(c.nick)>>)

RecvQuit(s, t, m, w) ==
    \/ UnknownPrefix(s, t, m.nick, w)
    \/ WrongDirection(s, t, m.nick, w)
    \/ \E c \in Named(s, m.nick) :
       /\ c.user \in Via(s, t)
       /\ Update(s, {c}, {}, {})
       /\ wire' = SendButOne(w, s, t, <<m>>)

\* The clients of s whose home is behind the link that broke further away.
RecvSquit(s, t, m, w) ==
    /\ Update(s, {c \in clients[s] : c.user \in m.users}, {}, {})
    /\ wire' = SendButOne(w, s, t, <<m>>)

\* Slip: the link is closed and nobody behind it exits.
CloseLinkKeepsUsers(s, t, w) ==
    /\ linked' = [linked EXCEPT ![s] = @ \ {t}]
    /\ wire' = SendButOne(w, s, t,
                   <<[type |-> "SQUIT", users |-> Via(s, t)]>>)
    /\ UNCHANGED <<clients, online, gone>>

\* The link from s to t is gone: exit_client at s of t and of everyone behind
\* it, and a SQUIT to the other neighbours.
CloseLink(s, t, w) ==
    /\ linked' = [linked EXCEPT ![s] = @ \ {t}]
    /\ Update(s, {c \in clients[s] : c.user \in Via(s, t)}, {}, {})
    /\ wire' = SendButOne(w, s, t,
                   <<[type |-> "SQUIT", users |-> Via(s, t)]>>)

\* server_estab: a NICK line for every registered client not behind the new
\* link, in some order of the client list.
BurstTo(s, t, w) ==
    LET told == {c \in clients[s] : c.registered /\ c.user \notin Via(s, t)}
    IN \E order \in [1..Cardinality(told) -> told] :
        /\ \A i, j \in DOMAIN order : i # j => order[i] # order[j]
        /\ wire' = [w EXCEPT ![s][t] =
                       @ \o [i \in DOMAIN order |-> Introduction(order[i])]]

\* m_server at the end that asked for the link: it bursts in its turn.
RecvServer(s, t, m, w) ==
    /\ linked' = [linked EXCEPT ![s] = @ \cup {t}]
    /\ BurstTo(s, t, w)
    /\ UNCHANGED <<clients, online, gone>>

\* s parses the next line its neighbour t sent.
Receive(s, t) ==
    /\ wire[t][s] # <<>>
    /\ LET m == Head(wire[t][s])
           w == [wire EXCEPT ![t][s] = Tail(@)]
       IN \/ m.type = "SERVER" /\ RecvServer(s, t, m, w)
          \/ /\ t \in linked[s] /\ m.type = "EOF"
             /\ CloseLink(s, t, [w EXCEPT ![s][t] = <<>>])
          \/ /\ t \in linked[s]
             /\ \/ m.type = "NICK" /\ RecvNick(s, t, m, w)
                \/ m.type = "CHANGE" /\ RecvChange(s, t, m, w)
                \/ m.type = "KILL" /\ RecvKill(s, t, m, w)
                \/ m.type = "QUIT" /\ RecvQuit(s, t, m, w)
                \/ m.type = "SQUIT" /\ RecvSquit(s, t, m, w)
             /\ UNCHANGED linked
    /\ UNCHANGED <<time, changes, script, budget>>

-----------------------------------------------------------------------------
(* Commands of s's own clients and events on s's links                     *)

Command(s, name) ==
    /\ name \in script.does
    /\ budget > 0
    /\ budget' = budget - 1
    /\ UNCHANGED script

\* s gives out the timestamp now; its clock never goes back.
Stamp(s, now) ==
    /\ now \in script.clock[s] /\ now >= time[s]
    /\ time' = [time EXCEPT ![s] = now]

\* The first NICK of a connection.
FirstNick(s, u, n, now) ==
    /\ Command(s, "NICK") /\ Stamp(s, now)
    /\ Home[u] = s /\ u \notin gone
    /\ \A c \in clients[s] : c.user # u
    /\ FreeFor(s, n)
    /\ Update(s, Named(s, n), {}, {[user |-> u, nick |-> n, ts |-> now,
                                 registered |-> FALSE]})
    /\ UNCHANGED <<changes, linked, wire>>

\* USER completes the registration: the other servers hear of the client.
Register(s, c) ==
    /\ Command(s, "USER")
    /\ Local(s, c) /\ ~c.registered
    /\ clients' = [clients EXCEPT ![s] =
           (@ \ {c}) \cup {[c EXCEPT !.registered = TRUE]}]
    /\ wire' = SendAll(wire, s, <<Introduction(c)>>)
    /\ UNCHANGED <<online, time, changes, linked, gone>>

\* A nick change by a client of s; paused: more than MAX_NICK_TIME since its
\* last one.  A change too many is refused, after the timestamp was set.
ChangeNick(s, c, n, now, paused) ==
    LET count == (IF paused THEN 0 ELSE changes[c.user]) + 1
        line == [type |-> "CHANGE", old |-> c.nick, nick |-> n, ts |-> now]
    IN /\ Command(s, "CHANGE") /\ Stamp(s, now)
       /\ Local(s, c) /\ n # c.nick
       /\ FreeFor(s, n)
       /\ \/ /\ ~c.registered
             /\ Rename(s, c, n, now, Named(s, n))
             /\ UNCHANGED <<changes, wire>>
          \/ /\ c.registered /\ count <= MaxChanges
             /\ changes' = [changes EXCEPT ![c.user] = count]
             /\ Rename(s, c, n, now, Named(s, n))
             /\ wire' = SendAll(wire, s, <<line>>)
          \/ /\ c.registered /\ count > MaxChanges
             /\ changes' = [changes EXCEPT ![c.user] = count]
             /\ Update(s, Named(s, n), {c}, {[c EXCEPT !.ts = now]})
             /\ UNCHANGED wire
       /\ UNCHANGED linked

Quit(s, c) ==
    /\ Command(s, "QUIT")
    /\ Local(s, c)
    /\ Update(s, {c}, {}, {})
    /\ wire' = IF c.registered
               THEN SendAll(wire, s, <<[type |-> "QUIT", nick |-> c.nick]>>)
               ELSE wire
    /\ UNCHANGED <<time, changes, linked>>

\* An operator of s kills a client of another server.
Kill(s, c) ==
    /\ Command(s, "KILL")
    /\ c \in clients[s] /\ ~Local(s, c)
    /\ Update(s, {c}, {}, {})
    /\ wire' = SendAll(wire, s, <<KillOf(c.nick)>>)
    /\ UNCHANGED <<time, changes, linked>>

\* m_server and server_estab at s for a connection t has opened.
Link(s, t) ==
    /\ Command(s, "LINK")
    /\ t \in Neighbours(s) \ linked[s]
    /\ s \notin linked[t]
    /\ wire[s][t] = <<>> /\ wire[t][s] = <<>>
    /\ linked' = [linked EXCEPT ![s] = @ \cup {t}]
    /\ BurstTo(s, t, [wire EXCEPT ![s][t] = <<[type |-> "SERVER"]>>])
    /\ UNCHANGED <<clients, online, time, changes, gone>>

\* s finds its connection to t dead, or closes it.
Split(s, t) ==
    /\ Command(s, "SPLIT")
    /\ t \in linked[s]
    /\ LET in == wire[t][s]
           closed == in # <<>> /\ in[Len(in)].type = "EOF"
       IN CloseLink(s, t, [wire EXCEPT
              ![t][s] = <<>>,
              ![s][t] = IF closed THEN <<>>
                        ELSE Append(@, [type |-> "EOF"])])
    /\ UNCHANGED <<time, changes>>

Init ==
    /\ clients = [s \in Server |-> {}]
    /\ online = [s \in Server |-> [n \in Nick |-> NoUser]]
    /\ time = [s \in Server |-> 0]
    /\ changes = [u \in User |-> 0]
    /\ linked = [s \in Server |-> {}]
    /\ wire = [s \in Server |-> [t \in Server |-> <<>>]]
    /\ gone = {}
    /\ script \in Scripts
    /\ budget = script.budget

Next ==
    \/ \E s, t \in Server : Receive(s, t)
    \/ \E s \in Server : \E u \in User, n \in Nick, now \in script.clock[s] :
          FirstNick(s, u, n, now)
    \/ \E s \in Server : \E c \in clients[s] : Register(s, c)
    \/ \E s \in Server : \E c \in clients[s], n \in Nick, now \in script.clock[s],
          paused \in BOOLEAN : ChangeNick(s, c, n, now, paused)
    \/ \E s \in Server : \E c \in clients[s] : Quit(s, c)
    \/ \E s \in Server : \E c \in clients[s] : Kill(s, c)
    \/ \E s, t \in Server : Link(s, t)
    \/ \E s, t \in Server : Split(s, t)

Spec == Init /\ [][Next]_vars

\* Every socket that has data is read (io_loop).
FairSpec == Spec /\ \A s, t \in Server : WF_vars(Receive(s, t))

-----------------------------------------------------------------------------
(* Invariants                                                              *)

\* Every variable has its type.
TypeOK ==
    /\ clients \in [Server -> SUBSET Client]
    /\ online \in [Server -> [Nick -> User \cup {NoUser}]]
    /\ time \in [Server -> Nat]
    /\ changes \in [User -> Nat]
    /\ linked \in [Server -> SUBSET Server]
    /\ wire \in [Server -> [Server -> Seq(Message)]]
    /\ gone \subseteq User
    /\ script \in Scripts
    /\ budget \in Nat

\* The client hash table of a server never holds two clients with one nick,
\* nor two structures for one connection of its own, however collisions were
\* resolved.
NicksUnique ==
    \A s \in Server : \A c, d \in clients[s] :
        c.nick = d.nick \/ (c.user = d.user /\ Local(s, c)) => c = d

\* The history never points to a client structure that was freed: what
\* get_history returns is a client of this server.
HistorySound ==
    \A s \in Server, n \in Nick :
        online[s][n] # NoUser => \E c \in clients[s] : c.user = online[s][n]

\* A server holds only clients of its own that are still connected, and
\* clients behind one of its links.
NoGhosts ==
    \A s \in Server : \A c \in clients[s] :
        \/ Home[c.user] = s /\ c.user \notin gone
        \/ \E t \in linked[s] : c.user \in Via(s, t)

-----------------------------------------------------------------------------
(* Agreement of linked servers once nothing is in flight                   *)

AllQuiet == \A s, t \in Server : wire[s][t] = <<>>

LinkedPairs == {p \in Server \X Server : p[2] \in linked[p[1]]}

Registered(s) == {c \in clients[s] : c.registered}

\* Two connected clients of linked servers never share a nick for good, as
\* long as nobody changes its nick while a collision is being resolved.
LiveNicksUnique ==
    AllQuiet /\ script.meet => \A p \in LinkedPairs :
        \A c \in Registered(p[1]), d \in Registered(p[2]) :
            c.nick = d.nick /\ Local(p[1], c) /\ Local(p[2], d) => c = d

\* Linked servers know the same clients by the same nicks: m_nick decides a
\* collision the same way at both ends, unless a nick change, a kill or a
\* split crosses it or the clocks of the two servers show the same time.
NamesAgree ==
    AllQuiet /\ script.meet => \A p \in LinkedPairs :
        {<<c.user, c.nick>> : c \in Registered(p[1])}
            = {<<c.user, c.nick>> : c \in Registered(p[2])}

\* Of the clients that collide on a nick one survives: while nobody quits and
\* no operator kills, not everybody who had a nick is gone.
OneSurvives ==
    AllQuiet /\ script.meet /\ gone # {} =>
        \E s \in Server : \E c \in clients[s] : Local(s, c)

\* No server ever has two structures for one client of another server: what
\* collisions, kills and splits make a neighbour forget it does not introduce
\* a second time.
KnownOnce ==
    \A s \in Server : \A c, d \in clients[s] : c.user = d.user => c = d

\* The traffic dies out: neither the KILLs that answer lines of unknown clients
\* nor the ones rewritten for a new nick are passed back and forth for ever.
Settles == <>[]AllQuiet

\* The client table and the history of every server are sound at every moment
\* (m_nick, exit_one_client, off_history).
NicksSound == TypeOK /\ NicksUnique /\ HistorySound /\ NoGhosts

\* No client is ever known twice, and once everything has been said servers
\* agree on the nicks, no nick is held twice, and a collision has not taken
\* everybody (m_nick, m_kill).
CollisionsResolved == KnownOnce /\ NamesAgree /\ OneSurvives /\ LiveNicksUnique
=============================================================================
