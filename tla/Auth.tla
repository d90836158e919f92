-------------------------------- MODULE Auth --------------------------------
(***************************************************************************)
(* How a new connection becomes a client of the server: the listener that  *)
(* accepts it (listener.c), the reverse DNS lookup (adns.c) and the ident  *)
(* query (s_auth.c) that run side by side for it, the timeout that ends    *)
(* both, and the exit of the connection that lets go of the listener.      *)
(*                                                                         *)
(* The server is one thread: every action below is one handler, called by  *)
(* the main loop, and the handlers of different connections interleave in  *)
(* any order.  Time is kept as far as the code looks at it: a request is   *)
(* late once auth->timeout < CurrentTime.  The names that DNS and ident    *)
(* bring, and the notices sent meanwhile, are left out.                    *)
(***************************************************************************)
EXTENDS Integers, FiniteSets

CONSTANTS Conn,     \* blocks of the local client heap, reused after an exit
          Port,     \* ports that can stand in a P line
          NoPort    \* cptr->listener == NULL

ASSUME PortAssumption == NoPort \notin Port /\ IsFiniteSet(Conn)

VARIABLES state,            \* of a connection: no client, in s_auth, in local[]
          via,              \* cptr->listener
          live,             \* connections with an allocated AuthRequest
          flags,            \* auth->flags
          late,             \* requests with auth->timeout < CurrentTime
          pollList,         \* AuthPollList
          incompleteList,   \* AuthIncompleteList
          sockets,          \* open ident sockets made for a connection
          queries,          \* unanswered queries in adns that call back with it
          listener          \* ListenerPollList: [open, active, refs] of a port

client == <<state, via>>
request == <<live, flags, late, pollList, incompleteList>>
vars == <<state, via, live, flags, late, pollList, incompleteList, sockets, queries, listener>>

State == {"free", "auth", "local"}
Flag == {"connecting", "pending", "dns"}

\* IsDoingAuth and IsDNSPending
IsDoingAuth(f) == f \cap {"connecting", "pending"} # {}
IsDNSPending(f) == "dns" \in f

-----------------------------------------------------------------------------
(***************************************************************************)
(* The steps that several handlers share, each of them for one request     *)
(* whose flags have become f.                                              *)
(***************************************************************************)

\* release_auth_client and free_auth_request: the connection becomes a client
\* that the main loop reads, its request is no more
Release(c) ==
    /\ state' = [state EXCEPT ![c] = "local"]
    /\ live' = live \ {c}
    /\ flags' = [flags EXCEPT ![c] = {}]
    /\ late' = late \ {c}

\* Slip: a request whose DNS answer is outstanding is not put on the other list.
EndIdentUnlinked(c) ==
    /\ sockets' = [sockets EXCEPT ![c] = @ - 1]
    /\ pollList' = pollList \ {c}
    /\ \/ /\ IsDNSPending(flags[c])
          /\ flags' = [flags EXCEPT ![c] = {"dns"}]
          /\ UNCHANGED <<state, live, late>>
       \/ ~IsDNSPending(flags[c]) /\ Release(c)
    /\ UNCHANGED <<via, incompleteList, queries, listener>>

\* Slip: a request that waits for nothing any more is freed, its client forgotten.
EndIdentUnreleased(c) ==
    /\ sockets' = [sockets EXCEPT ![c] = @ - 1]
    /\ pollList' = pollList \ {c}
    /\ flags' = [flags EXCEPT ![c] = @ \cap {"dns"}]
    /\ IF IsDNSPending(flags[c])
         THEN incompleteList' = incompleteList \cup {c} /\ UNCHANGED <<live, late>>
         ELSE live' = live \ {c} /\ late' = late \ {c} /\ UNCHANGED incompleteList
    /\ UNCHANGED <<client, queries, listener>>

\* the common end of auth_error and read_auth_reply: the ident socket is closed,
\* the request leaves AuthPollList and waits for DNS alone, or is done
EndIdent(c) ==
    LET f == flags[c] \ {"connecting", "pending"} IN
    /\ sockets' = [sockets EXCEPT ![c] = @ - 1]
    /\ pollList' = pollList \ {c}
    /\ \/ /\ IsDNSPending(f)
          /\ flags' = [flags EXCEPT ![c] = f]
          /\ incompleteList' = incompleteList \cup {c}
          /\ UNCHANGED <<state, live, late>>
       \/ /\ ~IsDNSPending(f)
          /\ Release(c)
          /\ UNCHANGED incompleteList
    /\ UNCHANGED <<via, queries, listener>>

\* Slip: the last connection closes the listener, in the configuration or not.
LetGoActive(l) == [l EXCEPT !.refs = @ - 1, !.open = l.refs # 1]

\* close_listener of the listener that a connection lets go of
LetGo(l) ==
    LET refs == l.refs - 1 IN
    [l EXCEPT !.refs = refs, !.open = ~(refs = 0 /\ ~l.active)]

-----------------------------------------------------------------------------
Init ==
    /\ state = [c \in Conn |-> "free"]
    /\ via = [c \in Conn |-> NoPort]
    /\ live = {} /\ late = {} /\ pollList = {} /\ incompleteList = {}
    /\ flags = [c \in Conn |-> {}]
    /\ sockets = [c \in Conn |-> 0]
    /\ queries = [c \in Conn |-> 0]
    /\ listener = [p \in Port |-> [open |-> FALSE, active |-> FALSE, refs |-> 0]]

\* start_auth_query: the ident connection gets under way, or any of its system
\* calls fails and the socket, if there was one, is closed at once
StartAuthQuery(c, ident) ==
    /\ sockets' = IF ident THEN [sockets EXCEPT ![c] = @ + 1] ELSE sockets
    /\ pollList' = IF ident THEN pollList \cup {c} ELSE pollList

\* start_auth: adns takes the lookup or not (dns), ident gets under way or not
StartAuth(c, dns, ident) ==
    LET f == (IF dns THEN {"dns"} ELSE {}) \cup (IF ident THEN {"connecting"} ELSE {}) IN
    /\ queries' = IF dns THEN [queries EXCEPT ![c] = @ + 1] ELSE queries
    /\ StartAuthQuery(c, ident)
    /\ incompleteList' = IF ~ident /\ dns THEN incompleteList \cup {c} ELSE incompleteList
    /\ IF f = {}
         THEN state' = [state EXCEPT ![c] = "local"] /\ UNCHANGED <<live, flags>>
         ELSE /\ state' = [state EXCEPT ![c] = "auth"]
              /\ live' = live \cup {c}
              /\ flags' = [flags EXCEPT ![c] = f]
    /\ UNCHANGED late

\* add_connection: the client counts for its listener and goes to s_auth
AddConnection(p, c) ==
    /\ state[c] = "free"
    /\ via' = [via EXCEPT ![c] = p]
    /\ listener' = [listener EXCEPT ![p].refs = @ + 1]
    /\ \E dns, ident \in BOOLEAN : StartAuth(c, dns, ident)

\* accept_connection; a listener that is shutting down, a D line and a full table
\* refuse the socket and change nothing here
AcceptConnection(p, c) ==
    /\ listener[p].open /\ listener[p].active
    /\ AddConnection(p, c)

\* send_auth_query, called when the ident socket of a request that is connecting
\* is writable: the query is sent, or auth_error; EAGAIN changes nothing
SendAuthQuery(c) ==
    /\ c \in pollList /\ "connecting" \in flags[c]
    /\ \/ /\ flags' = [flags EXCEPT ![c] = (@ \ {"connecting"}) \cup {"pending"}]
          /\ UNCHANGED <<client, live, late, pollList, incompleteList, sockets, queries, listener>>
       \/ EndIdent(c)

\* read_auth_reply, called when the ident socket of any other request has input:
\* good or bad, the first reply is the last; EAGAIN changes nothing
ReadAuthReply(c) ==
    /\ c \in pollList /\ "connecting" \notin flags[c]
    /\ EndIdent(c)

\* dns_do_callbacks hands an answer, or the failure of the query, to
\* auth_dns_callback
AuthDNSCallback(c) ==
    LET f == flags[c] \ {"dns"} IN
    /\ queries[c] > 0
    /\ queries' = [queries EXCEPT ![c] = @ - 1]
    /\ IF IsDoingAuth(f)
         THEN /\ flags' = [flags EXCEPT ![c] = f]
              /\ UNCHANGED <<state, live, late, incompleteList>>
         ELSE Release(c) /\ incompleteList' = incompleteList \ {c}
    /\ UNCHANGED <<via, pollList, sockets, listener>>

\* time passes: auth->timeout < CurrentTime from now on
Expire(c) ==
    /\ c \in live \ late
    /\ late' = late \cup {c}
    /\ UNCHANGED <<client, live, flags, pollList, incompleteList, sockets, queries, listener>>

\* Slip: only the requests that wait for DNS alone have their lookup cancelled.
CancelledIncomplete(c) == c \in late /\ c \in incompleteList

\* Slip: a lookup is cancelled whether it is pending or answered.
CancelledAlways(c) == c \in late

\* the late requests of AuthPollList whose lookup timeout_auth_queries cancels
Cancelled(c) == c \in late /\ (c \in incompleteList \/ (c \in pollList /\ IsDNSPending(flags[c])))

\* Slip: the second list is not looked at.
TimeoutPollListOnly ==
    LET done == late \cap pollList IN
    /\ done # {}
    /\ sockets' = [c \in Conn |-> IF c \in done THEN sockets[c] - 1 ELSE sockets[c]]
    /\ queries' = [c \in Conn |-> IF c \in done /\ Cancelled(c) THEN queries[c] - 1 ELSE queries[c]]
    /\ pollList' = pollList \ done
    /\ state' = [c \in Conn |-> IF c \in done THEN "local" ELSE state[c]]
    /\ live' = live \ done
    /\ flags' = [c \in Conn |-> IF c \in done THEN {} ELSE flags[c]]
    /\ late' = late \ done
    /\ UNCHANGED <<via, incompleteList, listener>>

\* Slip: the ident socket of a late request stays open.
TimeoutKeepsSocket ==
    LET done == late \cap (pollList \cup incompleteList) IN
    /\ done # {}
    /\ queries' = [c \in Conn |-> IF Cancelled(c) THEN queries[c] - 1 ELSE queries[c]]
    /\ pollList' = pollList \ late
    /\ incompleteList' = incompleteList \ late
    /\ state' = [c \in Conn |-> IF c \in done THEN "local" ELSE state[c]]
    /\ live' = live \ done
    /\ flags' = [c \in Conn |-> IF c \in done THEN {} ELSE flags[c]]
    /\ late' = late \ done
    /\ UNCHANGED <<via, sockets, listener>>

\* Slip: every request is given up, late or not.
TimeoutEverything ==
    /\ live # {}
    /\ sockets' = [c \in Conn |-> 0]
    /\ queries' = [c \in Conn |-> 0]
    /\ pollList' = {} /\ incompleteList' = {}
    /\ state' = [c \in Conn |-> IF c \in live THEN "local" ELSE state[c]]
    /\ live' = {} /\ late' = {}
    /\ flags' = [c \in Conn |-> {}]
    /\ UNCHANGED <<via, listener>>

\* timeout_auth_queries: every late request of both lists gives up its socket
\* and its lookup, and its client is let in
TimeoutAuthQueries ==
    LET done == late \cap (pollList \cup incompleteList) IN
    /\ done # {}
    /\ sockets' = [c \in Conn |-> IF c \in late \cap pollList THEN sockets[c] - 1 ELSE sockets[c]]
    /\ queries' = [c \in Conn |-> IF Cancelled(c) THEN queries[c] - 1 ELSE queries[c]]
    /\ pollList' = pollList \ late
    /\ incompleteList' = incompleteList \ late
    /\ state' = [c \in Conn |-> IF c \in done THEN "local" ELSE state[c]]
    /\ live' = live \ done
    /\ flags' = [c \in Conn |-> IF c \in done THEN {} ELSE flags[c]]
    /\ late' = late \ done
    /\ UNCHANGED <<via, listener>>

\* exit_client of a local client: close_connection drops its reference to the
\* listener, and the last one closes a listener that left the configuration
ExitClient(c) ==
    /\ state[c] = "local"
    /\ state' = [state EXCEPT ![c] = "free"]
    /\ via' = [via EXCEPT ![c] = NoPort]
    /\ listener' = IF via[c] = NoPort THEN listener
                   ELSE [listener EXCEPT ![via[c]] = LetGo(@)]
    /\ UNCHANGED <<request, sockets, queries>>

\* rehash: mark_listeners_closing, add_listener for every P line of the new file
\* (a port that cannot be bound stays closed), close_listeners
Rehash(ports, bound) ==
    listener' = [p \in Port |->
        LET l == listener[p]
            open == l.open \/ (p \in ports /\ p \in bound)
            active == open /\ p \in ports
        IN [open |-> open /\ (active \/ l.refs > 0), active |-> active, refs |-> l.refs]]

RehashPorts ==
    /\ \E ports, bound \in SUBSET Port : Rehash(ports, bound)
    /\ UNCHANGED <<client, request, sockets, queries>>

Next ==
    \/ \E p \in Port, c \in Conn : AcceptConnection(p, c)
    \/ \E c \in Conn : SendAuthQuery(c)
    \/ \E c \in Conn : ReadAuthReply(c)
    \/ \E c \in Conn : AuthDNSCallback(c)
    \/ \E c \in Conn : Expire(c)
    \/ TimeoutAuthQueries
    \/ \E c \in Conn : ExitClient(c)
    \/ RehashPorts

Spec == Init /\ [][Next]_vars

\* The clock runs and the main loop keeps calling timeout_auth_queries; nothing
\* is assumed of the name servers, of the ident server or of the other end.
FairSpec == Spec /\ \A c \in Conn : WF_vars(Expire(c)) /\ WF_vars(TimeoutAuthQueries)

-----------------------------------------------------------------------------
(***************************************************************************)
(* Properties.                                                             *)
(***************************************************************************)

TypeOK ==
    /\ state \in [Conn -> State]
    /\ via \in [Conn -> Port \cup {NoPort}]
    /\ live \subseteq Conn /\ late \subseteq Conn
    /\ pollList \subseteq Conn /\ incompleteList \subseteq Conn
    /\ flags \in [Conn -> SUBSET Flag]
    /\ sockets \in [Conn -> Nat]
    /\ queries \in [Conn -> Nat]
    /\ listener \in [Port -> [open : BOOLEAN, active : BOOLEAN, refs : Nat]]

\* A request is on AuthPollList exactly while its ident query is under way, and
\* on AuthIncompleteList exactly while it waits for DNS alone: the handlers of
\* s_auth.c unlink from the list they assume, without looking.
ListsMatchFlags ==
    \A c \in Conn :
        /\ c \in pollList <=> c \in live /\ IsDoingAuth(flags[c])
        /\ c \in incompleteList <=> c \in live /\ ~IsDoingAuth(flags[c]) /\ IsDNSPending(flags[c])

\* adns calls back with a pointer to the request: there is a query in flight
\* exactly while its request exists and expects it, so that no answer reaches a
\* request that is freed, or the request of the next client in the same block.
QueriesMatch ==
    \A c \in Conn : queries[c] = IF c \in live /\ IsDNSPending(flags[c]) THEN 1 ELSE 0

\* Every way out of AuthPollList closes the ident socket, once.
SocketsMatch ==
    \A c \in Conn : sockets[c] = IF c \in pollList THEN 1 ELSE 0

\* A connection that nobody reads yet has a request on one of the lists: each
\* path of s_auth.c that frees a request lets its client in, and no other does.
NoLostClient ==
    \A c \in Conn :
        /\ state[c] = "auth" <=> c \in live
        /\ c \in live => c \in pollList \cup incompleteList

\* the connections that came through a port
Through(p) == {c \in Conn : via[c] = p}

\* A listener counts the connections that came through it, whatever rehashes
\* came between, and it is there as long as it is configured or in use: the
\* pointer cptr->listener never dangles.
ListenersMatch ==
    \A p \in Port :
        /\ listener[p].refs = Cardinality(Through(p))
        /\ listener[p].open <=> listener[p].active \/ listener[p].refs > 0

\* Unless it is late, a connection is let in by the step that ends the last of
\* its two lookups.
OnlyWhenDone ==
    [][\A c \in Conn :
        state[c] = "auth" /\ state'[c] = "local" /\ c \notin late
            => queries[c] + sockets[c] = 1]_vars

\* Every connection is let in, even if no name server or ident server answers.
Admitted == \A c \in Conn : (state[c] = "auth") ~> (state[c] # "auth")

\* At every moment the requests, their lists, the resolver's queries, the
\* ident sockets and the listeners fit together (s_auth.c, listener.c).
RequestsSound ==
    /\ TypeOK /\ ListsMatchFlags /\ NoLostClient
    /\ QueriesMatch /\ SocketsMatch /\ ListenersMatch
=============================================================================
