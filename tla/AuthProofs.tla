----------------------------- MODULE AuthProofs -----------------------------
(***************************************************************************)
(* Proofs that the bookkeeping of Auth is right for any number of          *)
(* connections and ports.                                                  *)
(*                                                                         *)
(* The facts about one connection (its lists, its query, its socket, its   *)
(* state) are inductive together: they are gathered in ConnOK, and a       *)
(* handler that works on one connection leaves those of the others alone.  *)
(* The facts about the listeners are inductive with one addition, that a   *)
(* block without a client refers to no listener.                           *)
(***************************************************************************)
EXTENDS Auth, FiniteSetTheorems, TLAPS

\* What ListsMatchFlags, QueriesMatch, SocketsMatch and NoLostClient say of one
\* connection.
ConnOK(c) ==
    /\ c \in pollList <=> c \in live /\ IsDoingAuth(flags[c])
    /\ c \in incompleteList <=> c \in live /\ ~IsDoingAuth(flags[c]) /\ IsDNSPending(flags[c])
    /\ queries[c] = IF c \in live /\ IsDNSPending(flags[c]) THEN 1 ELSE 0
    /\ sockets[c] = IF c \in pollList THEN 1 ELSE 0
    /\ state[c] = "auth" <=> c \in live
    /\ c \in live => c \in pollList \cup incompleteList

\* A block without a client has no listener.
FreeBlocks == \A c \in Conn : state[c] = "free" => via[c] = NoPort

Requests == \A c \in Conn : ConnOK(c)

IndInv == TypeOK /\ Requests /\ ListenersMatch /\ FreeBlocks

-----------------------------------------------------------------------------
\* The part of a connection's state that ConnOK looks at.
Same(c) ==
    /\ c \in pollList' <=> c \in pollList
    /\ c \in incompleteList' <=> c \in incompleteList
    /\ c \in live' <=> c \in live
    /\ flags'[c] = flags[c] /\ queries'[c] = queries[c]
    /\ sockets'[c] = sockets[c] /\ state'[c] = state[c]

\* A step that leaves a connection alone keeps what is known of it.
LEMMA SameOK ==
    ASSUME NEW c \in Conn, ConnOK(c), Same(c)
    PROVE  ConnOK(c)'
  BY DEF ConnOK, Same

\* Init establishes the invariant: nothing is there yet.
LEMMA InitOK == Init => IndInv
<1> SUFFICES ASSUME Init PROVE IndInv
  OBVIOUS
<1>1. TypeOK
  BY DEF Init, TypeOK, State, Flag
<1>2. Requests
  BY DEF Init, Requests, ConnOK, IsDoingAuth, IsDNSPending
<1>3. FreeBlocks
  BY DEF Init, FreeBlocks
<1>4. ListenersMatch
  <2> SUFFICES ASSUME NEW p \in Port
               PROVE /\ listener[p].refs = Cardinality(Through(p))
                     /\ listener[p].open <=> listener[p].active \/ listener[p].refs > 0
    BY DEF ListenersMatch
  <2>1. Through(p) = {}
    BY PortAssumption DEF Init, Through
  <2>2. Cardinality({}) = 0
    BY FS_EmptySet
  <2> QED
    BY <2>1, <2>2 DEF Init
<1> QED
  BY <1>1, <1>2, <1>3, <1>4 DEF IndInv

-----------------------------------------------------------------------------
(***************************************************************************)
(* The handlers of s_auth.c that work on one request.                      *)
(***************************************************************************)

\* EndIdent, for auth_error and read_auth_reply.
LEMMA EndIdentOK ==
    ASSUME IndInv, NEW c \in Conn, c \in pollList, EndIdent(c)
    PROVE  TypeOK' /\ Requests' /\ FreeBlocks'
<1> USE DEF IsDoingAuth, IsDNSPending
<1>0. TypeOK /\ ConnOK(c) /\ sockets[c] = 1
  BY DEF IndInv, Requests, ConnOK
<1>1. TypeOK'
  BY <1>0 DEF TypeOK, EndIdent, Release, State, Flag
<1>2. ASSUME NEW d \in Conn PROVE ConnOK(d)'
  <2>1. CASE d = c
    BY <1>0, <2>1 DEF ConnOK, EndIdent, Release, TypeOK
  <2>2. CASE d # c
    <3>1. Same(d)
      BY <2>2, <1>0 DEF Same, EndIdent, Release, TypeOK
    <3> QED
      BY <3>1, SameOK DEF IndInv, Requests
  <2> QED
    BY <2>1, <2>2
<1>3. FreeBlocks'
  BY <1>0 DEF IndInv, FreeBlocks, EndIdent, Release, TypeOK
<1> QED
  BY <1>1, <1>2, <1>3 DEF Requests

\* send_auth_query when the query goes out.
LEMMA SentOK ==
    ASSUME IndInv, NEW c \in Conn, c \in pollList, "connecting" \in flags[c],
           flags' = [flags EXCEPT ![c] = (@ \ {"connecting"}) \cup {"pending"}],
           UNCHANGED <<client, live, late, pollList, incompleteList, sockets, queries, listener>>
    PROVE  TypeOK' /\ Requests' /\ FreeBlocks'
<1> USE DEF IsDoingAuth, IsDNSPending, client
<1>0. TypeOK /\ ConnOK(c)
  BY DEF IndInv, Requests
<1>1. TypeOK'
  BY <1>0 DEF TypeOK, Flag
<1>2. ASSUME NEW d \in Conn PROVE ConnOK(d)'
  <2>1. CASE d = c
    BY <1>0, <2>1 DEF ConnOK, TypeOK
  <2>2. CASE d # c
    <3>1. Same(d)
      BY <2>2, <1>0 DEF Same, TypeOK
    <3> QED
      BY <3>1, SameOK DEF IndInv, Requests
  <2> QED
    BY <2>1, <2>2
<1>3. FreeBlocks'
  BY DEF IndInv, FreeBlocks
<1> QED
  BY <1>1, <1>2, <1>3 DEF Requests

\* auth_dns_callback.
LEMMA CallbackOK ==
    ASSUME IndInv, NEW c \in Conn, AuthDNSCallback(c)
    PROVE  TypeOK' /\ Requests' /\ FreeBlocks'
<1> USE DEF IsDoingAuth, IsDNSPending
<1>0. TypeOK /\ ConnOK(c) /\ queries[c] = 1 /\ c \in live /\ "dns" \in flags[c]
  BY DEF IndInv, Requests, ConnOK, AuthDNSCallback
<1>1. TypeOK'
  BY <1>0 DEF TypeOK, AuthDNSCallback, Release, State, Flag
<1>2. ASSUME NEW d \in Conn PROVE ConnOK(d)'
  <2>1. CASE d = c
    BY <1>0, <2>1 DEF ConnOK, AuthDNSCallback, Release, TypeOK
  <2>2. CASE d # c
    <3>1. Same(d)
      BY <2>2, <1>0 DEF Same, AuthDNSCallback, Release, TypeOK
    <3> QED
      BY <3>1, SameOK DEF IndInv, Requests
  <2> QED
    BY <2>1, <2>2
<1>3. FreeBlocks'
  BY <1>0 DEF IndInv, FreeBlocks, AuthDNSCallback, Release, TypeOK
<1> QED
  BY <1>1, <1>2, <1>3 DEF Requests

\* time passes for one request.
LEMMA ExpireOK ==
    ASSUME IndInv, NEW c \in Conn, Expire(c)
    PROVE  TypeOK' /\ Requests' /\ FreeBlocks'
<1>1. TypeOK'
  BY DEF IndInv, TypeOK, Expire, client
<1>2. ASSUME NEW d \in Conn PROVE Same(d)
  BY DEF Same, Expire, client
<1>3. FreeBlocks'
  BY DEF IndInv, FreeBlocks, Expire, client
<1> QED
  BY <1>1, <1>2, <1>3, SameOK DEF IndInv, Requests

\* timeout_auth_queries: each connection is either let in or left alone.
LEMMA TimeoutOK ==
    ASSUME IndInv, TimeoutAuthQueries
    PROVE  TypeOK' /\ Requests' /\ FreeBlocks'
<1> DEFINE done == late \cap (pollList \cup incompleteList)
<1>0. TypeOK /\ \A c \in Conn : ConnOK(c)
  BY DEF IndInv, Requests
<1>1. TypeOK'
  <2>1. ASSUME NEW c \in Conn PROVE sockets'[c] \in Nat /\ queries'[c] \in Nat
    BY <1>0 DEF TypeOK, ConnOK, TimeoutAuthQueries, Cancelled, IsDoingAuth, IsDNSPending
  <2>2. /\ sockets' \in [Conn -> Nat]
        /\ queries' \in [Conn -> Nat]
    BY <2>1 DEF TimeoutAuthQueries
  <2>3. state' \in [Conn -> State] /\ flags' \in [Conn -> SUBSET Flag]
    BY <1>0 DEF TypeOK, TimeoutAuthQueries, State, Flag
  <2> QED
    BY <1>0, <2>2, <2>3 DEF TypeOK, TimeoutAuthQueries
<1>2. ASSUME NEW c \in Conn PROVE ConnOK(c)'
  <2>1. CASE c \in done
    BY <1>0, <2>1 DEF ConnOK, TimeoutAuthQueries, Cancelled, IsDoingAuth, IsDNSPending
  <2>2. CASE c \notin done
    <3>1. Same(c)
      BY <1>0, <2>2 DEF Same, TimeoutAuthQueries, Cancelled, TypeOK
    <3> QED
      BY <1>0, <3>1, SameOK
  <2> QED
    BY <2>1, <2>2
<1>3. FreeBlocks'
  BY <1>0 DEF IndInv, FreeBlocks, TimeoutAuthQueries, TypeOK
<1> QED
  BY <1>1, <1>2, <1>3 DEF Requests

-----------------------------------------------------------------------------
(***************************************************************************)
(* The steps that change the listeners.                                    *)
(***************************************************************************)

\* Accepting a connection: its block was free, so it has no request yet.
LEMMA AcceptRequestsOK ==
    ASSUME IndInv, NEW p \in Port, NEW c \in Conn, AcceptConnection(p, c)
    PROVE  TypeOK' /\ Requests' /\ FreeBlocks'
<1> USE DEF AcceptConnection, AddConnection, StartAuth, StartAuthQuery
<1>0. /\ TypeOK /\ ConnOK(c) /\ state[c] = "free"
      /\ c \notin live /\ c \notin pollList /\ c \notin incompleteList
      /\ queries[c] = 0 /\ sockets[c] = 0
  BY DEF IndInv, Requests, ConnOK
<1>1. PICK dns \in BOOLEAN, ident \in BOOLEAN : StartAuth(c, dns, ident)
  OBVIOUS
<1>2. TypeOK'
  <2>1. listener' \in [Port -> [open : BOOLEAN, active : BOOLEAN, refs : Nat]]
    BY <1>0 DEF TypeOK
  <2>2. via' \in [Conn -> Port \cup {NoPort}]
    BY <1>0 DEF TypeOK
  <2>3. state' \in [Conn -> State] /\ flags' \in [Conn -> SUBSET Flag]
    BY <1>0, <1>1 DEF TypeOK, State, Flag
  <2>4. queries' \in [Conn -> Nat] /\ sockets' \in [Conn -> Nat]
    BY <1>0, <1>1 DEF TypeOK
  <2> QED
    BY <1>0, <1>1, <2>1, <2>2, <2>3, <2>4 DEF TypeOK
<1>3. ASSUME NEW d \in Conn PROVE ConnOK(d)'
  <2>1. CASE d = c
    <3>1. CASE ~dns /\ ~ident
      BY <1>0, <1>1, <2>1, <3>1 DEF ConnOK, TypeOK
    <3>2. CASE dns \/ ident
      <4>1. /\ flags'[c] = (IF dns THEN {"dns"} ELSE {}) \cup (IF ident THEN {"connecting"} ELSE {})
            /\ c \in live' /\ state'[c] = "auth"
        BY <1>0, <1>1, <3>2 DEF TypeOK
      <4>2. /\ IsDoingAuth(flags'[c]) <=> ident
            /\ IsDNSPending(flags'[c]) <=> dns
        BY <4>1 DEF IsDoingAuth, IsDNSPending
      <4>3. /\ c \in pollList' <=> ident
            /\ c \in incompleteList' <=> ~ident /\ dns
        BY <1>0, <1>1
      <4>4. queries'[c] = IF dns THEN 1 ELSE 0
        BY <1>0, <1>1 DEF TypeOK
      <4>5. sockets'[c] = IF ident THEN 1 ELSE 0
        BY <1>0, <1>1 DEF TypeOK
      <4> QED
        BY <2>1, <3>2, <4>1, <4>2, <4>3, <4>4, <4>5 DEF ConnOK
    <3> QED
      BY <3>1, <3>2
  <2>2. CASE d # c
    <3>1. Same(d)
      BY <1>0, <1>1, <2>2 DEF Same, TypeOK
    <3> QED
      BY <3>1, SameOK DEF IndInv, Requests
  <2> QED
    BY <2>1, <2>2
<1>4. FreeBlocks'
  BY <1>0, <1>1 DEF IndInv, FreeBlocks, TypeOK
<1> QED
  BY <1>2, <1>3, <1>4 DEF Requests

LEMMA AcceptListenersOK ==
    ASSUME IndInv, NEW p \in Port, NEW c \in Conn, AcceptConnection(p, c)
    PROVE  ListenersMatch'
<1> USE DEF AcceptConnection, AddConnection
<1>0. /\ TypeOK /\ ListenersMatch /\ via[c] = NoPort
      /\ IsFiniteSet(Conn) /\ NoPort \notin Port
  BY PortAssumption DEF IndInv, FreeBlocks
<1>1. ASSUME NEW q \in Port
      PROVE /\ listener'[q].refs = Cardinality(Through(q)')
            /\ listener'[q].open <=> listener'[q].active \/ listener'[q].refs > 0
  <2>1. CASE q = p
    <3>1. Through(q)' = Through(q) \cup {c} /\ c \notin Through(q)
      BY <1>0, <2>1 DEF Through, TypeOK
    <3>2. IsFiniteSet(Through(q))
      BY <1>0, FS_Subset DEF Through
    <3>3. Cardinality(Through(q)') = Cardinality(Through(q)) + 1
      BY <3>1, <3>2, FS_AddElement
    <3> QED
      BY <1>0, <2>1, <3>3 DEF TypeOK, ListenersMatch
  <2>2. CASE q # p
    <3>1. Through(q)' = Through(q)
      BY <1>0, <2>2 DEF Through, TypeOK
    <3> QED
      BY <1>0, <2>2, <3>1 DEF TypeOK, ListenersMatch
  <2> QED
    BY <2>1, <2>2
<1> QED
  BY <1>1 DEF ListenersMatch

\* The exit of a client that came through a listener, or was connected from here.
LEMMA ExitOK ==
    ASSUME IndInv, NEW c \in Conn, ExitClient(c)
    PROVE  IndInv'
<1> USE DEF request
<1>0. /\ TypeOK /\ ListenersMatch /\ ConnOK(c) /\ c \notin live
      /\ IsFiniteSet(Conn) /\ NoPort \notin Port
      /\ via[c] \in Port \cup {NoPort}
  BY PortAssumption DEF IndInv, Requests, ConnOK, ExitClient, TypeOK
<1>1. ASSUME via[c] \in Port
      PROVE  listener[via[c]].refs \in Nat /\ listener[via[c]].refs # 0
  <2>1. IsFiniteSet(Through(via[c])) /\ c \in Through(via[c])
    BY <1>0, <1>1, FS_Subset DEF Through
  <2>2. Cardinality(Through(via[c])) # 0
    BY <2>1, FS_EmptySet
  <2> QED
    BY <1>0, <1>1, <2>2 DEF ListenersMatch, TypeOK
<1>2. TypeOK'
  <2>1. listener' \in [Port -> [open : BOOLEAN, active : BOOLEAN, refs : Nat]]
    <3>1. CASE via[c] = NoPort
      BY <1>0, <3>1 DEF TypeOK, ExitClient
    <3>2. CASE via[c] \in Port
      <4> DEFINE l == listener[via[c]]
      <4>1. /\ l \in [open : BOOLEAN, active : BOOLEAN, refs : Nat]
            /\ l.refs - 1 \in Nat
        BY <1>0, <1>1, <3>2 DEF TypeOK
      <4>2. LetGo(l) \in [open : BOOLEAN, active : BOOLEAN, refs : Nat]
        BY <4>1 DEF LetGo
      <4>3. listener' = [listener EXCEPT ![via[c]] = LetGo(l)]
        BY <1>0, <3>2 DEF ExitClient
      <4> QED
        BY <1>0, <4>2, <4>3 DEF TypeOK
    <3> QED
      BY <1>0, <3>1, <3>2
  <2> QED
    BY <1>0, <2>1 DEF TypeOK, ExitClient, State
<1>3. ASSUME NEW d \in Conn PROVE ConnOK(d)'
  <2>1. CASE d = c
    BY <1>0, <2>1 DEF ConnOK, ExitClient, TypeOK
  <2>2. CASE d # c
    <3>1. Same(d)
      BY <1>0, <2>2 DEF Same, ExitClient, TypeOK
    <3> QED
      BY <3>1, SameOK DEF IndInv, Requests
  <2> QED
    BY <2>1, <2>2
<1>4. FreeBlocks'
  BY <1>0 DEF IndInv, FreeBlocks, ExitClient, TypeOK
<1>5. ASSUME NEW q \in Port
      PROVE /\ listener'[q].refs = Cardinality(Through(q)')
            /\ listener'[q].open <=> listener'[q].active \/ listener'[q].refs > 0
  <2>1. CASE via[c] = q
    <3>1. Through(q)' = Through(q) \ {c} /\ c \in Through(q)
      BY <1>0, <2>1 DEF Through, TypeOK, ExitClient
    <3>2. IsFiniteSet(Through(q))
      BY <1>0, FS_Subset DEF Through
    <3>3. Cardinality(Through(q)') = Cardinality(Through(q)) - 1
      BY <3>1, <3>2, FS_RemoveElement
    <3>4. /\ listener'[q] = LetGo(listener[q])
          /\ listener[q] \in [open : BOOLEAN, active : BOOLEAN, refs : Nat]
          /\ listener[q].refs # 0
      BY <1>0, <1>1, <2>1 DEF TypeOK, ExitClient
    <3>5. /\ listener'[q].refs = listener[q].refs - 1
          /\ listener'[q].active = listener[q].active
          /\ listener'[q].open <=> ~(listener[q].refs - 1 = 0 /\ ~listener[q].active)
      BY <3>4 DEF LetGo
    <3> QED
      BY <1>0, <3>3, <3>4, <3>5 DEF ListenersMatch
  <2>2. CASE via[c] # q
    <3>1. Through(q)' = Through(q)
      BY <1>0, <2>2 DEF Through, TypeOK, ExitClient
    <3>2. listener'[q] = listener[q]
      BY <1>0, <2>2 DEF TypeOK, ExitClient
    <3> QED
      BY <1>0, <3>1, <3>2 DEF ListenersMatch
  <2> QED
    BY <2>1, <2>2
<1> QED
  BY <1>2, <1>3, <1>4, <1>5 DEF IndInv, Requests, ListenersMatch

\* A rehash leaves the connections alone and keeps the listeners in use.
LEMMA RehashOK ==
    ASSUME IndInv, RehashPorts
    PROVE  IndInv'
<1> USE DEF client, request
<1>0. TypeOK /\ ListenersMatch
  BY DEF IndInv
<1>1. PICK ports \in SUBSET Port, bound \in SUBSET Port : Rehash(ports, bound)
  BY DEF RehashPorts
<1>2. TypeOK'
  BY <1>0, <1>1 DEF TypeOK, RehashPorts, Rehash
<1>3. ASSUME NEW d \in Conn PROVE Same(d)
  BY DEF Same, RehashPorts
<1>4. FreeBlocks'
  BY DEF IndInv, FreeBlocks, RehashPorts
<1>5. ASSUME NEW q \in Port
      PROVE /\ listener'[q].refs = Cardinality(Through(q)')
            /\ listener'[q].open <=> listener'[q].active \/ listener'[q].refs > 0
  <2>1. Through(q)' = Through(q)
    BY DEF Through, RehashPorts
  <2>2. listener'[q].refs = listener[q].refs /\ listener[q].refs \in Nat
    BY <1>0, <1>1 DEF Rehash, TypeOK
  <2>3. listener'[q].open <=> listener'[q].active \/ listener'[q].refs > 0
    BY <1>0, <1>1 DEF Rehash, TypeOK, ListenersMatch
  <2> QED
    BY <1>0, <2>1, <2>2, <2>3 DEF ListenersMatch
<1> QED
  BY <1>2, <1>3, <1>4, <1>5, SameOK DEF IndInv, Requests, ListenersMatch

-----------------------------------------------------------------------------
\* A step that does not touch the listeners or who came through them keeps
\* ListenersMatch.
LEMMA ListenersKept ==
    ASSUME ListenersMatch, UNCHANGED <<via, listener>>
    PROVE  ListenersMatch'
<1>1. ASSUME NEW q \in Port PROVE Through(q)' = Through(q)
  BY DEF Through
<1> QED
  BY <1>1 DEF ListenersMatch

\* Every action, and a stuttering step, preserves the invariant.
LEMMA NextOK == IndInv /\ [Next]_vars => IndInv'
<1> SUFFICES ASSUME IndInv, [Next]_vars PROVE IndInv'
  OBVIOUS
<1> USE DEF client
<1>0. ListenersMatch
  BY DEF IndInv
<1>1. ASSUME NEW p \in Port, NEW c \in Conn, AcceptConnection(p, c) PROVE IndInv'
  BY <1>1, AcceptRequestsOK, AcceptListenersOK DEF IndInv
<1>2. ASSUME NEW c \in Conn, SendAuthQuery(c) PROVE IndInv'
  <2>1. CASE EndIdent(c)
    BY <1>0, <1>2, <2>1, EndIdentOK, ListenersKept DEF IndInv, SendAuthQuery, EndIdent
  <2>2. CASE ~EndIdent(c)
    <3>1. /\ flags' = [flags EXCEPT ![c] = (@ \ {"connecting"}) \cup {"pending"}]
          /\ UNCHANGED <<client, live, late, pollList, incompleteList, sockets, queries, listener>>
          /\ c \in pollList /\ "connecting" \in flags[c]
      BY <1>2, <2>2 DEF SendAuthQuery
    <3> QED
      BY <1>0, <3>1, SentOK, ListenersKept DEF IndInv
  <2> QED
    BY <2>1, <2>2
<1>3. ASSUME NEW c \in Conn, ReadAuthReply(c) PROVE IndInv'
  BY <1>0, <1>3, EndIdentOK, ListenersKept DEF IndInv, ReadAuthReply, EndIdent
<1>4. ASSUME NEW c \in Conn, AuthDNSCallback(c) PROVE IndInv'
  BY <1>0, <1>4, CallbackOK, ListenersKept DEF IndInv, AuthDNSCallback
<1>5. ASSUME NEW c \in Conn, Expire(c) PROVE IndInv'
  BY <1>0, <1>5, ExpireOK, ListenersKept DEF IndInv, Expire
<1>6. CASE TimeoutAuthQueries
  BY <1>0, <1>6, TimeoutOK, ListenersKept DEF IndInv, TimeoutAuthQueries
<1>7. ASSUME NEW c \in Conn, ExitClient(c) PROVE IndInv'
  BY <1>7, ExitOK
<1>8. CASE RehashPorts
  BY <1>8, RehashOK
<1>9. CASE UNCHANGED vars
  <2>1. \A c \in Conn : Same(c)
    BY <1>9 DEF vars, Same
  <2> QED
    BY <1>0, <1>9, <2>1, SameOK, ListenersKept DEF vars, IndInv, TypeOK, Requests, FreeBlocks
<1> QED
  BY <1>1, <1>2, <1>3, <1>4, <1>5, <1>6, <1>7, <1>8, <1>9 DEF Next

\* The invariant holds in every reachable state.
THEOREM Invariance == Spec => []IndInv
  BY InitOK, NextOK, PTL DEF Spec

\* TypeOK: every variable keeps its type; no counter of sockets, queries or
\* references goes below zero.
THEOREM TypeCorrect == Spec => []TypeOK
<1>1. IndInv => TypeOK
  BY DEF IndInv
<1> QED
  BY <1>1, Invariance, PTL

\* The two lists of s_auth.c hold the requests that their handlers expect.
THEOREM ListsCorrect == Spec => []ListsMatchFlags
<1>1. IndInv => ListsMatchFlags
  BY DEF IndInv, Requests, ConnOK, ListsMatchFlags
<1> QED
  BY <1>1, Invariance, PTL

\* A resolver query is in flight exactly while its request waits for it.
THEOREM QueriesCorrect == Spec => []QueriesMatch
<1>1. IndInv => QueriesMatch
  BY DEF IndInv, Requests, ConnOK, QueriesMatch
<1> QED
  BY <1>1, Invariance, PTL

\* No ident socket is leaked or closed twice.
THEOREM SocketsCorrect == Spec => []SocketsMatch
<1>1. IndInv => SocketsMatch
  BY DEF IndInv, Requests, ConnOK, SocketsMatch
<1> QED
  BY <1>1, Invariance, PTL

\* A connection that waits has its request on a list, and only such ones have.
THEOREM ClientsCorrect == Spec => []NoLostClient
<1>1. IndInv => NoLostClient
  BY DEF IndInv, Requests, ConnOK, NoLostClient
<1> QED
  BY <1>1, Invariance, PTL

\* Listeners count their connections and live as long as they are used.
THEOREM ListenersCorrect == Spec => []ListenersMatch
<1>1. IndInv => ListenersMatch
  BY DEF IndInv
<1> QED
  BY <1>1, Invariance, PTL

\* A connection that is not late is let in by the end of its last lookup.
THEOREM LetInWhenDone == Spec => OnlyWhenDone
<1> DEFINE Done(c) == state[c] = "auth" /\ state'[c] = "local" /\ c \notin late
                        => queries[c] + sockets[c] = 1
<1>1. IndInv /\ [Next]_vars => [\A c \in Conn : Done(c)]_vars
  <2> SUFFICES ASSUME IndInv, Next, NEW c \in Conn,
                      state[c] = "auth", state'[c] = "local", c \notin late
               PROVE  queries[c] + sockets[c] = 1
    BY DEF Done
  <2> USE DEF client, request, IsDoingAuth, IsDNSPending
  <2>0. TypeOK /\ ConnOK(c)
    BY DEF IndInv, Requests
  <2>1. ASSUME NEW p \in Port, NEW d \in Conn, AcceptConnection(p, d) PROVE FALSE
    BY <2>0, <2>1 DEF AcceptConnection, AddConnection, StartAuth, TypeOK
  <2>2. ASSUME NEW d \in Conn, d \in pollList, EndIdent(d)
        PROVE  queries[c] + sockets[c] = 1
    BY <2>0, <2>2 DEF EndIdent, Release, ConnOK, TypeOK
  <2>3. ASSUME NEW d \in Conn, SendAuthQuery(d) PROVE queries[c] + sockets[c] = 1
    BY <2>2, <2>3 DEF SendAuthQuery
  <2>4. ASSUME NEW d \in Conn, ReadAuthReply(d) PROVE queries[c] + sockets[c] = 1
    BY <2>2, <2>4 DEF ReadAuthReply
  <2>5. ASSUME NEW d \in Conn, AuthDNSCallback(d) PROVE queries[c] + sockets[c] = 1
    BY <2>0, <2>5 DEF AuthDNSCallback, Release, ConnOK, TypeOK
  <2>6. ASSUME NEW d \in Conn, Expire(d) PROVE FALSE
    BY <2>6 DEF Expire
  <2>7. CASE TimeoutAuthQueries
    BY <2>0, <2>7 DEF TimeoutAuthQueries, TypeOK
  <2>8. ASSUME NEW d \in Conn, ExitClient(d) PROVE FALSE
    BY <2>0, <2>8 DEF ExitClient, TypeOK
  <2>9. CASE RehashPorts
    BY <2>9 DEF RehashPorts
  <2> QED
    BY <2>1, <2>3, <2>4, <2>5, <2>6, <2>7, <2>8, <2>9 DEF Next
<1> QED
  BY <1>1, Invariance, PTL DEF Spec, OnlyWhenDone

\* RequestsSound: requests, lists, queries, sockets and listeners fit together
\* whatever answers, fails, times out or is closed first.
THEOREM RequestsAlwaysSound == Spec => []RequestsSound
<1>1. /\ TypeOK /\ ListsMatchFlags /\ NoLostClient
      /\ QueriesMatch /\ SocketsMatch /\ ListenersMatch
      => RequestsSound
  BY DEF RequestsSound
<1> QED
  BY <1>1, TypeCorrect, ListsCorrect, ClientsCorrect, QueriesCorrect,
     SocketsCorrect, ListenersCorrect, PTL

=============================================================================
