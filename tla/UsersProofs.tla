----------------------------- MODULE UsersProofs -----------------------------
(***************************************************************************)
(* Proofs about Users, for any tree of servers, any users and any events:  *)
(* on every server the counters are what the lists hold, up to the two     *)
(* slips the code makes, and the list of operators holds the local         *)
(* operators, each once.                                                   *)
(*                                                                         *)
(* Inv is inductive because of what it adds to ListsSound: the lines on    *)
(* the wires tell of the modes i, o and w only, with nothing both set and  *)
(* cleared (Line), so that a MODE from another server moves the operator   *)
(* counter by what the list gains or loses; and no server knows itself, so *)
(* that a split takes no local user away.  Every handler is a composition  *)
(* of operators on the world, and each keeps WorldOK; the ones that touch  *)
(* the lists change one user (OneUser) or drop a set of remote ones        *)
(* (ForgetOK).                                                             *)
(***************************************************************************)
EXTENDS Users, FiniteSetTheorems, SequenceTheorems, NaturalsInduction,
        WellFoundedInduction, TLAPS

-----------------------------------------------------------------------------
(* The inductive invariant                                                 *)

Fields == {"st", "wire", "known", "here", "umodes", "away", "count", "opers",
           "got", "sent", "slips"}

IsWorld(w) == w = [x \in Fields |-> w[x]]

\* The lines of the protocol: other servers are told of three modes only.
Line ==
  [cmd : {"EOF"}] \cup [cmd : {"HELLO"}, reply : BOOLEAN]
    \cup [cmd : {"NICK"}, u : User, modes : SUBSET SEND_UMODES]
    \cup {l \in [cmd : {"MODE"}, u : User, add : SUBSET SEND_UMODES, del : SUBSET SEND_UMODES] :
            l.add \cap l.del = {}}
    \cup [cmd : {"AWAY"}, u : User, on : BOOLEAN]
    \cup [cmd : {"QUIT"}, u : User]
    \cup [cmd : {"KILL"}, by : User \cup Server, u : User, lab : Event \cup {NoLabel}]
    \cup [cmd : {"WALLOPS", "OPERWALL"}, by : User \cup Server, lab : Event \cup {NoLabel}]
    \cup [cmd : {"SERVER"}, by : Server, name : Server]
    \cup [cmd : {"SQUIT"}, by : User \cup Server, name : Server, lab : Event \cup {NoLabel}]

Number == [total : Int, invisi : Int]

Invisible(h, m) == {u \in h : "i" \in m[u]}
Operators(h, m) == {u \in h : AnOper(m[u])}
Locals(s, h) == {u \in h : Local(s, u)}
LocalOpers(s, h, m) == {u \in h : Local(s, u) /\ AnOper(m[u])}

Once(q) == \A i, j \in DOMAIN q : q[i] = q[j] => i = j

\* What a server s has: the users h with modes m, a of them away, the counters
\* c, wrong by no more than z, and the list of operators q.
ServerOK(s, h, m, a, c, q, z) ==
  /\ h \subseteq User /\ a \subseteq h
  /\ m \in [User -> SUBSET Modes]
  /\ \A u \in User : Home(u) # s => m[u] \subseteq SEND_UMODES
  /\ \A u \in User : u \notin h => m[u] = {}
  /\ z \in Number
  /\ c = [total |-> Cardinality(h) - z.total,
          invisi |-> Cardinality(Invisible(h, m)) - z.invisi,
          oper |-> Cardinality(Operators(h, m)),
          local |-> Cardinality(Locals(s, h))]
  /\ q \in Seq(User) /\ Once(q)
  /\ Range(q) = LocalOpers(s, h, m)

NetOK(w) ==
  /\ w.st \in [scene.links -> {"down", "open", "up"}]
  /\ w.wire \in [scene.links -> Seq(Line)]
  /\ w.known \in [Server -> SUBSET Server]
  /\ \A s \in Server : s \notin w.known[s]

ListsOK(w) ==
  /\ w.here = [s \in Server |-> w.here[s]]
  /\ w.umodes = [s \in Server |-> w.umodes[s]]
  /\ w.away = [s \in Server |-> w.away[s]]
  /\ w.count = [s \in Server |-> w.count[s]]
  /\ w.opers = [s \in Server |-> w.opers[s]]
  /\ w.slips = [s \in Server |-> w.slips[s]]
  /\ \A s \in Server : ServerOK(s, w.here[s], w.umodes[s], w.away[s], w.count[s],
                                w.opers[s], w.slips[s])

WorldOK(w) == IsWorld(w) /\ NetOK(w) /\ ListsOK(w)

Inv == scene \in Scenes /\ left \subseteq scene.events /\ WorldOK(World)

-----------------------------------------------------------------------------
(* Counting                                                                *)

\* Every set of users can be counted.
LEMMA Finite ==
  ASSUME NEW S \in SUBSET User
  PROVE  IsFiniteSet(S) /\ Cardinality(S) \in Nat
BY UserAssumption, FS_Subset, FS_CardinalityType

\* One user more, one less, a set of them less.
LEMMA CountAdd ==
  ASSUME NEW S \in SUBSET User, NEW u \in User, u \notin S
  PROVE  Cardinality(S \cup {u}) = Cardinality(S) + 1
BY Finite, FS_AddElement

LEMMA CountDrop ==
  ASSUME NEW S \in SUBSET User, NEW u \in S
  PROVE  Cardinality(S \ {u}) = Cardinality(S) - 1
BY Finite, FS_RemoveElement

LEMMA CountDropSet ==
  ASSUME NEW S \in SUBSET User, NEW T \in SUBSET S
  PROVE  Cardinality(S \ T) = Cardinality(S) - Cardinality(T)
<1>1. IsFiniteSet(S) /\ S \cap T = T
  BY Finite
<1> QED BY <1>1, FS_Difference

\* Of a set that changes in one user only.
LEMMA CountChange ==
  ASSUME NEW S \in SUBSET User, NEW T \in SUBSET User, NEW u \in User,
         S \ {u} = T \ {u}
  PROVE  Cardinality(T) = Cardinality(S) - (IF u \in S THEN 1 ELSE 0)
                                         + (IF u \in T THEN 1 ELSE 0)
<1>1. Cardinality(S) \in Nat /\ Cardinality(T) \in Nat
  BY Finite
<1>2. Cardinality(S \ {u}) = IF u \in S THEN Cardinality(S) - 1 ELSE Cardinality(S)
  BY Finite, FS_RemoveElement
<1>3. Cardinality(T \ {u}) = IF u \in T THEN Cardinality(T) - 1 ELSE Cardinality(T)
  BY Finite, FS_RemoveElement
<1>4. CASE u \in S
  BY <1>1, <1>2, <1>3, <1>4
<1>5. CASE u \notin S
  BY <1>1, <1>2, <1>3, <1>5
<1> QED BY <1>4, <1>5

-----------------------------------------------------------------------------
(* The list of operators                                                   *)

\* The members of a list of users.
LEMMA RangeIs ==
  ASSUME NEW q \in Seq(User)
  PROVE  Range(q) = {q[i] : i \in 1 .. Len(q)} /\ DOMAIN q = 1 .. Len(q)
BY DEF Range

\* m_oper puts the new operator first: it is listed once.
LEMMA ListedFirst ==
  ASSUME NEW q \in Seq(User), Once(q), NEW u \in User, u \notin Range(q)
  PROVE  /\ <<u>> \o q \in Seq(User) /\ Once(<<u>> \o q)
         /\ Range(<<u>> \o q) = Range(q) \cup {u}
<1> DEFINE r == <<u>> \o q
<1>1. r \in Seq(User) /\ Len(r) = Len(q) + 1 /\ DOMAIN r = 1 .. Len(q) + 1 /\ Len(q) \in Nat
  OBVIOUS
<1>2. r[1] = u /\ \A i \in 1 .. Len(q) : r[i + 1] = q[i]
  OBVIOUS
<1>3. \A i \in DOMAIN r : r[i] = IF i = 1 THEN u ELSE q[i - 1]
  OBVIOUS
<1> HIDE DEF r
<1>4. \A i \in 1 .. Len(q) : q[i] # u
  BY RangeIs
<1>5. Once(r)
  BY <1>1, <1>3, <1>4, RangeIs DEF Once
<1>6. Range(r) = Range(q) \cup {u}
  <2>1. Range(r) = {r[i] : i \in 1 .. Len(q) + 1}
    BY <1>1, RangeIs
  <2>2. 1 \in 1 .. Len(q) + 1 /\ \A i \in 1 .. Len(q) : i + 1 \in 1 .. Len(q) + 1
    BY <1>1
  <2>3. Range(q) = {q[i] : i \in 1 .. Len(q)}
    BY RangeIs
  <2>4. ASSUME NEW x \in Range(r) PROVE x \in Range(q) \cup {u}
    BY <1>1, <1>3, <2>1, <2>3
  <2>5. ASSUME NEW x \in Range(q) \cup {u} PROVE x \in Range(r)
    BY <1>2, <2>1, <2>2, <2>3
  <2> QED BY <2>4, <2>5
<1> QED BY <1>1, <1>5, <1>6 DEF r

\* After the walk that takes u out, u and only u is gone.
LEMMA UnlistedOK ==
  ASSUME NEW q \in Seq(User), Once(q), NEW u
  PROVE  /\ Unlisted(q, u) \in Seq(User) /\ Once(Unlisted(q, u))
         /\ Range(Unlisted(q, u)) = Range(q) \ {u}
<1>1. CASE u \notin Range(q)
  BY <1>1 DEF Unlisted
<1>2. CASE u \in Range(q)
  <2> DEFINE P(i) == q[i] = u /\ \A j \in 1 .. i - 1 : q[j] # u
             k == CHOOSE i \in DOMAIN q : P(i)
             n == Len(q)
             r == [i \in 1 .. n - 1 |-> IF i < k THEN q[i] ELSE q[i + 1]]
  <2>1. n \in Nat /\ DOMAIN q = 1 .. n
    OBVIOUS
  <2>2. \E i \in DOMAIN q : P(i)
    <3>1. PICK i \in 1 .. n : q[i] = u
      BY <1>2, RangeIs
    <3>2. \A j \in 1 .. i - 1 : q[j] # u
      BY <2>1, <3>1 DEF Once
    <3> QED BY <2>1, <3>1, <3>2
  <2>3. k \in 1 .. n /\ q[k] = u
    BY <2>1, <2>2
  <2>4. Unlisted(q, u) = r
    BY <1>2 DEF Unlisted
  <2> HIDE DEF k
  <2>5. r \in Seq(User) /\ DOMAIN r = 1 .. n - 1
    <3>1. \A i \in 1 .. n - 1 : q[i] \in User /\ q[i + 1] \in User
      BY <2>1
    <3> QED BY <2>1, <2>3, <3>1
  <2>6. Once(r)
    BY <2>1, <2>3, <2>5 DEF Once
  <2>7. Range(r) = Range(q) \ {u}
    <3>1. Range(r) = {r[i] : i \in 1 .. n - 1}
      BY <2>5 DEF Range
    <3>2. Range(q) = {q[i] : i \in 1 .. n}
      BY RangeIs
    <3>3. ASSUME NEW i \in 1 .. n - 1 PROVE r[i] \in Range(q) \ {u}
      BY <2>1, <2>3, <3>2 DEF Once
    <3>4. ASSUME NEW i \in 1 .. n, q[i] # u PROVE q[i] \in Range(r)
      <4>1. CASE i < k
        <5>1. i \in 1 .. n - 1 /\ r[i] = q[i]
          BY <2>1, <2>3, <4>1
        <5> QED BY <3>1, <5>1
      <4>2. CASE i > k
        <5>1. i - 1 \in 1 .. n - 1 /\ r[i - 1] = q[i]
          BY <2>1, <2>3, <4>2
        <5> QED BY <3>1, <5>1
      <4>3. CASE i = k
        BY <2>3, <3>4, <4>3
      <4> QED BY <2>1, <2>3, <4>1, <4>2, <4>3
    <3> QED BY <3>1, <3>2, <3>3, <3>4
  <2> QED BY <2>4, <2>5, <2>6, <2>7
<1> QED BY <1>1, <1>2

\* A set in some order.
LEMMA SetListed ==
  ASSUME NEW S, IsFiniteSet(S)
  PROVE  /\ SetToSeq(S) \in Seq(S) /\ Once(SetToSeq(S))
         /\ Range(SetToSeq(S)) = S
<1> DEFINE n == Cardinality(S)
           f == SetToSeq(S)
<1>1. n \in Nat /\ ExistsBijection(1 .. n, S)
  BY FS_CardinalityType
<1>2. PICK g : g \in Bijection(1 .. n, S)
  BY <1>1 DEF ExistsBijection
<1>3. g \in [1 .. n -> S] /\ IsInjective(g)
  BY <1>2 DEF Bijection, Injection
<1>4. f \in [1 .. n -> S] /\ IsInjective(f)
  BY <1>3 DEF SetToSeq
<1> HIDE DEF f
<1>5. f \in Injection(1 .. n, S)
  BY <1>4 DEF Injection
<1>6. Cardinality(1 .. n) = n
  BY <1>1, FS_Interval
<1>7. f \in Surjection(1 .. n, S)
  BY <1>5, <1>6, FS_Injection
<1>8. Range(f) = S
  BY <1>4, <1>7 DEF Range, Surjection
<1>9. f \in Seq(S)
  BY <1>1, <1>4
<1>10. Once(f)
  BY <1>4 DEF Once, IsInjective
<1> QED BY <1>8, <1>9, <1>10 DEF f

-----------------------------------------------------------------------------
(* Sending, and the lists of one server                                    *)

\* Sending a line of the protocol changes no list.
LEMMA SendOK ==
  ASSUME NEW w, WorldOK(w), NEW s, NEW ts, NEW line \in Line
  PROVE  WorldOK(Send(w, s, ts, line))
<1> DEFINE v == Send(w, s, ts, line)
<1>1. DOMAIN w = Fields /\ IsWorld(v)
  BY DEF WorldOK, IsWorld, Send, Fields
<1>2. /\ v.st = w.st /\ v.known = w.known /\ v.here = w.here /\ v.umodes = w.umodes
      /\ v.away = w.away /\ v.count = w.count /\ v.opers = w.opers /\ v.slips = w.slips
  BY DEF WorldOK, IsWorld, Send, Fields
<1>3. v.wire = [l \in DOMAIN w.wire |->
         IF l[1] = s /\ l[2] \in ts /\ w.st[<<l[2], s>>] # "down" THEN Append(w.wire[l], line)
         ELSE w.wire[l]]
  BY DEF WorldOK, IsWorld, Send, Fields
<1> HIDE DEF v
<1>4. v.wire \in [scene.links -> Seq(Line)]
  BY <1>3 DEF WorldOK, NetOK
<1> QED BY <1>1, <1>2, <1>4 DEF WorldOK, NetOK, ListsOK, v

\* What local users are shown changes no list.
LEMMA DeliverOK ==
  ASSUME NEW w, WorldOK(w), NEW us, NEW lab
  PROVE  WorldOK(Deliver(w, us, lab))
<1> DEFINE v == Deliver(w, us, lab)
<1>1. IsWorld(v)
  BY DEF WorldOK, IsWorld, Deliver, Fields
<1>2. /\ v.st = w.st /\ v.wire = w.wire /\ v.known = w.known /\ v.here = w.here
      /\ v.umodes = w.umodes /\ v.away = w.away /\ v.count = w.count
      /\ v.opers = w.opers /\ v.slips = w.slips
  BY DEF WorldOK, IsWorld, Deliver, Fields
<1> HIDE DEF v
<1> QED BY <1>1, <1>2 DEF WorldOK, NetOK, ListsOK, v

\* Nor does what is noted of a message.
LEMMA AcceptOK ==
  ASSUME NEW w, WorldOK(w), NEW lab, NEW servers
  PROVE  WorldOK(Accept(w, lab, servers))
<1> DEFINE v == Accept(w, lab, servers)
<1>1. IsWorld(v)
  BY DEF WorldOK, IsWorld, Accept, Fields
<1>2. /\ v.st = w.st /\ v.wire = w.wire /\ v.known = w.known /\ v.here = w.here
      /\ v.umodes = w.umodes /\ v.away = w.away /\ v.count = w.count
      /\ v.opers = w.opers /\ v.slips = w.slips
  BY DEF WorldOK, IsWorld, Accept, Fields
<1> HIDE DEF v
<1> QED BY <1>1, <1>2 DEF WorldOK, NetOK, ListsOK, v

\* The broadcast to all links but one.
LEMMA ServLinesOK ==
  ASSUME NEW w, WorldOK(w), NEW s, NEW one, NEW line \in Line
  PROVE  WorldOK(sendto_serv_butone(w, s, one, line))
BY SendOK DEF sendto_serv_butone

\* Sending touches no list.
LEMMA SendKeeps ==
  ASSUME NEW w, WorldOK(w), NEW s, NEW ts, NEW line
  PROVE  LET v == Send(w, s, ts, line) IN
         /\ v.st = w.st /\ v.known = w.known /\ v.here = w.here /\ v.umodes = w.umodes
         /\ v.away = w.away /\ v.count = w.count /\ v.opers = w.opers /\ v.slips = w.slips
BY DEF WorldOK, IsWorld, Send, Fields

\* From w to v the lists of s, and no others, have become these.
Changed(w, v, s, h, m, a, c, q, z) ==
  /\ v.here = [w.here EXCEPT ![s] = h] /\ v.umodes = [w.umodes EXCEPT ![s] = m]
  /\ v.away = [w.away EXCEPT ![s] = a] /\ v.count = [w.count EXCEPT ![s] = c]
  /\ v.opers = [w.opers EXCEPT ![s] = q] /\ v.slips = [w.slips EXCEPT ![s] = z]

\* They are right again when they are right at s.
LEMMA ListsChange ==
  ASSUME NEW w, WorldOK(w), NEW s \in Server, NEW v, IsWorld(v), NetOK(v),
         NEW h, NEW m, NEW a, NEW c, NEW q, NEW z, ServerOK(s, h, m, a, c, q, z),
         Changed(w, v, s, h, m, a, c, q, z)
  PROVE  WorldOK(v)
<1>1. \A x \in Server : ServerOK(x, v.here[x], v.umodes[x], v.away[x], v.count[x],
                                v.opers[x], v.slips[x])
  <2>1. ASSUME NEW x \in Server
        PROVE ServerOK(x, v.here[x], v.umodes[x], v.away[x], v.count[x],
                       v.opers[x], v.slips[x])
    <3>1. CASE x = s
      <4>1. /\ v.here[x] = h /\ v.umodes[x] = m /\ v.away[x] = a
            /\ v.count[x] = c /\ v.opers[x] = q /\ v.slips[x] = z
        BY <3>1 DEF WorldOK, ListsOK, Changed
      <4> QED BY <3>1, <4>1
    <3>2. CASE x # s
      <4>1. /\ v.here[x] = w.here[x] /\ v.umodes[x] = w.umodes[x] /\ v.away[x] = w.away[x]
            /\ v.count[x] = w.count[x] /\ v.opers[x] = w.opers[x]
            /\ v.slips[x] = w.slips[x]
        BY <3>2 DEF WorldOK, ListsOK, Changed
      <4> QED BY <4>1 DEF WorldOK, ListsOK
    <3> QED BY <3>1, <3>2
  <2> QED BY <2>1
<1>2. /\ v.here = [x \in Server |-> v.here[x]]
      /\ v.umodes = [x \in Server |-> v.umodes[x]]
      /\ v.away = [x \in Server |-> v.away[x]]
  BY DEF WorldOK, ListsOK, Changed
<1>3. /\ v.count = [x \in Server |-> v.count[x]]
      /\ v.opers = [x \in Server |-> v.opers[x]]
      /\ v.slips = [x \in Server |-> v.slips[x]]
  BY DEF WorldOK, ListsOK, Changed
<1> QED BY <1>1, <1>2, <1>3 DEF WorldOK, ListsOK

\* What the walks over a list count differs by what they count of u.
OneCounted(s, h, m, k, n, u) ==
  /\ Cardinality(k) = Cardinality(h) - (IF u \in h THEN 1 ELSE 0)
                                      + (IF u \in k THEN 1 ELSE 0)
  /\ Cardinality(Invisible(k, n))
       = Cardinality(Invisible(h, m))
           - (IF u \in h /\ "i" \in m[u] THEN 1 ELSE 0)
           + (IF u \in k /\ "i" \in n[u] THEN 1 ELSE 0)
  /\ Cardinality(Operators(k, n))
       = Cardinality(Operators(h, m))
           - (IF u \in h /\ AnOper(m[u]) THEN 1 ELSE 0)
           + (IF u \in k /\ AnOper(n[u]) THEN 1 ELSE 0)
  /\ Cardinality(Locals(s, k))
       = Cardinality(Locals(s, h))
           - (IF u \in h /\ Local(s, u) THEN 1 ELSE 0)
           + (IF u \in k /\ Local(s, u) THEN 1 ELSE 0)
  /\ LocalOpers(s, k, n) \ {u} = LocalOpers(s, h, m) \ {u}

\* They do when one user comes, goes or changes.
LEMMA CountsOne ==
  ASSUME NEW s, NEW h \in SUBSET User, NEW k \in SUBSET User,
         NEW m \in [User -> SUBSET Modes], NEW n \in [User -> SUBSET Modes],
         NEW u \in User, h \ {u} = k \ {u},
         \A x \in User \ {u} : n[x] = m[x]
  PROVE  OneCounted(s, h, m, k, n, u)
<1>1. Cardinality(k) = Cardinality(h) - (IF u \in h THEN 1 ELSE 0)
                                      + (IF u \in k THEN 1 ELSE 0)
  BY CountChange
<1>2. Cardinality(Invisible(k, n))
              = Cardinality(Invisible(h, m))
                  - (IF u \in h /\ "i" \in m[u] THEN 1 ELSE 0)
                  + (IF u \in k /\ "i" \in n[u] THEN 1 ELSE 0)
  <2> DEFINE S == Invisible(h, m)
             T == Invisible(k, n)
  <2>1. S \in SUBSET User /\ T \in SUBSET User /\ S \ {u} = T \ {u}
    BY DEF Invisible
  <2>2. (u \in S <=> u \in h /\ "i" \in m[u]) /\ (u \in T <=> u \in k /\ "i" \in n[u])
    BY DEF Invisible
  <2> HIDE DEF S, T
  <2>3. Cardinality(T) = Cardinality(S) - (IF u \in S THEN 1 ELSE 0)
                                        + (IF u \in T THEN 1 ELSE 0)
    BY <2>1, CountChange
  <2>4. Cardinality(T) = Cardinality(S) - (IF u \in h /\ "i" \in m[u] THEN 1 ELSE 0)
                                        + (IF u \in k /\ "i" \in n[u] THEN 1 ELSE 0)
    BY <2>2, <2>3
  <2> QED BY <2>4 DEF S, T
<1>3. Cardinality(Operators(k, n))
              = Cardinality(Operators(h, m))
                  - (IF u \in h /\ AnOper(m[u]) THEN 1 ELSE 0)
                  + (IF u \in k /\ AnOper(n[u]) THEN 1 ELSE 0)
  <2> DEFINE S == Operators(h, m)
             T == Operators(k, n)
  <2>1. S \in SUBSET User /\ T \in SUBSET User /\ S \ {u} = T \ {u}
    BY DEF Operators
  <2>2. (u \in S <=> u \in h /\ AnOper(m[u])) /\ (u \in T <=> u \in k /\ AnOper(n[u]))
    BY DEF Operators
  <2> HIDE DEF S, T
  <2>3. Cardinality(T) = Cardinality(S) - (IF u \in S THEN 1 ELSE 0)
                                        + (IF u \in T THEN 1 ELSE 0)
    BY <2>1, CountChange
  <2>4. Cardinality(T) = Cardinality(S) - (IF u \in h /\ AnOper(m[u]) THEN 1 ELSE 0)
                                        + (IF u \in k /\ AnOper(n[u]) THEN 1 ELSE 0)
    BY <2>2, <2>3
  <2> QED BY <2>4 DEF S, T
<1>4. Cardinality(Locals(s, k))
              = Cardinality(Locals(s, h))
                  - (IF u \in h /\ Local(s, u) THEN 1 ELSE 0)
                  + (IF u \in k /\ Local(s, u) THEN 1 ELSE 0)
  <2> DEFINE S == Locals(s, h)
             T == Locals(s, k)
  <2>1. S \in SUBSET User /\ T \in SUBSET User /\ S \ {u} = T \ {u}
    BY DEF Locals
  <2>2. (u \in S <=> u \in h /\ Local(s, u)) /\ (u \in T <=> u \in k /\ Local(s, u))
    BY DEF Locals
  <2> HIDE DEF S, T
  <2>3. Cardinality(T) = Cardinality(S) - (IF u \in S THEN 1 ELSE 0)
                                        + (IF u \in T THEN 1 ELSE 0)
    BY <2>1, CountChange
  <2>4. Cardinality(T) = Cardinality(S) - (IF u \in h /\ Local(s, u) THEN 1 ELSE 0)
                                        + (IF u \in k /\ Local(s, u) THEN 1 ELSE 0)
    BY <2>2, <2>3
  <2> QED BY <2>4 DEF S, T
<1>5. LocalOpers(s, k, n) \ {u} = LocalOpers(s, h, m) \ {u}
  BY DEF LocalOpers, AnOper
<1> QED BY <1>1, <1>2, <1>3, <1>4, <1>5 DEF OneCounted

-----------------------------------------------------------------------------
(* One user comes, goes or changes                                         *)

\* What a world holds of one server.
LEMMA AtServer ==
  ASSUME NEW w, WorldOK(w), NEW s \in Server
  PROVE  /\ ServerOK(s, w.here[s], w.umodes[s], w.away[s], w.count[s], w.opers[s], w.slips[s])
         /\ w.here[s] \in SUBSET User /\ w.away[s] \in SUBSET User
         /\ w.umodes[s] \in [User -> SUBSET Modes]
         /\ \A u \in User : Home(u) # s => w.umodes[s][u] \subseteq SEND_UMODES
         /\ s \notin w.known[s] /\ w.known[s] \subseteq Server
BY DEF WorldOK, NetOK, ListsOK, ServerOK

\* Two sets that differ in u at most, and not in u.
LEMMA SameButOne ==
  ASSUME NEW S, NEW T, NEW u, S \ {u} = T \ {u}, u \in S <=> u \in T
  PROVE  S = T
OBVIOUS

\* Of the lists of one server only u changes: it comes, goes or gets the modes
\* f, and the counters and the list of operators follow.
UserMoved(s, h, m, c, q, z, u, k, f, b, d, r, y) ==
  /\ u \in User /\ k \in SUBSET User /\ k \ {u} = h \ {u} /\ b \subseteq k
  /\ f \in SUBSET Modes /\ (Home(u) # s => f \subseteq SEND_UMODES)
  /\ u \notin k => f = {}
  /\ y \in Number
  /\ d = [total |-> c.total + z.total - (IF u \in h THEN 1 ELSE 0)
                      + (IF u \in k THEN 1 ELSE 0) - y.total,
          invisi |-> c.invisi + z.invisi - (IF u \in h /\ "i" \in m[u] THEN 1 ELSE 0)
                      + (IF u \in k /\ "i" \in f THEN 1 ELSE 0) - y.invisi,
          oper |-> c.oper - (IF u \in h /\ AnOper(m[u]) THEN 1 ELSE 0)
                      + (IF u \in k /\ AnOper(f) THEN 1 ELSE 0),
          local |-> c.local - (IF u \in h /\ Local(s, u) THEN 1 ELSE 0)
                      + (IF u \in k /\ Local(s, u) THEN 1 ELSE 0)]
  /\ r \in Seq(User) /\ Once(r)
  /\ Range(r) \ {u} = Range(q) \ {u}
  /\ u \in Range(r) <=> u \in k /\ Local(s, u) /\ AnOper(f)

\* Then the lists are right again.
LEMMA OneUser ==
  ASSUME NEW s, NEW h, NEW m, NEW a, NEW c, NEW q, NEW z, ServerOK(s, h, m, a, c, q, z),
         NEW u, NEW k, NEW f, NEW b, NEW d, NEW r, NEW y,
         UserMoved(s, h, m, c, q, z, u, k, f, b, d, r, y)
  PROVE  ServerOK(s, k, [m EXCEPT ![u] = f], b, d, r, y)
<1> USE DEF UserMoved
<1> DEFINE n == [m EXCEPT ![u] = f]
<1>1. h \in SUBSET User /\ m \in [User -> SUBSET Modes] /\ z \in Number
  BY DEF ServerOK
<1>2. n \in [User -> SUBSET Modes] /\ n[u] = f /\ \A x \in User \ {u} : n[x] = m[x]
  BY <1>1
<1> HIDE DEF n
<1>3. \A x \in User : Home(x) # s => n[x] \subseteq SEND_UMODES
  BY <1>2 DEF ServerOK
<1>4. \A x \in User : x \notin k => n[x] = {}
  BY <1>2 DEF ServerOK
<1>5. OneCounted(s, h, m, k, n, u)
  <2>1. h \ {u} = k \ {u}
    OBVIOUS
  <2> QED BY <1>1, <1>2, <2>1, CountsOne
<1> DEFINE ch == Cardinality(h)
           ci == Cardinality(Invisible(h, m))
           co == Cardinality(Operators(h, m))
           cl == Cardinality(Locals(s, h))
           kh == Cardinality(k)
           ki == Cardinality(Invisible(k, n))
           ko == Cardinality(Operators(k, n))
           kl == Cardinality(Locals(s, k))
<1>6. ch \in Nat /\ ci \in Nat /\ co \in Nat /\ cl \in Nat
  <2>1. /\ Invisible(h, m) \in SUBSET User /\ Operators(h, m) \in SUBSET User
        /\ Locals(s, h) \in SUBSET User
    BY <1>1 DEF Invisible, Operators, Locals
  <2> QED BY <1>1, <2>1, Finite
<1>7. c.total = ch - z.total /\ c.invisi = ci - z.invisi /\ c.oper = co /\ c.local = cl
  BY DEF ServerOK
<1>8. z.total \in Int /\ z.invisi \in Int /\ y.total \in Int /\ y.invisi \in Int
  BY <1>1 DEF Number
<1>9. /\ kh = ch - (IF u \in h THEN 1 ELSE 0) + (IF u \in k THEN 1 ELSE 0)
      /\ ki = ci - (IF u \in h /\ "i" \in m[u] THEN 1 ELSE 0)
                 + (IF u \in k /\ "i" \in f THEN 1 ELSE 0)
      /\ ko = co - (IF u \in h /\ AnOper(m[u]) THEN 1 ELSE 0)
                 + (IF u \in k /\ AnOper(f) THEN 1 ELSE 0)
      /\ kl = cl - (IF u \in h /\ Local(s, u) THEN 1 ELSE 0)
                 + (IF u \in k /\ Local(s, u) THEN 1 ELSE 0)
  BY <1>2, <1>5 DEF OneCounted
<1>10. d = [total |-> kh - y.total, invisi |-> ki - y.invisi, oper |-> ko, local |-> kl]
  <2> DEFINE t0 == IF u \in h THEN 1 ELSE 0
             t1 == IF u \in k THEN 1 ELSE 0
             i0 == IF u \in h /\ "i" \in m[u] THEN 1 ELSE 0
             i1 == IF u \in k /\ "i" \in f THEN 1 ELSE 0
             o0 == IF u \in h /\ AnOper(m[u]) THEN 1 ELSE 0
             o1 == IF u \in k /\ AnOper(f) THEN 1 ELSE 0
             l0 == IF u \in h /\ Local(s, u) THEN 1 ELSE 0
             l1 == IF u \in k /\ Local(s, u) THEN 1 ELSE 0
  <2>1. d = [total |-> c.total + z.total - t0 + t1 - y.total,
             invisi |-> c.invisi + z.invisi - i0 + i1 - y.invisi,
             oper |-> c.oper - o0 + o1, local |-> c.local - l0 + l1]
    OBVIOUS
  <2>2. kh = ch - t0 + t1 /\ ki = ci - i0 + i1 /\ ko = co - o0 + o1 /\ kl = cl - l0 + l1
    BY <1>9
  <2>3. /\ t0 \in Int /\ t1 \in Int /\ i0 \in Int /\ i1 \in Int /\ o0 \in Int /\ o1 \in Int
        /\ l0 \in Int /\ l1 \in Int
    OBVIOUS
  <2> HIDE DEF ch, ci, co, cl, kh, ki, ko, kl, t0, t1, i0, i1, o0, o1, l0, l1
  <2>4. c.total + z.total - t0 + t1 - y.total = kh - y.total
    BY <1>6, <1>7, <1>8, <2>2, <2>3
  <2>5. c.invisi + z.invisi - i0 + i1 - y.invisi = ki - y.invisi
    BY <1>6, <1>7, <1>8, <2>2, <2>3
  <2>6. c.oper - o0 + o1 = ko /\ c.local - l0 + l1 = kl
    BY <1>7, <2>2
  <2> QED BY <2>1, <2>4, <2>5, <2>6
<1>11. Range(r) = LocalOpers(s, k, n)
  <2>1. Range(q) = LocalOpers(s, h, m)
    BY DEF ServerOK
  <2>2. u \in LocalOpers(s, k, n) <=> u \in Range(r)
    BY <1>2 DEF LocalOpers
  <2>3. Range(r) \ {u} = LocalOpers(s, k, n) \ {u}
    BY <1>5, <2>1 DEF OneCounted
  <2> QED BY <2>2, <2>3, SameButOne
<1>12. ServerOK(s, k, n, b, d, r, y)
  BY <1>2, <1>3, <1>4, <1>10, <1>11 DEF ServerOK
<1> QED BY <1>12 DEF n

\* A new user is counted, and is no local operator.
LEMMA EnterOK ==
  ASSUME NEW w, WorldOK(w), NEW s \in Server, NEW u \in User, u \notin w.here[s],
         NEW m \in SUBSET Modes, "O" \notin m, Home(u) # s => m \subseteq SEND_UMODES,
         Local(s, u) => "o" \notin m
  PROVE  WorldOK(Enter(w, s, u, m))
<1> DEFINE v == Enter(w, s, u, m)
           c == w.count[s]
           d == [total |-> c.total + 1, invisi |-> c.invisi + B("i" \in m),
                 oper |-> c.oper + B("o" \in m), local |-> c.local + B(Local(s, u))]
<1>1. IsWorld(v)
  BY DEF WorldOK, IsWorld, Enter, Fields
<1>2. /\ v.st = w.st /\ v.wire = w.wire /\ v.known = w.known
      /\ v.away = w.away /\ v.opers = w.opers /\ v.slips = w.slips
  BY DEF WorldOK, IsWorld, Enter, Fields
<1>3. /\ v.here = [w.here EXCEPT ![s] = w.here[s] \cup {u}]
      /\ v.umodes = [w.umodes EXCEPT ![s] = [w.umodes[s] EXCEPT ![u] = m]]
      /\ v.count = [w.count EXCEPT ![s] = d]
  BY DEF WorldOK, ListsOK, IsWorld, Enter, Fields
<1> HIDE DEF v
<1>4. NetOK(v)
  BY <1>2 DEF WorldOK, NetOK
<1>5. ServerOK(s, w.here[s], w.umodes[s], w.away[s], c, w.opers[s], w.slips[s])
  BY AtServer
<1>6. ServerOK(s, w.here[s] \cup {u}, [w.umodes[s] EXCEPT ![u] = m], w.away[s], d,
               w.opers[s], w.slips[s])
  <2> DEFINE k == w.here[s] \cup {u}
             z == w.slips[s]
             q == w.opers[s]
             h == w.here[s]
             f == w.umodes[s]
             a == w.away[s]
  <2>1. k \in SUBSET User /\ k \ {u} = h \ {u} /\ a \subseteq k /\ u \in k /\ z \in Number
    BY <1>5 DEF ServerOK
  <2>2. q \in Seq(User) /\ Once(q) /\ u \notin Range(q)
    BY <1>5 DEF ServerOK, LocalOpers
  <2>3. z.total \in Int /\ z.invisi \in Int
    BY <2>1 DEF Number
  <2>4. c.total \in Int /\ c.invisi \in Int /\ c.oper \in Int /\ c.local \in Int
    <3>1. h \in SUBSET User /\ Invisible(h, f) \in SUBSET User
          /\ Operators(h, f) \in SUBSET User /\ Locals(s, h) \in SUBSET User
      BY <1>5 DEF ServerOK, Invisible, Operators, Locals
    <3>2. Cardinality(h) \in Nat /\ Cardinality(Invisible(h, f)) \in Nat
          /\ Cardinality(Operators(h, f)) \in Nat
          /\ Cardinality(Locals(s, h)) \in Nat
      BY <3>1, Finite
    <3> QED BY <1>5, <2>3, <3>2 DEF ServerOK
  <2>5. AnOper(m) <=> "o" \in m
    BY DEF AnOper
  <2> HIDE DEF k, z, q, h, f, a, c
  <2>6. d = [total |-> c.total + z.total - (IF u \in h THEN 1 ELSE 0)
                          + (IF u \in k THEN 1 ELSE 0) - z.total,
              invisi |-> c.invisi + z.invisi - (IF u \in h /\ "i" \in f[u] THEN 1 ELSE 0)
                          + (IF u \in k /\ "i" \in m THEN 1 ELSE 0) - z.invisi,
              oper |-> c.oper - (IF u \in h /\ AnOper(f[u]) THEN 1 ELSE 0)
                          + (IF u \in k /\ AnOper(m) THEN 1 ELSE 0),
              local |-> c.local - (IF u \in h /\ Local(s, u) THEN 1 ELSE 0)
                          + (IF u \in k /\ Local(s, u) THEN 1 ELSE 0)]
    BY <2>1, <2>3, <2>4, <2>5 DEF h, B
  <2>7. ServerOK(s, h, f, a, c, q, z)
    BY <1>5 DEF h, f, a, q, z
  <2>8. ServerOK(s, k, [f EXCEPT ![u] = m], a, d, q, z)
    <3> HIDE DEF d
    <3>1. UserMoved(s, h, f, c, q, z, u, k, m, a, d, q, z)
      BY <2>1, <2>2, <2>5, <2>6 DEF UserMoved
    <3> QED BY <2>7, <3>1, OneUser
  <2> QED BY <2>8 DEF k, z, q, h, f, a
<1>7. Changed(w, v, s, w.here[s] \cup {u}, [w.umodes[s] EXCEPT ![u] = m], w.away[s], d,
              w.opers[s], w.slips[s])
  BY <1>2, <1>3 DEF WorldOK, ListsOK, Changed
<1>8. WorldOK(v)
  <2> HIDE DEF d
  <2> QED BY <1>1, <1>4, <1>6, <1>7, ListsChange
<1> QED BY <1>8 DEF v

-----------------------------------------------------------------------------
(* Leaving                                                                 *)

\* The counters are numbers.
LEMMA CountsInt ==
  ASSUME NEW s, NEW h, NEW m, NEW a, NEW c, NEW q, NEW z, ServerOK(s, h, m, a, c, q, z)
  PROVE  /\ c.total \in Int /\ c.invisi \in Int /\ c.oper \in Int /\ c.local \in Int
         /\ z.total \in Int /\ z.invisi \in Int
<1>1. h \in SUBSET User /\ Invisible(h, m) \in SUBSET User
      /\ Operators(h, m) \in SUBSET User /\ Locals(s, h) \in SUBSET User
  BY DEF ServerOK, Invisible, Operators, Locals
<1>2. Cardinality(h) \in Nat /\ Cardinality(Invisible(h, m)) \in Nat
      /\ Cardinality(Operators(h, m)) \in Nat /\ Cardinality(Locals(s, h)) \in Nat
  BY <1>1, Finite
<1>3. z.total \in Int /\ z.invisi \in Int
  BY DEF ServerOK, Number
<1> QED BY <1>2, <1>3 DEF ServerOK

\* Whoever leaves is counted out and no longer listed.
LEMMA RemoveOK ==
  ASSUME NEW w, WorldOK(w), NEW s \in Server, NEW u \in w.here[s]
  PROVE  WorldOK(remove_client(w, s, u))
<1> DEFINE v == remove_client(w, s, u)
           h == w.here[s]
           k == h \ {u}
           f == w.umodes[s]
           a == w.away[s]
           b == a \ {u}
           q == w.opers[s]
           r == Unlisted(q, u)
           z == w.slips[s]
           c == w.count[s]
           d == [total |-> c.total - 1, invisi |-> c.invisi - B("i" \in f[u]),
                 oper |-> c.oper - B(AnOper(f[u])), local |-> c.local - B(Local(s, u))]
           e == {}
<1>1. IsWorld(v)
  BY DEF WorldOK, IsWorld, remove_client, Fields
<1>2. v.st = w.st /\ v.wire = w.wire /\ v.known = w.known /\ v.slips = w.slips
  BY DEF WorldOK, IsWorld, remove_client, Fields
<1>3. /\ v.here = [w.here EXCEPT ![s] = k]
      /\ v.umodes = [w.umodes EXCEPT ![s] = [f EXCEPT ![u] = e]]
      /\ v.away = [w.away EXCEPT ![s] = b]
      /\ v.opers = [w.opers EXCEPT ![s] = r]
      /\ v.count = [w.count EXCEPT ![s] = d]
  BY DEF WorldOK, ListsOK, IsWorld, remove_client, Fields
<1> HIDE DEF v
<1>4. NetOK(v)
  BY <1>2 DEF WorldOK, NetOK
<1>5. Changed(w, v, s, k, [f EXCEPT ![u] = e], b, d, r, z)
  BY <1>2, <1>3 DEF WorldOK, ListsOK, Changed
<1>6. ServerOK(s, h, f, a, c, q, z)
  BY AtServer
<1>7. /\ u \in User /\ k \in SUBSET User /\ k \ {u} = h \ {u} /\ b \subseteq k
      /\ u \notin k /\ u \in h /\ z \in Number /\ e \in SUBSET Modes /\ e \subseteq SEND_UMODES
  BY <1>6 DEF ServerOK
<1>8. r \in Seq(User) /\ Once(r) /\ Range(r) \ {u} = Range(q) \ {u} /\ u \notin Range(r)
  BY <1>6, UnlistedOK DEF ServerOK
<1> HIDE DEF h, k, f, a, b, q, r, z, c
<1>9. d = [total |-> c.total + z.total - (IF u \in h THEN 1 ELSE 0)
                        + (IF u \in k THEN 1 ELSE 0) - z.total,
           invisi |-> c.invisi + z.invisi - (IF u \in h /\ "i" \in f[u] THEN 1 ELSE 0)
                        + (IF u \in k /\ "i" \in e THEN 1 ELSE 0) - z.invisi,
           oper |-> c.oper - (IF u \in h /\ AnOper(f[u]) THEN 1 ELSE 0)
                        + (IF u \in k /\ AnOper(e) THEN 1 ELSE 0),
           local |-> c.local - (IF u \in h /\ Local(s, u) THEN 1 ELSE 0)
                        + (IF u \in k /\ Local(s, u) THEN 1 ELSE 0)]
  BY <1>6, <1>7, CountsInt DEF B
<1> HIDE DEF d
<1>10. e = {}
  OBVIOUS
<1> HIDE DEF e
<1>11. u \in Range(r) <=> u \in k /\ Local(s, u) /\ AnOper(e)
  BY <1>7, <1>8
<1>12. ServerOK(s, k, [f EXCEPT ![u] = e], b, d, r, z)
  <2>1. UserMoved(s, h, f, c, q, z, u, k, e, b, d, r, z)
    BY <1>7, <1>8, <1>9, <1>10, <1>11 DEF UserMoved
  <2> QED BY <1>6, <2>1, OneUser
<1>13. WorldOK(v)
  BY <1>1, <1>4, <1>5, <1>12, ListsChange
<1> QED BY <1>13 DEF v

\* The lists are the same after a broadcast.
LEMMA ServKeeps ==
  ASSUME NEW w, WorldOK(w), NEW s, NEW one, NEW line
  PROVE  LET v == sendto_serv_butone(w, s, one, line) IN
         /\ v.st = w.st /\ v.known = w.known /\ v.here = w.here /\ v.umodes = w.umodes
         /\ v.away = w.away /\ v.count = w.count /\ v.opers = w.opers /\ v.slips = w.slips
BY SendKeeps DEF sendto_serv_butone

\* A QUIT told to the others.
LEMMA QuitOK ==
  ASSUME NEW w, WorldOK(w), NEW s \in Server, NEW one, NEW u \in w.here[s]
  PROVE  WorldOK(Quit(w, s, one, u))
<1> DEFINE line == [cmd |-> "QUIT", u |-> u]
           v == sendto_serv_butone(w, s, one, line)
<1>1. u \in User
  BY AtServer
<1>2. line \in Line
  BY <1>1 DEF Line
<1> HIDE DEF line
<1>3. WorldOK(v) /\ v.here = w.here
  BY <1>2, ServLinesOK, ServKeeps
<1> HIDE DEF v
<1>4. WorldOK(remove_client(v, s, u))
  BY <1>3, RemoveOK
<1> QED BY <1>4 DEF Quit, v, line

\* A split takes remote users only, all counters following.
LEMMA ForgetOK ==
  ASSUME NEW w, WorldOK(w), NEW s \in Server, NEW servers, s \notin servers
  PROVE  WorldOK(Forget(w, s, servers))
<1> DEFINE v == Forget(w, s, servers)
           h == w.here[s]
           m == w.umodes[s]
           g == {u \in h : Home(u) \in servers}
           k == h \ g
           n == [u \in User |-> IF u \in g THEN {} ELSE m[u]]
           a == w.away[s]
           b == a \ g
           q == w.opers[s]
           z == w.slips[s]
           c == w.count[s]
           d == [total |-> c.total - Cardinality(g),
                 invisi |-> c.invisi - Cardinality({u \in g : "i" \in m[u]}),
                 oper |-> c.oper - Cardinality({u \in g : AnOper(m[u])}),
                 local |-> c.local]
<1>1. IsWorld(v)
  BY DEF WorldOK, IsWorld, Forget, Fields
<1>2. /\ v.st = w.st /\ v.wire = w.wire /\ v.slips = w.slips /\ v.opers = w.opers
      /\ v.known = [w.known EXCEPT ![s] = w.known[s] \ servers]
  BY DEF WorldOK, NetOK, IsWorld, Forget, Fields
<1>3. ServerOK(s, h, m, a, c, q, z)
  BY AtServer
<1>5. /\ v.here = [w.here EXCEPT ![s] = k]
      /\ v.umodes = [w.umodes EXCEPT ![s] = n]
      /\ v.away = [w.away EXCEPT ![s] = b]
  BY DEF WorldOK, ListsOK, IsWorld, Forget, Fields
<1>6. v.count = [w.count EXCEPT ![s] = d]
  BY DEF WorldOK, ListsOK, IsWorld, Forget, Fields
<1>7. NetOK(v)
  BY <1>2 DEF WorldOK, NetOK
<1> HIDE DEF v
<1>8. Changed(w, v, s, k, n, b, d, q, z)
  BY <1>2, <1>5, <1>6 DEF WorldOK, ListsOK, Changed
<1>9. \A u \in g : ~Local(s, u)
  BY DEF Local
<1>10. h \subseteq User /\ a \subseteq h /\ m \in [User -> SUBSET Modes] /\ g \subseteq h
  BY <1>3 DEF ServerOK
<1> HIDE DEF h, m, g, a, q, z, c
<1>11. n \in [User -> SUBSET Modes] /\ \A u \in User : n[u] = IF u \in g THEN {} ELSE m[u]
  BY <1>10
<1> HIDE DEF n
<1>12. k \subseteq User /\ b \subseteq k
  BY <1>10
<1>13. /\ \A u \in User : Home(u) # s => n[u] \subseteq SEND_UMODES
       /\ \A u \in User : u \notin k => n[u] = {}
  BY <1>3, <1>11 DEF ServerOK
<1>14. /\ Invisible(h, m) \in SUBSET User /\ Invisible(g, m) \in SUBSET Invisible(h, m)
       /\ Invisible(k, n) = Invisible(h, m) \ Invisible(g, m)
  BY <1>10, <1>11 DEF Invisible
<1>15. /\ Operators(h, m) \in SUBSET User /\ Operators(g, m) \in SUBSET Operators(h, m)
       /\ Operators(k, n) = Operators(h, m) \ Operators(g, m)
  BY <1>10, <1>11 DEF Operators
<1>16. Locals(s, k) = Locals(s, h)
  BY <1>9 DEF Locals
<1>17. LocalOpers(s, k, n) = LocalOpers(s, h, m)
  BY <1>9, <1>10, <1>11 DEF LocalOpers
<1>18. /\ Cardinality(k) = Cardinality(h) - Cardinality(g)
       /\ Cardinality(Invisible(k, n)) = Cardinality(Invisible(h, m)) - Cardinality(Invisible(g, m))
       /\ Cardinality(Operators(k, n)) = Cardinality(Operators(h, m)) - Cardinality(Operators(g, m))
  BY <1>10, <1>14, <1>15, CountDropSet
<1>19. d = [total |-> c.total - Cardinality(g), invisi |-> c.invisi - Cardinality(Invisible(g, m)),
            oper |-> c.oper - Cardinality(Operators(g, m)), local |-> c.local]
  BY DEF Invisible, Operators
<1> HIDE DEF d, k, b
<1>20. /\ Cardinality(h) \in Int /\ Cardinality(g) \in Int /\ Cardinality(Invisible(h, m)) \in Int
       /\ Cardinality(Invisible(g, m)) \in Int /\ Cardinality(Operators(h, m)) \in Int
       /\ Cardinality(Operators(g, m)) \in Int
  BY <1>10, <1>14, <1>15, Finite
<1>21. z.total \in Int /\ z.invisi \in Int
  BY <1>3, CountsInt
<1>22. d = [total |-> Cardinality(k) - z.total, invisi |-> Cardinality(Invisible(k, n)) - z.invisi,
            oper |-> Cardinality(Operators(k, n)), local |-> Cardinality(Locals(s, k))]
  <2>1. /\ c.total = Cardinality(h) - z.total /\ c.invisi = Cardinality(Invisible(h, m)) - z.invisi
        /\ c.oper = Cardinality(Operators(h, m)) /\ c.local = Cardinality(Locals(s, h))
    BY <1>3 DEF ServerOK
  <2> QED BY <2>1, <1>16, <1>18, <1>19, <1>20, <1>21
<1>23. ServerOK(s, k, n, b, d, q, z)
  BY <1>3, <1>11, <1>12, <1>13, <1>17, <1>22 DEF ServerOK
<1>24. WorldOK(v)
  BY <1>1, <1>7, <1>8, <1>23, ListsChange DEF v
<1> QED BY <1>24 DEF v

-----------------------------------------------------------------------------
(* Lost servers, new users                                                 *)

\* A server that is lost, and all behind it.
LEMMA ExitServerOK ==
  ASSUME NEW w, WorldOK(w), NEW s \in Server, NEW x \in Server, NEW cptr
  PROVE  WorldOK(ExitServer(w, s, x, cptr))
<1> DEFINE side == scene.toward[s][x]
           gone == {y \in w.known[s] : y = x \/ scene.toward[x][y] # scene.toward[x][s]}
           line == [cmd |-> "SQUIT", by |-> s, name |-> x, lab |-> NoLabel]
           ts == Links(w, s) \ {side, cptr}
           v == Send(w, s, ts, line)
<1>1. line \in Line
  BY DEF Line
<1>2. s \notin gone
  BY AtServer
<1>3. ExitServer(w, s, x, cptr) = Forget(v, s, gone)
  BY DEF ExitServer
<1> HIDE DEF line, ts, gone
<1>4. WorldOK(v)
  BY <1>1, SendOK
<1> HIDE DEF v
<1> QED BY <1>2, <1>3, <1>4, ForgetOK

\* The link to it is closed first.
LEMMA ExitLinkOK ==
  ASSUME NEW w, WorldOK(w), NEW s \in Server, NEW t \in Server, NEW cptr
  PROVE  WorldOK(ExitLink(w, s, t, cptr))
<1> DEFINE e == [cmd |-> "EOF"]
           x == Send(w, s, {t}, e)
           v == [x EXCEPT !.st[<<s, t>>] = "down", !.wire[<<t, s>>] = <<>>]
<1>1. e \in Line
  BY DEF Line
<1> HIDE DEF e
<1>2. WorldOK(x)
  BY <1>1, SendOK
<1>3. ExitLink(w, s, t, cptr) = IF w.st[<<s, t>>] = "up" THEN ExitServer(v, s, t, cptr) ELSE v
  BY DEF ExitLink, e
<1> HIDE DEF x
<1>4. IsWorld(v)
  BY <1>2 DEF WorldOK, IsWorld, Fields
<1>5. /\ v.known = x.known /\ v.here = x.here /\ v.umodes = x.umodes /\ v.away = x.away
      /\ v.count = x.count /\ v.opers = x.opers /\ v.slips = x.slips
      /\ v.st = [x.st EXCEPT ![<<s, t>>] = "down"]
      /\ v.wire = [x.wire EXCEPT ![<<t, s>>] = <<>>]
  BY <1>2 DEF WorldOK, IsWorld, Fields
<1> HIDE DEF v
<1>6. NetOK(v)
  <2>1. v.st \in [scene.links -> {"down", "open", "up"}]
    BY <1>2, <1>5 DEF WorldOK, NetOK
  <2>2. <<>> \in Seq(Line)
    OBVIOUS
  <2>3. v.wire \in [scene.links -> Seq(Line)]
    BY <1>2, <1>5, <2>2 DEF WorldOK, NetOK
  <2> QED BY <1>2, <1>5, <2>1, <2>3 DEF WorldOK, NetOK
<1>7. ListsOK(v)
  BY <1>2, <1>5 DEF WorldOK, ListsOK
<1>8. WorldOK(v)
  BY <1>4, <1>6, <1>7 DEF WorldOK
<1> QED BY <1>3, <1>8, ExitServerOK

\* A local client registers.
LEMMA RegisterOK ==
  ASSUME NEW w, WorldOK(w), NEW s \in Server, NEW u \in User, u \notin w.here[s]
  PROVE  WorldOK(register_user(w, s, u))
<1> DEFINE m == {"i"}
           line == NICK(u, m)
           none == {}
<1>1. /\ m \in SUBSET Modes /\ "O" \notin m /\ "o" \notin m /\ m \subseteq SEND_UMODES
      /\ line \in Line
  BY DEF Modes, SEND_UMODES, Line, NICK
<1>2. register_user(w, s, u) = sendto_serv_butone(Enter(w, s, u, m), s, none, line)
  BY DEF register_user
<1> HIDE DEF m, line, none
<1>3. WorldOK(Enter(w, s, u, m))
  BY <1>1, EnterOK
<1> QED BY <1>1, <1>2, <1>3, ServLinesOK

\* The line that removes a user, of whatever sender.
LEMMA KillLine ==
  ASSUME NEW by \in User \cup Server, NEW u \in User, NEW lab \in Event \cup {NoLabel}
  PROVE  [cmd |-> "KILL", by |-> by, u |-> u, lab |-> lab] \in Line
BY DEF Line

\* A user of another server: new, in collision with itself, or a ghost.
LEMMA NickOK ==
  ASSUME NEW w, WorldOK(w), NEW s \in Server, NEW t,
         NEW m \in [cmd : {"NICK"}, u : User, modes : SUBSET SEND_UMODES]
  PROVE  WorldOK(m_nick(w, s, t, m))
<1> DEFINE kill == [cmd |-> "KILL", by |-> s, u |-> m.u, lab |-> NoLabel]
           none == {}
           one == {t}
<1>1. m.u \in User /\ m.modes \in SUBSET SEND_UMODES /\ m \in Line
  BY DEF Line
<1>2. kill \in Line
  BY <1>1, KillLine
<1> HIDE DEF kill, none, one
<1>3. CASE m.u \in w.here[s]
  <2> DEFINE v == sendto_serv_butone(w, s, none, kill)
  <2>1. m_nick(w, s, t, m) = remove_client(v, s, m.u)
    BY <1>3 DEF m_nick, Collided, kill, none
  <2>2. WorldOK(v) /\ v.here = w.here
    BY <1>2, ServLinesOK, ServKeeps
  <2> HIDE DEF v
  <2> QED BY <1>3, <2>1, <2>2, RemoveOK
<1>4. CASE m.u \notin w.here[s] /\ Home(m.u) \in w.known[s]
  <2>1. m_nick(w, s, t, m) = sendto_serv_butone(Enter(w, s, m.u, m.modes), s, t, m)
    BY <1>4 DEF m_nick
  <2>2. m.modes \in SUBSET Modes /\ "O" \notin m.modes
    BY <1>1 DEF Modes, SEND_UMODES
  <2>3. ~Local(s, m.u)
    BY <1>4, AtServer DEF Local
  <2>4. WorldOK(Enter(w, s, m.u, m.modes))
    BY <1>1, <1>4, <2>2, <2>3, EnterOK
  <2> QED BY <1>1, <2>1, <2>4, ServLinesOK
<1>5. CASE m.u \notin w.here[s] /\ Home(m.u) \notin w.known[s]
  <2> DEFINE x == Send(w, s, one, kill)
             v == [x EXCEPT !.count[s].total = @ - 1, !.slips[s].total = @ + 1]
             c == x.count[s]
             z == x.slips[s]
             d == [c EXCEPT !.total = @ - 1]
             y == [z EXCEPT !.total = @ + 1]
  <2>1. m_nick(w, s, t, m) = v
    BY <1>5 DEF m_nick, kill, one
  <2>2. WorldOK(x)
    BY <1>2, SendOK
  <2> HIDE DEF x
  <2>3. IsWorld(v)
    BY <2>2 DEF WorldOK, IsWorld, Fields
  <2>4. /\ v.st = x.st /\ v.wire = x.wire /\ v.known = x.known /\ v.here = x.here
        /\ v.umodes = x.umodes /\ v.away = x.away /\ v.opers = x.opers
    BY <2>2 DEF WorldOK, IsWorld, Fields
  <2>5. v.count = [x.count EXCEPT ![s] = d] /\ v.slips = [x.slips EXCEPT ![s] = y]
    BY <2>2 DEF WorldOK, IsWorld, ListsOK, Fields
  <2> HIDE DEF v
  <2>6. NetOK(v)
    BY <2>2, <2>4 DEF WorldOK, NetOK
  <2>7. Changed(x, v, s, x.here[s], x.umodes[s], x.away[s], d, x.opers[s], y)
    BY <2>2, <2>4, <2>5 DEF WorldOK, ListsOK, Changed
  <2>8. ServerOK(s, x.here[s], x.umodes[s], x.away[s], c, x.opers[s], z)
    BY <2>2, AtServer
  <2>9. ServerOK(s, x.here[s], x.umodes[s], x.away[s], d, x.opers[s], y)
    <3> DEFINE h == Cardinality(x.here[s])
    <3>1. h \in Int /\ z.total \in Int /\ z \in Number
      <4>1. x.here[s] \in SUBSET User
        BY <2>2, AtServer
      <4>2. z \in Number
        BY <2>8 DEF ServerOK
      <4>3. h \in Nat
        BY <4>1, Finite
      <4> QED BY <4>2, <4>3 DEF Number
    <3>2. c.total = h - z.total
      BY <2>8 DEF ServerOK
    <3> HIDE DEF h, c, z
    <3>3. y \in Number /\ y.total = z.total + 1 /\ y.invisi = z.invisi
      BY <3>1 DEF Number
    <3>4. c.total - 1 = h - y.total
      BY <3>1, <3>2, <3>3
    <3>5. c = [total |-> c.total, invisi |-> c.invisi, oper |-> c.oper, local |-> c.local]
      BY <2>8 DEF ServerOK
    <3>6. d = [total |-> c.total - 1, invisi |-> c.invisi, oper |-> c.oper, local |-> c.local]
      BY <3>5
    <3>7. c = [total |-> h - z.total,
               invisi |-> Cardinality(Invisible(x.here[s], x.umodes[s])) - z.invisi,
               oper |-> Cardinality(Operators(x.here[s], x.umodes[s])),
               local |-> Cardinality(Locals(s, x.here[s]))]
      BY <2>8 DEF ServerOK, h
    <3> HIDE DEF y
    <3>8. d = [total |-> h - y.total,
               invisi |-> Cardinality(Invisible(x.here[s], x.umodes[s])) - y.invisi,
               oper |-> Cardinality(Operators(x.here[s], x.umodes[s])),
               local |-> Cardinality(Locals(s, x.here[s]))]
      BY <3>3, <3>4, <3>6, <3>7
    <3> HIDE DEF d
    <3> QED BY <2>8, <3>3, <3>8 DEF ServerOK, h
  <2> HIDE DEF d, y, c, z
  <2>10. WorldOK(v)
    BY <2>2, <2>3, <2>6, <2>7, <2>9, ListsChange
  <2> QED BY <2>1, <2>10
<1> QED BY <1>3, <1>4, <1>5

-----------------------------------------------------------------------------
(* MODE                                                                    *)

\* What the others are told of a MODE are lines of the protocol.
LEMMA UmodeOutOK ==
  ASSUME NEW w, WorldOK(w), NEW s \in Server, NEW cptr, NEW u \in User,
         NEW old \in SUBSET Modes, Home(u) # s => old \subseteq SEND_UMODES
  PROVE  WorldOK(send_umode_out(w, s, cptr, u, old))
<1> DEFINE new == w.umodes[s][u]
           told == IF Local(s, u) THEN SEND_UMODES ELSE Modes
           add == (new \ old) \cap told
           del == (old \ new) \cap told
           line == [cmd |-> "MODE", u |-> u, add |-> add, del |-> del]
<1>1. new \in SUBSET Modes /\ (Home(u) # s => new \subseteq SEND_UMODES)
  BY AtServer
<1> HIDE DEF new
<1>2. add \in SUBSET SEND_UMODES /\ del \in SUBSET SEND_UMODES /\ add \cap del = {}
  BY <1>1 DEF Local
<1> HIDE DEF add, del
<1>3. line \in Line
  BY <1>2 DEF Line
<1>4. send_umode_out(w, s, cptr, u, old)
        = IF line.add \cup line.del = {} THEN w ELSE sendto_serv_butone(w, s, cptr, line)
  BY DEF send_umode_out, add, del, new
<1> HIDE DEF line
<1> QED BY <1>3, <1>4, ServLinesOK

\* MODE keeps the counters and the list of operators, whoever sends it.
LEMMA UserModeOK ==
  ASSUME NEW w, WorldOK(w), NEW s \in Server, NEW cptr, NEW u \in w.here[s],
         NEW add \in SUBSET Modes, NEW del \in SUBSET Modes, "O" \notin add, "O" \notin del,
         Home(u) # s => add \subseteq SEND_UMODES /\ add \cap del = {}
  PROVE  WorldOK(user_mode(w, s, cptr, u, add, del))
<1> DEFINE h == w.here[s]
           f == w.umodes[s]
           a == w.away[s]
           q == w.opers[s]
           c == w.count[s]
           z == w.slips[s]
           old == f[u]
           gains == "o" \in add /\ ~Local(s, u) /\ "o" \notin old
           drops == "o" \in del /\ AnOper(old)
           new == (old \ ((del \ {"o"}) \cup IF drops THEN {"o", "O"} ELSE {}))
                    \cup (IF Local(s, u) THEN add \ {"o"} ELSE add)
           r == IF drops THEN Unlisted(q, u) ELSE q
           v == [w EXCEPT !.umodes[s][u] = new,
                     !.opers[s] = IF drops THEN Unlisted(@, u) ELSE @,
                     !.count[s] = [total |-> @.total, local |-> @.local,
                                   invisi |-> @.invisi + B("i" \in new \ old) - B("i" \in old \ new),
                                   oper |-> @.oper + B(gains) - B(drops)]]
           co == c.oper + B(gains) - B(drops)
           ci == c.invisi + B("i" \in new \ old) - B("i" \in old \ new)
           d == [total |-> c.total, invisi |-> ci, oper |-> co, local |-> c.local]
<1>1. user_mode(w, s, cptr, u, add, del) = send_umode_out(v, s, cptr, u, old)
  BY DEF user_mode
<1>2. ServerOK(s, h, f, a, c, q, z) /\ u \in User /\ u \in h
  BY AtServer
<1>3. old \in SUBSET Modes /\ (Home(u) # s => old \subseteq SEND_UMODES)
  BY <1>2, AtServer
<1>4. new \in SUBSET Modes /\ (Home(u) # s => new \subseteq SEND_UMODES)
  BY <1>3 DEF Local
<1>5. /\ drops => AnOper(old) /\ ~AnOper(new) /\ ~gains
      /\ gains => ~AnOper(old) /\ AnOper(new) /\ ~Local(s, u)
      /\ ~gains /\ ~drops => (AnOper(new) <=> AnOper(old))
  <2>1. AnOper(old) <=> "o" \in old \/ "O" \in old
    BY DEF AnOper
  <2>2. AnOper(new) <=> "o" \in new \/ "O" \in new
    BY DEF AnOper
  <2>3. ~Local(s, u) => "O" \notin old
    BY <1>3 DEF Local, SEND_UMODES
  <2>4. ~Local(s, u) => ~("o" \in add /\ "o" \in del)
    BY DEF Local
  <2>5. "O" \in new <=> "O" \in old /\ ~drops
    OBVIOUS
  <2>6. "o" \in new <=> ("o" \in old /\ ~drops) \/ ("o" \in add /\ ~Local(s, u))
    OBVIOUS
  <2> HIDE DEF new, old
  <2> QED BY <2>1, <2>2, <2>3, <2>4, <2>5, <2>6
<1> HIDE DEF new
<1>6. IsWorld(v)
  <2> HIDE DEF gains, drops, old
  <2> QED BY DEF WorldOK, IsWorld, Fields
<1>7. /\ v.st = w.st /\ v.wire = w.wire /\ v.known = w.known /\ v.here = w.here
      /\ v.away = w.away /\ v.slips = w.slips
  BY DEF WorldOK, IsWorld, Fields
<1>8. /\ v.umodes = [w.umodes EXCEPT ![s] = [f EXCEPT ![u] = new]]
      /\ v.opers = [w.opers EXCEPT ![s] = r]
  BY DEF WorldOK, ListsOK, IsWorld, Fields
<1>9. v.count = [w.count EXCEPT ![s] = d]
  <2> HIDE DEF gains, drops, old
  <2> QED BY DEF WorldOK, ListsOK, IsWorld, Fields
<1> HIDE DEF v
<1>10. NetOK(v)
  BY <1>7 DEF WorldOK, NetOK
<1>11. Changed(w, v, s, h, [f EXCEPT ![u] = new], a, d, r, z)
  BY <1>7, <1>8, <1>9 DEF WorldOK, ListsOK, Changed
<1>12. /\ h \in SUBSET User /\ a \subseteq h /\ z \in Number
       /\ q \in Seq(User) /\ Once(q) /\ Range(q) = LocalOpers(s, h, f)
  BY <1>2 DEF ServerOK
<1>13. r \in Seq(User) /\ Once(r) /\ Range(r) \ {u} = Range(q) \ {u}
       /\ (drops => u \notin Range(r)) /\ (~drops => Range(r) = Range(q))
  BY <1>12, UnlistedOK
<1>14. u \in Range(q) <=> Local(s, u) /\ AnOper(old)
  BY <1>2, <1>12 DEF LocalOpers
<1> HIDE DEF r
<1>15. u \in Range(r) <=> u \in h /\ Local(s, u) /\ AnOper(new)
  BY <1>2, <1>5, <1>13, <1>14
<1>16. /\ c.total \in Int /\ c.invisi \in Int /\ c.oper \in Int /\ c.local \in Int
       /\ z.total \in Int /\ z.invisi \in Int
  BY <1>2, CountsInt
<1> HIDE DEF h, f, a, q, c, z
<1>17. d = [total |-> c.total + z.total - (IF u \in h THEN 1 ELSE 0)
                        + (IF u \in h THEN 1 ELSE 0) - z.total,
            invisi |-> c.invisi + z.invisi - (IF u \in h /\ "i" \in f[u] THEN 1 ELSE 0)
                        + (IF u \in h /\ "i" \in new THEN 1 ELSE 0) - z.invisi,
            oper |-> c.oper - (IF u \in h /\ AnOper(f[u]) THEN 1 ELSE 0)
                        + (IF u \in h /\ AnOper(new) THEN 1 ELSE 0),
            local |-> c.local - (IF u \in h /\ Local(s, u) THEN 1 ELSE 0)
                        + (IF u \in h /\ Local(s, u) THEN 1 ELSE 0)]
  <2>1. c.total = c.total + z.total - 1 + 1 - z.total /\ c.local = c.local - 1 + 1
        /\ c.local = c.local - 0 + 0
    BY <1>16
  <2>2. ci = c.invisi + z.invisi - (IF "i" \in old THEN 1 ELSE 0)
                        + (IF "i" \in new THEN 1 ELSE 0) - z.invisi
    <3> HIDE DEF old
    <3> QED BY <1>16 DEF B
  <2>3. co = c.oper - (IF AnOper(old) THEN 1 ELSE 0) + (IF AnOper(new) THEN 1 ELSE 0)
    <3> HIDE DEF old, gains, drops
    <3>1. CASE gains
      BY <1>5, <1>16, <3>1 DEF B
    <3>2. CASE drops
      BY <1>5, <1>16, <3>2 DEF B
    <3>3. CASE ~gains /\ ~drops
      BY <1>5, <1>16, <3>3 DEF B
    <3> QED BY <3>1, <3>2, <3>3
  <2> HIDE DEF ci, co
  <2> QED BY <1>2, <2>1, <2>2, <2>3
<1> HIDE DEF d
<1>18. u \notin h => new = {}
  BY <1>2
<1>19. ServerOK(s, h, [f EXCEPT ![u] = new], a, d, r, z)
  <2>1. UserMoved(s, h, f, c, q, z, u, h, new, a, d, r, z)
    BY <1>2, <1>4, <1>12, <1>13, <1>15, <1>17, <1>18 DEF UserMoved
  <2> QED BY <1>2, <2>1, OneUser
<1>20. WorldOK(v)
  BY <1>6, <1>10, <1>11, <1>19, ListsChange
<1> HIDE DEF old
<1> QED BY <1>1, <1>2, <1>3, <1>20, UmodeOutOK

-----------------------------------------------------------------------------
(* OPER, AWAY, KILL and messages to operators                              *)

\* What Accept leaves alone.
LEMMA AcceptKeeps ==
  ASSUME NEW w, WorldOK(w), NEW lab, NEW servers
  PROVE  LET v == Accept(w, lab, servers) IN
         v.here = w.here /\ v.umodes = w.umodes /\ v.known = w.known /\ v.st = w.st
BY DEF WorldOK, IsWorld, Accept, Fields

\* What Deliver leaves alone.
LEMMA DeliverKeeps ==
  ASSUME NEW w, WorldOK(w), NEW us, NEW lab
  PROVE  LET v == Deliver(w, us, lab) IN
         v.here = w.here /\ v.umodes = w.umodes /\ v.known = w.known /\ v.st = w.st
BY DEF WorldOK, IsWorld, Deliver, Fields

\* OPER lists and counts the operator once.
LEMMA OperOK ==
  ASSUME NEW w, WorldOK(w), NEW s \in Server, NEW u \in w.here[s], Home(u) = s,
         NEW line \in [global : BOOLEAN, hold : SUBSET (Modes \ {"o", "O"})], NEW lab
  PROVE  WorldOK(m_oper(w, s, u, line, lab))
<1> DEFINE h == w.here[s]
           f == w.umodes[s]
           a == w.away[s]
           q == w.opers[s]
           c == w.count[s]
           z == w.slips[s]
           old == f[u]
           kind == IF line.global THEN "o" ELSE "O"
           flags == IF line.hold # {} THEN line.hold
                    ELSE IF line.global THEN OPER_UMODES ELSE LOCOP_UMODES
           new == old \cup {kind} \cup flags
           r == <<u>> \o q
           hid == B("i" \in flags \ old)
           v == [w EXCEPT !.umodes[s][u] = new,
                          !.opers[s] = <<u>> \o @,
                          !.count[s].oper = @ + 1,
                          !.slips[s].invisi = @ + hid]
           d == [c EXCEPT !.oper = @ + 1]
           y == [z EXCEPT !.invisi = @ + hid]
           x == sendto_ops(Accept(v, lab, {s}), s, lab)
<1>1. m_oper(w, s, u, line, lab) = IF AnOper(old) THEN w ELSE send_umode_out(x, s, u, u, old)
  BY DEF m_oper
<1>2. ServerOK(s, h, f, a, c, q, z) /\ u \in User /\ u \in h
  BY AtServer
<1>3. old \in SUBSET Modes /\ flags \in SUBSET Modes /\ new \in SUBSET Modes
  <2>1. old \in SUBSET Modes
    BY <1>2, AtServer
  <2>2. line.hold \in SUBSET Modes
    OBVIOUS
  <2>3. flags \in SUBSET Modes
    BY <2>2 DEF OPER_UMODES, LOCOP_UMODES, Modes
  <2> QED BY <2>1, <2>3 DEF Modes
<1>4. AnOper(new) /\ Local(s, u)
  BY DEF AnOper, Local
<1>5. CASE AnOper(old)
  BY <1>1, <1>5
<1>6. CASE ~AnOper(old)
  <2>1. hid = (IF "i" \in new THEN 1 ELSE 0) - (IF "i" \in old THEN 1 ELSE 0) /\ hid \in Int
    <3>1. "i" \in new <=> "i" \in old \/ "i" \in flags
      OBVIOUS
    <3> HIDE DEF new, old, flags
    <3> QED BY <3>1 DEF B
  <2> HIDE DEF new, hid
  <2>2. IsWorld(v)
    BY DEF WorldOK, IsWorld, Fields
  <2>3. /\ v.st = w.st /\ v.wire = w.wire /\ v.known = w.known /\ v.here = w.here
        /\ v.away = w.away
    BY DEF WorldOK, IsWorld, Fields
  <2>4. /\ v.umodes = [w.umodes EXCEPT ![s] = [f EXCEPT ![u] = new]]
        /\ v.opers = [w.opers EXCEPT ![s] = r]
        /\ v.count = [w.count EXCEPT ![s] = d]
        /\ v.slips = [w.slips EXCEPT ![s] = y]
    BY DEF WorldOK, ListsOK, IsWorld, Fields
  <2> HIDE DEF v
  <2>5. NetOK(v)
    BY <2>3 DEF WorldOK, NetOK
  <2>6. Changed(w, v, s, h, [f EXCEPT ![u] = new], a, d, r, y)
    BY <2>3, <2>4 DEF WorldOK, ListsOK, Changed
  <2>7. /\ h \in SUBSET User /\ a \subseteq h /\ z \in Number
        /\ q \in Seq(User) /\ Once(q) /\ Range(q) = LocalOpers(s, h, f)
    BY <1>2 DEF ServerOK
  <2>8. u \notin Range(q)
    BY <1>6, <2>7 DEF LocalOpers
  <2>9. r \in Seq(User) /\ Once(r) /\ Range(r) = Range(q) \cup {u}
    BY <1>2, <2>7, <2>8, ListedFirst
  <2>10. /\ c.total \in Int /\ c.invisi \in Int /\ c.oper \in Int /\ c.local \in Int
         /\ z.total \in Int /\ z.invisi \in Int
    BY <1>2, CountsInt
  <2>11. c = [total |-> c.total, invisi |-> c.invisi, oper |-> c.oper, local |-> c.local]
    BY <1>2 DEF ServerOK
  <2> HIDE DEF h, f, a, q, c, z, r
  <2>12. y \in Number /\ y.total = z.total /\ y.invisi = z.invisi + hid
    BY <2>1, <2>7, <2>10 DEF Number
  <2>13. d = [total |-> c.total, invisi |-> c.invisi, oper |-> c.oper + 1, local |-> c.local]
    BY <2>11
  <2> HIDE DEF y
  <2>14. d = [total |-> c.total + z.total - (IF u \in h THEN 1 ELSE 0)
                          + (IF u \in h THEN 1 ELSE 0) - y.total,
              invisi |-> c.invisi + z.invisi - (IF u \in h /\ "i" \in f[u] THEN 1 ELSE 0)
                          + (IF u \in h /\ "i" \in new THEN 1 ELSE 0) - y.invisi,
              oper |-> c.oper - (IF u \in h /\ AnOper(f[u]) THEN 1 ELSE 0)
                          + (IF u \in h /\ AnOper(new) THEN 1 ELSE 0),
              local |-> c.local - (IF u \in h /\ Local(s, u) THEN 1 ELSE 0)
                          + (IF u \in h /\ Local(s, u) THEN 1 ELSE 0)]
    <3>1. c.total + z.total - 1 + 1 - y.total = c.total /\ c.local - 1 + 1 = c.local
          /\ c.oper - 0 + 1 = c.oper + 1
      BY <2>10, <2>12
    <3>2. c.invisi + z.invisi - (IF "i" \in old THEN 1 ELSE 0)
            + (IF "i" \in new THEN 1 ELSE 0) - y.invisi = c.invisi
      <4> HIDE DEF old
      <4> QED BY <2>1, <2>10, <2>12
    <3> HIDE DEF d
    <3> QED BY <1>2, <1>4, <1>6, <2>13, <3>1, <3>2
  <2> HIDE DEF d
  <2>15. u \in Range(r) <=> u \in h /\ Local(s, u) /\ AnOper(new)
    BY <1>2, <1>4, <2>9
  <2>16. Range(r) \ {u} = Range(q) \ {u}
    BY <2>9
  <2>17. (u \notin h => new = {}) /\ (Home(u) # s => new \subseteq SEND_UMODES)
    BY <1>2
  <2>18. ServerOK(s, h, [f EXCEPT ![u] = new], a, d, r, y)
    <3>1. UserMoved(s, h, f, c, q, z, u, h, new, a, d, r, y)
      BY <1>2, <1>3, <2>7, <2>9, <2>12, <2>14, <2>15, <2>16, <2>17 DEF UserMoved
    <3> QED BY <1>2, <3>1, OneUser
  <2>19. WorldOK(v)
    BY <2>2, <2>5, <2>6, <2>18, ListsChange
  <2>20. WorldOK(x)
    BY <2>19, AcceptOK, DeliverOK DEF sendto_ops
  <2> HIDE DEF x, old
  <2>21. Home(u) # s => old \subseteq SEND_UMODES
    OBVIOUS
  <2>22. WorldOK(send_umode_out(x, s, u, u, old))
    BY <1>2, <1>3, <2>20, <2>21, UmodeOutOK
  <2> QED BY <1>1, <1>6, <2>22
<1> QED BY <1>5, <1>6

\* AWAY marks listed users only.
LEMMA AwayOK ==
  ASSUME NEW w, WorldOK(w), NEW s \in Server, NEW cptr, NEW u \in w.here[s], NEW on \in BOOLEAN
  PROVE  WorldOK(m_away(w, s, cptr, u, on))
<1> DEFINE a == IF on THEN w.away[s] \cup {u} ELSE w.away[s] \ {u}
           v == [w EXCEPT !.away[s] = IF on THEN @ \cup {u} ELSE @ \ {u}]
           line == [cmd |-> "AWAY", u |-> u, on |-> on]
<1>1. m_away(w, s, cptr, u, on) = sendto_serv_butone(v, s, cptr, line)
  BY DEF m_away
<1>2. u \in User /\ line \in Line
  BY AtServer DEF Line
<1>3. IsWorld(v)
  BY DEF WorldOK, IsWorld, Fields
<1>4. /\ v.st = w.st /\ v.wire = w.wire /\ v.known = w.known /\ v.here = w.here
      /\ v.umodes = w.umodes /\ v.count = w.count /\ v.opers = w.opers /\ v.slips = w.slips
      /\ v.away = [w.away EXCEPT ![s] = a]
  BY DEF WorldOK, ListsOK, IsWorld, Fields
<1> HIDE DEF v, line
<1>5. NetOK(v)
  BY <1>4 DEF WorldOK, NetOK
<1>6. Changed(w, v, s, w.here[s], w.umodes[s], a, w.count[s], w.opers[s], w.slips[s])
  <2> HIDE DEF a
  <2> QED BY <1>4 DEF WorldOK, ListsOK, Changed
<1>7. ServerOK(s, w.here[s], w.umodes[s], a, w.count[s], w.opers[s], w.slips[s])
  <2>1. ServerOK(s, w.here[s], w.umodes[s], w.away[s], w.count[s], w.opers[s], w.slips[s])
    BY AtServer
  <2>2. a \subseteq w.here[s]
    BY <2>1 DEF ServerOK
  <2> HIDE DEF a
  <2> QED BY <2>1, <2>2 DEF ServerOK
<1> HIDE DEF a
<1>8. WorldOK(v)
  BY <1>3, <1>5, <1>6, <1>7, ListsChange
<1> QED BY <1>1, <1>2, <1>8, ServLinesOK

\* KILL removes a listed user or nobody.
LEMMA KillOK ==
  ASSUME NEW w, WorldOK(w), NEW s \in Server, NEW cptr, NEW m \in Line, m.cmd = "KILL",
         m.u \in User
  PROVE  WorldOK(m_kill(w, s, cptr, m))
<1> DEFINE v == IF m.by \in User /\ AnOper(w.umodes[s][m.by]) THEN sendto_realops(w, s, m.lab) ELSE w
           mine == m.by \in User /\ Home(m.by) = s /\ Local(s, m.u)
           none == {}
           x == sendto_serv_butone(v, s, cptr, m)
<1>1. m_kill(w, s, cptr, m) = IF m.u \notin w.here[s] THEN w
                              ELSE IF mine THEN Quit(v, s, none, m.u)
                              ELSE remove_client(x, s, m.u)
  BY DEF m_kill
<1>2. WorldOK(v) /\ v.here = w.here
  BY DeliverOK, DeliverKeeps DEF sendto_realops
<1> HIDE DEF v, mine, none
<1>3. WorldOK(x) /\ x.here = w.here
  BY <1>2, ServLinesOK, ServKeeps
<1> HIDE DEF x
<1> QED BY <1>1, <1>2, <1>3, QuitOK, RemoveOK

\* WALLOPS, of a user or a server.
LEMMA WallopsOK ==
  ASSUME NEW w, WorldOK(w), NEW s \in Server, NEW cptr, NEW m \in Line, m.cmd = "WALLOPS",
         m.by \in User \cup Server, m.lab \in Event \cup {NoLabel}
  PROVE  WorldOK(m_wallops(w, s, cptr, m))
<1>1. WorldOK(send_operwall(w, s, m.lab))
  BY DeliverOK DEF send_operwall
<1>2. WALLOPS(m.by, m.lab) \in Line
  BY DEF WALLOPS, Line
<1>3. WorldOK(sendto_wallops_butone(w, s, cptr, m.by, m.lab))
  BY <1>2, DeliverOK, SendOK DEF sendto_wallops_butone
<1> QED BY <1>1, <1>3, ServLinesOK DEF m_wallops

\* OPERWALL.
LEMMA OperwallOK ==
  ASSUME NEW w, WorldOK(w), NEW s \in Server, NEW cptr, NEW m \in Line
  PROVE  WorldOK(m_operwall(w, s, cptr, m))
BY ServLinesOK, DeliverOK DEF m_operwall, send_operwall

-----------------------------------------------------------------------------
(* The burst                                                               *)

\* Every set of naturals that is not empty has a least member.
LEMMA LeastNat ==
  ASSUME NEW N \in SUBSET Nat, N # {}
  PROVE  \E n \in N : \A k \in N : n <= k
<1> DEFINE R == {p \in Nat \X Nat : p[1] < p[2]}
<1>1. IsWellFoundedOn(R, Nat)
  BY NatLessThanWellFounded DEF OpToRel
<1>2. \A j, k \in Nat : j < k => <<j, k>> \in R
  OBVIOUS
<1> HIDE DEF R
<1>3. N \subseteq Nat
  OBVIOUS
<1>4. PICK n \in N : \A k \in N : ~ (<<k, n>> \in R)
  BY <1>1, <1>3, WFMin, Zenon
<1>5. ASSUME NEW k \in N PROVE n <= k
  <2>1. n \in Nat /\ k \in Nat
    BY <1>3, <1>4
  <2>2. ~(k < n)
    BY <1>2, <1>4, <2>1
  <2> QED BY <2>1, <2>2
<1> QED BY <1>4, <1>5

\* The concatenation of the sequences of q.
LEMMA FlattenOK ==
  ASSUME NEW S, NEW q \in Seq(Seq(S))
  PROVE  FlattenSeq(q) \in Seq(S)
<1> DEFINE M == Len(q)
           Rounds(N) == \E g \in [1 .. N -> Seq(S)] :
                          g = [i \in 1 .. N |-> IF i = 1 THEN q[i] ELSE g[i - 1] \o q[i]]
           Bad == {N \in 1 .. M : ~Rounds(N)}
           f == CHOOSE g : g = [i \in 1 .. M |-> IF i = 1 THEN q[i] ELSE g[i - 1] \o q[i]]
<1>1. M \in Nat /\ \A i \in 1 .. M : q[i] \in Seq(S)
  OBVIOUS
<1>2. CASE M = 0
  <2>1. FlattenSeq(q) = q /\ q = <<>>
    BY <1>2 DEF FlattenSeq
  <2> QED BY <2>1
<1>3. CASE M # 0
  <2>1. ASSUME Bad # {} PROVE FALSE
    <3>1. PICK m \in Bad : \A k \in Bad : m <= k
      <4>1. Bad \in SUBSET Nat
        <5> HIDE DEF Rounds
        <5> QED BY <1>1
      <4> HIDE DEF Bad
      <4> QED BY <2>1, <4>1, LeastNat
    <3>2. m \in 1 .. M /\ ~Rounds(m)
      BY <3>1
    <3>3. CASE m = 1
      <4> DEFINE g == [i \in 1 .. 1 |-> q[i]]
      <4>1. g \in [1 .. 1 -> Seq(S)]
        BY <1>1, <1>3
      <4>2. g = [i \in 1 .. 1 |-> IF i = 1 THEN q[i] ELSE g[i - 1] \o q[i]]
        OBVIOUS
      <4> HIDE DEF g
      <4> QED BY <3>2, <3>3, <4>1, <4>2
    <3>4. CASE m # 1
      <4>1. m - 1 \in 1 .. M /\ m - 1 \notin Bad
        <5> HIDE DEF Bad
        <5> QED BY <1>1, <3>1, <3>2, <3>4
      <4>2. PICK g \in [1 .. m - 1 -> Seq(S)] :
               g = [i \in 1 .. m - 1 |-> IF i = 1 THEN q[i] ELSE g[i - 1] \o q[i]]
        BY <4>1
      <4> DEFINE h == [i \in 1 .. m |-> IF i < m THEN g[i] ELSE g[m - 1] \o q[m]]
      <4>3. m - 1 \in 1 .. m - 1 /\ q[m] \in Seq(S) /\ g[m - 1] \in Seq(S)
        BY <1>1, <3>2, <3>4, <4>2
      <4>4. h \in [1 .. m -> Seq(S)]
        <5>1. g[m - 1] \o q[m] \in Seq(S)
          BY <4>3
        <5>2. ASSUME NEW i \in 1 .. m, i < m PROVE g[i] \in Seq(S)
          BY <3>2, <4>2, <5>2
        <5> QED BY <5>1, <5>2
      <4>5. ASSUME NEW i \in 1 .. m PROVE h[i] = IF i = 1 THEN q[i] ELSE h[i - 1] \o q[i]
        <5>1. CASE i < m
          <6>1. i \in 1 .. m - 1 /\ h[i] = g[i] /\ (i # 1 => h[i - 1] = g[i - 1])
            BY <3>2, <5>1
          <6>2. g[i] = IF i = 1 THEN q[i] ELSE g[i - 1] \o q[i]
            BY <4>2, <6>1
          <6> QED BY <6>1, <6>2
        <5>2. CASE i = m
          <6>1. m \in 1 .. m /\ m - 1 \in 1 .. m /\ m - 1 < m /\ ~(m < m)
            BY <3>2, <3>4
          <6>2. h[m] = g[m - 1] \o q[m] /\ h[m - 1] = g[m - 1]
            BY <6>1
          <6> QED BY <3>4, <5>2, <6>2
        <5> QED BY <3>2, <5>1, <5>2
      <4> HIDE DEF h
      <4>6. h = [i \in 1 .. m |-> IF i = 1 THEN q[i] ELSE h[i - 1] \o q[i]]
        BY <4>4, <4>5
      <4> QED BY <3>2, <4>4, <4>6
    <3> QED BY <3>3, <3>4
  <2>2. Rounds(M)
    <3>1. Bad = {} /\ M \in 1 .. M
      <4> HIDE DEF Bad
      <4> QED BY <1>1, <1>3, <2>1
    <3> HIDE DEF Rounds, M
    <3> QED BY <3>1
  <2>3. f = [i \in 1 .. M |-> IF i = 1 THEN q[i] ELSE f[i - 1] \o q[i]]
    <3>1. \E g : g = [i \in 1 .. M |-> IF i = 1 THEN q[i] ELSE g[i - 1] \o q[i]]
      BY <2>2
    <3> QED BY <3>1
  <2> HIDE DEF f
  <2>4. \A i \in 1 .. M : f[i] = IF i = 1 THEN q[i] ELSE f[i - 1] \o q[i]
    BY <2>3
  <2> DEFINE Out == {i \in 1 .. M : f[i] \notin Seq(S)}
  <2>5. ASSUME Out # {} PROVE FALSE
    <3>1. PICK m \in Out : \A k \in Out : m <= k
      <4>1. Out \in SUBSET Nat
        BY <1>1
      <4> HIDE DEF Out
      <4> QED BY <2>5, <4>1, LeastNat
    <3>2. m \in 1 .. M /\ f[m] \notin Seq(S)
      BY <3>1
    <3>3. CASE m = 1
      BY <1>1, <2>4, <3>2, <3>3
    <3>4. CASE m # 1
      <4>1. m - 1 \in 1 .. M /\ m - 1 \notin Out
        <5> HIDE DEF Out
        <5> QED BY <1>1, <3>1, <3>2, <3>4
      <4>2. f[m - 1] \in Seq(S) /\ q[m] \in Seq(S)
        BY <1>1, <3>2, <4>1
      <4>3. f[m] = f[m - 1] \o q[m]
        BY <2>4, <3>2, <3>4
      <4> QED BY <3>2, <4>2, <4>3
    <3> QED BY <3>3, <3>4
  <2>6. f[M] \in Seq(S)
    BY <1>1, <1>3, <2>5
  <2>7. FlattenSeq(q) = f[M]
    BY <1>3 DEF FlattenSeq, f
  <2> QED BY <2>6, <2>7
<1> QED BY <1>2, <1>3

\* What holds of the scene for good.
LEMMA SceneOK ==
  ASSUME scene \in Scenes
  PROVE  /\ \A l \in scene.links : /\ l[1] \in Server /\ l[2] \in Server /\ l[1] # l[2]
                                   /\ l = <<l[1], l[2]>>
         /\ scene.home \in [User -> Server]
         /\ scene.start \subseteq User /\ scene.modes \in [User -> SUBSET Modes]
         /\ scene.burst_away \in BOOLEAN /\ scene.events \subseteq Event
BY SceneAssumption

\* The burst is made of lines of the protocol, and s does not know itself.
LEMMA EstabOK ==
  ASSUME NEW w, WorldOK(w), NEW s \in Server, NEW t \in Server, s # t, NEW reply \in BOOLEAN
  PROVE  WorldOK(server_estab(w, s, t, reply))
<1> DEFINE server(x) == [cmd |-> "SERVER", by |-> s, name |-> x]
           away_line(u) == IF scene.burst_away /\ u \in w.away[s]
                           THEN <<[cmd |-> "AWAY", u |-> u, on |-> TRUE]>> ELSE <<>>
           user(u) == <<NICK(u, w.umodes[s][u])>> \o away_line(u)
           hello == IF reply THEN <<[cmd |-> "HELLO", reply |-> FALSE]>> ELSE <<>>
           names == SetToSeq(w.known[s])
           users == SetToSeq(w.here[s])
           servers == [i \in DOMAIN names |-> server(names[i])]
           nicks == [i \in DOMAIN users |-> user(users[i])]
           lines == hello \o servers \o FlattenSeq(nicks)
           told == sendto_serv_butone(w, s, t, server(t))
           v == [told EXCEPT !.st[<<s, t>>] = "up",
                             !.known[s] = @ \cup {t},
                             !.wire[<<s, t>>] = @ \o lines]
<1>1. server_estab(w, s, t, reply) = v
  BY DEF server_estab
<1>2. \A x \in Server : server(x) \in Line
  BY DEF Line
<1>3. hello \in Seq(Line)
  <2>1. [cmd |-> "HELLO", reply |-> FALSE] \in Line
    BY DEF Line
  <2> QED BY <2>1
<1>4. servers \in Seq(Line)
  <2>1. w.known[s] \subseteq Server /\ IsFiniteSet(w.known[s])
    BY AtServer, UserAssumption, FS_Subset
  <2>2. names \in Seq(w.known[s])
    BY <2>1, SetListed
  <2> HIDE DEF names, server
  <2>3. \A i \in DOMAIN names : server(names[i]) \in Line
    BY <1>2, <2>1, <2>2
  <2> QED BY <2>2, <2>3
<1>5. nicks \in Seq(Seq(Line))
  <2>1. w.here[s] \in SUBSET User
    BY AtServer
  <2>2. users \in Seq(w.here[s])
    BY <2>1, Finite, SetListed
  <2>3. ASSUME NEW u \in User PROVE user(u) \in Seq(Line)
    <3>1. NICK(u, w.umodes[s][u]) \in Line
      BY DEF NICK, Line
    <3>2. [cmd |-> "AWAY", u |-> u, on |-> TRUE] \in Line
      BY DEF Line
    <3>3. away_line(u) \in Seq(Line)
      BY <3>2
    <3> HIDE DEF away_line
    <3> QED BY <3>1, <3>3
  <2> HIDE DEF users, user
  <2>4. \A i \in DOMAIN users : user(users[i]) \in Seq(Line)
    BY <2>1, <2>2, <2>3
  <2> DEFINE Lines == Seq(Line)
  <2>5. \A i \in DOMAIN users : user(users[i]) \in Lines
    BY <2>4
  <2> HIDE DEF Lines
  <2>6. nicks \in Seq(Lines)
    BY <2>2, <2>5
  <2> QED BY <2>6 DEF Lines
<1> HIDE DEF hello, servers, nicks
<1>6. lines \in Seq(Line)
  BY <1>3, <1>4, <1>5, FlattenOK
<1> HIDE DEF lines, server
<1>7. WorldOK(told)
  BY <1>2, ServLinesOK
<1> HIDE DEF told
<1>8. IsWorld(v)
  BY <1>7 DEF WorldOK, IsWorld, Fields
<1>9. /\ v.here = told.here /\ v.umodes = told.umodes /\ v.away = told.away
      /\ v.count = told.count /\ v.opers = told.opers /\ v.slips = told.slips
      /\ v.st = [told.st EXCEPT ![<<s, t>>] = "up"]
      /\ v.known = [told.known EXCEPT ![s] = told.known[s] \cup {t}]
      /\ v.wire = [told.wire EXCEPT ![<<s, t>>] = told.wire[<<s, t>>] \o lines]
  BY <1>7 DEF WorldOK, NetOK, IsWorld, Fields
<1> HIDE DEF v
<1>10. NetOK(v)
  <2>1. v.st \in [scene.links -> {"down", "open", "up"}]
    <3>1. told.st \in [scene.links -> {"down", "open", "up"}]
      BY <1>7 DEF WorldOK, NetOK
    <3> QED BY <1>9, <3>1
  <2>2. v.known \in [Server -> SUBSET Server] /\ \A x \in Server : x \notin v.known[x]
    <3> DEFINE k == told.known[s] \cup {t}
    <3>1. /\ told.known \in [Server -> SUBSET Server]
          /\ \A x \in Server : x \notin told.known[x]
      BY <1>7 DEF WorldOK, NetOK
    <3>2. k \in SUBSET Server /\ s \notin k
      BY <3>1
    <3> HIDE DEF k
    <3> QED BY <1>9, <3>1, <3>2 DEF k
  <2>3. v.wire \in [scene.links -> Seq(Line)]
    <3> DEFINE l == <<s, t>>
               q == told.wire[l] \o lines
    <3>1. v.wire = [told.wire EXCEPT ![l] = q] /\ told.wire \in [scene.links -> Seq(Line)]
      BY <1>7, <1>9 DEF WorldOK, NetOK
    <3>2. l \in scene.links => q \in Seq(Line)
      <4> HIDE DEF l
      <4> QED BY <1>6, <3>1
    <3> HIDE DEF l, q
    <3> QED BY <3>1, <3>2
  <2> QED BY <2>1, <2>2, <2>3 DEF NetOK
<1>11. WorldOK(v)
  BY <1>7, <1>8, <1>9, <1>10 DEF WorldOK, ListsOK
<1> QED BY <1>1, <1>11

\* SERVER makes a server known or closes the link.
LEMMA ServerLineOK ==
  ASSUME NEW w, WorldOK(w), NEW s \in Server, NEW t \in Server,
         NEW m \in [cmd : {"SERVER"}, by : Server, name : Server]
  PROVE  WorldOK(m_server(w, s, t, m))
<1>1. CASE m.name = s \/ m.name \in w.known[s]
  BY <1>1, ExitLinkOK DEF m_server
<1>2. CASE ~(m.name = s \/ m.name \in w.known[s])
  <2> DEFINE v == [w EXCEPT !.known[s] = @ \cup {m.name}]
             line == [m EXCEPT !.by = s]
  <2>1. m_server(w, s, t, m) = sendto_serv_butone(v, s, t, line)
    BY <1>2 DEF m_server
  <2>2. line \in Line /\ m.name \in Server
    BY DEF Line
  <2>3. IsWorld(v)
    BY DEF WorldOK, IsWorld, Fields
  <2>4. /\ v.here = w.here /\ v.umodes = w.umodes /\ v.away = w.away
        /\ v.count = w.count /\ v.opers = w.opers /\ v.slips = w.slips
        /\ v.st = w.st /\ v.wire = w.wire
        /\ v.known = [w.known EXCEPT ![s] = w.known[s] \cup {m.name}]
    BY DEF WorldOK, NetOK, IsWorld, Fields
  <2> HIDE DEF v, line
  <2>5. NetOK(v)
    BY <1>2, <2>2, <2>4 DEF WorldOK, NetOK
  <2>6. WorldOK(v)
    BY <2>3, <2>4, <2>5 DEF WorldOK, ListsOK
  <2> QED BY <2>1, <2>2, <2>6, ServLinesOK
<1> QED BY <1>1, <1>2

\* A SQUIT of another server.
LEMMA SquittedOK ==
  ASSUME scene \in Scenes, NEW w, WorldOK(w), NEW s \in Server, NEW t \in Server,
         NEW m \in Line, m.cmd = "SQUIT", m.name \in Server, m.lab \in Event \cup {NoLabel}
  PROVE  WorldOK(Squitted(w, s, t, m))
<1> DEFINE side == scene.toward[s][m.name]
           v == ExitServer(w, s, m.name, t)
           none == {}
           x == sendto_wallops_butone(Accept(w, m.lab, Server), s, none, s, m.lab)
           one == {side}
<1>1. Squitted(w, s, t, m) = IF m.name = s THEN ExitLink(w, s, t, t)
                             ELSE IF m.name \notin w.known[s] THEN w
                             ELSE IF side = m.name THEN ExitLink(x, s, side, t)
                             ELSE IF side = t THEN v ELSE Send(v, s, one, m)
  BY DEF Squitted
<1>2. WorldOK(v)
  BY ExitServerOK
<1>3. WorldOK(x)
  <2>1. WALLOPS(s, m.lab) \in Line
    BY DEF WALLOPS, Line
  <2>2. WorldOK(Accept(w, m.lab, Server))
    BY AcceptOK
  <2> QED BY <2>1, <2>2, DeliverOK, SendOK DEF sendto_wallops_butone
<1> HIDE DEF v, x, one
<1>4. CASE side = m.name
  BY <1>1, <1>3, <1>4, ExitLinkOK
<1>5. CASE side # m.name
  BY <1>1, <1>2, <1>5, SendOK, ExitLinkOK
<1> QED BY <1>4, <1>5

\* A SQUIT of an operator here.
LEMMA SquitOK ==
  ASSUME scene \in Scenes, NEW w, WorldOK(w), NEW s \in Server, NEW u \in User,
         NEW m \in Event, m.cmd = "SQUIT", m.name \in Server
  PROVE  WorldOK(m_squit(w, s, u, m))
<1> DEFINE side == scene.toward[s][m.name]
           none == {}
           v == ExitServer(w, s, m.name, none)
           one == {side}
           line == [cmd |-> "SQUIT", by |-> u, name |-> m.name, lab |-> m]
           x == sendto_ops(w, s, m)
<1>1. m_squit(w, s, u, m) = IF side = m.name THEN ExitLink(x, s, side, none)
                            ELSE Send(v, s, one, line)
  BY DEF m_squit
<1>2. line \in Line
  BY DEF Line
<1> HIDE DEF none, one, line
<1>3. WorldOK(x) /\ WorldOK(v)
  BY ExitServerOK, DeliverOK DEF sendto_ops
<1> HIDE DEF x, v
<1> QED BY <1>1, <1>2, <1>3, ExitLinkOK, SendOK

-----------------------------------------------------------------------------
(* Reading a line                                                          *)

\* What each line carries.
LEMMA LineParts ==
  ASSUME NEW m \in Line
  PROVE  /\ m.cmd \in {"EOF", "HELLO", "NICK", "MODE", "AWAY", "QUIT", "KILL", "WALLOPS",
                       "OPERWALL", "SERVER", "SQUIT"}
         /\ m.cmd = "HELLO" => m.reply \in BOOLEAN
         /\ m.cmd = "NICK" => m \in [cmd : {"NICK"}, u : User, modes : SUBSET SEND_UMODES]
         /\ m.cmd = "MODE" => /\ m.u \in User /\ m.add \in SUBSET SEND_UMODES
                              /\ m.del \in SUBSET SEND_UMODES /\ m.add \cap m.del = {}
         /\ m.cmd = "AWAY" => m.u \in User /\ m.on \in BOOLEAN
         /\ m.cmd = "QUIT" => m.u \in User
         /\ m.cmd = "KILL" => m.u \in User /\ m.by \in User \cup Server
         /\ m.cmd \in {"WALLOPS", "OPERWALL"} => /\ m.by \in User \cup Server
                                                 /\ m.lab \in Event \cup {NoLabel}
         /\ m.cmd = "SERVER" => m \in [cmd : {"SERVER"}, by : Server, name : Server]
         /\ m.cmd = "SQUIT" => /\ m.by \in User \cup Server /\ m.name \in Server
                               /\ m.lab \in Event \cup {NoLabel}
BY DEF Line

\* A line whose sender is not known is answered, and that is all.
LEMMA PrefixedOK ==
  ASSUME NEW w, WorldOK(w), NEW s \in Server, NEW t \in Server, NEW m,
         Actor(m) \in User \cup Server, NEW v,
         Actor(m) \in Server \/ Actor(m) \in w.here[s] => WorldOK(v)
  PROVE  WorldOK(Prefixed(w, s, t, m, v))
<1> DEFINE by == Actor(m)
           squit == [cmd |-> "SQUIT", by |-> s, name |-> by, lab |-> NoLabel]
           kill == [cmd |-> "KILL", by |-> s, u |-> by, lab |-> NoLabel]
           one == {t}
<1>1. Prefixed(w, s, t, m, v) =
        IF by \in Server THEN IF by \in w.known[s] THEN v ELSE Send(w, s, one, squit)
        ELSE IF by \in w.here[s] THEN v ELSE Send(w, s, one, kill)
  BY DEF Prefixed
<1>2. (by \in Server => squit \in Line) /\ (by \in User => kill \in Line)
  BY DEF Line
<1> HIDE DEF by, squit, kill, one
<1>3. by \in User \cup Server /\ (by \in Server \/ by \in w.here[s] => WorldOK(v))
  BY DEF by
<1> QED BY <1>1, <1>2, <1>3, SendOK

\* Whatever line is read, the lists stay right.
LEMMA HandleOK ==
  ASSUME scene \in Scenes, NEW w, WorldOK(w), NEW s \in Server, NEW t \in Server, s # t,
         NEW m \in Line
  PROVE  WorldOK(Handle(w, s, t, m))
<1>0. s \notin User /\ w.here[s] \in SUBSET User
  BY UserAssumption, AtServer
<1>1. CASE m.cmd = "EOF"
  BY <1>1, ExitLinkOK DEF Handle
<1>2. CASE m.cmd = "HELLO"
  <2>1. Handle(w, s, t, m) = server_estab(w, s, t, m.reply)
    BY <1>2 DEF Handle
  <2> QED BY <1>2, <2>1, LineParts, EstabOK
<1>3. CASE m.cmd = "NICK"
  <2>1. Handle(w, s, t, m) = m_nick(w, s, t, m)
    BY <1>3 DEF Handle
  <2> QED BY <1>3, <2>1, LineParts, NickOK
<1>4. CASE m.cmd = "SERVER"
  <2> DEFINE v == m_server(w, s, t, m)
  <2>1. Handle(w, s, t, m) = Prefixed(w, s, t, m, v)
    BY <1>4 DEF Handle
  <2>2. Actor(m) \in User \cup Server
    BY <1>4, LineParts DEF Actor
  <2>3. WorldOK(v)
    BY <1>4, LineParts, ServerLineOK
  <2> HIDE DEF v
  <2> QED BY <2>1, <2>2, <2>3, PrefixedOK
<1>5. CASE m.cmd = "SQUIT"
  <2> DEFINE v == Squitted(w, s, t, m)
  <2>1. Handle(w, s, t, m) = Prefixed(w, s, t, m, v)
    BY <1>5 DEF Handle
  <2>2. Actor(m) \in User \cup Server
    BY <1>5, LineParts DEF Actor
  <2>3. WorldOK(v)
    BY <1>5, LineParts, SquittedOK
  <2> HIDE DEF v
  <2> QED BY <2>1, <2>2, <2>3, PrefixedOK
<1>6. CASE m.cmd = "MODE"
  <2> DEFINE v == user_mode(w, s, t, m.u, m.add, m.del)
  <2>1. Handle(w, s, t, m) = Prefixed(w, s, t, m, v)
    BY <1>6 DEF Handle
  <2>2. Actor(m) = m.u /\ m.u \in User /\ m.u \notin Server
    BY <1>6, LineParts, UserAssumption DEF Actor
  <2>3. m.add \in SUBSET SEND_UMODES /\ m.del \in SUBSET SEND_UMODES /\ m.add \cap m.del = {}
    BY <1>6, LineParts
  <2>4. /\ m.add \in SUBSET Modes /\ m.del \in SUBSET Modes
        /\ "O" \notin m.add /\ "O" \notin m.del
    BY <2>3 DEF SEND_UMODES, Modes
  <2>5. m.u \in w.here[s] => WorldOK(v)
    BY <2>3, <2>4, UserModeOK
  <2> HIDE DEF v
  <2> QED BY <2>1, <2>2, <2>5, PrefixedOK
<1>7. CASE m.cmd = "AWAY"
  <2> DEFINE v == m_away(w, s, t, m.u, m.on)
  <2>1. Handle(w, s, t, m) = Prefixed(w, s, t, m, v)
    BY <1>7 DEF Handle
  <2>2. Actor(m) = m.u /\ m.u \in User /\ m.u \notin Server /\ m.on \in BOOLEAN
    BY <1>7, LineParts, UserAssumption DEF Actor
  <2>3. m.u \in w.here[s] => WorldOK(v)
    BY <2>2, AwayOK
  <2> HIDE DEF v
  <2> QED BY <2>1, <2>2, <2>3, PrefixedOK
<1>8. CASE m.cmd = "QUIT"
  <2> DEFINE v == Quit(w, s, t, m.u)
  <2>1. Handle(w, s, t, m) = Prefixed(w, s, t, m, v)
    BY <1>8 DEF Handle
  <2>2. Actor(m) = m.u /\ m.u \in User /\ m.u \notin Server
    BY <1>8, LineParts, UserAssumption DEF Actor
  <2>3. m.u \in w.here[s] => WorldOK(v)
    BY <2>2, QuitOK
  <2> HIDE DEF v
  <2> QED BY <2>1, <2>2, <2>3, PrefixedOK
<1>9. CASE m.cmd = "KILL"
  <2> DEFINE v == m_kill(w, s, t, m)
  <2>1. Handle(w, s, t, m) = Prefixed(w, s, t, m, v)
    BY <1>9 DEF Handle
  <2>2. Actor(m) \in User \cup Server
    BY <1>9, LineParts DEF Actor
  <2>3. WorldOK(v)
    BY <1>9, LineParts, KillOK
  <2> HIDE DEF v
  <2> QED BY <2>1, <2>2, <2>3, PrefixedOK
<1>10. CASE m.cmd = "WALLOPS"
  <2> DEFINE v == m_wallops(w, s, t, m)
  <2>1. Handle(w, s, t, m) = Prefixed(w, s, t, m, v)
    BY <1>10 DEF Handle
  <2>2. m.by \in User \cup Server /\ m.lab \in Event \cup {NoLabel} /\ Actor(m) = m.by
    BY <1>10, LineParts DEF Actor
  <2>3. WorldOK(v)
    BY <1>10, <2>2, WallopsOK
  <2> HIDE DEF v
  <2> QED BY <2>1, <2>2, <2>3, PrefixedOK
<1>11. CASE m.cmd = "OPERWALL"
  <2> DEFINE v == m_operwall(w, s, t, m)
  <2>1. Handle(w, s, t, m) = Prefixed(w, s, t, m, v)
    BY <1>11 DEF Handle
  <2>2. Actor(m) \in User \cup Server
    BY <1>11, LineParts DEF Actor
  <2>3. WorldOK(v)
    BY OperwallOK
  <2> HIDE DEF v
  <2> QED BY <2>1, <2>2, <2>3, PrefixedOK
<1> QED BY <1>1, <1>2, <1>3, <1>4, <1>5, <1>6, <1>7, <1>8, <1>9, <1>10, <1>11, LineParts

-----------------------------------------------------------------------------
(* Commands                                                                *)

\* The world after a step that makes it w.
LEMMA BecomeOK ==
  ASSUME NEW w, WorldOK(w), Become(w), scene' = scene
  PROVE  WorldOK(World)'
<1>1. /\ st' = w.st /\ wire' = w.wire /\ known' = w.known /\ here' = w.here
      /\ umodes' = w.umodes /\ away' = w.away /\ count' = w.count /\ opers' = w.opers
      /\ slips' = w.slips
  BY DEF Become
<1>2. IsWorld(World)'
  BY DEF IsWorld, World, Fields
<1>3. NetOK(World)'
  BY <1>1 DEF WorldOK, NetOK, World
<1>4. ListsOK(World)'
  <2>1. ASSUME NEW s \in Server
        PROVE  ServerOK(s, here[s], umodes[s], away[s], count[s], opers[s], slips[s])'
    <3>1. ServerOK(s, here'[s], umodes'[s], away'[s], count'[s], opers'[s], slips'[s])
      BY <1>1 DEF WorldOK, ListsOK
    <3>2. \A u : Home(u)' = Home(u) /\ (Local(s, u)' <=> Local(s, u))
      BY DEF Home, Local
    <3>3. Locals(s, here[s])' = Locals(s, here'[s])
      BY <3>2 DEF Locals
    <3>4. LocalOpers(s, here[s], umodes[s])' = LocalOpers(s, here'[s], umodes'[s])
      BY <3>2 DEF LocalOpers
    <3>5. \A u \in User : Home(u)' = Home(u)
      BY <3>2
    <3> QED BY <3>1, <3>3, <3>4, <3>5 DEF ServerOK
  <2>2. /\ here' = [s \in Server |-> here'[s]] /\ umodes' = [s \in Server |-> umodes'[s]]
        /\ away' = [s \in Server |-> away'[s]] /\ count' = [s \in Server |-> count'[s]]
        /\ opers' = [s \in Server |-> opers'[s]] /\ slips' = [s \in Server |-> slips'[s]]
    BY <1>1 DEF WorldOK, ListsOK
  <2> QED BY <2>1, <2>2 DEF ListsOK, World
<1> QED BY <1>2, <1>3, <1>4 DEF WorldOK

\* What each command carries.
LEMMA EventParts ==
  ASSUME NEW m \in Event
  PROVE  /\ m.cmd \in {"NICK", "QUIT", "MODE", "OPER", "AWAY", "KILL", "WALLOPS", "OPERWALL",
                       "LOCOPS", "SQUIT", "CUT", "LINK"}
         /\ m.cmd \in {"NICK", "QUIT", "MODE", "OPER", "AWAY"} => m.u \in User
         /\ m.cmd = "MODE" => m.add \in SUBSET (Modes \ {"O"}) /\ m.del \in SUBSET (Modes \ {"O"})
         /\ m.cmd = "OPER" => m.line \in [global : BOOLEAN, hold : SUBSET (Modes \ {"o", "O"})]
         /\ m.cmd = "AWAY" => m.on \in BOOLEAN
         /\ m.cmd = "KILL" => m.by \in User /\ m.u \in User
         /\ m.cmd \in {"WALLOPS", "OPERWALL", "LOCOPS"} => m.by \in User
         /\ m.cmd = "SQUIT" => m.by \in User /\ m.name \in Server
BY DEF Event

\* Whatever a local client asks for, the lists stay right.
LEMMA DoOK ==
  ASSUME scene \in Scenes, WorldOK(World), NEW m \in Event, m.cmd \notin {"CUT", "LINK"}, May(m)
  PROVE  WorldOK(Do(Home(Actor(m)), m))
<1> DEFINE s == Home(Actor(m))
           w == World
           said == Accept(w, m, Audience(s, m))
<1>1. Actor(m) \in User /\ s \in Server
  <2>1. Actor(m) \in User
    BY EventParts DEF Actor
  <2> QED BY <2>1, SceneOK DEF Home
<1>2. w.here = here /\ w.umodes = umodes
  BY DEF World
<1>3. WorldOK(said)
  BY AcceptOK
<1>4. CASE m.cmd = "NICK"
  <2>1. Do(s, m) = register_user(w, s, m.u)
    BY <1>4 DEF Do
  <2>2. m.u \in User /\ m.u \notin w.here[s]
    BY <1>2, <1>4, EventParts DEF May
  <2> HIDE DEF s, w
  <2> QED BY <1>1, <2>1, <2>2, RegisterOK DEF s, w
<1>5. CASE m.cmd \in {"MODE", "OPER", "AWAY", "QUIT"}
  <2>1. m.u \in User /\ m.u \in w.here[s] /\ Home(m.u) = s
    BY <1>2, <1>5, EventParts DEF May, Actor
  <2>2. CASE m.cmd = "MODE"
    <3>1. Do(s, m) = user_mode(w, s, m.u, m.u, m.add, m.del)
      BY <2>2 DEF Do
    <3>2. /\ m.add \in SUBSET Modes /\ m.del \in SUBSET Modes
          /\ "O" \notin m.add /\ "O" \notin m.del
      BY <2>2, EventParts
    <3>3. WorldOK(w)
      OBVIOUS
    <3> HIDE DEF s, w
    <3>4. WorldOK(user_mode(w, s, m.u, m.u, m.add, m.del))
      BY <1>1, <2>1, <3>2, <3>3, UserModeOK
    <3> QED BY <3>1, <3>4 DEF s
  <2>3. CASE m.cmd = "OPER"
    <3>1. Do(s, m) = m_oper(w, s, m.u, m.line, m)
      BY <2>3 DEF Do
    <3>2. WorldOK(w) /\ m.line \in [global : BOOLEAN, hold : SUBSET (Modes \ {"o", "O"})]
      BY <2>3, EventParts
    <3> HIDE DEF s, w
    <3>3. WorldOK(m_oper(w, s, m.u, m.line, m))
      BY <1>1, <2>1, <3>2, OperOK
    <3> QED BY <3>1, <3>3 DEF s
  <2>4. CASE m.cmd = "AWAY"
    <3>1. Do(s, m) = m_away(w, s, m.u, m.u, m.on)
      BY <2>4 DEF Do
    <3>2. WorldOK(w) /\ m.on \in BOOLEAN
      BY <2>4, EventParts
    <3> HIDE DEF s, w
    <3>3. WorldOK(m_away(w, s, m.u, m.u, m.on))
      BY <1>1, <2>1, <3>2, AwayOK
    <3> QED BY <3>1, <3>3 DEF s
  <2>5. CASE m.cmd = "QUIT"
    <3>1. Do(s, m) = Quit(w, s, m.u, m.u)
      BY <2>5 DEF Do
    <3>2. WorldOK(w)
      OBVIOUS
    <3> HIDE DEF s, w
    <3>3. WorldOK(Quit(w, s, m.u, m.u))
      BY <1>1, <2>1, <3>2, QuitOK
    <3> QED BY <3>1, <3>3 DEF s
  <2> QED BY <1>5, <2>2, <2>3, <2>4, <2>5
<1>6. CASE m.cmd = "KILL"
  <2> DEFINE line == [cmd |-> "KILL", by |-> m.by, u |-> m.u, lab |-> m]
  <2>1. Do(s, m) = m_kill(w, s, m.by, line)
    BY <1>6 DEF Do
  <2>2. WorldOK(w) /\ line \in Line /\ line.cmd = "KILL" /\ line.u \in User
    BY <1>6, EventParts, KillLine
  <2> HIDE DEF s, w, line
  <2>3. WorldOK(m_kill(w, s, m.by, line))
    BY <1>1, <2>2, KillOK
  <2> QED BY <2>1, <2>3 DEF s
<1>7. CASE m.cmd = "WALLOPS"
  <2> DEFINE line == WALLOPS(m.by, m)
  <2>1. Do(s, m) = m_wallops(said, s, m.by, line)
    BY <1>7 DEF Do
  <2>2. line \in Line /\ line.cmd = "WALLOPS" /\ line.by \in User /\ line.lab \in Event
    BY <1>7, EventParts DEF Line, WALLOPS
  <2> HIDE DEF s, said, line
  <2>3. WorldOK(m_wallops(said, s, m.by, line))
    BY <1>1, <1>3, <2>2, WallopsOK
  <2> QED BY <2>1, <2>3 DEF s
<1>8. CASE m.cmd = "OPERWALL"
  <2> DEFINE line == [cmd |-> "OPERWALL", by |-> m.by, lab |-> m]
  <2>1. Do(s, m) = m_operwall(said, s, m.by, line)
    BY <1>8 DEF Do
  <2>2. line \in Line
    BY <1>8, EventParts DEF Line
  <2> HIDE DEF s, said, line
  <2>3. WorldOK(m_operwall(said, s, m.by, line))
    BY <1>1, <1>3, <2>2, OperwallOK
  <2> QED BY <2>1, <2>3 DEF s
<1>9. CASE m.cmd = "LOCOPS"
  <2>1. Do(s, m) = send_locops(said, s, m)
    BY <1>9 DEF Do
  <2> HIDE DEF said
  <2> QED BY <1>3, <2>1, DeliverOK DEF send_locops
<1>10. CASE m.cmd = "SQUIT"
  <2>1. Do(s, m) = m_squit(w, s, m.by, m)
    BY <1>10 DEF Do
  <2>2. WorldOK(w) /\ m.by \in User /\ m.name \in Server
    BY <1>10, EventParts
  <2> HIDE DEF s, w
  <2>3. WorldOK(m_squit(w, s, m.by, m))
    BY <1>1, <1>10, <2>2, SquitOK
  <2> QED BY <2>1, <2>3 DEF s
<1> QED BY <1>4, <1>5, <1>6, <1>7, <1>8, <1>9, <1>10, EventParts

-----------------------------------------------------------------------------
(* The steps                                                               *)

\* The lists are right to begin with.
LEMMA InitInv ==
  ASSUME Init
  PROVE  Inv
<1>1. scene \in Scenes /\ left \subseteq scene.events
  BY DEF Init
<1>2. /\ scene.start \subseteq User /\ scene.modes \in [User -> SUBSET Modes]
  BY <1>1, SceneOK
<1>3. IsWorld(World)
  BY DEF IsWorld, World, Fields
<1>4. NetOK(World)
  <2>1. <<>> \in Seq(Line)
    OBVIOUS
  <2>2. wire \in [scene.links -> Seq(Line)]
    BY <2>1 DEF Init
  <2>3. st \in [scene.links -> {"down", "open", "up"}]
    BY DEF Init
  <2>4. known \in [Server -> SUBSET Server] /\ \A s \in Server : s \notin known[s]
    BY DEF Init
  <2> QED BY <2>2, <2>3, <2>4 DEF NetOK, World
<1>5. /\ here = [s \in Server |-> scene.start] /\ away = [s \in Server |-> {}]
      /\ slips = [s \in Server |-> NoSlip]
      /\ count = [s \in Server |-> Recount(here, umodes, s)]
  BY DEF Init
<1>6. umodes = [s \in Server |-> [u \in User |->
        IF u \notin scene.start THEN {}
        ELSE IF Local(s, u) THEN scene.modes[u] ELSE scene.modes[u] \cap SEND_UMODES]]
  BY DEF Init
<1>7. opers = [s \in Server |->
                 SetToSeq({u \in scene.start : Local(s, u) /\ AnOper(scene.modes[u])})]
  BY DEF Init
<1>8. ASSUME NEW s \in Server
      PROVE  ServerOK(s, here[s], umodes[s], away[s], count[s], opers[s], slips[s])
  <2> DEFINE h == here[s]
             m == umodes[s]
             S == {u \in scene.start : Local(s, u) /\ AnOper(scene.modes[u])}
  <2>1. h \in SUBSET User /\ h = scene.start /\ away[s] = {} /\ slips[s] = NoSlip
    BY <1>2, <1>5
  <2>2. m = [u \in User |-> IF u \notin scene.start THEN {}
               ELSE IF Local(s, u) THEN scene.modes[u] ELSE scene.modes[u] \cap SEND_UMODES]
    BY <1>6
  <2>3. /\ m \in [User -> SUBSET Modes]
        /\ \A u \in User : Home(u) # s => m[u] \subseteq SEND_UMODES
        /\ \A u \in User : u \notin h => m[u] = {}
        /\ \A u \in h : Local(s, u) => m[u] = scene.modes[u]
    BY <1>2, <2>1, <2>2 DEF Local, SEND_UMODES, Modes
  <2>4. S = LocalOpers(s, h, m) /\ S \in SUBSET User
    BY <2>1, <2>3 DEF LocalOpers
  <2>5. opers[s] = SetToSeq(S)
    BY <1>7
  <2> HIDE DEF S
  <2>6. opers[s] \in Seq(S) /\ Once(opers[s]) /\ Range(opers[s]) = S
    BY <2>4, <2>5, Finite, SetListed
  <2>7. opers[s] \in Seq(User)
    BY <2>4, <2>6
  <2>8. count[s] = [total |-> Cardinality(h), invisi |-> Cardinality(Invisible(h, m)),
                    oper |-> Cardinality(Operators(h, m)), local |-> Cardinality(Locals(s, h))]
    BY <1>5 DEF Recount, Invisible, Operators, Locals
  <2>9. Cardinality(h) \in Nat /\ Cardinality(Invisible(h, m)) \in Nat
    <3>1. Invisible(h, m) \in SUBSET User
      BY <2>1 DEF Invisible
    <3> QED BY <2>1, <3>1, Finite
  <2>10. slips[s] \in Number /\ slips[s].total = 0 /\ slips[s].invisi = 0
    BY <2>1 DEF NoSlip, Number
  <2> HIDE DEF h, m
  <2>11. count[s] = [total |-> Cardinality(h) - slips[s].total,
                     invisi |-> Cardinality(Invisible(h, m)) - slips[s].invisi,
                     oper |-> Cardinality(Operators(h, m)), local |-> Cardinality(Locals(s, h))]
    BY <2>8, <2>9, <2>10
  <2>12. ServerOK(s, h, m, away[s], count[s], opers[s], slips[s])
    BY <2>1, <2>3, <2>4, <2>6, <2>7, <2>10, <2>11 DEF ServerOK
  <2> QED BY <2>12 DEF h, m
<1>9. ListsOK(World)
  <2>1. /\ here = [s \in Server |-> here[s]] /\ umodes = [s \in Server |-> umodes[s]]
        /\ away = [s \in Server |-> away[s]] /\ count = [s \in Server |-> count[s]]
        /\ slips = [s \in Server |-> slips[s]]
    BY <1>5, <1>6
  <2>2. opers = [s \in Server |-> opers[s]]
    BY <1>7
  <2> QED BY <1>8, <2>1, <2>2 DEF ListsOK, World
<1> QED BY <1>1, <1>3, <1>4, <1>9 DEF Inv, WorldOK

\* A line is read.
LEMMA ReadInv ==
  ASSUME Inv, NEW s \in Server, NEW t \in Server, read_packet(t, s)
  PROVE  Inv'
<1> DEFINE l == <<t, s>>
           v == [World EXCEPT !.wire[l] = Tail(@)]
           m == Head(wire[l])
<1>1. /\ scene \in Scenes /\ left \subseteq scene.events /\ WorldOK(World)
      /\ l \in scene.links /\ wire[l] # <<>> /\ scene' = scene /\ left' = left
      /\ Become(Handle(v, s, t, m))
  BY DEF Inv, read_packet
<1>2. s # t
  <2>1. l[1] = t /\ l[2] = s
    OBVIOUS
  <2> QED BY <1>1, <2>1, SceneOK
<1> HIDE DEF l
<1>3. wire \in [scene.links -> Seq(Line)]
  BY <1>1 DEF WorldOK, NetOK, World
<1>4. m \in Line /\ Tail(wire[l]) \in Seq(Line)
  BY <1>1, <1>3
<1>5. WorldOK(v)
  <2>1. IsWorld(v)
    BY <1>1 DEF WorldOK, IsWorld, Fields
  <2>2. /\ v.st = st /\ v.known = known /\ v.here = here /\ v.umodes = umodes /\ v.away = away
        /\ v.count = count /\ v.opers = opers /\ v.slips = slips
        /\ v.wire = [wire EXCEPT ![l] = Tail(wire[l])]
    BY <1>1, <1>3 DEF World
  <2> HIDE DEF v
  <2>3. v.wire \in [scene.links -> Seq(Line)]
    BY <1>3, <1>4, <2>2
  <2>4. NetOK(v)
    BY <1>1, <2>2, <2>3 DEF WorldOK, NetOK, World
  <2>5. ListsOK(v)
    BY <1>1, <2>2 DEF WorldOK, ListsOK, World
  <2> QED BY <2>1, <2>4, <2>5 DEF WorldOK
<1> HIDE DEF v, m
<1>6. WorldOK(Handle(v, s, t, m))
  BY <1>1, <1>2, <1>4, <1>5, HandleOK
<1>7. WorldOK(World)'
  BY <1>1, <1>6, BecomeOK
<1> QED BY <1>1, <1>7 DEF Inv

\* A client is served.
LEMMA CommandInv ==
  ASSUME Inv, NEW m \in left, Command(m)
  PROVE  Inv'
<1>1. /\ scene \in Scenes /\ left \subseteq scene.events /\ WorldOK(World)
      /\ scene' = scene /\ left' \subseteq left /\ m.cmd \notin {"CUT", "LINK"} /\ May(m)
      /\ Become(Do(Home(Actor(m)), m))
  BY DEF Inv, Command
<1>2. m \in Event
  BY <1>1, SceneOK
<1>3. WorldOK(Do(Home(Actor(m)), m))
  BY <1>1, <1>2, DoOK
<1>4. WorldOK(World)'
  BY <1>1, <1>3, BecomeOK
<1> QED BY <1>1, <1>4 DEF Inv

\* A step that touches neither the lists nor the servers known.
LEMMA LinesOnly ==
  ASSUME WorldOK(World), NEW v, IsWorld(v),
         v.known = known, v.here = here, v.umodes = umodes, v.away = away,
         v.count = count, v.opers = opers, v.slips = slips,
         v.st \in [scene.links -> {"down", "open", "up"}],
         v.wire \in [scene.links -> Seq(Line)]
  PROVE  WorldOK(v)
<1>1. NetOK(v)
  BY DEF WorldOK, NetOK, World
<1>2. ListsOK(v)
  BY DEF WorldOK, ListsOK, World
<1> QED BY <1>1, <1>2 DEF WorldOK

\* A link is lost.
LEMMA CutInv ==
  ASSUME Inv, NEW s \in Server, NEW t \in Server, Cut(s, t)
  PROVE  Inv'
<1> DEFINE i == <<s, t>>
           j == <<t, s>>
           eof == <<[cmd |-> "EOF"]>>
           v == [World EXCEPT !.wire[i] = eof, !.wire[j] = eof]
<1>1. /\ scene \in Scenes /\ left \subseteq scene.events /\ WorldOK(World)
      /\ scene' = scene /\ left' \subseteq left /\ Become(v)
  BY DEF Inv, Cut
<1>2. eof \in Seq(Line)
  <2>1. [cmd |-> "EOF"] \in Line
    BY DEF Line
  <2> QED BY <2>1
<1>3. wire \in [scene.links -> Seq(Line)] /\ st \in [scene.links -> {"down", "open", "up"}]
  BY <1>1 DEF WorldOK, NetOK, World
<1> HIDE DEF i, j, eof
<1>4. IsWorld(v)
  BY <1>1 DEF WorldOK, IsWorld, Fields
<1>5. /\ v.st = st /\ v.known = known /\ v.here = here /\ v.umodes = umodes /\ v.away = away
      /\ v.count = count /\ v.opers = opers /\ v.slips = slips
      /\ v.wire = [wire EXCEPT ![i] = eof, ![j] = eof]
  BY DEF World
<1> HIDE DEF v
<1>6. v.wire \in [scene.links -> Seq(Line)]
  BY <1>2, <1>3, <1>5
<1>7. WorldOK(v)
  BY <1>1, <1>3, <1>4, <1>5, <1>6, LinesOnly
<1>8. WorldOK(World)'
  BY <1>1, <1>7, BecomeOK
<1> QED BY <1>1, <1>8 DEF Inv

\* A link is made.
LEMMA LinkInv ==
  ASSUME Inv, NEW s \in Server, NEW t \in Server, Link(s, t)
  PROVE  Inv'
<1> DEFINE i == <<s, t>>
           j == <<t, s>>
           hello == <<[cmd |-> "HELLO", reply |-> TRUE]>>
           v == [World EXCEPT !.st[i] = "open", !.st[j] = "open", !.wire[i] = hello]
<1>1. /\ scene \in Scenes /\ left \subseteq scene.events /\ WorldOK(World)
      /\ scene' = scene /\ left' \subseteq left /\ Become(v)
  BY DEF Inv, Link
<1>2. hello \in Seq(Line)
  <2>1. [cmd |-> "HELLO", reply |-> TRUE] \in Line
    BY DEF Line
  <2> QED BY <2>1
<1>3. wire \in [scene.links -> Seq(Line)] /\ st \in [scene.links -> {"down", "open", "up"}]
  BY <1>1 DEF WorldOK, NetOK, World
<1> HIDE DEF i, j, hello
<1>4. IsWorld(v)
  BY <1>1 DEF WorldOK, IsWorld, Fields
<1>5. /\ v.known = known /\ v.here = here /\ v.umodes = umodes /\ v.away = away
      /\ v.count = count /\ v.opers = opers /\ v.slips = slips
      /\ v.wire = [wire EXCEPT ![i] = hello]
      /\ v.st = [st EXCEPT ![i] = "open", ![j] = "open"]
  BY DEF World
<1> HIDE DEF v
<1>6. v.wire \in [scene.links -> Seq(Line)] /\ v.st \in [scene.links -> {"down", "open", "up"}]
  BY <1>2, <1>3, <1>5
<1>7. WorldOK(v)
  BY <1>1, <1>4, <1>5, <1>6, LinesOnly
<1>8. WorldOK(World)'
  BY <1>1, <1>7, BecomeOK
<1> QED BY <1>1, <1>8 DEF Inv

\* LUSERS corrects the counters of one server.
LEMMA LusersInv ==
  ASSUME Inv, NEW s \in Server, show_lusers(s)
  PROVE  Inv'
<1> DEFINE w == World
           c == Recount(here, umodes, s)
           v == [w EXCEPT !.count[s] = c, !.slips[s] = NoSlip]
           h == here[s]
           m == umodes[s]
<1>1. scene \in Scenes /\ left \subseteq scene.events /\ WorldOK(w)
  BY DEF Inv
<1>2. IsWorld(v)
  <2> HIDE DEF c
  <2> QED BY <1>1 DEF WorldOK, IsWorld, Fields
<1>3. /\ v.st = st /\ v.wire = wire /\ v.known = known /\ v.here = here /\ v.umodes = umodes
      /\ v.away = away /\ v.opers = opers /\ v.got = got /\ v.sent = sent
      /\ v.count = [count EXCEPT ![s] = c] /\ v.slips = [slips EXCEPT ![s] = NoSlip]
  <2> HIDE DEF c
  <2> QED BY DEF World
<1> HIDE DEF v
<1>4. Become(v) /\ scene' = scene /\ left' = left
  BY <1>3 DEF show_lusers, Become
<1>5. NetOK(v)
  BY <1>1, <1>3 DEF WorldOK, NetOK, World
<1>6. ServerOK(s, h, m, away[s], count[s], opers[s], slips[s])
  BY <1>1 DEF WorldOK, ListsOK, World
<1>7. c = [total |-> Cardinality(h), invisi |-> Cardinality(Invisible(h, m)),
           oper |-> Cardinality(Operators(h, m)), local |-> Cardinality(Locals(s, h))]
  BY DEF Recount, Invisible, Operators, Locals
<1> HIDE DEF c
<1>8. Cardinality(h) \in Nat /\ Cardinality(Invisible(h, m)) \in Nat
  <2>1. h \in SUBSET User /\ Invisible(h, m) \in SUBSET User
    BY <1>6 DEF Invisible, ServerOK
  <2> QED BY <2>1, Finite
<1>9. NoSlip \in Number /\ NoSlip.total = 0 /\ NoSlip.invisi = 0
  BY DEF NoSlip, Number
<1> HIDE DEF h, m
<1>10. c = [total |-> Cardinality(h) - NoSlip.total,
            invisi |-> Cardinality(Invisible(h, m)) - NoSlip.invisi,
            oper |-> Cardinality(Operators(h, m)), local |-> Cardinality(Locals(s, h))]
  BY <1>7, <1>8, <1>9
<1>11. ServerOK(s, h, m, away[s], c, opers[s], NoSlip)
  BY <1>6, <1>9, <1>10 DEF ServerOK
<1>12. Changed(w, v, s, h, m, away[s], c, opers[s], NoSlip)
  BY <1>1, <1>3 DEF WorldOK, ListsOK, World, Changed, h, m
<1>13. WorldOK(v)
  <2> HIDE DEF w
  <2> QED BY <1>1, <1>2, <1>5, <1>11, <1>12, ListsChange
<1>14. WorldOK(World)'
  BY <1>4, <1>13, BecomeOK
<1> QED BY <1>1, <1>4, <1>14 DEF Inv

\* Nothing changes.
LEMMA StutterInv ==
  ASSUME Inv, UNCHANGED vars
  PROVE  Inv'
<1>1. WorldOK(World) /\ Become(World) /\ scene' = scene /\ left' = left
  BY DEF Inv, vars, Become, World
<1>2. WorldOK(World)'
  BY <1>1, BecomeOK
<1> QED BY <1>1, <1>2 DEF Inv

\* Every step keeps the invariant.
LEMMA NextInv ==
  ASSUME Inv, [Next]_vars
  PROVE  Inv'
BY ReadInv, CommandInv, CutInv, LinkInv, LusersInv, StutterInv DEF Next

\* The invariant gives the property.
LEMMA InvLists ==
  ASSUME Inv
  PROVE  ListsSound
<1>1. scene \in Scenes /\ WorldOK(World)
  BY DEF Inv
<1>2. /\ st \in [scene.links -> {"down", "open", "up"}]
      /\ \A s \in Server : known[s] \subseteq Server \ {s}
  BY <1>1 DEF WorldOK, NetOK, World
<1>3. ASSUME NEW s \in Server
      PROVE  ServerOK(s, here[s], umodes[s], away[s], count[s], opers[s], slips[s])
  BY <1>1 DEF WorldOK, ListsOK, World
<1>4. TypeOK
  <2>1. ASSUME NEW s \in Server
        PROVE  /\ away[s] \subseteq here[s] /\ here[s] \subseteq User
               /\ \A u \in User :
                    /\ umodes[s][u] \subseteq IF Local(s, u) THEN Modes ELSE SEND_UMODES
                    /\ u \notin here[s] => umodes[s][u] = {}
    <3>1. ServerOK(s, here[s], umodes[s], away[s], count[s], opers[s], slips[s])
      BY <1>3
    <3>2. ASSUME NEW u \in User
          PROVE  umodes[s][u] \subseteq IF Local(s, u) THEN Modes ELSE SEND_UMODES
      BY <3>1 DEF ServerOK, Local
    <3> QED BY <3>1, <3>2 DEF ServerOK
  <2> QED BY <1>1, <1>2, <2>1 DEF TypeOK
<1>5. CountsRight
  <2> SUFFICES ASSUME NEW s \in Server
               PROVE  count[s] = [Recount(here, umodes, s)
                        EXCEPT !.total = @ - slips[s].total, !.invisi = @ - slips[s].invisi]
    BY DEF CountsRight
  <2> DEFINE h == here[s]
             m == umodes[s]
             a == Cardinality(h)
             b == Cardinality(Invisible(h, m))
             c == Cardinality(Operators(h, m))
             d == Cardinality(Locals(s, h))
             x == slips[s].total
             y == slips[s].invisi
  <2>1. Recount(here, umodes, s) = [total |-> a, invisi |-> b, oper |-> c, local |-> d]
    BY DEF Recount, Invisible, Operators, Locals
  <2>2. count[s] = [total |-> a - x, invisi |-> b - y, oper |-> c, local |-> d]
    BY <1>3 DEF ServerOK
  <2> HIDE DEF a, b, c, d, x, y
  <2>3. [[total |-> a, invisi |-> b, oper |-> c, local |-> d]
           EXCEPT !.total = @ - x, !.invisi = @ - y]
          = [total |-> a - x, invisi |-> b - y, oper |-> c, local |-> d]
    <3> DEFINE r == [total |-> a, invisi |-> b, oper |-> c, local |-> d]
               p == [r EXCEPT !.total = @ - x, !.invisi = @ - y]
               q == [total |-> a - x, invisi |-> b - y, oper |-> c, local |-> d]
               K == {"total", "invisi", "oper", "local"}
    <3>1. p = [k \in K |-> p[k]] /\ q = [k \in K |-> q[k]]
      OBVIOUS
    <3>2. \A k \in K : p[k] = q[k]
      <4>1. p.total = a - x
        OBVIOUS
      <4>2. p.invisi = b - y
        OBVIOUS
      <4>3. p.oper = c /\ p.local = d
        OBVIOUS
      <4> HIDE DEF p
      <4> QED BY <4>1, <4>2, <4>3
    <3> HIDE DEF p, q, K
    <3>3. [k \in K |-> p[k]] = [k \in K |-> q[k]]
      BY <3>2
    <3>4. p = q
      BY <3>1, <3>3
    <3> QED BY <3>4 DEF p, q
  <2> QED BY <2>1, <2>2, <2>3 DEF x, y
<1>6. OperListRight
  BY <1>3 DEF OperListRight, ServerOK, Once, LocalOpers
<1> QED BY <1>4, <1>5, <1>6 DEF ListsSound

\* On every server of every tree, whatever users come, go, get and lose
\* rights, whatever links break and are made again and in whatever order the
\* lines are read: the counters of users, invisible users, operators and local
\* users are what the lists hold, but for the two slips, and the list of
\* operators holds the local operators, each once (user_mode, m_oper,
\* remove_client_from_list, recurse_remove_clients, show_lusers).
THEOREM ListsAlwaysSound == Spec => []ListsSound
<1>1. Init => Inv
  BY InitInv
<1>2. Inv /\ [Next]_vars => Inv'
  BY NextInv
<1>3. Inv => ListsSound
  BY InvLists
<1> QED BY <1>1, <1>2, <1>3, PTL DEF Spec
=============================================================================
