---------------------------- MODULE LinksProofs ----------------------------
(***************************************************************************)
(* The lists of servers of Links form a tree and are counted right, for    *)
(* any number of servers and connections and any configuration.            *)
(*                                                                         *)
(* A step of a server is a chain of calls, each of which takes the world   *)
(* of all servers and returns it changed.  What holds between any two      *)
(* calls is Good: a connection has two ends or none (EndsOK), the lines on *)
(* it are ones a server sends (WiresOK), and every server's list is a tree *)
(* over its links (ListOK).  A call of s touches the list and the ends of  *)
(* s only, and says more on its links (At, Talk), so its own list is all   *)
(* there is to look at.                                                    *)
(*                                                                         *)
(* That a link is listed under the name of the server at its other end     *)
(* needs the lines in flight.  server_estab lists the name it is told, so  *)
(* an end that is not linked yet must read its peer's own name before any  *)
(* other (Opening), or the end of the connection; and once the peer is     *)
(* linked, and bursts names of others, that line must be there (Greeted).  *)
(* Between the moment an end moves on and the moment its Hello is sent,    *)
(* and while an end is reading, this does not hold: X in Good(w, X) are    *)
(* the ends it is not asked of.                                            *)
(*                                                                         *)
(* That the list stays a tree when a server is lost rests on Dependents:   *)
(* the walk finds all that hang on the lost one because a server follows   *)
(* the one that introduced it (Behind), and nothing of another link.       *)
(***************************************************************************)
EXTENDS Links, FiniteSetTheorems, SequenceTheorems, NaturalsInduction,
        WellFoundedInduction, TLAPS

-----------------------------------------------------------------------------
(* Lists and loops                                                         *)

\* A set of numbers that is not empty has a least member.
LEMMA LeastNat ==
  ASSUME NEW N \in SUBSET Nat, N # {}
  PROVE  \E n \in N : \A k \in N : n <= k
<1> DEFINE R == {p \in Nat \X Nat : p[1] < p[2]}
<1>1. IsWellFoundedOn(R, Nat)
  BY NatLessThanWellFounded DEF OpToRel
<1>2. \A j, k \in Nat : j < k => <<j, k>> \in R
  OBVIOUS
<1> HIDE DEF R
<1>3. N \subseteq Nat
  OBVIOUS
<1>4. PICK n \in N : \A k \in N : ~ (<<k, n>> \in R)
  BY <1>1, <1>3, WFMin, Zenon
<1>5. ASSUME NEW k \in N PROVE n <= k
  <2>1. n \in Nat /\ k \in Nat
    BY <1>3, <1>4
  <2>2. ~(k < n)
    BY <1>2, <1>4, <2>1
  <2> QED BY <2>1, <2>2
<1> QED BY <1>4, <1>5

\* r is what is left of the first n elements of q when only those in S are
\* kept: g says where they were.
Kept(q, S, n, r, g) ==
  /\ g \in [1 .. Len(r) -> 1 .. n]
  /\ \A i, j \in 1 .. Len(r) : i < j => g[i] < g[j]
  /\ \A i \in 1 .. Len(r) : r[i] = q[g[i]] /\ q[g[i]] \in S
  /\ \A k \in 1 .. n : q[k] \in S => \E i \in 1 .. Len(r) : g[i] = k

\* One more step of the walk of Keep.
LEMMA KeptStep ==
  ASSUME NEW X, NEW q \in Seq(X), NEW S, NEW n \in Nat, n + 1 \in 1 .. Len(q),
         NEW r \in Seq(X), NEW g, Kept(q, S, n, r, g)
  PROVE  \E h : Kept(q, S, n + 1, IF q[n + 1] \in S THEN Append(r, q[n + 1]) ELSE r, h)
<1>1. Len(r) \in Nat /\ q[n + 1] \in X
  OBVIOUS
<1>2. CASE q[n + 1] \notin S
  <2>1. Kept(q, S, n + 1, r, g)
    BY <1>1, <1>2 DEF Kept
  <2> QED BY <1>2, <2>1
<1>3. CASE q[n + 1] \in S
  <2> DEFINE h == [i \in 1 .. Len(r) + 1 |-> IF i <= Len(r) THEN g[i] ELSE n + 1]
             a == Append(r, q[n + 1])
  <2>1. Len(a) = Len(r) + 1 /\ a[Len(r) + 1] = q[n + 1] /\ \A i \in 1 .. Len(r) : a[i] = r[i]
    BY <1>1
  <2> HIDE DEF a
  <2>2. h \in [1 .. Len(r) + 1 -> 1 .. n + 1]
    BY <1>1 DEF Kept
  <2>3. \A i \in 1 .. Len(r) : i \in 1 .. Len(r) + 1 /\ h[i] = g[i] /\ g[i] \in 1 .. n
    BY <1>1 DEF Kept
  <2>4. h[Len(r) + 1] = n + 1 /\ Len(r) + 1 \in 1 .. Len(r) + 1
    BY <1>1
  <2> HIDE DEF h
  <2>5. \A i \in 1 .. Len(r) + 1 : i \in 1 .. Len(r) \/ i = Len(r) + 1
    BY <1>1
  <2>6. \A i, j \in 1 .. Len(r) + 1 : i < j => h[i] < h[j]
    <3> SUFFICES ASSUME NEW i \in 1 .. Len(r) + 1, NEW j \in 1 .. Len(r) + 1, i < j
                 PROVE  h[i] < h[j]
      OBVIOUS
    <3>1. i \in 1 .. Len(r)
      BY <1>1
    <3>2. CASE j = Len(r) + 1
      BY <2>3, <2>4, <3>1, <3>2
    <3>3. CASE j \in 1 .. Len(r)
      <4>1. g[i] < g[j]
        BY <3>1, <3>3 DEF Kept
      <4> QED BY <2>3, <3>1, <3>3, <4>1
    <3> QED BY <2>5, <3>2, <3>3
  <2>7. \A i \in 1 .. Len(r) + 1 : a[i] = q[h[i]] /\ q[h[i]] \in S
    BY <1>3, <2>1, <2>3, <2>4, <2>5 DEF Kept
  <2>8. \A k \in 1 .. n + 1 : q[k] \in S => \E i \in 1 .. Len(r) + 1 : h[i] = k
    <3>1. \A k \in 1 .. n + 1 : k \in 1 .. n \/ k = n + 1
      OBVIOUS
    <3> QED BY <2>3, <2>4, <3>1 DEF Kept
  <2>9. Kept(q, S, n + 1, a, h)
    BY <2>1, <2>2, <2>6, <2>7, <2>8 DEF Kept
  <2> QED BY <1>3, <2>9 DEF a
<1> QED BY <1>2, <1>3

\* Keep keeps the elements in S, in their order.
LEMMA KeepIs ==
  ASSUME NEW X, NEW q \in Seq(X), NEW S
  PROVE  /\ Keep(q, S) \in Seq(X)
         /\ \E g : Kept(q, S, Len(q), Keep(q, S), g)
<1> DEFINE M == Len(q)
           F(w, i) == IF i = 0 THEN <<>>
                      ELSE IF q[i] \in S THEN Append(w[i - 1], q[i]) ELSE w[i - 1]
           Rounds(N) == \E w : w = [i \in 0 .. N |-> F(w, i)]
           Bad == {N \in 0 .. M : ~Rounds(N)}
           walk == CHOOSE w : w = [i \in 0 .. M |-> F(w, i)]
<1>1. M \in Nat
  OBVIOUS
<1>2. ASSUME Bad # {} PROVE FALSE
  <2>1. PICK m \in Bad : \A k \in Bad : m <= k
    <3>1. Bad \in SUBSET Nat
      <4> HIDE DEF Rounds
      <4> QED BY <1>1
    <3> HIDE DEF Bad
    <3> QED BY <1>2, <3>1, LeastNat
  <2>2. m \in 0 .. M /\ ~Rounds(m)
    BY <2>1
  <2>3. CASE m = 0
    <3> DEFINE w == [i \in 0 .. 0 |-> <<>>]
    <3>1. w = [i \in 0 .. 0 |-> F(w, i)]
      OBVIOUS
    <3> HIDE DEF w, F
    <3> QED BY <2>2, <2>3, <3>1
  <2>4. CASE m # 0
    <3>1. m - 1 \in 0 .. M /\ m - 1 \notin Bad
      <4> HIDE DEF Bad
      <4> QED BY <1>1, <2>1, <2>2, <2>4
    <3>2. PICK v : v = [i \in 0 .. m - 1 |-> F(v, i)]
      <4> HIDE DEF F
      <4> QED BY <3>1
    <3> DEFINE w == [i \in 0 .. m |-> IF i < m THEN v[i] ELSE F(v, m)]
    <3>3. ASSUME NEW i \in 0 .. m PROVE w[i] = F(w, i)
      <4>1. CASE i < m
        <5>1. i \in 0 .. m - 1 /\ w[i] = v[i] /\ (i # 0 => w[i - 1] = v[i - 1])
          BY <2>2, <4>1
        <5>2. v[i] = F(v, i)
          <6> HIDE DEF F
          <6> QED BY <3>2, <5>1
        <5> QED BY <5>1, <5>2
      <4>2. CASE i = m
        <5>1. w[m] = F(v, m) /\ w[m - 1] = v[m - 1]
          <6> HIDE DEF F
          <6> QED BY <2>2, <2>4
        <5> QED BY <2>4, <4>2, <5>1
      <4> QED BY <2>2, <4>1, <4>2
    <3>4. w = [i \in 0 .. m |-> w[i]]
      OBVIOUS
    <3> HIDE DEF w, F
    <3>5. w = [i \in 0 .. m |-> F(w, i)]
      BY <3>3, <3>4
    <3> QED BY <2>2, <3>5
  <2> QED BY <2>3, <2>4
<1>3. Rounds(M)
  <2>1. Bad = {} /\ M \in 0 .. M
    <3> HIDE DEF Bad
    <3> QED BY <1>1, <1>2
  <2> HIDE DEF Rounds, M
  <2> QED BY <2>1
<1>4. walk = [i \in 0 .. M |-> F(walk, i)]
  <2> HIDE DEF F
  <2> QED BY <1>3
<1>5. Keep(q, S) = walk[M]
  BY DEF Keep
<1> HIDE DEF walk
<1>6. \A i \in 0 .. M : walk[i] = F(walk, i)
  <2> HIDE DEF F
  <2> QED BY <1>4
<1> DEFINE Good(i) == walk[i] \in Seq(X) /\ \E g : Kept(q, S, i, walk[i], g)
           Out == {i \in 0 .. M : ~Good(i)}
<1>7. ASSUME Out # {} PROVE FALSE
  <2>1. PICK m \in Out : \A k \in Out : m <= k
    <3>1. Out \in SUBSET Nat
      <4> HIDE DEF Good
      <4> QED BY <1>1
    <3> HIDE DEF Out
    <3> QED BY <1>7, <3>1, LeastNat
  <2>2. m \in 0 .. M /\ ~Good(m)
    BY <2>1
  <2>3. CASE m = 0
    <3>1. walk[0] = <<>>
      BY <1>1, <1>6
    <3>2. Kept(q, S, 0, <<>>, <<>>)
      BY DEF Kept
    <3> QED BY <2>2, <2>3, <3>1, <3>2
  <2>4. CASE m # 0
    <3>1. m - 1 \in 0 .. M /\ m - 1 \notin Out /\ m - 1 \in Nat /\ m \in 1 .. Len(q)
      <4> HIDE DEF Out
      <4> QED BY <1>1, <2>1, <2>2, <2>4
    <3>2. Good(m - 1)
      <4> HIDE DEF Good
      <4> QED BY <3>1
    <3> DEFINE n == m - 1
               r == walk[n]
    <3>3. m = n + 1 /\ n \in Nat /\ n + 1 \in 1 .. Len(q)
      BY <3>1
    <3>4. walk[m] = IF q[m] \in S THEN Append(r, q[m]) ELSE r
      BY <1>6, <2>2, <2>4
    <3>5. PICK g : r \in Seq(X) /\ Kept(q, S, n, r, g)
      BY <3>2
    <3>6. q[m] \in X
      BY <3>1
    <3> HIDE DEF r, n
    <3>7. \E h : Kept(q, S, n + 1, IF q[n + 1] \in S THEN Append(r, q[n + 1]) ELSE r, h)
      BY <3>3, <3>5, KeptStep
    <3>8. walk[m] \in Seq(X)
      BY <3>4, <3>5, <3>6
    <3> QED BY <2>2, <3>3, <3>4, <3>7, <3>8
  <2> QED BY <2>3, <2>4
<1>8. Good(M)
  <2>1. M \in 0 .. M /\ Out = {}
    <3> HIDE DEF Out
    <3> QED BY <1>1, <1>7
  <2> HIDE DEF Good
  <2> QED BY <2>1
<1> QED BY <1>5, <1>8

\* r is a part of q: the elements in S.
Part(r, q, S) ==
  \E g \in [DOMAIN r -> DOMAIN q] :
    /\ \A i, j \in DOMAIN r : i < j => g[i] < g[j]
    /\ \A i, j \in DOMAIN r : g[i] = g[j] => i = j
    /\ \A k \in DOMAIN q : q[k] \in S => \E i \in DOMAIN r : g[i] = k
    /\ \A i \in DOMAIN r : r[i] = q[g[i]]

\* Its members are those, each from one place of q.
LEMMA KeepRange ==
  ASSUME NEW X, NEW q \in Seq(X), NEW S
  PROVE  /\ Keep(q, S) \in Seq(X)
         /\ Range(Keep(q, S)) = Range(q) \cap S
         /\ Part(Keep(q, S), q, S)
<1> DEFINE r == Keep(q, S)
<1>1. r \in Seq(X) /\ \E g : Kept(q, S, Len(q), r, g)
  BY KeepIs
<1> HIDE DEF r
<1>2. PICK g : Kept(q, S, Len(q), r, g)
  BY <1>1
<1>3. DOMAIN r = 1 .. Len(r) /\ DOMAIN q = 1 .. Len(q) /\ Len(r) \in Nat /\ Len(q) \in Nat
  BY <1>1
<1>4. g \in [DOMAIN r -> DOMAIN q]
  BY <1>2, <1>3 DEF Kept
<1>5. \A i, j \in DOMAIN r : g[i] = g[j] => i = j
  <2> SUFFICES ASSUME NEW i \in DOMAIN r, NEW j \in DOMAIN r, g[i] = g[j], i # j PROVE FALSE
    OBVIOUS
  <2>1. i < j \/ j < i
    BY <1>3
  <2>2. g[i] < g[j] \/ g[j] < g[i]
    BY <1>2, <1>3, <2>1 DEF Kept
  <2>3. g[i] \in Int
    BY <1>3, <1>4
  <2> QED BY <2>2, <2>3
<1>6. \A i \in DOMAIN r : r[i] = q[g[i]] /\ q[g[i]] \in S
  BY <1>2, <1>3 DEF Kept
<1>7. Range(r) = Range(q) \cap S
  <2>1. Range(r) = {r[i] : i \in DOMAIN r} /\ Range(q) = {q[i] : i \in DOMAIN q}
    BY DEF Range
  <2>2. ASSUME NEW x \in Range(r) PROVE x \in Range(q) \cap S
    BY <1>4, <1>6, <2>1
  <2>3. ASSUME NEW x \in Range(q) \cap S PROVE x \in Range(r)
    <3>1. PICK k \in DOMAIN q : x = q[k]
      BY <2>1
    <3>2. PICK i \in DOMAIN r : g[i] = k
      BY <1>2, <1>3, <2>3, <3>1 DEF Kept
    <3> QED BY <1>6, <2>1, <3>1, <3>2
  <2> QED BY <2>2, <2>3
<1>8. \A i, j \in DOMAIN r : i < j => g[i] < g[j]
  BY <1>2, <1>3 DEF Kept
<1>9. \A k \in DOMAIN q : q[k] \in S => \E i \in DOMAIN r : g[i] = k
  BY <1>2, <1>3 DEF Kept
<1>10. Part(r, q, S)
  BY <1>4, <1>5, <1>6, <1>8, <1>9 DEF Part
<1> QED BY <1>1, <1>7, <1>10 DEF r

\* A set that another is mapped onto, one to one, has its size.
LEMMA SameSize ==
  ASSUME NEW S, IsFiniteSet(S), NEW T, NEW f \in [S -> T],
         \A x, y \in S : f[x] = f[y] => x = y, \A z \in T : \E x \in S : f[x] = z
  PROVE  IsFiniteSet(T) /\ Cardinality(T) = Cardinality(S)
<1>1. f \in Injection(S, T) /\ f \in Surjection(S, T)
  BY DEF Injection, Surjection, IsInjective
<1> QED BY <1>1, FS_Surjection

\* The names of a list in which each is there once.
Called(K) == {K[i].name : i \in DOMAIN K}

\* r is what stays of K.
Slice(r, K, gone) ==
  \E g \in [DOMAIN r -> DOMAIN K] :
    /\ \A i, j \in DOMAIN r : i < j => g[i] < g[j]
    /\ \A i \in DOMAIN r : r[i] = K[g[i]] /\ K[g[i]].name \notin gone
    /\ \A k \in DOMAIN K : K[k].name \notin gone => \E i \in DOMAIN r : g[i] = k

\* What stays of such a list, and how many.
LEMMA StayIs ==
  ASSUME NEW X, NEW K \in Seq(X), \A i, j \in DOMAIN K : K[i].name = K[j].name => i = j,
         NEW gone \in SUBSET Called(K)
  PROVE  /\ Stay(K, gone) \in Seq(X)
         /\ IsFiniteSet(gone)
         /\ Len(Stay(K, gone)) = Len(K) - Cardinality(gone)
         /\ Slice(Stay(K, gone), K, gone)
<1> DEFINE S == {e \in Range(K) : e.name \notin gone}
           r == Stay(K, gone)
<1>1. r = Keep(K, S)
  BY DEF Stay
<1>2. \A k \in DOMAIN K : K[k] \in Range(K)
  BY DEF Range
<1> HIDE DEF r
<1>3. r \in Seq(X)
  BY <1>1, KeepRange
<1>4. PICK g \in [DOMAIN r -> DOMAIN K] :
        /\ \A i, j \in DOMAIN r : i < j => g[i] < g[j]
        /\ \A i, j \in DOMAIN r : g[i] = g[j] => i = j
        /\ \A k \in DOMAIN K : K[k] \in S => \E i \in DOMAIN r : g[i] = k
        /\ \A i \in DOMAIN r : r[i] = K[g[i]]
  <2> HIDE DEF S
  <2>1. Part(r, K, S)
    BY <1>1, KeepRange
  <2> QED BY <2>1 DEF Part
<1>5. \A i \in DOMAIN r : r[i] \in S
  <2>1. Range(r) = Range(K) \cap S
    <3> HIDE DEF S
    <3> QED BY <1>1, KeepRange
  <2>2. \A i \in DOMAIN r : r[i] \in Range(r)
    BY DEF Range
  <2> HIDE DEF S
  <2> QED BY <2>1, <2>2
<1>6. \A k \in DOMAIN K : K[k] \in S <=> K[k].name \notin gone
  BY <1>2
<1> HIDE DEF S
<1>7. DOMAIN K = 1 .. Len(K) /\ Len(K) \in Nat /\ DOMAIN r = 1 .. Len(r) /\ Len(r) \in Nat
  BY <1>3
<1>8. IsFiniteSet(DOMAIN K) /\ Cardinality(DOMAIN K) = Len(K)
      /\ IsFiniteSet(DOMAIN r) /\ Cardinality(DOMAIN r) = Len(r)
  <2>1. ASSUME NEW n \in Nat PROVE IsFiniteSet(1 .. n) /\ Cardinality(1 .. n) = n
    BY FS_Interval
  <2> QED BY <1>7, <2>1
<1> DEFINE A == {k \in DOMAIN K : K[k].name \notin gone}
           B == {k \in DOMAIN K : K[k].name \in gone}
<1>9. Cardinality(A) = Len(r)
  <2>1. g \in [DOMAIN r -> A]
    BY <1>4, <1>5, <1>6
  <2>2. \A k \in A : \E i \in DOMAIN r : g[i] = k
    BY <1>4, <1>6
  <2> HIDE DEF A
  <2> QED BY <1>4, <1>8, <2>1, <2>2, SameSize
<1>10. B \in SUBSET DOMAIN K /\ A = DOMAIN K \ B
  OBVIOUS
<1>11. IsFiniteSet(B) /\ Cardinality(A) = Len(K) - Cardinality(B)
  <2> HIDE DEF A, B
  <2>1. IsFiniteSet(B) /\ DOMAIN K \cap B = B
    BY <1>8, <1>10, FS_Subset
  <2> QED BY <1>8, <1>10, <2>1, FS_Difference, ZenonT(40)
<1>12. IsFiniteSet(gone) /\ Cardinality(gone) = Cardinality(B)
  <2> DEFINE h == [k \in B |-> K[k].name]
  <2>1. h \in [B -> gone]
    OBVIOUS
  <2>2. \A x, y \in B : h[x] = h[y] => x = y
    OBVIOUS
  <2>3. \A z \in gone : \E x \in B : h[x] = z
    BY DEF Called
  <2> HIDE DEF h, B
  <2> QED BY <1>11, <2>1, <2>2, <2>3, SameSize
<1>13. \A i \in DOMAIN r : r[i] = K[g[i]] /\ K[g[i]].name \notin gone
  BY <1>4, <1>5, <1>6
<1>14. \A k \in DOMAIN K : K[k].name \notin gone => \E i \in DOMAIN r : g[i] = k
  BY <1>4, <1>6
<1>15. Cardinality(B) \in Nat
  BY <1>11, FS_CardinalityType
<1>16. Len(r) = Len(K) - Cardinality(gone)
  BY <1>7, <1>9, <1>11, <1>12, <1>15
<1>17. Slice(r, K, gone)
  BY <1>4, <1>13, <1>14 DEF Slice
<1> QED BY <1>3, <1>12, <1>16, <1>17 DEF r

-----------------------------------------------------------------------------
(* The invariant                                                           *)

\* The end of a connection that is not linked yet, and one that has sent its
\* SERVER line.
Pre == {"connecting", "backlog", "unknown", "handshake"}
Said == {"handshake", "server"}

IsWorld(w) == w = [end |-> w.end, wire |-> w.wire, known |-> w.known, count |-> w.count]
IsClient(e) ==
  e = [st |-> e.st, pass |-> e.pass, ts |-> e.ts, caps |-> e.caps, first |-> e.first]
IsEnd(e) ==
  /\ IsClient(e)
  /\ e.st \in States /\ e.first \in 0..MaxConn

\* A connection has two ends or none.
EndsOK(w) ==
  /\ w.end = [c \in Conn |-> [s \in Server |-> w.end[c][s]]]
  /\ \A c \in Conn, s \in Server : IsEnd(w.end[c][s])
  /\ \A c \in Conn, s \in Server :
       w.end[c][s].st # "none" => \E t \in Server : t # s /\ w.end[c][t].st # "none"
  /\ \A c \in Conn, s, t, r \in Server :
       w.end[c][s].st # "none" /\ w.end[c][t].st # "none" /\ w.end[c][r].st # "none"
         => s = t \/ s = r \/ t = r

\* The lines servers send.
LineOK(m) ==
  \/ m.cmd \in {"SERVER", "SQUIT"} /\ m.name \in Server /\ m.by \in Server \cup {None}
       /\ (m.cmd = "SERVER" => m.hop \in Nat)
  \/ m.cmd \in {"PASS", "CAPAB", "SVINFO", "EOF"}
Chatter(q) == \E X : q \in Seq(X) /\ \A m \in X : LineOK(m)

\* The first that t says of a server is its own name, before it hangs up.
Opening(q, t) ==
  \A k \in DOMAIN q : q[k].cmd = "SERVER" =>
    q[k].name = t \/ \E j \in 1..(k - 1) : q[j].cmd \in {"SERVER", "EOF"}
Greeted(q) == \E j \in DOMAIN q : q[j].cmd \in {"SERVER", "EOF"}

\* What the ends of a connection that are not linked yet will read, but for the
\* one that is reading it.
WiresOK(w, X) ==
  /\ w.wire = [c \in Conn |-> [s \in Server |-> w.wire[c][s]]]
  /\ \A c \in Conn, s \in Server : Chatter(w.wire[c][s])
  /\ \A c \in Conn, s \in Server : w.end[c][s].st = "none" => w.wire[c][s] = <<>>
  /\ \A c \in Conn, s, t \in Server :
       <<c, s>> \notin X /\ s # t /\ w.end[c][s].st \in Pre /\ w.end[c][t].st # "none"
         => /\ Opening(w.wire[c][s], t)
            /\ w.end[c][t].st \in Said => Greeted(w.wire[c][s])

\* A list K of s that knows the servers behind the links L.
Tree(K, s, L) ==
  /\ K \in Seq(Known(s))
  /\ Rooted(K, s)
  /\ L = {K[i].via : i \in DOMAIN K}
  /\ \A c \in L : \E i \in DOMAIN K : K[i].via = c /\ K[i].up = s

ListOK(w, s) ==
  /\ Tree(w.known[s], s, Linked(w, s))
  /\ \A i \in DOMAIN w.known[s] :
       w.known[s][i].up = s => w.known[s][i].name = Peer(w, w.known[s][i].via, s)
  /\ w.count[s] = [server |-> Len(w.known[s]) + 1, myserver |-> Cardinality(Linked(w, s))]

Net(w, X) == EndsOK(w) /\ WiresOK(w, X)
ListsOK(w) ==
  /\ w.known = [s \in Server |-> w.known[s]]
  /\ w.count = [s \in Server |-> w.count[s]]
  /\ \A s \in Server : ListOK(w, s)
Good(w, X) == IsWorld(w) /\ Net(w, X) /\ ListsOK(w)

Inv ==
  /\ scene \in Scenes
  /\ left.dials \in [Server \X Server -> Int]
  /\ \A s \in Server : left.dials[<<s, s>>] = 0
  /\ auto \in [Server -> BOOLEAN]
  /\ Good(World, {})

-----------------------------------------------------------------------------
(* The tree that a list stands for                                         *)

\* A step of the walk of Dependents.
LEMMA DependentsWalk ==
  ASSUME NEW X, NEW K \in Seq(X), NEW name
  PROVE  \E walk : /\ walk[0] = {name}
                   /\ \A i \in 1 .. Len(K) :
                        walk[i] = IF K[i].up \in walk[i - 1] THEN walk[i - 1] \cup {K[i].name}
                                  ELSE walk[i - 1]
                   /\ Dependents(K, name) = walk[Len(K)]
<1> DEFINE M == Len(K)
           F(w, i) == IF i = 0 THEN {name}
                      ELSE IF K[i].up \in w[i - 1] THEN w[i - 1] \cup {K[i].name} ELSE w[i - 1]
           Rounds(N) == \E w : w = [i \in 0 .. N |-> F(w, i)]
           Bad == {N \in 0 .. M : ~Rounds(N)}
           walk == CHOOSE w : w = [i \in 0 .. M |-> F(w, i)]
<1>1. M \in Nat
  OBVIOUS
<1>2. ASSUME Bad # {} PROVE FALSE
  <2>1. PICK m \in Bad : \A k \in Bad : m <= k
    <3>1. Bad \in SUBSET Nat
      <4> HIDE DEF Rounds
      <4> QED BY <1>1
    <3> HIDE DEF Bad
    <3> QED BY <1>2, <3>1, LeastNat
  <2>2. m \in 0 .. M /\ ~Rounds(m)
    BY <2>1
  <2>3. CASE m = 0
    <3> DEFINE w == [i \in 0 .. 0 |-> {name}]
    <3>1. w = [i \in 0 .. 0 |-> F(w, i)]
      OBVIOUS
    <3> HIDE DEF w, F
    <3> QED BY <2>2, <2>3, <3>1
  <2>4. CASE m # 0
    <3>1. m - 1 \in 0 .. M /\ m - 1 \notin Bad
      <4> HIDE DEF Bad
      <4> QED BY <1>1, <2>1, <2>2, <2>4
    <3>2. PICK v : v = [i \in 0 .. m - 1 |-> F(v, i)]
      <4> HIDE DEF F
      <4> QED BY <3>1
    <3> DEFINE w == [i \in 0 .. m |-> IF i < m THEN v[i] ELSE F(v, m)]
    <3>3. ASSUME NEW i \in 0 .. m PROVE w[i] = F(w, i)
      <4>1. CASE i < m
        <5>1. i \in 0 .. m - 1 /\ w[i] = v[i] /\ (i # 0 => w[i - 1] = v[i - 1])
          BY <2>2, <4>1
        <5>2. v[i] = F(v, i)
          <6> HIDE DEF F
          <6> QED BY <3>2, <5>1
        <5> QED BY <5>1, <5>2
      <4>2. CASE i = m
        <5>1. w[m] = F(v, m) /\ w[m - 1] = v[m - 1]
          <6> HIDE DEF F
          <6> QED BY <2>2, <2>4
        <5> QED BY <2>4, <4>2, <5>1
      <4> QED BY <2>2, <4>1, <4>2
    <3>4. w = [i \in 0 .. m |-> w[i]]
      OBVIOUS
    <3> HIDE DEF w, F
    <3>5. w = [i \in 0 .. m |-> F(w, i)]
      BY <3>3, <3>4
    <3> QED BY <2>2, <3>5
  <2> QED BY <2>3, <2>4
<1>3. Rounds(M)
  <2>1. Bad = {} /\ M \in 0 .. M
    <3> HIDE DEF Bad
    <3> QED BY <1>1, <1>2
  <2> HIDE DEF Rounds, M
  <2> QED BY <2>1
<1>4. walk = [i \in 0 .. M |-> F(walk, i)]
  <2> HIDE DEF F
  <2> QED BY <1>3
<1>5. Dependents(K, name) = walk[M]
  BY DEF Dependents
<1> HIDE DEF walk
<1>6. \A i \in 0 .. M : walk[i] = F(walk, i)
  <2> HIDE DEF F
  <2> QED BY <1>4
<1>7. walk[0] = {name}
  <2>1. walk[0] = F(walk, 0)
    <3> HIDE DEF F, M
    <3> QED BY <1>1, <1>6
  <2>2. F(walk, 0) = {name}
    OBVIOUS
  <2> QED BY <2>1, <2>2
<1>8. ASSUME NEW i \in 1 .. M
      PROVE  walk[i] = IF K[i].up \in walk[i - 1] THEN walk[i - 1] \cup {K[i].name}
                       ELSE walk[i - 1]
  <2>1. i \in 0 .. M /\ i # 0
    <3> HIDE DEF M
    <3> QED BY <1>1
  <2>2. walk[i] = F(walk, i)
    <3> HIDE DEF F, M
    <3> QED BY <1>6, <2>1
  <2>3. F(walk, i) = IF K[i].up \in walk[i - 1] THEN walk[i - 1] \cup {K[i].name}
                     ELSE walk[i - 1]
    BY <2>1
  <2> QED BY <2>2, <2>3
<1> QED BY <1>5, <1>7, <1>8

\* D is the server x of the list K of s and all behind it.
Behind(K, s, x, D) ==
  /\ x \in D /\ D \in SUBSET Called(K)
  /\ \A k \in DOMAIN K : K[k].up \in D => K[k].name \in D
  /\ \A k \in DOMAIN K : K[k].name \in D => K[k].name = x \/ K[k].up \in D
  /\ \A k, n \in DOMAIN K : K[k].name \in D /\ K[n].name = x => K[k].via = K[n].via

\* Dependents finds a server with all that hang on it, and nothing of other links.
LEMMA DependentsOK ==
  ASSUME NEW s \in Server, NEW K \in Seq(Known(s)), Rooted(K, s), NEW x \in Called(K)
  PROVE  Behind(K, s, x, Dependents(K, x))
<1> DEFINE M == Len(K)
<1>1. M \in Nat /\ DOMAIN K = 1 .. M /\ \A k \in 1 .. M : K[k] \in Known(s)
  OBVIOUS
<1>2. PICK walk : /\ walk[0] = {x}
                  /\ \A i \in 1 .. M :
                        walk[i] = IF K[i].up \in walk[i - 1] THEN walk[i - 1] \cup {K[i].name}
                                  ELSE walk[i - 1]
                  /\ Dependents(K, x) = walk[M]
  BY DependentsWalk
<1>3. \A k \in 1 .. M : K[k].name # s
  <2> SUFFICES ASSUME NEW k \in 1 .. M PROVE K[k].name # s
    OBVIOUS
  <2>1. K[k] \in Known(s)
    BY <1>1
  <2>2. ASSUME NEW e \in Known(s) PROVE e.name # s
    BY DEF Known
  <2> QED BY <2>1, <2>2
<1>4. s \notin Called(K)
  BY <1>1, <1>3 DEF Called
<1>5. \A i, j \in 1 .. M : K[i].name = K[j].name => i = j
  BY <1>1 DEF Rooted
<1>6. \A i \in 1 .. M : \/ K[i].up = s
                        \/ \E j \in 1..(i - 1) : K[j].name = K[i].up /\ K[j].via = K[i].via
  BY <1>1 DEF Rooted
<1>7. \A k \in 1 .. M : K[k].name \in Called(K)
  BY <1>1 DEF Called
<1> DEFINE P(i) == /\ x \in walk[i] /\ walk[i] \in SUBSET Called(K)
                   /\ \A k \in 1 .. i : K[k].up \in walk[i] => K[k].name \in walk[i]
                   /\ \A k \in 1 .. M : K[k].name \in walk[i] =>
                        K[k].name = x \/ K[k].up \in walk[i]
                   /\ \A k, n \in 1 .. M : K[k].name \in walk[i] /\ K[n].name = x =>
                        K[k].via = K[n].via
           Out == {i \in 0 .. M : ~P(i)}
<1>8. P(0)
  BY <1>2, <1>5
<1>9. ASSUME NEW i \in 1 .. M, P(i - 1) PROVE P(i)
  <2> DEFINE A == walk[i - 1]
             B == walk[i]
  <2>0. i \in Nat /\ i # 0 /\ \A k \in 1 .. i : k \in 1 .. M /\ (k = i \/ k \in 1 .. i - 1)
    BY <1>1
  <2>1. B = IF K[i].up \in A THEN A \cup {K[i].name} ELSE A
    BY <1>2
  <2>2. /\ x \in A /\ A \in SUBSET Called(K)
        /\ \A k \in 1 .. i - 1 : K[k].up \in A => K[k].name \in A
        /\ \A k \in 1 .. M : K[k].name \in A => K[k].name = x \/ K[k].up \in A
        /\ \A k, n \in 1 .. M : K[k].name \in A /\ K[n].name = x => K[k].via = K[n].via
    BY <1>9
  <2> HIDE DEF A, B
  <2>3. CASE K[i].up \notin A
    <3>1. B = A
      BY <2>1, <2>3
    <3>2. \A k \in 1 .. i : K[k].up \in B => K[k].name \in B
      BY <2>0, <2>2, <2>3, <3>1
    <3> QED BY <2>2, <3>1, <3>2 DEF B
  <2>4. CASE K[i].up \in A
    <3>1. B = A \cup {K[i].name}
      BY <2>1, <2>4
    <3>2. PICK j \in 1 .. i - 1 : K[j].name = K[i].up /\ K[j].via = K[i].via
      BY <1>4, <1>6, <2>2, <2>4
    <3>3. j \in 1 .. M
      BY <2>0, <3>2
    <3>4. ASSUME NEW k \in 1 .. i, K[k].up = K[i].name PROVE FALSE
      <4>1. k \in 1 .. M /\ K[k].up # s
        BY <1>3, <2>0, <3>4
      <4>2. PICK l \in 1 .. k - 1 : K[l].name = K[i].name
        BY <1>6, <3>4, <4>1
      <4>3. l \in 1 .. M /\ l # i
        BY <2>0, <4>2
      <4> QED BY <1>5, <4>2, <4>3
    <3>5. \A k \in 1 .. i : K[k].up \in B => K[k].name \in B
      BY <2>0, <2>2, <3>1, <3>4
    <3>6. x \in B /\ B \in SUBSET Called(K)
      BY <1>7, <2>2, <3>1
    <3>7. \A k \in 1 .. M : K[k].name \in B => K[k].name = x \/ K[k].up \in B
      BY <1>5, <2>2, <2>4, <3>1
    <3>8. \A k, n \in 1 .. M : K[k].name \in B /\ K[n].name = x => K[k].via = K[n].via
      <4> SUFFICES ASSUME NEW k \in 1 .. M, NEW n \in 1 .. M, K[k].name \in B, K[n].name = x
                   PROVE  K[k].via = K[n].via
        OBVIOUS
      <4>1. CASE K[k].name \in A
        BY <2>2, <4>1
      <4>2. CASE K[k].name = K[i].name
        <5>1. k = i
          BY <1>5, <4>2
        <5>2. K[j].via = K[n].via
          BY <2>2, <2>4, <3>2, <3>3
        <5> QED BY <3>2, <5>1, <5>2
      <4> QED BY <3>1, <4>1, <4>2
    <3> QED BY <3>5, <3>6, <3>7, <3>8 DEF B
  <2> QED BY <2>3, <2>4
<1> HIDE DEF P
<1>10. ASSUME Out # {} PROVE FALSE
  <2>1. PICK m \in Out : \A k \in Out : m <= k
    <3>1. Out \in SUBSET Nat
      BY <1>1
    <3> HIDE DEF Out
    <3> QED BY <1>10, <3>1, LeastNat
  <2>2. m \in 0 .. M /\ ~P(m) /\ m # 0
    BY <1>8, <2>1
  <2>3. m \in 1 .. M /\ m - 1 \in 0 .. M /\ m - 1 \notin Out
    <3> HIDE DEF Out
    <3> QED BY <1>1, <2>1, <2>2
  <2> QED BY <1>9, <2>2, <2>3
<1>11. P(M)
  BY <1>1, <1>10
<1> QED BY <1>1, <1>2, <1>11 DEF P, Behind

\* What stays when the servers of D go with all behind them: the same tree
\* without them.
Remainder(r, K, s, D) ==
  /\ r \in Seq(Known(s)) /\ Rooted(r, s)
  /\ IsFiniteSet(D) /\ Len(r) = Len(K) - Cardinality(D)
  /\ \A i \in DOMAIN r : \E k \in DOMAIN K : r[i] = K[k] /\ K[k].name \notin D
  /\ \A k \in DOMAIN K : K[k].name \notin D => \E i \in DOMAIN r : r[i] = K[k]

\* A list stays rooted when a server goes with all that hang on it.
LEMMA StayRooted ==
  ASSUME NEW s \in Server, NEW K \in Seq(Known(s)), Rooted(K, s), NEW x \in Called(K),
         NEW D, Behind(K, s, x, D)
  PROVE  Remainder(Stay(K, D), K, s, D)
<1> DEFINE r == Stay(K, D)
<1>1. \A i, j \in DOMAIN K : K[i].name = K[j].name => i = j
  BY DEF Rooted
<1>2. D \in SUBSET Called(K)
  BY DEF Behind
<1>3. /\ r \in Seq(Known(s)) /\ IsFiniteSet(D) /\ Len(r) = Len(K) - Cardinality(D)
      /\ Slice(r, K, D)
  BY <1>1, <1>2, StayIs
<1> HIDE DEF r
<1>4. PICK g \in [DOMAIN r -> DOMAIN K] :
               /\ \A i, j \in DOMAIN r : i < j => g[i] < g[j]
               /\ \A i \in DOMAIN r : r[i] = K[g[i]] /\ K[g[i]].name \notin D
               /\ \A k \in DOMAIN K : K[k].name \notin D => \E i \in DOMAIN r : g[i] = k
  BY <1>3 DEF Slice
<1>5. /\ DOMAIN r = 1 .. Len(r) /\ Len(r) \in Nat
      /\ DOMAIN K = 1 .. Len(K) /\ Len(K) \in Nat
  BY <1>3
<1>6. \A i, j \in DOMAIN r : g[i] < g[j] => i < j
  <2> SUFFICES ASSUME NEW i \in DOMAIN r, NEW j \in DOMAIN r, g[i] < g[j], ~(i < j) PROVE FALSE
    OBVIOUS
  <2>1. i = j \/ j < i
    BY <1>5
  <2>2. g[i] \in Int /\ g[j] \in Int
    BY <1>4, <1>5
  <2> QED BY <1>4, <2>1, <2>2
<1>7. \A i, j \in DOMAIN r : r[i].name = r[j].name => i = j
  <2> SUFFICES ASSUME NEW i \in DOMAIN r, NEW j \in DOMAIN r, r[i].name = r[j].name, i # j
               PROVE  FALSE
    OBVIOUS
  <2>1. g[i] = g[j] /\ g[i] \in Int
    BY <1>1, <1>4, <1>5
  <2>2. i < j \/ j < i
    BY <1>5
  <2> QED BY <1>4, <2>1, <2>2
<1>8. ASSUME NEW i \in DOMAIN r, r[i].up # s
      PROVE  \E j \in 1..(i - 1) : r[j].name = r[i].up /\ r[j].via = r[i].via
  <2> DEFINE k == g[i]
  <2>1. k \in DOMAIN K /\ r[i] = K[k] /\ K[k].name \notin D
    BY <1>4
  <2> HIDE DEF k
  <2>2. PICK l \in 1 .. k - 1 : K[l].name = K[k].up /\ K[l].via = K[k].via
    BY <1>8, <2>1 DEF Rooted
  <2>3. l \in DOMAIN K /\ l < k
    BY <1>5, <2>1, <2>2
  <2>4. K[l].name \notin D
    BY <2>1, <2>2 DEF Behind
  <2>5. PICK j \in DOMAIN r : g[j] = l
    BY <1>4, <2>3, <2>4
  <2>6. j < i
    BY <1>6, <2>3, <2>5 DEF k
  <2>7. j \in 1 .. i - 1
    BY <1>5, <2>5, <2>6
  <2>8. r[j] = K[l]
    BY <1>4, <2>5
  <2> QED BY <2>1, <2>2, <2>7, <2>8
<1>9. Rooted(r, s)
  BY <1>7, <1>8 DEF Rooted
<1>10. \A i \in DOMAIN r : \E k \in DOMAIN K : r[i] = K[k] /\ K[k].name \notin D
  BY <1>4
<1>11. \A k \in DOMAIN K : K[k].name \notin D => \E i \in DOMAIN r : r[i] = K[k]
  BY <1>4
<1>12. Remainder(r, K, s, D)
  BY <1>3, <1>9, <1>10, <1>11 DEF Remainder
<1> QED BY <1>12 DEF r

\* The fields of an entry.
LEMMA KnownTypes ==
  ASSUME NEW s, NEW K \in Seq(Known(s)), NEW k \in DOMAIN K
  PROVE  /\ K[k].name \in Server /\ K[k].name # s /\ K[k].up \in Server
         /\ K[k].via \in Conn /\ K[k].hop \in Nat
<1>1. K[k] \in Known(s)
  OBVIOUS
<1>2. ASSUME NEW e \in Known(s)
      PROVE  e.name \in Server /\ e.name # s /\ e.up \in Server /\ e.via \in Conn /\ e.hop \in Nat
  BY DEF Known
<1> QED BY <1>1, <1>2

\* A server goes that is not linked to s: the links stay.
FarGone(r, K, s, L, D) ==
  /\ Tree(r, s, L) /\ IsFiniteSet(D) /\ Len(r) = Len(K) - Cardinality(D)
  /\ \A i \in DOMAIN r : \E k \in DOMAIN K : r[i] = K[k] /\ K[k].name \notin D

\* When a server goes that is not linked to s, the links of the list stay.
LEMMA PruneFar ==
  ASSUME NEW s \in Server, NEW K, NEW L, Tree(K, s, L), NEW n \in DOMAIN K, K[n].up # s
  PROVE  FarGone(Stay(K, Dependents(K, K[n].name)), K, s, L, Dependents(K, K[n].name))
<1> DEFINE x == K[n].name
           D == Dependents(K, x)
           r == Stay(K, D)
<1>1. K \in Seq(Known(s)) /\ Rooted(K, s)
  BY DEF Tree
<1>2. x \in Called(K)
  BY DEF Called
<1> HIDE DEF x
<1>3. Behind(K, s, x, D)
  BY <1>1, <1>2, DependentsOK
<1> HIDE DEF D
<1>4. /\ r \in Seq(Known(s)) /\ Rooted(r, s)
      /\ IsFiniteSet(D) /\ Len(r) = Len(K) - Cardinality(D)
      /\ \A i \in DOMAIN r : \E k \in DOMAIN K : r[i] = K[k] /\ K[k].name \notin D
      /\ \A k \in DOMAIN K : K[k].name \notin D => \E i \in DOMAIN r : r[i] = K[k]
  <2>1. Remainder(r, K, s, D)
    BY <1>1, <1>2, <1>3, StayRooted
  <2> QED BY <2>1 DEF Remainder
<1> HIDE DEF r
<1>5. ASSUME NEW k \in DOMAIN K, K[k].up = s PROVE K[k].name \notin D
  <2>1. \A i \in DOMAIN K : K[i].name # s
    BY <1>1, KnownTypes
  <2>2. s \notin D
    BY <1>3, <2>1 DEF Behind, Called
  <2>3. K[k].name # x
    BY <1>1, <1>5 DEF x, Rooted
  <2> QED BY <1>3, <1>5, <2>2, <2>3 DEF Behind
<1>6. ASSUME NEW c \in L PROVE \E i \in DOMAIN r : r[i].via = c /\ r[i].up = s
  <2>1. PICK k \in DOMAIN K : K[k].via = c /\ K[k].up = s
    BY DEF Tree
  <2> QED BY <1>4, <1>5, <2>1
<1>7. L = {r[i].via : i \in DOMAIN r}
  <2>1. L = {K[i].via : i \in DOMAIN K}
    BY DEF Tree
  <2>2. \A i \in DOMAIN r : r[i].via \in L
    BY <1>4, <2>1
  <2>3. \A c \in L : \E i \in DOMAIN r : r[i].via = c
    BY <1>6
  <2> QED BY <2>2, <2>3
<1>8. Tree(r, s, L)
  BY <1>4, <1>6, <1>7 DEF Tree
<1>9. FarGone(r, K, s, L, D)
  BY <1>4, <1>8 DEF FarGone
<1> QED BY <1>9 DEF r, D, x

\* A link goes with all behind it: the servers behind the other links stay.
LinkGone(r, K, s, L, D, c) ==
  /\ Tree(r, s, L \ {c}) /\ IsFiniteSet(D) /\ Len(r) = Len(K) - Cardinality(D)
  /\ \A i \in DOMAIN r : \E k \in DOMAIN K : r[i] = K[k] /\ K[k].via # c
  /\ \A k \in DOMAIN K : K[k].via # c => \E i \in DOMAIN r : r[i] = K[k]

\* When a server goes that is linked to s by c, the list loses that link.
LEMMA PruneLink ==
  ASSUME NEW s \in Server, NEW K, NEW L, Tree(K, s, L), NEW n \in DOMAIN K, K[n].up = s,
         \A k \in DOMAIN K : K[k].up = s /\ K[k].via = K[n].via => K[k].name = K[n].name
  PROVE  LinkGone(Stay(K, Dependents(K, K[n].name)), K, s, L, Dependents(K, K[n].name), K[n].via)
<1> DEFINE x == K[n].name
           c == K[n].via
           D == Dependents(K, x)
           r == Stay(K, D)
<1>1. K \in Seq(Known(s)) /\ Rooted(K, s) /\ DOMAIN K = 1 .. Len(K) /\ Len(K) \in Nat
  BY DEF Tree
<1>2. x \in Called(K)
  BY DEF Called
<1>3. \A k \in DOMAIN K : K[k].up = s /\ K[k].via = c => K[k].name = x
  OBVIOUS
<1>0. K[n].name = x /\ K[n].via = c
  OBVIOUS
<1> HIDE DEF x, c
<1>4. Behind(K, s, x, D)
  BY <1>1, <1>2, DependentsOK
<1> HIDE DEF D
<1>5. /\ r \in Seq(Known(s)) /\ Rooted(r, s)
      /\ IsFiniteSet(D) /\ Len(r) = Len(K) - Cardinality(D)
      /\ \A i \in DOMAIN r : \E k \in DOMAIN K : r[i] = K[k] /\ K[k].name \notin D
      /\ \A k \in DOMAIN K : K[k].name \notin D => \E i \in DOMAIN r : r[i] = K[k]
  <2>1. Remainder(r, K, s, D)
    BY <1>1, <1>2, <1>4, StayRooted
  <2> QED BY <2>1 DEF Remainder
<1> HIDE DEF r
<1>6. \A k \in DOMAIN K : K[k].name \in D => K[k].via = c
  BY <1>0, <1>4 DEF Behind
<1> DEFINE Out == {k \in DOMAIN K : K[k].via = c /\ K[k].name \notin D}
<1>7. ASSUME Out # {} PROVE FALSE
  <2>1. PICK m \in Out : \A k \in Out : m <= k
    <3>1. Out \in SUBSET Nat
      BY <1>1
    <3> HIDE DEF Out
    <3> QED BY <1>7, <3>1, LeastNat
  <2>2. m \in DOMAIN K /\ K[m].via = c /\ K[m].name \notin D
    BY <2>1
  <2>3. K[m].up # s
    BY <1>3, <1>4, <2>2 DEF Behind
  <2>4. PICK j \in 1 .. m - 1 : K[j].name = K[m].up /\ K[j].via = K[m].via
    BY <1>1, <2>2, <2>3 DEF Rooted
  <2>5. j \in DOMAIN K /\ j < m /\ m \in Nat /\ j \in Nat
    BY <1>1, <2>2, <2>4
  <2>6. j \notin Out
    <3> HIDE DEF Out
    <3> QED BY <2>1, <2>5
  <2>7. K[m].up \in D
    BY <2>2, <2>4, <2>5, <2>6
  <2> QED BY <1>4, <2>2, <2>7 DEF Behind
<1>8. \A k \in DOMAIN K : K[k].name \in D <=> K[k].via = c
  BY <1>6, <1>7
<1>9. /\ \A i \in DOMAIN r : \E k \in DOMAIN K : r[i] = K[k] /\ K[k].via # c
      /\ \A k \in DOMAIN K : K[k].via # c => \E i \in DOMAIN r : r[i] = K[k]
  <2>1. ASSUME NEW i \in DOMAIN r PROVE \E k \in DOMAIN K : r[i] = K[k] /\ K[k].via # c
    <3>1. PICK k \in DOMAIN K : r[i] = K[k] /\ K[k].name \notin D
      BY <1>5
    <3> QED BY <1>8, <3>1
  <2>2. ASSUME NEW k \in DOMAIN K, K[k].via # c PROVE \E i \in DOMAIN r : r[i] = K[k]
    BY <1>5, <1>8, <2>2
  <2> QED BY <2>1, <2>2
<1>10. L = {K[i].via : i \in DOMAIN K}
  BY DEF Tree
<1>11. ASSUME NEW d \in L \ {c} PROVE \E i \in DOMAIN r : r[i].via = d /\ r[i].up = s
  <2>1. PICK k \in DOMAIN K : K[k].via = d /\ K[k].up = s
    BY DEF Tree
  <2> QED BY <1>9, <2>1
<1>12. L \ {c} = {r[i].via : i \in DOMAIN r}
  BY <1>9, <1>10, <1>11
<1>13. Tree(r, s, L \ {c})
  BY <1>5, <1>11, <1>12 DEF Tree
<1>14. LinkGone(r, K, s, L, D, c)
  BY <1>5, <1>9, <1>13 DEF LinkGone
<1> QED BY <1>14 DEF r, D, x, c

\* A server is added behind a link, or as a link.
LEMMA TreeAdd ==
  ASSUME NEW s \in Server, NEW K, NEW L, Tree(K, s, L), NEW e \in Known(s),
         \A k \in DOMAIN K : K[k].name # e.name,
         e.up = s \/ \E k \in DOMAIN K : K[k].name = e.up /\ K[k].via = e.via
  PROVE  /\ Tree(Append(K, e), s, L \cup {e.via})
         /\ Len(Append(K, e)) = Len(K) + 1
         /\ \A i \in DOMAIN Append(K, e) :
              (i \in DOMAIN K /\ Append(K, e)[i] = K[i]) \/ Append(K, e)[i] = e
<1> DEFINE r == Append(K, e)
           N == Len(K)
<1>1. K \in Seq(Known(s)) /\ Rooted(K, s) /\ DOMAIN K = 1 .. N /\ N \in Nat
  BY DEF Tree
<1>2. /\ r \in Seq(Known(s)) /\ Len(r) = N + 1 /\ DOMAIN r = 1 .. N + 1
      /\ r[N + 1] = e /\ \A i \in 1 .. N : r[i] = K[i]
  BY <1>1
<1> HIDE DEF r, N
<1>3. \A i \in DOMAIN r : (i \in DOMAIN K /\ r[i] = K[i]) \/ (i = N + 1 /\ r[i] = e)
  <2>1. \A i \in 1 .. N + 1 : i \in 1 .. N \/ i = N + 1
    BY <1>1
  <2> QED BY <1>1, <1>2, <2>1
<1>4. \A i \in DOMAIN K : i \in DOMAIN r /\ r[i] = K[i] /\ i < N + 1
  BY <1>1, <1>2
<1>5. N + 1 \in DOMAIN r
  BY <1>1, <1>2
<1>6. \A i, j \in DOMAIN r : r[i].name = r[j].name => i = j
  BY <1>1, <1>3 DEF Rooted
<1>7. ASSUME NEW i \in DOMAIN r, r[i].up # s
      PROVE  \E j \in 1..(i - 1) : r[j].name = r[i].up /\ r[j].via = r[i].via
  <2>1. CASE i \in DOMAIN K /\ r[i] = K[i]
    <3>1. PICK j \in 1 .. i - 1 : K[j].name = K[i].up /\ K[j].via = K[i].via
      BY <1>1, <1>7, <2>1 DEF Rooted
    <3>2. j \in DOMAIN K
      BY <1>1, <2>1, <3>1
    <3> QED BY <1>4, <2>1, <3>1, <3>2
  <2>2. CASE i = N + 1 /\ r[i] = e
    <3>1. PICK k \in DOMAIN K : K[k].name = e.up /\ K[k].via = e.via
      BY <1>7, <2>2
    <3>2. k \in 1 .. i - 1
      BY <1>1, <2>2, <3>1
    <3> QED BY <1>4, <2>2, <3>1, <3>2
  <2> QED BY <1>3, <2>1, <2>2
<1>8. Rooted(r, s)
  BY <1>6, <1>7 DEF Rooted
<1>9. L \cup {e.via} = {r[i].via : i \in DOMAIN r}
  <2>1. L = {K[i].via : i \in DOMAIN K}
    BY DEF Tree
  <2> QED BY <1>2, <1>3, <1>4, <1>5, <2>1
<1>10. ASSUME NEW c \in L \cup {e.via} PROVE \E i \in DOMAIN r : r[i].via = c /\ r[i].up = s
  <2>1. ASSUME c \in L PROVE \E i \in DOMAIN r : r[i].via = c /\ r[i].up = s
    <3>1. PICK k \in DOMAIN K : K[k].via = c /\ K[k].up = s
      BY <2>1 DEF Tree
    <3> QED BY <1>4, <3>1
  <2>2. CASE c = e.via /\ e.up = s
    BY <1>2, <1>5, <2>2
  <2>3. CASE c = e.via /\ e.up # s
    <3>1. c \in L
      BY <2>3 DEF Tree
    <3> QED BY <2>1, <3>1
  <2> QED BY <2>1, <2>2, <2>3
<1>11. Tree(r, s, L \cup {e.via})
  BY <1>2, <1>8, <1>9, <1>10 DEF Tree
<1> QED BY <1>2, <1>3, <1>11 DEF r, N

-----------------------------------------------------------------------------
(* The ends of connections and what is on its way to them                  *)

IsMatrix(A) == A = [c \in Conn |-> [s \in Server |-> A[c][s]]]
Put(A, c, s, x) == [A EXCEPT ![c][s] = x]

\* A matrix after one of its cells is replaced.
LEMMA PutIs ==
  ASSUME NEW A, IsMatrix(A), NEW c \in Conn, NEW s \in Server, NEW x
  PROVE  /\ IsMatrix(Put(A, c, s, x))
         /\ Put(A, c, s, x)[c][s] = x
         /\ \A d \in Conn, r \in Server : d # c \/ r # s => Put(A, c, s, x)[d][r] = A[d][r]
<1> DEFINE B == Put(A, c, s, x)
           R(d) == A[d]
<1>1. DOMAIN A = Conn /\ \A d \in Conn : A[d] = [r \in Server |-> A[d][r]]
  BY DEF IsMatrix
<1>2. \A d \in Conn : DOMAIN A[d] = Server
  BY <1>1
<1>3. B = [A EXCEPT ![c] = [A[c] EXCEPT ![s] = x]]
  BY DEF Put
<1> DEFINE row == [A[c] EXCEPT ![s] = x]
<1>4. /\ DOMAIN row = Server /\ row[s] = x /\ row = [r \in Server |-> row[r]]
      /\ \A r \in Server : r # s => row[r] = A[c][r]
  BY <1>1, <1>2
<1> HIDE DEF row
<1>5. /\ DOMAIN B = Conn /\ B[c] = row /\ B = [d \in Conn |-> B[d]]
      /\ \A d \in Conn : d # c => B[d] = A[d]
  BY <1>1, <1>3 DEF row
<1> HIDE DEF B
<1>6. \A d \in Conn : B[d] = [r \in Server |-> B[d][r]]
  BY <1>1, <1>4, <1>5
<1>7. IsMatrix(B)
  BY <1>5, <1>6 DEF IsMatrix
<1>8. B[c][s] = x /\ \A d \in Conn, r \in Server : d # c \/ r # s => B[d][r] = A[d][r]
  BY <1>4, <1>5
<1> QED BY <1>7, <1>8 DEF B

\* Lines on their way form a sequence.
LEMMA ChatterIs ==
  ASSUME NEW q, Chatter(q)
  PROVE  /\ Len(q) \in Nat /\ DOMAIN q = 1 .. Len(q)
         /\ \A k \in DOMAIN q : LineOK(q[k])
<1>1. PICK X : q \in Seq(X) /\ \A m \in X : LineOK(m)
  BY DEF Chatter
<1> QED BY <1>1

\* The lines after the first n.
LEMMA ChatterSub ==
  ASSUME NEW q, Chatter(q), NEW n \in Nat, n <= Len(q)
  PROVE  /\ Chatter(SubSeq(q, n + 1, Len(q)))
         /\ Len(SubSeq(q, n + 1, Len(q))) = Len(q) - n
         /\ \A k \in 1 .. Len(q) - n : SubSeq(q, n + 1, Len(q))[k] = q[k + n]
<1>1. PICK X : q \in Seq(X) /\ \A m \in X : LineOK(m)
  BY DEF Chatter
<1>2. Len(q) \in Nat /\ DOMAIN q = 1 .. Len(q)
  BY <1>1
<1> DEFINE r == SubSeq(q, n + 1, Len(q))
           N == Len(q) - n
<1>3. N \in Nat /\ r = [k \in 1 .. N |-> q[k + n]]
  BY <1>1, <1>2
<1> HIDE DEF r
<1>4. \A k \in 1 .. N : k + n \in DOMAIN q /\ q[k + n] \in X
  BY <1>1, <1>2
<1>5. r \in Seq(X) /\ Len(r) = N
  <2> HIDE DEF N
  <2>1. r \in [1 .. N -> X]
    BY <1>3, <1>4
  <2>2. r \in Seq(X)
    BY <1>3, <2>1, SeqDef
  <2>3. DOMAIN r = 1 .. N
    BY <2>1
  <2>4. DOMAIN r = 1 .. Len(r) /\ Len(r) \in Nat
    BY <2>2
  <2>5. Len(r) = N
    BY <1>3, <2>3, <2>4
  <2> QED BY <2>2, <2>5
<1>6. Chatter(r)
  BY <1>1, <1>5 DEF Chatter
<1> QED BY <1>3, <1>5, <1>6 DEF r

\* More lines after the first ones.
LEMMA MoreLines ==
  ASSUME NEW q, Chatter(q), NEW r, Chatter(r)
  PROVE  /\ Chatter(q \o r)
         /\ \A t : Opening(q, t) /\ (Greeted(q) \/ Opening(r, t)) => Opening(q \o r, t)
         /\ Greeted(q) \/ Greeted(r) => Greeted(q \o r)
<1>1. PICK X : q \in Seq(X) /\ \A m \in X : LineOK(m)
  BY DEF Chatter
<1>2. PICK Y : r \in Seq(Y) /\ \A m \in Y : LineOK(m)
  BY DEF Chatter
<1> DEFINE Z == X \cup Y
           M == Len(q)
           N == Len(r)
           p == q \o r
<1>3. q \in Seq(Z) /\ r \in Seq(Z) /\ \A m \in Z : LineOK(m)
  BY <1>1, <1>2
<1> HIDE DEF Z
<1>4. p \in Seq(Z) /\ Len(p) = M + N /\ M \in Nat /\ N \in Nat
  BY <1>3
<1>5. /\ DOMAIN p = 1 .. M + N /\ DOMAIN q = 1 .. M /\ DOMAIN r = 1 .. N
      /\ \A k \in 1 .. M : p[k] = q[k] /\ k \in 1 .. M + N
      /\ \A k \in 1 .. N : p[M + k] = r[k] /\ M + k \in 1 .. M + N
  BY <1>3, <1>4
<1> HIDE DEF p, M, N
<1>6. Chatter(p)
  BY <1>3, <1>4 DEF Chatter
<1>7. Greeted(q) => Greeted(p)
  BY <1>4, <1>5 DEF Greeted
<1>8. Greeted(r) => Greeted(p)
  BY <1>4, <1>5 DEF Greeted
<1>9. ASSUME NEW t, Opening(q, t), Greeted(q) \/ Opening(r, t) PROVE Opening(p, t)
  <2> SUFFICES ASSUME NEW k \in DOMAIN p, p[k].cmd = "SERVER"
               PROVE  p[k].name = t \/ \E j \in 1..(k - 1) : p[j].cmd \in {"SERVER", "EOF"}
    BY DEF Opening
  <2>1. CASE k \in 1 .. M
    <3>1. q[k].name = t \/ \E j \in 1..(k - 1) : q[j].cmd \in {"SERVER", "EOF"}
      BY <1>5, <1>9, <2>1 DEF Opening
    <3>2. \A j \in 1 .. k - 1 : j \in 1 .. M
      BY <1>4, <2>1
    <3> QED BY <1>5, <2>1, <3>1, <3>2
  <2>2. CASE k \notin 1 .. M
    <3> DEFINE l == k - M
    <3>1. l \in 1 .. N /\ k = M + l /\ k \in Nat
      BY <1>4, <1>5, <2>2
    <3> HIDE DEF l
    <3>2. p[k] = r[l]
      BY <1>5, <3>1
    <3>3. CASE Greeted(q)
      <4>1. PICK j \in 1 .. M : q[j].cmd \in {"SERVER", "EOF"}
        BY <1>5, <3>3 DEF Greeted
      <4>2. j \in 1 .. k - 1 /\ p[j] = q[j]
        BY <1>4, <1>5, <3>1, <4>1
      <4> QED BY <4>1, <4>2
    <3>4. CASE Opening(r, t)
      <4>1. r[l].name = t \/ \E j \in 1..(l - 1) : r[j].cmd \in {"SERVER", "EOF"}
        BY <1>5, <3>1, <3>2, <3>4 DEF Opening
      <4>2. ASSUME NEW j \in 1 .. l - 1, r[j].cmd \in {"SERVER", "EOF"}
            PROVE  \E i \in 1..(k - 1) : p[i].cmd \in {"SERVER", "EOF"}
        <5>1. j \in 1 .. N /\ M + j \in 1 .. k - 1
          BY <1>4, <3>1
        <5>2. p[M + j] = r[j]
          BY <1>5, <5>1
        <5> QED BY <4>2, <5>1, <5>2
      <4> QED BY <3>2, <4>1, <4>2
    <3> QED BY <1>9, <3>3, <3>4
  <2> QED BY <2>1, <2>2
<1> QED BY <1>6, <1>7, <1>8, <1>9 DEF p

\* Peer is the other end, and the only one.
LEMMA PeerIs ==
  ASSUME NEW w, EndsOK(w), NEW c \in Conn, NEW s \in Server, w.end[c][s].st # "none"
  PROVE  /\ Peer(w, c, s) \in Server /\ Peer(w, c, s) # s
         /\ w.end[c][Peer(w, c, s)].st # "none"
         /\ \A t \in Server : t # s /\ w.end[c][t].st # "none" => t = Peer(w, c, s)
<1>1. \E t \in Server \ {s} : w.end[c][t].st # "none"
  BY DEF EndsOK
<1>2. Peer(w, c, s) \in Server \ {s} /\ w.end[c][Peer(w, c, s)].st # "none"
  BY <1>1 DEF Peer
<1> QED BY <1>2 DEF EndsOK

\* A connection keeps its two ends.
SameEnds(w, v) ==
  \A c \in Conn, s \in Server : v.end[c][s].st = "none" <=> w.end[c][s].st = "none"

\* The other end stays the same when no end comes or goes.
LEMMA SamePeer ==
  ASSUME NEW w, NEW v, EndsOK(w), EndsOK(v), SameEnds(w, v),
         NEW c \in Conn, NEW s \in Server, w.end[c][s].st # "none"
  PROVE  Peer(v, c, s) = Peer(w, c, s)
<1>1. v.end[c][s].st # "none"
  BY DEF SameEnds
<1>2. Peer(v, c, s) \in Server /\ Peer(v, c, s) # s /\ w.end[c][Peer(v, c, s)].st # "none"
  BY <1>1, PeerIs DEF SameEnds
<1> QED BY <1>2, PeerIs

\* v is w after s has said more on the connections C.
Talk(w, v, s, C) ==
  /\ IsWorld(v) /\ v.end = w.end /\ v.known = w.known /\ v.count = w.count /\ IsMatrix(v.wire)
  /\ \A d \in Conn, r \in Server :
       \/ v.wire[d][r] = w.wire[d][r]
       \/ /\ d \in C /\ r # s /\ w.end[d][s].st # "none" /\ w.end[d][r].st # "none"
          /\ \E q : /\ Chatter(q) /\ v.wire[d][r] = w.wire[d][r] \o q
                    /\ w.end[d][s].st \in Said \/ Opening(q, s)

\* Send adds its lines at the other end, or nothing when either is closed.
LEMMA SendTalk ==
  ASSUME NEW w, IsWorld(w), EndsOK(w), IsMatrix(w.wire), NEW c \in Conn, NEW s \in Server,
         w.end[c][s].st # "none", NEW q, Chatter(q), w.end[c][s].st \in Said \/ Opening(q, s)
  PROVE  /\ Talk(w, Send(w, s, c, q), s, {c})
         /\ \/ w.end[c][s].st = "closed" \/ w.end[c][Peer(w, c, s)].st = "closed"
            \/ Send(w, s, c, q).wire[c][Peer(w, c, s)] = w.wire[c][Peer(w, c, s)] \o q
<1> DEFINE t == Peer(w, c, s)
           v == Send(w, s, c, q)
<1>1. t \in Server /\ t # s /\ w.end[c][t].st # "none"
  BY PeerIs
<1>2. CASE w.end[c][s].st = "closed" \/ w.end[c][t].st = "closed"
  <2>1. v = w
    BY <1>2 DEF Send
  <2> QED BY <1>2, <2>1 DEF Talk
<1>3. CASE ~(w.end[c][s].st = "closed" \/ w.end[c][t].st = "closed")
  <2> DEFINE x == w.wire[c][t] \o q
  <2>1. v = [w EXCEPT !.wire[c][t] = w.wire[c][t] \o q]
    BY <1>3 DEF Send
  <2> HIDE DEF v, t
  <2>2. v.wire = Put(w.wire, c, t, x)
    BY <2>1 DEF Put, IsWorld
  <2>3. IsWorld(v) /\ v.end = w.end /\ v.known = w.known /\ v.count = w.count
    BY <2>1 DEF IsWorld
  <2> HIDE DEF x
  <2>4. IsMatrix(v.wire) /\ v.wire[c][t] = x
        /\ \A d \in Conn, r \in Server : d # c \/ r # t => v.wire[d][r] = w.wire[d][r]
    BY <1>1, <2>2, PutIs
  <2>5. Talk(w, v, s, {c})
    BY <1>1, <2>3, <2>4, Zenon DEF Talk, x
  <2> QED BY <2>4, <2>5 DEF v, t, x
<1> QED BY <1>2, <1>3

\* So does SendEach, on each of its links.
LEMMA SendEachTalk ==
  ASSUME NEW w, IsWorld(w), EndsOK(w), IsMatrix(w.wire), NEW s \in Server,
         NEW C \in SUBSET Linked(w, s), NEW lines, \A c \in C : Chatter(lines[c])
  PROVE  Talk(w, SendEach(w, s, C, lines), s, C)
<1> DEFINE Row(c) == IF c \notin C THEN w.wire[c]
                     ELSE IF w.end[c][Peer(w, c, s)].st = "closed" THEN w.wire[c]
                     ELSE [w.wire[c] EXCEPT ![Peer(w, c, s)] = w.wire[c][Peer(w, c, s)] \o lines[c]]
           v == SendEach(w, s, C, lines)
           B == [c \in Conn |-> Row(c)]
<1>1. v = [w EXCEPT !.wire = B]
  BY DEF SendEach
<1> HIDE DEF v
<1>2. v.wire = B /\ IsWorld(v) /\ v.end = w.end /\ v.known = w.known /\ v.count = w.count
  <2> HIDE DEF B
  <2> QED BY <1>1 DEF IsWorld
<1>3. \A d \in Conn : w.wire[d] = [r \in Server |-> w.wire[d][r]]
  BY DEF IsMatrix
<1>4. ASSUME NEW d \in Conn
      PROVE  /\ Row(d) = [r \in Server |-> Row(d)[r]]
             /\ \A r \in Server :
                  \/ Row(d)[r] = w.wire[d][r]
                  \/ /\ d \in C /\ r # s /\ w.end[d][s].st # "none" /\ w.end[d][r].st # "none"
                     /\ \E q : /\ Chatter(q) /\ Row(d)[r] = w.wire[d][r] \o q
                               /\ w.end[d][s].st \in Said \/ Opening(q, s)
  <2>1. CASE Row(d) = w.wire[d]
    <3> HIDE DEF Row
    <3> QED BY <1>3, <2>1
  <2>2. CASE d \in C /\ Row(d) # w.wire[d]
    <3> DEFINE t == Peer(w, d, s)
               x == w.wire[d][t] \o lines[d]
    <3>1. w.end[d][s].st = "server"
      BY <2>2 DEF Linked, IsServerLink
    <3>2. t \in Server /\ t # s /\ w.end[d][t].st # "none"
      BY <3>1, PeerIs
    <3>3. Row(d) = [w.wire[d] EXCEPT ![t] = x]
      BY <2>2
    <3>4. Chatter(lines[d])
      BY <2>2
    <3> HIDE DEF Row, t
    <3>5. Row(d)[t] = x /\ \A r \in Server : r # t => Row(d)[r] = w.wire[d][r]
      <4> HIDE DEF x
      <4> QED BY <1>3, <3>2, <3>3
    <3>6. Row(d) = [r \in Server |-> Row(d)[r]]
      <4> HIDE DEF x
      <4> QED BY <1>3, <3>2, <3>3
    <3> QED BY <2>2, <3>1, <3>2, <3>4, <3>5, <3>6 DEF Said, x
  <2> QED BY <2>1, <2>2
<1>5. \A d \in Conn : v.wire[d] = Row(d)
  <2> HIDE DEF Row
  <2> QED BY <1>2
<1> HIDE DEF Row
<1>6. IsMatrix(v.wire)
  <2>1. v.wire = [d \in Conn |-> v.wire[d]]
    BY <1>2
  <2>2. \A d \in Conn : v.wire[d] = [r \in Server |-> v.wire[d][r]]
    BY <1>4, <1>5
  <2> HIDE DEF B
  <2> QED BY <2>1, <2>2 DEF IsMatrix
<1>7. Talk(w, v, s, C)
  <2> HIDE DEF B
  <2> QED BY <1>2, <1>4, <1>5, <1>6 DEF Talk
<1> QED BY <1>7 DEF v

\* More lines do no harm: those of an end that has not said its name open with it.
LEMMA TalkNet ==
  ASSUME NEW w, NEW v, NEW X, Net(w, X), NEW s \in Server, NEW C, Talk(w, v, s, C)
  PROVE  Net(v, X)
<1>1. v.end = w.end /\ IsMatrix(v.wire)
  BY DEF Talk
<1>2. EndsOK(v)
  BY <1>1 DEF Net, EndsOK
<1>3. ASSUME NEW d \in Conn, NEW r \in Server
      PROVE  /\ Chatter(v.wire[d][r])
             /\ w.end[d][r].st = "none" => v.wire[d][r] = <<>>
             /\ \A t \in Server :
                  <<d, r>> \notin X /\ r # t /\ w.end[d][r].st \in Pre /\ w.end[d][t].st # "none"
                  => /\ Opening(v.wire[d][r], t)
                     /\ w.end[d][t].st \in Said => Greeted(v.wire[d][r])
  <2>1. /\ Chatter(w.wire[d][r])
        /\ w.end[d][r].st = "none" => w.wire[d][r] = <<>>
        /\ \A t \in Server :
             <<d, r>> \notin X /\ r # t /\ w.end[d][r].st \in Pre /\ w.end[d][t].st # "none"
               => /\ Opening(w.wire[d][r], t)
                  /\ w.end[d][t].st \in Said => Greeted(w.wire[d][r])
    BY DEF Net, WiresOK
  <2>2. CASE v.wire[d][r] = w.wire[d][r]
    BY <2>1, <2>2
  <2>3. CASE v.wire[d][r] # w.wire[d][r]
    <3>1. /\ r # s /\ w.end[d][s].st # "none" /\ w.end[d][r].st # "none"
          /\ \E q : /\ Chatter(q) /\ v.wire[d][r] = w.wire[d][r] \o q
                    /\ w.end[d][s].st \in Said \/ Opening(q, s)
      BY <2>3 DEF Talk
    <3>2. PICK q : /\ Chatter(q) /\ v.wire[d][r] = w.wire[d][r] \o q
                   /\ w.end[d][s].st \in Said \/ Opening(q, s)
      BY <3>1
    <3>3. Chatter(v.wire[d][r])
      BY <2>1, <3>2, MoreLines
    <3>4. ASSUME NEW t \in Server, <<d, r>> \notin X, r # t, w.end[d][r].st \in Pre,
                 w.end[d][t].st # "none"
          PROVE  /\ Opening(v.wire[d][r], t)
                 /\ w.end[d][t].st \in Said => Greeted(v.wire[d][r])
      <4>1. t = s
        BY <3>1, <3>4 DEF Net, EndsOK
      <4>2. /\ Opening(w.wire[d][r], t)
            /\ w.end[d][t].st \in Said => Greeted(w.wire[d][r])
        BY <2>1, <3>4
      <4>3. Greeted(w.wire[d][r]) \/ Opening(q, t)
        BY <3>2, <4>1, <4>2
      <4> QED BY <2>1, <3>2, <4>2, <4>3, MoreLines
    <3> QED BY <3>1, <3>3, <3>4
  <2> QED BY <2>2, <2>3
<1>4. WiresOK(v, X)
  BY <1>1, <1>3 DEF WiresOK, IsMatrix
<1> QED BY <1>2, <1>4 DEF Net

\* A sequence of good lines is Chatter.
LEMMA ChatterOf ==
  ASSUME NEW Z, NEW q \in Seq(Z), \A m \in Z : LineOK(m)
  PROVE  Chatter(q)
<1>1. \E X : q \in Seq(X) /\ \A m \in X : LineOK(m)
  <2> WITNESS Z
  <2> QED OBVIOUS
<1> QED BY <1>1 DEF Chatter

\* Lists of no line and of one line.
LEMMA ShortLines ==
  /\ Chatter(<<>>)
  /\ \A m : LineOK(m) => Chatter(<<m>>)
  /\ \A m, t : m.cmd # "SERVER" => Opening(<<m>>, t)
<1>1. <<>> \in Seq({})
  OBVIOUS
<1>2. Chatter(<<>>)
  <2> DEFINE Z == {}
             q == <<>>
  <2>1. q \in Seq(Z) /\ \A m \in Z : LineOK(m)
    BY <1>1
  <2> HIDE DEF Z, q
  <2>2. Chatter(q)
    BY <2>1, ChatterOf
  <2> QED BY <2>2 DEF q
<1>3. ASSUME NEW m, LineOK(m) PROVE Chatter(<<m>>)
  <2> DEFINE Z == {m}
             q == <<m>>
  <2>1. q \in Seq(Z) /\ \A x \in Z : LineOK(x)
    BY <1>3
  <2> HIDE DEF Z, q
  <2>2. Chatter(q)
    BY <2>1, ChatterOf
  <2> QED BY <2>2 DEF q
<1>4. ASSUME NEW m, NEW t, m.cmd # "SERVER" PROVE Opening(<<m>>, t)
  <2>1. \A k \in DOMAIN <<m>> : <<m>>[k] = m
    OBVIOUS
  <2> QED BY <1>4, <2>1 DEF Opening
<1> QED BY <1>2, <1>3, <1>4

\* A field of the Client structure is set.
LEMMA SetSt ==
  ASSUME NEW f, IsClient(f), NEW x
  PROVE  LET g == [f EXCEPT !.st = x] IN
         /\ IsClient(g) /\ g.st = x
         /\ g.pass = f.pass /\ g.ts = f.ts /\ g.caps = f.caps /\ g.first = f.first
<1> DEFINE g == [f EXCEPT !.st = x]
<1>1. g = [st |-> g.st, pass |-> g.pass, ts |-> g.ts, caps |-> g.caps, first |-> g.first]
  BY DEF IsClient
<1>2. DOMAIN f = {"st", "pass", "ts", "caps", "first"}
  BY DEF IsClient
<1>3. g.st = x /\ g.pass = f.pass /\ g.ts = f.ts /\ g.caps = f.caps /\ g.first = f.first
  BY <1>2
<1> HIDE DEF g
<1>4. IsClient(g)
  BY <1>1 DEF IsClient
<1> QED BY <1>3, <1>4 DEF g

\* The same for the password,
LEMMA SetPass ==
  ASSUME NEW f, IsClient(f), NEW x
  PROVE  LET g == [f EXCEPT !.pass = x] IN
         /\ IsClient(g) /\ g.pass = x
         /\ g.st = f.st /\ g.ts = f.ts /\ g.caps = f.caps /\ g.first = f.first
<1> DEFINE g == [f EXCEPT !.pass = x]
<1>1. g = [st |-> g.st, pass |-> g.pass, ts |-> g.ts, caps |-> g.caps, first |-> g.first]
  BY DEF IsClient
<1>2. DOMAIN f = {"st", "pass", "ts", "caps", "first"}
  BY DEF IsClient
<1>3. g.pass = x /\ g.st = f.st /\ g.ts = f.ts /\ g.caps = f.caps /\ g.first = f.first
  BY <1>2
<1> HIDE DEF g
<1>4. IsClient(g)
  BY <1>1 DEF IsClient
<1> QED BY <1>3, <1>4 DEF g

\* the TS mark,
LEMMA SetTs ==
  ASSUME NEW f, IsClient(f), NEW x
  PROVE  LET g == [f EXCEPT !.ts = x] IN
         /\ IsClient(g) /\ g.ts = x
         /\ g.st = f.st /\ g.pass = f.pass /\ g.caps = f.caps /\ g.first = f.first
<1> DEFINE g == [f EXCEPT !.ts = x]
<1>1. g = [st |-> g.st, pass |-> g.pass, ts |-> g.ts, caps |-> g.caps, first |-> g.first]
  BY DEF IsClient
<1>2. DOMAIN f = {"st", "pass", "ts", "caps", "first"}
  BY DEF IsClient
<1>3. g.ts = x /\ g.st = f.st /\ g.pass = f.pass /\ g.caps = f.caps /\ g.first = f.first
  BY <1>2
<1> HIDE DEF g
<1>4. IsClient(g)
  BY <1>1 DEF IsClient
<1> QED BY <1>3, <1>4 DEF g

\* the capabilities
LEMMA SetCaps ==
  ASSUME NEW f, IsClient(f), NEW x
  PROVE  LET g == [f EXCEPT !.caps = x] IN
         /\ IsClient(g) /\ g.caps = x
         /\ g.st = f.st /\ g.pass = f.pass /\ g.ts = f.ts /\ g.first = f.first
<1> DEFINE g == [f EXCEPT !.caps = x]
<1>1. g = [st |-> g.st, pass |-> g.pass, ts |-> g.ts, caps |-> g.caps, first |-> g.first]
  BY DEF IsClient
<1>2. DOMAIN f = {"st", "pass", "ts", "caps", "first"}
  BY DEF IsClient
<1>3. g.caps = x /\ g.st = f.st /\ g.pass = f.pass /\ g.ts = f.ts /\ g.first = f.first
  BY <1>2
<1> HIDE DEF g
<1>4. IsClient(g)
  BY <1>1 DEF IsClient
<1> QED BY <1>3, <1>4 DEF g

\* and the time of the first line.
LEMMA SetFirst ==
  ASSUME NEW f, IsClient(f), NEW x
  PROVE  LET g == [f EXCEPT !.first = x] IN
         /\ IsClient(g) /\ g.first = x
         /\ g.st = f.st /\ g.pass = f.pass /\ g.ts = f.ts /\ g.caps = f.caps
<1> DEFINE g == [f EXCEPT !.first = x]
<1>1. g = [st |-> g.st, pass |-> g.pass, ts |-> g.ts, caps |-> g.caps, first |-> g.first]
  BY DEF IsClient
<1>2. DOMAIN f = {"st", "pass", "ts", "caps", "first"}
  BY DEF IsClient
<1>3. g.first = x /\ g.st = f.st /\ g.pass = f.pass /\ g.ts = f.ts /\ g.caps = f.caps
  BY <1>2
<1> HIDE DEF g
<1>4. IsClient(g)
  BY <1>1 DEF IsClient
<1> QED BY <1>3, <1>4 DEF g

\* An end changes its state.
Moves(w, v, c, s, e, X, Y) ==
  /\ IsEnd(e)
  /\ e.st = "none" <=> w.end[c][s].st = "none"
  /\ e.st \in Pre => w.end[c][s].st \in Pre
  /\ X \subseteq Y
  /\ e.st \in Said => \/ w.end[c][s].st \in Said
                      \/ \A r \in Server : r # s /\ w.end[c][r].st # "none" => <<c, r>> \in Y
  /\ v.end = Put(w.end, c, s, e) /\ v.wire = w.wire

\* The connections stay right when one end moves on.
LEMMA NetMove ==
  ASSUME NEW w, NEW X, Net(w, X), NEW c \in Conn, NEW s \in Server,
         NEW e, NEW Y, NEW v, Moves(w, v, c, s, e, X, Y)
  PROVE  /\ Net(v, Y) /\ SameEnds(w, v)
         /\ v.end[c][s] = e /\ \A d \in Conn, r \in Server : d # c \/ r # s => v.end[d][r] = w.end[d][r]
<1>0. Moves(w, v, c, s, e, X, Y)
  OBVIOUS
<1>1. IsMatrix(w.end)
  BY DEF Net, EndsOK, IsMatrix
<1>2. IsMatrix(v.end)
      /\ v.end[c][s] = e /\ \A d \in Conn, r \in Server : d # c \/ r # s => v.end[d][r] = w.end[d][r]
  BY <1>0, <1>1, PutIs DEF Moves
<1>3. \A d \in Conn, r \in Server :
        /\ IsEnd(v.end[d][r])
        /\ v.end[d][r].st = "none" <=> w.end[d][r].st = "none"
        /\ v.end[d][r].st \in Pre => w.end[d][r].st \in Pre
  BY <1>0, <1>2 DEF Net, EndsOK, Moves
<1>4. EndsOK(v)
  <2>1. \A d \in Conn, r \in Server :
          v.end[d][r].st # "none" => \E t \in Server : t # r /\ v.end[d][t].st # "none"
    BY <1>3, ZenonT(40) DEF Net, EndsOK
  <2>2. \A d \in Conn, p, t, r \in Server :
          v.end[d][p].st # "none" /\ v.end[d][t].st # "none" /\ v.end[d][r].st # "none"
            => p = t \/ p = r \/ t = r
    <3> SUFFICES ASSUME NEW d \in Conn, NEW p \in Server, NEW t \in Server, NEW r \in Server,
                        v.end[d][p].st # "none", v.end[d][t].st # "none", v.end[d][r].st # "none"
                 PROVE  p = t \/ p = r \/ t = r
      OBVIOUS
    <3>1. w.end[d][p].st # "none" /\ w.end[d][t].st # "none" /\ w.end[d][r].st # "none"
      BY <1>3
    <3> QED BY <3>1 DEF Net, EndsOK
  <2>3. v.end = [d \in Conn |-> [r \in Server |-> v.end[d][r]]]
    BY <1>2 DEF IsMatrix
  <2> QED BY <1>3, <2>1, <2>2, <2>3 DEF EndsOK
<1>5. ASSUME NEW d \in Conn, NEW r \in Server, NEW t \in Server,
             <<d, r>> \notin Y, r # t, v.end[d][r].st \in Pre, v.end[d][t].st # "none"
      PROVE  /\ Opening(v.wire[d][r], t)
             /\ v.end[d][t].st \in Said => Greeted(v.wire[d][r])
  <2>1. w.end[d][r].st \in Pre /\ w.end[d][t].st # "none" /\ <<d, r>> \notin X
    BY <1>0, <1>3, <1>5 DEF Moves
  <2>4. v.wire = w.wire
    BY <1>0 DEF Moves
  <2>2. /\ Opening(w.wire[d][r], t)
        /\ w.end[d][t].st \in Said => Greeted(w.wire[d][r])
    BY <1>0, <1>5, <2>1 DEF Net, WiresOK, Moves
  <2>3. ASSUME v.end[d][t].st \in Said PROVE w.end[d][t].st \in Said
    <3>1. CASE d = c /\ t = s
      <4>1. w.end[d][r].st # "none"
        BY <2>1 DEF Pre
      <4> QED BY <1>0, <1>2, <1>5, <2>3, <3>1, <4>1 DEF Moves
    <3> QED BY <1>2, <2>3, <3>1
  <2> QED BY <2>2, <2>3, <2>4
<1>6. WiresOK(v, Y)
  <2>1. /\ v.wire = [d \in Conn |-> [r \in Server |-> v.wire[d][r]]]
        /\ \A d \in Conn, r \in Server : Chatter(v.wire[d][r])
        /\ \A d \in Conn, r \in Server : v.end[d][r].st = "none" => v.wire[d][r] = <<>>
    BY <1>0, <1>3 DEF Net, WiresOK, Moves
  <2> QED BY <1>5, <2>1 DEF WiresOK
<1> QED BY <1>2, <1>3, <1>4, <1>6 DEF Net, SameEnds

\* What is on its way to an end that is not waiting for a name is dropped.
LEMMA NetCut ==
  ASSUME NEW w, NEW X, Net(w, X), NEW c \in Conn, NEW s \in Server, w.end[c][s].st \notin Pre,
         NEW v, v.end = w.end, v.wire = Put(w.wire, c, s, <<>>)
  PROVE  /\ Net(v, X)
         /\ \A d \in Conn, r \in Server : d # c \/ r # s => v.wire[d][r] = w.wire[d][r]
<1>1. IsMatrix(w.wire)
  BY DEF Net, WiresOK, IsMatrix
<1>2. IsMatrix(v.wire) /\ v.wire[c][s] = <<>>
      /\ \A d \in Conn, r \in Server : d # c \/ r # s => v.wire[d][r] = w.wire[d][r]
  BY <1>1, PutIs
<1>3. EndsOK(v)
  BY DEF Net, EndsOK
<1>4. Chatter(<<>>)
  BY ShortLines
<1>5. WiresOK(v, X)
  <2>1. v.wire = [d \in Conn |-> [r \in Server |-> v.wire[d][r]]]
    BY <1>2 DEF IsMatrix
  <2>2. ASSUME NEW d \in Conn, NEW r \in Server
        PROVE  Chatter(v.wire[d][r]) /\ (v.end[d][r].st = "none" => v.wire[d][r] = <<>>)
    BY <1>2, <1>4 DEF Net, WiresOK
  <2>3. ASSUME NEW d \in Conn, NEW r \in Server, NEW t \in Server,
               <<d, r>> \notin X, r # t, v.end[d][r].st \in Pre, v.end[d][t].st # "none"
        PROVE  /\ Opening(v.wire[d][r], t)
               /\ v.end[d][t].st \in Said => Greeted(v.wire[d][r])
    <3>1. v.wire[d][r] = w.wire[d][r]
      BY <1>2, <2>3
    <3> QED BY <2>3, <3>1 DEF Net, WiresOK
  <2> QED BY <2>1, <2>2, <2>3 DEF WiresOK
<1> QED BY <1>2, <1>3, <1>5 DEF Net

\* s hangs up.
LEMMA CloseNet ==
  ASSUME NEW w, NEW X, IsWorld(w), Net(w, X), NEW c \in Conn, NEW s \in Server,
         w.end[c][s].st # "none"
  PROVE  LET v == Close(w, s, c) IN
         /\ IsWorld(v) /\ Net(v, X) /\ SameEnds(w, v)
         /\ v.known = w.known /\ v.count = w.count
         /\ v.end[c][s].st = "closed"
         /\ \A d \in Conn, r \in Server : d # c \/ r # s => v.end[d][r] = w.end[d][r]
         /\ \A d \in Conn : d # c => v.wire[d][s] = w.wire[d][s]
<1> DEFINE m == [cmd |-> "EOF"]
           u == Send(w, s, c, <<m>>)
           v == Close(w, s, c)
           e == [u.end[c][s] EXCEPT !.st = "closed", !.pass = ""]
<1>1. Chatter(<<m>>) /\ Opening(<<m>>, s)
  <2>1. LineOK(m) /\ m.cmd # "SERVER"
    BY DEF LineOK
  <2> HIDE DEF m
  <2> QED BY <2>1, ShortLines
<1>2. EndsOK(w) /\ IsMatrix(w.wire) /\ IsMatrix(w.end)
  BY DEF Net, EndsOK, WiresOK, IsMatrix
<1>3. v = [u EXCEPT !.end[c][s] = e, !.wire[c][s] = <<>>]
  BY DEF Close
<1> HIDE DEF m
<1>4. Talk(w, u, s, {c})
  BY <1>1, <1>2, SendTalk
<1> HIDE DEF u, v
<1>5. Net(u, X)
  BY <1>4, TalkNet
<1>6. IsWorld(u) /\ u.end = w.end /\ u.known = w.known /\ u.count = w.count
  BY <1>4 DEF Talk
<1>7. \A d \in Conn : u.wire[d][s] = w.wire[d][s]
  BY <1>4 DEF Talk
<1>8. IsWorld(v) /\ v.known = w.known /\ v.count = w.count
  <2> HIDE DEF e
  <2> QED BY <1>3, <1>6 DEF IsWorld
<1>9. v.end = Put(u.end, c, s, e) /\ v.wire = Put(u.wire, c, s, <<>>)
  <2> HIDE DEF e
  <2> QED BY <1>3, <1>6 DEF IsWorld, Put
<1>10. IsEnd(e) /\ e.st = "closed"
  <2>1. IsEnd(u.end[c][s])
    BY <1>5 DEF Net, EndsOK
  <2>2. ASSUME NEW f, IsEnd(f)
        PROVE  IsEnd([f EXCEPT !.st = "closed", !.pass = ""])
               /\ [f EXCEPT !.st = "closed", !.pass = ""].st = "closed"
    <3> DEFINE h == [f EXCEPT !.st = "closed"]
               g == [h EXCEPT !.pass = ""]
    <3>0. [f EXCEPT !.st = "closed", !.pass = ""] = g
      OBVIOUS
    <3>1. IsClient(h) /\ h.st = "closed" /\ h.first = f.first
      BY <2>2, SetSt DEF IsEnd
    <3> HIDE DEF h
    <3>2. IsClient(g) /\ g.st = "closed" /\ g.first = f.first
      BY <3>1, SetPass, ZenonT(40)
    <3> HIDE DEF g
    <3>3. IsEnd(g)
      BY <2>2, <3>2 DEF IsEnd, States
    <3> QED BY <3>0, <3>2, <3>3
  <2> QED BY <2>1, <2>2
<1> HIDE DEF e
<1> DEFINE z == [end |-> v.end, wire |-> u.wire]
<1>11. z.end = Put(u.end, c, s, e) /\ z.wire = u.wire
  BY <1>9
<1>12. z.end = v.end
  OBVIOUS
<1> HIDE DEF z
<1>13. /\ Net(z, X) /\ SameEnds(u, z)
       /\ z.end[c][s] = e /\ \A d \in Conn, r \in Server : d # c \/ r # s => z.end[d][r] = u.end[d][r]
  <2>1. e.st # "none" /\ u.end[c][s].st # "none" /\ e.st \notin Pre /\ e.st \notin Said
    BY <1>6, <1>10 DEF Pre, Said
  <2>2. Moves(u, z, c, s, e, X, X)
    BY <1>10, <1>11, <2>1 DEF Moves
  <2> QED BY <1>5, <2>2, NetMove
<1>14. Net(v, X) /\ \A d \in Conn, r \in Server : d # c \/ r # s => v.wire[d][r] = z.wire[d][r]
  BY <1>9, <1>10, <1>11, <1>12, <1>13, NetCut DEF Pre
<1>15. SameEnds(w, v)
  BY <1>6, <1>12, <1>13 DEF SameEnds
<1>16. \A d \in Conn : d # c => v.wire[d][s] = w.wire[d][s]
  BY <1>7, <1>11, <1>14
<1> QED BY <1>6, <1>8, <1>10, <1>12, <1>13, <1>14, <1>15, <1>16 DEF v

-----------------------------------------------------------------------------
(* What a server does concerns its own list and its own ends               *)

Lists(w) ==
  /\ w.known = [r \in Server |-> w.known[r]]
  /\ w.count = [r \in Server |-> w.count[r]]

At(w, v, s) ==
  /\ IsWorld(v) /\ SameEnds(w, v) /\ Lists(v)
  /\ \A r \in Server \ {s} : v.known[r] = w.known[r] /\ v.count[r] = w.count[r]
  /\ \A d \in Conn, r \in Server \ {s} : v.end[d][r] = w.end[d][r]
  /\ \A d \in Conn : \/ v.end[d][s].st = "closed"
                     \/ v.wire[d][s] = w.wire[d][s] /\ w.end[d][s].st # "closed"
  /\ \A d \in Conn : v.end[d][s].st \in Pre => w.end[d][s].st \in Pre

\* Two calls of the same server in a row.
LEMMA AtAt ==
  ASSUME NEW w, NEW v, NEW u, NEW s \in Server, At(w, v, s), At(v, u, s)
  PROVE  At(w, u, s)
BY DEF At, SameEnds

\* To say something changes neither lists nor ends.
LEMMA TalkAt ==
  ASSUME NEW w, NEW v, NEW s \in Server, NEW C, Talk(w, v, s, C), Lists(w)
  PROVE  At(w, v, s)
BY DEF Talk, At, SameEnds, Lists

\* If s did it, only the list of s must be looked at.
LEMMA AtGood ==
  ASSUME NEW w, NEW X, Good(w, X), NEW v, NEW s \in Server, At(w, v, s), NEW Y, Net(v, Y),
         ListOK(v, s)
  PROVE  Good(v, Y)
<1>1. EndsOK(w) /\ EndsOK(v) /\ SameEnds(w, v)
  BY DEF Good, Net, At
<1>2. ASSUME NEW r \in Server, r # s PROVE ListOK(v, r)
  <2>1. v.known[r] = w.known[r] /\ v.count[r] = w.count[r] /\ \A d \in Conn : v.end[d][r] = w.end[d][r]
    BY <1>2 DEF At
  <2>2. ListOK(w, r)
    BY DEF Good, ListsOK
  <2>3. Linked(v, r) = Linked(w, r)
    BY <2>1 DEF Linked, IsServerLink
  <2>4. ASSUME NEW i \in DOMAIN w.known[r]
        PROVE  Peer(v, w.known[r][i].via, r) = Peer(w, w.known[r][i].via, r)
    <3>1. w.known[r][i].via \in Linked(w, r)
      BY <2>2 DEF ListOK, Tree
    <3>2. w.known[r][i].via \in Conn /\ w.end[w.known[r][i].via][r].st # "none"
      BY <3>1 DEF Linked, IsServerLink
    <3> QED BY <1>1, <3>2, SamePeer
  <2> QED BY <2>1, <2>2, <2>3, <2>4 DEF ListOK
<1>3. ListsOK(v)
  BY <1>2 DEF ListsOK, At, Lists
<1> QED BY <1>3 DEF Good, At

-----------------------------------------------------------------------------
(* Leaving                                                                 *)

\* A function on 1..n is a sequence of n elements.
LEMMA SeqFun ==
  ASSUME NEW N \in Nat, NEW Z, NEW q \in [1 .. N -> Z]
  PROVE  q \in Seq(Z) /\ Len(q) = N
<1>1. q \in Seq(Z)
  BY SeqDef
<1>2. DOMAIN q = 1 .. Len(q) /\ Len(q) \in Nat /\ DOMAIN q = 1 .. N
  BY <1>1
<1> QED BY <1>1, <1>2

\* A function on 1..n to good lines is Chatter.
LEMMA ChatterFun ==
  ASSUME NEW N \in Nat, NEW q, q = [i \in 1 .. N |-> q[i]], \A i \in 1 .. N : LineOK(q[i])
  PROVE  Chatter(q) /\ Len(q) = N
<1> DEFINE Z == {q[i] : i \in 1 .. N}
<1>1. q \in [1 .. N -> Z] /\ \A m \in Z : LineOK(m)
  OBVIOUS
<1> HIDE DEF Z
<1>2. q \in Seq(Z) /\ Len(q) = N
  BY <1>1, SeqFun
<1> QED BY <1>1, <1>2, ChatterOf

\* SQUIT and SERVER make good lines.
LEMMA LinesOK ==
  ASSUME NEW by \in Server \cup {None}, NEW name \in Server
  PROVE  /\ \A user : LineOK(SQUIT(by, user, name)) /\ SQUIT(by, user, name).cmd # "SERVER"
         /\ \A hop \in Nat : LineOK(SERVER(by, name, hop))
<1>1. ASSUME NEW user PROVE LineOK(SQUIT(by, user, name)) /\ SQUIT(by, user, name).cmd # "SERVER"
  BY DEF LineOK, SQUIT
<1>2. ASSUME NEW hop \in Nat PROVE LineOK(SERVER(by, name, hop))
  BY DEF LineOK, SERVER
<1> QED BY <1>1, <1>2

\* What recurse_send_quits sends are good lines.
LEMMA QuitsChatter ==
  ASSUME NEW w, NEW s \in Server, w.known[s] \in Seq(Known(s)), NEW name \in Server, NEW to
  PROVE  Chatter(recurse_send_quits(w, s, name, to))
<1> DEFINE K == w.known[s]
           S == {e \in Range(K) : e.name \in Dependents(K, name)}
           b == Keep(K, S)
           q == [i \in DOMAIN b |-> SQUIT(None, FALSE, Reverse(b)[i].name)]
<1>1. CASE "QS" \in w.end[to][s].caps
  <2>1. LineOK(SQUIT(None, FALSE, name))
    BY LinesOK
  <2>2. Chatter(<<SQUIT(None, FALSE, name)>>)
    BY <2>1, ShortLines
  <2> QED BY <1>1, <2>2 DEF recurse_send_quits
<1>2. CASE ~("QS" \in w.end[to][s].caps)
  <2>1. recurse_send_quits(w, s, name, to) = q
    BY <1>2 DEF recurse_send_quits
  <2>2. K \in Seq(Known(s))
    OBVIOUS
  <2> HIDE DEF S, K
  <2>3. b \in Seq(Known(s))
    BY <2>2, KeepRange
  <2> HIDE DEF b
  <2>4. Len(b) \in Nat /\ DOMAIN b = 1 .. Len(b)
    BY <2>3
  <2>5. ASSUME NEW i \in 1 .. Len(b) PROVE LineOK(q[i])
    <3>1. Reverse(b)[i] = b[Len(b) - i + 1] /\ Len(b) - i + 1 \in DOMAIN b
      BY <2>4 DEF Reverse
    <3>2. b[Len(b) - i + 1].name \in Server
      BY <2>3, <3>1, KnownTypes
    <3>3. q[i] = SQUIT(None, FALSE, b[Len(b) - i + 1].name)
      BY <2>4, <3>1
    <3> QED BY <3>2, <3>3, LinesOK
  <2>6. q = [i \in 1 .. Len(b) |-> q[i]]
    BY <2>4
  <2> HIDE DEF q
  <2> QED BY <2>1, <2>4, <2>5, <2>6, ChatterFun
<1> QED BY <1>1, <1>2

\* Servers go from the list of s, and the others are told.
Removed(w, v, s, D, X) ==
  /\ At(w, v, s) /\ Net(v, X) /\ v.end = w.end
  /\ v.known[s] = Stay(w.known[s], D)
  /\ \A a, b : w.count[s] = [server |-> a, myserver |-> b] =>
       v.count[s] = [server |-> a - Cardinality(D), myserver |-> b]

\* remove_dependents takes the dependents off the list and the count and tells the others.
LEMMA RemoveNet ==
  ASSUME NEW w, NEW X, IsWorld(w), Net(w, X), Lists(w), NEW s \in Server,
         w.known[s] \in Seq(Known(s)), NEW name \in Server, NEW via, NEW cptr
  PROVE  Removed(w, remove_dependents(w, s, name, via, cptr), s,
                 Dependents(w.known[s], name), X)
<1> DEFINE v == remove_dependents(w, s, name, via, cptr)
           D == Dependents(w.known[s], name)
           C == Told(w, s, via, cptr)
           lines == [to \in Conn |-> recurse_send_quits(w, s, name, to)]
           u == SendEach(w, s, C, lines)
           z == Cardinality(D)
<1>1. C \in SUBSET Linked(w, s) /\ \A d \in C : d \in Conn
  BY DEF Told, Linked
<1>2. \A d \in C : Chatter(lines[d])
  <2>1. \A d \in Conn : lines[d] = recurse_send_quits(w, s, name, d)
    OBVIOUS
  <2> HIDE DEF C, lines
  <2> QED BY <1>1, <2>1, QuitsChatter
<1>3. v = [u EXCEPT !.known[s] = Stay(u.known[s], D), !.count[s].server = u.count[s].server - z]
  BY DEF remove_dependents
<1>4. EndsOK(w) /\ IsMatrix(w.wire)
  BY DEF Net, WiresOK, IsMatrix
<1> HIDE DEF lines, C
<1>5. Talk(w, u, s, C)
  BY <1>1, <1>2, <1>4, SendEachTalk
<1> HIDE DEF u, z
<1>6. Net(u, X) /\ At(w, u, s)
  BY <1>5, TalkNet, TalkAt
<1>7. IsWorld(u) /\ u.end = w.end /\ u.known = w.known /\ u.count = w.count
  BY <1>5 DEF Talk
<1> HIDE DEF v, D
<1>8. /\ IsWorld(v) /\ v.end = u.end /\ v.wire = u.wire
      /\ v.known = [u.known EXCEPT ![s] = Stay(u.known[s], D)]
      /\ v.count = [u.count EXCEPT ![s] = [u.count[s] EXCEPT !.server = u.count[s].server - z]]
  BY <1>3, <1>7 DEF IsWorld
<1>9. Net(v, X)
  BY <1>6, <1>8 DEF Net, EndsOK, WiresOK
<1>10. v.known[s] = Stay(w.known[s], D) /\ \A r \in Server : r # s => v.known[r] = w.known[r]
  BY <1>7, <1>8 DEF Lists
<1>11. v.count[s] = [w.count[s] EXCEPT !.server = w.count[s].server - z]
       /\ \A r \in Server : r # s => v.count[r] = w.count[r]
  BY <1>7, <1>8 DEF Lists
<1>12. ASSUME NEW a, NEW b, w.count[s] = [server |-> a, myserver |-> b]
       PROVE  v.count[s] = [server |-> a - z, myserver |-> b]
  BY <1>11, <1>12
<1>13. Lists(v)
  BY <1>7, <1>8 DEF Lists
<1>14. At(w, v, s)
  BY <1>6, <1>7, <1>8, <1>10, <1>11, <1>13 DEF At, SameEnds
<1>15. Removed(w, v, s, D, X)
  BY <1>7, <1>8, <1>9, <1>10, <1>12, <1>14 DEF Removed, z
<1> QED BY <1>15 DEF v, D

\* A server has finitely many links.
LEMMA LinkedFinite ==
  ASSUME NEW w, NEW s
  PROVE  IsFiniteSet(Linked(w, s)) /\ Cardinality(Linked(w, s)) \in Nat
<1>1. IsFiniteSet(Conn)
  <2>1. MaxConn \in Nat
    BY SceneAssumption
  <2> QED BY <2>1, FS_Interval DEF Conn
<1>2. Linked(w, s) \in SUBSET Conn
  BY DEF Linked
<1> QED BY <1>1, <1>2, FS_Subset, FS_CardinalityType

\* A server that is not linked to s goes.
LEMMA RemoveFar ==
  ASSUME NEW w, NEW X, Good(w, X), NEW s \in Server, NEW n \in DOMAIN w.known[s],
         w.known[s][n].up # s, NEW name, name = w.known[s][n].name, NEW via, NEW cptr
  PROVE  /\ Good(remove_dependents(w, s, name, via, cptr), X)
         /\ At(w, remove_dependents(w, s, name, via, cptr), s)
         /\ remove_dependents(w, s, name, via, cptr).end = w.end
<1> DEFINE v == remove_dependents(w, s, name, via, cptr)
           K == w.known[s]
           L == Linked(w, s)
           D == Dependents(K, name)
           r == Stay(K, D)
<1>1. ListOK(w, s) /\ IsWorld(w) /\ Net(w, X) /\ Lists(w)
  BY DEF Good, ListsOK, Lists
<1>2. Tree(K, s, L) /\ K \in Seq(Known(s)) /\ Len(K) \in Nat
  BY <1>1 DEF ListOK, Tree
<1>3. name \in Server
  BY <1>2, KnownTypes
<1>4. w.count[s] = [server |-> Len(K) + 1, myserver |-> Cardinality(L)]
  BY <1>1 DEF ListOK
<1>5. /\ Tree(r, s, L) /\ IsFiniteSet(D) /\ Len(r) = Len(K) - Cardinality(D)
      /\ \A i \in DOMAIN r : \E k \in DOMAIN K : r[i] = K[k]
  <2>1. FarGone(r, K, s, L, D)
    <3>1. n \in DOMAIN K /\ K[n].up # s /\ name = K[n].name
      OBVIOUS
    <3> HIDE DEF L, K
    <3>2. FarGone(Stay(K, Dependents(K, K[n].name)), K, s, L, Dependents(K, K[n].name))
      BY <1>2, <3>1, PruneFar
    <3> QED BY <3>1, <3>2
  <2> QED BY <2>1 DEF FarGone
<1>6. /\ At(w, v, s) /\ Net(v, X) /\ v.end = w.end /\ v.known[s] = r
      /\ v.count[s] = [server |-> (Len(K) + 1) - Cardinality(D), myserver |-> Cardinality(L)]
  <2>1. Removed(w, v, s, D, X)
    BY <1>1, <1>2, <1>3, RemoveNet
  <2> DEFINE a == Len(K) + 1
             b == Cardinality(L)
  <2>2. w.count[s] = [server |-> a, myserver |-> b]
    BY <1>4
  <2> HIDE DEF a, b, v, D
  <2>3. v.count[s] = [server |-> a - Cardinality(D), myserver |-> b]
    BY <2>1, <2>2 DEF Removed
  <2>4. At(w, v, s) /\ Net(v, X) /\ v.end = w.end /\ v.known[s] = Stay(w.known[s], D)
    BY <2>1 DEF Removed
  <2>5. v.count[s] = [server |-> (Len(K) + 1) - Cardinality(D), myserver |-> Cardinality(L)]
    BY <2>3, Zenon DEF a, b
  <2> HIDE DEF L
  <2> QED BY <2>4, <2>5
<1> HIDE DEF v, r
<1>7. Cardinality(D) \in Nat
  BY <1>5, FS_CardinalityType
<1>8. Len(r) + 1 = (Len(K) + 1) - Cardinality(D)
  <2> HIDE DEF D, K
  <2> QED BY <1>2, <1>5, <1>7
<1>9. Linked(v, s) = L /\ \A d : Peer(v, d, s) = Peer(w, d, s)
  BY <1>6 DEF Linked, IsServerLink, Peer
<1>10. \A i \in DOMAIN r : r[i].up = s => r[i].name = Peer(v, r[i].via, s)
  BY <1>1, <1>5, <1>9 DEF ListOK
<1>11. ListOK(v, s)
  <2> HIDE DEF L, D, K
  <2> QED BY <1>5, <1>6, <1>8, <1>9, <1>10 DEF ListOK
<1>12. Good(v, X)
  BY <1>6, <1>11, AtGood
<1> QED BY <1>6, <1>12 DEF v

\* v is w after s has lost the connection c.
Lost(w, v, s, c) ==
  /\ At(w, v, s) /\ v.end[c][s].st = "closed"
  /\ \A d \in Conn : d # c => v.end[d][s] = w.end[d][s]
  /\ \A i \in DOMAIN v.known[s] :
       v.known[s][i].via # c /\ \E k \in DOMAIN w.known[s] : v.known[s][i] = w.known[s][k]
  /\ \A k \in DOMAIN w.known[s] : w.known[s][k].via # c =>
       \E i \in DOMAIN v.known[s] : v.known[s][i] = w.known[s][k]

\* ExitLink leaves a good world: the end is closed, its servers are gone.
LEMMA ExitLinkGood ==
  ASSUME NEW w, NEW X, Good(w, X), NEW s \in Server, NEW c \in Conn, w.end[c][s].st # "none",
         NEW cptr
  PROVE  Good(ExitLink(w, s, c, cptr), X) /\ Lost(w, ExitLink(w, s, c, cptr), s, c)
<1> DEFINE v == ExitLink(w, s, c, cptr)
           u == Close(w, s, c)
           K == w.known[s]
           L == Linked(w, s)
<1>1. ListOK(w, s) /\ IsWorld(w) /\ Net(w, X) /\ Lists(w) /\ EndsOK(w)
  BY DEF Good, ListsOK, Lists, Net
<1>2. /\ Tree(K, s, L) /\ K \in Seq(Known(s)) /\ Len(K) \in Nat
      /\ L = {K[i].via : i \in DOMAIN K}
      /\ \A d \in L : \E i \in DOMAIN K : K[i].via = d /\ K[i].up = s
  <2>1. Tree(K, s, L)
    BY <1>1 DEF ListOK
  <2> HIDE DEF K, L
  <2>2. K \in Seq(Known(s)) /\ L = {K[i].via : i \in DOMAIN K}
    BY <2>1 DEF Tree
  <2>3. \A d \in L : \E i \in DOMAIN K : K[i].via = d /\ K[i].up = s
    BY <2>1 DEF Tree
  <2> QED BY <2>1, <2>2, <2>3
<1>3. /\ \A i \in DOMAIN K : K[i].up = s => K[i].name = Peer(w, K[i].via, s)
      /\ w.count[s] = [server |-> Len(K) + 1, myserver |-> Cardinality(L)]
  BY <1>1 DEF ListOK
<1>4. /\ IsWorld(u) /\ Net(u, X) /\ SameEnds(w, u)
      /\ u.known = w.known /\ u.count = w.count
      /\ u.end[c][s].st = "closed"
      /\ \A d \in Conn, r \in Server : d # c \/ r # s => u.end[d][r] = w.end[d][r]
      /\ \A d \in Conn : d # c => u.wire[d][s] = w.wire[d][s]
  BY <1>1, CloseNet
<1>5. v = IF ~IsServerLink(w, c, s) THEN u
          ELSE remove_dependents([u EXCEPT !.count[s].myserver = u.count[s].myserver - 1], s,
                 (CHOOSE e \in Range(K) : e.via = c /\ e.up = s).name, c, cptr)
  BY DEF ExitLink
<1> HIDE DEF u, v
<1>6. EndsOK(u)
  BY <1>4 DEF Net
<1>7. ASSUME NEW z, z.end = u.end, z.wire = u.wire PROVE Net(z, X)
  BY <1>4, <1>7 DEF Net, EndsOK, WiresOK
<1>8. At(w, u, s)
  <2>1. \A d \in Conn : u.end[d][s].st = "closed" \/ u.end[d][s] = w.end[d][s]
    BY <1>4
  <2>2. \A d \in Conn : \/ u.end[d][s].st = "closed"
                        \/ u.wire[d][s] = w.wire[d][s] /\ w.end[d][s].st # "closed"
    BY <1>4
  <2>3. \A d \in Conn : u.end[d][s].st \in Pre => w.end[d][s].st \in Pre
    BY <2>1 DEF Pre
  <2> QED BY <1>1, <1>4, <2>2, <2>3 DEF At, Lists
<1>9. Linked(u, s) = L \ {c}
  BY <1>4 DEF Linked, IsServerLink
<1>10. CASE ~IsServerLink(w, c, s)
  <2>1. v = u
    BY <1>5, <1>10
  <2>2. c \notin L
    BY <1>10 DEF Linked
  <2>3. Linked(v, s) = L
    BY <1>9, <2>1, <2>2
  <2>4. \A i \in DOMAIN K : K[i].via # c /\ Peer(v, K[i].via, s) = Peer(w, K[i].via, s)
    <3> SUFFICES ASSUME NEW i \in DOMAIN K
                 PROVE  K[i].via # c /\ Peer(v, K[i].via, s) = Peer(w, K[i].via, s)
      OBVIOUS
    <3>1. K[i].via \in L
      BY <1>2
    <3>2. K[i].via \in Conn /\ w.end[K[i].via][s].st # "none"
      BY <3>1 DEF Linked, IsServerLink
    <3> QED BY <1>1, <1>4, <1>6, <2>1, <2>2, <3>1, <3>2, SamePeer
  <2>5. ListOK(v, s)
    <3> HIDE DEF L
    <3> QED BY <1>2, <1>3, <1>4, <2>1, <2>3, <2>4 DEF ListOK
  <2>6. Good(v, X)
    BY <1>4, <1>8, <2>1, <2>5, AtGood
  <2>7. Lost(w, v, s, c)
    BY <1>4, <1>8, <2>1, <2>4 DEF Lost
  <2> QED BY <2>6, <2>7 DEF v
<1>11. CASE IsServerLink(w, c, s)
  <2> DEFINE e == CHOOSE e \in Range(K) : e.via = c /\ e.up = s
             z == [u EXCEPT !.count[s].myserver = u.count[s].myserver - 1]
  <2>1. c \in L
    BY <1>11 DEF Linked
  <2>2. e \in Range(K) /\ e.via = c /\ e.up = s
    <3>1. \E i \in DOMAIN K : K[i].via = c /\ K[i].up = s
      BY <1>2, <2>1
    <3>2. \E f \in Range(K) : f.via = c /\ f.up = s
      BY <3>1 DEF Range
    <3> QED BY <3>2
  <2>3. PICK n \in DOMAIN K : e = K[n]
    BY <2>2 DEF Range
  <2>4. v = remove_dependents(z, s, e.name, c, cptr)
    BY <1>5, <1>11
  <2> HIDE DEF e
  <2>5. K[n].via = c /\ K[n].up = s /\ K[n].name = e.name
    BY <2>2, <2>3
  <2>6. /\ IsWorld(z) /\ z.end = u.end /\ z.wire = u.wire /\ z.known = u.known
        /\ z.count = [u.count EXCEPT ![s] = [u.count[s] EXCEPT !.myserver = u.count[s].myserver - 1]]
    BY <1>4 DEF IsWorld
  <2> HIDE DEF z
  <2>7. /\ z.count[s] = [w.count[s] EXCEPT !.myserver = w.count[s].myserver - 1]
        /\ \A r \in Server : r # s => z.count[r] = w.count[r]
    BY <1>1, <1>4, <2>6 DEF Lists
  <2>8. z.count[s] = [server |-> Len(K) + 1, myserver |-> Cardinality(L) - 1]
    <3> HIDE DEF L, K
    <3> QED BY <1>3, <2>7
  <2>9. Lists(z)
    BY <1>1, <1>4, <2>6 DEF Lists
  <2>10. Net(z, X)
    BY <1>7, <2>6
  <2>11. At(w, z, s)
    BY <1>4, <1>8, <2>6, <2>7, <2>9 DEF At, SameEnds
  <2>12. e.name \in Server
    BY <1>2, <2>5, KnownTypes
  <2> DEFINE D == Dependents(K, e.name)
             r == Stay(K, D)
  <2>13. Removed(z, v, s, D, X)
    <3>1. z.known[s] = K
      BY <1>4, <2>6
    <3>2. Removed(z, v, s, Dependents(z.known[s], e.name), X)
      BY <1>2, <2>4, <2>6, <2>9, <2>10, <2>12, <3>1, RemoveNet
    <3> QED BY <3>1, <3>2
  <2>14. LinkGone(r, K, s, L, D, c)
    <3>1. \A k \in DOMAIN K : K[k].up = s /\ K[k].via = K[n].via => K[k].name = K[n].name
      BY <1>3, <2>5
    <3> HIDE DEF K, L
    <3>2. LinkGone(Stay(K, Dependents(K, K[n].name)), K, s, L, Dependents(K, K[n].name), K[n].via)
      BY <1>2, <2>3, <2>5, <3>1, PruneLink
    <3> QED BY <2>5, <3>2
  <2>15. /\ At(z, v, s) /\ Net(v, X) /\ v.end = u.end /\ v.known[s] = r
         /\ v.count[s] = [server |-> (Len(K) + 1) - Cardinality(D), myserver |-> Cardinality(L) - 1]
    <3>1. z.known[s] = K
      BY <1>4, <2>6
    <3> HIDE DEF K, L
    <3> DEFINE a == Len(K) + 1
               b == Cardinality(L) - 1
    <3>2. z.count[s] = [server |-> a, myserver |-> b]
      BY <2>8
    <3> HIDE DEF a, b, D
    <3>3. v.count[s] = [server |-> a - Cardinality(D), myserver |-> b]
      BY <2>13, <3>2 DEF Removed
    <3>4. At(z, v, s) /\ Net(v, X) /\ v.end = z.end /\ v.known[s] = Stay(z.known[s], D)
      BY <2>13 DEF Removed
    <3>5. v.count[s] = [server |-> (Len(K) + 1) - Cardinality(D), myserver |-> Cardinality(L) - 1]
      BY <3>3, Zenon DEF a, b
    <3> QED BY <2>6, <3>1, <3>4, <3>5
  <2> HIDE DEF r, D
  <2>16. At(w, v, s)
    BY <2>11, <2>15, AtAt
  <2>17. /\ Tree(r, s, L \ {c}) /\ IsFiniteSet(D) /\ Len(r) = Len(K) - Cardinality(D)
         /\ \A i \in DOMAIN r : \E k \in DOMAIN K : r[i] = K[k] /\ K[k].via # c
         /\ \A k \in DOMAIN K : K[k].via # c => \E i \in DOMAIN r : r[i] = K[k]
    BY <2>14 DEF LinkGone
  <2>18. Len(r) + 1 = (Len(K) + 1) - Cardinality(D)
    <3>1. Cardinality(D) \in Nat
      BY <2>17, FS_CardinalityType
    <3> HIDE DEF K
    <3> QED BY <1>2, <2>17, <3>1
  <2>19. Linked(v, s) = L \ {c}
    BY <1>9, <2>15 DEF Linked, IsServerLink
  <2>20. Cardinality(L \ {c}) = Cardinality(L) - 1
    <3>1. IsFiniteSet(L)
      BY LinkedFinite
    <3> HIDE DEF L
    <3> QED BY <2>1, <3>1, FS_RemoveElement
  <2>21. ASSUME NEW i \in DOMAIN r, r[i].up = s PROVE r[i].name = Peer(v, r[i].via, s)
    <3>1. PICK k \in DOMAIN K : r[i] = K[k]
      BY <2>17
    <3>2. K[k].via \in L
      BY <1>2
    <3>3. K[k].via \in Conn /\ w.end[K[k].via][s].st # "none"
      BY <3>2 DEF Linked, IsServerLink
    <3>4. EndsOK(v) /\ SameEnds(w, v)
      BY <2>15, <2>16 DEF Net, At
    <3> QED BY <1>1, <1>3, <2>21, <3>1, <3>3, <3>4, SamePeer
  <2>22. ListOK(v, s)
    <3> HIDE DEF L, K
    <3> QED BY <2>15, <2>17, <2>18, <2>19, <2>20, <2>21 DEF ListOK
  <2>23. Good(v, X)
    BY <2>15, <2>16, <2>22, AtGood
  <2>24. Lost(w, v, s, c)
    <3>1. v.end[c][s].st = "closed" /\ \A d \in Conn : d # c => v.end[d][s] = w.end[d][s]
      BY <1>4, <2>15
    <3> QED BY <2>15, <2>16, <2>17, <3>1 DEF Lost
  <2> QED BY <2>23, <2>24 DEF v
<1> QED BY <1>10, <1>11

\* What s says changes nothing of the lists.
LEMMA TalkGood ==
  ASSUME NEW w, NEW X, Good(w, X), NEW v, NEW s \in Server, NEW C, Talk(w, v, s, C)
  PROVE  Good(v, X) /\ At(w, v, s)
<1>1. Net(w, X) /\ Lists(w) /\ ListOK(w, s)
  BY DEF Good, ListsOK, Lists
<1>2. Net(v, X) /\ At(w, v, s)
  BY <1>1, TalkNet, TalkAt
<1>3. v.end = w.end /\ v.known = w.known /\ v.count = w.count
  BY DEF Talk
<1>4. Linked(v, s) = Linked(w, s) /\ \A d : Peer(v, d, s) = Peer(w, d, s)
  BY <1>3 DEF Linked, IsServerLink, Peer
<1>5. ListOK(v, s)
  BY <1>1, <1>3, <1>4 DEF ListOK
<1> QED BY <1>2, <1>5, AtGood

\* Entry finds the server it looks for.
LEMMA EntryIs ==
  ASSUME NEW w, NEW s, NEW name, find_server(w, s, name) # {}
  PROVE  \E n \in DOMAIN w.known[s] : Entry(w, s, name) = w.known[s][n] /\ w.known[s][n].name = name
<1> DEFINE n == CHOOSE i \in find_server(w, s, name) : TRUE
<1>1. n \in find_server(w, s, name)
  OBVIOUS
<1>2. n \in DOMAIN w.known[s] /\ w.known[s][n].name = name
  BY <1>1 DEF find_server
<1>3. Entry(w, s, name) = w.known[s][n]
  BY DEF Entry
<1> QED BY <1>2, <1>3

\* exit_client leaves a good world, whether the server is linked here or far.
LEMMA ExitClientGood ==
  ASSUME NEW w, NEW X, Good(w, X), NEW s \in Server, NEW name, find_server(w, s, name) # {},
         NEW cptr, NEW by \in Server \cup {None}, NEW user
  PROVE  /\ Good(exit_client(w, s, name, cptr, by, user), X)
         /\ At(w, exit_client(w, s, name, cptr, by, user), s)
<1> DEFINE e == Entry(w, s, name)
           v == remove_dependents(w, s, name, e.via, cptr)
           x == exit_client(w, s, name, cptr, by, user)
<1>1. PICK n \in DOMAIN w.known[s] : e = w.known[s][n] /\ w.known[s][n].name = name
  BY EntryIs
<1>2. ListOK(w, s) /\ Tree(w.known[s], s, Linked(w, s))
  BY DEF Good, ListsOK, ListOK
<1>3. e.via \in Conn /\ w.end[e.via][s].st = "server" /\ name \in Server
  <2>1. e.via \in Linked(w, s)
    BY <1>1, <1>2 DEF Tree
  <2>2. name \in Server
    BY <1>1, <1>2, KnownTypes DEF Tree
  <2> QED BY <2>1, <2>2 DEF Linked, IsServerLink
<1>4. x = IF e.up = s THEN ExitLink(w, s, e.via, cptr)
          ELSE IF e.via = cptr THEN v ELSE Send(v, s, e.via, <<SQUIT(by, user, name)>>)
  BY DEF exit_client
<1> HIDE DEF x, e
<1>5. CASE e.up = s
  <2>1. w.end[e.via][s].st # "none"
    BY <1>3
  <2> DEFINE c == e.via
  <2>2. c \in Conn /\ w.end[c][s].st # "none" /\ x = ExitLink(w, s, c, cptr)
    BY <1>3, <1>4, <1>5, <2>1
  <2> HIDE DEF c
  <2>3. Good(x, X) /\ Lost(w, x, s, c)
    BY <2>2, ExitLinkGood
  <2> QED BY <2>3 DEF Lost, x
<1>6. CASE e.up # s
  <2> DEFINE c == e.via
             q == <<SQUIT(by, user, name)>>
  <2>1. Good(v, X) /\ At(w, v, s) /\ v.end = w.end
    BY <1>1, <1>6, RemoveFar
  <2> HIDE DEF v
  <2>2. c \in Conn /\ v.end[c][s].st = "server"
    BY <1>3, <2>1
  <2>3. Chatter(q)
    BY <1>3, LinesOK, ShortLines
  <2> HIDE DEF q, c
  <2>4. v.end[c][s].st # "none" /\ v.end[c][s].st \in Said
    BY <2>2 DEF Said
  <2>5. IsWorld(v) /\ EndsOK(v) /\ IsMatrix(v.wire)
    BY <2>1 DEF Good, Net, WiresOK, IsMatrix
  <2>6. Talk(v, Send(v, s, c, q), s, {c})
    BY <2>2, <2>3, <2>4, <2>5, SendTalk
  <2>7. Good(Send(v, s, c, q), X) /\ At(v, Send(v, s, c, q), s)
    BY <2>1, <2>6, TalkGood
  <2>8. At(w, Send(v, s, c, q), s)
    BY <2>1, <2>7, AtAt
  <2>9. x = v \/ x = Send(v, s, c, q)
    BY <1>4, <1>6 DEF c, q
  <2>10. Good(x, X) /\ At(w, x, s)
    BY <2>1, <2>7, <2>8, <2>9
  <2> QED BY <2>10 DEF x
<1> QED BY <1>5, <1>6

-----------------------------------------------------------------------------
(* The handshake                                                           *)

\* A server that says Hello says its own name first.
LEMMA HelloIs ==
  ASSUME NEW s \in Server, NEW t
  PROVE  Chatter(Hello(s, t)) /\ Opening(Hello(s, t), s) /\ Greeted(Hello(s, t))
<1> DEFINE p == [cmd |-> "PASS", pass |-> scene.conf[<<s, t>>].sends]
           a == [cmd |-> "CAPAB", caps |-> Caps(s)]
           m == SERVER(None, s, 1)
           A == IF scene.conf[<<s, t>>].sends = "" THEN <<>> ELSE <<p>>
           B == <<a, m>>
<1>1. LineOK(p) /\ p.cmd # "SERVER"
  BY DEF LineOK
<1>2. LineOK(a) /\ a.cmd = "CAPAB"
  BY DEF LineOK
<1>3. LineOK(m) /\ m.cmd = "SERVER" /\ m.name = s
  BY LinesOK DEF SERVER
<1>4. Hello(s, t) = A \o B
  BY DEF Hello
<1>5. Chatter(A) /\ Opening(A, s)
  <2> HIDE DEF p
  <2>1. Chatter(<<>>) /\ Opening(<<>>, s)
    BY ShortLines DEF Opening
  <2>2. Chatter(<<p>>) /\ Opening(<<p>>, s)
    BY <1>1, ShortLines
  <2> QED BY <2>1, <2>2
<1> HIDE DEF A, a, m
<1>6. DOMAIN B = {1, 2} /\ B[1] = a /\ B[2] = m /\ B \in Seq({a, m})
  OBVIOUS
<1> HIDE DEF B
<1>7. Chatter(B)
  <2> DEFINE Z == {a, m}
  <2>1. \A x \in Z : LineOK(x)
    BY <1>2, <1>3
  <2>2. B \in Seq(Z)
    BY <1>6
  <2> HIDE DEF Z
  <2> QED BY <2>1, <2>2, ChatterOf
<1>8. Opening(B, s)
  BY <1>2, <1>3, <1>6 DEF Opening
<1>9. Greeted(B)
  BY <1>3, <1>6 DEF Greeted
<1> QED BY <1>4, <1>5, <1>7, <1>8, <1>9, MoreLines

\* A burst is good lines.
LEMMA BurstChatter ==
  ASSUME NEW w, NEW s \in Server, w.known[s] \in Seq(Known(s)), NEW c
  PROVE  Chatter(Burst(w, s, c))
<1> DEFINE K == w.known[s]
           S == {e \in Range(K) : e.via # c}
           b == Keep(K, S)
           q == [i \in DOMAIN b |-> SERVER(b[i].up, b[i].name, b[i].hop + 1)]
<1>1. Burst(w, s, c) = q
  BY DEF Burst
<1>2. K \in Seq(Known(s))
  OBVIOUS
<1> HIDE DEF S, K
<1>3. b \in Seq(Known(s))
  BY <1>2, KeepRange
<1> HIDE DEF b
<1>4. Len(b) \in Nat /\ DOMAIN b = 1 .. Len(b)
  BY <1>3
<1>5. ASSUME NEW i \in 1 .. Len(b) PROVE LineOK(q[i])
  <2>1. b[i].name \in Server /\ b[i].up \in Server /\ b[i].hop \in Nat
    BY <1>3, <1>4, KnownTypes
  <2>2. q[i] = SERVER(b[i].up, b[i].name, b[i].hop + 1)
    BY <1>4
  <2>3. b[i].hop + 1 \in Nat
    BY <2>1
  <2> QED BY <2>1, <2>2, <2>3, LinesOK
<1>6. q = [i \in 1 .. Len(b) |-> q[i]]
  BY <1>4
<1> HIDE DEF q
<1> QED BY <1>1, <1>4, <1>5, <1>6, ChatterFun

\* Of two changes of a cell the second counts.
LEMMA PutPut ==
  ASSUME NEW A, IsMatrix(A), NEW c \in Conn, NEW s \in Server, NEW x, NEW y
  PROVE  Put(Put(A, c, s, x), c, s, y) = Put(A, c, s, y)
<1> DEFINE B == Put(A, c, s, x)
           P == Put(B, c, s, y)
           Q == Put(A, c, s, y)
<1>1. IsMatrix(B) /\ \A d \in Conn, r \in Server : d # c \/ r # s => B[d][r] = A[d][r]
  BY PutIs
<1> HIDE DEF B
<1>2. /\ IsMatrix(P) /\ P[c][s] = y
      /\ \A d \in Conn, r \in Server : d # c \/ r # s => P[d][r] = B[d][r]
  BY <1>1, PutIs
<1>3. /\ IsMatrix(Q) /\ Q[c][s] = y
      /\ \A d \in Conn, r \in Server : d # c \/ r # s => Q[d][r] = A[d][r]
  BY PutIs
<1> HIDE DEF P, Q
<1>4. \A d \in Conn, r \in Server : P[d][r] = Q[d][r]
  BY <1>1, <1>2, <1>3
<1>5. P = [d \in Conn |-> [r \in Server |-> P[d][r]]] /\ Q = [d \in Conn |-> [r \in Server |-> Q[d][r]]]
  BY <1>2, <1>3 DEF IsMatrix
<1>6. \A d \in Conn : [r \in Server |-> P[d][r]] = [r \in Server |-> Q[d][r]]
  BY <1>4
<1>7. P = Q
  BY <1>5, <1>6
<1> QED BY <1>7 DEF P, Q, B

\* The end t of c has been greeted.
HasBeenGreeted(w, c, t) ==
  \A r \in Server : w.end[c][t].st \in Pre /\ r # t /\ w.end[c][r].st # "none"
    => Opening(w.wire[c][t], r) /\ (w.end[c][r].st \in Said => Greeted(w.wire[c][t]))

\* An end needs no exemption when it has been greeted.
LEMMA NetDrop ==
  ASSUME NEW w, NEW X, NEW c \in Conn, NEW t \in Server, Net(w, X \cup {<<c, t>>}),
         HasBeenGreeted(w, c, t)
  PROVE  Net(w, X)
<1>1. ASSUME NEW d \in Conn, NEW r \in Server, NEW p \in Server,
             <<d, r>> \notin X, r # p, w.end[d][r].st \in Pre, w.end[d][p].st # "none"
      PROVE  /\ Opening(w.wire[d][r], p)
             /\ w.end[d][p].st \in Said => Greeted(w.wire[d][r])
  <2>1. CASE d = c /\ r = t
    BY <1>1, <2>1 DEF HasBeenGreeted
  <2>2. CASE ~(d = c /\ r = t)
    <3>1. <<d, r>> \notin X \cup {<<c, t>>}
      BY <1>1, <2>2
    <3> QED BY <1>1, <3>1 DEF Net, WiresOK
  <2> QED BY <2>1, <2>2
<1> QED BY <1>1 DEF Net, WiresOK

\* The fields of a world with one more server.
LEMMA AddIs ==
  ASSUME NEW w, IsWorld(w), Lists(w), NEW s \in Server, NEW name, NEW via, NEW up, NEW hop
  PROVE  LET v == Add(w, s, name, via, up, hop) IN
         /\ IsWorld(v) /\ Lists(v) /\ v.end = w.end /\ v.wire = w.wire
         /\ v.known[s] = Append(w.known[s], [name |-> name, via |-> via, up |-> up, hop |-> hop])
         /\ v.count[s] = [w.count[s] EXCEPT !.server = w.count[s].server + 1]
         /\ \A r \in Server : r # s => v.known[r] = w.known[r] /\ v.count[r] = w.count[r]
<1> DEFINE v == Add(w, s, name, via, up, hop)
           e == [name |-> name, via |-> via, up |-> up, hop |-> hop]
           x == w.count[s].server + 1
<1>1. v = [w EXCEPT !.known[s] = Append(w.known[s], e), !.count[s].server = x]
  BY DEF Add
<1> HIDE DEF v, e, x
<1>2. /\ IsWorld(v) /\ v.end = w.end /\ v.wire = w.wire
      /\ v.known = [w.known EXCEPT ![s] = Append(w.known[s], e)]
      /\ v.count = [w.count EXCEPT ![s] = [w.count[s] EXCEPT !.server = x]]
  BY <1>1 DEF IsWorld
<1>3. Lists(v)
  BY <1>2 DEF Lists
<1>4. /\ v.known[s] = Append(w.known[s], e) /\ v.count[s] = [w.count[s] EXCEPT !.server = x]
      /\ \A r \in Server : r # s => v.known[r] = w.known[r] /\ v.count[r] = w.count[r]
  BY <1>2 DEF Lists
<1> QED BY <1>2, <1>3, <1>4 DEF v, e, x

\* A server behind a link is added.
LEMMA AddFar ==
  ASSUME NEW w, NEW X, Good(w, X), NEW s \in Server, NEW name \in Server, name # s,
         NEW c \in Linked(w, s), NEW up \in Server, up # s, NEW hop \in Nat,
         \A k \in DOMAIN w.known[s] : w.known[s][k].name # name,
         \E k \in DOMAIN w.known[s] : w.known[s][k].name = up /\ w.known[s][k].via = c
  PROVE  /\ Good(Add(w, s, name, c, up, hop), X) /\ At(w, Add(w, s, name, c, up, hop), s)
         /\ Add(w, s, name, c, up, hop).end = w.end
<1> DEFINE v == Add(w, s, name, c, up, hop)
           K == w.known[s]
           L == Linked(w, s)
           e == [name |-> name, via |-> c, up |-> up, hop |-> hop]
           r == Append(K, e)
<1>1. ListOK(w, s) /\ IsWorld(w) /\ Net(w, X) /\ Lists(w)
  BY DEF Good, ListsOK, Lists
<1>2. Tree(K, s, L) /\ w.count[s] = [server |-> Len(K) + 1, myserver |-> Cardinality(L)]
  BY <1>1 DEF ListOK
<1>3. c \in Conn
  BY DEF Linked
<1>4. e \in Known(s) /\ e.name = name /\ e.up = up /\ e.via = c
  BY <1>3 DEF Known
<1>5. /\ IsWorld(v) /\ Lists(v) /\ v.end = w.end /\ v.wire = w.wire
      /\ v.known[s] = r
      /\ v.count[s] = [w.count[s] EXCEPT !.server = w.count[s].server + 1]
      /\ \A p \in Server : p # s => v.known[p] = w.known[p] /\ v.count[p] = w.count[p]
  BY <1>1, AddIs
<1> HIDE DEF v, e
<1>6. /\ Tree(r, s, L \cup {c}) /\ Len(r) = Len(K) + 1
      /\ \A i \in DOMAIN r : (i \in DOMAIN K /\ r[i] = K[i]) \/ r[i] = e
  <2>1. /\ \A k \in DOMAIN K : K[k].name # e.name
        /\ \E k \in DOMAIN K : K[k].name = e.up /\ K[k].via = e.via
    BY <1>4
  <2> HIDE DEF K, L
  <2> QED BY <1>2, <1>4, <2>1, TreeAdd
<1> HIDE DEF r
<1>7. L \cup {c} = L
  OBVIOUS
<1>8. Linked(v, s) = L /\ \A d : Peer(v, d, s) = Peer(w, d, s)
  BY <1>5 DEF Linked, IsServerLink, Peer
<1>9. v.count[s] = [server |-> Len(r) + 1, myserver |-> Cardinality(L)]
  <2> HIDE DEF K, L
  <2> QED BY <1>2, <1>5, <1>6
<1>10. \A i \in DOMAIN r : r[i].up = s => r[i].name = Peer(v, r[i].via, s)
  BY <1>1, <1>4, <1>6, <1>8 DEF ListOK
<1>11. ListOK(v, s)
  <2> HIDE DEF K, L
  <2> QED BY <1>5, <1>6, <1>7, <1>8, <1>9, <1>10 DEF ListOK
<1>12. Net(v, X)
  BY <1>1, <1>5 DEF Net, EndsOK, WiresOK
<1>13. At(w, v, s)
  BY <1>5 DEF At, SameEnds
<1>14. Good(v, X)
  BY <1>11, <1>12, <1>13, AtGood
<1> QED BY <1>5, <1>13, <1>14 DEF v

Linking(w, s, c, name, hop) ==
  [Add(w, s, name, c, s, hop) EXCEPT !.end[c][s].st = "server", !.end[c][s].pass = "",
                                     !.count[s].myserver = @ + 1]

IsUp(w, v, s, c, Y) ==
  /\ Good(v, Y) /\ At(w, v, s)
  /\ v.wire = w.wire /\ v.end[c][s].st = "server" /\ Linked(v, s) = Linked(w, s) \cup {c}

\* The link c stands for s: its other end has still to be greeted.
LEMMA LinkUp ==
  ASSUME NEW w, NEW X, Good(w, X), NEW s \in Server, NEW c \in Conn,
         w.end[c][s].st \in {"unknown", "handshake"}, NEW name, name = Peer(w, c, s),
         \A k \in DOMAIN w.known[s] : w.known[s][k].name # name, NEW hop \in Nat
  PROVE  IsUp(w, Linking(w, s, c, name, hop), s, c, X \cup {<<c, name>>})
<1> DEFINE v == Linking(w, s, c, name, hop)
           u == Add(w, s, name, c, s, hop)
           K == w.known[s]
           L == Linked(w, s)
           f == [name |-> name, via |-> c, up |-> s, hop |-> hop]
           r == Append(K, f)
           Y == X \cup {<<c, name>>}
<1>1. ListOK(w, s) /\ IsWorld(w) /\ Net(w, X) /\ Lists(w) /\ EndsOK(w)
  BY DEF Good, ListsOK, Lists, Net
<1>2. Tree(K, s, L) /\ w.count[s] = [server |-> Len(K) + 1, myserver |-> Cardinality(L)]
  BY <1>1 DEF ListOK
<1>3. /\ name \in Server /\ name # s
      /\ \A t \in Server : t # s /\ w.end[c][t].st # "none" => t = name
  <2>1. w.end[c][s].st # "none"
    OBVIOUS
  <2> QED BY <1>1, <2>1, PeerIs
<1>4. f \in Known(s) /\ f.name = name /\ f.up = s /\ f.via = c
  BY <1>3 DEF Known
<1>5. /\ IsWorld(u) /\ Lists(u) /\ u.end = w.end /\ u.wire = w.wire
      /\ u.known[s] = r
      /\ u.count[s] = [w.count[s] EXCEPT !.server = w.count[s].server + 1]
      /\ \A p \in Server : p # s => u.known[p] = w.known[p] /\ u.count[p] = w.count[p]
  BY <1>1, AddIs
<1>6. v = [u EXCEPT !.end[c][s].st = "server", !.end[c][s].pass = "",
                    !.count[s].myserver = u.count[s].myserver + 1]
  BY DEF Linking
<1> HIDE DEF u, v, f
<1> DEFINE g == [w.end[c][s] EXCEPT !.st = "server"]
           e == [g EXCEPT !.pass = ""]
           B == Put(w.end, c, s, g)
<1>7. /\ IsWorld(v) /\ v.known = u.known /\ v.wire = u.wire
      /\ v.count = [u.count EXCEPT ![s] = [u.count[s] EXCEPT !.myserver = u.count[s].myserver + 1]]
  BY <1>5, <1>6 DEF IsWorld
<1>8. v.end = Put(B, c, s, [B[c][s] EXCEPT !.pass = ""])
  <2> DEFINE y == [u EXCEPT !.end[c][s].st = "server"]
             z == [y EXCEPT !.end[c][s].pass = ""]
             x == u.count[s].myserver + 1
  <2>1. v = [z EXCEPT !.count[s].myserver = x]
    BY <1>6
  <2>2. y.end = B /\ IsWorld(y)
    BY <1>5 DEF IsWorld, Put
  <2> HIDE DEF y, B, g, e
  <2>3. z.end = Put(y.end, c, s, [y.end[c][s] EXCEPT !.pass = ""]) /\ IsWorld(z)
    <3>1. ASSUME NEW a, IsWorld(a)
          PROVE  IsWorld([a EXCEPT !.end[c][s].pass = ""])
                 /\ [a EXCEPT !.end[c][s].pass = ""].end
                      = [a.end EXCEPT ![c][s].pass = ""]
      <4> DEFINE E == [a.end EXCEPT ![c][s].pass = ""]
      <4>1. [a EXCEPT !.end[c][s].pass = ""] = [a EXCEPT !.end = E]
        OBVIOUS
      <4> HIDE DEF E
      <4>2. IsWorld([a EXCEPT !.end = E]) /\ [a EXCEPT !.end = E].end = E
        BY <3>1 DEF IsWorld
      <4> QED BY <4>1, <4>2 DEF E
    <3>2. z.end = [y.end EXCEPT ![c][s].pass = ""] /\ IsWorld(z)
      BY <2>2, <3>1
    <3> HIDE DEF z
    <3> QED BY <3>2 DEF Put
  <2> HIDE DEF z, x
  <2>4. v.end = z.end
    BY <2>1, <2>3 DEF IsWorld
  <2> QED BY <2>2, <2>3, <2>4
<1>9. v.end = Put(w.end, c, s, e)
  <2>1. IsMatrix(w.end)
    BY <1>1 DEF EndsOK, IsMatrix
  <2> HIDE DEF g
  <2>2. B[c][s] = g
    BY <2>1, PutIs
  <2>3. v.end = Put(B, c, s, e)
    BY <1>8, <2>2
  <2> HIDE DEF e
  <2> QED BY <2>1, <2>3, PutPut
<1>10. IsEnd(e) /\ e.st = "server"
  <2>1. IsEnd(w.end[c][s])
    BY <1>1 DEF EndsOK
  <2>2. IsClient(g) /\ g.st = "server" /\ g.first = w.end[c][s].first
    BY <2>1, SetSt DEF IsEnd
  <2> HIDE DEF g
  <2>3. IsClient(e) /\ e.st = "server" /\ e.first = g.first
    BY <2>2, SetPass
  <2> HIDE DEF e
  <2> QED BY <2>1, <2>2, <2>3 DEF IsEnd, States
<1> HIDE DEF e, B, g
<1>11. /\ Net(v, Y) /\ SameEnds(w, v)
       /\ v.end[c][s] = e
       /\ \A d \in Conn, p \in Server : d # c \/ p # s => v.end[d][p] = w.end[d][p]
  <2>1. Moves(w, v, c, s, e, X, Y)
    <3>1. X \subseteq Y /\ \A p \in Server : p # s /\ w.end[c][p].st # "none" => <<c, p>> \in Y
      BY <1>3
    <3> QED BY <1>5, <1>7, <1>9, <1>10, <3>1 DEF Moves, Pre
  <2> HIDE DEF Y
  <2> QED BY <1>1, <2>1, NetMove
<1>12. /\ v.count[s] = [u.count[s] EXCEPT !.myserver = u.count[s].myserver + 1]
       /\ \A p \in Server : p # s => v.count[p] = u.count[p]
  BY <1>5, <1>7 DEF Lists
<1>13. Lists(v)
  BY <1>5, <1>7 DEF Lists
<1>14. At(w, v, s)
  <2>1. \A d \in Conn : v.end[d][s].st \in Pre => w.end[d][s].st \in Pre
    BY <1>10, <1>11 DEF Pre
  <2>2. \A d \in Conn : v.end[d][s].st = "closed" \/ w.end[d][s].st # "closed"
    BY <1>11
  <2> QED BY <1>5, <1>7, <1>11, <1>12, <1>13, <2>1, <2>2 DEF At
<1>15. c \notin L
  BY DEF Linked, IsServerLink
<1>16. Linked(v, s) = L \cup {c}
  BY <1>10, <1>11 DEF Linked, IsServerLink
<1>17. /\ Tree(r, s, L \cup {c}) /\ Len(r) = Len(K) + 1
       /\ \A i \in DOMAIN r : (i \in DOMAIN K /\ r[i] = K[i]) \/ r[i] = f
  <2>1. \A k \in DOMAIN K : K[k].name # f.name
    BY <1>4
  <2> HIDE DEF K, L
  <2> QED BY <1>2, <1>4, <2>1, TreeAdd
<1> HIDE DEF r
<1>18. Cardinality(L \cup {c}) = Cardinality(L) + 1
  <2>1. IsFiniteSet(L)
    BY LinkedFinite
  <2> HIDE DEF L
  <2> QED BY <1>15, <2>1, FS_AddElement
<1>19. v.count[s] = [server |-> Len(r) + 1, myserver |-> Cardinality(L \cup {c})]
  <2>1. u.count[s] = [server |-> (Len(K) + 1) + 1, myserver |-> Cardinality(L)]
    <3> HIDE DEF K, L
    <3> QED BY <1>2, <1>5
  <2> HIDE DEF K, L
  <2> QED BY <1>12, <1>17, <1>18, <2>1
<1>20. ASSUME NEW i \in DOMAIN r, r[i].up = s PROVE r[i].name = Peer(v, r[i].via, s)
  <2>1. EndsOK(v)
    BY <1>11 DEF Net
  <2>2. CASE r[i] = f
    <3>1. Peer(v, c, s) = Peer(w, c, s)
      BY <1>1, <1>11, <2>1, SamePeer
    <3> QED BY <1>4, <2>2, <3>1
  <2>3. CASE i \in DOMAIN K /\ r[i] = K[i]
    <3>1. K[i].via \in L
      BY <1>2, <2>3 DEF Tree
    <3>2. K[i].via \in Conn /\ w.end[K[i].via][s].st # "none"
      BY <3>1 DEF Linked, IsServerLink
    <3>3. K[i].name = Peer(w, K[i].via, s)
      BY <1>1, <1>20, <2>3 DEF ListOK
    <3> QED BY <1>1, <1>11, <2>1, <2>3, <3>2, <3>3, SamePeer
  <2> QED BY <1>17, <2>2, <2>3
<1>21. ListOK(v, s)
  <2> HIDE DEF K, L
  <2> QED BY <1>5, <1>7, <1>16, <1>17, <1>19, <1>20 DEF ListOK
<1>22. Good(v, Y)
  <2> HIDE DEF Y
  <2> QED BY <1>11, <1>14, <1>21, AtGood
<1>23. IsUp(w, v, s, c, Y)
  <2> HIDE DEF Y, L
  <2> QED BY <1>5, <1>7, <1>10, <1>11, <1>14, <1>16, <1>22 DEF IsUp, L
<1> QED BY <1>23 DEF v

\* The lines that greet the other end.
LEMMA Greeting ==
  ASSUME NEW h, NEW b, Chatter(b), NEW s,
         h = <<>> \/ (Chatter(h) /\ Opening(h, s) /\ Greeted(h))
  PROVE  LET q == h \o <<[cmd |-> "SVINFO"]>> \o b IN
         Chatter(q) /\ (h # <<>> => Opening(q, s) /\ Greeted(q))
<1> DEFINE m == [cmd |-> "SVINFO"]
           a == h \o <<m>>
           q == a \o b
<1>1. Chatter(<<m>>)
  <2>1. LineOK(m)
    BY DEF LineOK
  <2> HIDE DEF m
  <2> QED BY <2>1, ShortLines
<1>2. Chatter(h)
  BY ShortLines
<1> HIDE DEF m
<1>3. Chatter(a) /\ (h # <<>> => Opening(a, s) /\ Greeted(a))
  BY <1>1, <1>2, MoreLines
<1> HIDE DEF a
<1>4. Chatter(q) /\ (h # <<>> => Opening(q, s) /\ Greeted(q))
  BY <1>3, MoreLines
<1> QED BY <1>4 DEF a, m

\* server_estab leaves a good world, whether it refuses the link or takes it.
LEMMA EstabGood ==
  ASSUME NEW w, NEW X, Good(w, X), NEW s \in Server, NEW c \in Conn,
         w.end[c][s].st \in {"unknown", "handshake"}, NEW name, name = Peer(w, c, s),
         <<c, name>> \notin X,
         \A k \in DOMAIN w.known[s] : w.known[s][k].name # name, NEW hop \in Nat
  PROVE  LET v == server_estab(w, s, c, name, hop) IN
         Good(v, X) /\ At(w, v, s) /\ v.end[c][s].st \in {"server", "closed"}
<1> DEFINE v == server_estab(w, s, c, name, hop)
           e == w.end[c][s]
           conf == scene.conf[<<s, name>>]
           hello == IF e.st = "unknown" THEN Hello(s, name) ELSE <<>>
           others == Linked(w, s)
           linked == Linking(w, s, c, name, hop)
           lines == [o \in others |-> <<SERVER(s, name, 2)>>]
           told == SendEach(linked, s, others, lines)
           q == hello \o <<[cmd |-> "SVINFO"]>> \o Burst(told, s, c)
           sent == Send(told, s, c, q)
           Y == X \cup {<<c, name>>}
<1>1. v = ExitLink(w, s, c, c) \/ v = sent
  BY DEF server_estab, Linking
<1>2. e.st # "none" /\ Net(w, X) /\ EndsOK(w)
  BY DEF Good, Net
<1>3. CASE v = ExitLink(w, s, c, c)
  <2>1. Good(v, X) /\ Lost(w, v, s, c)
    BY <1>2, <1>3, ExitLinkGood
  <2> HIDE DEF v
  <2>2. At(w, v, s) /\ v.end[c][s].st \in {"server", "closed"}
    BY <2>1 DEF Lost
  <2> QED BY <2>1, <2>2 DEF v
<1>4. CASE v = sent
  <2>1. /\ name \in Server /\ name # s /\ e.st \in {"unknown", "handshake"}
        /\ \A t \in Server : t # s /\ w.end[c][t].st # "none" => t = name
    BY <1>2, PeerIs
  <2>2. Chatter(hello) /\ (e.st = "unknown" => Opening(hello, s) /\ Greeted(hello))
    BY <2>1, HelloIs, ShortLines
  <2>3. hello = <<>> \/ (Chatter(hello) /\ Opening(hello, s) /\ Greeted(hello))
    BY <2>1, HelloIs
  <2>4. e.st = "unknown" => hello # <<>>
    <3>1. ~Greeted(<<>>)
      BY DEF Greeted
    <3> HIDE DEF hello
    <3> QED BY <2>2, <3>1
  <2> HIDE DEF hello, v
  <2>5. /\ Good(linked, Y) /\ At(w, linked, s)
        /\ linked.wire = w.wire /\ linked.end[c][s].st = "server" /\ Linked(linked, s) = others \cup {c}
    <3>1. IsUp(w, linked, s, c, Y)
      BY LinkUp
    <3> HIDE DEF linked, Y
    <3> QED BY <3>1 DEF IsUp
  <2> HIDE DEF linked
  <2>6. c \notin others /\ others \in SUBSET Linked(linked, s)
    BY <2>5 DEF Linked, IsServerLink
  <2>7. \A o \in others : Chatter(lines[o])
    <3>1. Chatter(<<SERVER(s, name, 2)>>)
      <4>1. LineOK(SERVER(s, name, 2))
        BY <2>1, LinesOK
      <4> QED BY <4>1, ShortLines
    <3> HIDE DEF others
    <3> QED BY <3>1
  <2> HIDE DEF lines, Y, others
  <2>8. IsWorld(linked) /\ EndsOK(linked) /\ IsMatrix(linked.wire)
    BY <2>5 DEF Good, Net, WiresOK, IsMatrix
  <2>9. Talk(linked, told, s, others)
    BY <2>6, <2>7, <2>8, SendEachTalk
  <2> HIDE DEF told
  <2>10. Good(told, Y) /\ At(linked, told, s) /\ told.end = linked.end
    <3>1. told.end = linked.end
      BY <2>9 DEF Talk
    <3> QED BY <2>5, <2>9, <3>1, TalkGood
  <2>11. told.wire[c][name] = w.wire[c][name]
    BY <2>1, <2>5, <2>6, <2>9 DEF Talk
  <2>12. Chatter(Burst(told, s, c))
    <3>1. told.known[s] \in Seq(Known(s))
      BY <2>10 DEF Good, ListsOK, ListOK, Tree
    <3> QED BY <3>1, BurstChatter
  <2>13. Chatter(q) /\ (hello # <<>> => Opening(q, s) /\ Greeted(q))
    BY <2>3, <2>12, Greeting
  <2> HIDE DEF q
  <2>14. IsWorld(told) /\ EndsOK(told) /\ IsMatrix(told.wire)
    BY <2>10 DEF Good, Net, WiresOK, IsMatrix
  <2>15. told.end[c][s].st = "server" /\ told.end[c][s].st \in Said /\ told.end[c][s].st # "none"
    BY <2>5, <2>10 DEF Said
  <2>16. SameEnds(w, linked)
    BY <2>5 DEF At
  <2>17. Peer(told, c, s) = name
    <3>1. Peer(linked, c, s) = Peer(w, c, s)
      BY <1>2, <2>8, <2>16, SamePeer
    <3>2. Peer(told, c, s) = Peer(linked, c, s)
      BY <2>10, SMTT(30) DEF Peer
    <3> QED BY <3>1, <3>2
  <2>18. /\ Talk(told, sent, s, {c})
         /\ \/ told.end[c][s].st = "closed" \/ told.end[c][name].st = "closed"
            \/ sent.wire[c][name] = told.wire[c][name] \o q
    <3>1. Talk(told, Send(told, s, c, q), s, {c})
      BY <2>13, <2>14, <2>15, SendTalk
    <3>2. \/ told.end[c][s].st = "closed" \/ told.end[c][Peer(told, c, s)].st = "closed"
          \/ Send(told, s, c, q).wire[c][Peer(told, c, s)] = told.wire[c][Peer(told, c, s)] \o q
      BY <2>13, <2>14, <2>15, SendTalk
    <3> QED BY <2>17, <3>1, <3>2, Zenon
  <2> HIDE DEF sent
  <2>19. Good(sent, Y) /\ At(told, sent, s) /\ sent.end = told.end
    <3>1. sent.end = told.end
      BY <2>18, Zenon DEF Talk
    <3> QED BY <2>10, <2>18, <3>1, TalkGood
  <2>20. At(w, sent, s)
    BY <2>5, <2>10, <2>19, AtAt
  <2>21. sent.end[c][s].st = "server"
    BY <2>15, <2>19
  <2>22. ASSUME NEW r \in Server, sent.end[c][name].st \in Pre, r # name,
                sent.end[c][r].st # "none"
         PROVE  Opening(sent.wire[c][name], r) /\ Greeted(sent.wire[c][name])
    <3>1. sent.end[c][name] = w.end[c][name] /\ w.end[c][r].st # "none"
      BY <2>1, <2>20, <2>22 DEF At, SameEnds
    <3>2. r = s
      BY <2>1, <2>22, <3>1
    <3>3. w.end[c][name].st \in Pre /\ told.end[c][name].st # "closed"
      BY <2>19, <2>22, <3>1, SMTT(30) DEF Pre
    <3>4. sent.wire[c][name] = w.wire[c][name] \o q
      BY <2>11, <2>15, <2>18, <3>3, Zenon
    <3>5. /\ Opening(w.wire[c][name], s) /\ Chatter(w.wire[c][name])
          /\ e.st \in Said => Greeted(w.wire[c][name])
      BY <1>2, <2>1, <3>3 DEF Net, WiresOK
    <3>6. Greeted(w.wire[c][name]) \/ (Opening(q, s) /\ Greeted(q))
      BY <2>1, <2>4, <2>13, <3>5 DEF Said
    <3> QED BY <2>13, <3>2, <3>4, <3>5, <3>6, MoreLines
  <2>23. Net(sent, X)
    <3>1. Net(sent, X \cup {<<c, name>>})
      BY <2>19 DEF Good, Y
    <3>2. HasBeenGreeted(sent, c, name)
      BY <2>22 DEF HasBeenGreeted
    <3> QED BY <2>1, <3>1, <3>2, NetDrop
  <2>24. Good(sent, X)
    BY <2>19, <2>23 DEF Good
  <2> QED BY <1>4, <2>20, <2>21, <2>24 DEF v
<1> QED BY <1>1, <1>3, <1>4

\* What a line of s about another server leaves behind: the link that brought
\* it stands or is closed.
Done(w, v, s, c, X) ==
  Good(v, X) /\ At(w, v, s) /\ v.end[c][s].st \in {"server", "closed"}

\* A world as it is.
LEMMA AtSelf ==
  ASSUME NEW w, NEW X, Good(w, X), NEW s \in Server
  PROVE  At(w, w, s)
BY DEF Good, ListsOK, Lists, At, SameEnds

\* ExitLink has closed the end.
LEMMA ExitLinkDone ==
  ASSUME NEW w, NEW X, Good(w, X), NEW s \in Server, NEW c \in Conn, w.end[c][s].st # "none",
         NEW cptr
  PROVE  Done(w, ExitLink(w, s, c, cptr), s, c, X)
<1> DEFINE v == ExitLink(w, s, c, cptr)
<1>1. Good(v, X) /\ Lost(w, v, s, c)
  BY ExitLinkGood
<1> HIDE DEF v
<1>2. Done(w, v, s, c, X)
  BY <1>1 DEF Done, Lost
<1> QED BY <1>2 DEF v

\* A SERVER line that parse lets through: the first one on a connection names
\* its other end, and a prefix is known by way of the link.
Offer(w, s, c, m) ==
  /\ m.name \in Server /\ m.by \in Server \cup {None} /\ m.hop \in Nat
  /\ w.end[c][s].st # "server" => m.name = Peer(w, c, s)
  /\ w.end[c][s].st = "server" /\ m.by # None =>
       m.by # s /\ \E k \in DOMAIN w.known[s] : w.known[s][k].name = m.by /\ w.known[s][k].via = c

\* Introduce leaves a good world when the name is free.
LEMMA IntroduceGood ==
  ASSUME NEW w, NEW X, Good(w, X), NEW s \in Server, NEW c \in Conn,
         w.end[c][s].st \in {"unknown", "handshake", "server"}, <<c, Peer(w, c, s)>> \notin X,
         NEW m, Offer(w, s, c, m), m.name # s,
         \A k \in DOMAIN w.known[s] : w.known[s][k].name # m.name
  PROVE  Done(w, Introduce(w, s, c, m), s, c, X)
<1> DEFINE x == Introduce(w, s, c, m)
           up == IF m.by = None THEN Peer(w, c, s) ELSE m.by
           v == Add(w, s, m.name, c, up, m.hop)
           C == Linked(v, s) \ {c}
           lines == [o \in Conn |-> <<SERVER(up, m.name, m.hop + 1)>>]
           told == SendEach(v, s, C, lines)
<1>1. w.end[c][s].st # "none" /\ EndsOK(w) /\ ListOK(w, s)
  BY DEF Good, Net, ListsOK
<1>2. Peer(w, c, s) \in Server /\ Peer(w, c, s) # s
  BY <1>1, PeerIs
<1>3. Done(w, ExitLink(w, s, c, c), s, c, X)
  BY <1>1, ExitLinkDone
<1>4. \/ x = ExitLink(w, s, c, c)
      \/ x = server_estab(w, s, c, m.name, m.hop) /\ ~IsServerLink(w, c, s)
      \/ x = told /\ IsServerLink(w, c, s)
  BY DEF Introduce
<1> HIDE DEF x
<1>5. CASE x = server_estab(w, s, c, m.name, m.hop) /\ ~IsServerLink(w, c, s)
  <2> DEFINE name == m.name
             hop == m.hop
  <2>1. w.end[c][s].st \in {"unknown", "handshake"}
    BY <1>5 DEF IsServerLink
  <2>2. name = Peer(w, c, s) /\ hop \in Nat /\ \A k \in DOMAIN w.known[s] : w.known[s][k].name # name
    BY <2>1 DEF Offer
  <2>3. <<c, name>> \notin X
    BY <2>2
  <2>4. x = server_estab(w, s, c, name, hop)
    BY <1>5
  <2> HIDE DEF name, hop
  <2>5. Good(x, X) /\ At(w, x, s) /\ x.end[c][s].st \in {"server", "closed"}
    BY <2>1, <2>2, <2>3, <2>4, EstabGood
  <2> QED BY <2>5 DEF Done, x
<1>6. CASE x = told /\ IsServerLink(w, c, s)
  <2>1. w.end[c][s].st = "server" /\ c \in Linked(w, s)
    BY <1>6 DEF IsServerLink, Linked
  <2>2. /\ up \in Server /\ up # s
        /\ \E k \in DOMAIN w.known[s] : w.known[s][k].name = up /\ w.known[s][k].via = c
    <3>1. CASE m.by = None
      <4>1. \E k \in DOMAIN w.known[s] : w.known[s][k].via = c /\ w.known[s][k].up = s
        BY <1>1, <2>1 DEF ListOK, Tree
      <4>2. PICK k \in DOMAIN w.known[s] : w.known[s][k].via = c /\ w.known[s][k].up = s
        BY <4>1
      <4>3. w.known[s][k].name = Peer(w, c, s)
        BY <1>1, <4>2 DEF ListOK
      <4> QED BY <1>2, <3>1, <4>2, <4>3
    <3>2. CASE m.by # None
      BY <2>1, <3>2 DEF Offer
    <3> QED BY <3>1, <3>2
  <2> HIDE DEF up
  <2>3. m.name \in Server /\ m.hop \in Nat
    BY DEF Offer
  <2>4. Good(v, X) /\ At(w, v, s) /\ v.end = w.end
    BY <2>1, <2>2, <2>3, AddFar
  <2> HIDE DEF v
  <2>5. C \in SUBSET Linked(v, s) /\ \A o \in C : o \in Conn
    BY DEF Linked
  <2>6. \A o \in C : Chatter(lines[o])
    <3>1. LineOK(SERVER(up, m.name, m.hop + 1))
      <4>1. m.hop + 1 \in Nat
        BY <2>3
      <4> QED BY <2>2, <2>3, <4>1, LinesOK
    <3>2. Chatter(<<SERVER(up, m.name, m.hop + 1)>>)
      BY <3>1, ShortLines
    <3> HIDE DEF C
    <3> QED BY <2>5, <3>2
  <2> HIDE DEF C, lines
  <2>7. IsWorld(v) /\ EndsOK(v) /\ IsMatrix(v.wire)
    BY <2>4 DEF Good, Net, WiresOK, IsMatrix
  <2>8. Talk(v, told, s, C)
    BY <2>5, <2>6, <2>7, SendEachTalk
  <2> HIDE DEF told
  <2>9. told.end = v.end
    BY <2>8 DEF Talk
  <2>10. Good(told, X) /\ At(v, told, s)
    BY <2>4, <2>8, TalkGood
  <2>11. At(w, told, s)
    BY <2>4, <2>10, AtAt
  <2>12. Done(w, told, s, c, X)
    BY <2>1, <2>4, <2>9, <2>10, <2>11 DEF Done
  <2> QED BY <1>6, <2>12 DEF x
<1> QED BY <1>3, <1>4, <1>5, <1>6 DEF x

\* m_server leaves a good world: the name is free, is made free, or the link goes.
LEMMA ServerGood ==
  ASSUME NEW w, NEW X, Good(w, X), NEW s \in Server, NEW c \in Conn,
         w.end[c][s].st \in {"unknown", "handshake", "server"}, <<c, Peer(w, c, s)>> \notin X,
         NEW m, Offer(w, s, c, m)
  PROVE  Done(w, m_server(w, s, c, m), s, c, X)
<1> DEFINE x == m_server(w, s, c, m)
           old == Entry(w, s, m.name).via
           u == ExitLink(w, s, old, old)
<1>1. w.end[c][s].st # "none" /\ EndsOK(w) /\ ListOK(w, s)
  BY DEF Good, Net, ListsOK
<1>2. Done(w, ExitLink(w, s, c, c), s, c, X)
  BY <1>1, ExitLinkDone
<1>3. \/ x = ExitLink(w, s, c, c)
      \/ m.name # s /\ x = Introduce(w, s, c, m) /\ find_server(w, s, m.name) = {}
      \/ m.name # s /\ x = Introduce(u, s, c, m) /\ find_server(w, s, m.name) # {} /\ old # c
  BY DEF m_server
<1> HIDE DEF x
<1>4. CASE m.name # s /\ x = Introduce(w, s, c, m) /\ find_server(w, s, m.name) = {}
  <2>1. \A k \in DOMAIN w.known[s] : w.known[s][k].name # m.name
    BY <1>4 DEF find_server
  <2>2. Done(w, Introduce(w, s, c, m), s, c, X)
    BY <1>4, <2>1, IntroduceGood
  <2> QED BY <1>4, <2>2 DEF x
<1>5. CASE m.name # s /\ x = Introduce(u, s, c, m) /\ find_server(w, s, m.name) # {} /\ old # c
  <2>1. PICK n \in DOMAIN w.known[s] :
          Entry(w, s, m.name) = w.known[s][n] /\ w.known[s][n].name = m.name
    BY <1>5, EntryIs
  <2>2. old \in Conn /\ w.end[old][s].st # "none"
    <3>1. old \in Linked(w, s)
      BY <1>1, <2>1 DEF ListOK, Tree
    <3> QED BY <3>1 DEF Linked, IsServerLink
  <2>3. old = w.known[s][n].via
    BY <2>1
  <2> HIDE DEF old
  <2>4. Good(u, X) /\ Lost(w, u, s, old)
    BY <2>2, ExitLinkGood
  <2> HIDE DEF u
  <2>5. At(w, u, s) /\ u.end[c][s] = w.end[c][s] /\ SameEnds(w, u) /\ EndsOK(u)
    BY <1>5, <2>4 DEF Lost, At, Good, Net
  <2>6. Peer(u, c, s) = Peer(w, c, s)
    BY <1>1, <2>5, SamePeer
  <2>7. \A k \in DOMAIN u.known[s] : u.known[s][k].name # m.name
    <3> SUFFICES ASSUME NEW i \in DOMAIN u.known[s], u.known[s][i].name = m.name PROVE FALSE
      OBVIOUS
    <3>1. PICK k \in DOMAIN w.known[s] : u.known[s][i] = w.known[s][k]
      BY <2>4 DEF Lost
    <3>2. k = n
      BY <1>1, <2>1, <3>1 DEF ListOK, Tree, Rooted
    <3>3. u.known[s][i].via # old
      BY <2>4 DEF Lost
    <3> QED BY <2>3, <3>1, <3>2, <3>3
  <2>8. Offer(u, s, c, m)
    <3>1. ASSUME w.end[c][s].st = "server", m.by # None
          PROVE  \E k \in DOMAIN u.known[s] : u.known[s][k].name = m.by /\ u.known[s][k].via = c
      <4>1. PICK k \in DOMAIN w.known[s] : w.known[s][k].name = m.by /\ w.known[s][k].via = c
        BY <3>1 DEF Offer
      <4>2. \E i \in DOMAIN u.known[s] : u.known[s][i] = w.known[s][k]
        BY <1>5, <2>4, <4>1 DEF Lost
      <4> QED BY <4>1, <4>2
    <3> QED BY <2>5, <2>6, <3>1 DEF Offer
  <2>9. u.end[c][s].st \in {"unknown", "handshake", "server"} /\ <<c, Peer(u, c, s)>> \notin X
    BY <2>5, <2>6
  <2>10. Done(u, x, s, c, X)
    BY <1>5, <2>4, <2>7, <2>8, <2>9, IntroduceGood
  <2>11. Good(x, X) /\ At(u, x, s) /\ x.end[c][s].st \in {"server", "closed"}
    BY <2>10 DEF Done
  <2>12. At(w, x, s)
    BY <2>5, <2>11, AtAt
  <2>13. Done(w, x, s, c, X)
    BY <2>11, <2>12 DEF Done
  <2> QED BY <2>13 DEF x
<1> QED BY <1>2, <1>3, <1>4, <1>5 DEF x

-----------------------------------------------------------------------------
(* Reading                                                                 *)

\* An end changes and its link stands as before.
LEMMA EndGood ==
  ASSUME NEW w, NEW X, Good(w, X), NEW s \in Server, NEW c \in Conn, NEW e, NEW Y,
         NEW v, IsWorld(v), v.known = w.known, v.count = w.count, Moves(w, v, c, s, e, X, Y),
         e.st = "server" <=> w.end[c][s].st = "server", w.end[c][s].st # "closed"
  PROVE  Good(v, Y) /\ At(w, v, s) /\ v.end[c][s] = e
<1>1. Net(w, X) /\ Lists(w) /\ ListOK(w, s) /\ EndsOK(w)
  BY DEF Good, Net, ListsOK, Lists
<1>2. /\ Net(v, Y) /\ SameEnds(w, v)
      /\ v.end[c][s] = e /\ \A d \in Conn, r \in Server : d # c \/ r # s => v.end[d][r] = w.end[d][r]
  BY <1>1, NetMove
<1>3. v.wire = w.wire /\ (e.st \in Pre => w.end[c][s].st \in Pre)
  BY DEF Moves
<1>4. At(w, v, s)
  <2>1. Lists(v)
    BY <1>1 DEF Lists
  <2>2. \A d \in Conn : v.end[d][s].st \in Pre => w.end[d][s].st \in Pre
    BY <1>2, <1>3
  <2>3. \A d \in Conn : v.end[d][s].st = "closed" \/ w.end[d][s].st # "closed"
    BY <1>2
  <2> QED BY <1>2, <1>3, <2>1, <2>2, <2>3 DEF At
<1>5. Linked(v, s) = Linked(w, s)
  BY <1>2 DEF Linked, IsServerLink
<1>6. \A i \in DOMAIN w.known[s] : Peer(v, w.known[s][i].via, s) = Peer(w, w.known[s][i].via, s)
  <2> SUFFICES ASSUME NEW i \in DOMAIN w.known[s]
               PROVE  Peer(v, w.known[s][i].via, s) = Peer(w, w.known[s][i].via, s)
    OBVIOUS
  <2>1. w.known[s][i].via \in Linked(w, s)
    BY <1>1 DEF ListOK, Tree
  <2>2. w.known[s][i].via \in Conn /\ w.end[w.known[s][i].via][s].st # "none"
    BY <2>1 DEF Linked, IsServerLink
  <2>3. EndsOK(v)
    BY <1>2 DEF Net
  <2> QED BY <1>1, <1>2, <2>2, <2>3, SamePeer
<1>7. ListOK(v, s)
  BY <1>1, <1>5, <1>6 DEF ListOK
<1> QED BY <1>2, <1>4, <1>7, AtGood

\* The end c of s has been told something.
Noted(w, v, s, c, X) ==
  Good(v, X) /\ At(w, v, s) /\ v.end[c][s].st = w.end[c][s].st

\* Nothing hangs on the password,
LEMMA PassGood ==
  ASSUME NEW w, NEW X, Good(w, X), NEW s \in Server, NEW c \in Conn,
         w.end[c][s].st \in {"unknown", "handshake"}, NEW x
  PROVE  Noted(w, [w EXCEPT !.end[c][s].pass = x], s, c, X)
<1> DEFINE v == [w EXCEPT !.end[c][s].pass = x]
           e == [w.end[c][s] EXCEPT !.pass = x]
           E == Put(w.end, c, s, e)
<1>1. IsWorld(w) /\ Net(w, X)
  BY DEF Good
<1>2. v = [w EXCEPT !.end = E]
  BY DEF Put
<1> HIDE DEF v, E
<1>3. IsWorld(v) /\ v.end = E /\ v.wire = w.wire /\ v.known = w.known /\ v.count = w.count
  BY <1>1, <1>2 DEF IsWorld
<1>4. IsEnd(w.end[c][s])
  BY <1>1 DEF Net, EndsOK
<1>5. IsClient(e) /\ e.st = w.end[c][s].st /\ e.first = w.end[c][s].first
  BY <1>4, SetPass DEF IsEnd
<1> HIDE DEF e
<1>6. IsEnd(e)
  BY <1>4, <1>5 DEF IsEnd
<1>7. Moves(w, v, c, s, e, X, X)
  BY <1>3, <1>5, <1>6 DEF Moves, E
<1>8. Good(v, X) /\ At(w, v, s) /\ v.end[c][s] = e
  BY <1>3, <1>5, <1>7, EndGood
<1>9. Noted(w, v, s, c, X)
  BY <1>5, <1>8 DEF Noted
<1> QED BY <1>9 DEF v

\* the TS mark
LEMMA TsGood ==
  ASSUME NEW w, NEW X, Good(w, X), NEW s \in Server, NEW c \in Conn,
         w.end[c][s].st \in {"unknown", "handshake"}, NEW x
  PROVE  Noted(w, [w EXCEPT !.end[c][s].ts = x], s, c, X)
<1> DEFINE v == [w EXCEPT !.end[c][s].ts = x]
           e == [w.end[c][s] EXCEPT !.ts = x]
           E == Put(w.end, c, s, e)
<1>1. IsWorld(w) /\ Net(w, X)
  BY DEF Good
<1>2. v = [w EXCEPT !.end = E]
  BY DEF Put
<1> HIDE DEF v, E
<1>3. IsWorld(v) /\ v.end = E /\ v.wire = w.wire /\ v.known = w.known /\ v.count = w.count
  BY <1>1, <1>2 DEF IsWorld
<1>4. IsEnd(w.end[c][s])
  BY <1>1 DEF Net, EndsOK
<1>5. IsClient(e) /\ e.st = w.end[c][s].st /\ e.first = w.end[c][s].first
  BY <1>4, SetTs DEF IsEnd
<1> HIDE DEF e
<1>6. IsEnd(e)
  BY <1>4, <1>5 DEF IsEnd
<1>7. Moves(w, v, c, s, e, X, X)
  BY <1>3, <1>5, <1>6 DEF Moves, E
<1>8. Good(v, X) /\ At(w, v, s) /\ v.end[c][s] = e
  BY <1>3, <1>5, <1>7, EndGood
<1>9. Noted(w, v, s, c, X)
  BY <1>5, <1>8 DEF Noted
<1> QED BY <1>9 DEF v

\* or the capabilities of an end.
LEMMA CapsGood ==
  ASSUME NEW w, NEW X, Good(w, X), NEW s \in Server, NEW c \in Conn,
         w.end[c][s].st \in {"unknown", "handshake"}, NEW x
  PROVE  Noted(w, [w EXCEPT !.end[c][s].caps = x], s, c, X)
<1> DEFINE v == [w EXCEPT !.end[c][s].caps = x]
           e == [w.end[c][s] EXCEPT !.caps = x]
           E == Put(w.end, c, s, e)
<1>1. IsWorld(w) /\ Net(w, X)
  BY DEF Good
<1>2. v = [w EXCEPT !.end = E]
  BY DEF Put
<1> HIDE DEF v, E
<1>3. IsWorld(v) /\ v.end = E /\ v.wire = w.wire /\ v.known = w.known /\ v.count = w.count
  BY <1>1, <1>2 DEF IsWorld
<1>4. IsEnd(w.end[c][s])
  BY <1>1 DEF Net, EndsOK
<1>5. IsClient(e) /\ e.st = w.end[c][s].st /\ e.first = w.end[c][s].first
  BY <1>4, SetCaps DEF IsEnd
<1> HIDE DEF e
<1>6. IsEnd(e)
  BY <1>4, <1>5 DEF IsEnd
<1>7. Moves(w, v, c, s, e, X, X)
  BY <1>3, <1>5, <1>6 DEF Moves, E
<1>8. Good(v, X) /\ At(w, v, s) /\ v.end[c][s] = e
  BY <1>3, <1>5, <1>7, EndGood
<1>9. Noted(w, v, s, c, X)
  BY <1>5, <1>8 DEF Noted
<1> QED BY <1>9 DEF v


\* What is left of a connection after the line m was read from it.
Obeyed(w, v, s, c, m, X) ==
  /\ Good(v, X) /\ At(w, v, s)
  /\ v.end[c][s].st \in {"unknown", "handshake", "server", "closed"}
  /\ m.cmd \in {"SERVER", "EOF"} => v.end[c][s].st \in {"server", "closed"}

\* To close the link is right, and so is to ignore a line that opens nothing.
LEMMA Exempt ==
  ASSUME NEW w, NEW X, Good(w, X), NEW s \in Server, NEW c \in Conn,
         w.end[c][s].st \in {"unknown", "handshake", "server"}
  PROVE  /\ w.end[c][s].st # "none" /\ Peer(w, c, s) \in Server /\ Peer(w, c, s) # s
         /\ \A m : Obeyed(w, ExitLink(w, s, c, c), s, c, m, X)
         /\ \A m : m.cmd \notin {"SERVER", "EOF"} => Obeyed(w, w, s, c, m, X)
<1>1. w.end[c][s].st # "none" /\ EndsOK(w)
  BY DEF Good, Net
<1>2. Peer(w, c, s) \in Server /\ Peer(w, c, s) # s
  BY <1>1, PeerIs
<1>3. Done(w, ExitLink(w, s, c, c), s, c, X)
  BY <1>1, ExitLinkDone
<1>4. \A m : Obeyed(w, ExitLink(w, s, c, c), s, c, m, X)
  BY <1>3 DEF Done, Obeyed
<1>5. \A m : m.cmd \notin {"SERVER", "EOF"} => Obeyed(w, w, s, c, m, X)
  BY AtSelf DEF Obeyed
<1> QED BY <1>1, <1>2, <1>4, <1>5

\* m_pass.
LEMMA PassObeyed ==
  ASSUME NEW w, NEW X, Good(w, X), NEW s \in Server, NEW c \in Conn,
         w.end[c][s].st \in {"unknown", "handshake", "server"}, NEW m, m.cmd = "PASS"
  PROVE  Obeyed(w, Pass(w, s, c, m), s, c, m, X)
<1> DEFINE v == Pass(w, s, c, m)
           u == [w EXCEPT !.end[c][s].pass = m.pass]
           x == m.pass
<1>1. v = w \/ (v = [u EXCEPT !.end[c][s].ts = TRUE] /\ w.end[c][s].st \in {"unknown", "handshake"})
  BY DEF Pass
<1>2. m.cmd \notin {"SERVER", "EOF"}
  OBVIOUS
<1> HIDE DEF v
<1>3. CASE v = w
  BY <1>2, <1>3, Exempt DEF v
<1>4. CASE v = [u EXCEPT !.end[c][s].ts = TRUE] /\ w.end[c][s].st \in {"unknown", "handshake"}
  <2>1. u = [w EXCEPT !.end[c][s].pass = x]
    OBVIOUS
  <2> HIDE DEF u, x
  <2>2. Good(u, X) /\ At(w, u, s) /\ u.end[c][s].st = w.end[c][s].st
    <3>1. Noted(w, [w EXCEPT !.end[c][s].pass = x], s, c, X)
      BY <1>4, PassGood
    <3> QED BY <2>1, <3>1 DEF Noted
  <2>3. Good(v, X) /\ At(u, v, s) /\ v.end[c][s].st = u.end[c][s].st
    <3>1. Noted(u, [u EXCEPT !.end[c][s].ts = TRUE], s, c, X)
      BY <1>4, <2>2, TsGood
    <3> QED BY <1>4, <3>1 DEF Noted
  <2>4. At(w, v, s)
    BY <2>2, <2>3, AtAt
  <2>5. Obeyed(w, v, s, c, m, X)
    BY <1>2, <2>2, <2>3, <2>4 DEF Obeyed
  <2> QED BY <2>5 DEF v
<1> QED BY <1>1, <1>3, <1>4

\* m_capab.
LEMMA CapabObeyed ==
  ASSUME NEW w, NEW X, Good(w, X), NEW s \in Server, NEW c \in Conn,
         w.end[c][s].st \in {"unknown", "handshake", "server"}, NEW m, m.cmd = "CAPAB"
  PROVE  Obeyed(w, Capab(w, s, c, m), s, c, m, X)
<1> DEFINE v == Capab(w, s, c, m)
           x == m.caps
<1>1. \/ v = w \/ v = ExitLink(w, s, c, c)
      \/ v = [w EXCEPT !.end[c][s].caps = x] /\ w.end[c][s].st \in {"unknown", "handshake"}
  BY DEF Capab
<1>2. m.cmd \notin {"SERVER", "EOF"}
  OBVIOUS
<1> HIDE DEF v, x
<1>3. CASE v = w \/ v = ExitLink(w, s, c, c)
  BY <1>2, <1>3, Exempt DEF v
<1>4. CASE v = [w EXCEPT !.end[c][s].caps = x] /\ w.end[c][s].st \in {"unknown", "handshake"}
  <2>1. Good(v, X) /\ At(w, v, s) /\ v.end[c][s].st = w.end[c][s].st
    <3>1. Noted(w, [w EXCEPT !.end[c][s].caps = x], s, c, X)
      BY <1>4, CapsGood
    <3> QED BY <1>4, <3>1 DEF Noted
  <2>2. Obeyed(w, v, s, c, m, X)
    BY <1>2, <2>1 DEF Obeyed
  <2> QED BY <2>2 DEF v
<1> QED BY <1>1, <1>3, <1>4

\* m_squit from a server.
LEMMA SquitObeyed ==
  ASSUME NEW w, NEW X, Good(w, X), NEW s \in Server, NEW c \in Conn,
         w.end[c][s].st \in {"unknown", "handshake", "server"}, NEW m, m.cmd = "SQUIT",
         m.by \in Server \cup {None}
  PROVE  Obeyed(w, Squitted(w, s, c, m), s, c, m, X)
<1> DEFINE v == Squitted(w, s, c, m)
           by == IF m.by = None THEN Peer(w, c, s) ELSE m.by
           user == m.by # None /\ m.user
           name == m.name
<1>1. \/ v = w \/ v = ExitLink(w, s, c, c)
      \/ /\ v = exit_client(w, s, name, c, by, user) /\ find_server(w, s, name) # {}
         /\ IsServerLink(w, c, s)
  BY DEF Squitted
<1>2. m.cmd \notin {"SERVER", "EOF"}
  OBVIOUS
<1>3. by \in Server \cup {None}
  BY Exempt
<1> HIDE DEF v, by, user, name
<1>4. CASE v = w \/ v = ExitLink(w, s, c, c)
  BY <1>2, <1>4, Exempt DEF v
<1>5. CASE /\ v = exit_client(w, s, name, c, by, user) /\ find_server(w, s, name) # {}
           /\ IsServerLink(w, c, s)
  <2>1. Good(v, X) /\ At(w, v, s)
    BY <1>3, <1>5, ExitClientGood
  <2>2. v.end[c][s].st \in States /\ v.end[c][s].st # "none" /\ v.end[c][s].st \notin Pre
    BY <1>5, <2>1 DEF Good, Net, EndsOK, IsEnd, At, SameEnds, IsServerLink, Pre
  <2>3. v.end[c][s].st \in {"server", "closed"}
    BY <2>2 DEF States, Pre
  <2>4. Obeyed(w, v, s, c, m, X)
    BY <2>1, <2>3 DEF Obeyed
  <2> QED BY <2>4 DEF v
<1> QED BY <1>1, <1>4, <1>5

\* A SERVER or a SQUIT line, with its prefix.
LEMMA PrefixedObeyed ==
  ASSUME NEW w, NEW X, Good(w, X), NEW s \in Server, NEW c \in Conn,
         w.end[c][s].st \in {"unknown", "handshake", "server"}, <<c, Peer(w, c, s)>> \notin X,
         NEW m, LineOK(m), m.cmd \in {"SERVER", "SQUIT"},
         m.cmd = "SERVER" /\ w.end[c][s].st # "server" => m.name = Peer(w, c, s)
  PROVE  Obeyed(w, Prefixed(w, s, c, m), s, c, m, X)
<1> DEFINE v == Prefixed(w, s, c, m)
           h == IF m.cmd = "SERVER" THEN m_server(w, s, c, m) ELSE Squitted(w, s, c, m)
<1>1. m.name \in Server /\ m.by \in Server \cup {None} /\ (m.cmd = "SERVER" => m.hop \in Nat)
  BY DEF LineOK
<1>2. w.end[c][s].st # "none" /\ Peer(w, c, s) \in Server /\ Peer(w, c, s) # s
  BY Exempt
<1>3. \/ v = h /\ (m.by = None \/ ~IsServerLink(w, c, s))
      \/ v = h /\ m.by # s /\ find_server(w, s, m.by) # {} /\ Entry(w, s, m.by).via = c
      \/ v = w /\ IsServerLink(w, c, s)
      \/ v = remove_unknown(w, s, c, m) /\ m.by # None /\ IsServerLink(w, c, s)
  BY DEF Prefixed
<1> HIDE DEF v
<1>4. ASSUME IsServerLink(w, c, s) PROVE Obeyed(w, w, s, c, m, X)
  BY <1>4, AtSelf DEF Obeyed, IsServerLink
<1>5. ASSUME w.end[c][s].st = "server" /\ m.by # None =>
               m.by # s /\ \E k \in DOMAIN w.known[s] : w.known[s][k].name = m.by /\ w.known[s][k].via = c
      PROVE  Obeyed(w, h, s, c, m, X)
  <2>1. CASE m.cmd = "SERVER"
    <3>1. Offer(w, s, c, m)
      BY <1>1, <1>5, <2>1 DEF Offer
    <3>2. Done(w, m_server(w, s, c, m), s, c, X)
      BY <3>1, ServerGood
    <3>3. Obeyed(w, m_server(w, s, c, m), s, c, m, X)
      BY <3>2 DEF Done, Obeyed
    <3> QED BY <2>1, <3>3
  <2>2. CASE m.cmd = "SQUIT"
    <3>1. Obeyed(w, Squitted(w, s, c, m), s, c, m, X)
      BY <1>1, <2>2, SquitObeyed
    <3> QED BY <2>2, <3>1
  <2> QED BY <2>1, <2>2
<1> HIDE DEF h
<1>6. CASE v = h /\ (m.by = None \/ ~IsServerLink(w, c, s))
  BY <1>5, <1>6 DEF IsServerLink, v
<1>7. CASE v = h /\ m.by # s /\ find_server(w, s, m.by) # {} /\ Entry(w, s, m.by).via = c
  <2> DEFINE by == m.by
  <2>1. find_server(w, s, by) # {} /\ Entry(w, s, by).via = c
    BY <1>7
  <2> HIDE DEF by
  <2>2. PICK k \in DOMAIN w.known[s] : Entry(w, s, by) = w.known[s][k] /\ w.known[s][k].name = by
    BY <2>1, EntryIs
  <2> QED BY <1>5, <1>7, <2>1, <2>2 DEF v, by
<1>8. CASE v = remove_unknown(w, s, c, m) /\ m.by # None /\ IsServerLink(w, c, s)
  <2> DEFINE q == <<SQUIT(s, FALSE, m.by)>>
  <2>1. v = w \/ v = Send(w, s, c, q)
    BY <1>8 DEF remove_unknown
  <2>2. Chatter(q)
    <3>1. LineOK(SQUIT(s, FALSE, m.by))
      BY <1>1, <1>8, LinesOK
    <3> QED BY <3>1, ShortLines
  <2> HIDE DEF q
  <2>3. w.end[c][s].st = "server" /\ w.end[c][s].st \in Said
    BY <1>8 DEF IsServerLink, Said
  <2>4. IsWorld(w) /\ EndsOK(w) /\ IsMatrix(w.wire)
    BY DEF Good, Net, WiresOK, IsMatrix
  <2> DEFINE u == Send(w, s, c, q)
  <2>5. Talk(w, u, s, {c})
    BY <1>2, <2>2, <2>3, <2>4, SendTalk
  <2> HIDE DEF u
  <2>6. u.end = w.end
    BY <2>5 DEF Talk
  <2>7. Good(u, X) /\ At(w, u, s)
    BY <2>5, TalkGood
  <2>8. Obeyed(w, u, s, c, m, X)
    BY <2>3, <2>6, <2>7 DEF Obeyed
  <2> QED BY <1>4, <1>8, <2>1, <2>8 DEF u, v
<1>9. CASE v = w /\ IsServerLink(w, c, s)
  BY <1>4, <1>9 DEF v
<1> QED BY <1>3, <1>6, <1>7, <1>8, <1>9

\* Any line.
LEMMA HandleObeyed ==
  ASSUME NEW w, NEW X, Good(w, X), NEW s \in Server, NEW c \in Conn,
         w.end[c][s].st \in {"unknown", "handshake", "server", "closed"},
         <<c, Peer(w, c, s)>> \notin X, NEW m, LineOK(m),
         m.cmd = "SERVER" /\ w.end[c][s].st \in Pre => m.name = Peer(w, c, s)
  PROVE  Obeyed(w, Handle(w, s, c, m), s, c, m, X)
<1>1. CASE w.end[c][s].st = "closed"
  <2>1. Handle(w, s, c, m) = w
    BY <1>1 DEF Handle
  <2>2. Obeyed(w, w, s, c, m, X)
    BY <1>1, AtSelf DEF Obeyed
  <2> QED BY <2>1, <2>2
<1>2. CASE w.end[c][s].st # "closed"
  <2>0. w.end[c][s].st \in {"unknown", "handshake", "server"}
    BY <1>2
  <2>1. CASE m.cmd = "PASS"
    <3>1. Handle(w, s, c, m) = Pass(w, s, c, m)
      BY <1>2, <2>1 DEF Handle
    <3> QED BY <2>0, <2>1, <3>1, PassObeyed
  <2>2. CASE m.cmd = "CAPAB"
    <3>1. Handle(w, s, c, m) = Capab(w, s, c, m)
      BY <1>2, <2>2 DEF Handle
    <3> QED BY <2>0, <2>2, <3>1, CapabObeyed
  <2>3. CASE m.cmd = "SVINFO"
    <3>1. Handle(w, s, c, m) = Svinfo(w, s, c, m)
      BY <1>2, <2>3 DEF Handle
    <3>2. Svinfo(w, s, c, m) = w \/ Svinfo(w, s, c, m) = ExitLink(w, s, c, c)
      BY DEF Svinfo
    <3> QED BY <2>0, <2>3, <3>1, <3>2, Exempt
  <2>4. CASE m.cmd \in {"SERVER", "SQUIT"}
    <3>1. Handle(w, s, c, m) = Prefixed(w, s, c, m)
      BY <1>2, <2>4 DEF Handle
    <3>2. m.cmd = "SERVER" /\ w.end[c][s].st # "server" => m.name = Peer(w, c, s)
      BY <2>0 DEF Pre
    <3> QED BY <2>0, <2>4, <3>1, <3>2, PrefixedObeyed
  <2>5. CASE m.cmd = "EOF"
    <3>1. Handle(w, s, c, m) = ExitLink(w, s, c, c)
      BY <1>2, <2>5 DEF Handle
    <3> QED BY <2>0, <3>1, Exempt
  <2>6. m.cmd \in {"PASS", "CAPAB", "SVINFO", "SERVER", "SQUIT", "EOF"}
    BY DEF LineOK
  <2> QED BY <2>1, <2>2, <2>3, <2>4, <2>5, <2>6
<1> QED BY <1>1, <1>2

\* The lines p are obeyed one after the other.
ReadAll(w, s, c, p) ==
  LET loop[i \in 0..Len(p)] == IF i = 0 THEN w ELSE Handle(loop[i - 1], s, c, p[i])
  IN  loop[Len(p)]

\* The loop of read_packet, as a walk.
LEMMA ReadWalk ==
  ASSUME NEW w0, NEW s, NEW c, NEW p, Len(p) \in Nat
  PROVE  \E f : /\ f[0] = w0
                /\ \A i \in 1 .. Len(p) : f[i] = Handle(f[i - 1], s, c, p[i])
                /\ ReadAll(w0, s, c, p) = f[Len(p)]
<1> DEFINE M == Len(p)
           F(w, i) == IF i = 0 THEN w0 ELSE Handle(w[i - 1], s, c, p[i])
           Rounds(N) == \E w : w = [i \in 0 .. N |-> F(w, i)]
           Bad == {N \in 0 .. M : ~Rounds(N)}
           walk == CHOOSE w : w = [i \in 0 .. M |-> F(w, i)]
<1>1. M \in Nat
  OBVIOUS
<1>2. ASSUME Bad # {} PROVE FALSE
  <2>1. PICK m \in Bad : \A k \in Bad : m <= k
    <3>1. Bad \in SUBSET Nat
      <4> HIDE DEF Rounds
      <4> QED BY <1>1
    <3> HIDE DEF Bad
    <3> QED BY <1>2, <3>1, LeastNat
  <2>2. m \in 0 .. M /\ ~Rounds(m)
    BY <2>1
  <2>3. CASE m = 0
    <3> DEFINE w == [i \in 0 .. 0 |-> w0]
    <3>1. w = [i \in 0 .. 0 |-> F(w, i)]
      OBVIOUS
    <3> HIDE DEF w, F
    <3> QED BY <2>2, <2>3, <3>1
  <2>4. CASE m # 0
    <3>1. m - 1 \in 0 .. M /\ m - 1 \notin Bad
      <4> HIDE DEF Bad
      <4> QED BY <1>1, <2>1, <2>2, <2>4
    <3>2. PICK v : v = [i \in 0 .. m - 1 |-> F(v, i)]
      <4> HIDE DEF F
      <4> QED BY <3>1
    <3> DEFINE w == [i \in 0 .. m |-> IF i < m THEN v[i] ELSE F(v, m)]
    <3>3. ASSUME NEW i \in 0 .. m PROVE w[i] = F(w, i)
      <4>1. CASE i < m
        <5>1. i \in 0 .. m - 1 /\ w[i] = v[i] /\ (i # 0 => w[i - 1] = v[i - 1])
          BY <2>2, <4>1
        <5>2. v[i] = F(v, i)
          <6> HIDE DEF F
          <6> QED BY <3>2, <5>1
        <5> QED BY <5>1, <5>2
      <4>2. CASE i = m
        <5>1. w[m] = F(v, m) /\ w[m - 1] = v[m - 1]
          <6> HIDE DEF F
          <6> QED BY <2>2, <2>4
        <5> QED BY <2>4, <4>2, <5>1
      <4> QED BY <2>2, <4>1, <4>2
    <3>4. w = [i \in 0 .. m |-> w[i]]
      OBVIOUS
    <3> HIDE DEF w, F
    <3>5. w = [i \in 0 .. m |-> F(w, i)]
      BY <3>3, <3>4
    <3> QED BY <2>2, <3>5
  <2> QED BY <2>3, <2>4
<1>3. Rounds(M)
  <2>1. Bad = {} /\ M \in 0 .. M
    <3> HIDE DEF Bad
    <3> QED BY <1>1, <1>2
  <2> HIDE DEF Rounds, M
  <2> QED BY <2>1
<1>4. walk = [i \in 0 .. M |-> F(walk, i)]
  <2> HIDE DEF F
  <2> QED BY <1>3
<1>5. ReadAll(w0, s, c, p) = walk[M]
  BY DEF ReadAll
<1> HIDE DEF walk
<1>6. \A i \in 0 .. M : walk[i] = F(walk, i)
  <2> HIDE DEF F
  <2> QED BY <1>4
<1>7. walk[0] = w0
  <2>1. walk[0] = F(walk, 0)
    <3> HIDE DEF F, M
    <3> QED BY <1>1, <1>6
  <2>2. F(walk, 0) = w0
    OBVIOUS
  <2> QED BY <2>1, <2>2
<1>8. ASSUME NEW i \in 1 .. M
      PROVE  walk[i] = Handle(walk[i - 1], s, c, p[i])
  <2>1. i \in 0 .. M /\ i # 0
    <3> HIDE DEF M
    <3> QED BY <1>1
  <2>2. walk[i] = F(walk, i)
    <3> HIDE DEF F, M
    <3> QED BY <1>6, <2>1
  <2>3. F(walk, i) = Handle(walk[i - 1], s, c, p[i])
    BY <2>1
  <2> QED BY <2>2, <2>3
<1> QED BY <1>5, <1>7, <1>8

\* A read takes the first lines.
LEMMA PacketIs ==
  ASSUME NEW q, Chatter(q)
  PROVE  /\ Len(Packet(q)) \in Nat /\ Len(Packet(q)) <= Len(q)
         /\ \A j \in 1 .. Len(Packet(q)) : Packet(q)[j] = q[j]
<1> DEFINE far == {i \in DOMAIN q : q[i].cmd \in {"SERVER", "SQUIT", "EOF"}}
           last == IF far = {} THEN Len(q) ELSE CHOOSE i \in far : \A j \in far : i <= j
<1>1. PICK X : q \in Seq(X)
  BY DEF Chatter
<1>2. Len(q) \in Nat /\ DOMAIN q = 1 .. Len(q)
  BY <1>1
<1>3. far \in SUBSET Nat /\ far \in SUBSET (1 .. Len(q))
  BY <1>2
<1>4. Packet(q) = SubSeq(q, 1, last)
  BY DEF Packet
<1> HIDE DEF far
<1>5. last \in 0 .. Len(q)
  <2>1. CASE far = {}
    BY <1>2, <2>1
  <2>2. CASE far # {}
    <3>1. \E i \in far : \A j \in far : i <= j
      BY <1>3, <2>2, LeastNat
    <3>2. last \in far
      BY <2>2, <3>1
    <3> HIDE DEF last
    <3>3. last \in 1 .. Len(q)
      BY <1>3, <3>2
    <3> QED BY <1>2, <3>3
  <2> QED BY <2>1, <2>2
<1> HIDE DEF last
<1>6. Len(SubSeq(q, 1, last)) = last /\ \A j \in 1 .. last : SubSeq(q, 1, last)[j] = q[j]
  <2>1. SubSeq(q, 1, last) = [j \in 1 .. last |-> q[j]]
    BY <1>1, <1>2, <1>5
  <2>2. \A j \in 1 .. last : q[j] \in X
    BY <1>1, <1>2, <1>5
  <2>3. last \in Nat
    BY <1>2, <1>5
  <2>4. [j \in 1 .. last |-> q[j]] \in [1 .. last -> X]
    BY <2>2
  <2> DEFINE g == [j \in 1 .. last |-> q[j]]
  <2>5. \A j \in 1 .. last : g[j] = q[j]
    OBVIOUS
  <2> HIDE DEF g
  <2>6. Len(g) = last
    BY <2>3, <2>4, SeqFun DEF g
  <2> QED BY <2>1, <2>5, <2>6 DEF g
<1> QED BY <1>2, <1>4, <1>5, <1>6

\* The lines left when the first n, none of them a SERVER or the end, are read.
LEMMA RestOpening ==
  ASSUME NEW q, Chatter(q), NEW n \in Nat, n <= Len(q),
         \A j \in 1 .. n : q[j].cmd \notin {"SERVER", "EOF"}, NEW t
  PROVE  /\ Opening(q, t) => Opening(SubSeq(q, n + 1, Len(q)), t)
         /\ Greeted(q) => Greeted(SubSeq(q, n + 1, Len(q)))
<1> DEFINE r == SubSeq(q, n + 1, Len(q))
           M == Len(q)
<1>1. M \in Nat /\ DOMAIN q = 1 .. M
  BY ChatterIs
<1>2. Chatter(r) /\ Len(r) = M - n /\ \A k \in 1 .. M - n : r[k] = q[k + n]
  BY ChatterSub
<1>3. DOMAIN r = 1 .. M - n
  BY <1>2, ChatterIs
<1> HIDE DEF r, M
<1>4. n <= M
  BY DEF M
<1>5. ASSUME NEW j \in 1 .. M, q[j].cmd \in {"SERVER", "EOF"}
      PROVE  j - n \in 1 .. M - n /\ r[j - n] = q[j]
  <2>1. j > n
    BY <1>5
  <2>2. j - n \in 1 .. M - n /\ (j - n) + n = j
    BY <1>1, <1>4, <2>1
  <2> QED BY <1>2, <2>2
<1>6. ASSUME Opening(q, t) PROVE Opening(r, t)
  <2> SUFFICES ASSUME NEW k \in DOMAIN r, r[k].cmd = "SERVER"
               PROVE  r[k].name = t \/ \E j \in 1..(k - 1) : r[j].cmd \in {"SERVER", "EOF"}
    BY DEF Opening
  <2>1. k \in 1 .. M - n /\ k + n \in 1 .. M /\ r[k] = q[k + n]
    BY <1>1, <1>2, <1>3, <1>4
  <2>2. q[k + n].name = t \/ \E j \in 1..((k + n) - 1) : q[j].cmd \in {"SERVER", "EOF"}
    BY <1>1, <1>6, <2>1 DEF Opening
  <2>3. ASSUME NEW j \in 1..((k + n) - 1), q[j].cmd \in {"SERVER", "EOF"}
        PROVE  \E i \in 1..(k - 1) : r[i].cmd \in {"SERVER", "EOF"}
    <3>1. j \in 1 .. M
      BY <1>1, <2>1
    <3>2. j - n \in 1 .. M - n /\ r[j - n] = q[j]
      BY <1>5, <2>3, <3>1
    <3>3. j - n \in 1 .. k - 1
      BY <1>1, <2>1, <3>1, <3>2
    <3> QED BY <2>3, <3>2, <3>3
  <2> QED BY <2>1, <2>2, <2>3
<1>7. ASSUME Greeted(q) PROVE Greeted(r)
  <2>1. PICK j \in 1 .. M : q[j].cmd \in {"SERVER", "EOF"}
    BY <1>1, <1>7 DEF Greeted
  <2>2. j - n \in DOMAIN r /\ r[j - n] = q[j]
    BY <1>3, <1>5, <2>1
  <2> QED BY <2>1, <2>2 DEF Greeted
<1> QED BY <1>6, <1>7 DEF r, M

\* What is right in a net.
LEMMA NetParts ==
  ASSUME NEW w, NEW X, Net(w, X)
  PROVE  EndsOK(w) /\ IsMatrix(w.wire) /\ IsMatrix(w.end)
BY DEF Net, WiresOK, IsMatrix, EndsOK

\* EndsOK speaks of the ends only.
LEMMA SameEndsOK ==
  ASSUME NEW w, NEW v, EndsOK(w), v.end = w.end
  PROVE  EndsOK(v)
BY DEF EndsOK

\* A server reads from one of its connections.
LEMMA ReadGood ==
  ASSUME NEW w0, Good(w0, {}), NEW s \in Server, NEW c \in Conn,
         w0.end[c][s].st \in {"unknown", "handshake", "server"},
         NEW q, q = w0.wire[c][s], NEW p, Len(p) \in Nat, Len(p) <= Len(q),
         \A j \in 1 .. Len(p) : p[j] = q[j],
         NEW w, IsWorld(w), w.end = w0.end, w.known = w0.known, w.count = w0.count,
         w.wire = Put(w0.wire, c, s, SubSeq(q, Len(p) + 1, Len(q)))
  PROVE  Good(ReadAll(w, s, c, p), {})
<1> DEFINE X == {<<c, s>>}
           t == Peer(w0, c, s)
           r == SubSeq(q, Len(p) + 1, Len(q))
           n == Len(p)
           M == Len(q)
<1>1. EndsOK(w0) /\ Net(w0, {}) /\ w0.end[c][s].st # "none"
  BY DEF Good, Net
<1>2. /\ t \in Server /\ t # s /\ w0.end[c][t].st # "none"
      /\ \A x \in Server : x # s /\ w0.end[c][x].st # "none" => x = t
  BY <1>1, PeerIs
<1>3. Chatter(q)
  BY <1>1 DEF Net, WiresOK
<1>4. n \in Nat /\ M \in Nat /\ n <= M /\ DOMAIN q = 1 .. M /\ \A j \in 1 .. M : LineOK(q[j])
  BY <1>3, ChatterIs
<1>5. Chatter(r)
  BY <1>3, <1>4, ChatterSub
<1>6. /\ w0.end[c][s].st \in Pre => Opening(q, t)
      /\ w0.end[c][s].st \in Pre /\ w0.end[c][t].st \in Said => Greeted(q)
  BY <1>1, <1>2 DEF Net, WiresOK
<1> HIDE DEF r
<1>7. IsMatrix(w0.wire)
  BY <1>1, NetParts
<1>8. /\ IsMatrix(w.wire) /\ w.wire[c][s] = r
      /\ \A d \in Conn, x \in Server : d # c \/ x # s => w.wire[d][x] = w0.wire[d][x]
  <2> DEFINE A == w0.wire
             B == w.wire
  <2>1. B = Put(A, c, s, r) /\ IsMatrix(A)
    BY <1>7 DEF r
  <2> HIDE DEF A, B
  <2>2. /\ IsMatrix(B) /\ B[c][s] = r
        /\ \A d \in Conn, x \in Server : d # c \/ x # s => B[d][x] = A[d][x]
    BY <2>1, PutIs
  <2> QED BY <2>2 DEF A, B
<1> HIDE DEF t, n, M
<1>9. Net(w, X)
  <2>1. EndsOK(w)
    BY <1>1, SameEndsOK
  <2>2. ASSUME NEW d \in Conn, NEW x \in Server
        PROVE  Chatter(w.wire[d][x]) /\ (w.end[d][x].st = "none" => w.wire[d][x] = <<>>)
    <3>1. Chatter(w0.wire[d][x]) /\ (w0.end[d][x].st = "none" => w0.wire[d][x] = <<>>)
      BY <1>1 DEF Net, WiresOK
    <3>2. CASE d # c \/ x # s
      <4>1. w.wire[d][x] = w0.wire[d][x] /\ w.end[d][x] = w0.end[d][x]
        BY <1>8, <3>2
      <4> QED BY <3>1, <4>1
    <3>3. CASE d = c /\ x = s
      <4>1. w.wire[d][x] = r /\ w.end[d][x] = w0.end[c][s]
        BY <1>8, <3>3
      <4> QED BY <1>1, <1>5, <4>1
    <3> QED BY <3>2, <3>3
  <2>3. ASSUME NEW d \in Conn, NEW x \in Server, NEW y \in Server, <<d, x>> \notin X, x # y,
               w.end[d][x].st \in Pre, w.end[d][y].st # "none"
        PROVE  /\ Opening(w.wire[d][x], y)
               /\ w.end[d][y].st \in Said => Greeted(w.wire[d][x])
    <3>1. w.wire[d][x] = w0.wire[d][x]
      BY <1>8, <2>3
    <3> QED BY <1>1, <2>3, <3>1 DEF Net, WiresOK
  <2>4. w.wire = [d \in Conn |-> [x \in Server |-> w.wire[d][x]]]
    BY <1>8, SMTT(30) DEF IsMatrix
  <2>5. WiresOK(w, X)
    <3> HIDE DEF X
    <3> QED BY <2>2, <2>3, <2>4 DEF WiresOK
  <2> QED BY <2>1, <2>5 DEF Net
<1>10. Good(w, X)
  <2>1. \A x \in Server : Linked(w, x) = Linked(w0, x) /\ \A d : Peer(w, d, x) = Peer(w0, d, x)
    BY DEF Linked, IsServerLink, Peer
  <2>2. \A x \in Server : ListOK(w, x)
    BY <2>1 DEF Good, ListsOK, ListOK
  <2>3. ListsOK(w)
    BY <2>2 DEF Good, ListsOK
  <2> QED BY <1>9, <2>3 DEF Good
<1>11. \A j \in 1 .. n : LineOK(p[j]) /\ p[j] = q[j]
  BY <1>4 DEF n
<1>12. PICK f : /\ f[0] = w
                /\ \A i \in 1 .. n : f[i] = Handle(f[i - 1], s, c, p[i])
                /\ ReadAll(w, s, c, p) = f[n]
  BY ReadWalk DEF n
<1> DEFINE P(i) == /\ Good(f[i], X) /\ At(w, f[i], s)
                   /\ f[i].end[c][s].st \in {"unknown", "handshake", "server", "closed"}
                   /\ f[i].end[c][s].st \in Pre =>
                        \A j \in 1 .. i : q[j].cmd \notin {"SERVER", "EOF"}
           Out == {i \in 0 .. n : ~P(i)}
<1>13. P(0)
  <2>1. At(w, w, s)
    BY <1>10, AtSelf
  <2> QED BY <1>10, <1>12, <2>1
<1>14. ASSUME NEW i \in 1 .. n, P(i - 1) PROVE P(i)
  <2> DEFINE v == f[i - 1]
             u == f[i]
             m == p[i]
  <2>1. /\ Good(v, X) /\ At(w, v, s)
        /\ v.end[c][s].st \in {"unknown", "handshake", "server", "closed"}
        /\ v.end[c][s].st \in Pre => \A j \in 1 .. i - 1 : q[j].cmd \notin {"SERVER", "EOF"}
    BY <1>14
  <2>2. u = Handle(v, s, c, m)
    BY <1>12
  <2>3. LineOK(m) /\ m = q[i] /\ i \in 1 .. M
    BY <1>4, <1>11
  <2> HIDE DEF v, u, m
  <2>4. Peer(v, c, s) = t
    <3>1. SameEnds(w0, v)
      BY <2>1 DEF At, SameEnds
    <3>2. EndsOK(v)
      BY <2>1 DEF Good, Net
    <3> QED BY <1>1, <3>1, <3>2, SamePeer DEF t
  <2>5. <<c, Peer(v, c, s)>> \notin X
    BY <1>2, <2>4
  <2>6. ASSUME m.cmd = "SERVER", v.end[c][s].st \in Pre PROVE m.name = Peer(v, c, s)
    <3>1. w0.end[c][s].st \in Pre
      BY <2>1, <2>6 DEF At
    <3>2. q[i].name = t \/ \E j \in 1..(i - 1) : q[j].cmd \in {"SERVER", "EOF"}
      BY <1>4, <1>6, <2>3, <2>6, <3>1 DEF Opening
    <3> QED BY <2>1, <2>3, <2>4, <2>6, <3>2
  <2>7. Obeyed(v, u, s, c, m, X)
    <3> HIDE DEF X
    <3> QED BY <2>1, <2>2, <2>3, <2>5, <2>6, HandleObeyed
  <2>8. /\ Good(u, X) /\ At(v, u, s)
        /\ u.end[c][s].st \in {"unknown", "handshake", "server", "closed"}
        /\ m.cmd \in {"SERVER", "EOF"} => u.end[c][s].st \in {"server", "closed"}
    <3> HIDE DEF X
    <3> QED BY <2>7 DEF Obeyed
  <2>9. At(w, u, s)
    BY <2>1, <2>8, AtAt
  <2>10. ASSUME u.end[c][s].st \in Pre PROVE \A j \in 1 .. i : q[j].cmd \notin {"SERVER", "EOF"}
    <3>1. v.end[c][s].st \in Pre
      BY <2>8, <2>10 DEF At
    <3>2. q[i].cmd \notin {"SERVER", "EOF"}
      BY <2>3, <2>8, <2>10 DEF Pre
    <3>3. \A j \in 1 .. i : j \in 1 .. i - 1 \/ j = i
      BY <1>4
    <3> QED BY <2>1, <3>1, <3>2, <3>3
  <2> HIDE DEF X
  <2> QED BY <2>8, <2>9, <2>10 DEF u
<1> HIDE DEF P
<1>15. ASSUME Out # {} PROVE FALSE
  <2>1. PICK m \in Out : \A k \in Out : m <= k
    <3>1. Out \in SUBSET Nat
      BY <1>4
    <3> HIDE DEF Out
    <3> QED BY <1>15, <3>1, LeastNat
  <2>2. m \in 0 .. n /\ ~P(m) /\ m # 0
    BY <1>13, <2>1
  <2>3. m \in 1 .. n /\ m - 1 \in 0 .. n /\ m - 1 \notin Out
    <3> HIDE DEF Out
    <3> QED BY <1>4, <2>1, <2>2
  <2> QED BY <1>14, <2>2, <2>3
<1>16. P(n)
  BY <1>4, <1>15
<1> DEFINE v == f[n]
<1>17. /\ Good(v, X) /\ At(w, v, s)
       /\ v.end[c][s].st \in Pre => \A j \in 1 .. n : q[j].cmd \notin {"SERVER", "EOF"}
  BY <1>16 DEF P
<1> HIDE DEF v
<1>18. HasBeenGreeted(v, c, s)
  <2> SUFFICES ASSUME NEW x \in Server, v.end[c][s].st \in Pre, x # s, v.end[c][x].st # "none"
               PROVE  Opening(v.wire[c][s], x) /\ (v.end[c][x].st \in Said => Greeted(v.wire[c][s]))
    BY DEF HasBeenGreeted
  <2>1. w0.end[c][x].st # "none" /\ v.end[c][x] = w0.end[c][x]
    BY <1>17 DEF At, SameEnds
  <2>2. x = t
    BY <1>2, <2>1
  <2>3. w0.end[c][s].st \in Pre /\ v.wire[c][s] = r
    BY <1>8, <1>17 DEF At, Pre
  <2>4. \A j \in 1 .. n : q[j].cmd \notin {"SERVER", "EOF"}
    BY <1>17
  <2>5. (Opening(q, t) => Opening(r, t)) /\ (Greeted(q) => Greeted(r))
    BY <1>3, <1>4, <2>4, RestOpening DEF r, n, M
  <2> QED BY <1>6, <2>1, <2>2, <2>3, <2>5
<1>19. Net(v, {})
  <2>1. Net(v, {} \cup {<<c, s>>})
    <3>1. X = {} \cup {<<c, s>>}
      OBVIOUS
    <3> HIDE DEF X
    <3> QED BY <1>17, <3>1 DEF Good
  <2> QED BY <1>18, <2>1, NetDrop
<1>20. Good(v, {})
  BY <1>17, <1>19 DEF Good
<1> QED BY <1>12, <1>20 DEF v

-----------------------------------------------------------------------------
(* Connecting and breaking                                                 *)

\* A connection is taken from the listener.
LEMMA TakenGood ==
  ASSUME NEW w, Good(w, {}), NEW c \in Conn, NEW s \in Server, w.end[c][s].st = "backlog",
         NEW n \in 1 .. MaxConn, NEW v, IsWorld(v),
         v.known = w.known, v.count = w.count, v.wire = w.wire,
         v.end = Put(w.end, c, s, [w.end[c][s] EXCEPT !.st = "unknown", !.first = n])
  PROVE  Good(v, {})
<1> DEFINE f == [w.end[c][s] EXCEPT !.st = "unknown"]
           e == [f EXCEPT !.first = n]
<1>1. IsEnd(w.end[c][s])
  BY DEF Good, Net, EndsOK
<1>2. IsClient(f) /\ f.st = "unknown"
  BY <1>1, SetSt DEF IsEnd
<1>3. v.end = Put(w.end, c, s, e)
  OBVIOUS
<1> HIDE DEF f
<1>4. IsClient(e) /\ e.st = "unknown" /\ e.first = n
  BY <1>2, SetFirst
<1> HIDE DEF e
<1>5. IsEnd(e)
  BY <1>4, SceneAssumption DEF IsEnd, States
<1>6. Moves(w, v, c, s, e, {}, {})
  BY <1>3, <1>4, <1>5 DEF Moves, Pre, Said
<1> QED BY <1>4, <1>6, EndGood

\* The server that dialled says its name.
LEMMA CompletedGood ==
  ASSUME NEW w, Good(w, {}), NEW c \in Conn, NEW s \in Server, w.end[c][s].st = "connecting",
         NEW t, t = Peer(w, c, s), NEW w1, IsWorld(w1),
         w1.known = w.known, w1.count = w.count, w1.wire = w.wire,
         w1.end = Put(w.end, c, s, [w.end[c][s] EXCEPT !.st = "handshake"])
  PROVE  Good(Send(w1, s, c, Hello(s, t)), {}) /\ IsWorld(Send(w1, s, c, Hello(s, t)))
<1> DEFINE e == [w.end[c][s] EXCEPT !.st = "handshake"]
           X == {} \cup {<<c, t>>}
           h == Hello(s, t)
           v == Send(w1, s, c, h)
<1>1. IsEnd(w.end[c][s]) /\ EndsOK(w) /\ Net(w, {})
  BY DEF Good, Net, EndsOK
<1>2. /\ t \in Server /\ t # s /\ w.end[c][t].st # "none"
      /\ \A x \in Server : x # s /\ w.end[c][x].st # "none" => x = t
  BY <1>1, PeerIs
<1>3. IsClient(e) /\ e.st = "handshake" /\ e.first = w.end[c][s].first
  BY <1>1, SetSt DEF IsEnd
<1>4. w1.end = Put(w.end, c, s, e)
  OBVIOUS
<1> HIDE DEF e
<1>5. IsEnd(e)
  BY <1>1, <1>3 DEF IsEnd, States
<1>6. Moves(w, w1, c, s, e, {}, X)
  <2>1. \A r \in Server : r # s /\ w.end[c][r].st # "none" => <<c, r>> \in X
    BY <1>2
  <2> HIDE DEF X
  <2>2. {} \subseteq X
    OBVIOUS
  <2> QED BY <1>3, <1>4, <1>5, <2>1, <2>2 DEF Moves, Pre
<1>7. Good(w1, X) /\ At(w, w1, s) /\ w1.end[c][s] = e
  <2> HIDE DEF X
  <2> QED BY <1>3, <1>6, EndGood
<1>8. EndsOK(w1) /\ IsMatrix(w1.wire) /\ Net(w1, X)
  <2> HIDE DEF X
  <2> QED BY <1>7, NetParts DEF Good
<1>9. Peer(w1, c, s) = t
  <2>1. SameEnds(w, w1)
    BY <1>7 DEF At
  <2> QED BY <1>1, <1>8, <2>1, SamePeer
<1>10. Chatter(h) /\ Opening(h, s) /\ Greeted(h)
  BY HelloIs, SMTT(30)
<1> HIDE DEF h
<1>11. /\ Talk(w1, v, s, {c})
       /\ \/ w1.end[c][s].st = "closed" \/ w1.end[c][Peer(w1, c, s)].st = "closed"
          \/ v.wire[c][Peer(w1, c, s)] = w1.wire[c][Peer(w1, c, s)] \o h
  <2>1. w1.end[c][s].st # "none"
    BY <1>3, <1>7
  <2> QED BY <1>8, <1>10, <2>1, SendTalk
<1> HIDE DEF v
<1>12. Good(v, X) /\ At(w1, v, s) /\ IsWorld(v)
  <2>1. Good(v, X) /\ At(w1, v, s)
    <3> HIDE DEF X
    <3> QED BY <1>7, <1>11, TalkGood
  <2> QED BY <2>1, SMTT(30) DEF At
<1>13. HasBeenGreeted(v, c, t)
  <2> SUFFICES ASSUME NEW x \in Server, v.end[c][t].st \in Pre, x # t, v.end[c][x].st # "none"
               PROVE  Opening(v.wire[c][t], x) /\ Greeted(v.wire[c][t])
    BY DEF HasBeenGreeted
  <2>1. v.end = w1.end
    <3>1. Talk(w1, v, s, {c})
      BY <1>11, Zenon
    <3> QED BY <3>1, SMTT(30) DEF Talk
  <2>2. w.end[c][t] = v.end[c][t]
    BY <1>2, <1>7, <2>1 DEF At
  <2>3. w.end[c][x].st # "none"
    <3>1. SameEnds(w, w1)
      BY <1>7 DEF At
    <3> QED BY <2>1, <3>1 DEF SameEnds
  <2>4. x = s
    BY <1>2, <2>3
  <2>5. Chatter(w.wire[c][t]) /\ Opening(w.wire[c][t], s)
    BY <1>1, <1>2, <2>2 DEF Net, WiresOK
  <2>6. v.wire[c][t] = w.wire[c][t] \o h
    <3>1. w1.end[c][s].st # "closed"
      BY <1>3, <1>7
    <3>2. w1.end[c][t].st # "closed"
      BY <2>1 DEF Pre
    <3>3. v.wire[c][t] = w1.wire[c][t] \o h
      <4>1. w1.end[c][Peer(w1, c, s)].st # "closed"
        BY ONLY <1>9, <3>2, Zenon
      <4>2. v.wire[c][Peer(w1, c, s)] = w1.wire[c][Peer(w1, c, s)] \o h
        BY ONLY <1>11, <3>1, <4>1, Zenon
      <4> QED BY ONLY <1>9, <4>2
    <3>4. w1.wire[c][t] = w.wire[c][t]
      OBVIOUS
    <3> QED BY <3>3, <3>4
  <2>7. Opening(w.wire[c][t] \o h, s) /\ Greeted(w.wire[c][t] \o h)
    BY <1>10, <2>5, MoreLines
  <2> QED BY <2>4, <2>6, <2>7
<1>14. Net(v, {})
  <2>1. Net(v, {} \cup {<<c, t>>})
    BY <1>12 DEF Good
  <2> QED BY <1>2, <1>13, <2>1, NetDrop
<1>15. Good(v, {})
  BY <1>12, <1>14 DEF Good
<1> QED BY <1>12, <1>15 DEF v, h

\* The lists stay right when no link is made and none goes.
LEMMA SameLists ==
  ASSUME NEW w, Good(w, {}), NEW v, v.known = w.known, v.count = w.count, EndsOK(v),
         \A d \in Conn, r \in Server : v.end[d][r].st = "server" <=> w.end[d][r].st = "server",
         \A d \in Conn, r \in Server : w.end[d][r].st # "none" => v.end[d][r].st # "none"
  PROVE  ListsOK(v)
<1>1. EndsOK(w) /\ ListsOK(w)
  BY DEF Good, Net
<1>2. ASSUME NEW r \in Server PROVE ListOK(v, r)
  <2>1. ListOK(w, r)
    BY <1>1 DEF ListsOK
  <2>2. Linked(v, r) = Linked(w, r)
    BY DEF Linked, IsServerLink
  <2>3. ASSUME NEW i \in DOMAIN w.known[r]
        PROVE  Peer(v, w.known[r][i].via, r) = Peer(w, w.known[r][i].via, r)
    <3> DEFINE d == w.known[r][i].via
    <3>1. d \in Linked(w, r)
      BY <2>1 DEF ListOK, Tree
    <3> HIDE DEF d
    <3>2. d \in Conn /\ w.end[d][r].st # "none" /\ v.end[d][r].st # "none"
      BY <3>1 DEF Linked, IsServerLink
    <3>3. Peer(w, d, r) \in Server /\ Peer(w, d, r) # r /\ w.end[d][Peer(w, d, r)].st # "none"
      BY <1>1, <3>2, PeerIs
    <3>4. \A t \in Server : t # r /\ v.end[d][t].st # "none" => t = Peer(v, d, r)
      BY <3>2, PeerIs
    <3>5. v.end[d][Peer(w, d, r)].st # "none"
      BY <3>2, <3>3
    <3>6. Peer(w, d, r) = Peer(v, d, r)
      BY <3>3, <3>4, <3>5
    <3> QED BY <3>6 DEF d
  <2> QED BY <2>1, <2>2, <2>3 DEF ListOK
<1> QED BY <1>1, <1>2 DEF ListsOK

\* A server dials another: the connection c had no ends.
LEMMA DialledGood ==
  ASSUME NEW w, Good(w, {}), NEW c \in Conn, NEW s \in Server, NEW t \in Server, s # t,
         \A r \in Server : w.end[c][r].st = "none", NEW e, IsEnd(e), e.st = "connecting",
         NEW f, IsEnd(f), f.st = "backlog", NEW v, IsWorld(v),
         v.known = w.known, v.count = w.count, v.wire = w.wire,
         v.end = Put(Put(w.end, c, s, e), c, t, f)
  PROVE  Good(v, {})
<1> DEFINE A == w.end
           B == Put(A, c, s, e)
           C == v.end
<1>1. EndsOK(w) /\ IsMatrix(A) /\ Net(w, {}) /\ WiresOK(w, {})
  BY NetParts DEF Good, Net
<1>2. C = Put(B, c, t, f)
  OBVIOUS
<1> HIDE DEF A, C
<1>3. /\ IsMatrix(B) /\ B[c][s] = e
      /\ \A d \in Conn, r \in Server : d # c \/ r # s => B[d][r] = A[d][r]
  BY <1>1, PutIs
<1> HIDE DEF B
<1>4. /\ IsMatrix(C) /\ C[c][t] = f
      /\ \A d \in Conn, r \in Server : d # c \/ r # t => C[d][r] = B[d][r]
  BY <1>2, <1>3, PutIs
<1>5. /\ C[c][s] = e /\ C[c][t] = f
      /\ \A d \in Conn, r \in Server : d # c => C[d][r] = A[d][r]
      /\ \A r \in Server : r # s /\ r # t => C[c][r] = A[c][r]
  BY <1>3, <1>4
<1>6. \A r \in Server : C[c][r].st # "none" <=> r \in {s, t}
  BY <1>5 DEF A
<1>7. /\ \A d \in Conn, r \in Server : IsEnd(A[d][r])
      /\ \A d \in Conn, r \in Server :
           A[d][r].st # "none" => \E y \in Server : y # r /\ A[d][y].st # "none"
      /\ \A d \in Conn, x, y, z \in Server :
           A[d][x].st # "none" /\ A[d][y].st # "none" /\ A[d][z].st # "none"
             => x = y \/ x = z \/ y = z
  BY <1>1 DEF EndsOK, A
<1>8. EndsOK(v)
  <2>1. \A d \in Conn, r \in Server : IsEnd(C[d][r])
    BY <1>5, <1>7
  <2>2. ASSUME NEW d \in Conn, NEW r \in Server, C[d][r].st # "none"
        PROVE  \E y \in Server : y # r /\ C[d][y].st # "none"
    <3>1. CASE d = c
      BY <1>6, <2>2, <3>1
    <3>2. CASE d # c
      BY <1>5, <1>7, <2>2, <3>2
    <3> QED BY <3>1, <3>2
  <2>3. ASSUME NEW d \in Conn, NEW x \in Server, NEW y \in Server, NEW z \in Server,
               C[d][x].st # "none", C[d][y].st # "none", C[d][z].st # "none"
        PROVE  x = y \/ x = z \/ y = z
    <3>1. CASE d = c
      BY <1>6, <2>3, <3>1
    <3>2. CASE d # c
      BY <1>5, <1>7, <2>3, <3>2
    <3> QED BY <3>1, <3>2
  <2> QED BY <1>4, <2>1, <2>2, <2>3 DEF EndsOK, IsMatrix, C
<1>9. \A r \in Server : w.wire[c][r] = <<>>
  BY <1>1 DEF WiresOK
<1>10. ASSUME NEW d \in Conn, NEW x \in Server, NEW y \in Server, x # y,
              C[d][x].st \in Pre, C[d][y].st # "none"
       PROVE  /\ Opening(w.wire[d][x], y)
              /\ C[d][y].st \in Said => Greeted(w.wire[d][x])
  <2>1. CASE d = c
    <3>1. w.wire[d][x] = <<>> /\ y \in {s, t} /\ C[d][y].st \notin Said
      BY <1>5, <1>6, <1>9, <1>10, <2>1 DEF Said
    <3>2. Opening(<<>>, y)
      BY DEF Opening
    <3> QED BY <3>1, <3>2
  <2>2. CASE d # c
    <3>1. C[d][x] = A[d][x] /\ C[d][y] = A[d][y]
      BY <1>5, <2>2
    <3> QED BY <1>1, <1>10, <3>1 DEF WiresOK, A
  <2> QED BY <2>1, <2>2
<1>11. WiresOK(v, {})
  <2>1. \A d \in Conn, r \in Server : C[d][r].st = "none" => A[d][r].st = "none"
    BY <1>5 DEF A
  <2>2. /\ w.wire = [d \in Conn |-> [r \in Server |-> w.wire[d][r]]]
        /\ \A d \in Conn, r \in Server : Chatter(w.wire[d][r])
        /\ \A d \in Conn, r \in Server : A[d][r].st = "none" => w.wire[d][r] = <<>>
    BY <1>1 DEF WiresOK, A
  <2> QED BY <1>10, <2>1, <2>2 DEF WiresOK, C
<1>12. ListsOK(v)
  <2>1. /\ \A d \in Conn, r \in Server : C[d][r].st = "server" <=> A[d][r].st = "server"
        /\ \A d \in Conn, r \in Server : A[d][r].st # "none" => C[d][r].st # "none"
    BY <1>5 DEF A
  <2> QED BY <1>8, <2>1, SameLists DEF A, C
<1> QED BY <1>8, <1>11, <1>12 DEF Good, Net

\* The net loses a connection.
LEMMA CutGood ==
  ASSUME NEW w, Good(w, {}), NEW c \in Conn, NEW s \in Server, NEW t \in Server, s # t,
         w.end[c][s].st # "none", w.end[c][t].st # "none", NEW v, IsWorld(v),
         v.known = w.known, v.count = w.count, v.end = w.end,
         v.wire = Put(Put(w.wire, c, s, <<[cmd |-> "EOF"]>>), c, t, <<[cmd |-> "EOF"]>>)
  PROVE  Good(v, {})
<1> DEFINE q == <<[cmd |-> "EOF"]>>
           A == w.wire
           B == Put(A, c, s, q)
           C == v.wire
<1>1. EndsOK(w) /\ IsMatrix(A) /\ WiresOK(w, {})
  BY NetParts DEF Good, Net
<1>2. C = Put(B, c, t, q)
  OBVIOUS
<1>3. Chatter(q) /\ Greeted(q) /\ \A r : Opening(q, r)
  <2> DEFINE m == [cmd |-> "EOF"]
  <2>1. m.cmd = "EOF" /\ LineOK(m)
    BY DEF LineOK
  <2> HIDE DEF m
  <2>2. Chatter(<<m>>) /\ \A r : Opening(<<m>>, r)
    BY <2>1, ShortLines
  <2>3. 1 \in DOMAIN <<m>> /\ <<m>>[1] = m
    OBVIOUS
  <2>4. Greeted(<<m>>)
    BY <2>1, <2>3 DEF Greeted
  <2> QED BY <2>2, <2>4 DEF m
<1> HIDE DEF A, C, q
<1>4. /\ IsMatrix(B) /\ B[c][s] = q
      /\ \A d \in Conn, r \in Server : d # c \/ r # s => B[d][r] = A[d][r]
  BY <1>1, PutIs
<1> HIDE DEF B
<1>5. /\ IsMatrix(C) /\ C[c][t] = q
      /\ \A d \in Conn, r \in Server : d # c \/ r # t => C[d][r] = B[d][r]
  BY <1>2, <1>4, PutIs
<1>6. \A d \in Conn, r \in Server : C[d][r] = A[d][r] \/ (C[d][r] = q /\ d = c /\ r \in {s, t})
  BY <1>4, <1>5
<1>7. EndsOK(v)
  BY <1>1, SameEndsOK
<1>8. /\ \A d \in Conn, r \in Server : Chatter(A[d][r])
      /\ \A d \in Conn, r \in Server : w.end[d][r].st = "none" => A[d][r] = <<>>
      /\ \A d \in Conn, x, y \in Server :
           x # y /\ w.end[d][x].st \in Pre /\ w.end[d][y].st # "none"
             => /\ Opening(A[d][x], y)
                /\ w.end[d][y].st \in Said => Greeted(A[d][x])
  BY <1>1 DEF WiresOK, A
<1>9. \A d \in Conn, r \in Server : Chatter(C[d][r])
  BY <1>3, <1>6, <1>8
<1>10. \A d \in Conn, r \in Server : w.end[d][r].st = "none" => C[d][r] = <<>>
  BY <1>6, <1>8
<1>11. \A d \in Conn, x, y \in Server :
         x # y /\ w.end[d][x].st \in Pre /\ w.end[d][y].st # "none"
           => /\ Opening(C[d][x], y)
              /\ w.end[d][y].st \in Said => Greeted(C[d][x])
  BY <1>3, <1>6, <1>8
<1>12. WiresOK(v, {})
  BY <1>5, <1>9, <1>10, <1>11 DEF WiresOK, IsMatrix, C
<1>13. ListsOK(v)
  BY <1>7, SameLists
<1> QED BY <1>7, <1>12, <1>13 DEF Good, Net

-----------------------------------------------------------------------------
(* The steps                                                               *)

\* World holds the variables.
LEMMA WorldIs ==
  /\ IsWorld(World)
  /\ World.end = end /\ World.wire = wire /\ World.known = known /\ World.count = count
BY DEF World, IsWorld

\* Become(w) makes w the world.
LEMMA Becomes ==
  ASSUME NEW w, IsWorld(w), Become(w)
  PROVE  World' = w
<1>1. World' = [end |-> w.end, wire |-> w.wire, known |-> w.known, count |-> w.count]
  BY DEF Become, World
<1> QED BY <1>1 DEF IsWorld

\* World' when its parts are known.
LEMMA NextWorld ==
  /\ IsWorld(World')
  /\ World'.end = end' /\ World'.wire = wire' /\ World'.known = known' /\ World'.count = count'
BY DEF World, IsWorld

\* A read keeps the world good;
LEMMA ReadStep ==
  ASSUME Good(World, {}), NEW c \in Conn, NEW s \in Server, read_packet(c, s)
  PROVE  Good(World', {})
<1> DEFINE q == wire[c][s]
           p == Packet(q)
           r == SubSeq(q, Len(p) + 1, Len(q))
           w == [World EXCEPT !.wire[c][s] = r]
<1>1. end[c][s].st \in {"unknown", "handshake", "server"} /\ Become(ReadAll(w, s, c, p))
  BY DEF read_packet, ReadAll
<1>2. Chatter(q)
  BY WorldIs DEF Good, Net, WiresOK
<1>3. /\ Len(p) \in Nat /\ Len(p) <= Len(q)
      /\ \A j \in 1 .. Len(p) : p[j] = q[j]
  <2> HIDE DEF q
  <2> QED BY <1>2, PacketIs
<1> HIDE DEF p
<1>4. /\ IsWorld(w) /\ w.end = end /\ w.known = known /\ w.count = count
      /\ w.wire = Put(wire, c, s, r)
  <2> HIDE DEF r
  <2> QED BY DEF World, IsWorld, Put
<1> HIDE DEF w
<1>5. Good(ReadAll(w, s, c, p), {})
  <2>1. World.end[c][s].st \in {"unknown", "handshake", "server"} /\ q = World.wire[c][s]
    BY <1>1, WorldIs
  <2>2. /\ IsWorld(w) /\ w.end = World.end /\ w.known = World.known /\ w.count = World.count
        /\ w.wire = Put(World.wire, c, s, SubSeq(q, Len(p) + 1, Len(q)))
    BY <1>4, WorldIs
  <2> HIDE DEF q, r
  <2> QED BY <1>3, <2>1, <2>2, ReadGood
<1>6. IsWorld(ReadAll(w, s, c, p))
  BY <1>5 DEF Good
<1>7. World' = ReadAll(w, s, c, p)
  BY <1>1, <1>6, Becomes
<1> QED BY <1>5, <1>7

\* so does taking a connection,
LEMMA TakeStep ==
  ASSUME Good(World, {}), NEW c \in Conn, NEW s \in Server, add_connection(c, s)
  PROVE  Good(World', {})
<1>1. PICK n \in Stamps(s) : end' = [end EXCEPT ![c][s] = [@ EXCEPT !.st = "unknown", !.first = n]]
  BY Zenon DEF add_connection
<1>2. n \in 1 .. MaxConn
  BY DEF Stamps
<1>3. /\ end[c][s].st = "backlog" /\ wire' = wire /\ known' = known /\ count' = count
      /\ end' = Put(end, c, s, [end[c][s] EXCEPT !.st = "unknown", !.first = n])
  BY <1>1 DEF add_connection, Put
<1>4. World.end[c][s].st = "backlog"
  BY <1>3, WorldIs
<1>5. /\ World'.known = World.known /\ World'.count = World.count /\ World'.wire = World.wire
      /\ World'.end = Put(World.end, c, s, [World.end[c][s] EXCEPT !.st = "unknown", !.first = n])
  BY <1>3, WorldIs, NextWorld
<1> QED BY <1>2, <1>4, <1>5, NextWorld, TakenGood, Zenon

\* saying Hello,
LEMMA CompleteStep ==
  ASSUME Good(World, {}), NEW c \in Conn, NEW s \in Server, completed_connection(c, s)
  PROVE  Good(World', {})
<1> DEFINE t == Peer(World, c, s)
           w1 == [World EXCEPT !.end[c][s].st = "handshake"]
<1>1. end[c][s].st = "connecting" /\ Become(Send(w1, s, c, Hello(s, t)))
  BY DEF completed_connection
<1> HIDE DEF t
<1>2. /\ IsWorld(w1) /\ w1.known = known /\ w1.count = count /\ w1.wire = wire
      /\ w1.end = Put(end, c, s, [end[c][s] EXCEPT !.st = "handshake"])
  BY DEF World, IsWorld, Put
<1> HIDE DEF w1
<1>3. Good(Send(w1, s, c, Hello(s, t)), {}) /\ IsWorld(Send(w1, s, c, Hello(s, t)))
  <2>1. World.end[c][s].st = "connecting" /\ t = Peer(World, c, s)
    BY <1>1, WorldIs DEF t
  <2>2. /\ w1.known = World.known /\ w1.count = World.count /\ w1.wire = World.wire
        /\ w1.end = Put(World.end, c, s, [World.end[c][s] EXCEPT !.st = "handshake"])
    BY <1>2, WorldIs
  <2> QED BY <1>2, <2>1, <2>2, CompletedGood
<1>4. World' = Send(w1, s, c, Hello(s, t))
  BY <1>1, <1>3, Becomes
<1> QED BY <1>3, <1>4

\* dialling: the numbers of left show that a server does not dial itself,
LEMMA DialStep ==
  ASSUME Good(World, {}), left.dials \in [Server \X Server -> Int],
         \A r \in Server : left.dials[<<r, r>>] = 0,
         NEW s \in Server, NEW t \in Server, connect_server(s, t)
  PROVE  Good(World', {})
<1>1. PICK c \in Conn, n \in Stamps(s) :
        /\ left.dials[<<s, t>>] > 0
        /\ \A r \in Server : end[c][r].st = "none"
        /\ end' = [end EXCEPT ![c][s] = [NoEnd EXCEPT !.st = "connecting", !.first = n],
                              ![c][t] = [NoEnd EXCEPT !.st = "backlog"]]
  BY Zenon DEF connect_server
<1> DEFINE e == [NoEnd EXCEPT !.st = "connecting", !.first = n]
           f == [NoEnd EXCEPT !.st = "backlog"]
<1>2. n \in 1 .. MaxConn
  BY DEF Stamps
<1>3. s # t
  BY <1>1
<1>4. IsEnd(e) /\ e.st = "connecting" /\ IsEnd(f) /\ f.st = "backlog"
  <2> DEFINE g == [NoEnd EXCEPT !.st = "connecting"]
  <2>1. IsClient(NoEnd) /\ NoEnd.first = 0
    BY DEF IsClient, NoEnd
  <2>2. IsClient(g) /\ g.st = "connecting" /\ IsClient(f) /\ f.st = "backlog" /\ f.first = 0
    BY <2>1, SetSt
  <2>3. e = [g EXCEPT !.first = n]
    OBVIOUS
  <2> HIDE DEF g, e, f
  <2>4. IsClient(e) /\ e.st = "connecting" /\ e.first = n
    BY <2>2, <2>3, SetFirst
  <2>5. 0 \in 0 .. MaxConn /\ n \in 0 .. MaxConn
    BY <1>2, SceneAssumption
  <2> QED BY <2>2, <2>4, <2>5 DEF IsEnd, States
<1>5. end' = Put(Put(end, c, s, e), c, t, f)
  <2>1. end' = [end EXCEPT ![c][s] = e, ![c][t] = f]
    BY <1>1
  <2> HIDE DEF e, f
  <2> QED BY <2>1 DEF Put
<1> HIDE DEF e, f
<1>6. wire' = wire /\ known' = known /\ count' = count
  BY DEF connect_server
<1>7. \A r \in Server : World.end[c][r].st = "none"
  BY <1>1, WorldIs
<1>8. /\ World'.known = World.known /\ World'.count = World.count /\ World'.wire = World.wire
      /\ World'.end = Put(Put(World.end, c, s, e), c, t, f)
  BY <1>5, <1>6, WorldIs, NextWorld
<1> QED BY <1>3, <1>4, <1>7, <1>8, NextWorld, DialledGood

\* a loss
LEMMA CutStep ==
  ASSUME Good(World, {}), NEW c \in Conn, Cut(c)
  PROVE  Good(World', {})
<1> DEFINE q == <<[cmd |-> "EOF"]>>
<1>1. PICK s \in Server, t \in Server :
        /\ s # t
        /\ {end[c][s].st, end[c][t].st} \subseteq {"unknown", "handshake", "server"}
        /\ wire' = [wire EXCEPT ![c][s] = q, ![c][t] = q]
  BY DEF Cut
<1>2. end[c][s].st # "none" /\ end[c][t].st # "none"
  BY <1>1
<1>3. wire' = Put(Put(wire, c, s, q), c, t, q)
  <2> HIDE DEF q
  <2> QED BY <1>1 DEF Put
<1>4. end' = end /\ known' = known /\ count' = count
  BY DEF Cut
<1>5. World.end[c][s].st # "none" /\ World.end[c][t].st # "none"
  BY <1>2, WorldIs
<1>6. /\ World'.known = World.known /\ World'.count = World.count /\ World'.end = World.end
      /\ World'.wire = Put(Put(World.wire, c, s, q), c, t, q)
  <2> HIDE DEF q
  <2> QED BY <1>3, <1>4, WorldIs, NextWorld
<1> QED BY <1>1, <1>5, <1>6, NextWorld, CutGood

\* and an operator's SQUIT.
LEMMA SquitStep ==
  ASSUME Good(World, {}), NEW s \in Server, NEW t \in Server, m_squit(s, t)
  PROVE  Good(World', {})
<1> DEFINE v == exit_client(World, s, t, None, s, TRUE)
<1>1. find_server(World, s, t) # {} /\ Become(v)
  BY DEF m_squit
<1>2. Good(v, {})
  BY <1>1, ExitClientGood
<1> HIDE DEF v
<1>3. World' = v
  BY <1>1, <1>2, Becomes DEF Good
<1> QED BY <1>2, <1>3

-----------------------------------------------------------------------------
(* The start                                                               *)

\* The structure of a link that stands at the start.
FirstEnd(caps) == [NoEnd EXCEPT !.st = "server", !.ts = TRUE, !.first = 1, !.caps = caps]

\* It is an end.
LEMMA FirstEndIs ==
  ASSUME NEW x, 1 <= MaxConn
  PROVE  IsEnd(FirstEnd(x)) /\ FirstEnd(x).st = "server" /\ IsEnd(NoEnd) /\ NoEnd.st = "none"
<1> DEFINE a == [NoEnd EXCEPT !.st = "server"]
           b == [a EXCEPT !.ts = TRUE]
           d == [b EXCEPT !.first = 1]
           e == [d EXCEPT !.caps = x]
<1>1. IsClient(NoEnd) /\ NoEnd.st = "none" /\ NoEnd.first = 0
  BY DEF IsClient, NoEnd
<1>2. e = FirstEnd(x)
  BY DEF FirstEnd
<1>3. IsClient(a) /\ a.st = "server"
  BY <1>1, SetSt
<1> HIDE DEF a
<1>4. IsClient(b) /\ b.st = "server"
  BY <1>3, SetTs
<1> HIDE DEF b
<1>5. IsClient(d) /\ d.st = "server" /\ d.first = 1
  BY <1>4, SetFirst
<1> HIDE DEF d
<1>6. IsClient(e) /\ e.st = "server" /\ e.first = 1
  BY <1>5, SetCaps
<1> HIDE DEF e
<1>7. 0 \in 0 .. MaxConn /\ 1 \in 0 .. MaxConn
  BY SceneAssumption
<1> QED BY <1>1, <1>2, <1>6, <1>7 DEF IsEnd, States

\* s lists a server that is linked to it by c.
Has(K, c, s) == \E i \in DOMAIN K[s] : K[s][i].via = c /\ K[s][i].up = s

\* Every server of a list hangs on a link.
LEMMA RootedHas ==
  ASSUME NEW K, NEW s, K[s] \in Seq(Known(s)), Rooted(K[s], s), NEW i \in DOMAIN K[s]
  PROVE  Has(K, K[s][i].via, s)
<1> DEFINE L == K[s]
           c == L[i].via
           N == {j \in DOMAIN L : L[j].via = c}
<1>1. DOMAIN L = 1 .. Len(L) /\ Len(L) \in Nat
  OBVIOUS
<1>2. N \in SUBSET Nat /\ i \in N
  BY <1>1
<1>3. PICK m \in N : \A k \in N : m <= k
  <2> HIDE DEF N
  <2> QED BY <1>2, LeastNat
<1>4. m \in DOMAIN L /\ L[m].via = c /\ m \in Nat
  BY <1>2, <1>3
<1>5. ASSUME NEW j \in 1..(m - 1) PROVE ~(L[j].name = L[m].up /\ L[j].via = L[m].via)
  <2>1. j \in DOMAIN L /\ ~(m <= j)
    BY <1>1, <1>4
  <2> QED BY <1>3, <1>4, <2>1
<1>6. L[m].up = s
  BY <1>4, <1>5 DEF Rooted
<1> QED BY <1>4, <1>6 DEF Has

\* The world at the start.
Start(w, K) ==
  /\ IsWorld(w) /\ w.known = K
  /\ w.wire = [c \in Conn |-> [s \in Server |-> <<>>]]
  /\ w.end = [c \in Conn |-> [s \in Server |-> w.end[c][s]]]
  /\ \A c \in Conn, s \in Server :
       w.end[c][s] = NoEnd \/ \E x : w.end[c][s] = FirstEnd(x)
  /\ \A c \in Conn, s \in Server : w.end[c][s] # NoEnd <=> Has(K, c, s)
  /\ w.count = [s \in Server |->
                  [server |-> Len(K[s]) + 1,
                   myserver |-> Cardinality({K[s][i].via : i \in DOMAIN K[s]})]]

\* The world of a standing network is good.
LEMMA StartGood ==
  ASSUME NEW K, K = [s \in Server |-> K[s]], Standing(K),
         \A s \in Server : K[s] \in Seq(Known(s)) /\ Rooted(K[s], s),
         NEW w, Start(w, K)
  PROVE  Good(w, {})
<1>1. ASSUME NEW c \in Conn, NEW s \in Server
      PROVE  /\ IsEnd(w.end[c][s]) /\ w.end[c][s].st \in {"none", "server"}
             /\ w.end[c][s].st # "none" <=> Has(K, c, s)
  <2>1. 1 <= MaxConn
    BY SceneAssumption DEF Conn
  <2>2. IsEnd(NoEnd) /\ NoEnd.st = "none" /\ \A x : IsEnd(FirstEnd(x)) /\ FirstEnd(x).st = "server"
    BY <2>1, FirstEndIs
  <2>3. w.end[c][s] = NoEnd \/ \E x : w.end[c][s] = FirstEnd(x)
    BY DEF Start
  <2>4. w.end[c][s] # NoEnd <=> Has(K, c, s)
    BY DEF Start
  <2> QED BY <2>2, <2>3, <2>4
<1>2. ASSUME NEW s \in Server, NEW i \in DOMAIN K[s]
      PROVE  K[s][i] \in Known(s)
  <2> DEFINE L == K[s]
  <2>1. L \in Seq(Known(s)) /\ i \in DOMAIN L
    BY <1>2
  <2> HIDE DEF L
  <2>2. L[i] \in Known(s)
    BY <2>1, SMTT(30)
  <2> QED BY <2>2 DEF L
<1>3. ASSUME NEW s \in Server, NEW i \in DOMAIN K[s], K[s][i].up = s
      PROVE  /\ K[s][i].name \in Server /\ K[s][i].name # s
             /\ Has(K, K[s][i].via, K[s][i].name)
  <2>1. K[s][i].name \in Server /\ K[s][i].name # s
    BY <1>2 DEF Known
  <2>2. \E k \in DOMAIN K[K[s][i].name] :
          LET g == K[K[s][i].name][k] IN g.name = s /\ g.via = K[s][i].via /\ g.up = K[s][i].name
    BY <1>3, ZenonT(40) DEF Standing
  <2> QED BY <2>1, <2>2 DEF Has
<1>4. ASSUME NEW c \in Conn, NEW s \in Server, NEW t \in Server, s # t, Has(K, c, t),
             NEW i \in DOMAIN K[s], K[s][i].via = c, K[s][i].up = s
      PROVE  K[s][i].name = t
  <2>1. PICK j \in DOMAIN K[t] : K[t][j].via = c /\ K[t][j].up = t
    BY <1>4 DEF Has
  <2> QED BY <1>4, <2>1 DEF Standing
<1>5. ASSUME NEW c \in Conn, NEW s \in Server, Has(K, c, s)
      PROVE  \E t \in Server : t # s /\ Has(K, c, t)
  BY <1>3, <1>5 DEF Has
<1>6. ASSUME NEW c \in Conn, NEW s \in Server, NEW t \in Server, NEW r \in Server,
             Has(K, c, s), Has(K, c, t), Has(K, c, r)
      PROVE  s = t \/ s = r \/ t = r
  <2>1. PICK i \in DOMAIN K[s] : K[s][i].via = c /\ K[s][i].up = s
    BY <1>6 DEF Has
  <2>2. s # t => K[s][i].name = t
    BY <1>4, <1>6, <2>1
  <2>3. s # r => K[s][i].name = r
    BY <1>4, <1>6, <2>1
  <2> QED BY <2>2, <2>3
<1>7. EndsOK(w)
  <2>1. w.end = [c \in Conn |-> [s \in Server |-> w.end[c][s]]]
    BY DEF Start
  <2>2. \A c \in Conn, s \in Server :
          w.end[c][s].st # "none" => \E t \in Server : t # s /\ w.end[c][t].st # "none"
    BY <1>1, <1>5
  <2>3. \A c \in Conn, s, t, r \in Server :
          w.end[c][s].st # "none" /\ w.end[c][t].st # "none" /\ w.end[c][r].st # "none"
            => s = t \/ s = r \/ t = r
    BY <1>1, <1>6
  <2> QED BY <1>1, <2>1, <2>2, <2>3 DEF EndsOK
<1>8. WiresOK(w, {})
  <2>1. \A c \in Conn, s \in Server : w.wire[c][s] = <<>>
    BY DEF Start
  <2>2. w.wire = [c \in Conn |-> [s \in Server |-> w.wire[c][s]]]
    BY <2>1 DEF Start
  <2>3. \A c \in Conn, s \in Server : w.end[c][s].st \notin Pre
    BY <1>1 DEF Pre
  <2>4. \A c \in Conn, s \in Server : Chatter(w.wire[c][s])
    BY <2>1, ShortLines
  <2> QED BY <2>1, <2>2, <2>3, <2>4 DEF WiresOK
<1>9. ASSUME NEW s \in Server PROVE ListOK(w, s)
  <2>1. w.known[s] = K[s] /\ K[s] \in Seq(Known(s)) /\ Rooted(K[s], s)
    BY DEF Start
  <2>2. Linked(w, s) = {c \in Conn : Has(K, c, s)}
    BY <1>1 DEF Linked, IsServerLink
  <2>3. \A i \in DOMAIN K[s] : K[s][i].via \in Conn /\ Has(K, K[s][i].via, s)
    <3>1. \A i \in DOMAIN K[s] : K[s][i].via \in Conn
      BY <1>2 DEF Known
    <3> QED BY <2>1, <3>1, RootedHas
  <2>4. Linked(w, s) = {K[s][i].via : i \in DOMAIN K[s]}
    BY <2>2, <2>3 DEF Has
  <2>5. \A c \in Linked(w, s) : \E i \in DOMAIN K[s] : K[s][i].via = c /\ K[s][i].up = s
    BY <2>2 DEF Has
  <2>6. ASSUME NEW i \in DOMAIN K[s], K[s][i].up = s
        PROVE  K[s][i].name = Peer(w, K[s][i].via, s)
    <3> DEFINE c == K[s][i].via
               t == K[s][i].name
    <3>1. t \in Server /\ t # s /\ Has(K, c, t)
      BY <1>3, <2>6
    <3>2. c \in Conn /\ Has(K, c, s)
      BY <2>3
    <3> HIDE DEF c, t
    <3>3. w.end[c][s].st # "none" /\ w.end[c][t].st # "none"
      BY <1>1, <3>1, <3>2
    <3>4. t = Peer(w, c, s)
      BY <1>7, <3>1, <3>2, <3>3, PeerIs
    <3> QED BY <3>4 DEF c, t
  <2>7. w.count[s] = [server |-> Len(K[s]) + 1, myserver |-> Cardinality(Linked(w, s))]
    BY <2>4 DEF Start
  <2>8. Tree(K[s], s, Linked(w, s))
    BY <2>1, <2>4, <2>5 DEF Tree
  <2> QED BY <2>1, <2>6, <2>7, <2>8 DEF ListOK
<1>10. ListsOK(w)
  <2>1. w.known = [s \in Server |-> w.known[s]] /\ w.count = [s \in Server |-> w.count[s]]
    BY DEF Start
  <2> QED BY <1>9, <2>1 DEF ListsOK
<1> QED BY <1>7, <1>8, <1>10 DEF Good, Net, Start

\* The invariant holds at the start,
LEMMA InitInv == Init => Inv
<1> SUFFICES ASSUME Init PROVE Inv
  OBVIOUS
<1> DEFINE K == scene.known
<1>1. scene \in Scenes /\ known = K
  BY Zenon DEF Init
<1>2. /\ K \in [Server -> Seq([name: Server, via: Conn, up: Server, hop: Nat])]
      /\ \A s \in Server : /\ \A i \in DOMAIN K[s] : K[s][i] \in Known(s)
                           /\ Rooted(K[s], s)
      /\ Standing(K)
  BY <1>1, SceneAssumption
<1>3. \A s \in Server : K[s] \in Seq(Known(s)) /\ Rooted(K[s], s)
  <2> SUFFICES ASSUME NEW s \in Server PROVE K[s] \in Seq(Known(s))
    BY <1>2
  <2> DEFINE L == K[s]
  <2>1. L \in Seq([name: Server, via: Conn, up: Server, hop: Nat]) /\ \A i \in DOMAIN L : L[i] \in Known(s)
    BY <1>2
  <2> HIDE DEF L
  <2>2. L \in Seq(Known(s))
    BY <2>1
  <2> QED BY <2>2 DEF L
<1>4. K = [s \in Server |-> K[s]]
  BY <1>2
<1>5. Start(World, K)
  <2>1. \A c \in Conn, s \in Server :
          LET peer == {e \in Range(known[s]) : e.via = c /\ e.up = s} IN
          end[c][s] = IF peer = {} THEN NoEnd ELSE FirstEnd(UNION {Caps(e.name) : e \in peer})
    BY Zenon DEF Init, FirstEnd
  <2>2. end = [c \in Conn |-> [s \in Server |-> end[c][s]]]
    BY Zenon DEF Init
  <2>3. ASSUME NEW c \in Conn, NEW s \in Server
        PROVE  /\ end[c][s] = NoEnd \/ \E x : end[c][s] = FirstEnd(x)
               /\ end[c][s] # NoEnd <=> Has(K, c, s)
    <3> DEFINE peer == {e \in Range(known[s]) : e.via = c /\ e.up = s}
    <3>1. peer # {} <=> Has(K, c, s)
      BY <1>1 DEF Has, Range
    <3>2. end[c][s] = IF peer = {} THEN NoEnd ELSE FirstEnd(UNION {Caps(e.name) : e \in peer})
      BY <2>1
    <3> HIDE DEF peer
    <3>3. \A x : FirstEnd(x) # NoEnd
      <4>1. 1 <= MaxConn
        BY SceneAssumption DEF Conn
      <4>2. \A x : FirstEnd(x).st = "server" /\ NoEnd.st = "none"
        BY <4>1, FirstEndIs
      <4> QED BY <4>2
    <3> QED BY <3>1, <3>2, <3>3
  <2>4. count = [s \in Server |->
                  [server |-> Len(K[s]) + 1,
                   myserver |-> Cardinality({K[s][i].via : i \in DOMAIN K[s]})]]
    BY Zenon DEF Init
  <2>5. wire = [c \in Conn |-> [s \in Server |-> <<>>]]
    BY Zenon DEF Init
  <2> HIDE DEF K
  <2> QED BY <1>1, <2>2, <2>3, <2>4, <2>5, WorldIs DEF Start
<1>6. Good(World, {})
  <2> HIDE DEF K
  <2> QED BY <1>2, <1>3, <1>4, <1>5, StartGood
<1>7. left.dials \in [Server \X Server -> Int] /\ \A s \in Server : left.dials[<<s, s>>] = 0
  <2>1. left.dials = scene.dials
    BY Zenon DEF Init
  <2>2. scene.dials \in [Server \X Server -> Nat] /\ \A s \in Server : scene.dials[<<s, s>>] = 0
    BY <1>1, SceneAssumption
  <2> QED BY <2>1, <2>2
<1>8. auto \in [Server -> BOOLEAN]
  BY Zenon DEF Init
<1> QED BY <1>1, <1>6, <1>7, <1>8 DEF Inv

\* The scene and the events left, whatever the step.
LEMMA RestStep ==
  ASSUME Inv, Next
  PROVE  /\ scene' = scene
         /\ left'.dials \in [Server \X Server -> Int]
         /\ \A s \in Server : left'.dials[<<s, s>>] = 0
         /\ auto' \in [Server -> BOOLEAN]
<1>1. /\ left.dials \in [Server \X Server -> Int] /\ \A s \in Server : left.dials[<<s, s>>] = 0
      /\ auto \in [Server -> BOOLEAN]
  BY DEF Inv
<1>2. CASE \E c \in Conn, s \in Server : read_packet(c, s)
  BY <1>1, <1>2 DEF read_packet
<1>3. CASE \E c \in Conn, s \in Server : add_connection(c, s)
  BY <1>1, <1>3 DEF add_connection
<1>4. CASE \E c \in Conn, s \in Server : completed_connection(c, s)
  BY <1>1, <1>4 DEF completed_connection
<1>5. CASE \E s, t \in Server : connect_server(s, t)
  <2>1. PICK s \in Server, t \in Server : connect_server(s, t)
    BY <1>5
  <2>2. /\ left' = [left EXCEPT !.dials[<<s, t>>] = @ - 1] /\ scene' = scene /\ auto' = auto
        /\ left.dials[<<s, t>>] > 0
    BY <2>1 DEF connect_server
  <2>3. s # t
    BY <1>1, <2>2
  <2> DEFINE d == left.dials
             f == [d EXCEPT ![<<s, t>>] = d[<<s, t>>] - 1]
  <2>4. left' = [left EXCEPT !.dials = f]
    BY <2>2
  <2> QED
    BY <1>1, <2>2, <2>3, <2>4
<1>6. CASE \E c \in Conn : Cut(c)
  BY <1>1, <1>6 DEF Cut
<1>7. CASE \E s, t \in Server : m_squit(s, t)
  BY <1>1, <1>7 DEF m_squit
<1>8. CASE \E s \in Server : set_autoconn(s)
  BY <1>1, <1>8 DEF set_autoconn
<1> QED BY <1>2, <1>3, <1>4, <1>5, <1>6, <1>7, <1>8 DEF Next

\* every step keeps it,
LEMMA NextInv == Inv /\ [Next]_vars => Inv'
<1> SUFFICES ASSUME Inv, [Next]_vars PROVE Inv'
  OBVIOUS
<1>1. /\ Good(World, {}) /\ left.dials \in [Server \X Server -> Int]
      /\ \A s \in Server : left.dials[<<s, s>>] = 0
  BY DEF Inv
<1>2. CASE Next
  <2>1. ASSUME NEW c \in Conn, NEW s \in Server, read_packet(c, s) PROVE Good(World', {})
    BY <1>1, <2>1, ReadStep
  <2>2. ASSUME NEW c \in Conn, NEW s \in Server, add_connection(c, s) PROVE Good(World', {})
    BY <1>1, <2>2, TakeStep
  <2>3. ASSUME NEW c \in Conn, NEW s \in Server, completed_connection(c, s) PROVE Good(World', {})
    BY <1>1, <2>3, CompleteStep
  <2>4. ASSUME NEW s \in Server, NEW t \in Server, connect_server(s, t) PROVE Good(World', {})
    BY <1>1, <2>4, DialStep
  <2>5. ASSUME NEW c \in Conn, Cut(c) PROVE Good(World', {})
    BY <1>1, <2>5, CutStep
  <2>6. ASSUME NEW s \in Server, NEW t \in Server, m_squit(s, t) PROVE Good(World', {})
    BY <1>1, <2>6, SquitStep
  <2>7. ASSUME NEW s \in Server, set_autoconn(s) PROVE Good(World', {})
    <3>1. World' = World
      BY <2>7 DEF set_autoconn, World
    <3> QED BY <1>1, <3>1
  <2>8. Good(World', {})
    BY <1>2, <2>1, <2>2, <2>3, <2>4, <2>5, <2>6, <2>7 DEF Next
  <2>9. /\ scene' \in Scenes /\ left'.dials \in [Server \X Server -> Int]
        /\ \A s \in Server : left'.dials[<<s, s>>] = 0
        /\ auto' \in [Server -> BOOLEAN]
    <3>1. scene \in Scenes
      BY DEF Inv
    <3> QED BY <1>2, <3>1, RestStep
  <2> QED BY <2>8, <2>9 DEF Inv
<1>3. CASE UNCHANGED vars
  BY <1>3 DEF Inv, World, vars
<1> QED BY <1>2, <1>3

\* and it is stronger than ListsSound.
LEMMA InvSound == Inv => ListsSound
<1> SUFFICES ASSUME Inv PROVE ListsSound
  OBVIOUS
<1>1. scene \in Scenes /\ auto \in [Server -> BOOLEAN] /\ EndsOK(World) /\ ListsOK(World)
  BY DEF Inv, Good, Net
<1>2. ASSUME NEW s \in Server
      PROVE  /\ Tree(known[s], s, Linked(World, s))
             /\ \A i \in DOMAIN known[s] :
                  known[s][i].up = s => known[s][i].name = Peer(World, known[s][i].via, s)
             /\ count[s] = [server |-> Len(known[s]) + 1,
                            myserver |-> Cardinality(Linked(World, s))]
  <2>1. ListOK(World, s)
    BY <1>1 DEF ListsOK
  <2> QED BY <2>1, WorldIs DEF ListOK
<1>3. TypeOK
  <2>1. ASSUME NEW s \in Server
        PROVE  /\ \A i \in DOMAIN known[s] : known[s][i] \in Known(s)
               /\ count[s] \in [server: Nat, myserver: Nat]
    <3>1. known[s] \in Seq(Known(s))
      BY <1>2 DEF Tree
    <3>2. Len(known[s]) \in Nat /\ \A i \in DOMAIN known[s] : known[s][i] \in Known(s)
      BY <3>1
    <3>3. Cardinality(Linked(World, s)) \in Nat
      BY LinkedFinite, FS_CardinalityType
    <3>4. count[s] = [server |-> Len(known[s]) + 1, myserver |-> Cardinality(Linked(World, s))]
      BY <1>2
    <3> QED BY <3>2, <3>3, <3>4
  <2>2. ASSUME NEW s \in Server, NEW c \in Conn
        PROVE  end[c][s].st \in States /\ end[c][s].first \in 0..MaxConn
    BY <1>1, WorldIs DEF EndsOK, IsEnd
  <2> QED BY <1>1, <2>1, <2>2 DEF TypeOK
<1>4. TreeOK
  <2>1. ASSUME NEW s \in Server
        PROVE  /\ Rooted(known[s], s)
               /\ Linked(World, s) = {known[s][i].via : i \in DOMAIN known[s]}
               /\ \A c \in Linked(World, s) :
                    \E i \in DOMAIN known[s] : known[s][i].via = c /\ known[s][i].up = s
    <3> DEFINE K == known[s]
               L == Linked(World, s)
    <3>1. Tree(K, s, L)
      BY <1>2
    <3> HIDE DEF K, L
    <3>2. /\ Rooted(K, s) /\ L = {K[i].via : i \in DOMAIN K}
          /\ \A c \in L : \E i \in DOMAIN K : K[i].via = c /\ K[i].up = s
      BY <3>1 DEF Tree
    <3> QED BY <3>2 DEF K, L
  <2> QED BY <1>2, <2>1, Zenon DEF TreeOK
<1>5. CountsRight
  <2> SUFFICES ASSUME NEW s \in Server
               PROVE  /\ count[s].server = Len(known[s]) + 1
                      /\ count[s].myserver = Cardinality(Linked(World, s))
    BY DEF CountsRight
  <2>1. count[s] = [server |-> Len(known[s]) + 1, myserver |-> Cardinality(Linked(World, s))]
    BY <1>2
  <2> QED BY <2>1
<1> QED BY <1>3, <1>4, <1>5 DEF ListsSound

\* The lists of every server form a tree, however many servers and links there
\* are and in whatever order they are made, refused, squitted and lost: a name
\* is listed once, a server hangs on one listed before it by the same link, the
\* links are exactly the servers next to this one, under their own names, and
\* Count.server and Count.myserver count them (m_server, server_estab,
\* exit_client, remove_dependents).
THEOREM ListsAlwaysSound == Spec => []ListsSound
<1>1. Inv => ListsSound
  BY InvSound
<1> QED BY <1>1, InitInv, NextInv, PTL DEF Spec
=============================================================================
