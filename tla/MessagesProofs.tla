---------------------------- MODULE MessagesProofs ----------------------------
(***************************************************************************)
(* The flood lists of Messages stay right, and a target blocks CTCPs only  *)
(* after a flood, in every tree of servers.                                *)
(*                                                                         *)
(* A step of a server is a chain of calls, each of which takes the world   *)
(* of all servers and returns it changed.  What holds between any two      *)
(* calls is Good: the world has its types, the lines on the links are ones *)
(* a server sends, the two sides of the flood lists match and hold only    *)
(* clients and channels that are there, and whatever blocks blocked before *)
(* the step or was flooded (Just).  Each operator of Messages keeps Good;  *)
(* Inv is what is left of it between two steps.                            *)
(*                                                                         *)
(* That only floods block needs to know where the running count of         *)
(* check_for_flud comes from.  Every entry is Backed: as many CTCPs as it  *)
(* counts came from its fluder since its first, and one at its last.  The  *)
(* entries of a list have different fluders, so what they stand for adds   *)
(* up to no more than what came (TotalOK), although an entry that began    *)
(* long ago counts for one.                                                *)
(***************************************************************************)
EXTENDS Messages, FiniteSetTheorems, SequenceTheorems, NaturalsInduction,
        WellFoundedInduction, TLAPS

-----------------------------------------------------------------------------
(* Lists and loops                                                         *)

Once(q) == \A i, j \in DOMAIN q : q[i] = q[j] => i = j

\* A set of numbers that is not empty has a least member.
LEMMA LeastNat ==
  ASSUME NEW N \in SUBSET Nat, N # {}
  PROVE  \E n \in N : \A k \in N : n <= k
<1> DEFINE R == {p \in Nat \X Nat : p[1] < p[2]}
<1>1. IsWellFoundedOn(R, Nat)
  BY NatLessThanWellFounded DEF OpToRel
<1>2. \A j, k \in Nat : j < k => <<j, k>> \in R
  OBVIOUS
<1> HIDE DEF R
<1>3. N \subseteq Nat
  OBVIOUS
<1>4. PICK n \in N : \A k \in N : ~ (<<k, n>> \in R)
  BY <1>1, <1>3, WFMin, Zenon
<1>5. ASSUME NEW k \in N PROVE n <= k
  <2>1. n \in Nat /\ k \in Nat
    BY <1>3, <1>4
  <2>2. ~(k < n)
    BY <1>2, <1>4, <2>1
  <2> QED BY <2>1, <2>2
<1> QED BY <1>4, <1>5

\* A set in some order.
LEMMA SetListed ==
  ASSUME NEW S, IsFiniteSet(S)
  PROVE  /\ SetToSeq(S) \in Seq(S) /\ Once(SetToSeq(S))
         /\ Range(SetToSeq(S)) = S
<1> DEFINE n == Cardinality(S)
           f == SetToSeq(S)
<1>1. n \in Nat /\ ExistsBijection(1 .. n, S)
  BY FS_CardinalityType
<1>2. PICK g : g \in Bijection(1 .. n, S)
  BY <1>1 DEF ExistsBijection
<1>3. g \in [1 .. n -> S] /\ IsInjective(g)
  BY <1>2 DEF Bijection, Injection
<1>4. f \in [1 .. n -> S] /\ IsInjective(f)
  BY <1>3 DEF SetToSeq
<1> HIDE DEF f
<1>5. f \in Injection(1 .. n, S)
  BY <1>4 DEF Injection
<1>6. Cardinality(1 .. n) = n
  BY <1>1, FS_Interval
<1>7. f \in Surjection(1 .. n, S)
  BY <1>5, <1>6, FS_Injection
<1>8. Range(f) = S
  BY <1>4, <1>7 DEF Range, Surjection
<1>9. f \in Seq(S)
  BY <1>1, <1>4
<1>10. Once(f)
  BY <1>4 DEF Once, IsInjective
<1> QED BY <1>8, <1>9, <1>10 DEF f

\* r is what is left of the first n elements of q when those in S are unlinked:
\* g says where they were.
Left(q, S, n, r, g) ==
  /\ g \in [1 .. Len(r) -> 1 .. n]
  /\ \A i, j \in 1 .. Len(r) : i < j => g[i] < g[j]
  /\ \A i \in 1 .. Len(r) : r[i] = q[g[i]] /\ q[g[i]] \notin S
  /\ \A k \in 1 .. n : q[k] \notin S => \E i \in 1 .. Len(r) : g[i] = k

\* One more step of the walk of Without.
LEMMA LeftStep ==
  ASSUME NEW X, NEW q \in Seq(X), NEW S, NEW n \in Nat, n + 1 \in 1 .. Len(q),
         NEW r \in Seq(X), NEW g, Left(q, S, n, r, g)
  PROVE  \E h : Left(q, S, n + 1, IF q[n + 1] \in S THEN r ELSE Append(r, q[n + 1]), h)
<1>1. Len(r) \in Nat /\ q[n + 1] \in X
  OBVIOUS
<1>2. CASE q[n + 1] \in S
  <2>1. Left(q, S, n + 1, r, g)
    BY <1>1, <1>2 DEF Left
  <2> QED BY <1>2, <2>1
<1>3. CASE q[n + 1] \notin S
  <2> DEFINE h == [i \in 1 .. Len(r) + 1 |-> IF i <= Len(r) THEN g[i] ELSE n + 1]
             a == Append(r, q[n + 1])
  <2>1. Len(a) = Len(r) + 1 /\ a[Len(r) + 1] = q[n + 1] /\ \A i \in 1 .. Len(r) : a[i] = r[i]
    BY <1>1
  <2> HIDE DEF a
  <2>2. h \in [1 .. Len(r) + 1 -> 1 .. n + 1]
    BY <1>1 DEF Left
  <2>3. \A i \in 1 .. Len(r) : i \in 1 .. Len(r) + 1 /\ h[i] = g[i] /\ g[i] \in 1 .. n
    BY <1>1 DEF Left
  <2>4. h[Len(r) + 1] = n + 1 /\ Len(r) + 1 \in 1 .. Len(r) + 1
    BY <1>1
  <2> HIDE DEF h
  <2>5. \A i \in 1 .. Len(r) + 1 : i \in 1 .. Len(r) \/ i = Len(r) + 1
    BY <1>1
  <2>6. \A i, j \in 1 .. Len(r) + 1 : i < j => h[i] < h[j]
    <3> SUFFICES ASSUME NEW i \in 1 .. Len(r) + 1, NEW j \in 1 .. Len(r) + 1, i < j
                 PROVE  h[i] < h[j]
      OBVIOUS
    <3>1. i \in 1 .. Len(r)
      BY <1>1
    <3>2. CASE j = Len(r) + 1
      BY <2>3, <2>4, <3>1, <3>2
    <3>3. CASE j \in 1 .. Len(r)
      <4>1. g[i] < g[j]
        BY <3>1, <3>3 DEF Left
      <4> QED BY <2>3, <3>1, <3>3, <4>1
    <3> QED BY <2>5, <3>2, <3>3
  <2>7. \A i \in 1 .. Len(r) + 1 : a[i] = q[h[i]] /\ q[h[i]] \notin S
    BY <1>3, <2>1, <2>3, <2>4, <2>5 DEF Left
  <2>8. \A k \in 1 .. n + 1 : q[k] \notin S => \E i \in 1 .. Len(r) + 1 : h[i] = k
    <3>1. \A k \in 1 .. n + 1 : k \in 1 .. n \/ k = n + 1
      OBVIOUS
    <3> QED BY <2>3, <2>4, <3>1 DEF Left
  <2>9. Left(q, S, n + 1, a, h)
    BY <2>1, <2>2, <2>6, <2>7, <2>8 DEF Left
  <2> QED BY <1>3, <2>9 DEF a
<1> QED BY <1>2, <1>3

\* Without unlinks the elements in S and keeps the others in their order.
LEMMA WithoutIs ==
  ASSUME NEW X, NEW q \in Seq(X), NEW S
  PROVE  /\ Without(q, S) \in Seq(X)
         /\ \E g : Left(q, S, Len(q), Without(q, S), g)
<1> DEFINE M == Len(q)
           F(w, i) == IF i = 0 THEN <<>>
                      ELSE IF q[i] \in S THEN w[i - 1] ELSE Append(w[i - 1], q[i])
           Rounds(N) == \E w : w = [i \in 0 .. N |-> F(w, i)]
           Bad == {N \in 0 .. M : ~Rounds(N)}
           walk == CHOOSE w : w = [i \in 0 .. M |-> F(w, i)]
<1>1. M \in Nat
  OBVIOUS
<1>2. ASSUME Bad # {} PROVE FALSE
  <2>1. PICK m \in Bad : \A k \in Bad : m <= k
    <3>1. Bad \in SUBSET Nat
      <4> HIDE DEF Rounds
      <4> QED BY <1>1
    <3> HIDE DEF Bad
    <3> QED BY <1>2, <3>1, LeastNat
  <2>2. m \in 0 .. M /\ ~Rounds(m)
    BY <2>1
  <2>3. CASE m = 0
    <3> DEFINE w == [i \in 0 .. 0 |-> <<>>]
    <3>1. w = [i \in 0 .. 0 |-> F(w, i)]
      OBVIOUS
    <3> HIDE DEF w, F
    <3> QED BY <2>2, <2>3, <3>1
  <2>4. CASE m # 0
    <3>1. m - 1 \in 0 .. M /\ m - 1 \notin Bad
      <4> HIDE DEF Bad
      <4> QED BY <1>1, <2>1, <2>2, <2>4
    <3>2. PICK v : v = [i \in 0 .. m - 1 |-> F(v, i)]
      <4> HIDE DEF F
      <4> QED BY <3>1
    <3> DEFINE w == [i \in 0 .. m |-> IF i < m THEN v[i] ELSE F(v, m)]
    <3>3. ASSUME NEW i \in 0 .. m PROVE w[i] = F(w, i)
      <4>1. CASE i < m
        <5>1. i \in 0 .. m - 1 /\ w[i] = v[i] /\ (i # 0 => w[i - 1] = v[i - 1])
          BY <2>2, <4>1
        <5>2. v[i] = F(v, i)
          <6> HIDE DEF F
          <6> QED BY <3>2, <5>1
        <5> QED BY <5>1, <5>2
      <4>2. CASE i = m
        <5>1. w[m] = F(v, m) /\ w[m - 1] = v[m - 1]
          <6> HIDE DEF F
          <6> QED BY <2>2, <2>4
        <5> QED BY <2>4, <4>2, <5>1
      <4> QED BY <2>2, <4>1, <4>2
    <3>4. w = [i \in 0 .. m |-> w[i]]
      OBVIOUS
    <3> HIDE DEF w, F
    <3>5. w = [i \in 0 .. m |-> F(w, i)]
      BY <3>3, <3>4
    <3> QED BY <2>2, <3>5
  <2> QED BY <2>3, <2>4
<1>3. Rounds(M)
  <2>1. Bad = {} /\ M \in 0 .. M
    <3> HIDE DEF Bad
    <3> QED BY <1>1, <1>2
  <2> HIDE DEF Rounds, M
  <2> QED BY <2>1
<1>4. walk = [i \in 0 .. M |-> F(walk, i)]
  <2> HIDE DEF F
  <2> QED BY <1>3
<1>5. Without(q, S) = walk[M]
  BY DEF Without
<1> HIDE DEF walk
<1>6. \A i \in 0 .. M : walk[i] = F(walk, i)
  <2> HIDE DEF F
  <2> QED BY <1>4
<1> DEFINE Good(i) == walk[i] \in Seq(X) /\ \E g : Left(q, S, i, walk[i], g)
           Out == {i \in 0 .. M : ~Good(i)}
<1>7. ASSUME Out # {} PROVE FALSE
  <2>1. PICK m \in Out : \A k \in Out : m <= k
    <3>1. Out \in SUBSET Nat
      <4> HIDE DEF Good
      <4> QED BY <1>1
    <3> HIDE DEF Out
    <3> QED BY <1>7, <3>1, LeastNat
  <2>2. m \in 0 .. M /\ ~Good(m)
    BY <2>1
  <2>3. CASE m = 0
    <3>1. walk[0] = <<>>
      BY <1>1, <1>6
    <3>2. Left(q, S, 0, <<>>, <<>>)
      BY DEF Left
    <3> QED BY <2>2, <2>3, <3>1, <3>2
  <2>4. CASE m # 0
    <3>1. m - 1 \in 0 .. M /\ m - 1 \notin Out /\ m - 1 \in Nat /\ m \in 1 .. Len(q)
      <4> HIDE DEF Out
      <4> QED BY <1>1, <2>1, <2>2, <2>4
    <3>2. Good(m - 1)
      <4> HIDE DEF Good
      <4> QED BY <3>1
    <3> DEFINE n == m - 1
               r == walk[n]
    <3>3. m = n + 1 /\ n \in Nat /\ n + 1 \in 1 .. Len(q)
      BY <3>1
    <3>4. walk[m] = IF q[m] \in S THEN r ELSE Append(r, q[m])
      BY <1>6, <2>2, <2>4
    <3>5. PICK g : r \in Seq(X) /\ Left(q, S, n, r, g)
      BY <3>2
    <3>6. q[m] \in X
      BY <3>1
    <3> HIDE DEF r, n
    <3>7. \E h : Left(q, S, n + 1, IF q[n + 1] \in S THEN r ELSE Append(r, q[n + 1]), h)
      BY <3>3, <3>5, LeftStep
    <3>8. walk[m] \in Seq(X)
      BY <3>4, <3>5, <3>6
    <3> QED BY <2>2, <3>3, <3>4, <3>7, <3>8
  <2> QED BY <2>3, <2>4
<1>8. Good(M)
  <2>1. M \in 0 .. M /\ Out = {}
    <3> HIDE DEF Out
    <3> QED BY <1>1, <1>7
  <2> HIDE DEF Good
  <2> QED BY <2>1
<1> QED BY <1>5, <1>8

\* Its members are the others, each from one place of q.
LEMMA WithoutRange ==
  ASSUME NEW X, NEW q \in Seq(X), NEW S
  PROVE  /\ Without(q, S) \in Seq(X)
         /\ Range(Without(q, S)) = Range(q) \ S
         /\ Once(q) => Once(Without(q, S))
         /\ \E g \in [DOMAIN Without(q, S) -> DOMAIN q] :
               /\ \A i, j \in DOMAIN Without(q, S) : g[i] = g[j] => i = j
               /\ \A i \in DOMAIN Without(q, S) : Without(q, S)[i] = q[g[i]]
<1> DEFINE r == Without(q, S)
<1>1. r \in Seq(X) /\ \E g : Left(q, S, Len(q), r, g)
  BY WithoutIs
<1> HIDE DEF r
<1>2. PICK g : Left(q, S, Len(q), r, g)
  BY <1>1
<1>3. DOMAIN r = 1 .. Len(r) /\ DOMAIN q = 1 .. Len(q) /\ Len(r) \in Nat /\ Len(q) \in Nat
  BY <1>1
<1>4. g \in [DOMAIN r -> DOMAIN q]
  BY <1>2, <1>3 DEF Left
<1>5. \A i, j \in DOMAIN r : g[i] = g[j] => i = j
  <2> SUFFICES ASSUME NEW i \in DOMAIN r, NEW j \in DOMAIN r, g[i] = g[j], i # j PROVE FALSE
    OBVIOUS
  <2>1. i < j \/ j < i
    BY <1>3
  <2>2. g[i] < g[j] \/ g[j] < g[i]
    BY <1>2, <1>3, <2>1 DEF Left
  <2>3. g[i] \in Int
    BY <1>3, <1>4
  <2> QED BY <2>2, <2>3
<1>6. \A i \in DOMAIN r : r[i] = q[g[i]] /\ q[g[i]] \notin S
  BY <1>2, <1>3 DEF Left
<1>7. Range(r) = Range(q) \ S
  <2>1. Range(r) = {r[i] : i \in DOMAIN r} /\ Range(q) = {q[i] : i \in DOMAIN q}
    BY DEF Range
  <2>2. ASSUME NEW x \in Range(r) PROVE x \in Range(q) \ S
    BY <1>4, <1>6, <2>1
  <2>3. ASSUME NEW x \in Range(q) \ S PROVE x \in Range(r)
    <3>1. PICK k \in DOMAIN q : x = q[k]
      BY <2>1
    <3>2. PICK i \in DOMAIN r : g[i] = k
      BY <1>2, <1>3, <2>3, <3>1 DEF Left
    <3> QED BY <1>6, <2>1, <3>1, <3>2
  <2> QED BY <2>2, <2>3
<1>8. Once(q) => Once(r)
  BY <1>4, <1>5, <1>6 DEF Once
<1> QED BY <1>1, <1>4, <1>5, <1>6, <1>7, <1>8 DEF r

-----------------------------------------------------------------------------
(* The flood lists of one server                                           *)

Aim == User \cup Chan
Entry == [fluder : User, count : Nat, first : Nat, last : Nat]
Note == [at : Nat, by : User]

\* The CTCPs of q that u sent at time x or later.
By(q, u, x) == {i \in DOMAIN q : q[i].by = u /\ q[i].at >= x}

\* The CTCPs that the entry b counts were sent, the last one too, and none in
\* the future.
Backed(b, q) ==
  /\ b.count <= Cardinality(By(q, b.fluder, b.first))
  /\ By(q, b.fluder, b.last) # {}
  /\ b.first <= now

Listed(q, u) == \E i \in DOMAIN q : q[i].fluder = u

\* A list of entries for a target that was sent the CTCPs of h.
EntriesOK(q, h) ==
  /\ q \in Seq(Entry)
  /\ \A i, j \in DOMAIN q : q[i].fluder = q[j].fluder => i = j
  /\ \A i \in DOMAIN q : Backed(q[i], h)

\* The lists of a server whose targets were sent the CTCPs of h.
FludOK(f, h) ==
  /\ f = [fluders |-> f.fluders, fludees |-> f.fludees, block |-> f.block]
  /\ f.fluders = [t \in Aim |-> f.fluders[t]]
  /\ f.fludees \in [User -> Seq(Aim)]
  /\ f.block \in [Aim -> Nat]
  /\ \A t \in Aim : f.block[t] <= now
  /\ \A t \in Aim : EntriesOK(f.fluders[t], h[t])
  /\ \A u \in User : Once(f.fludees[u])
  /\ \A t \in Aim, u \in User : Listed(f.fluders[t], u) <=> t \in Range(f.fludees[u])

\* Only clients of A are fluders, and only targets of B have some.
Within(f, A, B) ==
  /\ \A u \in User : f.fludees[u] # <<>> => u \in A
  /\ \A t \in Aim : f.fluders[t] # <<>> => t \in B

\* The entries about u.
LEMMA AboutIs ==
  ASSUME NEW f, NEW t, NEW u
  PROVE  About(f, t, {u}) # {} <=> Listed(f.fluders[t], u)
BY DEF About, Listed, Range

\* What is left of a list of entries is one.
LEMMA WithoutEntries ==
  ASSUME NEW q, NEW h, EntriesOK(q, h), NEW S
  PROVE  /\ EntriesOK(Without(q, S), h)
         /\ \A u : Listed(Without(q, S), u) <=> \E b \in Range(q) \ S : b.fluder = u
         /\ q = <<>> => Without(q, S) = <<>>
<1> DEFINE r == Without(q, S)
<1>1. q \in Seq(Entry)
  BY DEF EntriesOK
<1>2. /\ r \in Seq(Entry) /\ Range(r) = Range(q) \ S
      /\ \E g \in [DOMAIN r -> DOMAIN q] :
               /\ \A i, j \in DOMAIN r : g[i] = g[j] => i = j
               /\ \A i \in DOMAIN r : r[i] = q[g[i]]
  BY <1>1, WithoutRange
<1> HIDE DEF r
<1>3. PICK g \in [DOMAIN r -> DOMAIN q] :
               /\ \A i, j \in DOMAIN r : g[i] = g[j] => i = j
               /\ \A i \in DOMAIN r : r[i] = q[g[i]]
  BY <1>2
<1>4. EntriesOK(r, h)
  BY <1>2, <1>3 DEF EntriesOK
<1>5. \A u : Listed(r, u) <=> \E b \in Range(r) : b.fluder = u
  BY DEF Listed, Range
<1>6. q = <<>> => r = <<>>
  <2>1. q = <<>> => DOMAIN r = {}
    BY <1>3
  <2>2. DOMAIN r = 1 .. Len(r) /\ Len(r) \in Nat
    BY <1>2
  <2>3. DOMAIN r = {} => Len(r) = 0
    BY <2>2
  <2> QED BY <1>2, <2>1, <2>3
<1> QED BY <1>2, <1>4, <1>5, <1>6 DEF r

\* An empty list has no members, and no other has none.
LEMMA EmptyList ==
  ASSUME NEW X, NEW q \in Seq(X)
  PROVE  q = <<>> <=> Range(q) = {}
<1>1. DOMAIN q = 1 .. Len(q) /\ Len(q) \in Nat
  OBVIOUS
<1>2. DOMAIN q = {} <=> Len(q) = 0
  <2>1. Len(q) # 0 => 1 \in DOMAIN q
    BY <1>1
  <2>2. Len(q) = 0 => DOMAIN q = {}
    BY <1>1
  <2> QED BY <2>1, <2>2
<1>3. Range(q) = {} <=> DOMAIN q = {}
  BY DEF Range
<1> QED BY <1>2, <1>3

\* free_fluders: the targets ts, and only they, are out of the lists.
LEMMA FreeFludersOK ==
  ASSUME NEW f, NEW h, FludOK(f, h), NEW ts \in SUBSET Aim, now \in Nat, NEW A, NEW B,
         Within(f, A, B)
  PROVE  /\ FludOK(free_fluders(f, ts), h)
         /\ Within(free_fluders(f, ts), A, B \ ts)
         /\ free_fluders(f, ts).block = [t \in Aim |-> IF t \in ts THEN 0 ELSE f.block[t]]
<1> DEFINE v == free_fluders(f, ts)
           bs == UNION {Range(f.fluders[t]) : t \in ts}
           D(u) == {t \in ts : About(f, t, {u}) \cap bs # {}}
<1>1. /\ v = [fluders |-> v.fluders, fludees |-> v.fludees, block |-> v.block]
      /\ v.fluders = [t \in Aim |-> IF t \in ts THEN <<>> ELSE f.fluders[t]]
      /\ v.fludees = [u \in User |-> Without(f.fludees[u], D(u))]
      /\ v.block = [t \in Aim |-> IF t \in ts THEN 0 ELSE f.block[t]]
  <2>1. /\ f = [fluders |-> f.fluders, fludees |-> f.fludees, block |-> f.block]
        /\ DOMAIN f.fluders = Aim /\ DOMAIN f.fludees = User /\ DOMAIN f.block = Aim
    BY DEF FludOK
  <2> DEFINE e == remove_fludee_reference(f, ts, bs)
             F == [t \in DOMAIN f.fluders |-> IF t \in ts THEN <<>> ELSE f.fluders[t]]
             K == [t \in DOMAIN f.block |-> IF t \in ts THEN 0 ELSE f.block[t]]
             G == [u \in DOMAIN f.fludees |-> Without(f.fludees[u], D(u))]
  <2>2. v = [e EXCEPT !.fluders = F, !.block = K]
    BY DEF free_fluders
  <2>3. e = [f EXCEPT !.fludees = G]
    BY DEF remove_fludee_reference
  <2> HIDE DEF v, e, F, G, K
  <2>4. v = [fluders |-> F, fludees |-> G, block |-> K]
    BY <2>1, <2>2, <2>3
  <2>5. v.fluders = F /\ v.fludees = G /\ v.block = K
    BY <2>4
  <2> QED BY <2>1, <2>4, <2>5 DEF F, G, K
<1>2. ASSUME NEW u \in User, NEW t \in ts PROVE t \in D(u) <=> t \in Range(f.fludees[u])
  <2>1. About(f, t, {u}) \subseteq bs
    BY DEF About
  <2> HIDE DEF bs
  <2>2. t \in D(u) <=> About(f, t, {u}) # {}
    BY <2>1
  <2>3. t \in Aim
    OBVIOUS
  <2> QED BY <2>2, <2>3, AboutIs DEF FludOK
<1>3. ASSUME NEW u \in User
      PROVE  /\ Without(f.fludees[u], D(u)) \in Seq(Aim) /\ Once(Without(f.fludees[u], D(u)))
             /\ Range(Without(f.fludees[u], D(u))) = Range(f.fludees[u]) \ ts
  <2>1. f.fludees[u] \in Seq(Aim) /\ Once(f.fludees[u])
    BY DEF FludOK
  <2>2. Range(f.fludees[u]) \ D(u) = Range(f.fludees[u]) \ ts
    BY <1>2
  <2> HIDE DEF D
  <2> QED BY <2>1, <2>2, WithoutRange
<1> HIDE DEF v, D
<1>4. \A u \in User : /\ v.fludees[u] \in Seq(Aim) /\ Once(v.fludees[u])
                      /\ Range(v.fludees[u]) = Range(f.fludees[u]) \ ts
  BY <1>1, <1>3
<1>5. v.fludees \in [User -> Seq(Aim)]
  BY <1>1, <1>3
<1>6. v.fluders = [t \in Aim |-> v.fluders[t]]
  BY <1>1
<1>7. v.block \in [Aim -> Nat] /\ \A t \in Aim : v.block[t] <= now
  BY <1>1 DEF FludOK
<1>8. \A t \in Aim : EntriesOK(v.fluders[t], h[t])
  <2>1. \A x : EntriesOK(<<>>, x)
    BY DEF EntriesOK
  <2> QED BY <1>1, <2>1 DEF FludOK
<1>9. ASSUME NEW t \in Aim, NEW u \in User
      PROVE  Listed(v.fluders[t], u) <=> t \in Range(v.fludees[u])
  <2>1. CASE t \in ts
    <3>1. v.fluders[t] = <<>>
      BY <1>1, <2>1
    <3>2. ~Listed(v.fluders[t], u)
      BY <3>1 DEF Listed
    <3> QED BY <1>4, <2>1, <3>2
  <2>2. CASE t \notin ts
    <3>1. v.fluders[t] = f.fluders[t]
      BY <1>1, <2>2
    <3> QED BY <1>4, <2>2, <3>1 DEF FludOK
  <2> QED BY <2>1, <2>2
<1>10. FludOK(v, h)
  BY <1>1, <1>4, <1>5, <1>6, <1>7, <1>8, <1>9 DEF FludOK
<1>11. ASSUME NEW u \in User, v.fludees[u] # <<>> PROVE u \in A
  <2>1. Range(v.fludees[u]) # {} /\ f.fludees[u] \in Seq(Aim)
    BY <1>4, <1>11, EmptyList DEF FludOK
  <2>2. f.fludees[u] # <<>>
    BY <1>4, <2>1, EmptyList
  <2> QED BY <2>2 DEF Within
<1>12. ASSUME NEW t \in Aim, v.fluders[t] # <<>> PROVE t \in B \ ts
  BY <1>1, <1>12 DEF Within
<1>13. Within(v, A, B \ ts)
  BY <1>11, <1>12 DEF Within
<1> QED BY <1>1, <1>10, <1>13 DEF v

\* free_fludees: the client u, and only he, is out of the lists.
LEMMA FreeFludeesOK ==
  ASSUME NEW f, NEW h, FludOK(f, h), NEW u \in User, NEW A, NEW B, Within(f, A, B)
  PROVE  /\ FludOK(free_fludees(f, u), h)
         /\ Within(free_fludees(f, u), A \ {u}, B)
         /\ free_fludees(f, u).block = f.block
<1> DEFINE v == free_fludees(f, u)
<1>1. /\ v = [fluders |-> v.fluders, fludees |-> v.fludees, block |-> v.block]
      /\ v.fluders = [t \in Aim |-> IF t \in Range(f.fludees[u])
                                    THEN Without(f.fluders[t], About(f, t, {u}))
                                    ELSE f.fluders[t]]
      /\ v.fludees = [f.fludees EXCEPT ![u] = <<>>]
      /\ v.block = f.block
  <2>1. /\ f = [fluders |-> f.fluders, fludees |-> f.fludees, block |-> f.block]
        /\ DOMAIN f.fluders = Aim /\ DOMAIN f.fludees = User /\ DOMAIN f.block = Aim
    BY DEF FludOK
  <2> DEFINE e == remove_fluder_reference(f, Range(f.fludees[u]), u)
             F == [t \in DOMAIN f.fluders |-> IF t \in Range(f.fludees[u])
                                    THEN Without(f.fluders[t], About(f, t, {u}))
                                    ELSE f.fluders[t]]
             G == [f.fludees EXCEPT ![u] = <<>>]
  <2>2. v = [e EXCEPT !.fludees[u] = <<>>]
    BY DEF free_fludees
  <2>3. e = [f EXCEPT !.fluders = F]
    BY DEF remove_fluder_reference
  <2> HIDE DEF v, e, F
  <2>4. v = [fluders |-> F, fludees |-> G, block |-> f.block]
    BY <2>1, <2>2, <2>3
  <2>5. v.fluders = F /\ v.fludees = G /\ v.block = f.block
    BY <2>4
  <2> QED BY <2>1, <2>4, <2>5 DEF F
<1> HIDE DEF v
<1>2. ASSUME NEW t \in Aim
      PROVE  /\ EntriesOK(v.fluders[t], h[t])
             /\ \A x \in User : Listed(v.fluders[t], x) <=> x # u /\ Listed(f.fluders[t], x)
             /\ v.fluders[t] # <<>> => f.fluders[t] # <<>>
  <2>1. EntriesOK(f.fluders[t], h[t])
    BY DEF FludOK
  <2>2. CASE t \notin Range(f.fludees[u])
    <3>1. v.fluders[t] = f.fluders[t] /\ ~Listed(f.fluders[t], u)
      BY <1>1, <2>2 DEF FludOK
    <3> QED BY <2>1, <3>1
  <2>3. CASE t \in Range(f.fludees[u])
    <3> DEFINE S == About(f, t, {u})
    <3>1. v.fluders[t] = Without(f.fluders[t], S)
      BY <1>1, <2>3
    <3>2. \A x : (\E b \in Range(f.fluders[t]) \ S : b.fluder = x)
                   <=> x # u /\ Listed(f.fluders[t], x)
      BY DEF About, Listed, Range
    <3> HIDE DEF S
    <3> QED BY <2>1, <3>1, <3>2, WithoutEntries
  <2> QED BY <2>2, <2>3
<1>3. v.fludees \in [User -> Seq(Aim)] /\ v.fludees[u] = <<>>
  BY <1>1 DEF FludOK
<1>4. \A x \in User : x # u => v.fludees[x] = f.fludees[x]
  BY <1>1 DEF FludOK
<1>5. \A x \in User : Once(v.fludees[x])
  <2>1. Once(<<>>)
    BY DEF Once
  <2> QED BY <1>3, <1>4, <2>1 DEF FludOK
<1>6. ASSUME NEW t \in Aim, NEW x \in User
      PROVE  Listed(v.fluders[t], x) <=> t \in Range(v.fludees[x])
  <2>1. CASE x = u
    <3>1. Range(v.fludees[x]) = {}
      BY <1>3, <2>1 DEF Range
    <3> QED BY <1>2, <2>1, <3>1
  <2>2. CASE x # u
    BY <1>2, <1>4, <2>2 DEF FludOK
  <2> QED BY <2>1, <2>2
<1>7. v.fluders = [t \in Aim |-> v.fluders[t]]
  BY <1>1
<1>8. FludOK(v, h)
  BY <1>1, <1>2, <1>3, <1>5, <1>6, <1>7 DEF FludOK
<1>9. Within(v, A \ {u}, B)
  BY <1>2, <1>3, <1>4 DEF Within
<1> QED BY <1>1, <1>8, <1>9 DEF v

\* The CTCPs of a list are finitely many.
LEMMA ByFinite ==
  ASSUME NEW q \in Seq(Note), NEW S \in SUBSET DOMAIN q
  PROVE  IsFiniteSet(S) /\ Cardinality(S) \in Nat
<1>1. DOMAIN q = 1 .. Len(q) /\ Len(q) \in Nat
  OBVIOUS
<1>2. IsFiniteSet(DOMAIN q)
  BY <1>1, FS_Interval
<1> QED BY <1>2, FS_Subset, FS_CardinalityType

LEMMA MoreCounted ==
  ASSUME NEW q \in Seq(Note), NEW T \in SUBSET DOMAIN q, NEW S \in SUBSET T
  PROVE  Cardinality(S) <= Cardinality(T)
<1>1. IsFiniteSet(T)
  BY ByFinite
<1> QED BY <1>1, FS_Subset

\* With one more CTCP, of u and now.
LEMMA NoteAdded ==
  ASSUME NEW q \in Seq(Note), NEW u \in User, now \in Nat
  PROVE  LET r == Append(q, [at |-> now, by |-> u]) IN
         /\ r \in Seq(Note) /\ DOMAIN q \subseteq DOMAIN r
         /\ \A v, x : By(q, v, x) \in SUBSET By(r, v, x)
         /\ \A v, x : By(q, v, x) \in SUBSET DOMAIN q /\ By(r, v, x) \in SUBSET DOMAIN r
         /\ \A x \in Nat : x <= now => By(r, u, x) = By(q, u, x) \cup {Len(q) + 1}
         /\ Len(q) + 1 \notin DOMAIN q
         /\ \A i \in DOMAIN q : r[i] = q[i]
<1> DEFINE n == [at |-> now, by |-> u]
           r == Append(q, n)
<1>1. n \in Note /\ n.at = now /\ n.by = u
  BY DEF Note
<1> HIDE DEF n
<1>2. /\ r \in Seq(Note) /\ Len(r) = Len(q) + 1 /\ r[Len(q) + 1] = n
      /\ \A i \in 1 .. Len(q) : r[i] = q[i]
  BY <1>1
<1>3. DOMAIN q = 1 .. Len(q) /\ Len(q) \in Nat /\ DOMAIN r = 1 .. Len(r)
  BY <1>2
<1> HIDE DEF r
<1>4. DOMAIN r = DOMAIN q \cup {Len(q) + 1} /\ Len(q) + 1 \notin DOMAIN q
  BY <1>2, <1>3
<1>5. \A v, x : By(q, v, x) \in SUBSET By(r, v, x)
  BY <1>2, <1>3, <1>4 DEF By
<1>6. ASSUME NEW x \in Nat, x <= now PROVE By(r, u, x) = By(q, u, x) \cup {Len(q) + 1}
  <2>1. \A i \in DOMAIN q : i \in By(r, u, x) <=> i \in By(q, u, x)
    BY <1>2, <1>3, <1>4 DEF By
  <2>2. Len(q) + 1 \in By(r, u, x)
    BY <1>1, <1>2, <1>4, <1>6 DEF By
  <2>3. By(r, u, x) \subseteq DOMAIN q \cup {Len(q) + 1} /\ By(q, u, x) \subseteq DOMAIN q
    BY <1>4 DEF By
  <2> QED BY <2>1, <2>2, <2>3
<1>7. \A v, x : By(q, v, x) \in SUBSET DOMAIN q /\ By(r, v, x) \in SUBSET DOMAIN r
  BY DEF By
<1> QED BY <1>2, <1>3, <1>4, <1>5, <1>6, <1>7 DEF r, n

LEMMA BackedMore ==
  ASSUME NEW q \in Seq(Note), NEW u \in User, now \in Nat, NEW b \in Entry, Backed(b, q)
  PROVE  LET r == Append(q, [at |-> now, by |-> u]) IN
         /\ Backed(b, r)
         /\ b.fluder = u => Backed([b EXCEPT !.last = now, !.count = @ + 1], r)
<1> DEFINE r == Append(q, [at |-> now, by |-> u])
           d == [b EXCEPT !.last = now, !.count = @ + 1]
           S(x) == By(q, b.fluder, x)
           T(x) == By(r, b.fluder, x)
<1>1. /\ r \in Seq(Note)
      /\ \A x : S(x) \in SUBSET T(x)
      /\ \A x : T(x) \in SUBSET DOMAIN r /\ S(x) \in SUBSET DOMAIN q
      /\ b.fluder = u => \A x \in Nat : x <= now => T(x) = S(x) \cup {Len(q) + 1}
      /\ Len(q) + 1 \notin DOMAIN q
  BY NoteAdded
<1>2. /\ d.fluder = b.fluder /\ d.first = b.first /\ d.last = now /\ d.count = b.count + 1
      /\ b.count \in Nat /\ b.first \in Nat /\ b.last \in Nat
  BY DEF Entry
<1>3. b.count <= Cardinality(S(b.first)) /\ S(b.last) # {} /\ b.first <= now
  BY DEF Backed
<1> HIDE DEF r, d, S, T
<1>4. Backed(b, r)
  <2>1. Cardinality(S(b.first)) \in Nat /\ Cardinality(T(b.first)) \in Nat
    BY <1>1, ByFinite
  <2>2. Cardinality(S(b.first)) <= Cardinality(T(b.first))
    BY <1>1, MoreCounted
  <2>3. b.count <= Cardinality(T(b.first)) /\ T(b.last) # {}
    BY <1>1, <1>2, <1>3, <2>1, <2>2
  <2> QED BY <1>3, <2>3 DEF Backed, T
<1>5. ASSUME b.fluder = u PROVE Backed(d, r)
  <2>1. T(b.first) = S(b.first) \cup {Len(q) + 1} /\ T(now) = S(now) \cup {Len(q) + 1}
    BY <1>1, <1>2, <1>3, <1>5
  <2>2. IsFiniteSet(S(b.first)) /\ Cardinality(S(b.first)) \in Nat /\ Len(q) + 1 \notin S(b.first)
    BY <1>1, ByFinite
  <2>3. Cardinality(T(b.first)) = Cardinality(S(b.first)) + 1
    BY <2>1, <2>2, FS_AddElement
  <2>4. d.count <= Cardinality(T(d.first)) /\ T(d.last) # {} /\ d.first <= now
    BY <1>2, <1>3, <2>1, <2>2, <2>3
  <2> QED BY <1>2, <2>4 DEF Backed, T
<1> QED BY <1>4, <1>5 DEF r, d

\* The entry of a client that was not listed.
LEMMA BackedNew ==
  ASSUME NEW q \in Seq(Note), NEW u \in User, now \in Nat
  PROVE  LET b == [fluder |-> u, count |-> 1, first |-> now, last |-> now] IN
         b \in Entry /\ Backed(b, Append(q, [at |-> now, by |-> u]))
<1> DEFINE r == Append(q, [at |-> now, by |-> u])
           b == [fluder |-> u, count |-> 1, first |-> now, last |-> now]
<1>1. /\ r \in Seq(Note) /\ By(r, u, now) \in SUBSET DOMAIN r
      /\ By(r, u, now) = By(q, u, now) \cup {Len(q) + 1}
  BY NoteAdded
<1> HIDE DEF r
<1>2. IsFiniteSet(By(r, u, now)) /\ Cardinality(By(r, u, now)) \in Nat
  BY <1>1, ByFinite
<1>3. By(r, u, now) # {}
  BY <1>1
<1>4. Cardinality(By(r, u, now)) # 0
  BY <1>2, <1>3, FS_EmptySet
<1>5. 1 <= Cardinality(By(r, u, now))
  BY <1>2, <1>4
<1>6. b \in Entry /\ Backed(b, r)
  BY <1>3, <1>5 DEF Entry, Backed
<1> QED BY <1>6 DEF r

\* Collect: only entries that are recent stay in the list of t.
LEMMA CollectOK ==
  ASSUME NEW f, NEW h, FludOK(f, h), NEW t \in Aim, NEW A, NEW B, Within(f, A, B)
  PROVE  /\ FludOK(Collect(f, t, now), h)
         /\ Within(Collect(f, t, now), A, B)
         /\ Collect(f, t, now).block = f.block
         /\ \A i \in DOMAIN Collect(f, t, now).fluders[t] :
              Recent(Collect(f, t, now).fluders[t][i], now)
<1> DEFINE v == Collect(f, t, now)
           old == {b \in Range(f.fluders[t]) : ~Recent(b, now)}
           D(u) == {x \in {t} : About(f, x, {u}) \cap old # {}}
           L == Without(f.fluders[t], old)
<1>1. /\ v = [fluders |-> v.fluders, fludees |-> v.fludees, block |-> v.block]
      /\ v.fluders = [f.fluders EXCEPT ![t] = L]
      /\ v.fludees = [u \in User |-> Without(f.fludees[u], D(u))]
      /\ v.block = f.block
  <2>1. /\ f = [fluders |-> f.fluders, fludees |-> f.fludees, block |-> f.block]
        /\ DOMAIN f.fluders = Aim /\ DOMAIN f.fludees = User
    BY DEF FludOK
  <2> DEFINE e == remove_fludee_reference(f, {t}, old)
             G == [u \in DOMAIN f.fludees |-> Without(f.fludees[u], D(u))]
  <2>2. v = [e EXCEPT !.fluders[t] = Without(@, old)]
    BY DEF Collect
  <2>3. e = [f EXCEPT !.fludees = G]
    BY DEF remove_fludee_reference
  <2> HIDE DEF v, e, G, old
  <2>4. e = [fluders |-> f.fluders, fludees |-> G, block |-> f.block]
    BY <2>1, <2>3
  <2>5. v = [fluders |-> [f.fluders EXCEPT ![t] = Without(@, old)], fludees |-> G, block |-> f.block]
    BY <2>2, <2>4
  <2>6. v = [fluders |-> [f.fluders EXCEPT ![t] = L], fludees |-> G, block |-> f.block]
    BY <2>1, <2>5
  <2> HIDE DEF L
  <2>7. v.fluders = [f.fluders EXCEPT ![t] = L] /\ v.fludees = G /\ v.block = f.block
    BY <2>6
  <2> QED BY <2>1, <2>6, <2>7 DEF G
<1>2. /\ EntriesOK(L, h[t])
      /\ \A u : Listed(L, u) <=> \E b \in Range(f.fluders[t]) \ old : b.fluder = u
      /\ f.fluders[t] = <<>> => L = <<>>
      /\ Range(L) = Range(f.fluders[t]) \ old
  <2>1. EntriesOK(f.fluders[t], h[t]) /\ f.fluders[t] \in Seq(Entry)
    BY DEF FludOK, EntriesOK
  <2> HIDE DEF old
  <2> QED BY <2>1, WithoutEntries, WithoutRange
<1>3. ASSUME NEW u \in User
      PROVE  Listed(L, u) <=> Listed(f.fluders[t], u) /\ t \notin D(u)
  <2> DEFINE q == f.fluders[t]
  <2>1. Range(q) = {q[i] : i \in DOMAIN q}
    BY DEF Range
  <2>2. \A i, j \in DOMAIN q : q[i].fluder = q[j].fluder => i = j
    BY DEF FludOK, EntriesOK
  <2>3. t \in D(u) <=> \E b \in old : b.fluder = u
    BY DEF About
  <2>4. Listed(L, u) <=> \E b \in Range(q) \ old : b.fluder = u
    BY <1>2
  <2>5. old \subseteq Range(q)
    OBVIOUS
  <2> HIDE DEF old, D, L
  <2>6. Listed(q, u) <=> \E b \in Range(q) : b.fluder = u
    BY <2>1 DEF Listed
  <2>7. \A a, b \in Range(q) : a.fluder = b.fluder => a = b
    BY <2>1, <2>2
  <2> HIDE DEF q
  <2> QED BY <2>3, <2>4, <2>5, <2>6, <2>7 DEF q
<1>4. ASSUME NEW u \in User
      PROVE  /\ Without(f.fludees[u], D(u)) \in Seq(Aim) /\ Once(Without(f.fludees[u], D(u)))
             /\ Range(Without(f.fludees[u], D(u))) = Range(f.fludees[u]) \ D(u)
  <2>1. f.fludees[u] \in Seq(Aim) /\ Once(f.fludees[u])
    BY DEF FludOK
  <2> HIDE DEF D
  <2> QED BY <2>1, WithoutRange
<1>5. \A u \in User : D(u) \subseteq {t}
  OBVIOUS
<1>6. \A i \in DOMAIN L : Recent(L[i], now)
  <2>1. \A i \in DOMAIN L : L[i] \in Range(f.fluders[t]) \ old
    <3> HIDE DEF old
    <3> QED BY <1>2 DEF Range
  <2> HIDE DEF L
  <2> QED BY <2>1
<1> HIDE DEF v, D, L, old
<1>7. \A u \in User : /\ v.fludees[u] \in Seq(Aim) /\ Once(v.fludees[u])
                      /\ Range(v.fludees[u]) = Range(f.fludees[u]) \ D(u)
  BY <1>1, <1>4
<1>8. v.fludees \in [User -> Seq(Aim)]
  BY <1>1, <1>4
<1>9. /\ v.fluders = [x \in Aim |-> v.fluders[x]] /\ v.fluders[t] = L
      /\ \A x \in Aim : x # t => v.fluders[x] = f.fluders[x]
  BY <1>1 DEF FludOK
<1>10. \A x \in Aim : EntriesOK(v.fluders[x], h[x])
  BY <1>2, <1>9 DEF FludOK
<1>11. ASSUME NEW x \in Aim, NEW u \in User
       PROVE  Listed(v.fluders[x], u) <=> x \in Range(v.fludees[u])
  BY <1>3, <1>5, <1>7, <1>9 DEF FludOK
<1>12. FludOK(v, h)
  BY <1>1, <1>7, <1>8, <1>9, <1>10, <1>11 DEF FludOK
<1>13. ASSUME NEW u \in User, v.fludees[u] # <<>> PROVE u \in A
  <2>1. Range(v.fludees[u]) # {} /\ f.fludees[u] \in Seq(Aim)
    BY <1>7, <1>13, EmptyList DEF FludOK
  <2>2. f.fludees[u] # <<>>
    BY <1>7, <2>1, EmptyList
  <2> QED BY <2>2 DEF Within
<1>14. \A x \in Aim : v.fluders[x] # <<>> => x \in B
  BY <1>2, <1>9 DEF Within
<1>15. Within(v, A, B)
  BY <1>13, <1>14 DEF Within
<1> QED BY <1>1, <1>6, <1>9, <1>12, <1>15 DEF v

\* What an entry of the last seconds adds was sent in them.
LEMMA WeightBound ==
  ASSUME NEW h \in Seq(Note), NEW b \in Entry, Backed(b, h), Recent(b, now), now \in Nat
  PROVE  /\ Weight(b, now) \in Nat
         /\ Weight(b, now) <= Cardinality(By(h, b.fluder, now - FLUDTIME))
<1> DEFINE x == now - FLUDTIME
           S == By(h, b.fluder, x)
<1>1. x \in Int /\ b.count \in Nat /\ b.first \in Nat /\ b.last \in Nat /\ b.last >= x
  BY FludAssumption DEF Recent, Entry
<1>2. b.count <= Cardinality(By(h, b.fluder, b.first)) /\ By(h, b.fluder, b.last) # {}
  BY DEF Backed
<1>3. \A i \in DOMAIN h : h[i].at \in Nat
  <2>1. \A i \in DOMAIN h : h[i] \in Note
    OBVIOUS
  <2> QED BY <2>1 DEF Note
<1>4. \A y \in Int : y >= x => By(h, b.fluder, y) \in SUBSET S
  BY <1>1, <1>3 DEF By
<1>5. S \in SUBSET DOMAIN h /\ By(h, b.fluder, b.first) \in SUBSET DOMAIN h
  BY DEF By
<1>6. Weight(b, now) = IF b.first < x THEN 1 ELSE b.count
  BY DEF Weight
<1> HIDE DEF S, x
<1>7. IsFiniteSet(S) /\ Cardinality(S) \in Nat /\ Cardinality(By(h, b.fluder, b.first)) \in Nat
  BY <1>5, ByFinite
<1>8. CASE b.first < x
  <2>1. S # {}
    BY <1>1, <1>2, <1>4
  <2>2. Cardinality(S) # 0
    BY <1>7, <2>1, FS_EmptySet
  <2> QED BY <1>6, <1>7, <1>8, <2>2 DEF S, x
<1>9. CASE ~(b.first < x)
  <2>1. By(h, b.fluder, b.first) \in SUBSET S
    BY <1>1, <1>4, <1>9
  <2>2. Cardinality(By(h, b.fluder, b.first)) <= Cardinality(S)
    BY <1>5, <2>1, MoreCounted
  <2> QED BY <1>1, <1>2, <1>6, <1>7, <1>9, <2>2 DEF S, x
<1> QED BY <1>8, <1>9

\* The running count of Total goes over the entries one after the other.
LEMMA TotalSums ==
  ASSUME NEW q \in Seq(Entry)
  PROVE  \E sum : /\ \A i \in 0 .. Len(q) :
                       sum[i] = IF i = 0 THEN 0 ELSE sum[i - 1] + Weight(q[i], now)
                  /\ Total(q, now) = sum[Len(q)]
<1> DEFINE M == Len(q)
           F(w, i) == IF i = 0 THEN 0 ELSE w[i - 1] + Weight(q[i], now)
           Rounds(N) == \E w : w = [i \in 0 .. N |-> F(w, i)]
           Bad == {N \in 0 .. M : ~Rounds(N)}
           sum == CHOOSE w : w = [i \in 0 .. M |-> F(w, i)]
<1>1. M \in Nat
  OBVIOUS
<1>2. ASSUME Bad # {} PROVE FALSE
  <2>1. PICK m \in Bad : \A k \in Bad : m <= k
    <3>1. Bad \in SUBSET Nat
      <4> HIDE DEF Rounds
      <4> QED BY <1>1
    <3> HIDE DEF Bad
    <3> QED BY <1>2, <3>1, LeastNat
  <2>2. m \in 0 .. M /\ ~Rounds(m)
    BY <2>1
  <2>3. CASE m = 0
    <3> DEFINE w == [i \in 0 .. 0 |-> 0]
    <3>1. w = [i \in 0 .. 0 |-> F(w, i)]
      OBVIOUS
    <3> HIDE DEF w, F
    <3> QED BY <2>2, <2>3, <3>1
  <2>4. CASE m # 0
    <3>1. m - 1 \in 0 .. M /\ m - 1 \notin Bad
      <4> HIDE DEF Bad
      <4> QED BY <1>1, <2>1, <2>2, <2>4
    <3>2. PICK v : v = [i \in 0 .. m - 1 |-> F(v, i)]
      <4> HIDE DEF F
      <4> QED BY <3>1
    <3> DEFINE w == [i \in 0 .. m |-> IF i < m THEN v[i] ELSE F(v, m)]
    <3>3. ASSUME NEW i \in 0 .. m PROVE w[i] = F(w, i)
      <4>1. CASE i < m
        <5>1. i \in 0 .. m - 1 /\ w[i] = v[i] /\ (i # 0 => w[i - 1] = v[i - 1])
          BY <2>2, <4>1
        <5>2. v[i] = F(v, i)
          <6> HIDE DEF F
          <6> QED BY <3>2, <5>1
        <5> QED BY <5>1, <5>2
      <4>2. CASE i = m
        <5>1. w[m] = F(v, m) /\ w[m - 1] = v[m - 1]
          <6> HIDE DEF F
          <6> QED BY <2>2, <2>4
        <5> QED BY <2>4, <4>2, <5>1
      <4> QED BY <2>2, <4>1, <4>2
    <3>4. w = [i \in 0 .. m |-> w[i]]
      OBVIOUS
    <3> HIDE DEF w, F
    <3>5. w = [i \in 0 .. m |-> F(w, i)]
      BY <3>3, <3>4
    <3> QED BY <2>2, <3>5
  <2> QED BY <2>3, <2>4
<1>3. Rounds(M)
  <2>1. Bad = {} /\ M \in 0 .. M
    <3> HIDE DEF Bad
    <3> QED BY <1>1, <1>2
  <2> HIDE DEF Rounds, M
  <2> QED BY <2>1
<1>4. sum = [i \in 0 .. M |-> F(sum, i)]
  <2> HIDE DEF F
  <2> QED BY <1>3
<1>5. Total(q, now) = sum[M]
  BY DEF Total
<1> HIDE DEF sum
<1>6. \A i \in 0 .. M : sum[i] = F(sum, i)
  <2> HIDE DEF F
  <2> QED BY <1>4
<1> QED BY <1>5, <1>6

\* The CTCPs at time x or later.
Since(h, x) == {j \in DOMAIN h : h[j].at >= x}

\* The running count is at most what was sent in the last seconds: no entry is
\* about the sender of another.
LEMMA TotalOK ==
  ASSUME NEW q, NEW h \in Seq(Note), EntriesOK(q, h), now \in Nat,
         \A i \in DOMAIN q : Recent(q[i], now)
  PROVE  Total(q, now) \in Nat /\ Total(q, now) <= Cardinality(Since(h, now - FLUDTIME))
<1> DEFINE x == now - FLUDTIME
           S(i) == {j \in Since(h, x) : \E k \in 1 .. i : q[k].fluder = h[j].by}
<1>1. q \in Seq(Entry) /\ DOMAIN q = 1 .. Len(q) /\ Len(q) \in Nat
  BY DEF EntriesOK
<1>2. PICK sum : /\ \A i \in 0 .. Len(q) :
                      sum[i] = IF i = 0 THEN 0 ELSE sum[i - 1] + Weight(q[i], now)
                 /\ Total(q, now) = sum[Len(q)]
  BY <1>1, TotalSums
<1>3. Since(h, x) \in SUBSET DOMAIN h
  BY DEF Since
<1>4. \A i : S(i) \in SUBSET DOMAIN h /\ S(i) \in SUBSET Since(h, x)
  BY <1>3
<1>5. ASSUME NEW i \in 1 .. Len(q), sum[i - 1] \in Nat, sum[i - 1] <= Cardinality(S(i - 1))
      PROVE  sum[i] \in Nat /\ sum[i] <= Cardinality(S(i))
  <2> DEFINE T == By(h, q[i].fluder, x)
  <2>1. sum[i] = sum[i - 1] + Weight(q[i], now)
    BY <1>1, <1>2
  <2>2. q[i] \in Entry /\ Backed(q[i], h) /\ Recent(q[i], now)
    BY <1>1 DEF EntriesOK
  <2>3. Weight(q[i], now) \in Nat /\ Weight(q[i], now) <= Cardinality(T)
    BY <2>2, WeightBound
  <2>4. T \in SUBSET DOMAIN h
    BY DEF By
  <2>5. S(i) = S(i - 1) \cup T
    <3>1. \A k : k \in 1 .. i <=> k \in 1 .. (i - 1) \/ k = i
      BY <1>1
    <3> QED BY <3>1 DEF By, Since
  <2>6. S(i - 1) \cap T = {}
    <3>1. \A k \in 1 .. (i - 1) : k \in DOMAIN q /\ k # i /\ i \in DOMAIN q
      BY <1>1
    <3>2. \A k \in 1 .. (i - 1) : q[k].fluder # q[i].fluder
      BY <3>1 DEF EntriesOK
    <3> QED BY <3>2 DEF By
  <2>7. /\ IsFiniteSet(S(i - 1)) /\ Cardinality(S(i - 1)) \in Nat
        /\ IsFiniteSet(T) /\ Cardinality(T) \in Nat
    <3> HIDE DEF S, T
    <3> QED BY <1>4, <2>4, ByFinite
  <2> HIDE DEF S, T
  <2>8. Cardinality(S(i - 1) \cup T)
           = Cardinality(S(i - 1)) + Cardinality(T) - Cardinality(S(i - 1) \cap T)
    BY <2>7, FS_Union
  <2>9. Cardinality(S(i - 1) \cap T) = 0
    BY <2>6, FS_EmptySet
  <2> QED BY <1>5, <2>1, <2>3, <2>5, <2>7, <2>8, <2>9
<1> DEFINE Good(i) == sum[i] \in Nat /\ sum[i] <= Cardinality(S(i))
           Out == {i \in 0 .. Len(q) : ~Good(i)}
<1>6. ASSUME Out # {} PROVE FALSE
  <2>1. PICK m \in Out : \A k \in Out : m <= k
    <3>1. Out \in SUBSET Nat
      <4> HIDE DEF Good
      <4> QED BY <1>1
    <3> HIDE DEF Out
    <3> QED BY <1>6, <3>1, LeastNat
  <2>2. m \in 0 .. Len(q) /\ ~Good(m)
    BY <2>1
  <2>3. CASE m = 0
    <3>1. sum[0] = 0
      BY <1>1, <1>2
    <3>2. Cardinality(S(0)) \in Nat
      <4> HIDE DEF S
      <4> QED BY <1>4, ByFinite
    <3> HIDE DEF S
    <3> QED BY <2>2, <2>3, <3>1, <3>2
  <2>4. CASE m # 0
    <3>1. m - 1 \in 0 .. Len(q) /\ m - 1 \notin Out /\ m \in 1 .. Len(q)
      <4> HIDE DEF Out
      <4> QED BY <1>1, <2>1, <2>2, <2>4
    <3>2. Good(m - 1)
      <4> HIDE DEF Good
      <4> QED BY <3>1
    <3> HIDE DEF S
    <3>3. Good(m)
      BY <1>5, <3>1, <3>2
    <3> HIDE DEF Good
    <3> QED BY <2>2, <3>3
  <2> QED BY <2>3, <2>4
<1>7. Good(Len(q))
  <2>1. Len(q) \in 0 .. Len(q) /\ Out = {}
    <3> HIDE DEF Out
    <3> QED BY <1>1, <1>6
  <2> HIDE DEF Good
  <2> QED BY <2>1
<1> HIDE DEF S, x
<1>8. Cardinality(S(Len(q))) <= Cardinality(Since(h, x))
  BY <1>3, <1>4, MoreCounted
<1>9. Cardinality(S(Len(q))) \in Nat /\ Cardinality(Since(h, x)) \in Nat
  BY <1>3, <1>4, ByFinite
<1> QED BY <1>2, <1>7, <1>8, <1>9 DEF x

\* A CTCP of u is heard by t.
HeardToo(h, t, u) == [h EXCEPT ![t] = Append(@, [at |-> now, by |-> u])]

\* The entries stay backed.
LEMMA EntriesMore ==
  ASSUME NEW q, NEW r \in Seq(Note), EntriesOK(q, r), NEW u \in User, now \in Nat
  PROVE  EntriesOK(q, Append(r, [at |-> now, by |-> u]))
<1>1. q \in Seq(Entry) /\ \A i \in DOMAIN q : q[i] \in Entry /\ Backed(q[i], r)
  BY DEF EntriesOK
<1>2. \A i \in DOMAIN q : Backed(q[i], Append(r, [at |-> now, by |-> u]))
  BY <1>1, BackedMore
<1> QED BY <1>2 DEF EntriesOK

LEMMA MoreHeard ==
  ASSUME NEW f, NEW h \in [Aim -> Seq(Note)], FludOK(f, h), NEW t \in Aim, NEW u \in User,
         now \in Nat
  PROVE  /\ HeardToo(h, t, u) \in [Aim -> Seq(Note)]
         /\ HeardToo(h, t, u)[t] = Append(h[t], [at |-> now, by |-> u])
         /\ \A x \in Aim : x # t => HeardToo(h, t, u)[x] = h[x]
         /\ FludOK(f, HeardToo(h, t, u))
<1> DEFINE k == HeardToo(h, t, u)
           n == [at |-> now, by |-> u]
<1>1. n \in Note
  BY DEF Note
<1>2. k = [h EXCEPT ![t] = Append(@, n)]
  BY DEF HeardToo
<1> HIDE DEF n, k
<1>3. h[t] \in Seq(Note) /\ Append(h[t], n) \in Seq(Note)
  BY <1>1
<1>4. /\ k \in [Aim -> Seq(Note)] /\ k[t] = Append(h[t], n)
      /\ \A x \in Aim : x # t => k[x] = h[x]
  BY <1>2, <1>3
<1>5. EntriesOK(f.fluders[t], Append(h[t], n))
  <2>1. EntriesOK(f.fluders[t], h[t])
    BY DEF FludOK
  <2> QED BY <1>3, <2>1, EntriesMore DEF n
<1>6. \A x \in Aim : EntriesOK(f.fluders[x], k[x])
  BY <1>4, <1>5 DEF FludOK
<1>7. FludOK(f, k)
  BY <1>6 DEF FludOK
<1> QED BY <1>4, <1>7 DEF k, n

\* The entry of u is bumped.
Bumped(q, u) ==
  [i \in DOMAIN q |->
     IF q[i].fluder = u THEN [q[i] EXCEPT !.last = now, !.count = @ + 1] ELSE q[i]]

LEMMA BumpedOK ==
  ASSUME NEW q, NEW r \in Seq(Note), EntriesOK(q, r), NEW u \in User, now \in Nat
  PROVE  LET e == Bumped(q, u)
         IN /\ EntriesOK(e, Append(r, [at |-> now, by |-> u]))
            /\ DOMAIN e = DOMAIN q
            /\ \A i \in DOMAIN q : e[i].fluder = q[i].fluder
            /\ \A i \in DOMAIN q : Recent(q[i], now) => Recent(e[i], now)
            /\ q = <<>> <=> e = <<>>
<1> DEFINE up(b) == [b EXCEPT !.last = now, !.count = @ + 1]
           k == Append(r, [at |-> now, by |-> u])
           e == [i \in DOMAIN q |-> IF q[i].fluder = u THEN up(q[i]) ELSE q[i]]
<1>1. /\ q \in Seq(Entry) /\ DOMAIN q = 1 .. Len(q) /\ Len(q) \in Nat
      /\ \A i \in DOMAIN q : q[i] \in Entry /\ Backed(q[i], r)
  BY DEF EntriesOK
<1>2. ASSUME NEW i \in DOMAIN q
      PROVE  /\ e[i] \in Entry /\ Backed(e[i], k) /\ e[i].fluder = q[i].fluder
             /\ Recent(q[i], now) => Recent(e[i], now)
  <2> DEFINE b == q[i]
  <2>1. b \in Entry /\ Backed(b, r)
    BY <1>1
  <2>2. e[i] = IF b.fluder = u THEN up(b) ELSE b
    OBVIOUS
  <2> HIDE DEF b, e
  <2>3. up(b) \in Entry /\ up(b).fluder = b.fluder /\ up(b).last = now
    <3> DEFINE c == [b EXCEPT !.last = now]
    <3>1. up(b) = [c EXCEPT !.count = @ + 1]
      BY <2>1 DEF Entry
    <3>2. c \in Entry /\ c.fluder = b.fluder /\ c.last = now
      BY <2>1 DEF Entry
    <3> HIDE DEF c, up
    <3> QED BY <3>1, <3>2 DEF Entry
  <2>4. Recent(up(b), now)
    BY <2>3, FludAssumption DEF Recent
  <2>5. Backed(b, k) /\ (b.fluder = u => Backed(up(b), k))
    BY <2>1, BackedMore
  <2> HIDE DEF up, k
  <2> QED BY <2>1, <2>2, <2>3, <2>4, <2>5 DEF b
<1>3. DOMAIN e = DOMAIN q /\ e = Bumped(q, u)
  BY DEF Bumped
<1> HIDE DEF e
<1>4. e \in [1 .. Len(q) -> Entry]
  <2>1. e = [i \in 1 .. Len(q) |-> e[i]]
    BY <1>1 DEF e
  <2> QED BY <1>1, <1>2, <2>1
<1>5. e \in Seq(Entry) /\ Len(e) = Len(q)
  BY <1>1, <1>4
<1>6. EntriesOK(e, k)
  BY <1>2, <1>3, <1>5 DEF EntriesOK
<1>7. q = <<>> <=> e = <<>>
  BY <1>1, <1>5
<1> QED BY <1>2, <1>3, <1>6, <1>7 DEF k

\* A new entry comes first.
LEMMA NewEntryOK ==
  ASSUME NEW q, NEW r \in Seq(Note), EntriesOK(q, r), NEW u \in User, now \in Nat,
         ~Listed(q, u)
  PROVE  LET b == [fluder |-> u, count |-> 1, first |-> now, last |-> now]
             e == <<b>> \o q
         IN /\ EntriesOK(e, Append(r, [at |-> now, by |-> u]))
            /\ \A x : Listed(e, x) <=> x = u \/ Listed(q, x)
            /\ (\A i \in DOMAIN q : Recent(q[i], now)) => \A i \in DOMAIN e : Recent(e[i], now)
<1> DEFINE b == [fluder |-> u, count |-> 1, first |-> now, last |-> now]
           k == Append(r, [at |-> now, by |-> u])
           e == <<b>> \o q
<1>1. b \in Entry /\ Backed(b, k)
  BY BackedNew
<1>2. Recent(b, now) /\ b.fluder = u
  BY FludAssumption DEF Recent
<1> HIDE DEF b, k
<1>3. EntriesOK(q, k)
  BY EntriesMore DEF k
<1>4. q \in Seq(Entry) /\ DOMAIN q = 1 .. Len(q) /\ Len(q) \in Nat
  BY DEF EntriesOK
<1>5. /\ e \in Seq(Entry) /\ Len(e) = Len(q) + 1 /\ e[1] = b
      /\ \A i \in 1 .. Len(q) : e[i + 1] = q[i]
  BY <1>1, <1>4
<1>6. DOMAIN e = 1 .. Len(q) + 1
  BY <1>5
<1> HIDE DEF e
<1>7. \A i \in DOMAIN e : i # 1 => i - 1 \in DOMAIN q /\ e[i] = q[i - 1]
  <2> SUFFICES ASSUME NEW i \in DOMAIN e, i # 1 PROVE i - 1 \in DOMAIN q /\ e[i] = q[i - 1]
    OBVIOUS
  <2>1. i - 1 \in 1 .. Len(q) /\ (i - 1) + 1 = i
    BY <1>4, <1>6
  <2> QED BY <1>4, <1>5, <2>1
<1>8. \A i \in DOMAIN q : i + 1 \in DOMAIN e /\ e[i + 1] = q[i]
  BY <1>4, <1>5, <1>6
<1>9. 1 \in DOMAIN e
  BY <1>4, <1>6
<1>10. \A i \in DOMAIN q : q[i].fluder # u
  BY DEF Listed
<1>11. ASSUME NEW i \in DOMAIN e, NEW j \in DOMAIN e, e[i].fluder = e[j].fluder PROVE i = j
  <2>1. i = 1 <=> j = 1
    BY <1>2, <1>5, <1>7, <1>10, <1>11
  <2>2. CASE i # 1
    <3>1. i - 1 = j - 1
      BY <1>7, <1>11, <2>1, <2>2 DEF EntriesOK
    <3> QED BY <1>4, <1>6, <3>1
  <2> QED BY <2>1, <2>2
<1>12. \A i \in DOMAIN e : Backed(e[i], k)
  BY <1>1, <1>3, <1>5, <1>7 DEF EntriesOK
<1>13. EntriesOK(e, k)
  BY <1>5, <1>11, <1>12 DEF EntriesOK
<1>14. ASSUME NEW x PROVE Listed(e, x) <=> x = u \/ Listed(q, x)
  <2>1. ASSUME Listed(e, x) PROVE x = u \/ Listed(q, x)
    <3>1. PICK i \in DOMAIN e : e[i].fluder = x
      BY <2>1 DEF Listed
    <3>2. CASE i = 1
      BY <1>2, <1>5, <3>1, <3>2
    <3>3. CASE i # 1
      BY <1>7, <3>1, <3>3 DEF Listed
    <3> QED BY <3>2, <3>3
  <2>2. ASSUME x = u PROVE Listed(e, x)
    BY <1>2, <1>5, <1>9, <2>2 DEF Listed
  <2>3. ASSUME Listed(q, x) PROVE Listed(e, x)
    BY <1>8, <2>3 DEF Listed
  <2> QED BY <2>1, <2>2, <2>3
<1>15. (\A i \in DOMAIN q : Recent(q[i], now)) => \A i \in DOMAIN e : Recent(e[i], now)
  BY <1>2, <1>5, <1>7
<1> QED BY <1>13, <1>14, <1>15 DEF e, b, k

\* u has an entry in the list of t, of the CTCP of this second.
LEMMA CountedOK ==
  ASSUME NEW g, NEW h \in [Aim -> Seq(Note)], FludOK(g, h), NEW t \in Aim, NEW u \in User,
         now \in Nat, NEW A, NEW B, Within(g, A, B), u \in A, t \in B
  PROVE  LET q == g.fluders[t]
             bumped == [i \in DOMAIN q |->
                  IF q[i].fluder = u THEN [q[i] EXCEPT !.last = now, !.count = @ + 1] ELSE q[i]]
             new == [fluder |-> u, count |-> 1, first |-> now, last |-> now]
             k == IF About(g, t, {u}) # {} THEN [g EXCEPT !.fluders[t] = bumped]
                  ELSE [g EXCEPT !.fluders[t] = <<new>> \o q, !.fludees[u] = <<t>> \o @]
         IN /\ FludOK(k, HeardToo(h, t, u))
            /\ Within(k, A, B)
            /\ k.block = g.block
            /\ (\A i \in DOMAIN q : Recent(q[i], now))
                  => \A i \in DOMAIN k.fluders[t] : Recent(k.fluders[t][i], now)
<1> DEFINE q == g.fluders[t]
           bumped == [i \in DOMAIN q |->
              IF q[i].fluder = u THEN [q[i] EXCEPT !.last = now, !.count = @ + 1] ELSE q[i]]
           new == [fluder |-> u, count |-> 1, first |-> now, last |-> now]
           k == IF About(g, t, {u}) # {} THEN [g EXCEPT !.fluders[t] = bumped]
                ELSE [g EXCEPT !.fluders[t] = <<new>> \o q, !.fludees[u] = <<t>> \o @]
           r == HeardToo(h, t, u)
           n == [at |-> now, by |-> u]
           All(e) == \A i \in DOMAIN e : Recent(e[i], now)
<1>1. /\ r \in [Aim -> Seq(Note)] /\ r[t] = Append(h[t], n)
      /\ \A x \in Aim : x # t => r[x] = h[x]
      /\ FludOK(g, r)
  BY MoreHeard
<1>2. EntriesOK(q, h[t]) /\ h[t] \in Seq(Note)
  BY DEF FludOK
<1>3. About(g, t, {u}) # {} <=> Listed(q, u)
  BY AboutIs
<1>4. /\ g = [fluders |-> g.fluders, fludees |-> g.fludees, block |-> g.block]
      /\ DOMAIN g.fluders = Aim /\ DOMAIN g.fludees = User
  BY DEF FludOK
<1>5. CASE Listed(q, u)
  <2>1. k = [g EXCEPT !.fluders[t] = bumped]
    BY <1>3, <1>5
  <2>2. /\ EntriesOK(bumped, Append(h[t], n)) /\ DOMAIN bumped = DOMAIN q
        /\ \A i \in DOMAIN q : bumped[i].fluder = q[i].fluder
        /\ \A i \in DOMAIN q : Recent(q[i], now) => Recent(bumped[i], now)
        /\ q = <<>> <=> bumped = <<>>
    <3>1. bumped = Bumped(q, u)
      BY DEF Bumped
    <3> HIDE DEF bumped, q, k
    <3> QED BY <1>2, <3>1, BumpedOK
  <2> HIDE DEF bumped, k, r, n
  <2>3. /\ k = [fluders |-> [g.fluders EXCEPT ![t] = bumped], fludees |-> g.fludees,
               block |-> g.block]
    BY <1>4, <2>1
  <2>4. /\ k = [fluders |-> k.fluders, fludees |-> k.fludees, block |-> k.block]
        /\ k.fluders = [g.fluders EXCEPT ![t] = bumped] /\ k.fludees = g.fludees
        /\ k.block = g.block
    BY <2>3
  <2>5. /\ k.fluders = [x \in Aim |-> k.fluders[x]] /\ k.fluders[t] = bumped
        /\ \A x \in Aim : x # t => k.fluders[x] = g.fluders[x]
    BY <2>4 DEF FludOK
  <2>6. \A x \in Aim : EntriesOK(k.fluders[x], r[x])
    BY <1>1, <2>2, <2>5 DEF FludOK
  <2>7. \A x \in User : Listed(bumped, x) <=> Listed(q, x)
    BY <2>2 DEF Listed
  <2>8. \A x \in Aim, y \in User : Listed(k.fluders[x], y) <=> x \in Range(k.fludees[y])
    BY <2>4, <2>5, <2>7 DEF FludOK
  <2>9. FludOK(k, r)
    BY <2>4, <2>5, <2>6, <2>8 DEF FludOK
  <2>10. Within(k, A, B)
    BY <2>4, <2>5 DEF Within
  <2>11. All(q) => All(k.fluders[t])
    BY <2>2, <2>5
  <2> QED BY <2>4, <2>9, <2>10, <2>11 DEF k, r, bumped
<1>6. CASE ~Listed(q, u)
  <2> DEFINE e == <<new>> \o q
             d == <<t>> \o g.fludees[u]
  <2>1. k = [g EXCEPT !.fluders[t] = e, !.fludees[u] = <<t>> \o @]
    BY <1>3, <1>6
  <2>2. /\ EntriesOK(e, Append(h[t], n))
        /\ \A x : Listed(e, x) <=> x = u \/ Listed(q, x)
        /\ All(q) => All(e)
    BY <1>2, <1>6, NewEntryOK
  <2>3. /\ d \in Seq(Aim) /\ Once(d) /\ Range(d) = Range(g.fludees[u]) \cup {t}
    <3> DEFINE o == g.fludees[u]
    <3>1. o \in Seq(Aim) /\ Once(o) /\ t \notin Range(o)
      BY <1>6 DEF FludOK
    <3>2. d \in Seq(Aim) /\ Len(d) = Len(o) + 1 /\ d[1] = t /\ \A i \in 1 .. Len(o) : d[i + 1] = o[i]
      BY <3>1
    <3>3. DOMAIN o = 1 .. Len(o) /\ DOMAIN d = 1 .. Len(o) + 1 /\ Len(o) \in Nat
      BY <3>1, <3>2
    <3> HIDE DEF d, o
    <3>4. \A i \in DOMAIN d : i # 1 => i - 1 \in DOMAIN o /\ d[i] = o[i - 1]
      <4> SUFFICES ASSUME NEW i \in DOMAIN d, i # 1 PROVE i - 1 \in DOMAIN o /\ d[i] = o[i - 1]
        OBVIOUS
      <4>1. i - 1 \in 1 .. Len(o) /\ (i - 1) + 1 = i
        BY <3>3
      <4> QED BY <3>2, <3>3, <4>1
    <3>5. \A i \in DOMAIN o : i + 1 \in DOMAIN d /\ d[i + 1] = o[i]
      BY <3>2, <3>3
    <3>6. 1 \in DOMAIN d
      BY <3>3
    <3>7. Range(d) = Range(o) \cup {t}
      <4>1. Range(d) = {d[i] : i \in DOMAIN d} /\ Range(o) = {o[i] : i \in DOMAIN o}
        BY DEF Range
      <4>2. ASSUME NEW x \in Range(d) PROVE x \in Range(o) \cup {t}
        <5>1. PICK i \in DOMAIN d : x = d[i]
          BY <4>1
        <5>2. CASE i = 1
          BY <3>2, <5>1, <5>2
        <5>3. CASE i # 1
          BY <3>4, <4>1, <5>1, <5>3
        <5> QED BY <5>2, <5>3
      <4>3. ASSUME NEW x \in Range(o) PROVE x \in Range(d)
        BY <3>5, <4>1
      <4>4. t \in Range(d)
        BY <3>2, <3>6, <4>1
      <4> QED BY <4>2, <4>3, <4>4
    <3>8. ASSUME NEW i \in DOMAIN d, NEW j \in DOMAIN d, d[i] = d[j] PROVE i = j
      <4>1. \A m \in DOMAIN o : o[m] # t
        BY <3>1 DEF Range
      <4>2. i = 1 <=> j = 1
        BY <3>2, <3>4, <3>8, <4>1
      <4>3. CASE i # 1
        <5>1. i - 1 = j - 1
          BY <3>1, <3>4, <3>8, <4>2, <4>3 DEF Once
        <5> QED BY <3>3, <5>1
      <4> QED BY <4>2, <4>3
    <3> QED BY <3>2, <3>7, <3>8 DEF Once, o
  <2> HIDE DEF e, k, r, n
  <2>4. k = [fluders |-> [g.fluders EXCEPT ![t] = e], fludees |-> [g.fludees EXCEPT ![u] = d],
             block |-> g.block]
    <3>1. k = [fluders |-> [g.fluders EXCEPT ![t] = e],
               fludees |-> [g.fludees EXCEPT ![u] = <<t>> \o @], block |-> g.block]
      <4> DEFINE p == [g EXCEPT !.fluders[t] = e]
      <4>0. p = [g EXCEPT !.fluders[t] = e]
        OBVIOUS
      <4> HIDE DEF p
      <4>1. p = [fluders |-> [g.fluders EXCEPT ![t] = e], fludees |-> g.fludees, block |-> g.block]
        BY <1>4, <4>0
      <4>2. k = [p EXCEPT !.fludees[u] = <<t>> \o @]
        BY <1>4, <2>1, <4>0
      <4> QED BY <4>1, <4>2
    <3>2. [g.fludees EXCEPT ![u] = <<t>> \o @] = [g.fludees EXCEPT ![u] = d]
      BY <1>4
    <3> HIDE DEF d
    <3> QED BY <3>1, <3>2
  <2> HIDE DEF d
  <2>5. /\ k = [fluders |-> k.fluders, fludees |-> k.fludees, block |-> k.block]
        /\ k.fluders = [g.fluders EXCEPT ![t] = e] /\ k.fludees = [g.fludees EXCEPT ![u] = d]
        /\ k.block = g.block
    BY <2>4
  <2>6. /\ k.fluders = [x \in Aim |-> k.fluders[x]] /\ k.fluders[t] = e
        /\ \A x \in Aim : x # t => k.fluders[x] = g.fluders[x]
    BY <2>5 DEF FludOK
  <2>7. /\ k.fludees \in [User -> Seq(Aim)] /\ k.fludees[u] = d
        /\ \A x \in User : x # u => k.fludees[x] = g.fludees[x]
    BY <2>3, <2>5 DEF FludOK
  <2>8. \A x \in Aim : EntriesOK(k.fluders[x], r[x])
    BY <1>1, <2>2, <2>6 DEF FludOK
  <2>9. \A x \in User : Once(k.fludees[x])
    BY <2>3, <2>7 DEF FludOK
  <2>10. \A x \in Aim, y \in User : Listed(k.fluders[x], y) <=> x \in Range(k.fludees[y])
    <3> SUFFICES ASSUME NEW x \in Aim, NEW y \in User
                 PROVE  Listed(k.fluders[x], y) <=> x \in Range(k.fludees[y])
      OBVIOUS
    <3>1. Listed(g.fluders[x], y) <=> x \in Range(g.fludees[y])
      BY DEF FludOK
    <3>2. Listed(k.fluders[x], y) <=> Listed(g.fluders[x], y) \/ (x = t /\ y = u)
      BY <2>2, <2>6
    <3>3. x \in Range(k.fludees[y]) <=> x \in Range(g.fludees[y]) \/ (x = t /\ y = u)
      BY <2>3, <2>7
    <3> QED BY <3>1, <3>2, <3>3
  <2>11. FludOK(k, r)
    BY <2>5, <2>6, <2>7, <2>8, <2>9, <2>10 DEF FludOK
  <2>12. Within(k, A, B)
    BY <2>6, <2>7 DEF Within
  <2>13. All(q) => All(k.fluders[t])
    BY <2>2, <2>6
  <2> QED BY <2>5, <2>11, <2>12, <2>13 DEF k, r
<1> QED BY <1>5, <1>6

\* check_for_flud: a block begins only when more than FLUDNUM CTCPs were sent in
\* the last seconds.
LEMMA CheckOK ==
  ASSUME NEW f, NEW h \in [Aim -> Seq(Note)], FludOK(f, h), NEW t \in Aim, NEW u \in User,
         now \in Nat, NEW A, NEW B, Within(f, A, B), u \in A, t \in B
  PROVE  LET v == check_for_flud(f, t, u, now)
             r == HeardToo(h, t, u)
         IN /\ FludOK(v, r)
            /\ Within(v, A, B)
            /\ \A x \in Aim : Blocking(v, x, now) =>
                 Blocking(f, x, now)
                   \/ (x = t /\ Cardinality(Since(r[t], now - FLUDTIME)) > FLUDNUM)
<1> DEFINE v == check_for_flud(f, t, u, now)
           r == HeardToo(h, t, u)
           blocking == Blocking(f, t, now)
           g == IF blocking THEN f ELSE Collect(f, t, now)
           q == g.fluders[t]
           bumped == [i \in DOMAIN q |->
              IF q[i].fluder = u THEN [q[i] EXCEPT !.last = now, !.count = @ + 1] ELSE q[i]]
           new == [fluder |-> u, count |-> 1, first |-> now, last |-> now]
           k == IF About(g, t, {u}) # {} THEN [g EXCEPT !.fluders[t] = bumped]
                ELSE [g EXCEPT !.fluders[t] = <<new>> \o q, !.fludees[u] = <<t>> \o @]
           All(e) == \A i \in DOMAIN e : Recent(e[i], now)
<1>1. v = IF FLUDBLOCK = 0 THEN f
          ELSE IF blocking \/ Total(k.fluders[t], now) > FLUDNUM THEN [k EXCEPT !.block[t] = now]
          ELSE k
  BY DEF check_for_flud
<1>2. r \in [Aim -> Seq(Note)] /\ FludOK(f, r)
  BY MoreHeard
<1>3. FludOK(g, h) /\ Within(g, A, B) /\ g.block = f.block /\ (~blocking => All(q))
  BY CollectOK
<1>4. /\ FludOK(k, r) /\ Within(k, A, B) /\ k.block = g.block
      /\ All(q) => All(k.fluders[t])
  <2> HIDE DEF g
  <2> QED BY <1>3, CountedOK
<1> HIDE DEF v, r, k, g
<1>5. \A x \in Aim : Blocking(k, x, now) <=> Blocking(f, x, now)
  BY <1>3, <1>4 DEF Blocking
<1>6. ~blocking => Total(k.fluders[t], now) \in Nat
                   /\ Total(k.fluders[t], now) <= Cardinality(Since(r[t], now - FLUDTIME))
  <2>1. EntriesOK(k.fluders[t], r[t]) /\ r[t] \in Seq(Note)
    BY <1>2, <1>4 DEF FludOK
  <2> HIDE DEF q
  <2> QED BY <1>3, <1>4, <2>1, TotalOK
<1>7. Cardinality(Since(r[t], now - FLUDTIME)) \in Nat
  <2>1. r[t] \in Seq(Note) /\ Since(r[t], now - FLUDTIME) \in SUBSET DOMAIN r[t]
    BY <1>2 DEF Since
  <2> QED BY <2>1, ByFinite
<1> DEFINE b == [k EXCEPT !.block[t] = now]
<1>8. /\ FludOK(b, r) /\ Within(b, A, B)
      /\ \A x \in Aim : x # t => b.block[x] = k.block[x]
  <2>1. /\ k = [fluders |-> k.fluders, fludees |-> k.fludees, block |-> k.block]
        /\ k.block \in [Aim -> Nat]
    BY <1>4 DEF FludOK
  <2>0. b = [k EXCEPT !.block[t] = now]
    OBVIOUS
  <2> HIDE DEF b
  <2>2. b = [fluders |-> k.fluders, fludees |-> k.fludees, block |-> [k.block EXCEPT ![t] = now]]
    BY <2>0, <2>1
  <2>3. /\ b = [fluders |-> b.fluders, fludees |-> b.fludees, block |-> b.block]
        /\ b.fluders = k.fluders /\ b.fludees = k.fludees /\ b.block = [k.block EXCEPT ![t] = now]
    BY <2>2
  <2>4. b.block \in [Aim -> Nat] /\ \A x \in Aim : b.block[x] <= now
    BY <1>4, <2>1, <2>3 DEF FludOK
  <2>5. FludOK(b, r)
    BY <1>4, <2>3, <2>4 DEF FludOK
  <2>6. Within(b, A, B)
    BY <1>4, <2>3 DEF Within
  <2> QED BY <2>1, <2>3, <2>5, <2>6
<1>9. \A x \in Aim : x # t => (Blocking(b, x, now) <=> Blocking(k, x, now))
  <2> HIDE DEF b
  <2> QED BY <1>8 DEF Blocking
<1> HIDE DEF b
<1>10. v = f \/ v = k \/ (v = b /\ (blocking \/ Total(k.fluders[t], now) > FLUDNUM))
  <2> HIDE DEF blocking
  <2> QED BY <1>1 DEF b
<1>11. FludOK(v, r) /\ Within(v, A, B)
  BY <1>2, <1>4, <1>8, <1>10
<1>12. ASSUME NEW x \in Aim, Blocking(v, x, now)
       PROVE  Blocking(f, x, now) \/ (x = t /\ Cardinality(Since(r[t], now - FLUDTIME)) > FLUDNUM)
  <2>1. CASE v = f \/ v = k
    BY <1>5, <1>12, <2>1
  <2>2. CASE v = b /\ x # t
    BY <1>5, <1>9, <1>12, <2>2
  <2>3. CASE v = b /\ x = t /\ blocking
    BY <2>3
  <2>4. CASE x = t /\ ~blocking /\ Total(k.fluders[t], now) > FLUDNUM
    BY <1>6, <1>7, <2>4, FludAssumption
  <2> QED BY <1>10, <2>1, <2>2, <2>3, <2>4
<1> QED BY <1>11, <1>12 DEF v, r

-----------------------------------------------------------------------------
(* The world of all servers                                                *)

Fields == {"online", "flags", "view", "wire", "got", "errs", "sent", "lost", "ghosts",
           "flud", "heard", "drone", "knock"}
IsWorld(w) == w = [x \in Fields |-> w[x]]

\* A target of a message, and a message to one target or to a list of them.
IsGoal(t) == IsTarget(t) /\ t.lab \in Labels(scene)
IsMessage(m) ==
  m = [cmd |-> "MSG", by |-> m.by, to |-> m.to, notice |-> m.notice, ctcp |-> m.ctcp]
Single(m) == Len(m.to) = 1 /\ DOMAIN m.to = {1} /\ IsGoal(m.to[1])

\* The lines on a link.  A message has one target there: a server goes through
\* the list of a local client alone.
LineOK(m) ==
  \/ m.cmd = "MSG" /\ IsMessage(m) /\ Single(m)
  \/ m.cmd = "KNOCK" /\ m.c \in Chan /\ m.lab \in Labels(scene)
  \/ m.cmd = "TIME" /\ m.lab \in Labels(scene)
  \/ m.cmd = "NUMERIC"
  \/ m.cmd = "KILL"
  \/ m \in News

Chatter(q) == \E X : q \in Seq(X) /\ \A m \in X : LineOK(m)

NetOK(w) ==
  /\ w.wire = [l \in scene.links |-> w.wire[l]]
  /\ \A l \in scene.links : Chatter(w.wire[l])
  /\ w.sent \in SUBSET Labels(scene)
  /\ w.lost \in SUBSET Labels(scene)

Rights == {"in", "o", "v"}
Counter == [first : Nat, n : 0 .. DRONECOUNT + 1, noticed : 0 .. 2,
            queue : {"low", "middle", "high"}]

PeopleOK(w) ==
  /\ w.online \in [Server -> SUBSET User]
  /\ w.flags \in [Server -> [Chan -> [User -> SUBSET Rights]]]
  /\ w.view \in [User -> [Chan -> SUBSET User]]
  /\ w.drone \in [User -> Counter]

\* Those at s whom somebody can flood.
Near(w, s) == {u \in w.online[s] : Local(s, u)} \cup {c \in Chan : Exists(w, s, c)}

FloodOK(w) ==
  /\ w.heard \in [Server -> [Aim -> Seq(Note)]]
  /\ w.flud = [s \in Server |-> w.flud[s]]
  /\ \A s \in Server : FludOK(w.flud[s], w.heard[s]) /\ Within(w.flud[s], w.online[s], Near(w, s))

\* A target that blocks did so before the step, or was flooded.
Just(w) ==
  \A s \in Server, t \in Aim :
    Blocking(w.flud[s], t, now) =>
      \/ Blocking(flud[s], t, now)
      \/ Cardinality(Since(w.heard[s][t], now - FLUDTIME)) > FLUDNUM

\* What holds of the world between any two calls of a step.
WorldOK(w) == IsWorld(w) /\ NetOK(w) /\ PeopleOK(w) /\ FloodOK(w)
Good(w) == WorldOK(w) /\ Just(w)

\* What no step changes or turns back.
Setting == scene \in Scenes /\ now \in Nat /\ now >= FLUDBLOCK

\* From w to v only lines and counts of copies have changed.
Calm(w, v) ==
  /\ IsWorld(v)
  /\ v.online = w.online /\ v.flags = w.flags /\ v.view = w.view
  /\ v.flud = w.flud /\ v.heard = w.heard /\ v.drone = w.drone

LEMMA CalmOK ==
  ASSUME NEW w, Good(w), NEW v, Calm(w, v), NetOK(v)
  PROVE  Good(v)
<1>1. PeopleOK(v)
  BY DEF Good, WorldOK, PeopleOK, Calm
<1>2. \A s : Near(v, s) = Near(w, s)
  BY DEF Near, Exists, Members, Calm
<1>3. FloodOK(v)
  BY <1>2 DEF Good, WorldOK, FloodOK, Calm
<1>4. Just(v)
  BY DEF Good, Just, Calm
<1> QED BY <1>1, <1>3, <1>4 DEF Good, WorldOK, Calm

LEMMA CalmMore ==
  ASSUME NEW w, NEW v, NEW x, Calm(w, v), Calm(v, x)
  PROVE  Calm(w, x)
BY DEF Calm

LEMMA CalmSelf ==
  ASSUME NEW w, Good(w)
  PROVE  Calm(w, w)
BY DEF Calm, Good, WorldOK

LEMMA SceneOK ==
  ASSUME Setting
  PROVE  /\ scene.links \subseteq Server \X Server
         /\ \A s, t \in Server : s # t => <<s, scene.toward[s][t]>> \in scene.links
         /\ scene.home \in [User -> Server]
         /\ scene.start \in SUBSET User
         /\ scene.flags \in [Chan -> [User -> SUBSET Rights]]
         /\ \A i \in DOMAIN scene.say : IsCommand(scene.say[i])
         /\ scene.events \subseteq News
BY SceneAssumption DEF Setting, Rights

\* A line more, some lines more.
LEMMA ChatterMore ==
  ASSUME NEW q, Chatter(q), NEW m, LineOK(m)
  PROVE  Chatter(Append(q, m))
<1>1. PICK X : q \in Seq(X) /\ \A k \in X : LineOK(k)
  BY DEF Chatter
<1> DEFINE Y == X \cup {m}
<1>2. \A k \in Y : LineOK(k)
  BY <1>1
<1>3. q \in Seq(Y) /\ m \in Y
  BY <1>1
<1> HIDE DEF Y
<1>4. Append(q, m) \in Seq(Y)
  BY <1>3
<1> QED BY <1>2, <1>4 DEF Chatter

LEMMA ChatterBoth ==
  ASSUME NEW q, Chatter(q), NEW r, Chatter(r)
  PROVE  Chatter(q \o r)
<1>1. PICK X : q \in Seq(X) /\ \A k \in X : LineOK(k)
  BY DEF Chatter
<1>2. PICK Z : r \in Seq(Z) /\ \A k \in Z : LineOK(k)
  BY DEF Chatter
<1> DEFINE Y == X \cup Z
<1>3. \A k \in Y : LineOK(k)
  BY <1>1, <1>2
<1>4. q \in Seq(Y) /\ r \in Seq(Y)
  BY <1>1, <1>2
<1> HIDE DEF Y
<1>5. q \o r \in Seq(Y)
  BY <1>4
<1> QED BY <1>3, <1>5 DEF Chatter

\* Send.
LEMMA SendOK ==
  ASSUME NEW w, Good(w), NEW s, NEW ts, NEW m, LineOK(m)
  PROVE  Good(Send(w, s, ts, m)) /\ Calm(w, Send(w, s, ts, m))
<1> DEFINE v == Send(w, s, ts, m)
<1>1. IsWorld(v)
  BY DEF Good, WorldOK, IsWorld, Send, Fields
<1>2. /\ v.wire = [l \in DOMAIN w.wire |-> IF l[1] = s /\ l[2] \in ts THEN Append(w.wire[l], m)
                                           ELSE w.wire[l]]
      /\ v.sent = w.sent /\ v.lost = w.lost
  BY DEF Good, WorldOK, IsWorld, Send, Fields
<1>3. /\ v.online = w.online /\ v.flags = w.flags /\ v.view = w.view
      /\ v.flud = w.flud /\ v.heard = w.heard /\ v.drone = w.drone
  BY DEF Good, WorldOK, IsWorld, Send, Fields
<1> HIDE DEF v
<1>4. DOMAIN w.wire = scene.links /\ \A l \in scene.links : Chatter(w.wire[l])
  BY DEF Good, WorldOK, NetOK
<1>5. \A l \in scene.links : Chatter(Append(w.wire[l], m))
  BY <1>4, ChatterMore
<1>6. NetOK(v)
  BY <1>2, <1>4, <1>5 DEF Good, WorldOK, NetOK
<1>7. Calm(w, v)
  BY <1>1, <1>3 DEF Calm
<1> QED BY <1>6, <1>7, CalmOK DEF v

\* What changes neither the lines nor the people.
LEMMA Quieter ==
  ASSUME NEW w, Good(w), NEW v, Calm(w, v), v.wire = w.wire,
         v.sent \in SUBSET Labels(scene), v.lost \in SUBSET Labels(scene)
  PROVE  Good(v)
<1>1. NetOK(v)
  BY DEF Good, WorldOK, NetOK
<1> QED BY <1>1, CalmOK

LEMMA DeliverOK ==
  ASSUME NEW w, Good(w), NEW us, NEW lab
  PROVE  Good(Deliver(w, us, lab)) /\ Calm(w, Deliver(w, us, lab))
<1> DEFINE v == Deliver(w, us, lab)
           G == [u \in User |->
                   IF u \in us THEN [w.got[u] EXCEPT ![lab] = @ + 1] ELSE w.got[u]]
<1>1. v = [w EXCEPT !.got = G]
  BY DEF Deliver
<1> HIDE DEF v, G
<1>2. Calm(w, v)
  BY <1>1 DEF Good, WorldOK, IsWorld, Fields, Calm
<1>3. v.wire = w.wire /\ v.sent = w.sent /\ v.lost = w.lost
  BY <1>1 DEF Good, WorldOK, IsWorld, Fields
<1>4. Good(v)
  BY <1>2, <1>3, Quieter DEF Good, WorldOK, NetOK
<1> QED BY <1>2, <1>4 DEF v

\* errs, sent, lost, ghosts, knock: nothing else depends on them.
LEMMA NotedOK ==
  ASSUME NEW w, Good(w), NEW x
  PROVE  /\ Good([w EXCEPT !.errs = x]) /\ Calm(w, [w EXCEPT !.errs = x])
         /\ Good([w EXCEPT !.ghosts = x]) /\ Calm(w, [w EXCEPT !.ghosts = x])
         /\ Good([w EXCEPT !.knock = x]) /\ Calm(w, [w EXCEPT !.knock = x])
         /\ x \in SUBSET Labels(scene) =>
              /\ Good([w EXCEPT !.sent = x]) /\ Calm(w, [w EXCEPT !.sent = x])
              /\ Good([w EXCEPT !.lost = x]) /\ Calm(w, [w EXCEPT !.lost = x])
<1>1. w.sent \in SUBSET Labels(scene) /\ w.lost \in SUBSET Labels(scene)
  BY DEF Good, WorldOK, NetOK
<1>2. ASSUME NEW k \in {"errs", "ghosts", "knock", "sent", "lost"},
             k \in {"sent", "lost"} => x \in SUBSET Labels(scene)
      PROVE  Good([w EXCEPT ![k] = x]) /\ Calm(w, [w EXCEPT ![k] = x])
  <2> DEFINE v == [w EXCEPT ![k] = x]
  <2>1. IsWorld(v)
    BY DEF Good, WorldOK, IsWorld, Fields
  <2>2. /\ v.online = w.online /\ v.flags = w.flags /\ v.view = w.view
        /\ v.flud = w.flud /\ v.heard = w.heard /\ v.drone = w.drone /\ v.wire = w.wire
    BY <1>2 DEF Good, WorldOK, IsWorld, Fields
  <2>3. (v.sent = w.sent \/ v.sent \in SUBSET Labels(scene))
        /\ (v.lost = w.lost \/ v.lost \in SUBSET Labels(scene))
    BY <1>2 DEF Good, WorldOK, IsWorld, Fields
  <2> HIDE DEF v
  <2>4. Calm(w, v)
    BY <2>1, <2>2 DEF Calm
  <2>5. Good(v)
    BY <1>1, <2>2, <2>3, <2>4, Quieter
  <2> QED BY <2>4, <2>5 DEF v
<1>3. Good([w EXCEPT !.errs = x]) /\ Calm(w, [w EXCEPT !.errs = x])
  BY <1>2
<1>4. Good([w EXCEPT !.ghosts = x]) /\ Calm(w, [w EXCEPT !.ghosts = x])
  BY <1>2
<1>5. Good([w EXCEPT !.knock = x]) /\ Calm(w, [w EXCEPT !.knock = x])
  BY <1>2
<1>6. ASSUME x \in SUBSET Labels(scene)
      PROVE  /\ Good([w EXCEPT !.sent = x]) /\ Calm(w, [w EXCEPT !.sent = x])
             /\ Good([w EXCEPT !.lost = x]) /\ Calm(w, [w EXCEPT !.lost = x])
  BY <1>2, <1>6
<1> QED BY <1>3, <1>4, <1>5, <1>6

LEMMA NumericOK ==
  ASSUME NEW w, Good(w), NEW s, NEW u, NEW lab
  PROVE  Good(Numeric(w, s, u, lab)) /\ Calm(w, Numeric(w, s, u, lab))
<1> DEFINE m == [cmd |-> "NUMERIC", by |-> s, to |-> Nick(u), lab |-> lab]
           e == [w.errs EXCEPT ![u][lab] = @ + 1]
<1>1. LineOK(m)
  BY DEF LineOK
<1>2. [w EXCEPT !.errs[u][lab] = @ + 1] = [w EXCEPT !.errs = e]
  BY DEF Good, WorldOK, IsWorld, Fields
<1> HIDE DEF m, e
<1>3. Numeric(w, s, u, lab) = IF Local(s, u) THEN [w EXCEPT !.errs = e]
                              ELSE Send(w, s, {From(s, u)}, m)
  BY <1>2 DEF Numeric, m
<1>4. Good([w EXCEPT !.errs = e]) /\ Calm(w, [w EXCEPT !.errs = e])
  BY NotedOK
<1>5. Good(Send(w, s, {From(s, u)}, m)) /\ Calm(w, Send(w, s, {From(s, u)}, m))
  BY <1>1, SendOK
<1> QED BY <1>3, <1>4, <1>5

LEMMA AcceptOK ==
  ASSUME NEW w, Good(w), NEW s, NEW u, NEW lab \in Labels(scene)
  PROVE  Good(Accept(w, s, u, lab)) /\ Calm(w, Accept(w, s, u, lab))
<1>1. w.sent \cup {lab} \in SUBSET Labels(scene)
  BY DEF Good, WorldOK, NetOK
<1>2. Accept(w, s, u, lab) = w \/ Accept(w, s, u, lab) = [w EXCEPT !.sent = w.sent \cup {lab}]
  BY DEF Accept
<1> QED BY <1>1, <1>2, NotedOK, CalmSelf

LEMMA LoseOK ==
  ASSUME NEW w, Good(w), NEW lab \in Labels(scene)
  PROVE  Good([w EXCEPT !.lost = @ \cup {lab}]) /\ Calm(w, [w EXCEPT !.lost = @ \cup {lab}])
<1>1. w.lost \cup {lab} \in SUBSET Labels(scene)
  BY DEF Good, WorldOK, NetOK
<1>2. [w EXCEPT !.lost = @ \cup {lab}] = [w EXCEPT !.lost = w.lost \cup {lab}]
  OBVIOUS
<1> QED BY <1>1, <1>2, NotedOK

LEMMA ServOK ==
  ASSUME NEW w, Good(w), NEW s, NEW one, NEW m, LineOK(m)
  PROVE  /\ Good(sendto_serv_butone(w, s, one, m)) /\ Calm(w, sendto_serv_butone(w, s, one, m))
         /\ \A c : /\ Good(sendto_match_servs(w, s, c, one, m))
                   /\ Calm(w, sendto_match_servs(w, s, c, one, m))
BY SendOK, CalmSelf DEF sendto_serv_butone, sendto_match_servs

\* Copies to local clients and a line to some links.
LEMMA DeliverSendOK ==
  ASSUME NEW w, Good(w), NEW us, NEW lab, NEW s, NEW ts, NEW m, LineOK(m)
  PROVE  /\ Good(Send(Deliver(w, us, lab), s, ts, m))
         /\ Calm(w, Send(Deliver(w, us, lab), s, ts, m))
<1>1. Good(Deliver(w, us, lab)) /\ Calm(w, Deliver(w, us, lab))
  BY DeliverOK
<1> QED BY <1>1, SendOK, CalmMore

LEMMA ChannelButoneOK ==
  ASSUME NEW w, Good(w), NEW s, NEW one, NEW c, NEW lab, NEW m, LineOK(m)
  PROVE  /\ Good(sendto_channel_butone(w, s, one, c, lab, m))
         /\ Calm(w, sendto_channel_butone(w, s, one, c, lab, m))
BY DeliverSendOK DEF sendto_channel_butone

LEMMA MatchButoneOK ==
  ASSUME NEW w, Good(w), NEW s, NEW one, NEW mask, NEW lab, NEW m, LineOK(m)
  PROVE  /\ Good(sendto_match_butone(w, s, one, mask, lab, m))
         /\ Calm(w, sendto_match_butone(w, s, one, mask, lab, m))
BY DeliverSendOK DEF sendto_match_butone, sendto_serv_butone

\* A message to one target.
LEMMA OneTarget ==
  ASSUME NEW m, IsMessage(m), NEW t, IsGoal(t)
  PROVE  LineOK([m EXCEPT !.to = <<t>>])
<1> DEFINE n == [m EXCEPT !.to = <<t>>]
<1>1. n = [cmd |-> "MSG", by |-> m.by, to |-> <<t>>, notice |-> m.notice, ctcp |-> m.ctcp]
  BY DEF IsMessage
<1> HIDE DEF n
<1>2. n.cmd = "MSG" /\ IsMessage(n) /\ n.to = <<t>>
  BY <1>1 DEF IsMessage
<1>3. Len(<<t>>) = 1 /\ DOMAIN <<t>> = {1} /\ <<t>>[1] = t
  OBVIOUS
<1>4. Single(n)
  BY <1>2, <1>3 DEF Single
<1> QED BY <1>2, <1>4 DEF LineOK, n

LEMMA NoticeLine ==
  ASSUME NEW by, NEW k \in Kind, NEW x, k \in {"chan", "ops", "voiced"} => x \in Chan,
         NEW lab \in Labels(scene), NEW n, NEW c
  PROVE  LineOK([cmd |-> "MSG", by |-> by, notice |-> n, ctcp |-> c,
                 to |-> <<[k |-> k, x |-> x, lab |-> lab]>>])
<1> DEFINE t == [k |-> k, x |-> x, lab |-> lab]
           m == [cmd |-> "MSG", by |-> by, notice |-> n, ctcp |-> c, to |-> <<t>>]
<1>1. IsGoal(t)
  BY DEF IsGoal, IsTarget
<1> HIDE DEF t
<1>2. m.cmd = "MSG" /\ IsMessage(m) /\ m.to = <<t>>
  BY DEF IsMessage
<1>3. Len(<<t>>) = 1 /\ DOMAIN <<t>> = {1} /\ <<t>>[1] = t
  OBVIOUS
<1> HIDE DEF m
<1>4. Single(m)
  BY <1>1, <1>2, <1>3 DEF Single
<1>5. LineOK(m)
  BY <1>2, <1>4 DEF LineOK
<1> QED BY <1>5 DEF m, t

\* A NOTICE to each of some users.
LEMMA NoticesOK ==
  ASSUME NEW w, Good(w), NEW s, NEW by, NEW us \in SUBSET User, NEW lab \in Labels(scene)
  PROVE  Good(Notices(w, s, by, us, lab)) /\ Calm(w, Notices(w, s, by, us, lab))
<1> DEFINE v == Notices(w, s, by, us, lab)
           line(u) == [cmd |-> "MSG", by |-> Nick(by), notice |-> TRUE, ctcp |-> FALSE,
                       to |-> <<[k |-> "nick", x |-> Nick(u), lab |-> lab]>>]
           q(t) == SetToSeq({u \in us : From(s, u) = t})
           per(t) == [i \in DOMAIN q(t) |-> line(q(t)[i])]
<1>1. \A u : LineOK(line(u))
  <2>1. "nick" \in Kind /\ ~("nick" \in {"chan", "ops", "voiced"})
    BY DEF Kind
  <2> QED BY <2>1, NoticeLine
<1>2. ASSUME NEW t PROVE Chatter(per(t))
  <2> DEFINE S == {u \in us : From(s, u) = t}
             X == {line(u) : u \in S}
             p == q(t)
  <2>1. IsFiniteSet(S)
    BY UserAssumption, FS_Subset
  <2>2. p \in Seq(S)
    <3> HIDE DEF S
    <3> QED BY <2>1, SetListed DEF S
  <2>3. \A m \in X : LineOK(m)
    <3> HIDE DEF line
    <3> QED BY <1>1
  <2>4. \A u \in S : line(u) \in X
    OBVIOUS
  <2> HIDE DEF X, S, p, line
  <2>5. [i \in DOMAIN p |-> line(p[i])] \in Seq(X)
    <3>1. DOMAIN p = 1 .. Len(p) /\ Len(p) \in Nat
      BY <2>2
    <3>2. \A i \in DOMAIN p : line(p[i]) \in X
      BY <2>2, <2>4
    <3>3. [i \in DOMAIN p |-> line(p[i])] \in [1 .. Len(p) -> X]
      BY <3>1, <3>2
    <3> QED BY <3>1, <3>3
  <2> QED BY <2>3, <2>5 DEF Chatter, p
<1>3. v = [w EXCEPT !.wire = [l \in DOMAIN w.wire |->
             IF l[1] = s THEN w.wire[l] \o per(l[2]) ELSE w.wire[l]]]
  BY DEF Notices
<1> HIDE DEF v, per
<1>4. /\ v.wire = [l \in DOMAIN w.wire |-> IF l[1] = s THEN w.wire[l] \o per(l[2]) ELSE w.wire[l]]
      /\ v.sent = w.sent /\ v.lost = w.lost
  BY <1>3 DEF Good, WorldOK, IsWorld, Fields
<1>5. Calm(w, v)
  BY <1>3 DEF Good, WorldOK, IsWorld, Fields, Calm
<1>6. DOMAIN w.wire = scene.links /\ \A l \in scene.links : Chatter(w.wire[l])
  BY DEF Good, WorldOK, NetOK
<1>7. \A l \in scene.links : Chatter(w.wire[l] \o per(l[2]))
  BY <1>2, <1>6, ChatterBoth
<1>8. NetOK(v)
  BY <1>4, <1>6, <1>7 DEF Good, WorldOK, NetOK
<1> QED BY <1>5, <1>8, CalmOK DEF v

LEMMA ToManyOK ==
  ASSUME NEW w, Good(w), NEW us, NEW lab \in Labels(scene), NEW s, NEW ts, NEW m, LineOK(m),
         NEW by, NEW far \in SUBSET User
  PROVE  LET v == Notices(Send(Deliver(w, us, lab), s, ts, m), s, by, far, lab) IN
         Good(v) /\ Calm(w, v)
<1> DEFINE x == Send(Deliver(w, us, lab), s, ts, m)
<1>1. Good(x) /\ Calm(w, x)
  BY DeliverSendOK
<1> HIDE DEF x
<1>2. Good(Notices(x, s, by, far, lab)) /\ Calm(x, Notices(x, s, by, far, lab))
  BY <1>1, NoticesOK
<1>3. Calm(w, Notices(x, s, by, far, lab))
  BY <1>1, <1>2, CalmMore
<1> QED BY <1>2, <1>3 DEF x

LEMMA ChannelTypeOK ==
  ASSUME NEW w, Good(w), NEW s, NEW one, NEW by, NEW c \in Chan, NEW type,
         NEW lab \in Labels(scene)
  PROVE  /\ Good(sendto_channel_type(w, s, one, by, c, type, lab))
         /\ Calm(w, sendto_channel_type(w, s, one, by, c, type, lab))
<1> DEFINE to == {u \in With(w, s, c, type) : From(s, u) # one}
           far == {u \in to : ~Local(s, u)}
           chw == {u \in far : Has(s, u, "CHW")}
           ts == {From(s, u) : u \in chw}
           m == [cmd |-> "MSG", by |-> Nick(by), to |-> <<[k |-> "ops", x |-> c, lab |-> lab]>>,
                 notice |-> TRUE, ctcp |-> FALSE]
<1>1. LineOK(m)
  <2>1. "ops" \in Kind
    BY DEF Kind
  <2> QED BY <2>1, NoticeLine
<1>2. far \ chw \in SUBSET User
  BY DEF With
<1>3. sendto_channel_type(w, s, one, by, c, type, lab)
        = Notices(Send(Deliver(w, to \ far, lab), s, ts, m), s, by, far \ chw, lab)
  BY DEF sendto_channel_type
<1> HIDE DEF to, far, chw, ts, m
<1> QED BY <1>1, <1>2, <1>3, ToManyOK

LEMMA KnockSentOK ==
  ASSUME NEW w, Good(w), NEW s, NEW one, NEW by, NEW c \in Chan, NEW lab \in Labels(scene)
  PROVE  Good(send_knock(w, s, one, by, c, lab)) /\ Calm(w, send_knock(w, s, one, by, c, lab))
<1> DEFINE to == {u \in With(w, s, c, {"o"}) : From(s, u) # one}
           far == {u \in to : ~Local(s, u)}
           able == {u \in far : Has(s, u, "KNOCK")}
           ts == {From(s, u) : u \in able}
           m == [cmd |-> "KNOCK", by |-> Nick(by), c |-> c, lab |-> lab]
<1>1. LineOK(m)
  BY DEF LineOK
<1>2. far \ able \in SUBSET User
  BY DEF With
<1>3. send_knock(w, s, one, by, c, lab)
        = Notices(Send(Deliver(w, to \ far, lab), s, ts, m), s, by, far \ able, lab)
  BY DEF send_knock
<1> HIDE DEF to, far, able, ts, m
<1> QED BY <1>1, <1>2, <1>3, ToManyOK

-----------------------------------------------------------------------------
(* Users and channels come and go                                          *)

LEMMA WithinMore ==
  ASSUME NEW f, NEW A, NEW B, Within(f, A, B), NEW C, NEW D,
         \A u \in User : u \in A => u \in C, \A t \in Aim : t \in B => t \in D
  PROVE  Within(f, C, D)
BY DEF Within

\* A step changes the lists of one server.
LEMMA AtServer ==
  ASSUME NEW w, Good(w), NEW s \in Server, NEW v, IsWorld(v), NetOK(v), PeopleOK(v), NEW f,
         v.heard = w.heard, v.flud = [w.flud EXCEPT ![s] = f],
         FludOK(f, w.heard[s]), Within(f, v.online[s], Near(v, s)),
         \A x \in Server : x # s => v.online[x] = w.online[x] /\ v.flags[x] = w.flags[x],
         \A t \in Aim : Blocking(f, t, now) => Blocking(w.flud[s], t, now)
  PROVE  Good(v)
<1>1. w.flud = [x \in Server |-> w.flud[x]]
  BY DEF Good, WorldOK, FloodOK
<1>2. v.flud = [x \in Server |-> v.flud[x]] /\ v.flud[s] = f
      /\ \A x \in Server : x # s => v.flud[x] = w.flud[x]
  BY <1>1
<1>3. \A x \in Server : x # s => Near(v, x) = Near(w, x)
  BY DEF Near, Exists, Members
<1>4. ASSUME NEW x \in Server
      PROVE  FludOK(v.flud[x], v.heard[x]) /\ Within(v.flud[x], v.online[x], Near(v, x))
  <2>1. CASE x = s
    BY <1>2, <2>1
  <2>2. CASE x # s
    BY <1>2, <1>3, <2>2 DEF Good, WorldOK, FloodOK
  <2> QED BY <2>1, <2>2
<1>5. FloodOK(v)
  BY <1>2, <1>4 DEF Good, WorldOK, FloodOK
<1>6. Just(v)
  <2> SUFFICES ASSUME NEW x \in Server, NEW t \in Aim, Blocking(v.flud[x], t, now)
               PROVE  \/ Blocking(flud[x], t, now)
                      \/ Cardinality(Since(v.heard[x][t], now - FLUDTIME)) > FLUDNUM
    BY DEF Just
  <2>1. Blocking(w.flud[x], t, now)
    BY <1>2
  <2> QED BY <2>1 DEF Good, Just
<1> QED BY <1>5, <1>6 DEF Good, WorldOK

\* What free_fluders frees does not block any more.
LEMMA FreedBlocks ==
  ASSUME Setting, NEW f, NEW v, NEW ts,
         v.block = [t \in Aim |-> IF t \in ts THEN 0 ELSE f.block[t]]
  PROVE  \A t \in Aim : Blocking(v, t, now) => Blocking(f, t, now)
<1>1. ~(0 > now - FLUDBLOCK)
  BY FludAssumption DEF Setting
<1>2. \A t \in Aim : v.block[t] = 0 \/ v.block[t] = f.block[t]
  OBVIOUS
<1> QED BY <1>1, <1>2 DEF Blocking

LEMMA FreeEmptyOK ==
  ASSUME Setting, NEW w, NEW s, NEW f, NEW h, FludOK(f, h), NEW A, NEW B, Within(f, A, B)
  PROVE  /\ FludOK(FreeEmpty(w, s, f), h)
         /\ Within(FreeEmpty(w, s, f), A, B \ {c \in Chan : ~Exists(w, s, c)})
         /\ \A t \in Aim : Blocking(FreeEmpty(w, s, f), t, now) => Blocking(f, t, now)
<1> DEFINE gone == {c \in Chan : ~Exists(w, s, c)}
<1>1. FreeEmpty(w, s, f) = free_fluders(f, gone) /\ gone \in SUBSET Aim /\ now \in Nat
  BY DEF FreeEmpty, Aim, Setting
<1> HIDE DEF gone
<1>2. /\ FludOK(free_fluders(f, gone), h) /\ Within(free_fluders(f, gone), A, B \ gone)
      /\ free_fluders(f, gone).block = [t \in Aim |-> IF t \in gone THEN 0 ELSE f.block[t]]
  BY <1>1, FreeFludersOK
<1>3. \A t \in Aim : Blocking(free_fluders(f, gone), t, now) => Blocking(f, t, now)
  BY <1>2, FreedBlocks
<1> QED BY <1>1, <1>2, <1>3 DEF gone

\* exit_one_client: u is out of the lists of s, the flood lists too.
LEMMA ExitOK ==
  ASSUME Setting, NEW w, Good(w), NEW s \in Server, NEW u \in User
  PROVE  Good(exit_one_client(w, s, u))
<1> DEFINE told == Common(w, s, u)
           d == Deliver(w, told, u)
           O == [w.online EXCEPT ![s] = @ \ {u}]
           P == [w.flags EXCEPT ![s] = [c \in Chan |-> [w.flags[s][c] EXCEPT ![u] = {}]]]
           V == [x \in User |-> IF x \in told THEN [c \in Chan |-> w.view[x][c] \ {u}]
                                ELSE w.view[x]]
           v == [d EXCEPT !.online[s] = @ \ {u},
                          !.flags[s] = [c \in Chan |-> [@[c] EXCEPT ![u] = {}]],
                          !.view = V]
           f == IF Local(s, u) THEN free_fluders(w.flud[s], {u}) ELSE w.flud[s]
           g == FreeEmpty(v, s, free_fludees(f, u))
           r == exit_one_client(w, s, u)
<1>1. Good(d) /\ Calm(w, d)
  BY DeliverOK
<1>2. r = [v EXCEPT !.flud[s] = g]
  BY DEF exit_one_client
<1>3. /\ d.online = w.online /\ d.flags = w.flags /\ d.flud = w.flud /\ d.heard = w.heard
      /\ d.drone = w.drone /\ IsWorld(d)
  BY <1>1 DEF Calm
<1>4. /\ w.online \in [Server -> SUBSET User]
      /\ w.flags \in [Server -> [Chan -> [User -> SUBSET Rights]]]
      /\ w.view \in [User -> [Chan -> SUBSET User]]
      /\ w.drone \in [User -> Counter]
  BY DEF Good, WorldOK, PeopleOK
<1> HIDE DEF r, d, V, g
<1>5. /\ IsWorld(v) /\ v.online = O /\ v.flags = P /\ v.view = V /\ v.flud = w.flud
      /\ v.heard = w.heard /\ v.drone = w.drone /\ v.wire = d.wire /\ v.sent = d.sent
      /\ v.lost = d.lost
  BY <1>3, <1>4 DEF IsWorld, Fields
<1> HIDE DEF v
<1>6. /\ IsWorld(r) /\ r.online = O /\ r.flags = P /\ r.view = V
      /\ r.flud = [w.flud EXCEPT ![s] = g]
      /\ r.heard = w.heard /\ r.drone = w.drone /\ r.wire = d.wire /\ r.sent = d.sent
      /\ r.lost = d.lost
  BY <1>2, <1>5 DEF IsWorld, Fields
<1>7. NetOK(r)
  BY <1>1, <1>6 DEF Good, WorldOK, NetOK
<1>8. O \in [Server -> SUBSET User] /\ O[s] = w.online[s] \ {u}
      /\ \A x \in Server : x # s => O[x] = w.online[x]
  BY <1>4
<1>9. P \in [Server -> [Chan -> [User -> SUBSET Rights]]]
      /\ \A x \in Server : x # s => P[x] = w.flags[x]
  <2>1. [c \in Chan |-> [w.flags[s][c] EXCEPT ![u] = {}]] \in [Chan -> [User -> SUBSET Rights]]
    BY <1>4
  <2> QED BY <1>4, <2>1
<1>10. V \in [User -> [Chan -> SUBSET User]]
  BY <1>4 DEF V
<1>11. PeopleOK(r)
  <2> HIDE DEF O, P
  <2> QED BY <1>4, <1>6, <1>8, <1>9, <1>10 DEF PeopleOK
<1> DEFINE h == w.heard[s]
           A == w.online[s]
           B == Near(w, s)
<1>12. FludOK(w.flud[s], h) /\ Within(w.flud[s], A, B)
  BY DEF Good, WorldOK, FloodOK
<1>13. /\ FludOK(f, h) /\ Within(f, A, IF Local(s, u) THEN B \ {u} ELSE B)
       /\ \A t \in Aim : Blocking(f, t, now) => Blocking(w.flud[s], t, now)
  <2>1. CASE Local(s, u)
    <3>1. {u} \in SUBSET Aim /\ now \in Nat
      BY DEF Aim, Setting
    <3>2. /\ FludOK(free_fluders(w.flud[s], {u}), h)
          /\ Within(free_fluders(w.flud[s], {u}), A, B \ {u})
          /\ free_fluders(w.flud[s], {u}).block
               = [t \in Aim |-> IF t \in {u} THEN 0 ELSE w.flud[s].block[t]]
      <4> HIDE DEF h, A, B
      <4> QED BY <1>12, <3>1, FreeFludersOK
    <3>3. \A t \in Aim : Blocking(free_fluders(w.flud[s], {u}), t, now)
                            => Blocking(w.flud[s], t, now)
      BY <3>2, FreedBlocks
    <3> QED BY <2>1, <3>2, <3>3
  <2>2. CASE ~Local(s, u)
    BY <1>12, <2>2
  <2> QED BY <2>1, <2>2
<1> DEFINE C == IF Local(s, u) THEN B \ {u} ELSE B
           e == free_fludees(f, u)
<1> HIDE DEF f, h
<1>14. FludOK(e, h) /\ Within(e, A \ {u}, C) /\ e.block = f.block
  <2> HIDE DEF A, B, C
  <2> QED BY <1>13, FreeFludeesOK DEF C
<1>15. /\ FludOK(g, h)
       /\ Within(g, A \ {u}, C \ {c \in Chan : ~Exists(v, s, c)})
       /\ \A t \in Aim : Blocking(g, t, now) => Blocking(e, t, now)
  <2> HIDE DEF A, B, C, e
  <2> QED BY <1>14, FreeEmptyOK DEF g, e
<1>16. \A t \in Aim : Blocking(g, t, now) => Blocking(w.flud[s], t, now)
  BY <1>13, <1>14, <1>15 DEF Blocking
<1>17. \A c : Exists(v, s, c) <=> Exists(r, s, c)
  BY <1>5, <1>6 DEF Exists, Members
<1>18. ASSUME NEW t \in C \ {c \in Chan : ~Exists(v, s, c)} PROVE t \in Near(r, s)
  <2>1. t \in B /\ (t \in Chan => Exists(r, s, t)) /\ (Local(s, u) => t # u)
    BY <1>17, <1>18
  <2>2. CASE t \in Chan
    BY <2>1, <2>2 DEF Near
  <2>3. CASE t \notin Chan
    <3>1. t \in w.online[s] /\ Local(s, t)
      BY <2>1, <2>3 DEF Near
    <3>2. t # u
      BY <2>1, <3>1
    <3>3. t \in r.online[s]
      BY <1>6, <1>8, <3>1, <3>2
    <3> QED BY <3>1, <3>3 DEF Near
  <2> QED BY <2>2, <2>3
<1>19. Within(g, r.online[s], Near(r, s))
  <2>1. r.online[s] = A \ {u}
    BY <1>6, <1>8
  <2> HIDE DEF A, C
  <2> QED BY <1>15, <1>18, <2>1, WithinMore
<1> HIDE DEF O, P
<1>20. Good(r)
  BY <1>6, <1>7, <1>8, <1>9, <1>11, <1>15, <1>16, <1>19, AtServer DEF h
<1> QED BY <1>20 DEF r

\* The flags of one member change; he stays a member.
Flagged(g, s, c, u, k) == [g EXCEPT ![s][c][u] = k]

LEMMA FlagsOK ==
  ASSUME NEW w, Good(w), NEW s \in Server, NEW c \in Chan, NEW u \in User,
         NEW k \in SUBSET Rights, k # {}, NEW v, IsWorld(v),
         v.online = w.online, v.flags = Flagged(w.flags, s, c, u, k),
         v.view \in [User -> [Chan -> SUBSET User]], v.flud = w.flud, v.heard = w.heard,
         v.drone = w.drone, v.wire = w.wire, v.sent = w.sent, v.lost = w.lost
  PROVE  Good(v)
<1>1. /\ w.online \in [Server -> SUBSET User]
      /\ w.flags \in [Server -> [Chan -> [User -> SUBSET Rights]]]
      /\ w.drone \in [User -> Counter]
  BY DEF Good, WorldOK, PeopleOK
<1>2. v.flags \in [Server -> [Chan -> [User -> SUBSET Rights]]]
  BY <1>1 DEF Flagged
<1>3. /\ \A x \in Server : x # s => v.flags[x] = w.flags[x]
      /\ \A d \in Chan, x \in User : w.flags[s][d][x] # {} => v.flags[s][d][x] # {}
  <2>1. \A d \in Chan, x \in User :
           v.flags[s][d][x] = IF d = c /\ x = u THEN k ELSE w.flags[s][d][x]
    BY <1>1 DEF Flagged
  <2> QED BY <1>1, <2>1 DEF Flagged
<1>4. PeopleOK(v) /\ NetOK(v)
  BY <1>1, <1>2 DEF Good, WorldOK, PeopleOK, NetOK
<1> DEFINE f == w.flud[s]
<1>5. v.flud = [w.flud EXCEPT ![s] = f]
  BY DEF Good, WorldOK, FloodOK
<1>6. FludOK(f, w.heard[s]) /\ Within(f, w.online[s], Near(w, s))
  BY DEF Good, WorldOK, FloodOK
<1>7. \A d \in Chan : Exists(w, s, d) => Exists(v, s, d)
  BY <1>3 DEF Exists, Members
<1>8. Near(w, s) \subseteq Near(v, s)
  BY <1>7 DEF Near
<1> HIDE DEF f
<1>9. Within(f, v.online[s], Near(v, s))
  BY <1>6, <1>8, WithinMore
<1>10. \A t \in Aim : Blocking(f, t, now) => Blocking(w.flud[s], t, now)
  BY DEF f
<1> QED BY <1>3, <1>4, <1>5, <1>6, <1>9, <1>10, AtServer

\* The parts of a piece of news.
LEMMA NewsParts ==
  ASSUME NEW m \in News
  PROVE  /\ m.cmd \in {"NICK", "QUIT", "JOIN", "PART", "MODE"}
         /\ m.cmd # "MODE" => m.u \in User
         /\ m.cmd \in {"JOIN", "PART", "MODE"} => m.c \in Chan
         /\ m.cmd = "MODE" => /\ m.by \in User /\ m.who \in User
                              /\ m.flags \in SUBSET Rights /\ m.flags # {}
<1>1. CASE m \in [cmd : {"NICK", "QUIT"}, u : User]
  BY <1>1
<1>2. CASE m \in [cmd : {"JOIN", "PART"}, u : User, c : Chan]
  BY <1>2
<1>3. CASE m \in [cmd : {"MODE"}, by : User, who : User, c : Chan,
            flags : {f \in SUBSET {"in", "o", "v"} : "in" \in f}]
  <2>1. m.cmd = "MODE" /\ m.by \in User /\ m.who \in User /\ m.c \in Chan
        /\ m.flags \in {f \in SUBSET {"in", "o", "v"} : "in" \in f}
    BY <1>3
  <2> QED BY <2>1 DEF Rights
<1> QED BY <1>1, <1>2, <1>3 DEF News

LEMMA NickNewsOK ==
  ASSUME NEW w, Good(w), NEW s \in Server, NEW u \in User
  PROVE  Good([w EXCEPT !.online[s] = @ \cup {u}])
<1> DEFINE v == [w EXCEPT !.online[s] = @ \cup {u}]
           f == w.flud[s]
<1>1. /\ w.online \in [Server -> SUBSET User]
      /\ w.flags \in [Server -> [Chan -> [User -> SUBSET Rights]]]
      /\ w.view \in [User -> [Chan -> SUBSET User]]
      /\ w.drone \in [User -> Counter]
  BY DEF Good, WorldOK, PeopleOK
<1>2. /\ IsWorld(v) /\ v.online = [w.online EXCEPT ![s] = @ \cup {u}] /\ v.flags = w.flags
      /\ v.view = w.view /\ v.flud = w.flud /\ v.heard = w.heard /\ v.drone = w.drone
      /\ v.wire = w.wire /\ v.sent = w.sent /\ v.lost = w.lost
  BY <1>1 DEF Good, WorldOK, IsWorld, Fields
<1> HIDE DEF v
<1>3. /\ v.online \in [Server -> SUBSET User] /\ v.online[s] = w.online[s] \cup {u}
      /\ \A x \in Server : x # s => v.online[x] = w.online[x]
  BY <1>1, <1>2
<1>4. PeopleOK(v) /\ NetOK(v)
  BY <1>1, <1>2, <1>3 DEF Good, WorldOK, PeopleOK, NetOK
<1>5. v.flud = [w.flud EXCEPT ![s] = f]
  BY <1>2 DEF Good, WorldOK, FloodOK
<1>6. FludOK(f, w.heard[s]) /\ Within(f, w.online[s], Near(w, s))
  BY DEF Good, WorldOK, FloodOK
<1>7. Near(w, s) \subseteq Near(v, s)
  BY <1>2, <1>3 DEF Near, Exists, Members
<1> HIDE DEF f
<1>8. Within(f, v.online[s], Near(v, s))
  BY <1>3, <1>6, <1>7, WithinMore
<1>9. \A t \in Aim : Blocking(f, t, now) => Blocking(w.flud[s], t, now)
  BY DEF f
<1>10. Good(v)
  BY <1>2, <1>3, <1>4, <1>5, <1>6, <1>8, <1>9, AtServer
<1> QED BY <1>10 DEF v

LEMMA JoinNewsOK ==
  ASSUME NEW w, Good(w), NEW s \in Server, NEW m \in News, m.cmd = "JOIN"
  PROVE  Good(Apply(w, s, m))
<1> DEFINE v == Apply(w, s, m)
           near == {x \in User : Local(s, x) /\ x \in Members(w, s, m.c)}
           V == [x \in User |->
                      IF x \in near THEN [w.view[x] EXCEPT ![m.c] = @ \cup {m.u}]
                      ELSE IF x = m.u /\ Local(s, x)
                      THEN [w.view[x] EXCEPT ![m.c] = Members(w, s, m.c) \cup {m.u}]
                      ELSE w.view[x]]
<1>1. v = [w EXCEPT !.flags[s][m.c][m.u] = {"in"}, !.view = V]
  BY DEF Apply
<1>2. m.u \in User /\ m.c \in Chan
  BY NewsParts
<1>3. /\ w.flags \in [Server -> [Chan -> [User -> SUBSET Rights]]]
      /\ w.view \in [User -> [Chan -> SUBSET User]]
  BY DEF Good, WorldOK, PeopleOK
<1>4. V \in [User -> [Chan -> SUBSET User]]
  <2>1. Members(w, s, m.c) \in SUBSET User
    BY DEF Members
  <2> HIDE DEF near
  <2> QED BY <1>2, <1>3, <2>1
<1> HIDE DEF v, V
<1>5. /\ IsWorld(v) /\ v.online = w.online /\ v.flags = Flagged(w.flags, s, m.c, m.u, {"in"})
      /\ v.view = V /\ v.flud = w.flud /\ v.heard = w.heard /\ v.drone = w.drone
      /\ v.wire = w.wire /\ v.sent = w.sent /\ v.lost = w.lost
  BY <1>1, <1>3 DEF Good, WorldOK, IsWorld, Fields, Flagged
<1>6. {"in"} \in SUBSET Rights /\ {"in"} # {}
  BY DEF Rights
<1> QED BY <1>2, <1>4, <1>5, <1>6, FlagsOK DEF v

LEMMA ModeNewsOK ==
  ASSUME NEW w, Good(w), NEW s \in Server, NEW m \in News, m.cmd = "MODE"
  PROVE  Good(Apply(w, s, m))
<1> DEFINE v == [w EXCEPT !.flags[s][m.c][m.who] = m.flags]
<1>1. Apply(w, s, m) = w \/ Apply(w, s, m) = v
  BY DEF Apply
<1>2. m.who \in User /\ m.c \in Chan /\ m.flags \in SUBSET Rights /\ m.flags # {}
  BY NewsParts
<1>3. /\ w.flags \in [Server -> [Chan -> [User -> SUBSET Rights]]]
      /\ w.view \in [User -> [Chan -> SUBSET User]]
  BY DEF Good, WorldOK, PeopleOK
<1>4. /\ IsWorld(v) /\ v.online = w.online
      /\ v.flags = Flagged(w.flags, s, m.c, m.who, m.flags)
      /\ v.view = w.view /\ v.flud = w.flud /\ v.heard = w.heard /\ v.drone = w.drone
      /\ v.wire = w.wire /\ v.sent = w.sent /\ v.lost = w.lost
  BY <1>3 DEF Good, WorldOK, IsWorld, Fields, Flagged
<1> HIDE DEF v
<1>5. Good(v)
  BY <1>2, <1>3, <1>4, FlagsOK
<1> QED BY <1>1, <1>5

LEMMA PartNewsOK ==
  ASSUME Setting, NEW w, Good(w), NEW s \in Server, NEW m \in News, m.cmd = "PART"
  PROVE  Good(Apply(w, s, m))
<1> DEFINE near == {x \in User : Local(s, x) /\ x \in Members(w, s, m.c)}
           V == [x \in User |->
                   IF x = m.u /\ Local(s, x) THEN [w.view[x] EXCEPT ![m.c] = {}]
                   ELSE IF x \in near THEN [w.view[x] EXCEPT ![m.c] = @ \ {m.u}]
                   ELSE w.view[x]]
           v == [w EXCEPT !.flags[s][m.c][m.u] = {}, !.view = V]
           g == FreeEmpty(v, s, w.flud[s])
           r == [v EXCEPT !.flud[s] = FreeEmpty(v, s, @)]
           P == [w.flags EXCEPT ![s][m.c][m.u] = {}]
<1>1. Apply(w, s, m) = r
  BY DEF Apply
<1>2. m.u \in User /\ m.c \in Chan
  BY NewsParts
<1>3. /\ w.online \in [Server -> SUBSET User]
      /\ w.flags \in [Server -> [Chan -> [User -> SUBSET Rights]]]
      /\ w.view \in [User -> [Chan -> SUBSET User]]
      /\ w.drone \in [User -> Counter]
  BY DEF Good, WorldOK, PeopleOK
<1>4. V \in [User -> [Chan -> SUBSET User]]
  <2> HIDE DEF near
  <2> QED BY <1>2, <1>3
<1>5. DOMAIN w.flud = Server
  BY DEF Good, WorldOK, FloodOK
<1> HIDE DEF V
<1>6. /\ IsWorld(v) /\ v.online = w.online /\ v.flags = P /\ v.view = V /\ v.flud = w.flud
      /\ v.heard = w.heard /\ v.drone = w.drone /\ v.wire = w.wire /\ v.sent = w.sent
      /\ v.lost = w.lost
  BY <1>3 DEF Good, WorldOK, IsWorld, Fields
<1> HIDE DEF v
<1>7. r = [v EXCEPT !.flud[s] = g]
  BY <1>5, <1>6
<1> HIDE DEF r, g
<1>8. /\ IsWorld(r) /\ r.online = w.online /\ r.flags = P /\ r.view = V
      /\ r.flud = [w.flud EXCEPT ![s] = g]
      /\ r.heard = w.heard /\ r.drone = w.drone /\ r.wire = w.wire /\ r.sent = w.sent
      /\ r.lost = w.lost
  BY <1>6, <1>7 DEF IsWorld, Fields
<1>9. P \in [Server -> [Chan -> [User -> SUBSET Rights]]]
      /\ \A x \in Server : x # s => P[x] = w.flags[x]
  BY <1>2, <1>3
<1> HIDE DEF P
<1>10. PeopleOK(r) /\ NetOK(r)
  BY <1>3, <1>4, <1>8, <1>9 DEF Good, WorldOK, PeopleOK, NetOK
<1>11. FludOK(w.flud[s], w.heard[s]) /\ Within(w.flud[s], w.online[s], Near(w, s))
  BY DEF Good, WorldOK, FloodOK
<1>12. /\ FludOK(g, w.heard[s])
       /\ Within(g, w.online[s], Near(w, s) \ {c \in Chan : ~Exists(v, s, c)})
       /\ \A t \in Aim : Blocking(g, t, now) => Blocking(w.flud[s], t, now)
  BY <1>11, FreeEmptyOK DEF g
<1>13. \A c : Exists(v, s, c) <=> Exists(r, s, c)
  BY <1>6, <1>8 DEF Exists, Members
<1>14. Near(w, s) \ {c \in Chan : ~Exists(v, s, c)} \subseteq Near(r, s)
  BY <1>8, <1>13 DEF Near
<1>15. Within(g, r.online[s], Near(r, s))
  BY <1>8, <1>12, <1>14, WithinMore
<1>16. Good(r)
  BY <1>8, <1>9, <1>10, <1>12, <1>15, AtServer
<1> QED BY <1>1, <1>16

LEMMA ApplyOK ==
  ASSUME Setting, NEW w, Good(w), NEW s \in Server, NEW m \in News
  PROVE  Good(Apply(w, s, m))
<1>1. CASE m.cmd = "NICK"
  <2>1. Apply(w, s, m) = [w EXCEPT !.online[s] = @ \cup {m.u}] /\ m.u \in User
    BY <1>1, NewsParts DEF Apply
  <2> QED BY <2>1, NickNewsOK
<1>2. CASE m.cmd = "QUIT"
  <2>1. Apply(w, s, m) = exit_one_client(w, s, m.u) /\ m.u \in User
    BY <1>2, NewsParts DEF Apply
  <2> QED BY <2>1, ExitOK
<1> QED BY <1>1, <1>2, NewsParts, JoinNewsOK, PartNewsOK, ModeNewsOK

LEMMA EverywhereOK ==
  ASSUME Setting, NEW w, Good(w), NEW s \in Server, NEW one, NEW m \in News
  PROVE  Good(Everywhere(w, s, one, m))
<1>1. LineOK(m)
  BY DEF LineOK
<1>2. Good(Apply(w, s, m))
  BY ApplyOK
<1> QED BY <1>1, <1>2, ServOK DEF Everywhere

LEMMA KillLine ==
  ASSUME NEW n
  PROVE  LineOK([cmd |-> "KILL", nick |-> n])
BY DEF LineOK

\* The bearer of a nick is a user that is online.
LEMMA BearerIs ==
  ASSUME NEW w, Good(w), NEW s \in Server, NEW n, Bearer(w, s, n) # {}
  PROVE  /\ (CHOOSE x \in Bearer(w, s, n) : TRUE) \in w.online[s]
         /\ (CHOOSE x \in Bearer(w, s, n) : TRUE) \in User
<1>1. Bearer(w, s, n) \subseteq w.online[s] /\ w.online[s] \in SUBSET User
  BY DEF Bearer, Good, WorldOK, PeopleOK
<1> QED BY <1>1

LEMMA KilledOK ==
  ASSUME Setting, NEW w, Good(w), NEW s \in Server, NEW one, NEW n
  PROVE  Good(Killed(w, s, one, n))
<1> DEFINE us == Bearer(w, s, n)
           u == CHOOSE x \in us : TRUE
           v == sendto_serv_butone(w, s, one, [cmd |-> "KILL", nick |-> n])
<1>1. Killed(w, s, one, n) = IF us = {} THEN w ELSE exit_one_client(v, s, u)
  BY DEF Killed
<1>2. Good(v)
  BY KillLine, ServOK
<1>3. us # {} => u \in User
  BY BearerIs
<1> HIDE DEF u, v, us
<1> QED BY <1>1, <1>2, <1>3, ExitOK

\* A message to one user; a local sender stays online.
LEMMA PrefixOneOK ==
  ASSUME Setting, NEW w, Good(w), NEW s \in Server, NEW to \in User, NEW from \in User,
         NEW lab, NEW m, LineOK(m)
  PROVE  LET v == sendto_prefix_one(w, s, to, from, lab, m) IN
         Good(v) /\ (Local(s, from) => Calm(w, v))
<1> DEFINE v == sendto_prefix_one(w, s, to, from, lab, m)
           g == [w EXCEPT !.ghosts = @ \cup {to}]
           n == Numeric(g, s, from, lab)
           k == sendto_serv_butone(n, s, {}, [cmd |-> "KILL", nick |-> Nick(to)])
<1>1. v = IF ~Local(s, from) /\ From(s, to) = From(s, from) THEN exit_one_client(k, s, to)
          ELSE IF Local(s, to) THEN Deliver(w, {to}, lab)
          ELSE Send(w, s, {From(s, to)}, m)
  BY DEF sendto_prefix_one
<1>2. Good(g)
  BY NotedOK
<1> HIDE DEF g
<1>3. Good(n)
  BY <1>2, NumericOK
<1> HIDE DEF n
<1>4. Good(k)
  BY <1>3, KillLine, ServOK
<1> HIDE DEF k, v
<1>5. Good(exit_one_client(k, s, to))
  BY <1>4, ExitOK
<1>6. /\ Good(Deliver(w, {to}, lab)) /\ Calm(w, Deliver(w, {to}, lab))
      /\ Good(Send(w, s, {From(s, to)}, m)) /\ Calm(w, Send(w, s, {From(s, to)}, m))
  BY DeliverOK, SendOK
<1> QED BY <1>1, <1>5, <1>6 DEF v

-----------------------------------------------------------------------------
(* PRIVMSG and NOTICE                                                      *)

Kept(w, v) == v.online = w.online /\ v.flags = w.flags

LEMMA SinceMore ==
  ASSUME NEW q \in Seq(Note), NEW u \in User, now \in Nat, NEW x
  PROVE  LET r == Append(q, [at |-> now, by |-> u]) IN
         /\ Cardinality(Since(q, x)) \in Nat /\ Cardinality(Since(r, x)) \in Nat
         /\ Cardinality(Since(q, x)) <= Cardinality(Since(r, x))
<1> DEFINE r == Append(q, [at |-> now, by |-> u])
<1>1. r \in Seq(Note) /\ DOMAIN q \subseteq DOMAIN r /\ \A i \in DOMAIN q : r[i] = q[i]
  BY NoteAdded
<1> HIDE DEF r
<1>2. /\ Since(q, x) \in SUBSET Since(r, x) /\ Since(r, x) \in SUBSET DOMAIN r
      /\ Since(q, x) \in SUBSET DOMAIN q
  BY <1>1 DEF Since
<1> QED BY <1>1, <1>2, MoreCounted, ByFinite DEF r

\* The CTCPs of a client that is online, to a target that is there.
LEMMA FloodedOK ==
  ASSUME Setting, NEW w, Good(w), NEW s \in Server, NEW u \in User, u \in w.online[s],
         NEW t \in Aim, t \in Near(w, s), NEW m
  PROVE  Good(Flooded(w, s, u, t, m)) /\ Kept(w, Flooded(w, s, u, t, m))
<1> DEFINE f == check_for_flud(w.flud[s], t, u, now)
           h == HeardToo(w.heard[s], t, u)
           v == [w EXCEPT !.flud[s] = check_for_flud(@, t, u, now),
                          !.heard[s][t] = Append(@, [at |-> now, by |-> u])]
<1>1. Flooded(w, s, u, t, m) = w \/ Flooded(w, s, u, t, m) = v
  BY DEF Flooded
<1>2. /\ w.heard \in [Server -> [Aim -> Seq(Note)]] /\ w.flud = [x \in Server |-> w.flud[x]]
      /\ FludOK(w.flud[s], w.heard[s]) /\ Within(w.flud[s], w.online[s], Near(w, s))
      /\ now \in Nat
  BY DEF Good, WorldOK, FloodOK, Setting
<1>3. w.heard[s] \in [Aim -> Seq(Note)] /\ w.heard[s][t] \in Seq(Note)
  BY <1>2
<1>4. /\ FludOK(f, h) /\ Within(f, w.online[s], Near(w, s))
      /\ \A x \in Aim : Blocking(f, x, now) =>
           Blocking(w.flud[s], x, now)
             \/ (x = t /\ Cardinality(Since(h[t], now - FLUDTIME)) > FLUDNUM)
  <2> DEFINE F == w.flud[s]
             H == w.heard[s]
             A == w.online[s]
             B == Near(w, s)
  <2>1. H \in [Aim -> Seq(Note)] /\ FludOK(F, H) /\ Within(F, A, B) /\ now \in Nat
        /\ u \in A /\ t \in B
    BY <1>2, <1>3
  <2> HIDE DEF F, H, A, B
  <2>2. /\ FludOK(check_for_flud(F, t, u, now), HeardToo(H, t, u))
        /\ Within(check_for_flud(F, t, u, now), A, B)
        /\ \A x \in Aim : Blocking(check_for_flud(F, t, u, now), x, now) =>
             Blocking(F, x, now)
               \/ (x = t /\ Cardinality(Since(HeardToo(H, t, u)[t], now - FLUDTIME)) > FLUDNUM)
    BY <2>1, CheckOK
  <2> QED BY <2>2 DEF F, H, A, B
<1>5. /\ h \in [Aim -> Seq(Note)] /\ h[t] = Append(w.heard[s][t], [at |-> now, by |-> u])
      /\ \A x \in Aim : x # t => h[x] = w.heard[s][x]
  BY <1>2, <1>3, MoreHeard
<1>6. /\ IsWorld(v) /\ v.online = w.online /\ v.flags = w.flags /\ v.view = w.view
      /\ v.drone = w.drone /\ v.wire = w.wire /\ v.sent = w.sent /\ v.lost = w.lost
      /\ v.flud = [w.flud EXCEPT ![s] = f]
      /\ v.heard = [w.heard EXCEPT ![s] = h]
  <2>1. [w.heard EXCEPT ![s][t] = Append(@, [at |-> now, by |-> u])] = [w.heard EXCEPT ![s] = h]
    BY DEF HeardToo
  <2> DEFINE y == [w EXCEPT !.flud[s] = check_for_flud(@, t, u, now)]
             H == [w.heard EXCEPT ![s][t] = Append(@, [at |-> now, by |-> u])]
  <2>2. /\ IsWorld(y) /\ y.online = w.online /\ y.flags = w.flags /\ y.view = w.view
        /\ y.drone = w.drone /\ y.wire = w.wire /\ y.sent = w.sent /\ y.lost = w.lost
        /\ y.flud = [w.flud EXCEPT ![s] = f] /\ y.heard = w.heard
    <3> HIDE DEF H
    <3> QED BY <1>2 DEF Good, WorldOK, IsWorld, Fields
  <2>3. v = [y EXCEPT !.heard = H]
    BY <1>2 DEF Good, WorldOK, IsWorld, Fields
  <2> HIDE DEF y, H, v, f, h
  <2> QED BY <2>1, <2>2, <2>3 DEF IsWorld, Fields, H
<1> HIDE DEF v, f, h
<1>7. /\ v.heard \in [Server -> [Aim -> Seq(Note)]] /\ v.heard[s] = h
      /\ \A x \in Server : x # s => v.heard[x] = w.heard[x]
  BY <1>2, <1>5, <1>6
<1>8. /\ v.flud = [x \in Server |-> v.flud[x]] /\ v.flud[s] = f
      /\ \A x \in Server : x # s => v.flud[x] = w.flud[x]
  BY <1>2, <1>6
<1>9. \A x : Near(v, x) = Near(w, x)
  BY <1>6 DEF Near, Exists, Members
<1>10. FloodOK(v)
  <2>1. ASSUME NEW x \in Server
        PROVE  FludOK(v.flud[x], v.heard[x]) /\ Within(v.flud[x], v.online[x], Near(v, x))
    <3>1. CASE x = s
      BY <1>4, <1>6, <1>7, <1>8, <1>9, <3>1
    <3>2. CASE x # s
      BY <1>6, <1>7, <1>8, <1>9, <3>2 DEF Good, WorldOK, FloodOK
    <3> QED BY <3>1, <3>2
  <2> QED BY <1>7, <1>8, <2>1 DEF FloodOK
<1>11. PeopleOK(v) /\ NetOK(v)
  BY <1>6 DEF Good, WorldOK, PeopleOK, NetOK
<1>12. Just(v)
  <2> SUFFICES ASSUME NEW x \in Server, NEW y \in Aim, Blocking(v.flud[x], y, now)
               PROVE  \/ Blocking(flud[x], y, now)
                      \/ Cardinality(Since(v.heard[x][y], now - FLUDTIME)) > FLUDNUM
    BY DEF Just
  <2> DEFINE old == Cardinality(Since(w.heard[x][y], now - FLUDTIME))
             new == Cardinality(Since(v.heard[x][y], now - FLUDTIME))
  <2>1. Blocking(w.flud[x], y, now) => Blocking(flud[x], y, now) \/ old > FLUDNUM
    BY DEF Good, Just
  <2>2. CASE x # s \/ y # t
    <3>1. v.heard[x][y] = w.heard[x][y]
      BY <1>5, <1>7, <2>2
    <3>2. Blocking(w.flud[x], y, now)
      BY <1>4, <1>8, <2>2
    <3> QED BY <2>1, <3>1, <3>2
  <2>3. CASE x = s /\ y = t
    <3>1. old \in Nat /\ new \in Nat /\ old <= new
      BY <1>2, <1>3, <1>5, <1>7, <2>3, SinceMore
    <3>2. Blocking(w.flud[x], y, now) \/ new > FLUDNUM
      BY <1>4, <1>7, <1>8, <2>3
    <3>3. FLUDNUM \in Nat
      BY FludAssumption
    <3> HIDE DEF old, new
    <3>4. old > FLUDNUM => new > FLUDNUM
      BY <3>1, <3>3
    <3> QED BY <2>1, <3>2, <3>4 DEF new
  <2> QED BY <2>2, <2>3
<1>13. Good(v)
  BY <1>6, <1>10, <1>11, <1>12 DEF Good, WorldOK
<1> QED BY <1>1, <1>6, <1>13 DEF Kept

\* The walk over the targets.
IsWalk(a) == a = [w |-> a.w, type |-> a.type, stop |-> a.stop]

\* What a target may do to the walk of a message of u.
Walked(a, b, s, u) ==
  /\ IsWalk(b) /\ Good(b.w)
  /\ Local(s, u) => b.w.online = a.w.online

LEMMA CalmKept ==
  ASSUME NEW w, NEW v, Calm(w, v)
  PROVE  Kept(w, v)
BY DEF Calm, Kept

LEMMA ToChannelOK ==
  ASSUME Setting, NEW a, IsWalk(a), Good(a.w), NEW s \in Server, NEW u \in User,
         u \in a.w.online[s], NEW m, IsMessage(m), NEW t, IsGoal(t), t.x \in Chan
  PROVE  Walked(a, ToChannel(a, s, u, m, t), s, u)
<1> DEFINE c == t.x
           v == Flooded(a.w, s, u, c, m)
           line == [m EXCEPT !.to = <<t>>]
           acc == Accept(v, s, u, t.lab)
           all == sendto_channel_butone(acc, s, From(s, u), c, t.lab, line)
           num == Numeric(a.w, s, u, t.lab)
           late == Numeric(v, s, u, t.lab)
           b == ToChannel(a, s, u, m, t)
           mask == IsOper(u) /\ c \notin scene.locals /\ u \notin Members(a.w, s, c)
<1>1. b = IF mask \/ ~Exists(a.w, s, c) THEN [a EXCEPT !.w = num]
          ELSE IF can_send(v, s, u, c) THEN [a EXCEPT !.w = all]
          ELSE [a EXCEPT !.w = IF m.notice THEN v ELSE late]
  BY DEF ToChannel
<1>2. Good(num) /\ num.online = a.w.online
  BY NumericOK DEF Calm
<1>3. ASSUME Exists(a.w, s, c)
      PROVE  /\ Good(v) /\ v.online = a.w.online
             /\ Good(all) /\ all.online = a.w.online
             /\ Good(late) /\ late.online = a.w.online
  <2>1. c \in Aim /\ c \in Near(a.w, s)
    BY <1>3 DEF Aim, Near
  <2>2. Good(v) /\ Kept(a.w, v)
    BY <2>1, FloodedOK
  <2> HIDE DEF v
  <2>3. Good(late) /\ Calm(v, late)
    BY <2>2, NumericOK
  <2>4. t.lab \in Labels(scene) /\ LineOK(line)
    BY OneTarget DEF IsGoal
  <2>5. Good(acc) /\ Calm(v, acc)
    BY <2>2, <2>4, AcceptOK
  <2> HIDE DEF acc, line, late
  <2>6. Good(all) /\ Calm(acc, all)
    BY <2>4, <2>5, ChannelButoneOK
  <2> HIDE DEF all
  <2> QED BY <2>2, <2>3, <2>5, <2>6 DEF Kept, Calm
<1> HIDE DEF num, all, late, v, b, mask
<1>4. PICK x : b = [a EXCEPT !.w = x] /\ Good(x) /\ x.online = a.w.online
  BY <1>1, <1>2, <1>3
<1>5. b = [w |-> x, type |-> a.type, stop |-> a.stop]
  BY <1>4 DEF IsWalk
<1>6. IsWalk(b) /\ b.w = x
  BY <1>5 DEF IsWalk
<1> QED BY <1>4, <1>6 DEF Walked, b

LEMMA ToTypeOK ==
  ASSUME Setting, NEW a, IsWalk(a), Good(a.w), NEW s \in Server, NEW u \in User,
         u \in a.w.online[s], NEW m, IsMessage(m), NEW t, IsGoal(t), t.x \in Chan
  PROVE  Walked(a, ToType(a, s, u, m, t), s, u)
<1> DEFINE c == t.x
           y == [a EXCEPT !.type = IF t.k = "ops" THEN {"o"} ELSE {"o", "v"}]
           v == Flooded(a.w, s, u, c, m)
           acc == Accept(v, s, u, t.lab)
           all == sendto_channel_type(acc, s, From(s, u), u, c, y.type, t.lab)
           num == Numeric(a.w, s, u, t.lab)
           late == Numeric(v, s, u, t.lab)
           b == ToType(a, s, u, m, t)
<1>1. b = IF ~Exists(a.w, s, c) THEN [y EXCEPT !.w = num]
          ELSE IF u \notin With(a.w, s, c, {"o", "v"})
          THEN [y EXCEPT !.w = IF m.notice THEN v ELSE late]
          ELSE [y EXCEPT !.w = all, !.stop = TRUE]
  BY DEF ToType
<1>2. Good(num) /\ num.online = a.w.online
  BY NumericOK DEF Calm
<1>3. ASSUME Exists(a.w, s, c)
      PROVE  /\ Good(v) /\ v.online = a.w.online
             /\ Good(all) /\ all.online = a.w.online
             /\ Good(late) /\ late.online = a.w.online
  <2>1. c \in Aim /\ c \in Near(a.w, s)
    BY <1>3 DEF Aim, Near
  <2>2. Good(v) /\ Kept(a.w, v)
    BY <2>1, FloodedOK
  <2> HIDE DEF v, y
  <2>3. Good(late) /\ Calm(v, late)
    BY <2>2, NumericOK
  <2>4. t.lab \in Labels(scene)
    BY DEF IsGoal
  <2>5. Good(acc) /\ Calm(v, acc)
    BY <2>2, <2>4, AcceptOK
  <2> HIDE DEF acc, late
  <2>6. Good(all) /\ Calm(acc, all)
    BY <2>4, <2>5, ChannelTypeOK
  <2> HIDE DEF all
  <2> QED BY <2>2, <2>3, <2>5, <2>6 DEF Kept, Calm
<1>4. y = [w |-> a.w, type |-> y.type, stop |-> a.stop]
  BY DEF IsWalk
<1> HIDE DEF num, all, late, v, b, y
<1>5. PICK x : /\ b = [y EXCEPT !.w = x] \/ b = [y EXCEPT !.w = x, !.stop = TRUE]
               /\ Good(x) /\ x.online = a.w.online
  BY <1>1, <1>2, <1>3
<1>6. IsWalk(b) /\ b.w = x
  <2>1. CASE b = [y EXCEPT !.w = x]
    <3>1. b = [w |-> x, type |-> y.type, stop |-> a.stop]
      BY <1>4, <2>1
    <3> QED BY <3>1 DEF IsWalk
  <2>2. CASE b = [y EXCEPT !.w = x, !.stop = TRUE]
    <3>1. b = [w |-> x, type |-> y.type, stop |-> TRUE]
      BY <1>4, <2>2
    <3> QED BY <3>1 DEF IsWalk
  <2> QED BY <1>5, <2>1, <2>2
<1> QED BY <1>5, <1>6 DEF Walked, b

\* The counter of ANTI_DRONE_FLOOD keeps to its limits.
LEMMA DroneOK ==
  ASSUME Setting, NEW d \in Counter
  PROVE  Drone(d) \in Counter
<1>1. /\ d.first \in Nat /\ d.n \in 0 .. DRONECOUNT + 1 /\ d.noticed \in 0 .. 2
      /\ d.queue \in {"low", "middle", "high"} /\ DRONECOUNT \in Nat /\ now \in Nat
  BY SceneAssumption DEF Counter, Setting
<1> DEFINE up == IF d.queue = "high" /\ d.noticed <= 1 THEN 2
                 ELSE IF d.noticed = 0 THEN 1 ELSE d.noticed
           p == [d EXCEPT !.n = 1, !.first = now, !.noticed = 0]
           q == [d EXCEPT !.n = @ + 1]
           k == IF d.queue = "low" /\ up = 2 THEN 1 ELSE up
           r == [d EXCEPT !.noticed = k]
<1>2. k \in 0 .. 2
  BY <1>1
<1>3. p \in Counter
  <2> DEFINE y == [d EXCEPT !.n = 1]
             z == [y EXCEPT !.first = now]
  <2>1. 1 \in 0 .. DRONECOUNT + 1 /\ 0 \in 0 .. 2
    BY <1>1
  <2>2. y \in Counter
    BY <1>1, <2>1 DEF Counter
  <2>3. p = [z EXCEPT !.noticed = 0]
    BY DEF Counter
  <2> HIDE DEF y
  <2>4. z \in Counter
    BY <1>1, <2>2 DEF Counter
  <2> HIDE DEF z, p
  <2> QED BY <2>1, <2>3, <2>4 DEF Counter
<1>4. d.n <= DRONECOUNT => q \in Counter
  <2>1. d.n <= DRONECOUNT => d.n + 1 \in 0 .. DRONECOUNT + 1
    BY <1>1
  <2> QED BY <1>1, <2>1 DEF Counter
<1>5. r \in Counter
  <2> HIDE DEF k
  <2> QED BY <1>2 DEF Counter
<1>6. Drone(d) = IF DRONETIME = 0 THEN d
                 ELSE IF d.first + DRONETIME < now THEN p
                 ELSE IF d.n <= DRONECOUNT THEN q ELSE r
  BY DEF Drone
<1> HIDE DEF p, q, r
<1> QED BY <1>3, <1>4, <1>5, <1>6

LEMMA DronedOK ==
  ASSUME Setting, NEW w, Good(w), NEW u \in User
  PROVE  /\ Good([w EXCEPT !.drone[u] = Drone(@)])
         /\ [w EXCEPT !.drone[u] = Drone(@)].online = w.online
<1> DEFINE v == [w EXCEPT !.drone[u] = Drone(@)]
           e == Drone(w.drone[u])
<1>1. w.drone \in [User -> Counter]
  BY DEF Good, WorldOK, PeopleOK
<1>2. e \in Counter
  BY <1>1, DroneOK
<1>3. /\ IsWorld(v) /\ v.online = w.online /\ v.flags = w.flags /\ v.view = w.view
      /\ v.flud = w.flud /\ v.heard = w.heard /\ v.wire = w.wire /\ v.sent = w.sent
      /\ v.lost = w.lost /\ v.drone = [w.drone EXCEPT ![u] = e]
  BY <1>1 DEF Good, WorldOK, IsWorld, Fields
<1> HIDE DEF v, e
<1>4. v.drone \in [User -> Counter]
  BY <1>1, <1>2, <1>3
<1>5. PeopleOK(v) /\ NetOK(v)
  BY <1>3, <1>4 DEF Good, WorldOK, PeopleOK, NetOK
<1>6. \A s : Near(v, s) = Near(w, s)
  BY <1>3 DEF Near, Exists, Members
<1>7. FloodOK(v) /\ Just(v)
  BY <1>3, <1>6 DEF Good, WorldOK, FloodOK, Just
<1> QED BY <1>3, <1>5, <1>7 DEF Good, WorldOK, v

LEMMA WalkTo ==
  ASSUME NEW a, IsWalk(a), NEW w, NEW s, NEW u, Good(w), Local(s, u) => w.online = a.w.online
  PROVE  /\ Walked(a, [a EXCEPT !.w = w], s, u)
         /\ Walked(a, [a EXCEPT !.w = w, !.stop = TRUE], s, u)
<1> DEFINE b == [a EXCEPT !.w = w]
           c == [a EXCEPT !.w = w, !.stop = TRUE]
<1>1. b = [w |-> w, type |-> a.type, stop |-> a.stop]
  BY DEF IsWalk
<1>2. c = [b EXCEPT !.stop = TRUE]
  BY DEF IsWalk
<1> HIDE DEF b, c
<1>3. IsWalk(b) /\ b.w = w /\ IsWalk(c) /\ c.w = w
  BY <1>1, <1>2 DEF IsWalk
<1> QED BY <1>3 DEF Walked, b, c

LEMMA ToNickOK ==
  ASSUME Setting, NEW a, IsWalk(a), Good(a.w), NEW s \in Server, NEW u \in User,
         u \in a.w.online[s], NEW m, IsMessage(m), NEW t, IsGoal(t)
  PROVE  Walked(a, ToNick(a, s, u, m, t), s, u)
<1> DEFINE us == Bearer(a.w, s, t.x)
           to == CHOOSE x \in us : TRUE
           ctcp == Local(s, to) /\ ~m.notice /\ m.ctcp
           fl == IF ctcp THEN Flooded(a.w, s, u, to, m) ELSE a.w
           v == Accept(fl, s, u, t.lab)
           counted == Local(s, to) /\ ~IsOper(u)
           x == IF counted THEN [v EXCEPT !.drone[to] = Drone(@)] ELSE v
           lose(y) == [a EXCEPT !.w = [y EXCEPT !.lost = @ \cup {t.lab}], !.stop = TRUE]
           line == [m EXCEPT !.to = <<t>>]
           one == sendto_prefix_one(x, s, to, u, t.lab, line)
           num == Numeric(a.w, s, u, t.lab)
           b == ToNick(a, s, u, m, t)
<1>1. b = IF us = {} THEN [a EXCEPT !.w = num]
          ELSE IF ctcp /\ Blocking(v.flud[s], to, now) THEN lose(v)
          ELSE IF counted /\ x.drone[to].noticed = 2 THEN lose(x)
          ELSE [a EXCEPT !.w = one]
  BY DEF ToNick
<1>2. Good(num) /\ num.online = a.w.online
  BY NumericOK DEF Calm
<1>3. Walked(a, [a EXCEPT !.w = num], s, u)
  <2> HIDE DEF num
  <2> QED BY <1>2, WalkTo
<1>4. t.lab \in Labels(scene) /\ LineOK(line)
  BY OneTarget DEF IsGoal
<1>5. ASSUME us # {}
      PROVE  Walked(a, lose(v), s, u) /\ Walked(a, lose(x), s, u)
             /\ Walked(a, [a EXCEPT !.w = one], s, u)
  <2>1. to \in User /\ to \in a.w.online[s]
    BY <1>5, BearerIs
  <2> HIDE DEF to
  <2>2. Good(fl) /\ fl.online = a.w.online
    <3>1. CASE ctcp
      <4>1. to \in Aim /\ to \in Near(a.w, s)
        BY <2>1, <3>1 DEF Aim, Near
      <4>2. Good(Flooded(a.w, s, u, to, m)) /\ Kept(a.w, Flooded(a.w, s, u, to, m))
        BY <2>1, <4>1, FloodedOK
      <4> QED BY <3>1, <4>2 DEF Kept
    <3>2. CASE ~ctcp
      BY <3>2
    <3> QED BY <3>1, <3>2
  <2> HIDE DEF fl
  <2>3. Good(v) /\ v.online = a.w.online
    BY <1>4, <2>2, AcceptOK DEF Calm
  <2> HIDE DEF v
  <2>4. Good(x) /\ x.online = a.w.online
    BY <2>1, <2>3, DronedOK
  <2> HIDE DEF x, line
  <2>5. ASSUME NEW y, Good(y), y.online = a.w.online PROVE Walked(a, lose(y), s, u)
    <3> DEFINE z == [y EXCEPT !.lost = @ \cup {t.lab}]
    <3>1. Good(z) /\ z.online = a.w.online
      BY <1>4, <2>5, LoseOK DEF Calm
    <3> HIDE DEF z
    <3>2. Walked(a, [a EXCEPT !.w = z, !.stop = TRUE], s, u)
      BY <3>1, WalkTo
    <3> QED BY <3>2 DEF z
  <2> HIDE DEF lose
  <2>6. Good(one) /\ (Local(s, u) => one.online = a.w.online)
    BY <1>4, <2>1, <2>4, PrefixOneOK DEF Calm
  <2> HIDE DEF one
  <2>7. Walked(a, [a EXCEPT !.w = one], s, u)
    BY <2>6, WalkTo
  <2> QED BY <2>3, <2>4, <2>5, <2>7
<1> HIDE DEF b, us, ctcp, v, x, counted, lose, one, num, to
<1>6. Walked(a, b, s, u)
  BY <1>1, <1>3, <1>5
<1> QED BY <1>6 DEF b

LEMMA ToMaskOK ==
  ASSUME Setting, NEW a, IsWalk(a), Good(a.w), NEW s \in Server, NEW u \in User,
         NEW m, IsMessage(m), NEW t, IsGoal(t)
  PROVE  Walked(a, ToMask(a, s, u, m, t), s, u)
<1> DEFINE num == Numeric(a.w, s, u, t.lab)
           acc == Accept(a.w, s, u, t.lab)
           line == [m EXCEPT !.to = <<t>>]
           one == IF Local(s, u) THEN {} ELSE From(s, u)
           all == sendto_match_butone(acc, s, one, t.x, t.lab, line)
<1>1. ToMask(a, s, u, m, t) = IF ~IsOper(u) THEN [a EXCEPT !.w = num, !.stop = TRUE]
                              ELSE [a EXCEPT !.w = all]
  BY DEF ToMask
<1>2. Good(num) /\ num.online = a.w.online
  BY NumericOK DEF Calm
<1>3. t.lab \in Labels(scene) /\ LineOK(line)
  BY OneTarget DEF IsGoal
<1>4. Good(acc) /\ acc.online = a.w.online
  BY <1>3, AcceptOK DEF Calm
<1> HIDE DEF acc, num, line, one
<1>5. Good(all) /\ all.online = a.w.online
  BY <1>3, <1>4, MatchButoneOK DEF Calm
<1> HIDE DEF all
<1>6. Walked(a, [a EXCEPT !.w = num, !.stop = TRUE], s, u) /\ Walked(a, [a EXCEPT !.w = all], s, u)
  BY <1>2, <1>5, WalkTo
<1> QED BY <1>1, <1>6

LEMMA ToUserAtOK ==
  ASSUME Setting, NEW a, IsWalk(a), Good(a.w), NEW s \in Server, NEW u \in User,
         NEW m, IsMessage(m), NEW t, IsGoal(t)
  PROVE  Walked(a, ToUserAt(a, s, u, m, t), s, u)
<1> DEFINE here == {x \in a.w.online[s] : Local(s, x) /\ scene.ident[x] = t.x.user}
           v == Accept(a.w, s, u, t.lab)
           line == [m EXCEPT !.to = <<t>>]
           on == Send(v, s, {scene.toward[s][t.x.server]}, line)
           num == Numeric(v, s, u, t.lab)
           x0 == CHOOSE x \in here : TRUE
           one == sendto_prefix_one(v, s, x0, u, t.lab, line)
           r == IF t.x.server # s THEN on
                ELSE IF here = {} THEN num
                ELSE IF Cardinality(here) = 1 THEN one
                ELSE IF m.notice THEN v ELSE num
<1>1. ToUserAt(a, s, u, m, t) = [a EXCEPT !.w = r]
  BY DEF ToUserAt
<1>2. t.lab \in Labels(scene) /\ LineOK(line)
  BY OneTarget DEF IsGoal
<1>3. Good(v) /\ v.online = a.w.online
  BY <1>2, AcceptOK DEF Calm
<1> HIDE DEF v, line
<1>4. Good(on) /\ on.online = a.w.online /\ Good(num) /\ num.online = a.w.online
  BY <1>2, <1>3, SendOK, NumericOK DEF Calm
<1>5. ASSUME here # {} PROVE Good(one) /\ (Local(s, u) => one.online = a.w.online)
  <2>1. here \subseteq User
    BY DEF Good, WorldOK, PeopleOK
  <2>2. x0 \in User
    BY <1>5, <2>1
  <2> HIDE DEF x0
  <2> QED BY <1>2, <1>3, <2>2, PrefixOneOK DEF Calm
<1> HIDE DEF on, num, one, here
<1>6. Good(r) /\ (Local(s, u) => r.online = a.w.online)
  BY <1>3, <1>4, <1>5
<1> HIDE DEF r
<1>7. Walked(a, [a EXCEPT !.w = r], s, u)
  BY <1>6, WalkTo
<1> QED BY <1>1, <1>7

LEMMA TargetOK ==
  ASSUME Setting, NEW a, IsWalk(a), Good(a.w), NEW s \in Server, NEW u \in User,
         u \in a.w.online[s], NEW m, IsMessage(m), NEW t, IsGoal(t)
  PROVE  Walked(a, Target(a, s, u, m, t), s, u)
<1> DEFINE num == Numeric(a.w, s, u, t.lab)
           b == Target(a, s, u, m, t)
<1>1. b = IF a.stop THEN a
          ELSE IF t.k = "chan" THEN ToChannel(a, s, u, m, t)
          ELSE IF t.k \in {"ops", "voiced"} THEN ToType(a, s, u, m, t)
          ELSE IF a.type # {} THEN [a EXCEPT !.w = num]
          ELSE CASE t.k = "nick" -> ToNick(a, s, u, m, t)
                 [] t.k = "mask" -> ToMask(a, s, u, m, t)
                 [] t.k = "at"   -> ToUserAt(a, s, u, m, t)
  BY DEF Target
<1>2. t.k \in Kind /\ (t.k \in {"chan", "ops", "voiced"} => t.x \in Chan)
  BY DEF IsGoal, IsTarget
<1>3. Good(num) /\ num.online = a.w.online
  BY NumericOK DEF Calm
<1> HIDE DEF num, b
<1>4. Walked(a, [a EXCEPT !.w = num], s, u)
  BY <1>3, WalkTo
<1>5. Walked(a, a, s, u)
  BY DEF Walked
<1>6. Walked(a, b, s, u)
  <2>1. CASE a.stop
    BY <1>1, <1>5, <2>1
  <2>2. CASE ~a.stop /\ t.k = "chan"
    BY <1>1, <1>2, <2>2, ToChannelOK
  <2>3. CASE ~a.stop /\ t.k \in {"ops", "voiced"}
    BY <1>1, <1>2, <2>3, ToTypeOK
  <2>4. CASE ~a.stop /\ t.k \notin {"chan", "ops", "voiced"} /\ a.type # {}
    BY <1>1, <1>4, <2>4
  <2>5. CASE ~a.stop /\ t.k = "nick" /\ a.type = {}
    BY <1>1, <2>5, ToNickOK
  <2>6. CASE ~a.stop /\ t.k = "mask" /\ a.type = {}
    BY <1>1, <2>6, ToMaskOK
  <2>7. CASE ~a.stop /\ t.k = "at" /\ a.type = {}
    BY <1>1, <2>7, ToUserAtOK
  <2> QED BY <1>2, <2>1, <2>2, <2>3, <2>4, <2>5, <2>6, <2>7 DEF Kind
<1> QED BY <1>6 DEF b

\* The walk of m_message takes the targets one after the other.
LEMMA MessageWalks ==
  ASSUME NEW w, NEW s, NEW u, NEW m, Len(m.to) \in Nat
  PROVE  \E loop :
           /\ \A i \in 0 .. Len(m.to) :
                loop[i] = IF i = 0 THEN [w |-> w, type |-> {}, stop |-> FALSE]
                          ELSE Target(loop[i - 1], s, u, m, m.to[i])
           /\ m_message(w, s, u, m) = loop[Len(m.to)].w
<1> DEFINE M == Len(m.to)
           F(a, i) == IF i = 0 THEN [w |-> w, type |-> {}, stop |-> FALSE]
                      ELSE Target(a[i - 1], s, u, m, m.to[i])
           Rounds(N) == \E a : a = [i \in 0 .. N |-> F(a, i)]
           Bad == {N \in 0 .. M : ~Rounds(N)}
           loop == CHOOSE a : a = [i \in 0 .. M |-> F(a, i)]
<1>1. M \in Nat
  OBVIOUS
<1>2. ASSUME Bad # {} PROVE FALSE
  <2>1. PICK n \in Bad : \A k \in Bad : n <= k
    <3>1. Bad \in SUBSET Nat
      <4> HIDE DEF Rounds
      <4> QED BY <1>1
    <3> HIDE DEF Bad
    <3> QED BY <1>2, <3>1, LeastNat
  <2>2. n \in 0 .. M /\ ~Rounds(n)
    BY <2>1
  <2>3. CASE n = 0
    <3> DEFINE a == [i \in 0 .. 0 |-> [w |-> w, type |-> {}, stop |-> FALSE]]
    <3>1. a = [i \in 0 .. 0 |-> F(a, i)]
      OBVIOUS
    <3> HIDE DEF a, F
    <3> QED BY <2>2, <2>3, <3>1
  <2>4. CASE n # 0
    <3>1. n - 1 \in 0 .. M /\ n - 1 \notin Bad
      <4> HIDE DEF Bad
      <4> QED BY <1>1, <2>1, <2>2, <2>4
    <3>2. PICK v : v = [i \in 0 .. n - 1 |-> F(v, i)]
      <4> HIDE DEF F
      <4> QED BY <3>1
    <3> DEFINE a == [i \in 0 .. n |-> IF i < n THEN v[i] ELSE F(v, n)]
    <3>3. ASSUME NEW i \in 0 .. n PROVE a[i] = F(a, i)
      <4>1. CASE i < n
        <5>1. i \in 0 .. n - 1 /\ a[i] = v[i] /\ (i # 0 => a[i - 1] = v[i - 1])
          <6> HIDE DEF F
          <6> QED BY <2>2, <4>1
        <5>2. v[i] = F(v, i)
          <6> HIDE DEF F
          <6> QED BY <3>2, <5>1
        <5> HIDE DEF a
        <5> QED BY <5>1, <5>2
      <4>2. CASE i = n
        <5>1. a[n] = F(v, n) /\ a[n - 1] = v[n - 1]
          <6> HIDE DEF F
          <6> QED BY <2>2, <2>4
        <5> HIDE DEF a
        <5> QED BY <2>4, <4>2, <5>1
      <4> QED BY <2>2, <4>1, <4>2
    <3>4. a = [i \in 0 .. n |-> a[i]]
      <4> HIDE DEF F
      <4> QED OBVIOUS
    <3> HIDE DEF a, F
    <3>5. a = [i \in 0 .. n |-> F(a, i)]
      BY <3>3, <3>4
    <3> QED BY <2>2, <3>5
  <2> QED BY <2>3, <2>4
<1>3. Rounds(M)
  <2>1. Bad = {} /\ M \in 0 .. M
    <3> HIDE DEF Bad
    <3> QED BY <1>1, <1>2
  <2> HIDE DEF Rounds, M
  <2> QED BY <2>1
<1>4. loop = [i \in 0 .. M |-> F(loop, i)]
  <2> HIDE DEF F
  <2> QED BY <1>3
<1>5. m_message(w, s, u, m) = loop[M].w
  BY DEF m_message
<1> HIDE DEF loop
<1>6. \A i \in 0 .. M : loop[i] = F(loop, i)
  <2> HIDE DEF F
  <2> QED BY <1>4
<1> QED BY <1>5, <1>6

\* A list of targets of a local client, or one target.
LEMMA MessageOK ==
  ASSUME Setting, NEW w, Good(w), NEW s \in Server, NEW u \in User, u \in w.online[s],
         NEW m, IsMessage(m), Len(m.to) \in Nat, DOMAIN m.to = 1 .. Len(m.to),
         \A i \in DOMAIN m.to : IsGoal(m.to[i]), Local(s, u) \/ Len(m.to) = 1
  PROVE  Good(m_message(w, s, u, m))
<1>1. PICK loop :
           /\ \A i \in 0 .. Len(m.to) :
                loop[i] = IF i = 0 THEN [w |-> w, type |-> {}, stop |-> FALSE]
                          ELSE Target(loop[i - 1], s, u, m, m.to[i])
           /\ m_message(w, s, u, m) = loop[Len(m.to)].w
  BY MessageWalks
<1> DEFINE M == Len(m.to)
           Fine(i) == /\ IsWalk(loop[i]) /\ Good(loop[i].w)
                      /\ (Local(s, u) \/ i = 0) => u \in loop[i].w.online[s]
           Out == {i \in 0 .. M : ~Fine(i)}
<1>2. Fine(0)
  <2>1. loop[0] = [w |-> w, type |-> {}, stop |-> FALSE]
    <3>1. 0 \in 0 .. Len(m.to)
      OBVIOUS
    <3> QED BY <1>1, <3>1
  <2>2. IsWalk(loop[0]) /\ loop[0].w = w
    BY <2>1 DEF IsWalk
  <2> QED BY <2>2
<1>3. ASSUME NEW i \in 1 .. M, Fine(i - 1) PROVE Fine(i)
  <2>1. loop[i] = Target(loop[i - 1], s, u, m, m.to[i])
    BY <1>1
  <2>2. IsGoal(m.to[i])
    BY DEF M
  <2>3. Local(s, u) \/ i - 1 = 0
    BY DEF M
  <2>4. IsWalk(loop[i - 1]) /\ Good(loop[i - 1].w) /\ u \in loop[i - 1].w.online[s]
    BY <1>3, <2>3
  <2> DEFINE a == loop[i - 1]
             t == m.to[i]
  <2> HIDE DEF a, t
  <2>5. Walked(a, Target(a, s, u, m, t), s, u)
    BY <2>2, <2>4, TargetOK DEF a, t
  <2>6. Walked(a, loop[i], s, u)
    BY <2>1, <2>5 DEF a, t
  <2>7. i # 0
    OBVIOUS
  <2> QED BY <2>4, <2>6, <2>7 DEF Walked, a
<1>4. ASSUME Out # {} PROVE FALSE
  <2>1. PICK n \in Out : \A k \in Out : n <= k
    <3>1. Out \in SUBSET Nat
      <4> HIDE DEF Fine
      <4> QED BY DEF M
    <3> HIDE DEF Out
    <3> QED BY <1>4, <3>1, LeastNat
  <2>2. n \in 0 .. M /\ ~Fine(n)
    BY <2>1
  <2>3. n # 0
    <3> HIDE DEF Fine
    <3> QED BY <1>2, <2>2
  <2>4. n - 1 \in 0 .. M /\ n \in 1 .. M /\ n - 1 \notin Out
    <3> HIDE DEF Out
    <3> QED BY <2>1, <2>2, <2>3 DEF M
  <2> HIDE DEF Fine
  <2>5. Fine(n - 1)
    BY <2>4
  <2> QED BY <1>3, <2>2, <2>4, <2>5
<1>5. Fine(M)
  <2>1. M \in 0 .. M /\ Out = {}
    <3> HIDE DEF Out
    <3> QED BY <1>4 DEF M
  <2> HIDE DEF Fine, M
  <2> QED BY <2>1
<1> QED BY <1>1, <1>5

-----------------------------------------------------------------------------
(* KNOCK, queries, numerics                                                *)

LEMMA KnockOK ==
  ASSUME NEW w, Good(w), NEW s, NEW u, NEW m, m.cmd = "KNOCK",
         m.c \in Chan, m.lab \in Labels(scene)
  PROVE  Good(m_knock(w, s, u, m))
<1> DEFINE c == m.c
           local == Local(s, u)
           num == Numeric(w, s, u, m.lab)
           refused == IF local THEN num ELSE w
           used == IF local /\ ~IsOper(u) THEN [w EXCEPT !.knock[s].used = now] ELSE w
           v == [used EXCEPT !.knock[s].chan[c] = now,
                             !.knock[s].user = IF local THEN [@ EXCEPT ![u] = now] ELSE @]
           able == {t \in Links(s) \ {From(s, u)} : "KNOCK" \in scene.caps[t]}
           on == Send(w, s, able, m)
           late == Numeric(used, s, u, m.lab)
           acc == Accept(v, s, u, m.lab)
           out == send_knock(acc, s, From(s, u), u, c, m.lab)
<1>1. m_knock(w, s, u, m) \in {num, w, on, late, out}
  BY DEF m_knock
<1>2. Good(used)
  <2> DEFINE x == [w.knock EXCEPT ![s].used = now]
  <2>1. used = w \/ used = [w EXCEPT !.knock = x]
    BY DEF Good, WorldOK, IsWorld, Fields
  <2> HIDE DEF x, used
  <2>2. Good([w EXCEPT !.knock = x])
    BY NotedOK
  <2> QED BY <2>1, <2>2
<1> HIDE DEF used
<1>3. Good(v)
  <2> DEFINE x == [used.knock EXCEPT ![s].chan[c] = now]
             y == [x EXCEPT ![s].user = IF local THEN [@ EXCEPT ![u] = now] ELSE @]
             p == [used EXCEPT !.knock[s].chan[c] = now]
  <2>1. p = [used EXCEPT !.knock = x]
    BY <1>2 DEF Good, WorldOK, IsWorld, Fields
  <2>2. v = [p EXCEPT !.knock[s].user = IF local THEN [@ EXCEPT ![u] = now] ELSE @]
    BY <1>2 DEF Good, WorldOK, IsWorld, Fields
  <2> HIDE DEF p, v
  <2>3. Good(p)
    <3> HIDE DEF x
    <3> QED BY <1>2, <2>1, NotedOK
  <2>4. p.knock = x
    <3> HIDE DEF x
    <3> QED BY <1>2, <2>1 DEF Good, WorldOK, IsWorld, Fields
  <2> HIDE DEF x
  <2>5. v = [p EXCEPT !.knock = [p.knock EXCEPT ![s].user = IF local THEN [@ EXCEPT ![u] = now] ELSE @]]
    BY <2>2, <2>3 DEF Good, WorldOK, IsWorld, Fields
  <2> DEFINE z == [p.knock EXCEPT ![s].user = IF local THEN [@ EXCEPT ![u] = now] ELSE @]
  <2> HIDE DEF z
  <2>6. v = [p EXCEPT !.knock = z]
    BY <2>5 DEF z
  <2> QED BY <2>3, <2>6, NotedOK
<1> HIDE DEF v
<1>4. Good(num) /\ Good(late)
  BY <1>2, NumericOK
<1>5. LineOK(m)
  BY DEF LineOK
<1>6. Good(on)
  BY <1>5, SendOK
<1>7. Good(acc)
  BY <1>3, AcceptOK
<1> HIDE DEF acc, num, late, on
<1>8. Good(out)
  BY <1>7, KnockSentOK
<1> QED BY <1>1, <1>4, <1>6, <1>8

LEMMA TimeOK ==
  ASSUME NEW w, Good(w), NEW s \in Server, NEW u, NEW m, m.cmd = "TIME", m.lab \in Labels(scene)
  PROVE  Good(m_time(w, s, u, m))
<1> DEFINE v == Accept(w, s, u, m.lab)
           h == hunt_server(v, s, u, m)
<1>1. Good(v)
  BY AcceptOK
<1>2. m_time(w, s, u, m) = IF h.isme THEN Numeric(h.w, s, u, m.lab) ELSE h.w
  BY DEF m_time
<1> HIDE DEF v
<1>3. LineOK(m)
  BY DEF LineOK
<1>4. Good(Numeric(v, s, u, m.lab)) /\ \A ts : Good(Send(v, s, ts, m))
  BY <1>1, <1>3, NumericOK, SendOK
<1>5. Good(h.w)
  <2> DEFINE us == {x \in Bearer(v, s, m.x) : Local(s, x) \/ From(s, x) # From(s, u)}
             y == CHOOSE x \in us : TRUE
  <2>1. h = CASE m.x = s -> [isme |-> TRUE, w |-> v]
              [] m.x \in Server \ {s} ->
                   [isme |-> FALSE, w |-> Send(v, s, {scene.toward[s][m.x]}, m)]
              [] m.x \notin Server /\ us = {} ->
                   [isme |-> FALSE, w |-> Numeric(v, s, u, m.lab)]
              [] m.x \notin Server /\ us # {} ->
                   IF Local(s, y) THEN [isme |-> TRUE, w |-> v]
                   ELSE [isme |-> FALSE, w |-> Send(v, s, {From(s, y)}, m)]
    BY DEF hunt_server
  <2> HIDE DEF h, us, y
  <2>2. CASE m.x = s
    <3>1. h = [isme |-> TRUE, w |-> v]
      BY <2>1, <2>2
    <3> QED BY <1>1, <3>1
  <2>3. CASE m.x \in Server \ {s}
    <3>1. h = [isme |-> FALSE, w |-> Send(v, s, {scene.toward[s][m.x]}, m)]
      BY <2>1, <2>3
    <3> QED BY <1>4, <3>1
  <2>4. CASE m.x \notin Server /\ us = {}
    <3>1. h = [isme |-> FALSE, w |-> Numeric(v, s, u, m.lab)]
      BY <2>1, <2>4
    <3> QED BY <1>4, <3>1
  <2>5. CASE m.x \notin Server /\ us # {} /\ Local(s, y)
    <3>1. h = [isme |-> TRUE, w |-> v]
      BY <2>1, <2>5
    <3> QED BY <1>1, <3>1
  <2>6. CASE m.x \notin Server /\ us # {} /\ ~Local(s, y)
    <3>1. h = [isme |-> FALSE, w |-> Send(v, s, {From(s, y)}, m)]
      BY <2>1, <2>6
    <3> QED BY <1>4, <3>1
  <2> QED BY <2>2, <2>3, <2>4, <2>5, <2>6
<1> HIDE DEF h
<1>6. Good(Numeric(h.w, s, u, m.lab))
  BY <1>5, NumericOK
<1> QED BY <1>2, <1>5, <1>6

LEMMA DoNumericOK ==
  ASSUME NEW w, Good(w), NEW s, NEW t, NEW m, m.cmd = "NUMERIC"
  PROVE  Good(do_numeric(w, s, t, m))
<1> DEFINE u == CHOOSE x \in Bearer(w, s, m.to) : TRUE
           e == [w.errs EXCEPT ![u][m.lab] = @ + 1]
           p == [w EXCEPT !.errs[u][m.lab] = @ + 1]
<1>1. LineOK(m)
  BY DEF LineOK
<1>2. do_numeric(w, s, t, m) \in {w, p, Send(w, s, {From(s, u)}, m)}
  BY DEF do_numeric
<1> HIDE DEF u
<1>3. p = [w EXCEPT !.errs = e]
  BY DEF Good, WorldOK, IsWorld, Fields
<1> HIDE DEF e, p
<1>4. Good(p)
  BY <1>3, NotedOK
<1>5. Good(Send(w, s, {From(s, u)}, m))
  BY <1>1, SendOK
<1> QED BY <1>2, <1>4, <1>5

-----------------------------------------------------------------------------
(* The steps                                                               *)

\* What a line carries, by its command.
LEMMA LineParts ==
  ASSUME NEW m, LineOK(m)
  PROVE  /\ m.cmd \in {"MSG", "KNOCK", "TIME", "NUMERIC", "KILL",
                       "NICK", "QUIT", "JOIN", "PART", "MODE"}
         /\ m.cmd = "MSG" => IsMessage(m) /\ Single(m)
         /\ m.cmd = "KNOCK" => m.c \in Chan /\ m.lab \in Labels(scene)
         /\ m.cmd = "TIME" => m.lab \in Labels(scene)
         /\ m.cmd \in {"NICK", "QUIT", "JOIN", "PART", "MODE"} => m \in News
<1>1. CASE m \in News
  BY <1>1, NewsParts
<1>2. CASE m \notin News
  BY <1>2 DEF LineOK
<1> QED BY <1>1, <1>2

LEMMA FromUserOK ==
  ASSUME Setting, NEW w, Good(w), NEW s \in Server, NEW t, NEW m, LineOK(m),
         m.cmd \in {"MSG", "KNOCK", "TIME"}
  PROVE  Good(FromUser(w, s, t, m))
<1> DEFINE us == Bearer(w, s, m.by)
           u == CHOOSE x \in us : TRUE
           kill == Send(w, s, {t}, [cmd |-> "KILL", nick |-> m.by])
<1>1. FromUser(w, s, t, m) =
        IF us = {} THEN kill
        ELSE IF From(s, u) # t THEN w
        ELSE CASE m.cmd = "MSG"   -> m_message(w, s, u, m)
               [] m.cmd = "KNOCK" -> m_knock(w, s, u, m)
               [] m.cmd = "TIME"  -> m_time(w, s, u, m)
  BY DEF FromUser
<1>2. Good(kill)
  BY KillLine, SendOK
<1>3. us # {} => u \in User /\ u \in w.online[s]
  BY BearerIs
<1> HIDE DEF kill, us, u
<1>4. ASSUME us # {}, m.cmd = "MSG" PROVE Good(m_message(w, s, u, m))
  <2>1. IsMessage(m) /\ Len(m.to) = 1 /\ DOMAIN m.to = {1} /\ IsGoal(m.to[1])
    BY <1>4, LineParts DEF Single
  <2>2. Len(m.to) \in Nat /\ DOMAIN m.to = 1 .. Len(m.to) /\ \A i \in DOMAIN m.to : IsGoal(m.to[i])
    BY <2>1
  <2> QED BY <1>3, <1>4, <2>1, <2>2, MessageOK
<1>5. m.cmd = "KNOCK" => Good(m_knock(w, s, u, m))
  BY LineParts, KnockOK
<1>6. m.cmd = "TIME" => Good(m_time(w, s, u, m))
  BY LineParts, TimeOK
<1> QED BY <1>1, <1>2, <1>4, <1>5, <1>6

LEMMA HandleOK ==
  ASSUME Setting, NEW w, Good(w), NEW s \in Server, NEW t, NEW m, LineOK(m)
  PROVE  Good(Handle(w, s, t, m))
<1>1. CASE m.cmd \in {"MSG", "KNOCK", "TIME"}
  <2>1. Handle(w, s, t, m) = FromUser(w, s, t, m)
    BY <1>1 DEF Handle
  <2> QED BY <1>1, <2>1, FromUserOK
<1>2. CASE m.cmd = "NUMERIC"
  <2>1. Handle(w, s, t, m) = do_numeric(w, s, t, m)
    BY <1>2 DEF Handle
  <2> QED BY <1>2, <2>1, DoNumericOK
<1>3. CASE m.cmd = "KILL"
  <2>1. Handle(w, s, t, m) = Killed(w, s, t, m.nick)
    BY <1>3 DEF Handle
  <2> QED BY <2>1, KilledOK
<1>4. CASE m.cmd = "NICK"
  <2>1. Handle(w, s, t, m) = Everywhere(w, s, t, m) /\ m \in News
    BY <1>4, LineParts DEF Handle
  <2> QED BY <2>1, EverywhereOK
<1>5. CASE m.cmd \in {"QUIT", "JOIN", "PART", "MODE"}
  <2> DEFINE kill == Send(w, s, {t}, [cmd |-> "KILL", nick |-> Nick(Actor(m))])
  <2>1. Handle(w, s, t, m) = IF Actor(m) \in w.online[s] THEN Everywhere(w, s, t, m) ELSE kill
    BY <1>5 DEF Handle
  <2>2. Good(kill)
    BY KillLine, SendOK
  <2>3. m \in News
    BY <1>5, LineParts
  <2> HIDE DEF kill
  <2> QED BY <2>1, <2>2, <2>3, EverywhereOK
<1> QED BY <1>1, <1>2, <1>3, <1>4, <1>5, LineParts

\* The flood lists as time goes on.
LEMMA LaterFlud ==
  ASSUME NEW s \in Server, FludOK(flud'[s], heard'[s]), now \in Nat, now' \in Nat, now <= now'
  PROVE  FludOK(flud[s], heard[s])'
<1> DEFINE f == flud'[s]
           h == heard'[s]
<1>1. /\ f = [fluders |-> f.fluders, fludees |-> f.fludees, block |-> f.block]
      /\ f.fluders = [t \in Aim |-> f.fluders[t]]
      /\ f.fludees \in [User -> Seq(Aim)]
      /\ f.block \in [Aim -> Nat]
      /\ \A t \in Aim : f.block[t] <= now
      /\ \A t \in Aim : EntriesOK(f.fluders[t], h[t])
      /\ \A u \in User : Once(f.fludees[u])
      /\ \A t \in Aim, u \in User : Listed(f.fluders[t], u) <=> t \in Range(f.fludees[u])
  BY DEF FludOK
<1>2. \A t \in Aim : f.block[t] <= now'
  BY <1>1
<1>3. ASSUME NEW t \in Aim PROVE EntriesOK(flud[s].fluders[t], heard[s][t])'
  <2> DEFINE q == f.fluders[t]
             r == h[t]
  <2>1. /\ q \in Seq(Entry)
        /\ \A i, j \in DOMAIN q : q[i].fluder = q[j].fluder => i = j
        /\ \A i \in DOMAIN q : Backed(q[i], r)
    BY <1>1 DEF EntriesOK
  <2>2. ASSUME NEW i \in DOMAIN q
        PROVE  /\ q[i].count <= Cardinality(By(r, q[i].fluder, q[i].first))
               /\ By(r, q[i].fluder, q[i].last) # {}
               /\ q[i].first <= now'
    <3>1. q[i] \in Entry /\ Backed(q[i], r)
      BY <2>1
    <3>2. q[i].first \in Nat
      BY <3>1 DEF Entry
    <3> QED BY <3>1, <3>2 DEF Backed
  <2> QED BY <2>1, <2>2 DEF EntriesOK, Backed
<1> QED BY <1>1, <1>2, <1>3 DEF FludOK

\* A line stays one.
LEMMA LaterChatter ==
  ASSUME scene' = scene, NEW l, Chatter(wire'[l])
  PROVE  Chatter(wire[l])'
<1>1. PICK X : wire'[l] \in Seq(X) /\ \A m \in X : LineOK(m)
  BY DEF Chatter
<1>2. ASSUME NEW m, LineOK(m) PROVE LineOK(m)'
  <2>1. Labels(scene)' = Labels(scene)
    BY DEF Labels
  <2>2. ASSUME NEW t, IsGoal(t) PROVE IsGoal(t)'
    BY <2>1, <2>2 DEF IsGoal
  <2>3. ASSUME Single(m) PROVE Single(m)'
    BY <2>2, <2>3 DEF Single
  <2> QED BY <1>2, <2>1, <2>3 DEF LineOK
<1> QED BY <1>1, <1>2 DEF Chatter

\* The world after a step that makes it w.
LEMMA BecomeOK ==
  ASSUME NEW w, WorldOK(w), Become(w), scene' = scene, now \in Nat, now' \in Nat, now <= now'
  PROVE  WorldOK(World)'
<1>1. /\ online' = w.online /\ flags' = w.flags /\ view' = w.view /\ wire' = w.wire
      /\ sent' = w.sent /\ lost' = w.lost /\ flud' = w.flud /\ heard' = w.heard
      /\ drone' = w.drone
  BY DEF Become
<1>2. IsWorld(World)'
  BY DEF IsWorld, World, Fields
<1>3. NetOK(World)'
  <2>1. Labels(scene)' = Labels(scene)
    BY DEF Labels
  <2>2. wire' = [l \in scene.links |-> wire'[l]] /\ \A l \in scene.links : Chatter(wire'[l])
    BY <1>1 DEF WorldOK, NetOK
  <2>3. \A l \in scene.links : Chatter(wire[l])'
    BY <2>2, LaterChatter
  <2>4. sent' \in SUBSET Labels(scene) /\ lost' \in SUBSET Labels(scene)
    BY <1>1 DEF WorldOK, NetOK
  <2> QED BY <2>1, <2>2, <2>3, <2>4 DEF NetOK, World
<1>4. PeopleOK(World)'
  BY <1>1 DEF WorldOK, PeopleOK, World
<1>5. FloodOK(World)'
  <2>1. /\ heard' \in [Server -> [Aim -> Seq(Note)]]
        /\ flud' = [s \in Server |-> flud'[s]]
    BY <1>1 DEF WorldOK, FloodOK
  <2>2. ASSUME NEW s \in Server
        PROVE  FludOK(flud[s], heard[s])' /\ Within(flud[s], online[s], Near(World, s))'
    <3>1. FludOK(flud'[s], heard'[s]) /\ Within(flud'[s], online'[s], Near(w, s))
      BY <1>1 DEF WorldOK, FloodOK
    <3>2. FludOK(flud[s], heard[s])'
      BY <3>1, LaterFlud
    <3>3. Near(World, s)' = Near(w, s)
      <4>1. \A u : Local(s, u)' <=> Local(s, u)
        BY DEF Local
      <4>2. \A c : Exists(World, s, c)' <=> Exists(w, s, c)
        BY <1>1 DEF Exists, Members, World
      <4> QED BY <1>1, <4>1, <4>2 DEF Near, World
    <3>4. Within(flud[s], online[s], Near(World, s))'
      BY <3>1, <3>3 DEF Within
    <3> QED BY <3>2, <3>4
  <2> QED BY <2>1, <2>2 DEF FloodOK, World
<1> QED BY <1>2, <1>3, <1>4, <1>5 DEF WorldOK

Inv ==
  /\ Setting
  /\ left = [say |-> left.say, events |-> left.events, ticks |-> left.ticks]
  /\ left.say \subseteq DOMAIN scene.say
  /\ left.events \subseteq scene.events
  /\ WorldOK(World)

\* A block begins only with a flood, in one step.
Floods ==
  \A s \in Server, t \in User \cup Chan :
    ~Blocking(flud[s], t, now) /\ Blocking(flud'[s], t, now')
      => Cardinality({i \in DOMAIN heard'[s][t] : heard'[s][t][i].at >= now - FLUDTIME}) > FLUDNUM

\* Before a step nothing has changed.
LEMMA GoodNow ==
  ASSUME Inv
  PROVE  Good(World)
<1>1. World.flud = flud
  BY DEF World
<1>2. Just(World)
  BY <1>1 DEF Just
<1> QED BY <1>2 DEF Good, Inv

LEMMA GoodStep ==
  ASSUME Inv, NEW w, Good(w), Become(w), scene' = scene, now' = now,
         left' = [say |-> left'.say, events |-> left'.events, ticks |-> left'.ticks],
         left'.say \subseteq left.say, left'.events \subseteq left.events
  PROVE  Inv' /\ Floods
<1>1. now \in Nat /\ now' \in Nat /\ now <= now'
  BY DEF Inv, Setting
<1>2. WorldOK(World)'
  BY <1>1, BecomeOK DEF Good
<1>3. Inv'
  BY <1>1, <1>2 DEF Inv, Setting
<1>4. flud' = w.flud /\ heard' = w.heard
  BY DEF Become
<1>5. Floods
  <2> SUFFICES ASSUME NEW s \in Server, NEW t \in User \cup Chan,
                      ~Blocking(flud[s], t, now), Blocking(flud'[s], t, now')
               PROVE  Cardinality({i \in DOMAIN heard'[s][t] :
                                     heard'[s][t][i].at >= now - FLUDTIME}) > FLUDNUM
    BY DEF Floods
  <2>1. t \in Aim
    BY DEF Aim
  <2>2. Cardinality(Since(w.heard[s][t], now - FLUDTIME)) > FLUDNUM
    BY <1>4, <2>1 DEF Good, Just
  <2> QED BY <1>4, <2>2 DEF Since
<1> QED BY <1>3, <1>5

\* A line is read.
LEMMA ReadStep ==
  ASSUME Inv, NEW s \in Server, NEW t \in Server, read_packet(t, s)
  PROVE  Inv' /\ Floods
<1> DEFINE l == <<t, s>>
           v == [World EXCEPT !.wire[l] = Tail(@)]
           m == Head(wire[l])
<1>1. /\ l \in scene.links /\ wire[l] # <<>> /\ scene' = scene /\ left' = left /\ now' = now
      /\ Become(Handle(v, s, t, m))
  BY DEF read_packet
<1>2. Setting /\ Good(World)
  BY GoodNow DEF Inv
<1> HIDE DEF l
<1>3. DOMAIN wire = scene.links /\ Chatter(wire[l])
  BY <1>1, <1>2 DEF Good, WorldOK, NetOK, World
<1>4. LineOK(m) /\ Chatter(Tail(wire[l]))
  <2>1. PICK X : wire[l] \in Seq(X) /\ \A k \in X : LineOK(k)
    BY <1>3 DEF Chatter
  <2>2. Head(wire[l]) \in X /\ Tail(wire[l]) \in Seq(X)
    BY <1>1, <2>1
  <2> QED BY <2>1, <2>2 DEF Chatter
<1>5. Good(v)
  <2> DEFINE q == Tail(wire[l])
  <2>1. World.wire = wire
    BY DEF World
  <2>2. /\ v.wire = [wire EXCEPT ![l] = q] /\ v.sent = World.sent /\ v.lost = World.lost
    BY <1>2, <2>1 DEF Good, WorldOK, IsWorld, Fields
  <2>3. Calm(World, v)
    BY <1>2 DEF Good, WorldOK, IsWorld, Fields, Calm
  <2> HIDE DEF v, q
  <2>4. v.wire = [k \in scene.links |-> IF k = l THEN q ELSE wire[k]]
    BY <1>3, <2>2
  <2>5. \A k \in scene.links : Chatter(v.wire[k])
    BY <1>2, <1>4, <2>1, <2>4 DEF Good, WorldOK, NetOK, q
  <2>6. NetOK(v)
    BY <1>2, <2>2, <2>4, <2>5 DEF Good, WorldOK, NetOK
  <2> QED BY <1>2, <2>3, <2>6, CalmOK
<1> HIDE DEF v, m
<1>6. Good(Handle(v, s, t, m))
  BY <1>2, <1>4, <1>5, HandleOK
<1>7. left' = [say |-> left'.say, events |-> left'.events, ticks |-> left'.ticks]
  BY <1>1 DEF Inv
<1> QED BY <1>1, <1>6, <1>7, GoodStep

\* What a command of the scene makes of the world is fine.
LEMMA GivenOK ==
  ASSUME Inv, NEW i \in DOMAIN scene.say,
         scene.say[i].by \in online[scene.home[scene.say[i].by]]
  PROVE  Good(Given(i))
<1> DEFINE c == scene.say[i]
           s == scene.home[c.by]
           labelled == [k \in DOMAIN c.to |-> [k |-> c.to[k].k, x |-> c.to[k].x, lab |-> <<i, k>>]]
           m == [cmd |-> "MSG", by |-> Nick(c.by), to |-> labelled,
                 notice |-> c.notice, ctcp |-> c.ctcp]
           n == [cmd |-> "KNOCK", by |-> Nick(c.by), c |-> c.to[1].x, lab |-> <<i, 1>>]
           o == [cmd |-> "TIME", by |-> Nick(c.by), x |-> c.to[1].x, lab |-> <<i, 1>>]
<1>1. Setting /\ Good(World)
  BY GoodNow DEF Inv
<1>2. IsCommand(c) /\ scene.home \in [User -> Server]
  BY <1>1, SceneOK
<1>3. /\ c.by \in User /\ c.cmd \in {"MSG", "KNOCK", "TIME"}
      /\ Len(c.to) \in Nat /\ DOMAIN c.to = 1 .. Len(c.to)
      /\ c.cmd = "MSG" => \A k \in DOMAIN c.to : IsTarget(c.to[k])
      /\ c.cmd # "MSG" => Len(c.to) = 1
      /\ c.cmd = "KNOCK" => c.to[1].x \in Chan
  BY <1>2 DEF IsCommand
<1>4. s \in Server /\ c.by \in World.online[s] /\ Local(s, c.by)
  BY <1>2, <1>3 DEF World, Local
<1>5. \A k \in DOMAIN c.to : <<i, k>> \in Labels(scene)
  <2>1. {<<i, k>> : k \in DOMAIN scene.say[i].to}
           \in {{<<j, k>> : k \in DOMAIN scene.say[j].to} : j \in DOMAIN scene.say}
    OBVIOUS
  <2>2. {<<i, k>> : k \in DOMAIN scene.say[i].to} \subseteq Labels(scene)
    BY <2>1 DEF Labels
  <2> QED BY <2>2
<1>6. Given(i) = CASE c.cmd = "MSG" -> m_message(World, s, c.by, m)
                   [] c.cmd = "KNOCK" -> m_knock(World, s, c.by, n)
                   [] c.cmd = "TIME" -> m_time(World, s, c.by, o)
  BY DEF Given
<1> DEFINE w == World
           u == c.by
<1>7. CASE c.cmd = "MSG"
  <2>1. IsMessage(m) /\ m.to = labelled
    <3> HIDE DEF labelled
    <3> QED BY DEF IsMessage
  <2>2. DOMAIN labelled = 1 .. Len(c.to)
    BY <1>3
  <2>3. ASSUME NEW k \in DOMAIN c.to PROVE IsGoal(labelled[k])
    <3> DEFINE g == [k |-> c.to[k].k, x |-> c.to[k].x, lab |-> <<i, k>>]
    <3>1. labelled[k] = g
      OBVIOUS
    <3>2. IsTarget(c.to[k]) /\ <<i, k>> \in Labels(scene)
      BY <1>3, <1>5, <1>7
    <3>3. g.k = c.to[k].k /\ g.x = c.to[k].x /\ g.lab = <<i, k>>
      OBVIOUS
    <3> HIDE DEF g
    <3> QED BY <3>1, <3>2, <3>3 DEF IsGoal, IsTarget
  <2>4. Len(labelled) = Len(c.to)
    <3> DEFINE q == labelled
               L == Len(c.to)
               X == {q[k] : k \in DOMAIN q}
    <3>1. L \in Nat /\ DOMAIN q = 1 .. L /\ q = [k \in 1 .. L |-> q[k]]
      BY <1>3
    <3> HIDE DEF q, L
    <3>2. q \in [1 .. L -> X]
      BY <3>1
    <3> HIDE DEF X
    <3>3. q \in Seq(X) /\ Len(q) = L
      BY <3>1, <3>2
    <3> QED BY <3>3 DEF q, L
  <2> HIDE DEF m, labelled, c, s
  <2>5. /\ Len(m.to) \in Nat /\ DOMAIN m.to = 1 .. Len(m.to)
        /\ \A k \in DOMAIN m.to : IsGoal(m.to[k])
    <3>1. \A k \in DOMAIN labelled : IsGoal(labelled[k])
      BY <1>3, <2>2, <2>3
    <3> QED BY <1>3, <2>1, <2>2, <2>4, <3>1
  <2> HIDE DEF w
  <2>6. Good(m_message(w, s, u, m))
    BY <1>1, <1>3, <1>4, <2>1, <2>5, MessageOK DEF w
  <2> QED BY <1>6, <1>7, <2>6 DEF w
<1>8. CASE c.cmd = "KNOCK"
  <2>1. n.cmd = "KNOCK" /\ n.c \in Chan /\ n.lab \in Labels(scene)
    BY <1>3, <1>5, <1>8
  <2> HIDE DEF n, c, s
  <2>2. Good(m_knock(World, s, u, n))
    BY <1>1, <2>1, KnockOK
  <2> QED BY <1>6, <1>8, <2>2
<1>9. CASE c.cmd = "TIME"
  <2>1. o.cmd = "TIME" /\ o.lab \in Labels(scene)
    <3>1. 1 \in DOMAIN c.to
      <4> HIDE DEF c, s, n, o, m, labelled
      <4>1. Len(c.to) = 1 /\ DOMAIN c.to = 1 .. Len(c.to)
        BY <1>3, <1>9
      <4> QED BY <4>1
    <3>2. <<i, 1>> \in Labels(scene)
      BY <1>5, <3>1
    <3>3. o.cmd = "TIME" /\ o.lab = <<i, 1>>
      OBVIOUS
    <3> QED BY <3>2, <3>3
  <2> HIDE DEF o, c, s
  <2>2. Good(m_time(World, s, u, o))
    BY <1>1, <1>4, <2>1, TimeOK
  <2> QED BY <1>6, <1>9, <2>2
<1> QED BY <1>3, <1>7, <1>8, <1>9

LEMMA CommandStep ==
  ASSUME Inv, NEW i \in left.say, Command(i)
  PROVE  Inv' /\ Floods
<1>1. /\ scene.say[i].by \in online[scene.home[scene.say[i].by]]
      /\ Become(Given(i)) /\ scene' = scene /\ now' = now
      /\ left' = [left EXCEPT !.say = @ \ {i}]
  BY DEF Command
<1>2. i \in DOMAIN scene.say
  BY DEF Inv
<1>3. Good(Given(i))
  BY <1>1, <1>2, GivenOK
<1>4. left' = [say |-> left.say \ {i}, events |-> left.events, ticks |-> left.ticks]
  BY <1>1 DEF Inv
<1>5. /\ left' = [say |-> left'.say, events |-> left'.events, ticks |-> left'.ticks]
      /\ left'.say \subseteq left.say /\ left'.events \subseteq left.events
  BY <1>4
<1> QED BY <1>1, <1>3, <1>5, GoodStep

LEMMA EventStep ==
  ASSUME Inv, NEW m \in left.events, Event(m)
  PROVE  Inv' /\ Floods
<1> DEFINE s == scene.home[Actor(m)]
<1>1. /\ Become(Everywhere(World, s, {}, m)) /\ scene' = scene /\ now' = now
      /\ left' = [left EXCEPT !.events = @ \ {m}]
  BY DEF Event
<1>2. Setting /\ Good(World) /\ left.events \subseteq scene.events
  BY GoodNow DEF Inv
<1>3. m \in News /\ scene.home \in [User -> Server]
  BY <1>2, SceneOK
<1>4. Actor(m) \in User
  BY <1>3, NewsParts DEF Actor
<1>5. s \in Server
  BY <1>3, <1>4
<1> HIDE DEF s
<1>6. Good(Everywhere(World, s, {}, m))
  BY <1>2, <1>3, <1>5, EverywhereOK
<1>7. left' = [say |-> left.say, events |-> left.events \ {m}, ticks |-> left.ticks]
  BY <1>1 DEF Inv
<1>8. /\ left' = [say |-> left'.say, events |-> left'.events, ticks |-> left'.ticks]
      /\ left'.say \subseteq left.say /\ left'.events \subseteq left.events
  BY <1>7
<1> QED BY <1>1, <1>6, <1>8, GoodStep

\* A second passes: what blocks then blocked before.
LEMMA TickStep ==
  ASSUME Inv, Tick
  PROVE  Inv' /\ Floods
<1>1. /\ now' = now + 1 /\ scene' = scene /\ left' = [left EXCEPT !.ticks = @ - 1]
      /\ flud' = flud /\ Become(World)
  BY DEF Tick, Become, World
<1>2. now \in Nat /\ now' \in Nat /\ now <= now' /\ now >= FLUDBLOCK /\ FLUDBLOCK \in Nat
  BY <1>1, FludAssumption DEF Inv, Setting
<1>3. WorldOK(World)'
  BY <1>1, <1>2, BecomeOK DEF Inv
<1>4. left' = [say |-> left.say, events |-> left.events, ticks |-> left.ticks - 1]
  BY <1>1 DEF Inv
<1>5. /\ left' = [say |-> left'.say, events |-> left'.events, ticks |-> left'.ticks]
      /\ left'.say = left.say /\ left'.events = left.events
  BY <1>4
<1>6. Inv'
  BY <1>1, <1>2, <1>3, <1>5 DEF Inv, Setting
<1>7. ASSUME NEW s \in Server, NEW t \in Aim, Blocking(flud'[s], t, now')
      PROVE  Blocking(flud[s], t, now)
  <2>1. flud[s].block[t] \in Nat
    <3>1. FludOK(World.flud[s], World.heard[s]) /\ World.flud = flud
      BY DEF Inv, WorldOK, FloodOK, World
    <3> QED BY <3>1 DEF FludOK
  <2> QED BY <1>1, <1>2, <1>7, <2>1 DEF Blocking
<1> QED BY <1>6, <1>7 DEF Floods, Aim

LEMMA QueueStep ==
  ASSUME Inv, NEW u \in User, NEW level \in {"low", "middle", "high"}, Queue(u, level)
  PROVE  Inv' /\ Floods
<1> DEFINE v == [World EXCEPT !.drone = [drone EXCEPT ![u].queue = level]]
<1>1. Good(World) /\ World.drone = drone
  BY GoodNow DEF World
<1>2. drone \in [User -> Counter]
  BY <1>1 DEF Good, WorldOK, PeopleOK
<1>3. [drone[u] EXCEPT !.queue = level] \in Counter
  BY <1>2 DEF Counter
<1>4. [drone EXCEPT ![u].queue = level] \in [User -> Counter]
  BY <1>2, <1>3
<1> DEFINE D == [drone EXCEPT ![u].queue = level]
<1> HIDE DEF D
<1>5. /\ IsWorld(v) /\ v.online = World.online /\ v.flags = World.flags /\ v.view = World.view
      /\ v.flud = World.flud /\ v.heard = World.heard /\ v.wire = World.wire
      /\ v.sent = World.sent /\ v.lost = World.lost /\ v.drone = D
  BY <1>1 DEF Good, WorldOK, IsWorld, Fields, D
<1>6. Become(v)
  BY DEF Queue, Become, World
<1> HIDE DEF v
<1>7. PeopleOK(v) /\ NetOK(v)
  BY <1>1, <1>4, <1>5 DEF Good, WorldOK, PeopleOK, NetOK, D
<1>8. \A s : Near(v, s) = Near(World, s)
  BY <1>5 DEF Near, Exists, Members
<1>9. FloodOK(v) /\ Just(v)
  BY <1>1, <1>5, <1>8 DEF Good, WorldOK, FloodOK, Just
<1>10. Good(v)
  BY <1>5, <1>7, <1>9 DEF Good, WorldOK
<1>11. scene' = scene /\ now' = now /\ left' = left
  BY DEF Queue
<1>12. left' = [say |-> left'.say, events |-> left'.events, ticks |-> left'.ticks]
  BY <1>11 DEF Inv
<1> QED BY <1>6, <1>10, <1>11, <1>12, GoodStep

LEMMA StutterStep ==
  ASSUME Inv, UNCHANGED vars
  PROVE  Inv' /\ Floods
<1>1. Good(World) /\ Become(World) /\ scene' = scene /\ now' = now /\ left' = left
  BY GoodNow DEF vars, Become, World
<1>2. left' = [say |-> left'.say, events |-> left'.events, ticks |-> left'.ticks]
  BY <1>1 DEF Inv
<1> QED BY <1>1, <1>2, GoodStep

LEMMA NextStep ==
  ASSUME Inv, [Next]_vars
  PROVE  Inv' /\ Floods
<1>1. CASE UNCHANGED vars
  BY <1>1, StutterStep
<1>2. CASE \E s, t \in Server : read_packet(t, s)
  BY <1>2, ReadStep
<1>3. CASE \E i \in left.say : Command(i)
  BY <1>3, CommandStep
<1>4. CASE \E m \in left.events : Event(m)
  BY <1>4, EventStep
<1>5. CASE Tick
  BY <1>5, TickStep
<1>6. CASE \E u \in User, level \in {"low", "middle", "high"} : Queue(u, level)
  BY <1>6, QueueStep
<1> QED BY <1>1, <1>2, <1>3, <1>4, <1>5, <1>6 DEF Next

-----------------------------------------------------------------------------
(* The results                                                             *)

\* At the start the lists are empty and nothing is on a link.
LEMMA InitInv ==
  ASSUME Init
  PROVE  Inv
<1>1. Setting
  <2>1. Start \in Nat /\ Start >= FLUDBLOCK
    BY FludAssumption, SceneAssumption DEF Start
  <2> HIDE DEF Start
  <2> QED BY <2>1 DEF Init, Setting
<1>2. IsWorld(World)
  BY DEF IsWorld, World, Fields
<1>3. /\ World.online = online /\ World.flags = flags /\ World.view = view
      /\ World.wire = wire /\ World.sent = sent /\ World.lost = lost
      /\ World.flud = flud /\ World.heard = heard /\ World.drone = drone
  BY DEF World
<1>4. NetOK(World)
  <2>1. wire = [l \in scene.links |-> <<>>] /\ sent = {} /\ lost = {}
    BY DEF Init
  <2>2. Chatter(<<>>)
    <3> DEFINE N == {}
               e == <<>>
    <3>1. e \in Seq(N) /\ \A m \in N : LineOK(m)
      OBVIOUS
    <3> HIDE DEF N, e
    <3>2. Chatter(e)
      BY <3>1 DEF Chatter
    <3> QED BY <3>2 DEF e
  <2> QED BY <1>3, <2>1, <2>2 DEF NetOK
<1>5. PeopleOK(World)
  <2>1. scene.start \in SUBSET User /\ scene.flags \in [Chan -> [User -> SUBSET Rights]]
    BY <1>1, SceneOK
  <2>2. online \in [Server -> SUBSET User]
    <3>1. online = [s \in Server |-> scene.start]
      BY DEF Init
    <3> QED BY <2>1, <3>1
  <2>3. flags \in [Server -> [Chan -> [User -> SUBSET Rights]]]
    <3>1. flags = [s \in Server |-> scene.flags]
      BY DEF Init
    <3> QED BY <2>1, <3>1
  <2>4. view \in [User -> [Chan -> SUBSET User]]
    <3>1. view = [u \in User |-> [c \in Chan |->
               IF scene.flags[c][u] = {} THEN {} ELSE {v \in User : scene.flags[c][v] # {}}]]
      BY DEF Init
    <3>2. \A u \in User, c \in Chan :
            (IF scene.flags[c][u] = {} THEN {} ELSE {v \in User : scene.flags[c][v] # {}})
               \in SUBSET User
      OBVIOUS
    <3> QED BY <3>1, <3>2
  <2>5. drone \in [User -> Counter]
    <3> DEFINE d == [first |-> 0, n |-> 0, noticed |-> 0, queue |-> "low"]
    <3>1. DRONECOUNT \in Nat
      BY SceneAssumption
    <3>2. d \in Counter
      BY <3>1 DEF Counter
    <3>3. drone = [u \in User |-> d]
      BY DEF Init
    <3> HIDE DEF d
    <3> QED BY <3>2, <3>3
  <2> QED BY <1>3, <2>2, <2>3, <2>4, <2>5 DEF PeopleOK
<1>6. FloodOK(World)
  <2> DEFINE e == <<>>
             f == NoFlud(Aim, User)
             h == [t \in Aim |-> e]
  <2>1. flud = [s \in Server |-> f] /\ heard = [s \in Server |-> h]
    BY DEF Init, Aim
  <2>2. e \in Seq(Note) /\ e \in Seq(Entry) /\ e \in Seq(Aim) /\ DOMAIN e = {} /\ Range(e) = {}
    BY DEF Range
  <2>3. now \in Nat
    BY <1>1 DEF Setting
  <2>4. /\ f = [fluders |-> [t \in Aim |-> e], fludees |-> [u \in User |-> e],
                block |-> [t \in Aim |-> 0]]
    BY DEF NoFlud
  <2> HIDE DEF e, f
  <2>5. EntriesOK(e, e) /\ Once(e) /\ \A u : ~Listed(e, u)
    BY <2>2 DEF EntriesOK, Once, Listed
  <2>6. /\ f.fluders = [t \in Aim |-> e] /\ f.fludees = [u \in User |-> e]
        /\ f.block = [t \in Aim |-> 0]
    BY <2>4
  <2>7. f = [fluders |-> f.fluders, fludees |-> f.fludees, block |-> f.block]
    BY <2>4, <2>6
  <2>8. h \in [Aim -> Seq(Note)] /\ \A t \in Aim : h[t] = e
    BY <2>2
  <2> HIDE DEF h
  <2>9. FludOK(f, h)
    BY <2>2, <2>3, <2>5, <2>6, <2>7, <2>8 DEF FludOK
  <2>10. \A A, B : Within(f, A, B)
    BY <2>6 DEF Within, e
  <2> QED BY <1>3, <2>1, <2>8, <2>9, <2>10 DEF FloodOK
<1>7. /\ left = [say |-> left.say, events |-> left.events, ticks |-> left.ticks]
      /\ left.say \subseteq DOMAIN scene.say /\ left.events \subseteq scene.events
  BY DEF Init
<1> QED BY <1>1, <1>2, <1>4, <1>5, <1>6, <1>7 DEF Inv, WorldOK

\* What the invariant says of the lists.
LEMMA InvLists ==
  ASSUME Inv
  PROVE  ListsSound
<1>1. /\ World.online = online /\ World.flags = flags /\ World.view = view
      /\ World.sent = sent /\ World.lost = lost
      /\ World.flud = flud /\ World.heard = heard /\ World.drone = drone
  BY DEF World
<1>2. NetOK(World) /\ PeopleOK(World) /\ FloodOK(World) /\ Setting
  BY DEF Inv, WorldOK
<1>3. TypeOK
  <2>1. \A u \in User : drone[u].noticed \in 0..2 /\ drone[u].n \in 0..(DRONECOUNT + 1)
    BY <1>1, <1>2 DEF PeopleOK, Counter
  <2> QED BY <1>1, <1>2, <2>1 DEF TypeOK, NetOK, PeopleOK, Setting, Rights
<1>4. ASSUME NEW s \in Server
      PROVE  LET f == flud[s] IN
             /\ Crossed(f)
             /\ \A u \in User : /\ f.fludees[u] # <<>> => u \in online[s]
                                /\ f.fluders[u] # <<>> => u \in online[s] /\ Local(s, u)
             /\ \A c \in Chan : f.fluders[c] # <<>> => Exists(World, s, c)
  <2> DEFINE f == flud[s]
             h == heard[s]
  <2>1. FludOK(f, h) /\ Within(f, online[s], Near(World, s))
    BY <1>1, <1>2 DEF FloodOK
  <2> HIDE DEF f, h
  <2>2. DOMAIN f.fluders = Aim /\ DOMAIN f.fludees = User
    BY <2>1 DEF FludOK
  <2>3. \A t \in Aim, u \in User : About(f, t, {u}) # {} <=> t \in Range(f.fludees[u])
    BY <2>1, AboutIs DEF FludOK
  <2>4. \A t \in Aim : \A i, j \in DOMAIN f.fluders[t] :
          f.fluders[t][i].fluder = f.fluders[t][j].fluder => i = j
    BY <2>1 DEF FludOK, EntriesOK
  <2>5. \A u \in User : IsInjective(f.fludees[u])
    BY <2>1 DEF FludOK, Once, IsInjective
  <2>6. Crossed(f)
    BY <2>2, <2>3, <2>4, <2>5 DEF Crossed
  <2>7. \A u \in User : f.fludees[u] # <<>> => u \in online[s]
    BY <2>1 DEF Within
  <2>8. \A t \in Aim : f.fluders[t] # <<>> => t \in Near(World, s)
    BY <2>1 DEF Within
  <2>9. \A u \in User : u \notin Chan
    BY UserAssumption
  <2>10. \A u \in User : f.fluders[u] # <<>> => u \in online[s] /\ Local(s, u)
    BY <1>1, <2>8, <2>9 DEF Near, Aim
  <2>11. \A c \in Chan : f.fluders[c] # <<>> => Exists(World, s, c)
    <3>1. online[s] \subseteq User
      BY <1>1, <1>2 DEF PeopleOK
    <3> QED BY <1>1, <2>8, <2>9, <3>1 DEF Near, Aim
  <2> QED BY <2>6, <2>7, <2>10, <2>11 DEF f
<1>5. FludListsRight
  BY <1>4 DEF FludListsRight
<1> QED BY <1>3, <1>5 DEF ListsSound

\* On every server of every tree, whoever sends, joins, leaves, goes and comes
\* back, and in whatever order the lines are read: the two sides of the flood
\* lists match, nobody is in one twice, and no list holds a client that has
\* gone, is kept for a client of another server or for a channel that is no
\* more (check_for_flud, free_fluders, free_fludees).
THEOREM ListsAlwaysSound == Spec => []ListsSound
<1>1. Init => Inv
  BY InitInv
<1>2. Inv /\ [Next]_vars => Inv'
  BY NextStep
<1>3. Inv => ListsSound
  BY InvLists
<1> QED BY <1>1, <1>2, <1>3, PTL DEF Spec

\* A target that did not block and now does was sent more than FLUDNUM CTCPs
\* in the last FLUDTIME seconds: the running count of check_for_flud, summed
\* over fluders whose entries are as old as they like, never exceeds what came.
THEOREM BlocksAreFloods == Spec => FludBlocksFloods
<1>1. Init => Inv
  BY InitInv
<1>2. Inv /\ [Next]_vars => Inv'
  BY NextStep
<1>3. Inv /\ [Next]_vars => [\A s \in Server, t \in User \cup Chan :
         ~Blocking(flud[s], t, now) /\ Blocking(flud'[s], t, now')
           => Cardinality({i \in DOMAIN heard'[s][t] : heard'[s][t][i].at >= now - FLUDTIME})
                > FLUDNUM]_vars
  BY NextStep DEF Floods
<1> QED BY <1>1, <1>2, <1>3, PTL DEF Spec, FludBlocksFloods
=============================================================================
