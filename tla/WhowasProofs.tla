----------------------------- MODULE WhowasProofs ----------------------------
(***************************************************************************)
(* Proofs that the nick history is right for any length of the ring, any   *)
(* number of nicks and clients and any hash function.                      *)
(*                                                                         *)
(* The chains are described by the order in which the slots were filled:   *)
(* Pos(w, i) counts the slots filled before i since w, the next one to be  *)
(* reused, was.  Taking an entry off a chain and putting the newest entry  *)
(* on one keep that description; when the ring moves on, every slot but    *)
(* the one just filled moves down by one, so that no order changes.        *)
(* What makes this inductive is that the slots fill up in order (Filled)   *)
(* and that a slot not yet used is blank (EntryOK).                        *)
(*                                                                         *)
(* The loops of off_history and get_history are recursive functions of the *)
(* number of rounds.  That there is such a function, and what holds after  *)
(* every round, follows from the fact that a set of numbers that is not    *)
(* empty has a least member (LeastNat): the first round at which it would  *)
(* fail.                                                                   *)
(***************************************************************************)
EXTENDS Whowas, FiniteSetTheorems, TLAPS

-----------------------------------------------------------------------------
(* The chains.                                                             *)

After(w) == IF w + 1 = Length THEN 0 ELSE w + 1

LEMMA PosType ==
    ASSUME NEW w \in Slot
    PROVE  /\ \A i \in Slot : Pos(w, i) \in 0 .. Length - 1
           /\ \A i \in Slot : Pos(w, i) \in Int
           /\ \A i, j \in Slot : Pos(w, i) = Pos(w, j) => i = j
           /\ \A i \in Slot : i # w => 0 < Pos(w, i)
           /\ Pos(w, w) = 0
  BY LengthAssumption DEF Pos, Slot

LEMMA PosAfter ==
    ASSUME NEW w \in Slot
    PROVE  /\ After(w) \in Slot
           /\ Pos(After(w), w) = Length - 1
           /\ \A i \in Slot : i # w => Pos(After(w), i) = Pos(w, i) - 1
  BY LengthAssumption DEF Pos, Slot, After

LEMMA NilNoSlot == Nil \notin Slot
  BY DEF Nil, Slot

\* What Linked says of one slot.
LEMMA LinkedSlot ==
    ASSUME NEW w, NEW l, NEW b, NEW own \in SUBSET Slot, Linked(w, l, b, own),
           NEW i \in own
    PROVE  /\ l.first[b] \in own
           /\ \A k \in own : Pos(w, k) <= Pos(w, l.first[b])
           /\ l.next[i] = Nil \/ l.next[i] \in own
           /\ l.next[i] = Nil => \A k \in own : ~(Pos(w, k) < Pos(w, i))
           /\ l.next[i] # Nil => /\ Pos(w, l.next[i]) < Pos(w, i)
                                 /\ \A k \in own : Pos(w, k) < Pos(w, i)
                                       => Pos(w, k) <= Pos(w, l.next[i])
           /\ l.prev[i] = Nil \/ l.prev[i] \in own
           /\ l.prev[i] = Nil => \A k \in own : ~(Pos(w, i) < Pos(w, k))
           /\ l.prev[i] # Nil => /\ Pos(w, i) < Pos(w, l.prev[i])
                                 /\ \A k \in own : Pos(w, i) < Pos(w, k)
                                       => Pos(w, l.prev[i]) <= Pos(w, k)
  BY NilNoSlot DEF Linked, IsNewest, IsOldest

LEMMA UnlinkFields ==
    ASSUME NEW B, NEW l \in Chains(B), NEW b \in B, NEW i \in Slot
    PROVE  LET m == Unlink(l, b, i)
               p == l.prev[i]
               n == l.next[i]
           IN /\ m \in Chains(B)
              /\ \A a \in B : m.first[a] = IF p = Nil /\ a = b THEN n
                                           ELSE l.first[a]
              /\ \A j \in Slot : m.next[j] = IF j = p THEN n ELSE l.next[j]
              /\ \A j \in Slot : m.prev[j] = IF j = n THEN p ELSE l.prev[j]
<1> DEFINE p == l.prev[i]
           n == l.next[i]
           f == IF p = Nil THEN [l.first EXCEPT ![b] = n] ELSE l.first
           x == IF p = Nil THEN l.next ELSE [l.next EXCEPT ![p] = n]
           y == IF n = Nil THEN l.prev ELSE [l.prev EXCEPT ![n] = p]
<1>1. /\ l.first \in [B -> Pointer] /\ l.next \in [Slot -> Pointer]
      /\ l.prev \in [Slot -> Pointer] /\ p \in Pointer /\ n \in Pointer
  BY DEF Chains
<1>2. Unlink(l, b, i) = [first |-> f, next |-> x, prev |-> y]
  BY DEF Unlink
<1>3. f \in [B -> Pointer] /\ x \in [Slot -> Pointer] /\ y \in [Slot -> Pointer]
  BY <1>1 DEF Pointer
<1>4. /\ \A a \in B : f[a] = IF p = Nil /\ a = b THEN n ELSE l.first[a]
      /\ \A j \in Slot : x[j] = IF j = p THEN n ELSE l.next[j]
      /\ \A j \in Slot : y[j] = IF j = n THEN p ELSE l.prev[j]
  BY <1>1, NilNoSlot DEF Pointer
<1> HIDE DEF f, x, y
<1>5. Unlink(l, b, i) \in Chains(B)
  BY <1>2, <1>3 DEF Chains
<1>6. Unlink(l, b, i).first = f /\ Unlink(l, b, i).next = x /\ Unlink(l, b, i).prev = y
  BY <1>2
<1> QED
  BY <1>4, <1>5, <1>6

\* An entry may leave from any place of its chain.
LEMMA UnlinkOK ==
    ASSUME NEW w \in Slot, NEW B, NEW l \in Chains(B), NEW b \in B,
           NEW own \in SUBSET Slot, Linked(w, l, b, own), NEW i \in own
    PROVE  Linked(w, Unlink(l, b, i), b, own \ {i})
<1> DEFINE p == l.prev[i]
           n == l.next[i]
           m == Unlink(l, b, i)
           rest == own \ {i}
<1>1. /\ m.first[b] = IF p = Nil THEN n ELSE l.first[b]
      /\ \A j \in Slot : m.next[j] = IF j = p THEN n ELSE l.next[j]
      /\ \A j \in Slot : m.prev[j] = IF j = n THEN p ELSE l.prev[j]
  BY UnlinkFields
<1> HIDE DEF m
<1>2. /\ \A j \in own : Pos(w, j) \in Int
      /\ \A j, k \in own : Pos(w, j) = Pos(w, k) => j = k
  BY PosType
<1>3. /\ l.first[b] \in own
      /\ \A k \in own : Pos(w, k) <= Pos(w, l.first[b])
      /\ n = Nil \/ n \in own
      /\ n = Nil => \A k \in own : ~(Pos(w, k) < Pos(w, i))
      /\ n # Nil => /\ Pos(w, n) < Pos(w, i)
                    /\ \A k \in own : Pos(w, k) < Pos(w, i) => Pos(w, k) <= Pos(w, n)
      /\ p = Nil \/ p \in own
      /\ p = Nil => \A k \in own : ~(Pos(w, i) < Pos(w, k))
      /\ p # Nil => /\ Pos(w, i) < Pos(w, p)
                    /\ \A k \in own : Pos(w, i) < Pos(w, k) => Pos(w, p) <= Pos(w, k)
  BY LinkedSlot
<1> HIDE DEF p, n
<1>4. IsNewest(w, m.first[b], rest)
  <2>1. CASE p = Nil
    <3>1. \A k \in rest : Pos(w, k) < Pos(w, i)
      BY <1>2, <1>3, <2>1
    <3> QED
      BY <1>1, <1>2, <1>3, <2>1, <3>1, NilNoSlot DEF IsNewest
  <2>2. CASE p # Nil
    BY <1>1, <1>2, <1>3, <2>2 DEF IsNewest
  <2> QED
    BY <2>1, <2>2
<1>5. ASSUME NEW j \in rest
      PROVE  IsNewest(w, m.next[j], {k \in rest : Pos(w, k) < Pos(w, j)})
  <2> DEFINE x == l.next[j]
  <2>1. /\ x = Nil \/ x \in own
        /\ x = Nil => \A k \in own : ~(Pos(w, k) < Pos(w, j))
        /\ x # Nil => /\ Pos(w, x) < Pos(w, j)
                      /\ \A k \in own : Pos(w, k) < Pos(w, j) => Pos(w, k) <= Pos(w, x)
    BY LinkedSlot
  <2>2. m.next[j] = IF j = p THEN n ELSE x
    BY <1>1
  <2> HIDE DEF x
  <2>3. CASE j = p
    <3>1. \A k \in rest : Pos(w, k) < Pos(w, j) => Pos(w, k) < Pos(w, i)
      BY <1>2, <1>3, <2>3, NilNoSlot
    <3> QED
      BY <1>2, <1>3, <2>2, <2>3, <3>1, NilNoSlot DEF IsNewest
  <2>4. CASE j # p
    <3>1. x # i
      BY <1>2, <1>3, <2>1, <2>4, NilNoSlot
    <3> QED
      BY <1>2, <2>1, <2>2, <2>4, <3>1, NilNoSlot DEF IsNewest
  <2> QED
    BY <2>3, <2>4
<1>6. ASSUME NEW j \in rest
      PROVE  IsOldest(w, m.prev[j], {k \in rest : Pos(w, j) < Pos(w, k)})
  <2> DEFINE y == l.prev[j]
  <2>1. /\ y = Nil \/ y \in own
        /\ y = Nil => \A k \in own : ~(Pos(w, j) < Pos(w, k))
        /\ y # Nil => /\ Pos(w, j) < Pos(w, y)
                      /\ \A k \in own : Pos(w, j) < Pos(w, k) => Pos(w, y) <= Pos(w, k)
    BY LinkedSlot
  <2>2. m.prev[j] = IF j = n THEN p ELSE y
    BY <1>1
  <2> HIDE DEF y
  <2>3. CASE j = n
    <3>1. \A k \in rest : Pos(w, j) < Pos(w, k) => Pos(w, i) < Pos(w, k)
      BY <1>2, <1>3, <2>3, NilNoSlot
    <3> QED
      BY <1>2, <1>3, <2>2, <2>3, <3>1, NilNoSlot DEF IsOldest
  <2>4. CASE j # n
    <3>1. y # i
      BY <1>2, <1>3, <2>1, <2>4, NilNoSlot
    <3> QED
      BY <1>2, <2>1, <2>2, <2>4, <3>1, NilNoSlot DEF IsOldest
  <2> QED
    BY <2>3, <2>4
<1> QED
  BY <1>4, <1>5, <1>6 DEF Linked, m

\* No other chain is touched.
LEMMA UnlinkOther ==
    ASSUME NEW w \in Slot, NEW B, NEW l \in Chains(B), NEW b \in B,
           NEW own \in SUBSET Slot, Linked(w, l, b, own), NEW i \in own,
           NEW a \in B, a # b, NEW other \in SUBSET Slot, other \cap own = {},
           Linked(w, l, a, other)
    PROVE  Linked(w, Unlink(l, b, i), a, other)
<1> DEFINE m == Unlink(l, b, i)
<1>1. l.prev[i] \notin other /\ l.next[i] \notin other
  BY LinkedSlot, NilNoSlot
<1>2. /\ m.first[a] = l.first[a]
      /\ \A j \in other : m.next[j] = l.next[j] /\ m.prev[j] = l.prev[j]
  BY <1>1, UnlinkFields
<1> HIDE DEF m
<1>3. Linked(w, m, a, other)
  BY <1>2 DEF Linked
<1> QED
  BY <1>3 DEF m

LEMMA LinkFields ==
    ASSUME NEW B, NEW l \in Chains(B), NEW b \in B, NEW i \in Slot,
           l.first[b] # i
    PROVE  LET m == LinkFirst(l, b, i)
               n == l.first[b]
           IN /\ m \in Chains(B)
              /\ \A a \in B : m.first[a] = IF a = b THEN i ELSE l.first[a]
              /\ \A j \in Slot : m.next[j] = IF j = i THEN n ELSE l.next[j]
              /\ \A j \in Slot : m.prev[j] = IF j = i THEN Nil
                                             ELSE IF j = n THEN i ELSE l.prev[j]
<1> DEFINE n == l.first[b]
           f == [l.first EXCEPT ![b] = i]
           x == [l.next EXCEPT ![i] = n]
           z == [l.prev EXCEPT ![i] = Nil]
           y == IF n = Nil THEN z ELSE [z EXCEPT ![n] = i]
<1>1. /\ l.first \in [B -> Pointer] /\ l.next \in [Slot -> Pointer]
      /\ l.prev \in [Slot -> Pointer] /\ n \in Pointer
  BY DEF Chains
<1>2. LinkFirst(l, b, i) = [first |-> f, next |-> x, prev |-> y]
  BY DEF LinkFirst
<1>3. f \in [B -> Pointer] /\ x \in [Slot -> Pointer] /\ y \in [Slot -> Pointer]
  BY <1>1 DEF Pointer
<1>4. /\ \A a \in B : f[a] = IF a = b THEN i ELSE l.first[a]
      /\ \A j \in Slot : x[j] = IF j = i THEN n ELSE l.next[j]
      /\ \A j \in Slot : y[j] = IF j = i THEN Nil ELSE IF j = n THEN i ELSE l.prev[j]
  BY <1>1, NilNoSlot DEF Pointer
<1> HIDE DEF f, x, y
<1>5. LinkFirst(l, b, i) \in Chains(B)
  BY <1>2, <1>3 DEF Chains
<1>6. /\ LinkFirst(l, b, i).first = f /\ LinkFirst(l, b, i).next = x
      /\ LinkFirst(l, b, i).prev = y
  BY <1>2
<1> QED
  BY <1>4, <1>5, <1>6

\* An entry newer than the others of a chain becomes its head.
LEMMA LinkOK ==
    ASSUME NEW w \in Slot, NEW B, NEW l \in Chains(B), NEW b \in B,
           NEW own \in SUBSET Slot, Linked(w, l, b, own), NEW i \in Slot,
           i \notin own, \A k \in own : Pos(w, k) < Pos(w, i)
    PROVE  Linked(w, LinkFirst(l, b, i), b, own \cup {i})
<1> DEFINE n == l.first[b]
           m == LinkFirst(l, b, i)
           all == own \cup {i}
<1>0. /\ own = {} => n = Nil
      /\ own # {} => n \in own /\ \A k \in own : Pos(w, k) <= Pos(w, n)
  BY DEF Linked, IsNewest
<1>1. /\ m.first[b] = i
      /\ \A j \in Slot : m.next[j] = IF j = i THEN n ELSE l.next[j]
      /\ \A j \in Slot : m.prev[j] = IF j = i THEN Nil
                                     ELSE IF j = n THEN i ELSE l.prev[j]
  BY <1>0, LinkFields, NilNoSlot
<1> HIDE DEF m
<1>2. /\ \A j \in all : Pos(w, j) \in Int
      /\ \A j, k \in all : Pos(w, j) = Pos(w, k) => j = k
  BY PosType
<1> HIDE DEF n
<1>3. IsNewest(w, m.first[b], all)
  BY <1>1, <1>2 DEF IsNewest
<1>4. ASSUME NEW j \in all
      PROVE  IsNewest(w, m.next[j], {k \in all : Pos(w, k) < Pos(w, j)})
  <2>1. CASE j = i
    <3>1. {k \in all : Pos(w, k) < Pos(w, j)} = own
      BY <1>2, <2>1
    <3> QED
      BY <1>0, <1>1, <2>1, <3>1 DEF IsNewest
  <2>2. CASE j # i
    <3>1. {k \in all : Pos(w, k) < Pos(w, j)} = {k \in own : Pos(w, k) < Pos(w, j)}
      BY <1>2, <2>2
    <3>2. IsNewest(w, l.next[j], {k \in own : Pos(w, k) < Pos(w, j)})
      BY <2>2 DEF Linked
    <3> QED
      BY <1>1, <2>2, <3>1, <3>2
  <2> QED
    BY <2>1, <2>2
<1>5. ASSUME NEW j \in all
      PROVE  IsOldest(w, m.prev[j], {k \in all : Pos(w, j) < Pos(w, k)})
  <2>1. CASE j = i
    <3>1. {k \in all : Pos(w, j) < Pos(w, k)} = {}
      BY <1>2, <2>1
    <3> QED
      BY <1>1, <2>1, <3>1 DEF IsOldest
  <2>2. CASE j = n /\ j # i
    <3>1. {k \in all : Pos(w, j) < Pos(w, k)} = {i}
      BY <1>0, <1>2, <2>2
    <3> QED
      BY <1>1, <1>2, <2>2, <3>1 DEF IsOldest
  <2>3. CASE j # n /\ j # i
    <3> DEFINE y == l.prev[j]
    <3>1. /\ y = Nil \/ y \in own
          /\ y = Nil => \A k \in own : ~(Pos(w, j) < Pos(w, k))
          /\ y # Nil => /\ Pos(w, j) < Pos(w, y)
                        /\ \A k \in own : Pos(w, j) < Pos(w, k) => Pos(w, y) <= Pos(w, k)
      BY <2>3, LinkedSlot
    <3>2. m.prev[j] = y
      BY <1>1, <2>3
    <3> HIDE DEF y
    <3>3. Pos(w, j) < Pos(w, n) /\ n \in own
      BY <1>0, <1>2, <2>3
    <3>4. y # Nil
      BY <3>1, <3>3
    <3> QED
      BY <1>2, <2>3, <3>1, <3>2, <3>3, <3>4 DEF IsOldest
  <2> QED
    BY <2>1, <2>2, <2>3
<1> QED
  BY <1>3, <1>4, <1>5 DEF Linked, m

LEMMA LinkOther ==
    ASSUME NEW w \in Slot, NEW B, NEW l \in Chains(B), NEW b \in B,
           NEW own \in SUBSET Slot, Linked(w, l, b, own), NEW i \in Slot, i \notin own,
           NEW a \in B, a # b, NEW other \in SUBSET Slot, other \cap own = {},
           i \notin other, Linked(w, l, a, other)
    PROVE  Linked(w, LinkFirst(l, b, i), a, other)
<1> DEFINE m == LinkFirst(l, b, i)
<1>1. l.first[b] \notin other /\ l.first[b] # i
  BY NilNoSlot DEF Linked, IsNewest
<1>2. /\ m.first[a] = l.first[a]
      /\ \A j \in other : m.next[j] = l.next[j] /\ m.prev[j] = l.prev[j]
  BY <1>1, LinkFields
<1> HIDE DEF m
<1>3. Linked(w, m, a, other)
  BY <1>2 DEF Linked
<1> QED
  BY <1>3 DEF m

\* The ring moves on: the order of the other slots stays.
LEMMA ShiftOK ==
    ASSUME NEW w \in Slot, NEW l, NEW b, NEW own \in SUBSET Slot, w \notin own,
           Linked(w, l, b, own)
    PROVE  Linked(After(w), l, b, own)
<1>1. \A i, j \in own : /\ Pos(After(w), i) <= Pos(After(w), j) <=> Pos(w, i) <= Pos(w, j)
                        /\ Pos(After(w), i) < Pos(After(w), j) <=> Pos(w, i) < Pos(w, j)
  BY PosType, PosAfter
<1>2. ASSUME NEW j, NEW S \in SUBSET own, IsNewest(w, j, S)
      PROVE  IsNewest(After(w), j, S)
  BY <1>1, <1>2 DEF IsNewest
<1>3. ASSUME NEW j, NEW S \in SUBSET own, IsOldest(w, j, S)
      PROVE  IsOldest(After(w), j, S)
  BY <1>1, <1>3 DEF IsOldest
<1>4. ASSUME NEW i \in own
      PROVE  /\ {j \in own : Pos(After(w), j) < Pos(After(w), i)} =
                   {j \in own : Pos(w, j) < Pos(w, i)}
             /\ {j \in own : Pos(After(w), i) < Pos(After(w), j)} =
                   {j \in own : Pos(w, i) < Pos(w, j)}
  BY <1>1
<1>5. IsNewest(After(w), l.first[b], own)
  BY <1>2 DEF Linked
<1>6. ASSUME NEW i \in own
      PROVE  /\ IsNewest(After(w), l.next[i],
                         {j \in own : Pos(After(w), j) < Pos(After(w), i)})
             /\ IsOldest(After(w), l.prev[i],
                         {j \in own : Pos(After(w), i) < Pos(After(w), j)})
  <2> DEFINE S == {j \in own : Pos(w, j) < Pos(w, i)}
             T == {j \in own : Pos(w, i) < Pos(w, j)}
  <2>1. IsNewest(w, l.next[i], S) /\ IsOldest(w, l.prev[i], T)
    BY DEF Linked
  <2>2. S \in SUBSET own /\ T \in SUBSET own
    OBVIOUS
  <2> HIDE DEF S, T
  <2>3. IsNewest(After(w), l.next[i], S) /\ IsOldest(After(w), l.prev[i], T)
    BY <1>2, <1>3, <2>1, <2>2
  <2> QED
    BY <1>4, <2>3 DEF S, T
<1> QED
  BY <1>5, <1>6 DEF Linked

-----------------------------------------------------------------------------
(* The loop of off_history.                                                *)

\* A set of numbers has a least one.
LEMMA LeastNat ==
    ASSUME NEW N \in SUBSET Nat, N # {}
    PROVE  \E n \in N : \A k \in N : n <= k
<1> DEFINE R == {p \in Nat \X Nat : p[1] < p[2]}
<1>1. IsWellFoundedOn(R, Nat)
  BY NatLessThanWellFounded DEF OpToRel
<1>2. \A j, k \in Nat : j < k => <<j, k>> \in R
  OBVIOUS
<1> HIDE DEF R
<1>3. N \subseteq Nat
  OBVIOUS
<1>4. PICK n \in N : \A k \in N : ~ (<<k, n>> \in R)
  BY <1>1, <1>3, WFMin, Zenon
<1>5. ASSUME NEW k \in N PROVE n <= k
  <2>1. n \in Nat /\ k \in Nat
    BY <1>3, <1>4
  <2>2. ~(k < n)
    BY <1>2, <1>4, <2>1
  <2> QED
    BY <2>1, <2>2
<1> QED
  BY <1>4, <1>5

\* The loop of off_history is well defined: each round has the one before.
LEMMA OffLoopDef ==
    ASSUME NEW w0, NEW l, NEW c, NEW f, f = OffHistoryLoop(w0, l, c)
    PROVE  /\ f[0] = [who |-> w0, clist |-> l, temp |-> l.first[c]]
           /\ \A n \in 1 .. Length :
                f[n] = IF f[n - 1].temp = Nil THEN f[n - 1] ELSE OffStep(f[n - 1], c)
<1> DEFINE s0 == [who |-> w0, clist |-> l, temp |-> l.first[c]]
           Body(g, n) == IF n = 0 THEN s0
                         ELSE IF g[n - 1].temp = Nil THEN g[n - 1]
                         ELSE OffStep(g[n - 1], c)
           Rounds(N) == \E g : g = [n \in 0 .. N |-> Body(g, n)]
           Bad == {N \in Nat : ~Rounds(N)}
<1>1. ASSUME Bad # {} PROVE FALSE
  <2>1. PICK m \in Bad : \A k \in Bad : m <= k
    <3>1. Bad \in SUBSET Nat
      OBVIOUS
    <3> HIDE DEF Bad
    <3> QED
      BY <1>1, <3>1, LeastNat
  <2>2. CASE m = 0
    <3> DEFINE g == [n \in 0 .. 0 |-> s0]
    <3>1. g = [n \in 0 .. 0 |-> Body(g, n)]
      OBVIOUS
    <3>2. Rounds(0)
      <4> HIDE DEF Body, g
      <4> QED
        BY <3>1
    <3> HIDE DEF Rounds
    <3> QED
      BY <2>1, <2>2, <3>2
  <2>3. CASE m # 0
    <3>1. m - 1 \in Nat /\ m - 1 \notin Bad
      <4>1. m \in Nat
        BY <2>1
      <4> HIDE DEF Bad
      <4> QED
        BY <2>1, <2>3, <4>1
    <3>2. PICK g : g = [n \in 0 .. m - 1 |-> Body(g, n)]
      BY <3>1
    <3> DEFINE h == [n \in 0 .. m |-> IF n < m THEN g[n] ELSE Body(g, m)]
    <3> HIDE DEF s0
    <3>3. ASSUME NEW n \in 0 .. m PROVE h[n] = Body(h, n)
      <4>1. CASE n = 0
        BY <2>1, <2>3, <3>2, <4>1
      <4>2. CASE n # 0
        <5>1. h[n - 1] = g[n - 1] /\ n - 1 \in 0 .. m - 1
          BY <2>1, <4>2
        <5>2. Body(h, n) = Body(g, n)
          BY <5>1, <4>2
        <5>3. h[n] = Body(g, n)
          <6>1. CASE n < m
            <7>1. n \in 0 .. m - 1 /\ h[n] = g[n]
              BY <2>1, <6>1
            <7> HIDE DEF Body, h
            <7> QED
              BY <3>2, <7>1
          <6>2. CASE n = m
            BY <6>2
          <6> QED
            BY <2>1, <6>1, <6>2
        <5> QED
          BY <5>2, <5>3
      <4> QED
        BY <4>1, <4>2
    <3>4. h = [n \in 0 .. m |-> Body(h, n)]
      <4> HIDE DEF Body
      <4> QED
        BY <3>3
    <3>5. Rounds(m)
      <4> HIDE DEF Body, h
      <4> QED
        BY <3>4
    <3> QED
      BY <2>1, <3>5
  <2> QED
    BY <2>2, <2>3
<1>2. Rounds(Length)
  BY <1>1, LengthAssumption
<1>3. f = CHOOSE g : g = [n \in 0 .. Length |-> Body(g, n)]
  BY DEF OffHistoryLoop
<1>4. f = [n \in 0 .. Length |-> Body(f, n)]
  <2> HIDE DEF Body
  <2> QED
    BY <1>2, <1>3
<1>5. \A n \in 0 .. Length : f[n] = Body(f, n)
  <2> HIDE DEF Body
  <2> QED
    BY <1>4
<1> QED
  BY <1>5, LengthAssumption

Owned(w0, c) == {i \in Slot : w0[i].online = c}

Offline(e) == [e EXCEPT !.online = None]

ClientsLinked(w, w0, l) == \A a \in Client : Linked(w, l, a, Owned(w0, a))

LEMMA OfflineFields ==
    ASSUME NEW e \in Entry
    PROVE  /\ Offline(e) \in Entry /\ Offline(e).online = None
           /\ Offline(e).hashv = e.hashv /\ Offline(e).name = e.name
           /\ Offline(e).logoff = e.logoff
  BY DEF Offline, Entry

\* One round of off_history takes the newest entry of c off its chain.
LEMMA OffStepOK ==
    ASSUME NEW w \in Slot, NEW w0 \in [Slot -> Entry], NEW l \in Chains(Client),
           NEW c \in Client, ClientsLinked(w, w0, l), NEW t, t = l.first[c],
           t # Nil, NEW s,
           s = OffStep([who |-> w0, clist |-> l, temp |-> t], c)
    PROVE  /\ t \in Owned(w0, c)
           /\ s.who = [w0 EXCEPT ![t] = Offline(w0[t])]
           /\ s.who \in [Slot -> Entry]
           /\ s.clist \in Chains(Client)
           /\ ClientsLinked(w, s.who, s.clist)
           /\ s.temp = s.clist.first[c]
           /\ s.temp # Nil => s.temp \in Slot /\ Pos(w, s.temp) < Pos(w, t)
<1> DEFINE own == Owned(w0, c)
           m == Unlink(l, c, t)
<1>1. Linked(w, l, c, own) /\ own \in SUBSET Slot
  BY DEF ClientsLinked, Owned
<1>2. t \in own
  BY <1>1 DEF Linked, IsNewest
<1>3. /\ s.who = [w0 EXCEPT ![t] = Offline(w0[t])]
      /\ s.clist = m /\ s.temp = l.next[t]
  BY DEF OffStep, Offline
<1>4. s.who \in [Slot -> Entry] /\ s.who[t].online = None
  <2>1. t \in Slot /\ w0[t] \in Entry
    BY <1>2 DEF Owned
  <2>2. Offline(w0[t]) \in Entry /\ Offline(w0[t]).online = None
    BY <2>1, OfflineFields
  <2> QED
    BY <1>3, <2>1, <2>2
<1>5. m \in Chains(Client) /\ m.first[c] = IF l.prev[t] = Nil THEN l.next[t] ELSE l.first[c]
  BY <1>1, <1>2, UnlinkFields
<1>6. /\ l.prev[t] = Nil
      /\ l.next[t] # Nil => l.next[t] \in Slot /\ Pos(w, l.next[t]) < Pos(w, t)
  <2> HIDE DEF own
  <2>1. \A k \in own : Pos(w, k) <= Pos(w, t) /\ Pos(w, k) \in Int
    BY <1>1, <1>2, LinkedSlot, PosType
  <2>2. /\ l.prev[t] = Nil \/ l.prev[t] \in own
        /\ l.prev[t] # Nil => Pos(w, t) < Pos(w, l.prev[t])
        /\ l.next[t] = Nil \/ l.next[t] \in own
        /\ l.next[t] # Nil => Pos(w, l.next[t]) < Pos(w, t)
    BY <1>1, <1>2, LinkedSlot
  <2> QED
    BY <1>1, <1>2, <2>1, <2>2
<1>7. Owned(s.who, c) = own \ {t}
  BY <1>2, <1>3, <1>4, NoneAssumption DEF Owned
<1>8. ASSUME NEW a \in Client, a # c PROVE Owned(s.who, a) = Owned(w0, a)
  BY <1>2, <1>3, <1>4, <1>8, NoneAssumption DEF Owned
<1>9. ASSUME NEW a \in Client PROVE Linked(w, m, a, Owned(s.who, a))
  <2>1. CASE a = c
    <3> HIDE DEF own
    <3>1. Linked(w, m, c, own \ {t})
      BY <1>1, <1>2, UnlinkOK
    <3> QED
      BY <1>7, <2>1, <3>1
  <2>2. CASE a # c
    <3> DEFINE other == Owned(w0, a)
    <3>1. /\ other \in SUBSET Slot /\ other \cap own = {}
          /\ Linked(w, l, a, other)
      BY <2>2 DEF Owned, ClientsLinked
    <3> HIDE DEF other, own
    <3>2. Linked(w, m, a, other)
      BY <1>1, <1>2, <2>2, <3>1, UnlinkOther
    <3> QED
      BY <1>8, <2>2, <3>2 DEF other
  <2> QED
    BY <2>1, <2>2
<1> QED
  BY <1>2, <1>3, <1>4, <1>5, <1>6, <1>9 DEF ClientsLinked

\* off_history: the entries of the client stay without it, its chain is empty
\* and the other chains are as they were.
LEMMA OffHistoryOK ==
    ASSUME NEW w \in Slot, NEW w0 \in [Slot -> Entry], NEW l \in Chains(Client),
           NEW c \in Client, ClientsLinked(w, w0, l),
           NEW s, s = OffHistory(w0, l, c)
    PROVE  /\ s.who = [i \in Slot |-> IF w0[i].online = c THEN Offline(w0[i])
                                      ELSE w0[i]]
           /\ s.who \in [Slot -> Entry]
           /\ s.clist \in Chains(Client)
           /\ ClientsLinked(w, s.who, s.clist)
           /\ Owned(s.who, c) = {}
<1> DEFINE f == OffHistoryLoop(w0, l, c)
           Round(n, r) ==
             /\ r = [who |-> r.who, clist |-> r.clist, temp |-> r.temp]
             /\ r.who \in [Slot -> Entry] /\ r.clist \in Chains(Client)
             /\ ClientsLinked(w, r.who, r.clist)
             /\ r.temp = r.clist.first[c]
             /\ r.temp # Nil => r.temp \in Slot /\ Pos(w, r.temp) < Length - n
             /\ \A i \in Slot : \/ r.who[i] = w0[i]
                                \/ w0[i].online = c /\ r.who[i] = Offline(w0[i])
           Bad == {n \in 0 .. Length : ~Round(n, f[n])}
<1>1. /\ f[0] = [who |-> w0, clist |-> l, temp |-> l.first[c]]
      /\ \A n \in 1 .. Length :
           f[n] = IF f[n - 1].temp = Nil THEN f[n - 1] ELSE OffStep(f[n - 1], c)
  BY OffLoopDef
<1>2. s = f[Length]
  BY DEF OffHistory
<1> HIDE DEF f
<1>3. Round(0, f[0])
  <2>1. l.first[c] # Nil => l.first[c] \in Slot
    BY DEF Chains, Pointer
  <2>2. l.first[c] # Nil => Pos(w, l.first[c]) < Length
    BY <2>1, PosType, LengthAssumption
  <2> QED
    BY <1>1, <2>1, <2>2, LengthAssumption
<1>4. ASSUME NEW n \in 1 .. Length, Round(n - 1, f[n - 1])
      PROVE  Round(n, f[n])
  <2> DEFINE r == f[n - 1]
             q == f[n]
  <2>1. CASE r.temp = Nil
    <3>1. q = r
      BY <1>1, <2>1
    <3> QED
      BY <1>4, <2>1, <3>1
  <2>2. CASE r.temp # Nil
    <3>1. q = OffStep(r, c)
      BY <1>1, <2>2
    <3>2. /\ r = [who |-> r.who, clist |-> r.clist, temp |-> r.temp]
          /\ r.who \in [Slot -> Entry] /\ r.clist \in Chains(Client)
          /\ ClientsLinked(w, r.who, r.clist)
          /\ r.temp = r.clist.first[c]
          /\ r.temp \in Slot /\ Pos(w, r.temp) < Length - (n - 1)
          /\ \A i \in Slot : \/ r.who[i] = w0[i]
                             \/ w0[i].online = c /\ r.who[i] = Offline(w0[i])
      BY <1>4, <2>2
    <3> HIDE DEF r, q
    <3>3. /\ r.temp \in Owned(r.who, c)
          /\ q.who = [r.who EXCEPT ![r.temp] = Offline(r.who[r.temp])]
          /\ q.who \in [Slot -> Entry]
          /\ q.clist \in Chains(Client)
          /\ ClientsLinked(w, q.who, q.clist)
          /\ q.temp = q.clist.first[c]
          /\ q.temp # Nil => q.temp \in Slot /\ Pos(w, q.temp) < Pos(w, r.temp)
      BY <2>2, <3>1, <3>2, OffStepOK
    <3>4. q = [who |-> q.who, clist |-> q.clist, temp |-> q.temp]
      BY <3>1 DEF OffStep
    <3>5. q.temp # Nil => q.temp \in Slot /\ Pos(w, q.temp) < Length - n
      BY <3>2, <3>3, PosType, LengthAssumption
    <3>6. ASSUME NEW i \in Slot
          PROVE  \/ q.who[i] = w0[i]
                 \/ w0[i].online = c /\ q.who[i] = Offline(w0[i])
      <4>1. CASE i = r.temp
        <5>1. r.who[i].online = c
          BY <3>3, <4>1 DEF Owned
        <5>2. r.who[i] = w0[i]
          BY <3>2, <5>1, OfflineFields, NoneAssumption
        <5> QED
          BY <3>2, <3>3, <4>1, <5>1, <5>2
      <4>2. CASE i # r.temp
        BY <3>2, <3>3, <4>2
      <4> QED
        BY <4>1, <4>2
    <3> QED
      BY <3>3, <3>4, <3>5, <3>6 DEF q
  <2> QED
    BY <2>1, <2>2
<1> HIDE DEF Round
<1>5. ASSUME Bad # {} PROVE FALSE
  <2>1. PICK m \in Bad : \A k \in Bad : m <= k
    <3>1. Bad \in SUBSET Nat
      BY LengthAssumption
    <3> HIDE DEF Bad
    <3> QED
      BY <1>5, <3>1, LeastNat
  <2>2. m \in 0 .. Length /\ ~Round(m, f[m])
    BY <2>1
  <2>3. m # 0
    BY <1>3, <2>2
  <2>4. m \in 1 .. Length /\ m - 1 \in 0 .. Length
    BY <2>2, <2>3, LengthAssumption
  <2>5. m - 1 \notin Bad
    <3> HIDE DEF Bad
    <3> QED
      BY <2>1, <2>4
  <2> QED
    BY <1>4, <2>2, <2>4, <2>5
<1>6. Round(Length, s)
  <2>1. Length \in 0 .. Length
    BY LengthAssumption
  <2> QED
    BY <1>2, <1>5, <2>1
<1>7. /\ s.who \in [Slot -> Entry] /\ s.clist \in Chains(Client)
      /\ ClientsLinked(w, s.who, s.clist) /\ s.temp = s.clist.first[c]
      /\ s.temp # Nil => s.temp \in Slot /\ Pos(w, s.temp) < Length - Length
      /\ \A i \in Slot : \/ s.who[i] = w0[i]
                         \/ w0[i].online = c /\ s.who[i] = Offline(w0[i])
  BY <1>6 DEF Round
<1>8. s.clist.first[c] = Nil
  BY <1>7, PosType, LengthAssumption
<1>9. Owned(s.who, c) = {}
  <2>1. Linked(w, s.clist, c, Owned(s.who, c)) /\ Owned(s.who, c) \subseteq Slot
    BY <1>7 DEF ClientsLinked, Owned
  <2> QED
    BY <1>8, <2>1, NilNoSlot DEF Linked, IsNewest
<1>10. ASSUME NEW i \in Slot
       PROVE  s.who[i] = IF w0[i].online = c THEN Offline(w0[i]) ELSE w0[i]
  BY <1>7, <1>9 DEF Owned
<1> QED
  BY <1>7, <1>9, <1>10

-----------------------------------------------------------------------------
(* The inductive invariant, and what add_history does to it.               *)

Keyed(w0, h) == {i \in Slot : w0[i].hashv = h}

HashLinked(w, w0, l) == \A h \in Bucket : Linked(w, l, h, Keyed(w0, h))

\* The entries in use are those up to the last one filled, or all.
Filled(w, w0) ==
    /\ \A i \in Slot : i < w => w0[i].hashv # -1
    /\ \A i \in Slot : w0[i].hashv # -1 => i < w \/ w0[w].hashv # -1
    /\ w0[w].hashv # -1 => \A i \in Slot : w0[i].hashv # -1

\* An entry in use has the hash value of its nick; one not in use is blank.
EntryOK(e) ==
    IF e.hashv = -1 THEN e.name = None /\ e.online = None
    ELSE e.name \in Nick /\ e.hashv = Hash[e.name]

NoStale == \A c \in Client : nickOf[c] = None => Owned(who, c) = {}

IInv ==
    /\ TypeOK
    /\ HashLinked(whowas_next, who, list)
    /\ ClientsLinked(whowas_next, who, clist)
    /\ NoStale
    /\ Filled(whowas_next, who)
    /\ \A i \in Slot : EntryOK(who[i])

LEMMA HashNoMinus == \A h \in Bucket : h # -1 /\ h \in Nat
  BY LengthAssumption DEF Bucket

LEMMA IInvMeans == IInv => ChainsSound
  BY DEF IInv, HashLinked, ClientsLinked, NoStale, Keyed, Owned, ChainsSound,
         HashChains, ClientChains

\* The entry to be reused leaves the chain of its nick.
LEMMA UnhookedListOK ==
    ASSUME IInv
    PROVE  /\ UnhookedList \in Chains(Bucket)
           /\ \A h \in Bucket :
                Linked(whowas_next, UnhookedList, h, Keyed(who, h) \ {whowas_next})
<1> DEFINE w == whowas_next
           b == who[w].hashv
<1>1. w \in Slot /\ list \in Chains(Bucket) /\ who[w] \in Entry
  BY DEF IInv, TypeOK
<1>2. ASSUME NEW h \in Bucket
      PROVE  Linked(w, list, h, Keyed(who, h)) /\ Keyed(who, h) \in SUBSET Slot
  BY DEF IInv, HashLinked, Keyed
<1>3. CASE b = -1
  <2>1. UnhookedList = list
    BY <1>3 DEF UnhookedList
  <2>2. ASSUME NEW h \in Bucket PROVE Keyed(who, h) \ {w} = Keyed(who, h)
    BY <1>3, HashNoMinus DEF Keyed
  <2> QED
    BY <1>1, <1>2, <2>1, <2>2
<1>4. CASE b # -1
  <2> DEFINE own == Keyed(who, b)
             l == Unlink(list, b, w)
  <2>1. UnhookedList = l
    BY <1>4 DEF UnhookedList
  <2>2. b \in Bucket
    BY <1>1, <1>4 DEF Entry
  <2>3. w \in own /\ own \in SUBSET Slot /\ Linked(w, list, b, own)
    BY <1>1, <1>2, <2>2 DEF Keyed
  <2>4. ASSUME NEW h \in Bucket, h # b
        PROVE  w \notin Keyed(who, h) /\ Keyed(who, h) \cap own = {}
    BY <2>4 DEF Keyed
  <2> HIDE DEF own, b, w
  <2>5. l \in Chains(Bucket) /\ Linked(w, l, b, own \ {w})
    BY <1>1, <2>2, <2>3, UnlinkFields, UnlinkOK
  <2>6. ASSUME NEW h \in Bucket, h # b PROVE Linked(w, l, h, Keyed(who, h) \ {w})
    <3> DEFINE other == Keyed(who, h)
    <3>1. /\ other \in SUBSET Slot /\ other \cap own = {} /\ w \notin other
          /\ Linked(w, list, h, other)
      BY <1>2, <2>4, <2>6
    <3> HIDE DEF other
    <3>2. Linked(w, l, h, other) /\ other \ {w} = other
      BY <1>1, <2>2, <2>3, <2>6, <3>1, UnlinkOther
    <3> QED
      BY <3>2 DEF other
  <2> QED
    BY <2>1, <2>5, <2>6 DEF own, w
<1> QED
  BY <1>3, <1>4

\* ... and the chain of its client.
LEMMA UnhookedClistOK ==
    ASSUME IInv
    PROVE  /\ UnhookedClist \in Chains(Client)
           /\ \A a \in Client :
                Linked(whowas_next, UnhookedClist, a, Owned(who, a) \ {whowas_next})
<1> DEFINE w == whowas_next
           b == who[w].online
<1>1. w \in Slot /\ clist \in Chains(Client) /\ who[w] \in Entry /\ EntryOK(who[w])
  BY DEF IInv, TypeOK
<1>2. ASSUME NEW a \in Client
      PROVE  Linked(w, clist, a, Owned(who, a)) /\ Owned(who, a) \in SUBSET Slot
  BY DEF IInv, ClientsLinked, Owned
<1>3. CASE who[w].hashv = -1 \/ b = None
  <2>1. UnhookedClist = clist
    BY <1>3 DEF UnhookedClist
  <2>2. b = None
    BY <1>1, <1>3 DEF EntryOK
  <2>3. ASSUME NEW a \in Client PROVE Owned(who, a) \ {w} = Owned(who, a)
    BY <2>2, NoneAssumption DEF Owned
  <2> QED
    BY <1>1, <1>2, <2>1, <2>3
<1>4. CASE who[w].hashv # -1 /\ b # None
  <2> DEFINE own == Owned(who, b)
             l == Unlink(clist, b, w)
  <2>1. UnhookedClist = l
    BY <1>4 DEF UnhookedClist
  <2>2. b \in Client
    BY <1>1, <1>4 DEF Entry
  <2>3. w \in own /\ own \in SUBSET Slot /\ Linked(w, clist, b, own)
    BY <1>1, <1>2, <2>2 DEF Owned
  <2>4. ASSUME NEW a \in Client, a # b
        PROVE  w \notin Owned(who, a) /\ Owned(who, a) \cap own = {}
    BY <2>4 DEF Owned
  <2> HIDE DEF own, b, w
  <2>5. l \in Chains(Client) /\ Linked(w, l, b, own \ {w})
    BY <1>1, <2>2, <2>3, UnlinkFields, UnlinkOK
  <2>6. ASSUME NEW a \in Client, a # b PROVE Linked(w, l, a, Owned(who, a) \ {w})
    <3> DEFINE other == Owned(who, a)
    <3>1. /\ other \in SUBSET Slot /\ other \cap own = {} /\ w \notin other
          /\ Linked(w, clist, a, other)
      BY <1>2, <2>4, <2>6
    <3> HIDE DEF other
    <3>2. Linked(w, l, a, other) /\ other \ {w} = other
      BY <1>1, <2>2, <2>3, <2>6, <3>1, UnlinkOther
    <3> QED
      BY <3>2 DEF other
  <2> QED
    BY <2>1, <2>5, <2>6 DEF own, w
<1> QED
  BY <1>3, <1>4

\* What add_history writes into the entry.
LEMMA AddedWhoFields ==
    ASSUME IInv, NEW c \in Client, nickOf[c] # None, NEW o \in Client \cup {None}
    PROVE  LET w0 == AddedWho(c, o) IN
           /\ nickOf[c] \in Nick /\ Hash[nickOf[c]] \in Bucket
           /\ w0 \in [Slot -> Entry]
           /\ \A i \in Slot : i # whowas_next => w0[i] = who[i]
           /\ w0[whowas_next] = [hashv |-> Hash[nickOf[c]], name |-> nickOf[c],
                                 logoff |-> now,
                                 online |-> o]
           /\ w0[whowas_next].hashv = Hash[nickOf[c]]
           /\ w0[whowas_next].name = nickOf[c]
           /\ w0[whowas_next].logoff = now
           /\ w0[whowas_next].online = o
           /\ \A i \in Slot : EntryOK(w0[i])
<1> DEFINE n == nickOf[c]
           w0 == AddedWho(c, o)
           e == [hashv |-> Hash[n], name |-> n, logoff |-> now, online |-> o]
<1>1. /\ whowas_next \in Slot /\ who \in [Slot -> Entry] /\ now \in 0 .. MaxTime
      /\ n \in Nick
  BY DEF IInv, TypeOK
<1>2. Hash[n] \in Bucket
  BY <1>1 DEF Bucket
<1>4. w0 = [who EXCEPT ![whowas_next] = e]
  BY DEF AddedWho
<1> HIDE DEF n
<1>5. e \in Entry
  BY <1>1, <1>2 DEF Entry
<1>6. EntryOK(e)
  BY <1>1, <1>2, HashNoMinus DEF EntryOK
<1>7. e.hashv = Hash[n] /\ e.name = n /\ e.logoff = now /\ e.online = o
  OBVIOUS
<1>8. w0[whowas_next] = e
  BY <1>1, <1>4
<1> HIDE DEF w0
<1>9. w0 \in [Slot -> Entry] /\ \A i \in Slot : i # whowas_next => w0[i] = who[i]
  <2> HIDE DEF e
  <2> QED
    BY <1>1, <1>4, <1>5
<1>10. \A i \in Slot : EntryOK(w0[i])
  <2> HIDE DEF e
  <2> QED
    BY <1>6, <1>8, <1>9 DEF IInv
<1> QED
  BY <1>1, <1>2, <1>7, <1>8, <1>9, <1>10 DEF n, w0

LEMMA AddedListOK ==
    ASSUME IInv, NEW c \in Client, nickOf[c] # None, NEW o \in Client \cup {None}
    PROVE  /\ AddedList(c) \in Chains(Bucket)
           /\ HashLinked(After(whowas_next), AddedWho(c, o), AddedList(c))
<1> DEFINE w == whowas_next
           l == UnhookedList
           b == Hash[nickOf[c]]
           w0 == AddedWho(c, o)
           m == LinkFirst(l, b, w)
<1>1. /\ w \in Slot /\ b \in Bucket
      /\ w0[w].hashv = b /\ \A i \in Slot : i # w => w0[i] = who[i]
  <2>1. w \in Slot
    BY DEF IInv, TypeOK
  <2>3. /\ Hash[nickOf[c]] \in Bucket
        /\ \A i \in Slot : i # whowas_next => w0[i] = who[i]
        /\ w0[whowas_next].hashv = Hash[nickOf[c]]
    BY AddedWhoFields
  <2> QED
    BY <2>1, <2>3
<1>2. AddedList(c) = m
  BY DEF AddedList
<1>3. /\ l \in Chains(Bucket)
      /\ \A h \in Bucket : Linked(w, l, h, Keyed(who, h) \ {w})
  BY UnhookedListOK
<1>4. /\ Keyed(w0, b) = (Keyed(who, b) \ {w}) \cup {w}
      /\ \A h \in Bucket : h # b => Keyed(w0, h) = Keyed(who, h) \ {w}
  <2> HIDE DEF w, b, w0
  <2> QED
    BY <1>1 DEF Keyed
<1> HIDE DEF w, l, b, w0
<1>5. ASSUME NEW h \in Bucket
      PROVE  Linked(After(w), l, h, Keyed(who, h) \ {w})
  <2> DEFINE S == Keyed(who, h) \ {w}
  <2>1. S \in SUBSET Slot /\ w \notin S /\ Linked(w, l, h, S)
    BY <1>3 DEF Keyed
  <2> HIDE DEF S
  <2>2. Linked(After(w), l, h, S)
    BY <1>1, <2>1, ShiftOK
  <2> QED
    BY <2>2 DEF S
<1> DEFINE own == Keyed(who, b) \ {w}
<1>6. /\ After(w) \in Slot /\ own \in SUBSET Slot /\ w \notin own
      /\ Linked(After(w), l, b, own)
      /\ \A k \in own : Pos(After(w), k) < Pos(After(w), w)
  <2>1. After(w) \in Slot /\ own \in SUBSET Slot /\ w \notin own
        /\ Linked(After(w), l, b, own)
    BY <1>1, <1>5, PosAfter DEF Keyed
  <2>2. ASSUME NEW k \in own PROVE Pos(After(w), k) < Pos(After(w), w)
    <3>1. k \in Slot /\ k # w
      BY <2>1
    <3>2. Pos(After(w), k) = Pos(w, k) - 1 /\ Pos(After(w), w) = Length - 1
      BY <1>1, <3>1, PosAfter
    <3>3. Pos(w, k) \in 0 .. Length - 1
      BY <1>1, <3>1, PosType
    <3> QED
      BY <3>2, <3>3, LengthAssumption
  <2> QED
    BY <2>1, <2>2
<1> HIDE DEF own
<1>7. Linked(After(w), m, b, own \cup {w})
  BY <1>1, <1>3, <1>6, LinkOK
<1>8. m \in Chains(Bucket)
  <2>1. l.first[b] # w
    BY <1>1, <1>6, NilNoSlot DEF Linked, IsNewest
  <2> QED
    BY <1>1, <1>3, <2>1, LinkFields
<1>9. ASSUME NEW h \in Bucket, h # b
      PROVE  Linked(After(w), m, h, Keyed(who, h) \ {w})
  <2> DEFINE other == Keyed(who, h) \ {w}
  <2>1. /\ other \in SUBSET Slot /\ other \cap own = {} /\ w \notin other
        /\ Linked(After(w), l, h, other)
    BY <1>5, <1>9 DEF Keyed, own
  <2> HIDE DEF other
  <2>2. Linked(After(w), m, h, other)
    BY <1>1, <1>3, <1>6, <1>9, <2>1, LinkOther
  <2> QED
    BY <2>2 DEF other
<1>10. HashLinked(After(w), w0, m)
  BY <1>4, <1>7, <1>9 DEF HashLinked, own
<1> QED
  BY <1>2, <1>8, <1>10 DEF w, w0, b, l

LEMMA AddedClistOK ==
    ASSUME IInv, NEW c \in Client, nickOf[c] # None, NEW o \in Client \cup {None}
    PROVE  /\ AddedClist(o) \in Chains(Client)
           /\ ClientsLinked(After(whowas_next), AddedWho(c, o), AddedClist(o))
<1> DEFINE w == whowas_next
           l == UnhookedClist
           w0 == AddedWho(c, o)
           m == LinkFirst(l, o, w)
<1>1. /\ w \in Slot /\ w0[w].online = o
      /\ \A i \in Slot : i # w => w0[i] = who[i]
  <2>1. w \in Slot
    BY DEF IInv, TypeOK
  <2>3. /\ \A i \in Slot : i # whowas_next => w0[i] = who[i]
        /\ w0[whowas_next].online = o
    BY AddedWhoFields
  <2> QED
    BY <2>1, <2>3
<1>2. AddedClist(o) = IF o = None THEN l ELSE m
  BY DEF AddedClist
<1>3. /\ l \in Chains(Client)
      /\ \A a \in Client : Linked(w, l, a, Owned(who, a) \ {w})
  BY UnhookedClistOK
<1>4. /\ o # None => Owned(w0, o) = (Owned(who, o) \ {w}) \cup {w}
      /\ \A a \in Client : a # o => Owned(w0, a) = Owned(who, a) \ {w}
  <2> HIDE DEF w, w0
  <2> QED
    BY <1>1, NoneAssumption DEF Owned
<1> HIDE DEF w, l, w0
<1>5. ASSUME NEW a \in Client
      PROVE  Linked(After(w), l, a, Owned(who, a) \ {w})
  <2> DEFINE S == Owned(who, a) \ {w}
  <2>1. S \in SUBSET Slot /\ w \notin S /\ Linked(w, l, a, S)
    BY <1>3 DEF Owned
  <2> HIDE DEF S
  <2>2. Linked(After(w), l, a, S)
    BY <1>1, <2>1, ShiftOK
  <2> QED
    BY <2>2 DEF S
<1>6. CASE o = None
  <2>1. ClientsLinked(After(w), w0, l)
    BY <1>4, <1>5, <1>6, NoneAssumption DEF ClientsLinked
  <2> QED
    BY <1>2, <1>3, <1>6, <2>1 DEF w, w0, l
<1>7. CASE o \in Client
  <2> DEFINE own == Owned(who, o) \ {w}
  <2>1. After(w) \in Slot /\ own \in SUBSET Slot /\ w \notin own
        /\ Linked(After(w), l, o, own)
    BY <1>1, <1>5, <1>7, PosAfter DEF Owned
  <2>2. ASSUME NEW k \in own PROVE Pos(After(w), k) < Pos(After(w), w)
    <3>1. k \in Slot /\ k # w
      BY <2>1
    <3>2. Pos(After(w), k) = Pos(w, k) - 1 /\ Pos(After(w), w) = Length - 1
      BY <1>1, <3>1, PosAfter
    <3>3. Pos(w, k) \in 0 .. Length - 1
      BY <1>1, <3>1, PosType
    <3> QED
      BY <3>2, <3>3, LengthAssumption
  <2> HIDE DEF own
  <2>3. Linked(After(w), m, o, own \cup {w})
    BY <1>1, <1>3, <1>7, <2>1, <2>2, LinkOK
  <2>4. m \in Chains(Client)
    <3>1. l.first[o] # w
      BY <1>1, <2>1, NilNoSlot DEF Linked, IsNewest
    <3> QED
      BY <1>1, <1>3, <1>7, <3>1, LinkFields
  <2>5. ASSUME NEW a \in Client, a # o
        PROVE  Linked(After(w), m, a, Owned(who, a) \ {w})
    <3> DEFINE other == Owned(who, a) \ {w}
    <3>1. /\ other \in SUBSET Slot /\ other \cap own = {} /\ w \notin other
          /\ Linked(After(w), l, a, other)
      BY <1>5, <2>5 DEF Owned, own
    <3> HIDE DEF other
    <3>2. Linked(After(w), m, a, other)
      BY <1>1, <1>3, <1>7, <2>1, <2>5, <3>1, LinkOther
    <3> QED
      BY <3>2 DEF other
  <2>6. ClientsLinked(After(w), w0, m)
    BY <1>4, <1>7, <2>3, <2>5, NoneAssumption DEF ClientsLinked, own
  <2> QED
    BY <1>2, <1>7, <2>4, <2>6, NoneAssumption DEF w, w0, l
<1> QED
  BY <1>6, <1>7

\* The ring fills up in order.
LEMMA FilledOK ==
    ASSUME NEW w \in Slot, NEW w0 \in [Slot -> Entry], NEW w1 \in [Slot -> Entry],
           Filled(w, w0), w1[w].hashv # -1,
           \A i \in Slot : i # w => w1[i].hashv = w0[i].hashv
    PROVE  Filled(After(w), w1)
<1>1. After(w) \in Slot
  BY PosAfter
<1>2. CASE w + 1 = Length
  <2>1. \A i \in Slot : i # w => i < w
    BY <1>2, LengthAssumption DEF Slot
  <2>2. \A i \in Slot : w1[i].hashv # -1
    BY <2>1 DEF Filled
  <2> QED
    BY <1>1, <2>2 DEF Filled
<1>3. CASE w + 1 # Length
  <2>1. After(w) = w + 1
    BY <1>3 DEF After
  <2>2. \A i \in Slot : i < w + 1 <=> i < w \/ i = w
    BY DEF Slot
  <2>3. \A i \in Slot : i < w + 1 => w1[i].hashv # -1
    BY <2>2 DEF Filled
  <2>4. ASSUME NEW i \in Slot, w1[i].hashv # -1, ~(i < w + 1)
        PROVE  \A j \in Slot : w1[j].hashv # -1
    <3>1. i # w /\ ~(i < w) /\ w0[i].hashv # -1
      BY <2>2, <2>4
    <3>2. w0[w].hashv # -1
      BY <3>1 DEF Filled
    <3> QED
      BY <3>2 DEF Filled
  <2>5. ~(w + 1 < w + 1)
    BY DEF Slot
  <2> QED
    BY <1>1, <2>1, <2>3, <2>4, <2>5 DEF Filled
<1> QED
  BY <1>2, <1>3

LEMMA InitOK == Init => IInv
<1> SUFFICES ASSUME Init PROVE IInv
  OBVIOUS
<1>1. TypeOK
  BY LengthAssumption, TimeAssumption
     DEF Init, TypeOK, Chains, Pointer, Entry, Slot
<1>2. \A i \in Slot : who[i].hashv = -1 /\ who[i].name = None /\ who[i].online = None
  BY DEF Init
<1>3. \A i \in Slot : EntryOK(who[i])
  BY <1>2 DEF EntryOK
<1>4. Filled(whowas_next, who)
  BY <1>1, <1>2 DEF Filled, Init, TypeOK, Slot
<1>5. ASSUME NEW h \in Bucket PROVE Keyed(who, h) = {} /\ list.first[h] = Nil
  BY <1>2, HashNoMinus DEF Keyed, Init
<1>6. ASSUME NEW c \in Client PROVE Owned(who, c) = {} /\ clist.first[c] = Nil
  BY <1>2, NoneAssumption DEF Owned, Init
<1>7. HashLinked(whowas_next, who, list)
  BY <1>5 DEF HashLinked, Linked, IsNewest
<1>8. ClientsLinked(whowas_next, who, clist) /\ NoStale
  BY <1>6 DEF ClientsLinked, Linked, IsNewest, NoStale
<1> QED
  BY <1>1, <1>3, <1>4, <1>7, <1>8 DEF IInv

\* A block that is free has no chain, so that clearing it changes nothing.
LEMMA RegisterOK ==
    ASSUME IInv, NEW c \in Client, NEW n \in Nick, Register(c, n)
    PROVE  IInv' /\ clist' = clist
<1>1. clist \in Chains(Client) /\ nickOf \in [Client -> Nick \cup {None}]
  BY DEF IInv, TypeOK
<1>2. clist.first[c] = Nil
  <2>1. Linked(whowas_next, clist, c, Owned(who, c)) /\ Owned(who, c) = {}
    BY DEF IInv, ClientsLinked, NoStale, Register
  <2> QED
    BY <2>1 DEF Linked, IsNewest
<1>3. clist' = clist
  <2>1. clist' = [clist EXCEPT !.first = [clist.first EXCEPT ![c] = Nil]]
    BY <1>1 DEF Register, Chains
  <2>2. [clist.first EXCEPT ![c] = Nil] = clist.first
    BY <1>1, <1>2 DEF Chains
  <2> QED
    BY <1>1, <2>1, <2>2 DEF Chains
<1>4. /\ who' = who /\ list' = list /\ whowas_next' = whowas_next /\ now' = now
      /\ nickOf' = [nickOf EXCEPT ![c] = n]
  BY DEF Register
<1>5. TypeOK'
  BY <1>1, <1>3, <1>4 DEF IInv, TypeOK
<1>6. NoStale'
  BY <1>1, <1>4, NoneAssumption DEF IInv, NoStale, Owned
<1>7. /\ HashLinked(whowas_next, who, list)' /\ ClientsLinked(whowas_next, who, clist)'
      /\ Filled(whowas_next, who)' /\ (\A i \in Slot : EntryOK(who[i]))'
  BY <1>3, <1>4 DEF IInv, HashLinked, ClientsLinked, Filled, Keyed, Owned
<1> QED
  BY <1>3, <1>5, <1>6, <1>7 DEF IInv

\* The state after a step that reuses an entry, from its parts.
LEMMA ReusedOK ==
    ASSUME IInv, whowas_next' = NextSlot, UNCHANGED now,
           who' \in [Slot -> Entry], list' \in Chains(Bucket), clist' \in Chains(Client),
           nickOf' \in [Client -> Nick \cup {None}],
           HashLinked(After(whowas_next), who', list'),
           ClientsLinked(After(whowas_next), who', clist'),
           \A c \in Client : nickOf'[c] = None => Owned(who', c) = {},
           who'[whowas_next].hashv # -1,
           \A i \in Slot : i # whowas_next => who'[i].hashv = who[i].hashv,
           \A i \in Slot : EntryOK(who'[i])
    PROVE  IInv'
<1>1. whowas_next' = After(whowas_next)
  BY DEF NextSlot, After
<1>2. whowas_next \in Slot /\ who \in [Slot -> Entry] /\ Filled(whowas_next, who)
  BY DEF IInv, TypeOK
<1>3. Filled(After(whowas_next), who') /\ After(whowas_next) \in Slot
  BY <1>2, FilledOK, PosAfter
<1>4. TypeOK'
  BY <1>1, <1>3 DEF IInv, TypeOK
<1>5. HashLinked(whowas_next', who', list')
  BY <1>1
<1>6. ClientsLinked(whowas_next', who', clist')
  BY <1>1
<1>7. Filled(whowas_next', who')
  BY <1>1, <1>3
<1> QED
  BY <1>4, <1>5, <1>6, <1>7 DEF IInv, NoStale

LEMMA ChangeNickOK ==
    ASSUME IInv, NEW c \in Client, NEW n \in Nick, ChangeNick(c, n)
    PROVE  IInv'
<1>1. /\ nickOf[c] # None /\ who' = AddedWho(c, c) /\ list' = AddedList(c)
      /\ clist' = AddedClist(c) /\ whowas_next' = NextSlot /\ UNCHANGED now
      /\ nickOf' = [nickOf EXCEPT ![c] = n]
  BY DEF ChangeNick
<1>2. c \in Client \cup {None}
  OBVIOUS
<1>3. /\ who' \in [Slot -> Entry] /\ \A i \in Slot : EntryOK(who'[i])
      /\ \A i \in Slot : i # whowas_next => who'[i] = who[i]
      /\ who'[whowas_next].hashv \in Bucket /\ who'[whowas_next].online = c
  <2> DEFINE w0 == AddedWho(c, c)
  <2>1. /\ w0 \in [Slot -> Entry] /\ \A i \in Slot : EntryOK(w0[i])
        /\ \A i \in Slot : i # whowas_next => w0[i] = who[i]
        /\ w0[whowas_next].hashv \in Bucket /\ w0[whowas_next].online = c
    BY <1>1, <1>2, AddedWhoFields
  <2> HIDE DEF w0
  <2>2. who' = w0
    BY <1>1 DEF w0
  <2> QED
    BY <2>1, <2>2
<1>4. list' \in Chains(Bucket) /\ HashLinked(After(whowas_next), who', list')
  BY <1>1, <1>2, AddedListOK
<1>5. clist' \in Chains(Client) /\ ClientsLinked(After(whowas_next), who', clist')
  BY <1>1, <1>2, AddedClistOK
<1>6. nickOf' \in [Client -> Nick \cup {None}] /\ nickOf'[c] # None
      /\ \A a \in Client : a # c => nickOf'[a] = nickOf[a]
  BY <1>1, NoneAssumption DEF IInv, TypeOK
<1>7. ASSUME NEW a \in Client, nickOf'[a] = None PROVE Owned(who', a) = {}
  <2>1. a # c /\ Owned(who, a) = {}
    BY <1>6, <1>7 DEF IInv, NoStale
  <2> QED
    BY <1>3, <2>1 DEF Owned
<1>8. who'[whowas_next].hashv # -1
  BY <1>3, HashNoMinus
<1> QED
  BY <1>1, <1>3, <1>4, <1>5, <1>6, <1>7, <1>8, ReusedOK

\* What release_client_state leaves of the entries.
LEMMA ExitWho ==
    ASSUME IInv, NEW c \in Client, Exit(c)
    PROVE  /\ nickOf[c] # None
           /\ LET w0 == AddedWho(c, None) IN
              /\ who' = [i \in Slot |-> IF w0[i].online = c THEN Offline(w0[i])
                                        ELSE w0[i]]
              /\ who' \in [Slot -> Entry]
              /\ \A i \in Slot : /\ w0[i] \in Entry
                                 /\ who'[i].hashv = w0[i].hashv
                                 /\ who'[i].name = w0[i].name
                                 /\ who'[i].logoff = w0[i].logoff
                                 /\ who'[i].online = IF w0[i].online = c THEN None
                                                     ELSE w0[i].online
           /\ clist' \in Chains(Client)
           /\ ClientsLinked(After(whowas_next), who', clist')
           /\ Owned(who', c) = {}
<1> DEFINE w0 == AddedWho(c, None)
           l == AddedClist(None)
           s == OffHistory(w0, l, c)
<1>1. nickOf[c] # None /\ who' = s.who /\ clist' = s.clist
  BY DEF Exit
<1>2. None \in Client \cup {None}
  OBVIOUS
<1>3. w0 \in [Slot -> Entry]
  BY <1>1, <1>2, AddedWhoFields
<1>4. l \in Chains(Client) /\ ClientsLinked(After(whowas_next), w0, l)
  BY <1>1, <1>2, AddedClistOK
<1>5. After(whowas_next) \in Slot
  BY PosAfter DEF IInv, TypeOK
<1> HIDE DEF w0, l
<1>6. /\ s.who = [i \in Slot |-> IF w0[i].online = c THEN Offline(w0[i]) ELSE w0[i]]
      /\ s.who \in [Slot -> Entry]
      /\ s.clist \in Chains(Client)
      /\ ClientsLinked(After(whowas_next), s.who, s.clist)
      /\ Owned(s.who, c) = {}
  BY <1>3, <1>4, <1>5, OffHistoryOK
<1> HIDE DEF s
<1>7. ASSUME NEW i \in Slot
      PROVE  /\ w0[i] \in Entry
             /\ s.who[i].hashv = w0[i].hashv
             /\ s.who[i].name = w0[i].name
             /\ s.who[i].logoff = w0[i].logoff
             /\ s.who[i].online = IF w0[i].online = c THEN None ELSE w0[i].online
  BY <1>3, <1>6, OfflineFields
<1> QED
  BY <1>1, <1>6, <1>7 DEF w0

LEMMA ExitOK ==
    ASSUME IInv, NEW c \in Client, Exit(c)
    PROVE  IInv'
<1> DEFINE w0 == AddedWho(c, None)
<1>1. /\ nickOf[c] # None /\ list' = AddedList(c)
      /\ whowas_next' = NextSlot /\ UNCHANGED now
      /\ nickOf' = [nickOf EXCEPT ![c] = None]
  BY DEF Exit
<1>2. None \in Client \cup {None}
  OBVIOUS
<1>3. /\ w0 \in [Slot -> Entry] /\ \A i \in Slot : EntryOK(w0[i])
      /\ \A i \in Slot : i # whowas_next => w0[i] = who[i]
      /\ w0[whowas_next].hashv \in Bucket /\ w0[whowas_next].online = None
  BY <1>1, <1>2, AddedWhoFields
<1>4. list' \in Chains(Bucket) /\ HashLinked(After(whowas_next), w0, list')
  BY <1>1, <1>2, AddedListOK
<1>5. /\ who' \in [Slot -> Entry]
      /\ \A i \in Slot : /\ who'[i].hashv = w0[i].hashv
                         /\ who'[i].name = w0[i].name
                         /\ who'[i].online = IF w0[i].online = c THEN None
                                             ELSE w0[i].online
      /\ clist' \in Chains(Client)
      /\ ClientsLinked(After(whowas_next), who', clist')
      /\ Owned(who', c) = {}
  BY ExitWho
<1>6. whowas_next \in Slot
  BY DEF IInv, TypeOK
<1> HIDE DEF w0
<1>7. HashLinked(After(whowas_next), who', list')
  <2>1. ASSUME NEW h \in Bucket PROVE Keyed(who', h) = Keyed(w0, h)
    BY <1>5 DEF Keyed
  <2> QED
    BY <1>4, <2>1 DEF HashLinked
<1>8. ASSUME NEW i \in Slot PROVE EntryOK(who'[i])
  BY <1>3, <1>5 DEF EntryOK
<1>9. nickOf' \in [Client -> Nick \cup {None}]
      /\ \A a \in Client : a # c => nickOf'[a] = nickOf[a]
  BY <1>1 DEF IInv, TypeOK
<1>10. ASSUME NEW a \in Client, nickOf'[a] = None PROVE Owned(who', a) = {}
  <2>1. CASE a = c
    BY <1>5, <2>1
  <2>2. CASE a # c
    <3>1. Owned(who, a) = {}
      BY <1>9, <1>10, <2>2 DEF IInv, NoStale
    <3>2. Owned(w0, a) = {}
      BY <1>3, <3>1, NoneAssumption DEF Owned
    <3> QED
      BY <1>5, <2>2, <3>2, NoneAssumption DEF Owned
  <2> QED
    BY <2>1, <2>2
<1>11. /\ who'[whowas_next].hashv # -1
       /\ \A i \in Slot : i # whowas_next => who'[i].hashv = who[i].hashv
  BY <1>3, <1>5, <1>6, HashNoMinus
<1> QED
  BY <1>1, <1>4, <1>5, <1>7, <1>8, <1>9, <1>10, <1>11, ReusedOK

LEMMA NextOK ==
    ASSUME IInv, [Next]_vars
    PROVE  IInv'
<1>1. ASSUME UNCHANGED <<who, list, clist, whowas_next, nickOf>>, now' \in 0 .. MaxTime
      PROVE  IInv'
  BY <1>1 DEF IInv, TypeOK, NoStale, HashLinked, ClientsLinked, Filled, Keyed, Owned
<1>2. CASE UNCHANGED vars
  BY <1>1, <1>2 DEF vars, IInv, TypeOK
<1>3. CASE Tick
  BY <1>1, <1>3, TimeAssumption DEF Tick, IInv, TypeOK
<1> QED
  BY <1>2, <1>3, RegisterOK, ChangeNickOK, ExitOK DEF Next

\* The chains and the order in which the ring fills up are inductive.
THEOREM Inductive == Spec => []IInv
  BY InitOK, NextOK, PTL DEF Spec

\* For any length of the ring, any nicks and any clients: every chain is the
\* list it is meant to be, and no entry points to a client that is gone
\* (add_history, off_history and their helpers).
THEOREM ChainsAlwaysSound == Spec => []ChainsSound
  BY Inductive, IInvMeans, PTL

-----------------------------------------------------------------------------
(* The refinement: Ring is the history of the last nicks given up.         *)

Used(w, w0) == IF w0[w].hashv = -1 THEN w ELSE Length

Told(e) == [nick |-> e.name, time |-> e.logoff, online |-> e.online]

RingOf(w, w0) == [k \in 1 .. Used(w, w0) |-> Told(w0[SlotAt(w, k)])]

LEMMA RingIs == Ring = RingOf(whowas_next, who)
  BY DEF Ring, RingOf, Used, Told

LEMMA SlotAtFacts ==
    ASSUME NEW w \in Slot
    PROVE  /\ \A k \in 1 .. Length : SlotAt(w, k) \in Slot
           /\ \A k \in 1 .. Length : Pos(w, SlotAt(w, k)) = Length - k
           /\ \A k \in 1 .. Length - 1 : SlotAt(w, k) # w
           /\ SlotAt(After(w), 1) = w
           /\ \A k \in 2 .. Length : SlotAt(After(w), k) = SlotAt(w, k - 1)
  BY LengthAssumption DEF SlotAt, Slot, After, Pos

LEMMA UsedType ==
    ASSUME NEW w \in Slot, NEW w0
    PROVE  /\ Used(w, w0) \in 0 .. Length /\ Used(w, w0) \in Nat
           /\ Len(RingOf(w, w0)) = Used(w, w0)
           /\ DOMAIN RingOf(w, w0) = 1 .. Used(w, w0)
<1>1. Used(w, w0) \in 0 .. Length /\ Used(w, w0) \in Nat
  BY LengthAssumption DEF Used, Slot
<1>2. DOMAIN RingOf(w, w0) = 1 .. Used(w, w0)
  BY DEF RingOf
<1>3. Len(RingOf(w, w0)) = Used(w, w0)
  BY <1>1 DEF RingOf
<1> QED
  BY <1>1, <1>2, <1>3

\* add_history pushes one entry on the history, and the oldest one out.
LEMMA RingPush ==
    ASSUME NEW w \in Slot, NEW w0 \in [Slot -> Entry], NEW w1 \in [Slot -> Entry],
           Filled(w, w0), w1[w].hashv # -1,
           \A i \in Slot : i # w => w1[i] = w0[i]
    PROVE  RingOf(After(w), w1) = H!Push(RingOf(w, w0), Told(w1[w]))
<1> DEFINE v == After(w)
           n == Used(w, w0)
           r == RingOf(w, w0)
           q == RingOf(v, w1)
<1>1. /\ v \in Slot /\ n \in 0 .. Length /\ Len(r) = n
      /\ Used(v, w1) \in 0 .. Length
  BY PosAfter, UsedType
<1>2. Used(v, w1) = IF n < Length THEN n + 1 ELSE Length
  <2>1. CASE w0[w].hashv # -1
    <3>1. n = Length
      BY <2>1 DEF Used
    <3>2. w1[v].hashv # -1
      BY <1>1, <2>1 DEF Filled
    <3> QED
      BY <3>1, <3>2, LengthAssumption DEF Used
  <2>2. CASE w0[w].hashv = -1 /\ w + 1 # Length
    <3>1. n = w /\ v = w + 1
      BY <2>2 DEF Used, After
    <3>2. v \in Slot /\ v # w /\ ~(v < w)
      BY <1>1, <3>1 DEF Slot
    <3>3. w1[v].hashv = -1
      BY <2>2, <3>2 DEF Filled
    <3>4. w < Length
      BY LengthAssumption DEF Slot
    <3> QED
      BY <3>1, <3>3, <3>4 DEF Used
  <2>3. CASE w0[w].hashv = -1 /\ w + 1 = Length
    <3>1. n = w /\ v = 0
      BY <2>3 DEF Used, After
    <3>2. v = w \/ v < w
      BY <3>1 DEF Slot
    <3>3. w1[v].hashv # -1
      BY <1>1, <2>3, <3>2 DEF Filled
    <3>4. w < Length /\ w \in Int /\ Length \in Int
      BY LengthAssumption DEF Slot
    <3> QED
      BY <2>3, <3>1, <3>3, <3>4 DEF Used
  <2> QED
    BY <2>1, <2>2, <2>3
<1>3. ASSUME NEW k \in 1 .. Used(v, w1)
      PROVE  Told(w1[SlotAt(v, k)]) = IF k = 1 THEN Told(w1[w]) ELSE r[k - 1]
  <2>1. CASE k = 1
    BY <2>1, SlotAtFacts
  <2>2. CASE k # 1
    <3>1. k \in 2 .. Length /\ k - 1 \in 1 .. n /\ k - 1 \in 1 .. Length - 1
      BY <1>1, <1>2, <2>2, LengthAssumption
    <3>2. SlotAt(v, k) = SlotAt(w, k - 1)
      BY <3>1, SlotAtFacts
    <3>3. SlotAt(w, k - 1) \in Slot /\ SlotAt(w, k - 1) # w
      <4>1. k - 1 \in 1 .. Length
        BY <3>1, LengthAssumption
      <4> QED
        BY <3>1, <4>1, SlotAtFacts
    <3>4. r[k - 1] = Told(w0[SlotAt(w, k - 1)])
      BY <3>1 DEF RingOf
    <3>5. w1[SlotAt(w, k - 1)] = w0[SlotAt(w, k - 1)]
      BY <3>3
    <3> QED
      BY <2>2, <3>2, <3>4, <3>5
  <2> QED
    BY <2>1, <2>2
<1>4. q = [k \in 1 .. Used(v, w1) |-> Told(w1[SlotAt(v, k)])]
  BY DEF RingOf
<1>5. H!Push(r, Told(w1[w])) = [k \in 1 .. (IF Len(r) < Length THEN Len(r) + 1 ELSE Length) |->
                                  IF k = 1 THEN Told(w1[w]) ELSE r[k - 1]]
  BY DEF H!Push
<1> HIDE DEF v, n, r, q
<1>6. q = H!Push(r, Told(w1[w]))
  BY <1>1, <1>2, <1>3, <1>4, <1>5
<1> QED
  BY <1>6 DEF v, r, q

\* off_history forgets the client.
LEMMA RingForget ==
    ASSUME NEW w \in Slot, NEW w0 \in [Slot -> Entry], NEW w1 \in [Slot -> Entry],
           NEW c \in Client,
           \A i \in Slot : w1[i] = IF w0[i].online = c THEN Offline(w0[i]) ELSE w0[i]
    PROVE  RingOf(w, w1) = H!Forget(RingOf(w, w0), c)
<1> DEFINE r == RingOf(w, w0)
           n == Used(w, w0)
<1>1. Used(w, w1) = n
  BY OfflineFields DEF Used
<1>2. n \in 0 .. Length /\ DOMAIN r = 1 .. n
  BY UsedType
<1>3. ASSUME NEW k \in 1 .. n
      PROVE  Told(w1[SlotAt(w, k)]) = IF r[k].online = c
                                      THEN [r[k] EXCEPT !.online = None] ELSE r[k]
  <2> DEFINE i == SlotAt(w, k)
             e == w0[i]
  <2>1. i \in Slot
    <3>1. k \in 1 .. Length
      BY <1>2, LengthAssumption
    <3> QED
      BY <3>1, SlotAtFacts
  <2>2. r[k] = Told(e)
    BY DEF RingOf
  <2>3. e \in Entry
    BY <2>1
  <2>4. w1[i] = IF e.online = c THEN Offline(e) ELSE e
    BY <2>1
  <2> HIDE DEF i, e, r
  <2>5. r[k].online = e.online
    BY <2>2 DEF Told
  <2>6. Told(Offline(e)) = [Told(e) EXCEPT !.online = None]
    BY <2>3, OfflineFields DEF Told
  <2> QED
    BY <2>2, <2>4, <2>5, <2>6 DEF i
<1>4. RingOf(w, w1) = [k \in 1 .. n |-> Told(w1[SlotAt(w, k)])]
  BY <1>1 DEF RingOf
<1>5. H!Forget(r, c) = [k \in DOMAIN r |-> IF r[k].online = c
                          THEN [r[k] EXCEPT !.online = None] ELSE r[k]]
  BY DEF H!Forget
<1> HIDE DEF r, n
<1>6. RingOf(w, w1) = H!Forget(r, c)
  BY <1>2, <1>3, <1>4, <1>5
<1> QED
  BY <1>6 DEF r

LEMMA ChangeNickRefines ==
    ASSUME IInv, NEW c \in Client, NEW n \in Nick, ChangeNick(c, n)
    PROVE  H!ChangeNick(c, n)
<1> DEFINE w == whowas_next
           w1 == AddedWho(c, c)
<1>1. /\ nickOf[c] # None /\ Free(n) /\ who' = w1 /\ whowas_next' = After(w)
      /\ nickOf' = [nickOf EXCEPT ![c] = n] /\ UNCHANGED now
  BY DEF ChangeNick, NextSlot, After
<1>2. w \in Slot /\ who \in [Slot -> Entry] /\ Filled(w, who)
  BY DEF IInv, TypeOK
<1>3. /\ w1 \in [Slot -> Entry] /\ \A i \in Slot : i # w => w1[i] = who[i]
      /\ w1[w].hashv \in Bucket /\ w1[w].name = nickOf[c] /\ w1[w].logoff = now
      /\ w1[w].online = c
  <2>1. c \in Client \cup {None}
    OBVIOUS
  <2> QED
    BY <1>1, <2>1, AddedWhoFields
<1>4. w1[w].hashv # -1
  BY <1>3, HashNoMinus
<1> HIDE DEF w, w1
<1>5. RingOf(After(w), w1) = H!Push(RingOf(w, who), Told(w1[w]))
  BY <1>2, <1>3, <1>4, RingPush
<1>6. Told(w1[w]) = [nick |-> nickOf[c], time |-> now, online |-> c]
  BY <1>3 DEF Told
<1>7. Ring = RingOf(w, who) /\ Ring' = RingOf(After(w), w1)
  BY <1>1, RingIs DEF w, Ring, RingOf, Used, Told
<1>8. Ring' = H!Push(Ring, [nick |-> nickOf[c], time |-> now, online |-> c])
  BY <1>5, <1>6, <1>7
<1> QED
  BY <1>1, <1>8 DEF H!ChangeNick, H!Free, Free

LEMMA ExitRefines ==
    ASSUME IInv, NEW c \in Client, Exit(c)
    PROVE  H!Exit(c)
<1> DEFINE w == whowas_next
           w1 == AddedWho(c, None)
           w2 == who'
           e == [nick |-> nickOf[c], time |-> now, online |-> None]
<1>1. /\ nickOf[c] # None /\ whowas_next' = After(w)
      /\ nickOf' = [nickOf EXCEPT ![c] = None] /\ UNCHANGED now
  BY DEF Exit, NextSlot, After
<1>2. w \in Slot /\ who \in [Slot -> Entry] /\ Filled(w, who) /\ After(w) \in Slot
  BY PosAfter DEF IInv, TypeOK
<1>3. /\ w1 \in [Slot -> Entry] /\ \A i \in Slot : i # w => w1[i] = who[i]
      /\ w1[w].hashv \in Bucket /\ w1[w].name = nickOf[c] /\ w1[w].logoff = now
      /\ w1[w].online = None
  <2>1. None \in Client \cup {None}
    OBVIOUS
  <2> QED
    BY <1>1, <2>1, AddedWhoFields
<1>4. w1[w].hashv # -1
  BY <1>3, HashNoMinus
<1>5. /\ w2 \in [Slot -> Entry]
      /\ w2 = [i \in Slot |-> IF w1[i].online = c THEN Offline(w1[i]) ELSE w1[i]]
  BY ExitWho
<1>6. Told(w1[w]) = e
  BY <1>3 DEF Told
<1>7. Ring = RingOf(w, who) /\ Ring' = RingOf(After(w), w2)
  BY <1>1, RingIs DEF w, Ring, RingOf, Used, Told
<1> HIDE DEF w, w1, w2, e
<1>8. RingOf(After(w), w1) = H!Push(RingOf(w, who), Told(w1[w]))
  BY <1>2, <1>3, <1>4, RingPush
<1>9. \A i \in Slot : w2[i] = IF w1[i].online = c THEN Offline(w1[i]) ELSE w1[i]
  BY <1>5
<1>10. RingOf(After(w), w2) = H!Forget(RingOf(After(w), w1), c)
  BY <1>2, <1>3, <1>5, <1>9, RingForget
<1>11. Ring' = H!Forget(H!Push(Ring, e), c)
  BY <1>6, <1>7, <1>8, <1>10
<1> QED
  BY <1>1, <1>11 DEF H!Exit, e

\* The ring with its chains, reused and unhooked as m_whowas.c does, is a
\* history of the last Length nicks given up, whatever the length.
THEOREM RingImplements == Spec => Implements
<1>1. Init => H!Init
  <2> SUFFICES ASSUME Init PROVE H!Init
    OBVIOUS
  <2>1. whowas_next = 0 /\ who[whowas_next].hashv = -1
    BY LengthAssumption DEF Init, Slot
  <2>2. Ring = <<>>
    BY <2>1 DEF Ring
  <2> QED
    BY <2>2 DEF Init, H!Init
<1>2. ASSUME IInv, [Next]_vars PROVE [H!Next]_(H!vars)
  <2>1. CASE UNCHANGED vars
    <3>1. UNCHANGED <<Ring, nickOf, now>>
      BY <2>1 DEF vars, Ring
    <3> QED
      BY <3>1 DEF H!vars
  <2>2. ASSUME NEW c \in Client, NEW n \in Nick, Register(c, n)
        PROVE  H!Register(c, n)
    <3>1. UNCHANGED Ring
      BY <2>2 DEF Register, Ring
    <3> QED
      BY <2>2, <3>1 DEF Register, H!Register, Free, H!Free
  <2>3. CASE Tick
    <3>1. UNCHANGED Ring
      BY <2>3 DEF Tick, Ring
    <3> QED
      BY <2>3, <3>1 DEF Tick, H!Tick, H!Next
  <2> QED
    BY <1>2, <2>1, <2>2, <2>3, ChangeNickRefines, ExitRefines DEF Next, H!Next
<1> QED
  BY Inductive, <1>1, <1>2, PTL DEF Spec, Implements, H!Spec

-----------------------------------------------------------------------------
(* get_history                                                             *)

\* The loop of get_history is well defined.
LEMMA GetLoopDef ==
    ASSUME NEW nick, NEW limit
    PROVE  LET f == GetHistoryLoop(nick, limit) IN
           /\ f[0] = list.first[Hash[nick]]
           /\ \A n \in 1 .. Length :
                f[n] = IF f[n - 1] = Nil \/ Fits(f[n - 1], nick, limit) THEN f[n - 1]
                       ELSE list.next[f[n - 1]]
<1> DEFINE s0 == list.first[Hash[nick]]
           f == GetHistoryLoop(nick, limit)
           Body(g, n) == IF n = 0 THEN s0
                         ELSE IF g[n - 1] = Nil \/ Fits(g[n - 1], nick, limit)
                           THEN g[n - 1]
                         ELSE list.next[g[n - 1]]
           Rounds(N) == \E g : g = [n \in 0 .. N |-> Body(g, n)]
           Bad == {N \in Nat : ~Rounds(N)}
<1>1. ASSUME Bad # {} PROVE FALSE
  <2>1. PICK m \in Bad : \A k \in Bad : m <= k
    <3>1. Bad \in SUBSET Nat
      OBVIOUS
    <3> HIDE DEF Bad
    <3> QED
      BY <1>1, <3>1, LeastNat
  <2>2. CASE m = 0
    <3> DEFINE g == [n \in 0 .. 0 |-> s0]
    <3>1. g = [n \in 0 .. 0 |-> Body(g, n)]
      OBVIOUS
    <3>2. Rounds(0)
      <4> HIDE DEF Body, g
      <4> QED
        BY <3>1
    <3> HIDE DEF Rounds
    <3> QED
      BY <2>1, <2>2, <3>2
  <2>3. CASE m # 0
    <3>1. m - 1 \in Nat /\ m - 1 \notin Bad
      <4>1. m \in Nat
        BY <2>1
      <4> HIDE DEF Bad
      <4> QED
        BY <2>1, <2>3, <4>1
    <3>2. PICK g : g = [n \in 0 .. m - 1 |-> Body(g, n)]
      BY <3>1
    <3> DEFINE h == [n \in 0 .. m |-> IF n < m THEN g[n] ELSE Body(g, m)]
    <3> HIDE DEF s0
    <3>3. ASSUME NEW n \in 0 .. m PROVE h[n] = Body(h, n)
      <4>1. CASE n = 0
        BY <2>1, <2>3, <3>2, <4>1
      <4>2. CASE n # 0
        <5>1. h[n - 1] = g[n - 1] /\ n - 1 \in 0 .. m - 1
          BY <2>1, <4>2
        <5>2. Body(h, n) = Body(g, n)
          BY <5>1, <4>2
        <5>3. h[n] = Body(g, n)
          <6>1. CASE n < m
            <7>1. n \in 0 .. m - 1 /\ h[n] = g[n]
              BY <2>1, <6>1
            <7> HIDE DEF Body, h
            <7> QED
              BY <3>2, <7>1
          <6>2. CASE n = m
            BY <6>2
          <6> QED
            BY <2>1, <6>1, <6>2
        <5> QED
          BY <5>2, <5>3
      <4> QED
        BY <4>1, <4>2
    <3>4. h = [n \in 0 .. m |-> Body(h, n)]
      <4> HIDE DEF Body
      <4> QED
        BY <3>3
    <3>5. Rounds(m)
      <4> HIDE DEF Body, h
      <4> QED
        BY <3>4
    <3> QED
      BY <2>1, <3>5
  <2> QED
    BY <2>2, <2>3
<1>2. Rounds(Length)
  BY <1>1, LengthAssumption
<1>3. f = CHOOSE g : g = [n \in 0 .. Length |-> Body(g, n)]
  BY DEF GetHistoryLoop
<1> HIDE DEF f
<1>4. f = [n \in 0 .. Length |-> Body(f, n)]
  <2> HIDE DEF Body
  <2> QED
    BY <1>2, <1>3
<1>5. \A n \in 0 .. Length : f[n] = Body(f, n)
  <2> HIDE DEF Body
  <2> QED
    BY <1>4
<1>6. /\ f[0] = list.first[Hash[nick]]
      /\ \A n \in 1 .. Length :
           f[n] = IF f[n - 1] = Nil \/ Fits(f[n - 1], nick, limit) THEN f[n - 1]
                  ELSE list.next[f[n - 1]]
  BY <1>5, LengthAssumption
<1> QED
  BY <1>6 DEF f

\* The loop stops at the newest entry that fits, or finds none.
LEMMA WalkOK ==
    ASSUME IInv, NEW nick \in Nick, NEW limit \in Limits
    PROVE  LET t == GetHistoryLoop(nick, limit)[Length]
               own == Keyed(who, Hash[nick])
           IN \/ t = Nil /\ \A i \in own : ~Fits(i, nick, limit)
              \/ /\ t \in own /\ Fits(t, nick, limit)
                 /\ \A i \in own : Fits(i, nick, limit)
                       => Pos(whowas_next, i) <= Pos(whowas_next, t)
<1> DEFINE w == whowas_next
           own == Keyed(who, Hash[nick])
           f == GetHistoryLoop(nick, limit)
           F(i) == Fits(i, nick, limit)
           Round(n, t) ==
             /\ t = Nil \/ t \in own
             /\ t = Nil => \A i \in own : ~F(i)
             /\ t # Nil => /\ \A i \in own : Pos(w, t) < Pos(w, i) => ~F(i)
                           /\ F(t) \/ Pos(w, t) < Length - n
           Bad == {n \in 0 .. Length : ~Round(n, f[n])}
<1>1. /\ w \in Slot /\ Hash[nick] \in Bucket /\ own \in SUBSET Slot
      /\ Linked(w, list, Hash[nick], own)
  BY DEF IInv, TypeOK, HashLinked, Keyed, Bucket
<1>2. /\ f[0] = list.first[Hash[nick]]
      /\ \A n \in 1 .. Length :
           f[n] = IF f[n - 1] = Nil \/ F(f[n - 1]) THEN f[n - 1]
                  ELSE list.next[f[n - 1]]
  BY GetLoopDef
<1> HIDE DEF f, own, w, F
<1>3. \A i \in own : Pos(w, i) \in 0 .. Length - 1 /\ Pos(w, i) \in Int
  BY <1>1, PosType
<1>4. Round(0, f[0])
  <2>1. CASE own = {}
    BY <1>1, <1>2, <2>1 DEF Linked, IsNewest
  <2>2. CASE own # {}
    <3>1. f[0] \in own /\ \A k \in own : Pos(w, k) <= Pos(w, f[0])
      BY <1>1, <1>2, <2>2 DEF Linked, IsNewest
    <3>2. Pos(w, f[0]) < Length - 0
      BY <1>3, <3>1, LengthAssumption
    <3>3. f[0] # Nil
      BY <1>1, <3>1, NilNoSlot
    <3> QED
      BY <1>3, <3>1, <3>2, <3>3
  <2> QED
    BY <2>1, <2>2
<1>5. ASSUME NEW n \in 1 .. Length, Round(n - 1, f[n - 1])
      PROVE  Round(n, f[n])
  <2> DEFINE t == f[n - 1]
             u == f[n]
  <2>1. CASE t = Nil \/ F(t)
    <3>1. u = t
      BY <1>2, <2>1
    <3> QED
      BY <1>5, <2>1, <3>1
  <2>2. CASE t # Nil /\ ~F(t)
    <3>1. u = list.next[t]
      BY <1>2, <2>2
    <3>2. /\ t \in own /\ Pos(w, t) < Length - (n - 1)
          /\ \A i \in own : Pos(w, t) < Pos(w, i) => ~F(i)
      BY <1>5, <2>2
    <3> HIDE DEF t, u
    <3>3. /\ u = Nil \/ u \in own
          /\ u = Nil => \A k \in own : ~(Pos(w, k) < Pos(w, t))
          /\ u # Nil => /\ Pos(w, u) < Pos(w, t)
                        /\ \A k \in own : Pos(w, k) < Pos(w, t)
                              => Pos(w, k) <= Pos(w, u)
      BY <1>1, <3>1, <3>2, LinkedSlot
    <3>4. ASSUME NEW i \in own, ~(Pos(w, i) < Pos(w, t)) PROVE ~F(i)
      <4>1. Pos(w, t) < Pos(w, i) \/ i = t
        BY <1>1, <1>3, <3>2, <3>4, PosType
      <4> QED
        BY <2>2, <3>2, <4>1
    <3>5. CASE u = Nil
      BY <3>3, <3>4, <3>5 DEF u
    <3>6. CASE u # Nil
      <4>1. Pos(w, u) < Length - n
        BY <1>3, <3>2, <3>3, <3>6, LengthAssumption
      <4>2. ASSUME NEW i \in own, Pos(w, u) < Pos(w, i) PROVE ~F(i)
        BY <1>3, <3>2, <3>3, <3>4, <3>6, <4>2
      <4> QED
        BY <3>3, <3>6, <4>1, <4>2 DEF u
    <3> QED
      BY <3>5, <3>6
  <2> QED
    BY <2>1, <2>2
<1> HIDE DEF Round
<1>6. ASSUME Bad # {} PROVE FALSE
  <2>1. PICK m \in Bad : \A k \in Bad : m <= k
    <3>1. Bad \in SUBSET Nat
      BY LengthAssumption
    <3> HIDE DEF Bad
    <3> QED
      BY <1>6, <3>1, LeastNat
  <2>2. m \in 0 .. Length /\ ~Round(m, f[m])
    BY <2>1
  <2>3. m # 0
    BY <1>4, <2>2
  <2>4. m \in 1 .. Length /\ m - 1 \in 0 .. Length
    BY <2>2, <2>3, LengthAssumption
  <2>5. m - 1 \notin Bad
    <3> HIDE DEF Bad
    <3> QED
      BY <2>1, <2>4
  <2> QED
    BY <1>5, <2>2, <2>4, <2>5
<1> DEFINE t == f[Length]
<1>7. Round(Length, t)
  <2>1. Length \in 0 .. Length
    BY LengthAssumption
  <2> QED
    BY <1>6, <2>1
<1> HIDE DEF t
<1>8. /\ t = Nil \/ t \in own
      /\ t = Nil => \A i \in own : ~F(i)
      /\ t # Nil => /\ \A i \in own : Pos(w, t) < Pos(w, i) => ~F(i)
                    /\ F(t) \/ Pos(w, t) < Length - Length
  BY <1>7 DEF Round
<1>9. t # Nil => F(t)
  BY <1>3, <1>8, LengthAssumption
<1>10. \/ t = Nil /\ \A i \in own : ~F(i)
       \/ /\ t \in own /\ F(t)
          /\ \A i \in own : F(i) => Pos(w, i) <= Pos(w, t)
  BY <1>3, <1>8, <1>9
<1> QED
  BY <1>10 DEF w, own, f, F, t

\* Where an entry in use stands in the history.
LEMMA Places ==
    ASSUME IInv, NEW i \in Slot, who[i].hashv # -1
    PROVE  /\ Length - Pos(whowas_next, i) \in 1 .. Used(whowas_next, who)
           /\ SlotAt(whowas_next, Length - Pos(whowas_next, i)) = i
<1>1. whowas_next \in Slot /\ Filled(whowas_next, who)
  BY DEF IInv, TypeOK
<1>2. CASE who[whowas_next].hashv # -1
  <2>1. Used(whowas_next, who) = Length
    BY <1>2 DEF Used
  <2> QED
    BY <1>1, <2>1, LengthAssumption DEF Pos, SlotAt, Slot
<1>3. CASE who[whowas_next].hashv = -1
  <2>1. Used(whowas_next, who) = whowas_next /\ i < whowas_next
    BY <1>1, <1>3 DEF Used, Filled
  <2> QED
    BY <1>1, <2>1, LengthAssumption DEF Pos, SlotAt, Slot
<1> QED
  BY <1>2, <1>3

LEMMA LookupOK ==
    ASSUME IInv, NEW nick \in Nick, NEW limit \in Limits
    PROVE  GetHistory(nick, limit) = H!Lookup(Ring, nick, limit)
<1> DEFINE w == whowas_next
           t == GetHistoryLoop(nick, limit)[Length]
           own == Keyed(who, Hash[nick])
           used == Used(w, who)
           fresh == {k \in DOMAIN Ring : Ring[k].nick = nick /\ Ring[k].time >= now - limit}
<1>1. /\ w \in Slot /\ \A i \in Slot : who[i] \in Entry /\ EntryOK(who[i])
      /\ now \in Int /\ limit \in Int
  BY TimeAssumption DEF IInv, TypeOK
<1>2. /\ used \in 0 .. Length /\ DOMAIN Ring = 1 .. used
      /\ \A k \in 1 .. used : SlotAt(w, k) \in Slot /\ Pos(w, SlotAt(w, k)) = Length - k
  <2>1. used \in 0 .. Length /\ DOMAIN Ring = 1 .. used
    BY <1>1, RingIs, UsedType
  <2>2. \A k \in 1 .. used : k \in 1 .. Length
    BY <2>1, LengthAssumption
  <2> QED
    BY <1>1, <2>1, <2>2, SlotAtFacts
<1>3. ASSUME NEW k \in 1 .. used
      PROVE  /\ Ring[k].nick = who[SlotAt(w, k)].name
             /\ Ring[k].time = who[SlotAt(w, k)].logoff
             /\ Ring[k].online = who[SlotAt(w, k)].online
  BY RingIs DEF RingOf, Told
<1>4. \A i \in Slot : who[i].logoff \in Int
  BY <1>1, TimeAssumption DEF Entry
<1>5. ASSUME NEW k \in 1 .. used
      PROVE  k \in fresh <=> Fits(SlotAt(w, k), nick, limit)
  BY <1>1, <1>2, <1>3, <1>4 DEF Fits, Expired
<1>6. ASSUME NEW i \in Slot, Fits(i, nick, limit)
      PROVE  /\ i \in own /\ Length - Pos(w, i) \in 1 .. used
             /\ SlotAt(w, Length - Pos(w, i)) = i
  <2>1. who[i].name = nick /\ who[i].hashv # -1 /\ who[i].hashv = Hash[nick]
    BY <1>1, <1>6, NoneAssumption DEF Fits, EntryOK
  <2> QED
    BY <2>1, Places DEF Keyed
<1>7. \/ t = Nil /\ \A i \in own : ~Fits(i, nick, limit)
      \/ /\ t \in own /\ Fits(t, nick, limit)
         /\ \A i \in own : Fits(i, nick, limit) => Pos(w, i) <= Pos(w, t)
  BY WalkOK
<1>8. own \subseteq Slot
  BY DEF Keyed
<1>9. /\ GetHistory(nick, limit) = IF t = Nil THEN None ELSE who[t].online
      /\ H!Lookup(Ring, nick, limit) =
            IF fresh = {} THEN None
            ELSE Ring[CHOOSE k \in fresh : \A j \in fresh : k <= j].online
  BY DEF GetHistory, H!Lookup
<1>10. fresh \subseteq 1 .. used
  BY <1>2
<1> HIDE DEF t, own, used, fresh, w
<1>11. CASE t = Nil
  <2>1. \A i \in own : ~Fits(i, nick, limit)
    BY <1>7, <1>8, <1>11, NilNoSlot
  <2>2. ASSUME NEW k \in fresh PROVE FALSE
    <3>1. SlotAt(w, k) \in Slot /\ Fits(SlotAt(w, k), nick, limit)
      BY <1>2, <1>5, <1>10
    <3> QED
      BY <1>6, <2>1, <3>1
  <2> QED
    BY <1>9, <1>11, <2>2
<1>12. CASE t # Nil
  <2> DEFINE k == Length - Pos(w, t)
  <2>1. /\ t \in Slot /\ Fits(t, nick, limit)
        /\ \A i \in own : Fits(i, nick, limit) => Pos(w, i) <= Pos(w, t)
    BY <1>7, <1>8, <1>12
  <2>2. k \in 1 .. used /\ SlotAt(w, k) = t
    BY <1>6, <2>1
  <2>3. k \in fresh
    BY <1>5, <2>1, <2>2
  <2>4. ASSUME NEW j \in fresh PROVE k <= j
    <3>1. /\ j \in 1 .. used /\ SlotAt(w, j) \in Slot
          /\ Fits(SlotAt(w, j), nick, limit) /\ Pos(w, SlotAt(w, j)) = Length - j
      BY <1>2, <1>5, <1>10
    <3>2. Pos(w, SlotAt(w, j)) <= Pos(w, t)
      BY <1>6, <2>1, <3>1
    <3>3. Pos(w, t) \in Int
      BY <1>1, <2>1, PosType DEF w
    <3> QED
      BY <3>1, <3>2, <3>3, LengthAssumption
  <2> HIDE DEF k
  <2>5. (CHOOSE j \in fresh : \A m \in fresh : j <= m) = k
    <3>1. \A j \in fresh : j \in Int
      BY <1>10
    <3>2. ASSUME NEW j \in fresh, \A m \in fresh : j <= m PROVE j = k
      BY <2>3, <2>4, <3>1, <3>2
    <3> QED
      BY <2>3, <2>4, <3>2
  <2>6. Ring[k].online = who[t].online
    BY <1>3, <2>2
  <2> QED
    BY <1>9, <1>12, <2>3, <2>5, <2>6
<1> QED
  BY <1>11, <1>12

\* For any length of the ring and any time limit, get_history, which walks
\* one hash chain, names the client that the history as a whole names.
THEOREM LookupAlwaysRight == Spec => []LookupRight
<1>1. IInv => LookupRight
  BY LookupOK DEF LookupRight
<1> QED
  BY Inductive, <1>1, PTL
=============================================================================
