-------------------------------- MODULE Flud --------------------------------
(***************************************************************************)
(* The CTCP flood counters of one server (flud.c): for every target (a     *)
(* local client or a channel) the list of those who sent it CTCPs, for     *)
(* every client the list of the targets that remember it, and the time of  *)
(* the last CTCP a target blocked.                                         *)
(***************************************************************************)
EXTENDS Integers, Sequences, SequencesExt

CONSTANTS FLUDNUM, FLUDTIME, FLUDBLOCK

ASSUME FludAssumption == {FLUDNUM, FLUDTIME, FLUDBLOCK} \subseteq Nat

NoFlud(T, U) == [fluders |-> [t \in T |-> <<>>],
                 fludees |-> [u \in U |-> <<>>],
                 block   |-> [t \in T |-> 0]]

\* A list after a walk that unlinks the elements in S.
Without(q, S) ==
  LET walk[i \in 0..Len(q)] ==
        IF i = 0 THEN <<>>
        ELSE IF q[i] \in S THEN walk[i - 1] ELSE Append(walk[i - 1], q[i])
  IN walk[Len(q)]

\* The entries of a target that are about one of the clients us.
About(f, t, us) == {b \in Range(f.fluders[t]) : b.fluder \in us}

\* The targets ts forget a client.
remove_fluder_reference(f, ts, u) ==
  [f EXCEPT !.fluders = [t \in DOMAIN f.fluders |->
     IF t \in ts THEN Without(f.fluders[t], About(f, t, {u})) ELSE f.fluders[t]]]

\* The clients about whom the targets ts have an entry among bs forget them.
remove_fludee_reference(f, ts, bs) ==
  [f EXCEPT !.fludees = [u \in DOMAIN f.fludees |->
     Without(f.fludees[u], {t \in ts : About(f, t, {u}) \cap bs # {}})]]

Blocking(f, t, now) == f.block[t] > now - FLUDBLOCK

Recent(b, now) == b.last >= now - FLUDTIME

\* The garbage collection at the head of check_for_flud.
Collect(f, t, now) ==
  LET old == {b \in Range(f.fluders[t]) : ~Recent(b, now)} IN
  [remove_fludee_reference(f, {t}, old) EXCEPT !.fluders[t] = Without(@, old)]

\* Slip: an entry counts in full however old it is.
WeightFull(b, now) == b.count

\* What an entry adds to the running count.
Weight(b, now) == IF b.first < now - FLUDTIME THEN 1 ELSE b.count

\* The running count over the entries of q.
Total(q, now) ==
  LET sum[i \in 0..Len(q)] == IF i = 0 THEN 0 ELSE sum[i - 1] + Weight(q[i], now)
  IN sum[Len(q)]

\* check_for_flud: u sends t a CTCP.
check_for_flud(f, t, u, now) ==
  LET blocking == Blocking(f, t, now)
      g == IF blocking THEN f ELSE Collect(f, t, now)
      q == g.fluders[t]
      bumped == [i \in DOMAIN q |->
                  IF q[i].fluder = u THEN [q[i] EXCEPT !.last = now, !.count = @ + 1] ELSE q[i]]
      new == [fluder |-> u, count |-> 1, first |-> now, last |-> now]
      h == IF About(g, t, {u}) # {} THEN [g EXCEPT !.fluders[t] = bumped]
           ELSE [g EXCEPT !.fluders[t] = <<new>> \o q,
                          !.fludees[u] = <<t>> \o @]
  IN IF FLUDBLOCK = 0 THEN f
     ELSE IF blocking \/ Total(h.fluders[t], now) > FLUDNUM THEN [h EXCEPT !.block[t] = now]
     ELSE h

\* Targets go: their fluders forget them.
free_fluders(f, ts) ==
  [remove_fludee_reference(f, ts, UNION {Range(f.fluders[t]) : t \in ts})
     EXCEPT !.fluders = [t \in DOMAIN f.fluders |-> IF t \in ts THEN <<>> ELSE f.fluders[t]],
            !.block = [t \in DOMAIN f.block |-> IF t \in ts THEN 0 ELSE f.block[t]]]

\* Slip: a client that goes is not taken from the lists of those it flooded.
FreeFludeesOwn(f, u) == [f EXCEPT !.fludees[u] = <<>>]

\* A client goes: its targets forget it.
free_fludees(f, u) ==
  [remove_fluder_reference(f, Range(f.fludees[u]), u) EXCEPT !.fludees[u] = <<>>]

\* The two sides of the lists agree, and nobody is listed twice.
Crossed(f) ==
  /\ \A t \in DOMAIN f.fluders, u \in DOMAIN f.fludees :
       About(f, t, {u}) # {} <=> t \in Range(f.fludees[u])
  /\ \A t \in DOMAIN f.fluders : \A i, j \in DOMAIN f.fluders[t] :
       f.fluders[t][i].fluder = f.fluders[t][j].fluder => i = j
  /\ \A u \in DOMAIN f.fludees : IsInjective(f.fludees[u])
=============================================================================
