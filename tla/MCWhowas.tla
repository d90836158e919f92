------------------------------ MODULE MCWhowas ------------------------------
(***************************************************************************)
(* Whowas for TLC: three nicks of which two share a hash value, and two     *)
(* client blocks, which are reused.                                        *)
(***************************************************************************)
EXTENDS Whowas, TLC

CONSTANTS n1, n2, n3, a, b

Nicks == {n1, n2, n3}
Clients == {a, b}
HashOf == n1 :> 0 @@ n2 :> 0 @@ n3 :> 1

Symm == Permutations({n1, n2}) \cup Permutations(Clients)
=============================================================================
