------------------------------- MODULE MCAuth -------------------------------
(***************************************************************************)
(* Auth for TLC: three connections, two ports.                             *)
(***************************************************************************)
EXTENDS Auth

CONSTANTS c1, c2, c3, p1, p2

Three == {c1, c2, c3}
Ports == {p1, p2}

=============================================================================
