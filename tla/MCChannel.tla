------------------------------ MODULE MCChannel ------------------------------
(***************************************************************************)
(* A small instance of Channel.                                            *)
(***************************************************************************)
EXTENDS Channel, TLC

CONSTANTS a, r, x, y, wide

\* One mask, which matches the local client.
OneHit == wide :> {a}

OneCover == wide :> {wide}

SomeLimits == {0, 1}

\* Every command but MODE e, whose list is handled like those of b and I.
Everything == {"JOIN", "JOIN0", "PART", "KICK", "INVITE", "SJOIN", "OPER",
               "REHASH", "MODE i", "MODE j", "MODE l", "MODE o", "b", "I"}

SymChannels == Permutations({x, y})
=============================================================================
