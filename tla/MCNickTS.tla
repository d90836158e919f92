------------------------------ MODULE MCNickTS ------------------------------
(***************************************************************************)
(* An instance of NickTS for TLC: two servers with three clients between    *)
(* them.                                                                    *)
(***************************************************************************)
EXTENDS NickTS

CONSTANTS A, B, ua, ua2, ub

Pair == {A, B}

PairHop == [s \in Pair |-> [t \in Pair |-> t]]

TrioUser == {ua, ua2, ub}

TrioHome == [u \in TrioUser |-> IF u = ub THEN B ELSE A]

\* ua and ub connect from the same user@host, the other from its own.
Hosts == [u \in User |-> IF u = ub THEN ua ELSE u]

\* Clients register on both sides before, while and after the servers link;
\* the clocks of the two never show the same time.
Meet ==
    [does |-> {"NICK", "USER", "LINK"},
     clock |-> [s \in Pair |-> IF s = A THEN {1, 3} ELSE {2, 4}],
     budget |-> 7, meet |-> TRUE]

\* Every command, with clocks in step.
Everything ==
    [does |-> {"NICK", "USER", "LINK", "CHANGE", "KILL", "QUIT", "SPLIT"},
     clock |-> [s \in Pair |-> {1, 2}],
     budget |-> 7, meet |-> FALSE]

AllScripts == {Meet, Everything}

=============================================================================
