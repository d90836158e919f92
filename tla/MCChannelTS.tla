----------------------------- MODULE MCChannelTS -----------------------------
(***************************************************************************)
(* An instance of ChannelTS for TLC: a line of three servers, two clients   *)
(* on the first and one on each of the others.  A script in which only A    *)
(* and B link is a network of two; in the others the one in the middle has  *)
(* messages to pass on.                                                     *)
(***************************************************************************)
EXTENDS ChannelTS, TLC

CONSTANTS A, B, C, ua, ua2, ub, uc

Line == {A, B, C}

LineHop == [s \in Line |-> [t \in Line |->
               IF {s, t} = {A, C} THEN B ELSE t]]

LineUser == {ua, ua2, ub, uc}

LineHome == (ua :> A) @@ (ua2 :> A) @@ (ub :> B) @@ (uc :> C)

\* Three parts of a network merge in any order while clients join.
Merge ==
    [up |-> Line, does |-> [s \in Line |-> {"JOIN", "LINK"}],
     actors |-> {ua, ub, uc},
     clock |-> {1, 2, 3}, budget |-> 5, agree |-> {"names", "channel"}]

\* Only A's clients give and take ops, voices, key and limit.
OneSide ==
    [up |-> {A, B},
     does |-> (A :> {"JOIN", "LINK", "o", "v", "k", "l"}) @@ (B :> {"JOIN"})
                  @@ (C :> {}),
     actors |-> {ua, ua2, ub}, clock |-> {1, 2}, budget |-> 5,
     agree |-> {"names", "channel"}]

\* The client of the server in the middle does nothing, the server relays.
Relay ==
    [up |-> Line,
     does |-> [s \in Line |-> {"LINK", "SPLIT"}
                  \cup IF s = B THEN {} ELSE {"JOIN", "PART"}],
     actors |-> {ua, uc}, clock |-> {1}, budget |-> 6, agree |-> {"names"}]

\* Every command on two servers, crossing as it may.
All ==
    [up |-> {A, B},
     does |-> (C :> {}) @@ [s \in {A, B} |->
                  {"JOIN", "PART", "KICK", "QUIT", "KILL", "LINK", "SPLIT",
                   "REHASH", "o", "v", "simple", "k", "l"}],
     actors |-> {ua, ua2, ub}, clock |-> {1, 2}, budget |-> 4, agree |-> {}]

AllScripts == {Merge, OneSide, Relay, All}

=============================================================================
