SPECIFICATION FairSpec
CONSTANTS
    A = A
    B = B
    ua = ua
    ua2 = ua2
    ub = ub
    NoUser = NoUser
    Server <- Pair
    Hop <- PairHop
    User <- TrioUser
    Home <- TrioHome
    UserHost <- Hosts
    Nick = {n1, n2}
    MaxChanges = 1
    Scripts <- AllScripts
INVARIANTS
    NicksSound
    CollisionsResolved
PROPERTIES
    Settles
CHECK_DEADLOCK FALSE
