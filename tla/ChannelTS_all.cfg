SPECIFICATION FairSpec
CONSTANTS
    A = A
    B = B
    C = C
    ua = ua
    ua2 = ua2
    ub = ub
    uc = uc
    NoUser = NoUser
    Server <- Line
    User <- LineUser
    Home <- LineHome
    Hop <- LineHop
    SimpleModes = {"nt"}
    CreateModes = {"nt"}
    Params = {0, 1}
    Clock = {1, 2, 3}
    Scripts <- AllScripts
INVARIANTS
    ServersSound
    ServersAgree
PROPERTIES
    TSNeverRises
    Settles
CHECK_DEADLOCK FALSE
