SPECIFICATION Spec
CONSTANTS
    a = a
    r = r
    x = x
    y = y
    wide = wide
    Client = {a, r}
    Local = {a}
    Channel = {x, y}
    Mask = {wide}
    Hits <- OneHit
    Covers <- OneCover
    MaxChannels = 1
    MaxBans = 1
    Limits <- SomeLimits
    Commands <- Everything
SYMMETRY SymChannels
INVARIANTS
    ListsAgree
    InvitesSound
    ListsBounded
PROPERTIES
    LocalJoinWithinLimit
