SPECIFICATION Spec
CONSTANTS
    c1 = c1
    c2 = c2
    h1 = h1
    h2 = h2
    NoHost = NoHost
    Slots <- Two
    Names <- OneName
    Hosts <- TwoHosts
    Callers <- One
    UserNames <- OneUser
    Files <- Steady
    Blocks = 16
    MaxRehash = 2
SYMMETRY Symmetry
INVARIANTS
    MemorySound
    CountsExact
PROPERTIES
    WithinLimits
