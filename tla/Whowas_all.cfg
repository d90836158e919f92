SPECIFICATION Spec
CONSTANTS
    n1 = n1
    n2 = n2
    n3 = n3
    a = a
    b = b
    None = None
    Nick <- Nicks
    Client <- Clients
    Hash <- HashOf
    Length = 3
    MaxTime = 1
    Limits = {0, 1}
SYMMETRY Symm
INVARIANTS
    ChainsSound
    LookupRight
PROPERTIES
    Implements
