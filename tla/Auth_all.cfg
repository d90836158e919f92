SPECIFICATION FairSpec
CONSTANTS
    c1 = c1
    c2 = c2
    c3 = c3
    p1 = p1
    p2 = p2
    NoPort = NoPort
    Port <- Ports
    Conn <- Three
INVARIANTS
    RequestsSound
PROPERTIES
    OnlyWhenDone
    Admitted
