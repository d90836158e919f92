SPECIFICATION Spec
CONSTANTS
  a = a
  b = b
  c = c
  Server = {a, b, c}
  MaxConn = 4
  Scenes <- TheScenes
INVARIANTS
    ListsSound
    ViewsAgree
PROPERTIES
    Settles
CHECK_DEADLOCK FALSE
