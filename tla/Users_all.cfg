SPECIFICATION Spec
CONSTANTS
  a = a
  b = b
  c = c
  u1 = u1
  u2 = u2
  u3 = u3
  u4 = u4
  u5 = u5
  Server = {a, b, c}
  User = {u1, u2, u3, u4, u5}
  Scenes <- TheScenes
INVARIANTS
    ListsSound
    ViewsAgree
    OperatorsHear
PROPERTIES
    Settles
CHECK_DEADLOCK FALSE
