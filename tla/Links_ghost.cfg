SPECIFICATION Spec
CONSTANTS
  a = a
  b = b
  c = c
  Server = {a, b, c}
  MaxConn = 4
  Scenes <- GhostScene
INVARIANT ViewsAgree

CHECK_DEADLOCK FALSE
