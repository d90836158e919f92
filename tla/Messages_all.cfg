SPECIFICATION Spec
CONSTANTS
  sa = sa
  sb = sb
  sc = sc
  u1 = u1
  u2 = u2
  u3 = u3
  u4 = u4
  u5 = u5
  ch = ch
  Server = {sa, sb, sc}
  User = {u1, u2, u3, u4, u5}
  Chan = {ch}
  FLUDNUM = 2
  FLUDTIME = 1
  FLUDBLOCK = 2
  DRONETIME = 1
  DRONECOUNT = 1
  PACE_WAIT = 1
  KNOCK_DELAY = 3
  KNOCK_DELAY_CHANNEL = 2
  Scenes <- TheScenes
INVARIANTS
    ListsSound
    AtMostOnce
    Heard
PROPERTIES
    FludBlocksFloods
    Settles
CHECK_DEADLOCK FALSE
