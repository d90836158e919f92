SPECIFICATION Spec
CONSTANTS
  DbufSize = 2
  Eol = "eol"
  Fds = {1, 2}
  Buckets = 2
  Limit = 1
  SockRoom = 1
  Kilo = 1
  Slack = 1
  ZipMinimum = 2
  ZipMaximum = 5
  MsgMax = 2
  LongLine = 2
  ReadMark = 4
  FloodMark = 3
  MaxDebt = 2
  UnknownTime = 1
  Ping <- MCPing
  Scenes <- All
INVARIANTS
    QueuesSound
    ListRight
PROPERTIES
    InOrder
    ClosedForCause
    Serves
