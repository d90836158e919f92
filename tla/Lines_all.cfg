SPECIFICATION Spec
CONSTANTS
  Pieces <- MCPieces
  Slot <- MCSlot
  Star = 10
  Covers <- MCCovers
  Masks <- MCMasks
  Form <- MCForm
  Path <- MCPath
  OddMatch <- MCOdd
  Bits = 3
  Net <- Nets
  NickNet <- MCNickNet
  Wide <- MCWide
  Cctld = {}
  Folk <- People
  Worlds <- All
  MaxTime = 2
INVARIANTS
    StoresRight
    NoEscape
    MemoryHasSource
CHECK_DEADLOCK FALSE
