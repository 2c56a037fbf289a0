CONSTANTS
  Conn = {c1, c2}
  old = old
  root = root
  dir = dir
  a = a
  b = b
  f = f
  g = g
  SeedFile = {old}
  SeedDir = {root, dir}
  Top = Top
  Share = Share
  ClientName = {Share, a, b, f, g}
  Temp <- MCTemp
  MaxDepth = 4
  None = None
  NotDir = NotDir
  Requests <- AllRequests
  Faults <- AllFaults
  Killable = TRUE
  MaxTime = 0
  InitEnt <- OneDir
  SeedSize = 1
SPECIFICATION FairSpec
CHECK_DEADLOCK FALSE
INVARIANTS NoLitter
PROPERTIES Served AtomicChanges
