CONSTANTS
  Conn = {c1, c2, c3}
  old = old
  root = root
  dir = dir
  a = a
  b = b
  f = f
  g = g
  SeedFile = {old}
  SeedDir = {root, dir}
  Top = Top
  Share = Share
  ClientName = {Share, f, g}
  Temp <- MCTempClash
  MaxDepth = 2
  None = None
  NotDir = NotDir
  Requests <- RacingWrites
  Faults <- AllFaults
  Killable = TRUE
  MaxTime = 0
  InitEnt <- EmptyShare
  SeedSize = 1
SPECIFICATION Spec
CHECK_DEADLOCK FALSE
INVARIANTS TypeOK PublishedWhole ReadersSeeWhole OneCreator RefusedLeavesNothing NoLitter
PROPERTIES CreateOnly OwnBytes AtomicChanges
