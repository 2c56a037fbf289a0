CONSTANTS
  Conn = {c1, c2, c3}
  old = old
  root = root
  dir = dir
  a = a
  b = b
  f = f
  g = g
  SeedFile = {old}
  SeedDir = {root, dir}
  Top = Top
  Share = Share
  ClientName = {Share, a, b, f, g}
  Temp <- MCTemp
  MaxDepth = 4
  None = None
  NotDir = NotDir
  Requests <- TreeChanges
  Faults <- NoFaults
  Killable = FALSE
  MaxTime = 1
  InitEnt <- OneDir
  SeedSize = 1
SPECIFICATION Spec
SYMMETRY ConnSymmetry
CHECK_DEADLOCK FALSE
INVARIANTS PublishedWhole ReadersSeeWhole NoLitter OneName
