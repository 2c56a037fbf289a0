CONSTANTS
  Conn = {c1, c2}
  old = old
  root = root
  dir = dir
  a = a
  f = f
  g = g
  SeedFile = {old}
  SeedDir = {root, dir}
  Top = Top
  Share = Share
  ClientName = {Share, a, f, g}
  Temp <- MCTemp
  MaxDepth = 3
  None = None
  NotDir = NotDir
  Requests <- NewDirectory
  Faults = {}
  Killable = FALSE
  MaxTime = 0
  InitEnt <- OneDir
  SeedSize = 1
  MaxCuts = 1
  MaxUnflushed = 0
SPECIFICATION PowerSpec
CHECK_DEADLOCK FALSE
PROPERTIES UploadSurvives
