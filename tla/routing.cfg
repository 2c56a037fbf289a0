CONSTANTS
  LLONG_MAX = 7
  PATHCAP = 8
  Tree <- MCTree
  MaxLink = 2
  TokenCap = 5
  Wrap = 4
  Generated <- MCGenerated
  Options <- MCOptions
  Requests <- MCRequests
  Sizes <- MCSizes
  HTTP_MAX_TARGET = 18
  HTTP_MAX_HDR_VALUE = 20
SPECIFICATION Spec
INVARIANTS InsideShare MeansWhatItSays TokenGate RangeExact BodyIsRange BootSafe
CHECK_DEADLOCK FALSE
