CONSTANTS
  Conn = {c1, c2, c3, c4}
  MaxChildren = 2
  ForkFails = TRUE
  AcceptFails = TRUE
  None = None
SPECIFICATION FairSpec
CHECK_DEADLOCK FALSE
INVARIANTS CountExact CapHolds
PROPERTIES BusyIsTrue ZombiesReaped Answered
