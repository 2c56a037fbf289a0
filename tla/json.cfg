CONSTANTS
  JB_MAX_DEPTH = 2
  FirstCap = 2
  PlainCalls = 5
  Strings <- EdgeStrings
  MaxCalls <- EdgeCalls
SPECIFICATION Spec
CHECK_DEADLOCK FALSE
INVARIANTS BufferFits WholeReply StringReadsBack NoLeak
PROPERTIES ErrSticks
