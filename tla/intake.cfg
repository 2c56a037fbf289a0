SPECIFICATION FairSpec
CONSTANTS
  None = None
  Streams <- MCStreams
  BufSize = 14
  MaxHeaders = 2
PROPERTIES PiecesDoNotMatter Answered
CHECK_DEADLOCK FALSE
