CONSTANTS
  Roots = {r1}
  MaxPolls = 1
  Budget = 1
  Crashes = FALSE
  None = None
SPECIFICATION FairSpec
CHECK_DEADLOCK FALSE
PROPERTIES ForgottenStops
