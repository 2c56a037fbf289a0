CONSTANTS
  Roots = {r1, r2}
  MaxPolls = 1
  Budget = 3
  Crashes = TRUE
  None = None
SPECIFICATION FairSpec
CHECK_DEADLOCK FALSE
INVARIANTS NoStrayDaemon
PROPERTIES TellsConfigured  BackToWizard
