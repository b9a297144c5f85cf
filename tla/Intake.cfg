SPECIFICATION FairSpec
CONSTANTS
  Ids = {1, 2}
  Issues <- MCIssues
  Edited <- MCEdited
  MaxAsked = 2
  Guarded = TRUE
  MaxRuns = 2
  MaxMishaps = 1
INVARIANTS TypeOK AlertedOnce
PROPERTIES StartsOnCleanIssue BlockedIsAlerted
