SPECIFICATION FairSpec
CONSTANTS
  MaxAttempts = 4
  MaxTries = 2
  MaxFixes = 2
  MaxMishaps = 1
PROPERTY ResumedStageFailsOnlyOnNewFault
CHECK_DEADLOCK FALSE
