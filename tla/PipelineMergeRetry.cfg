SPECIFICATION Spec
CONSTANTS
  Configs <- MCConfigs
  MaxFailures = 1
  MaxScans = 1
  MaxStrays = 0
  MaxResumes = 4
PROPERTY ResumedMergeFailsOnlyOnNewFault
CHECK_DEADLOCK FALSE
