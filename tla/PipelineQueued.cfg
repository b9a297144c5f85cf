SPECIFICATION Spec
CONSTANTS
  Configs <- MCConfigs
  MaxFailures = 0
  MaxScans = 1
  MaxStrays = 0
  MaxResumes = 1
INVARIANT ReportedMergedIsMerged
CHECK_DEADLOCK FALSE
