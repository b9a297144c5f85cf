SPECIFICATION NoRelaunchFairSpec
CONSTANTS
  Configs <- MCConfigs
  MaxFailures = 0
  MaxScans = 2
  MaxStrays = 0
  MaxResumes = 4
PROPERTY RerunUnblocksCi
CHECK_DEADLOCK FALSE
