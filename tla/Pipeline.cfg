SPECIFICATION FairSpec
CONSTANTS
  Configs <- MCConfigs
  MaxFailures = 2
  MaxScans = 2
  MaxStrays = 1
  MaxResumes = 6
INVARIANTS
  TypeOK
  StageIsTruthful
  OneLabelWithoutFaults
  ClosedImpliesAccepted
  MetricSuccessIsTrue
  SupervisedMergeIsApproved
PROPERTIES
  NoStaleResume
  ImplementsLifecycle
  EventuallyEnds
  ResumeIsHeard
  ApprovalIsHeard
CHECK_DEADLOCK FALSE
