SPECIFICATION FairSpec
CONSTANTS
  MaxAttempts = 9
  MaxTries = 2
  MaxFixes = 2
  MaxMishaps = 2
INVARIANTS TypeOK PushedIsVerified DeliveredIsTheLastAttempt
PROPERTY RecoversUnlessPushed
CHECK_DEADLOCK FALSE
