SPECIFICATION Spec
CONSTANTS
  NbStories = 2
  MaxExchanges = 3
  MaxFailures = 2
  MaxMishaps = 3
INVARIANTS TypeOK DuplicatesNeedFailures SuccessIsComplete HistoryIsValid
PROPERTIES NoSupersededEpic
