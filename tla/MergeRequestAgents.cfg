SPECIFICATION Spec
CONSTANTS
  b1 = b1
  bf = bf
  m1 = m1
  s1 = s1
  i1 = i1
  f1 = f1
  tm = tm
  ts = ts
  Blocking = {b1, bf}
  Moderate = {m1}
  FileLevel = {bf}
  Smells = {s1}
  Issues = {i1}
  Files = {f1}
  FileOf <- MCFileOf
  TitleOf <- MCTitleOf
  MaxTries = 2
  MaxMishaps = 2
INVARIANTS TypeOK BlockersFixed OneBacklogIssue ModerateReachesBacklog NoRecommitWithoutResume
PROPERTIES PersonsWorkIsKept
CHECK_DEADLOCK FALSE
