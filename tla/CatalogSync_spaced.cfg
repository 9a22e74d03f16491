SPECIFICATION FairSpec
CONSTANTS
  Run = {r1, r2}
  NoRun = NoRun
  small = small
  big = big
  Sha = {small, big}
  NoSha = NoSha
  Size <- MCSize
  Cards <- MCCards
  MinExpectedBooks = 1
  Retries = 0
  TailExclusive = TRUE
PROPERTIES
  ImplementsPublish
  RunTerminates
  LockRecovers
CHECK_DEADLOCK FALSE
