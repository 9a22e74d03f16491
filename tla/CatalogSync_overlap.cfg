SPECIFICATION Spec
CONSTANTS
  Run = {r1, r2}
  NoRun = NoRun
  small = small
  big = big
  Sha = {small, big}
  NoSha = NoSha
  Size <- MCSize
  Cards <- MCCards
  MinExpectedBooks = 1
  Retries = 1
  TailExclusive = FALSE
SYMMETRY MCRunSymmetry
INVARIANTS
  RunHistoryIsTrue
  GenerationNamesItsSource
PROPERTIES
  FencedActivation
  SwitchRetainsBooks
CHECK_DEADLOCK FALSE
