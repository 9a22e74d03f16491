SPECIFICATION FairSpec
CONSTANTS
  p1 = p1
  d1 = d1
  d2 = d2
  d3 = d3
  a1 = a1
  c1 = c1
  c2 = c2
  Pairing <- MCPairing1
  Device <- MCDevice
  NoDevice = NoDevice
  Account <- MCAccount
  Client <- MCClient
  Nothing = Nothing
  MaxDevices = 1
  MaxAttempts = 2
INVARIANTS AnswersAgree OrphanHasCause HandedTokenWorks QuotaBound
PROPERTIES ImplementsPromise PollingEnds
CHECK_DEADLOCK FALSE
