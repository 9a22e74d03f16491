CONSTANTS
  j1 = j1
  u1 = u1
  Job <- MCJob
  Upload <- MCUpload
  MaxAttempts = 2
  FetchBudget = 2
  Margin = 1
  Ceiling = 1
  UploadCeiling = 2
  DrainSlack = 1
  Slots = 1
  UploadSlots = 1
  MaxStops = 1
SPECIFICATION FairSpec
INVARIANTS NoSlotLeak OverrunHasCause DrainSparesConversions
PROPERTIES SlotsComeBack
CHECK_DEADLOCK FALSE
