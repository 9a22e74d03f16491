SPECIFICATION Spec
CONSTANTS
  s1 = s1
  s2 = s2
  s3 = s3
  j1 = j1
  j2 = j2
  Item = {s1, s2, s3}
  NoItem = NoItem
  Job = {j1, j2}
  JobOf <- MCJobOf
  Size <- MCSize
  Deleter = {d1}
  MaxItems = 2
  MaxBytes = 2
  InsertFails = FALSE
  LostInsert = FALSE
INVARIANTS
  LiveRowHasObject
  AnsweredItemStands
  FailedSaveHasCause
  QuotaUnlessCrowded
  UnrecordedObjectHasCause
CHECK_DEADLOCK FALSE
