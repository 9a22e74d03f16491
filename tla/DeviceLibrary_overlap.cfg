SPECIFICATION Spec
CONSTANTS
  Device = {d1}
  NoDevice = NoDevice
  Item = {a, b}
  NoItem = NoItem
  Client = {c1, c2}
  MaxVersion = 3
SYMMETRY MCSymmetry
INVARIANTS
  OnlyWinnersLand
PROPERTIES
  RowsLandInOrderUnlessRaced
  EditsBuildOnSeenList
  DeletionsStaleTheEditor
CHECK_DEADLOCK FALSE
