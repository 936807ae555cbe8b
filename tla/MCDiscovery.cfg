SPECIFICATION FairSpec
CONSTANTS
  s1 = s1
  s2 = s2
  Absent = Absent
  NoChecksum = NoChecksum
  Slots <- TwoSlots
  Tables <- OneTable
  Shapes <- TwoShapes
  MaxDdl = 2
  MaxFaults = 1
  Faults <- AllFaults
INVARIANTS
  TypeOK
  ScanningIsTrue
  MapFollowsChecksum
PROPERTIES
  DriftIsNoticed
  DormantAgain
