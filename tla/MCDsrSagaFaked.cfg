SPECIFICATION Spec
CONSTANTS
  a1 = a1
  a2 = a2
  s1 = s1
  s2 = s2
  x1 = x1
  x2 = x2
  Agents <- OneAgent
  Slots <- OneSlot
  Requests <- OneRequest
  Tables <- TwoTables
  Owner <- AllOfOne
  Rescans <- NoRescans
  OfflineAge = 0
  MaxTasks = 2
  Faults <- StoreFaults
INVARIANTS
  NeverFaked
