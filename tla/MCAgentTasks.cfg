SPECIFICATION FairTaskSpec
CONSTANTS
  a1 = a1
  a2 = a2
  s1 = s1
  s2 = s2
  invalidate = invalidate
  scan = scan
  Agents <- OneAgent
  Slots <- MCSlots
  Data <- MCData
  Throwing <- MCThrowing
  OfflineAge = 1
  MaxTasks = 2
  Faults <- AllFaults
INVARIANTS
  TypeOK
  AtMostOnce
  DispatchedInOrder
PROPERTIES
  DeliverySpec
  QueuedIsSettled
