SPECIFICATION FairSpec
CONSTANTS
  a1 = a1
  a2 = a2
  u1 = u1
  p1 = p1
  p2 = p2
  s1 = s1
  Agents <- OneAgent
  Principals <- OnePrincipal
  Purposes <- OnePurpose
  Slots <- OneSlot
  Withdrawn <- Everything
  Ttls <- LongTtl
  MaxTtl = 1
  ReadLag = 0
  OfflineAge = 0
  MaxTasks = 2
  Faults <- AllFaults
PROPERTIES
  StaleIsEvicted
INVARIANTS
  TypeOK
  BoundedStaleness
  StaleIsCovered
