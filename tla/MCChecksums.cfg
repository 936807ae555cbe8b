SPECIFICATION MCSpec
CONSTANTS
  c1 = c1
  c2 = c2
  p1 = p1
  EventTypes <- MCEventTypes
  Principals <- MCPrincipals
  Contents <- MCContents
  MaxBlocks = 3
  MaxEdits = 2
  MaxLength = 19
CHECK_DEADLOCK FALSE
INVARIANTS
  TypeOK
  IntegrityExact
  HeadBinding
  GeneratedValidates
  SlipsAreNoticed
PROPERTIES
  EditsAreLocated
