SPECIFICATION Spec
CONSTANTS
  u1 = u1
  u2 = u2
  p1 = p1
  p2 = p2
  Principals <- MCPrincipals
  Purposes <- MCPurposes
  MaxTtl = 2
  Seeds <- MCSeeds
  Ttls <- MCTtls
  Withdrawals <- MCWithdrawals
INVARIANTS
  TypeOK
PROPERTIES
  LeaseSpec
