SPECIFICATION Spec
CONSTANTS
  u1 = u1
  u2 = u2
  e1 = e1
  w1 = w1
  w2 = w2
  p1 = p1
  p2 = p2
  h1 = h1
  h2 = h2
  b1 = b1
  t1 = t1
  t2 = t2
  vase = vase
  mug = mug
  lamp = lamp
  Accounts <- TwoAccounts
  Emails <- OneEmail
  Passwords <- TwoPasswords
  Purposes <- TwoPurposes
  Consents <- AllPurposes
  Handlers <- TwoHandlers
  Browsers <- OneBrowser
  MaxTokens = 2
  Products <- MCProducts
  Catalog <- MCCatalog
  SeedStock <- MCSeedStock
  Processes <- BothProcesses
  Tills <- TwoTills
  StaffStocks <- MCStaffStocks
  MaxUnits = 2
  MaxOrders = 2
  MaxEdits = 1
  Faults <- AllFaults
  Workloads <- MCWorkloads
SYMMETRY Interchangeable
INVARIANTS
  TypeOK
  NobodyIsLockedOut
  WithdrawnStaysWithdrawn
  SessionOfOwner
  SeedIsComplete
  StockIsAccounted
  ChargedForChosen
