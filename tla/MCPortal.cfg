SPECIFICATION MCSpec
CONSTANTS
  t1 = t1
  t2 = t2
  s1 = s1
  s2 = s2
  Officers <- BothOfficers
  Tokens <- TwoTokens
  MaxClock = 3
  Lifetime = 1
  Polls <- TwoPolls
  MaxOpen = 1
  MaxSamples = 200
  Values <- MCValues
  ColumnTypes <- MCColumnTypes
CHECK_DEADLOCK FALSE
INVARIANTS
  AccessIsLogged
  RefusedForGood
  CompliantIsEarned
  ReportIsJustified
  PreviewHides
PROPERTY
  TamperingIsShown
