SPECIFICATION Spec
CONSTANTS
  l1 = l1
  l2 = l2
  c1 = c1
  c2 = c2
  w1 = w1
  w2 = w2
  None = None
  Logins <- TwoLogins
  Clis <- TwoClis
  Browsers <- TwoBrowsers
  CodeTtl = 1
  RefreshTtl = 1
  MaxTime = 2
  MaxTokens = 3
  MaxFaults = 1
SYMMETRY Symmetry
CHECK_DEADLOCK FALSE
INVARIANTS
  TypeOK
  ConsumedOnce
  ApprovedFirst
  LogoutEnds
  OneLiveToken
  KeyringUsable
