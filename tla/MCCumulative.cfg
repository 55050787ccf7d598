SPECIFICATION MCSpec
CONSTANTS
  c1 = c1
  c2 = c2
  Channels = {c1, c2}
  s1 = s1
  x1 = x1
  SdkPayers = {s1}
  XylemPayers = {}
  r1 = r1
  r2 = r2
  Requests = {r1, r2}
  Prices = {1, 2}
  Starts = {0}
  MaxFaults = 1
  Vault = Vault
  Funds <- FundsValue
  Threshold = 2
  Reserve = 2
  SweepThreshold = 5
  Margin = 1
  Fee = 1
  HotBalance = 7
INVARIANT CumulativeClaims
CHECK_DEADLOCK FALSE
