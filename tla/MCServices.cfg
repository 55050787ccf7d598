\* Eight small services, one at a time.
CONSTANTS
  \* RateLimits
  Limit = 2
  Window = 2
  Ticks = 2
  Skew = 1
  Instances = {i1, i2}
  MaxTime = 7
  MaxCalls = 5
  \* TenantCredits
  Workers = {w1, w2}
  Seed = 3
  Low = 2
  Charges = {1, 2}
  Amounts = {2}
  MaxCharges = 3
  MaxPaid = 2
  MaxScans = 1
  MaxStops = 1
  \* CommitDag
  Orgs = {o1, o2}
  Projects = {p1, p2}
  Handlers = {h1, h2}
  MaxNodes = 3
  MaxTries = 2
  MaxFaults = 1
  \* AgentGraph
  Sessions = {s1, s2}
  MaxIterations = 3
  MaxAborts = 1
  \* TaskStore
  Inquiries = {q1, q2, q3}
  MaxMishaps = 2
  \* MarketQuotes
  Prices = {1, 3}
  Volumes = {0, 1, 2}
  TradeAmounts = {2}
  Reserves = {1, 2}
  Fees = {0, 1}
  FeeUnit = 4
  MaxOffers = 2
  MaxShifts = 2
  \* TicketPool
  Bots = {b1, b2}
  Target = 2
  MaxMoves = 4
  \* Sweeper
  Threshold = 10
  Transfer = 10
  Tip = 1
  TopFee = 4
  Ether = 14
  MaxArrivals = 2
  MaxErrors = 1
  MaxBlocks = 1
SPECIFICATION ServicesSpec
CHECK_DEADLOCK FALSE
INVARIANTS
  ServicesTypeOK
  LimiterSound
  CreditsSound
  DagSound
  AuditTrailsTell
  MarketSound
  PoolWithinTarget
  OneSweepWaits
PROPERTIES
  SeedlingsGrow
  SessionsEnd
  FundsSwept
