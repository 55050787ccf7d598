SPECIFICATION Spec
CONSTANTS
  t1 = t1
  t2 = t2
  r1 = r1
  r2 = r2
  r3 = r3
  x1 = x1
  x2 = x2
  daemon = daemon
  task = task
  Tenants = {t1, t2}
  Requests = {r1, r2}
  Txs = {x1}
  Costs = {2}
  Amounts <- MixedAmounts
  SignupCredit = 3
  Threshold = 2
  MaxRate = 1
  BatchSize = 2
  WorkerReader = WorkerReader
  Daemons = {daemon}
  XrplTasks = {}
  NoDeposit = NoDeposit
  NoMsg = NoMsg
  MaxPayments = 2
  MaxTopUps = 2
  MaxFaults = 1
SYMMETRY Symmetry
INVARIANTS
  TypeOK
  BalancesAddUp
  LedgerSound
  NothingForgotten
  CreditsAreExclusive
  AlertsAreFresh
PROPERTIES
  ImplementsAccount
CHECK_DEADLOCK FALSE
