SPECIFICATION FairSpec
CONSTANTS
  t1 = t1
  t2 = t2
  r1 = r1
  r2 = r2
  r3 = r3
  x1 = x1
  x2 = x2
  daemon = daemon
  task = task
  Tenants = {t1}
  Requests = {r1, r2}
  Txs = {x1}
  Costs = {1}
  Amounts = {2}
  SignupCredit = 2
  Threshold = 1
  MaxRate = 2
  BatchSize = 1
  WorkerReader = WorkerReader
  Daemons = {daemon}
  XrplTasks = {task}
  NoDeposit = NoDeposit
  NoMsg = NoMsg
  MaxPayments = 2
  MaxTopUps = 0
  MaxFaults = 1
PROPERTIES
  UsageReachesLedger
  DepositsAreCredited
  WorkerCatchesUp
CHECK_DEADLOCK FALSE
