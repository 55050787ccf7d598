SPECIFICATION FairSpec
CONSTANTS
  base = base
  t1 = t1
  x = x
  arc = arc
  Networks = {base, arc}
  Ranged = {base}
  Settings = {{base}, {arc}}
  Tenants = {t1}
  Labels = {x}
  Blocks <- OnlyTwo
  Absent = Absent
  Worth = 1
  Nodes = 2
  Pools <- TwoNodes
  Threshold = 2
  MaxRange = 2
  MaxBlocks = 2
  MaxFaults = 1
  ToolCalls = {r1, r2}
  Trial = 1
INVARIANTS
  TypeOK
  CursorCovers
  ConfirmedIsCredited
  RepeatsNeedFailures
  CreditsAddUp
  ServedWithinFunds
PROPERTIES
  TransfersAreCredited
CHECK_DEADLOCK FALSE
