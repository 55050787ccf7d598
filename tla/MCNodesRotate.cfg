SPECIFICATION FairSpec
CONSTANTS
  base = base
  t1 = t1
  x = x
  arc = arc
  Networks = {base, arc}
  Ranged = {base}
  Settings = {{base}}
  Tenants = {t1}
  Labels = {x}
  Blocks <- OnlyTwo
  Absent = Absent
  Worth = 1
  Nodes = 2
  Pools <- HeadFirst
  Threshold = 2
  MaxRange = 2
  MaxBlocks = 2
  MaxFaults = 0
  ToolCalls = {r1}
  Trial = 1
PROPERTIES
  NodesRotate
CHECK_DEADLOCK FALSE
