SPECIFICATION FairSpec
CONSTANTS
  Keys = {k1}
  Names <- MCNames
  Clients = {c1, c2}
  Containers = {o1, o2, o3}
  Null = Null
  Nil = Nil
  Commands <- MCCommands
  MaxCalls = 3
INVARIANTS TypeOK SetCountsAddUp
PROPERTIES LossesOverlap NxOverridesFreshOnly CallsReturn
CHECK_DEADLOCK FALSE
