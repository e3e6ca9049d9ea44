SPECIFICATION FairSpec
CONSTANTS
  a = a
  b = b
  c = c
  d = d
  Node <- Line
  Cost <- LineCost
  Dist <- LineDist
  INFINITE_COST = 5
  NoNode = NoNode
  StartedAtOnce = {a, b, c}
  Startable = {c}
  Stoppable = {c}
  Dest = {d}
  MaxQueue = 1
  MaxStops = 1
CHECK_DEADLOCK FALSE
INVARIANTS TypeOK RealDistance RoutesAgree CostsFall NoRoutingLoop
PROPERTIES Converges PacketsEnd
