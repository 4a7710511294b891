CONSTANTS
  car = car
  uav = uav
  rsu = rsu
  rsu2 = rsu2
  cloud = cloud
  NoNode = NoNode
  Task <- Chain
  Node <- MCNode
  Vehicles = {car}
  UAVs = {uav}
  Clouds = {cloud}
  WiredLinks <- MCWiredLinks
  TaskNodeOf <- ChainNodeOf
  ReturnNodeOf <- ChainReturnNodeOf
  Returns = {"first", "second"}
  External = {"first", "second"}
  ArrivalOf <- ChainArrivalOf
  DeadlineOf <- ChainDeadlineOf
  Parents <- ChainParents
  OffloadRoutes <- ChainOffloadRoutes
  ReturnRoutes <- ChainReturnRoutes
  TTI = 2
  MaxTime = 6
SPECIFICATION Spec
INVARIANT ReturnRouteOnce
