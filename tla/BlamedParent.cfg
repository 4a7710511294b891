CONSTANTS
  car = car
  uav = uav
  rsu = rsu
  rsu2 = rsu2
  cloud = cloud
  NoNode = NoNode
  Task <- Dag
  Node <- MCNode
  Vehicles = {car}
  UAVs = {uav}
  Clouds = {cloud}
  WiredLinks <- MCWiredLinks
  TaskNodeOf <- DagNodeOf
  ReturnNodeOf <- DagNodeOf
  Returns = {"parent", "child"}
  External = {}
  ArrivalOf <- DagArrivalOf
  DeadlineOf <- DagDeadlineOf
  Parents <- DagParents
  OffloadRoutes <- DagOffloadRoutes
  ReturnRoutes <- DagReturnRoutes
  TTI = 2
  MaxTime = 6
SPECIFICATION Spec
INVARIANT ParentIsToBlame
