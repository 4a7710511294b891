CONSTANTS
  car = car
  uav = uav
  rsu = rsu
  NoChain = NoChain
  NoInstance = NoInstance
  NoNode = NoNode
  Chain <- MCChain
  Fn <- MCFn
  Order <- MCOrder
  Edges <- MCEdges
  Carrier <- MCCarrier
  Optional <- MCOptional
  Source <- MCSource
  Sink <- MCSink
  Deadline <- MCDeadline
  Override <- MCOverride
  NoOverride = NoOverride
  Demand <- MCDemand
  Instance <- MCInstance
  Serves <- MCServes
  HostOf <- MCHostOf
  Capacity <- MCCapacity
  MaxConcurrency <- MCCapacity
  Down = {"onRsu"}
  AutoRecover = {"onRsu"}
  Node <- MCNode
  Vehicles = {car}
  UAVs = {uav}
  MaxSteps = 4
  MaxTime = 4
SPECIFICATION Spec
INVARIANT MaliciousEndsChain
