CONSTANTS
  fork = fork
  late = late
  Chain <- MCChain
  Fn <- MCFn
  Order <- MCOrder
  Edges <- MCEdges
  Optional <- MCOptional
  Arrival <- MCArrival
  Deadline <- MCDeadline
  Overriding <- MCOverriding
  MinTicks = 1
  MaxTicks = 2
  MaxSteps = 3
  Episodes = 2
  Capacity = 2
SPECIFICATION Spec
INVARIANTS
  TypeOK
  VerdictCreditedOnce
  FateCreditedOnce
  OnlyAgentsDecide
  EpisodeIsComplete
PROPERTIES
  PastIsSettled
  SeenBeforeRefused
