CONSTANTS
  east = east
  mid = mid
  north = north
  west = west
  Region <- MCRegion
  Agent <- MCAgent
  Rank <- MCRank
  Topologies <- MCTopologies
  FixedDelay = 2
  PerHop = 1
  Radius = 2
  TTL = 6
  Durations = {4, 5}
  MaxSteps = 3
SPECIFICATION Spec
INVARIANTS
  TypeOK
  OfferedIsRecent
PROPERTIES
  NewestKept
  SentIsHeard
