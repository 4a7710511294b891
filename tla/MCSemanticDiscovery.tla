------------------------ MODULE MCSemanticDiscovery ------------------------
(***************************************************************************)
(* Three agents and a region without one, in five topologies: alone, a     *)
(* line, the line with its ends swapped, a star around the agentless       *)
(* region and a star around an agent.                                      *)
(***************************************************************************)
EXTENDS SemanticDiscovery, TLC

CONSTANTS east, mid, north, west

MCRegion == {east, mid, north, west}
MCAgent == {east, mid, west}
MCRank == east :> 1 @@ mid :> 2 @@ north :> 3 @@ west :> 4
MCTopologies ==
  {{},
   {<<east, mid>>, <<mid, west>>},
   {<<mid, east>>, <<east, west>>},
   {<<east, north>>, <<mid, north>>, <<west, north>>},
   {<<mid, east>>, <<mid, north>>, <<mid, west>>}}

=============================================================================
