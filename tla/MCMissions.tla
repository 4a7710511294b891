------------------------------ MODULE MCMissions ------------------------------
(***************************************************************************)
(* Two vehicles and a UAV with one sensor each and a UAV without; two      *)
(* missions, which every sensor suits.  One profile has a duration the     *)
(* interval divides, one ends as it is appointed.                          *)
(***************************************************************************)
EXTENDS Missions, TLC

CONSTANTS car, van, drone, kite, lidar, radar, camera

MCOwner == lidar :> car @@ radar :> van @@ camera :> drone
MCSuits == [m \in Mission |-> Sensor]
MCProfiles ==
  {[arrival |-> 1, deadline |-> 13, duration |-> 1],
   [arrival |-> 2, deadline |-> 10, duration |-> 2],
   [arrival |-> 4, deadline |-> 4, duration |-> 1]}
MCSymmetry == Permutations(Mission)

=============================================================================
