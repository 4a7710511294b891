-------------------------- MODULE MCTrainingShards --------------------------
(***************************************************************************)
(* Three jobs, one of them MASAC and two alike, two workers at a time, two *)
(* runs.                                                                   *)
(***************************************************************************)
EXTENDS TrainingShards, TLC

CONSTANTS masac, mappo, iql

\* MAPPO and IQL jobs are treated the same
Alike == Permutations({mappo, iql})

=============================================================================
