---------------------------- MODULE MCMarlEpisode ----------------------------
(***************************************************************************)
(* Two chains: one that forks, the second branch optional, and one of one  *)
(* function that arrives later.                                            *)
(***************************************************************************)
EXTENDS MarlEpisode

CONSTANTS fork, late

MCChain == {fork, late}
MCFn == {"sense", "fuse", "warn"}
MCOrder == fork :> <<"sense", "fuse", "warn">> @@ late :> <<"sense">>
MCEdges == fork :> {<<"sense", "fuse">>, <<"sense", "warn">>} @@ late :> {}
MCOptional == fork :> {"warn"} @@ late :> {}
MCArrival == fork :> 0 @@ late :> 2
MCDeadline == fork :> 3 @@ late :> 1
MCOverriding == fork :> {"fuse"} @@ late :> {}

=============================================================================
