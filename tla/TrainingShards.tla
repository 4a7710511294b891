---------------------------- MODULE TrainingShards ----------------------------
(***************************************************************************)
(* Sharded training.  A runner starts one worker process per job (a        *)
(* variant and a seed), a few at a time, polls them, stops the others when *)
(* one fails, and sums the result files up in a manifest.  It is run again *)
(* after failures, with --force, with --skip-completed or with neither.    *)
(*                                                                         *)
(* A worker may fail at any point, and so may the runner, whose workers    *)
(* then go on without it.  Files are opened before they are complete.      *)
(***************************************************************************)
EXTENDS Integers, FiniteSets

CONSTANTS
  Job,          \* build_job_plan
  Masac,        \* the jobs of train_semantic_ippo_runtime; the others are MAPPO and IQL
  Concurrency,  \* seed_concurrency
  MaxRuns       \* bound on the invocations of the runner

ASSUME ShardTypes ==
  Masac \subseteq Job /\ Concurrency \in Nat \ {0} /\ MaxRuns \in Nat

Run == 1..MaxRuns

\* A file is absent, incomplete, or written by the worker of a run.
NoFile == 0
Torn == -1
File == Run \cup {NoFile, Torn}
NoManifest == [run |-> NoFile, completed |-> FALSE]

VARIABLES
  run,         \* the last invocation
  phase,       \* where the runner is; "off" when it is not running
  todo,        \* requested_jobs from next_job on
  active,      \* active_processes
  failed,      \* failed
  worker,      \* the stage of the worker process of each run and job
  checkpoint,  \* the checkpoint file of each job
  result,      \* logs/stage1_<variant>_seed_<seed>_result.json
  manifest,    \* stage1_training_manifest.json
  killed       \* the runs whose runner was killed

vars == <<run, phase, todo, active, failed, worker, checkpoint, result, manifest, killed>>
files == <<checkpoint, result, manifest>>

At(p) == phase = p
Alive(r, j) == worker[r][j] \notin {"none", "exited", "dead"}
Step(r, j, from, to) ==
  worker[r][j] = from /\ worker' = [worker EXCEPT ![r][j] = to]

-----------------------------------------------------------------------------
(***************************************************************************)
(* The worker (SHARD_CODE).                                                *)
(***************************************************************************)

\* train_semantic_ippo_runtime empties the directory of its seed.
StartTraining(r, j) ==
  /\ Step(r, j, "started", "training")
  /\ checkpoint' = IF j \in Masac THEN [checkpoint EXCEPT ![j] = NoFile] ELSE checkpoint
  /\ UNCHANGED <<result, manifest>>

OpenCheckpoint(r, j) ==
  /\ Step(r, j, "training", "saving")
  /\ checkpoint' = [checkpoint EXCEPT ![j] = Torn]
  /\ UNCHANGED <<result, manifest>>

CloseCheckpoint(r, j) ==
  /\ Step(r, j, "saving", "saved")
  /\ checkpoint' = [checkpoint EXCEPT ![j] = r]
  /\ UNCHANGED <<result, manifest>>

\* An error of torch.save ends a MAPPO or IQL worker; a MASAC worker catches it.
CheckpointError(r, j) ==
  /\ j \in Masac
  /\ worker[r][j] \in {"training", "saving"}
  /\ worker' = [worker EXCEPT ![r][j] = "saved"]
  /\ UNCHANGED files

OpenResult(r, j) ==
  /\ Step(r, j, "saved", "writing")
  /\ result' = [result EXCEPT ![j] = Torn]
  /\ UNCHANGED <<checkpoint, manifest>>

CloseResult(r, j) ==
  /\ Step(r, j, "writing", "exited")
  /\ result' = [result EXCEPT ![j] = r]
  /\ UNCHANGED <<checkpoint, manifest>>

\* An exception, a signal of the runner, or one from outside.
Fail(r, j) ==
  /\ Alive(r, j)
  /\ worker' = [worker EXCEPT ![r][j] = "dead"]
  /\ UNCHANGED files

Worker(r, j) ==
  /\ \/ StartTraining(r, j) \/ OpenCheckpoint(r, j) \/ CloseCheckpoint(r, j)
     \/ CheckpointError(r, j) \/ OpenResult(r, j) \/ CloseResult(r, j) \/ Fail(r, j)
  /\ UNCHANGED <<run, phase, todo, active, failed, killed>>

-----------------------------------------------------------------------------
(***************************************************************************)
(* The runner (main).                                                      *)
(***************************************************************************)
ShardCompleted(j) == checkpoint[j] # NoFile /\ result[j] # NoFile

\* --force removes the checkpoints and the manifest, not the results; with
\* --skip-completed the jobs that have both files are not run.
Invoke ==
  /\ At("off") /\ run < MaxRuns
  /\ run' = run + 1
  /\ phase' = "launch"
  /\ active' = {} /\ failed' = {}
  /\ \/ /\ todo' = Job
        /\ UNCHANGED files
     \/ /\ todo' = Job
        /\ checkpoint' = [j \in Job |-> NoFile]
        /\ manifest' = NoManifest
        /\ UNCHANGED result
     \/ /\ todo' = {j \in Job : ~ShardCompleted(j)}
        /\ UNCHANGED files
  /\ UNCHANGED <<worker, killed>>

\* The inner loop: start_shard until seed_concurrency workers are active.  The order of
\* the plan is left open.
Launch ==
  /\ At("launch") /\ (todo # {} \/ active # {})
  /\ \E new \in SUBSET todo :
       /\ Cardinality(new \cup active) <= Concurrency
       /\ new = todo \/ Cardinality(new \cup active) = Concurrency
       /\ active' = active \cup new
       /\ todo' = todo \ new
       /\ worker' = [worker EXCEPT ![run] =
            [j \in Job |-> IF j \in new THEN "started" ELSE @[j]]]
  /\ phase' = "poll"
  /\ UNCHANGED <<run, failed, killed, files>>

\* One pass of poll() over the active workers; one that ends meanwhile may be missed.
Ended == {j \in active : ~Alive(run, j)}
Poll ==
  /\ At("poll")
  /\ \E seen \in SUBSET Ended :
       /\ active' = active \ seen
       /\ failed' = failed \cup {j \in seen : worker[run][j] = "dead"}
  /\ phase' = IF failed' = {} THEN "launch" ELSE "stop"
  /\ UNCHANGED <<run, todo, worker, killed, files>>

\* Mutant of Stopped: the workers are signalled and not waited for.
StoppedUnwaited == TRUE

\* terminate() and wait(), for the workers still active
Stopped == active = Ended

Stop ==
  /\ At("stop") /\ Stopped
  /\ phase' = "collect"
  /\ UNCHANGED <<run, todo, active, failed, worker, killed, files>>

AllEnded ==
  /\ At("launch") /\ todo = {} /\ active = {}
  /\ phase' = "collect"
  /\ UNCHANGED <<run, todo, active, failed, worker, killed, files>>

\* Mutant of Completed: the results are counted, whatever failed.
CompletedIfAllThere == \A j \in Job : result[j] # NoFile

Completed == failed = {} /\ \A j \in Job : result[j] # NoFile

\* A result that cannot be parsed raises, and no manifest is written.
Collect ==
  /\ At("collect")
  /\ manifest' = IF \E j \in Job : result[j] = Torn
                 THEN manifest ELSE [run |-> run, completed |-> Completed]
  /\ phase' = "off"
  /\ UNCHANGED <<run, todo, active, failed, worker, checkpoint, result, killed>>

\* The runner is killed, or raises: its workers go on.
Kill ==
  /\ ~At("off")
  /\ phase' = "off"
  /\ killed' = killed \cup {run}
  /\ UNCHANGED <<run, todo, active, failed, worker, files>>

-----------------------------------------------------------------------------
Init ==
  /\ run = 0 /\ phase = "off"
  /\ todo = {} /\ active = {} /\ failed = {}
  /\ worker = [r \in Run |-> [j \in Job |-> "none"]]
  /\ checkpoint = [j \in Job |-> NoFile]
  /\ result = [j \in Job |-> NoFile]
  /\ manifest = NoManifest
  /\ killed = {}

Over ==
  /\ At("off") /\ run = MaxRuns /\ \A r \in Run, j \in Job : ~Alive(r, j)
  /\ UNCHANGED vars

Next ==
  \/ Invoke \/ Launch \/ Poll \/ Stop \/ AllEnded \/ Collect \/ Kill
  \/ \E r \in Run, j \in Job : Worker(r, j)
  \/ Over

Spec == Init /\ [][Next]_vars

-----------------------------------------------------------------------------
(***************************************************************************)
(* Properties.                                                             *)
(***************************************************************************)

\* When the manifest says completed, every job has a whole result; the jobs of the
\* run all exited with 0, and the result of each is theirs, or that of a worker
\* whose runner was killed.
ManifestIsTrue ==
  [][manifest' # manifest /\ manifest'.completed =>
       \A j \in Job :
         /\ result[j] \in Run
         /\ worker[run][j] \in {"none", "exited"}
         /\ worker[run][j] = "exited" => result[j] = run \/ result[j] \in killed]_vars

\* A runner that was not killed leaves no worker behind: it writes the manifest when
\* all have ended, and the next run has the files to itself.
NothingLeftRunning ==
  \A r \in Run \ killed : At("collect") \/ r < run \/ At("off") =>
    \A j \in Job : ~Alive(r, j)

=============================================================================
