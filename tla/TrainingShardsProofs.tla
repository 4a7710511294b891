------------------------- MODULE TrainingShardsProofs -------------------------
(***************************************************************************)
(* What the runner leaves behind, and what its manifest says, for any      *)
(* jobs, any concurrency and any number of invocations.                    *)
(***************************************************************************)
EXTENDS TrainingShards, TLAPS

Stage == {"none", "started", "training", "saving", "saved", "writing", "exited", "dead"}

Types ==
  /\ run \in 0..MaxRuns
  /\ phase \in {"off", "launch", "poll", "stop", "collect"}
  /\ todo \subseteq Job /\ active \subseteq Job
  /\ worker \in [Run -> [Job -> Stage]]
  /\ result \in [Job -> File]
  /\ killed \subseteq 1..run
  /\ phase # "off" => run \in Run /\ run \notin killed

\* No worker is started before its run; a run that ended by itself has none alive.
Quiet ==
  \A r \in Run : \A j \in Job :
    /\ r > run => worker[r][j] = "none"
    /\ Alive(r, j) /\ r < run => r \in killed
    /\ Alive(r, j) /\ r = run => phase \in {"launch", "poll", "stop"} \/ r \in killed

\* What the runner knows of the workers of its run.
Watched ==
  phase # "off" => \A j \in Job :
    /\ Alive(run, j) => j \in active
    /\ worker[run][j] = "dead" => j \in active \/ failed # {}
    /\ worker[run][j] = "exited" => result[j] \in {run, Torn} \cup killed

\* The runner stops only after a failure, and collects when none is active otherwise.
Reasons ==
  /\ phase = "stop" => failed # {}
  /\ phase = "collect" => active = {} \/ failed # {}

IInv == Types /\ Quiet /\ Watched /\ Reasons

-----------------------------------------------------------------------------
LEMMA InitHolds == Init => IInv
<1>. SUFFICES ASSUME Init PROVE IInv
  OBVIOUS
<1>. USE ShardTypes DEF Init, Run, File, NoFile, Torn
<1>1. Types
  BY DEF Types, Stage
<1>2. Quiet
  BY DEF Quiet, Alive
<1>3. Watched /\ Reasons
  BY DEF Watched, Reasons
<1>. QED
  BY <1>1, <1>2, <1>3 DEF IInv

(***************************************************************************)
(* A worker: only one that is alive moves, and it says so in one stage.    *)
(***************************************************************************)

\* The step of a worker, as far as the others see it.
Moves(r, j) ==
  /\ Alive(r, j)
  /\ \E s \in Stage \ {"none"} : worker' = [worker EXCEPT ![r][j] = s]
  /\ \E f \in File : result' = [result EXCEPT ![j] = f] \/ result' = result
  /\ result'[j] # result[j] => result'[j] \in {r, Torn}
  /\ worker'[r][j] = "exited" => result'[j] = r
  /\ UNCHANGED <<run, phase, todo, active, failed, killed>>

LEMMA WorkerMoves ==
  ASSUME Types, NEW r \in Run, NEW j \in Job, Worker(r, j)
  PROVE  Moves(r, j)
<1>. USE ShardTypes DEF Types, Moves, Alive, Stage, File, Run, NoFile, Torn
<1>1. CASE StartTraining(r, j)
  BY <1>1 DEF Worker, StartTraining, Step
<1>2. CASE OpenCheckpoint(r, j)
  BY <1>2 DEF Worker, OpenCheckpoint, Step
<1>3. CASE CloseCheckpoint(r, j)
  BY <1>3 DEF Worker, CloseCheckpoint, Step
<1>4. CASE CheckpointError(r, j)
  BY <1>4 DEF Worker, CheckpointError, files
<1>5. CASE OpenResult(r, j)
  BY <1>5 DEF Worker, OpenResult, Step
<1>6. CASE CloseResult(r, j)
  BY <1>6 DEF Worker, CloseResult, Step
<1>7. CASE Fail(r, j)
  BY <1>7 DEF Worker, Fail, files
<1>. QED
  BY <1>1, <1>2, <1>3, <1>4, <1>5, <1>6, <1>7 DEF Worker

LEMMA MovesHolds ==
  ASSUME IInv, NEW r \in Run, NEW j \in Job, Moves(r, j)
  PROVE  IInv'
<1>. USE ShardTypes DEF IInv, Types
<1>0. PICK s \in Stage \ {"none"} : worker' = [worker EXCEPT ![r][j] = s]
  BY DEF Moves
<1>1. Types'
  <2>1. worker' \in [Run -> [Job -> Stage]]
    BY <1>0
  <2>2. result' \in [Job -> File]
    BY DEF Moves
  <2>. QED
    BY <2>1, <2>2 DEF Moves
<1>2. \A q \in Run, k \in Job :
        \/ q = r /\ k = j
        \/ worker'[q][k] = worker[q][k]
  BY <1>0
<1>3. \A q \in Run, k \in Job : Alive(q, k)' => Alive(q, k)
  BY <1>2 DEF Moves, Alive
<1>4. Quiet'
  BY <1>2, <1>3 DEF Quiet, Moves, Alive
<1>5. phase # "off" => r = run \/ r \in killed
  BY DEF Quiet, Moves, Run, Alive
<1>6. Watched'
  <2>. SUFFICES ASSUME phase # "off", NEW k \in Job
                PROVE  /\ Alive(run, k)' => k \in active
                       /\ worker'[run][k] = "dead" => k \in active \/ failed # {}
                       /\ worker'[run][k] = "exited" => result'[k] \in {run, Torn} \cup killed
    BY DEF Watched, Moves, Alive
  <2>0. run \in Run
    OBVIOUS
  <2>1. Alive(run, k)' => k \in active
    BY <2>0, <1>3 DEF Watched, Moves, Alive
  <2>2. worker'[run][k] = "dead" => k \in active \/ failed # {}
    BY <2>0, <1>2 DEF Watched, Moves
  <2>3. worker'[run][k] = "exited" => result'[k] \in {run, Torn} \cup killed
    <3>1. CASE k = j /\ r = run
      BY <3>1 DEF Moves
    <3>2. CASE k = j /\ r # run
      BY <3>2, <2>0, <1>2, <1>5 DEF Watched, Moves
    <3>3. CASE k # j
      BY <3>3, <2>0, <1>2 DEF Watched, Moves
    <3>. QED
      BY <3>1, <3>2, <3>3
  <2>. QED
    BY <2>1, <2>2, <2>3
<1>7. Reasons'
  BY DEF Reasons, Moves
<1>. QED
  BY <1>1, <1>4, <1>6, <1>7

(***************************************************************************)
(* The runner.                                                             *)
(***************************************************************************)
LEMMA InvokeHolds == IInv /\ Invoke => IInv'
<1>. SUFFICES ASSUME IInv, Invoke PROVE IInv'
  OBVIOUS
<1>. USE ShardTypes DEF IInv, Types, Invoke, At, Run
<1>1. run' \in Run /\ run' \notin killed /\ killed \subseteq 1..run'
  OBVIOUS
<1>2. Types'
  BY <1>1 DEF files
<1>3. \A r \in Run, j \in Job : r > run => worker[r][j] = "none"
  BY DEF Quiet
<1>4. Quiet'
  BY <1>3 DEF Quiet, Alive
<1>5. Watched'
  BY <1>1, <1>3 DEF Watched, Alive
<1>6. Reasons'
  BY DEF Reasons
<1>. QED
  BY <1>2, <1>4, <1>5, <1>6

LEMMA LaunchHolds == IInv /\ Launch => IInv'
<1>. SUFFICES ASSUME IInv, Launch PROVE IInv'
  OBVIOUS
<1>. USE ShardTypes DEF IInv, Types, Launch, At, files
<1>0. PICK new \in SUBSET todo :
        /\ active' = active \cup new
        /\ todo' = todo \ new
        /\ worker' = [worker EXCEPT ![run] =
             [j \in Job |-> IF j \in new THEN "started" ELSE @[j]]]
  OBVIOUS
<1>1. run \in Run /\ run \notin killed
  OBVIOUS
<1>2. \A r \in Run, j \in Job :
        worker'[r][j] = IF r = run /\ j \in new THEN "started" ELSE worker[r][j]
  BY <1>0, <1>1
<1>3. Types'
  <2>1. [j \in Job |-> IF j \in new THEN "started" ELSE worker[run][j]] \in [Job -> Stage]
    BY <1>1 DEF Stage
  <2>2. worker' \in [Run -> [Job -> Stage]]
    BY <1>0, <1>1, <2>1
  <2>. QED
    BY <1>0, <2>2
<1>4. Quiet'
  BY <1>1, <1>2 DEF Quiet, Alive
<1>5. Watched'
  BY <1>0, <1>1, <1>2 DEF Watched, Alive
<1>6. Reasons'
  BY DEF Reasons
<1>. QED
  BY <1>3, <1>4, <1>5, <1>6

LEMMA PollHolds == IInv /\ Poll => IInv'
<1>. SUFFICES ASSUME IInv, Poll PROVE IInv'
  OBVIOUS
<1>. USE ShardTypes DEF IInv, Types, Poll, At, files
<1>0. PICK seen \in SUBSET Ended :
        /\ active' = active \ seen
        /\ failed' = failed \cup {j \in seen : worker[run][j] = "dead"}
  OBVIOUS
<1>1. run \in Run /\ run \notin killed
  OBVIOUS
<1>2. phase' \in {"launch", "stop"} /\ (phase' = "stop" => failed' # {})
  OBVIOUS
<1>3. Types'
  BY <1>0, <1>2
<1>4. Quiet'
  <2>1. \A r \in Run, j \in Job : Alive(r, j)' <=> Alive(r, j)
    BY DEF Alive
  <2>2. \A j \in Job : Alive(run, j) => phase' \in {"launch", "poll", "stop"}
    BY <1>2
  <2>. QED
    BY <1>2, <2>1, <2>2 DEF Quiet
<1>5. Watched'
  <2>. SUFFICES ASSUME NEW j \in Job
                PROVE  /\ Alive(run, j) => j \in active'
                       /\ worker[run][j] = "dead" => j \in active' \/ failed' # {}
                       /\ worker[run][j] = "exited" => result[j] \in {run, Torn} \cup killed
    BY DEF Watched, Alive
  <2>1. Alive(run, j) => j \in active'
    BY <1>0 DEF Watched, Ended
  <2>2. worker[run][j] = "dead" => j \in active' \/ failed' # {}
    BY <1>0 DEF Watched
  <2>3. worker[run][j] = "exited" => result[j] \in {run, Torn} \cup killed
    BY DEF Watched
  <2>. QED
    BY <2>1, <2>2, <2>3
<1>6. Reasons'
  BY <1>2 DEF Reasons
<1>. QED
  BY <1>3, <1>4, <1>5, <1>6

\* No worker of the run is alive once the runner collects.
LEMMA EndHolds == IInv /\ (Stop \/ AllEnded) => IInv'
<1>. SUFFICES ASSUME IInv, Stop \/ AllEnded PROVE IInv'
  OBVIOUS
<1>. USE ShardTypes DEF IInv, Types, Stop, AllEnded, At, files
<1>1. UNCHANGED <<run, todo, active, failed, worker, result, killed>> /\ phase' = "collect"
  OBVIOUS
<1>2. \A j \in Job : ~Alive(run, j)
  BY DEF Watched, Stopped, Ended
<1>3. Types'
  BY <1>1
<1>4. Quiet'
  BY <1>1, <1>2 DEF Quiet, Alive
<1>5. Watched'
  BY <1>1 DEF Watched, Alive
<1>6. Reasons'
  BY <1>1 DEF Reasons
<1>. QED
  BY <1>3, <1>4, <1>5, <1>6

LEMMA CollectHolds == IInv /\ Collect => IInv'
<1>. SUFFICES ASSUME IInv, Collect PROVE IInv'
  OBVIOUS
<1>. USE ShardTypes DEF IInv, Types, Collect, At
<1>1. Types' /\ Watched' /\ Reasons'
  BY DEF Watched, Reasons
<1>2. Quiet'
  BY DEF Quiet, Alive
<1>. QED
  BY <1>1, <1>2

LEMMA KillHolds == IInv /\ Kill => IInv'
<1>. SUFFICES ASSUME IInv, Kill PROVE IInv'
  OBVIOUS
<1>. USE ShardTypes DEF IInv, Types, Kill, At, Run, files
<1>1. Types' /\ Watched' /\ Reasons'
  BY DEF Watched, Reasons
<1>2. Quiet'
  BY DEF Quiet, Alive
<1>. QED
  BY <1>1, <1>2

-----------------------------------------------------------------------------
\* What the runner and its workers keep to in every step.
THEOREM Invariance == Spec => []IInv
<1>1. IInv /\ [Next]_vars => IInv'
  <2>. SUFFICES ASSUME IInv, [Next]_vars PROVE IInv'
    OBVIOUS
  <2>1. ASSUME NEW r \in Run, NEW j \in Job, Worker(r, j) PROVE IInv'
    BY <2>1, WorkerMoves, MovesHolds DEF IInv
  <2>2. CASE UNCHANGED vars
    BY <2>2 DEF vars, IInv, Types, Quiet, Watched, Reasons, Alive
  <2>. QED
    BY <2>1, <2>2, InvokeHolds, LaunchHolds, PollHolds, EndHolds, CollectHolds, KillHolds
    DEF Next, Over
<1>. QED
  BY InitHolds, <1>1, PTL DEF Spec

\* A runner that was not killed leaves no worker behind (start_shard, terminate, wait).
THEOREM NothingLeftRunningTheorem == Spec => []NothingLeftRunning
<1>1. IInv => NothingLeftRunning
  BY DEF IInv, Types, Quiet, NothingLeftRunning, At, Run, Alive
<1>. QED
  BY Invariance, <1>1, PTL

\* What main writes as completed: each job has a whole result, from a worker of this
\* run that exited with 0, from an earlier one that was skipped, or written over by a
\* worker of a killed runner.
THEOREM ManifestIsTrueTheorem == Spec => ManifestIsTrue
<1>. DEFINE Truthful ==
       manifest' # manifest /\ manifest'.completed =>
         \A j \in Job :
           /\ result[j] \in Run
           /\ worker[run][j] \in {"none", "exited"}
           /\ worker[run][j] = "exited" => result[j] = run \/ result[j] \in killed
<1>1. ASSUME IInv, Collect PROVE Truthful
  <2>. SUFFICES ASSUME manifest' # manifest, manifest'.completed, NEW j \in Job
                PROVE  /\ result[j] \in Run
                       /\ worker[run][j] \in {"none", "exited"}
                       /\ worker[run][j] = "exited" => result[j] = run \/ result[j] \in killed
    OBVIOUS
  <2>1. /\ \A k \in Job : result[k] # Torn
        /\ Completed
    BY <1>1 DEF Collect
  <2>2. result[j] \in Run
    BY <1>1, <2>1 DEF Completed, IInv, Types, File
  <2>3. run \in Run /\ run \notin killed /\ phase = "collect"
    BY <1>1 DEF Collect, At, IInv, Types
  <2>4. ~Alive(run, j) /\ worker[run][j] # "dead"
    BY <1>1, <2>1, <2>3 DEF Completed, IInv, Types, Quiet, Watched, Reasons, Run
  <2>5. worker[run][j] \in {"none", "exited"}
    BY <2>4 DEF Alive
  <2>6. worker[run][j] = "exited" => result[j] = run \/ result[j] \in killed
    BY <1>1, <2>1, <2>3 DEF IInv, Watched
  <2>. QED
    BY <2>2, <2>5, <2>6
<1>2. ASSUME Invoke PROVE Truthful
  BY <1>2 DEF Invoke, NoManifest, files
<1>3. ASSUME NEW r \in Run, NEW j \in Job, Worker(r, j) PROVE Truthful
  BY <1>3 DEF Worker, StartTraining, OpenCheckpoint, CloseCheckpoint, CheckpointError,
              OpenResult, CloseResult, Fail, files
<1>4. ASSUME Launch \/ Poll \/ Stop \/ AllEnded \/ Kill \/ UNCHANGED vars PROVE Truthful
  BY <1>4 DEF Launch, Poll, Stop, AllEnded, Kill, files, vars
<1>5. IInv /\ [Next]_vars => [Truthful]_vars
  BY <1>1, <1>2, <1>3, <1>4 DEF Next, Over
<1>. QED
  BY Invariance, <1>5, PTL DEF Spec, ManifestIsTrue

=============================================================================
