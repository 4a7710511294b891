---------------------------- MODULE ServiceChain ----------------------------
(***************************************************************************)
(* LASDM service chains on AirFogSim: LASDMManager keeps the chains,       *)
(* LASDMOrchestrator plans each chain onto service instances, and          *)
(* LASDMRuntimeBridge builds one AirFogSim task per ready function, hands  *)
(* it to the task queues and reads the queues back once per step.          *)
(*                                                                         *)
(* One round of LASDMEnvAdapter.run_benchmark is: synchronise, refresh the *)
(* instances, submit, plan, create tasks, offload them, one env.step,      *)
(* synchronise again.  The step itself is the subject of TaskLifecycle;    *)
(* here it is reduced to what it may do to the tasks of the chains.        *)
(***************************************************************************)
EXTENDS Integers, Sequences, FiniteSets

CONSTANTS
  Chain, NoChain,  \* LASDMServiceChain.sfc_id
  Fn,              \* LASDMSFCNode.node_id
  Order,           \* topological_order of the functions of a chain
  Edges,           \* LASDMServiceChain.edges
  Carrier,         \* the predecessor with the largest output
  Optional,        \* functions with LASDMSFCNode.optional
  Source, Sink,    \* source_node_id and sink_node_id of a chain
  Deadline,        \* qos.deadline_s, in simulation intervals
  Override,        \* deadline_s of a function's qos_override, if it has one
  NoOverride,
  Demand,          \* _resource_request of a function, one resource
  Instance,        \* ServiceInstance.instance_id
  NoInstance,
  Serves,          \* instances that match a function but for load and status
  HostOf,          \* ServiceInstance.node_id
  Capacity,        \* ServiceInstance.capacity
  MaxConcurrency,  \* ServiceInstance.max_concurrency
  Down,            \* instances whose status is FAILED at the start
  AutoRecover,     \* instances with metadata allow_auto_recover
  Node, NoNode,    \* AirFogSim nodes
  Vehicles, UAVs,  \* nodes that may leave
  MaxSteps,        \* max_steps of the runtime configuration
  MaxTime          \* max_simulation_time, in simulation intervals

Functions == [c \in Chain |-> {Order[c][k] : k \in DOMAIN Order[c]}]
Predecessors(c, f) == {e[1] : e \in {x \in Edges[c] : x[2] = f}}
Terminals(c) == {f \in Functions[c] : \A e \in Edges[c] : e[1] # f}

ASSUME Graphs ==
  /\ Order \in [Chain -> Seq(Fn) \ {<<>>}]
  /\ Edges \in [Chain -> SUBSET (Fn \X Fn)]
  /\ \A c \in Chain :
       /\ \A e \in Edges[c] : \E i, j \in DOMAIN Order[c] :
            i < j /\ e = <<Order[c][i], Order[c][j]>>
       /\ \A i, j \in DOMAIN Order[c] : Order[c][i] = Order[c][j] => i = j
  /\ Carrier \in [Chain -> [Fn -> Fn]]
  /\ \A c \in Chain : \A f \in Fn :
       Predecessors(c, f) # {} => Carrier[c][f] \in Predecessors(c, f)
  /\ Optional \in [Chain -> SUBSET Fn]
  /\ Deadline \in [Chain -> Nat \ {0}]
  /\ NoOverride \notin Nat /\ Override \in [Chain -> [Fn -> Nat \cup {NoOverride}]]
  /\ Demand \in [Chain -> [Fn -> Nat]]

ASSUME Deployment ==
  /\ IsFiniteSet(Chain) /\ IsFiniteSet(Fn)
  /\ NoChain \notin Chain /\ NoInstance \notin Instance /\ NoNode \notin Node
  /\ Serves \in [Chain -> [Fn -> SUBSET Instance]]
  /\ HostOf \in [Instance -> Node]
  /\ Capacity \in [Instance -> Nat] /\ MaxConcurrency \in [Instance -> Nat]
  /\ Source \in [Chain -> Node] /\ Sink \in [Chain -> Node]
  /\ Vehicles \subseteq Node /\ UAVs \subseteq Node
  /\ MaxSteps \in Nat /\ MaxTime \in Nat

VARIABLES
  chain,      \* LASDMManager.chains
  decision,   \* LASDMManager.decisions: none, accepted or rejected
  assign,     \* LASDMDecision.assignments
  target,     \* the chain LASDMOrchestrator.plan is planning
  position,   \* its place in the topological order of the chain
  completed,  \* LASDMRuntimeBridge.completed_nodes
  processed,  \* processed_done_tasks and processed_failed_tasks
  task,       \* the AirFogSim task of a function of a chain
  inst,       \* ServiceInstanceDirectory
  present,    \* nodes in the simulation
  now,        \* env.simulation_time
  phase       \* the part of the round that runs next

planning == <<decision, assign, target, position>>
vars == <<chain, planning, completed, processed, task, inst, present, now, phase>>

-----------------------------------------------------------------------------
Running(c) == chain[c].status = "running"
Terminal(status) == status \in {"succeeded", "failed", "timed_out"}
ActiveStatus == {"moving", "computing"}
PendingStatus == {"waiting"} \cup ActiveStatus

ChainState ==
  [status : {"pending", "running", "succeeded", "failed", "timed_out"},
   submit : Nat, finish : Nat]

\* A task waits to be offloaded, moves to its processor or its sink, computes,
\* and ends in the done, the failed or the removed list.
TaskState ==
  [status : {"none", "waiting", "moving", "computing", "done", "failed", "removed"},
   owner : Node \cup {NoNode},                              \* _task_node_id
   due : Nat,                                               \* arrival + deadline
   code : {"none", "ddl", "tti", "other", "malicious"}]     \* _failure_reason_code

InstanceState == [up : BOOLEAN, load : Nat, used : Nat]

NoTask == [status |-> "none", owner |-> NoNode, due |-> 0, code |-> "none"]

Init ==
  /\ chain = [c \in Chain |-> [status |-> "pending", submit |-> 0, finish |-> 0]]
  /\ decision = [c \in Chain |-> "none"]
  /\ assign = [c \in Chain |-> [f \in Fn |-> NoInstance]]
  /\ target = NoChain
  /\ position = 0
  /\ completed = [c \in Chain |-> {}]
  /\ processed = {}
  /\ task = [c \in Chain |-> [f \in Fn |-> NoTask]]
  /\ inst = [i \in Instance |-> [up |-> i \notin Down, load |-> 0, used |-> 0]]
  /\ present = Node
  /\ now = 0
  /\ phase = "loop"

At(p) == phase = p

-----------------------------------------------------------------------------
(***************************************************************************)
(* LASDMRuntimeBridge.sync_from_airfogsim_tasks: read the done and the     *)
(* failed list, then let LASDMManager.step time chains out, then complete  *)
(* the chains whose last functions are done.                               *)
(***************************************************************************)

\* Tasks of a list of TaskManager that were not read before.
Unread(status) ==
  {x \in Chain \X Fn : task[x[1]][x[2]].status = status /\ x \notin processed}

Read(done) == [c \in Chain |-> completed[c] \cup {f \in Fn : <<c, f>> \in done}]

\* map_airfogsim_task_failure: a late result has no failure code.
FailureStatus(r) == IF r.code \in {"ddl", "tti"} THEN "timed_out" ELSE "failed"
FailureStatuses(c, failed) == {FailureStatus(task[c][x[2]]) : x \in {y \in failed : y[1] = c}}

Overdue(c) == now - chain[c].submit > Deadline[c]

\* Mutants of Conclusion: the functions read now are not counted; a failed
\* task ends no chain whose last functions are done; one last function is
\* enough.
ConclusionStale(c, failed, delivered) ==
  IF FailureStatuses(c, failed) # {} THEN FailureStatuses(c, failed)
  ELSE IF Overdue(c) THEN {"timed_out"}
  ELSE IF Terminals(c) \subseteq completed[c] THEN {"succeeded"}
  ELSE {"running"}
ConclusionUnread(c, failed, delivered) ==
  IF Overdue(c) THEN {"timed_out"}
  ELSE IF Terminals(c) \subseteq delivered[c] THEN {"succeeded"}
  ELSE {"running"}
ConclusionAny(c, failed, delivered) ==
  IF FailureStatuses(c, failed) # {} THEN FailureStatuses(c, failed)
  ELSE IF Overdue(c) THEN {"timed_out"}
  ELSE IF Terminals(c) \cap delivered[c] # {} THEN {"succeeded"}
  ELSE {"running"}

\* The status of a running chain after the synchronisation: the first failed
\* task of the list decides, then the deadline, then the last functions.
Conclusion(c, failed, delivered) ==
  IF FailureStatuses(c, failed) # {} THEN FailureStatuses(c, failed)
  ELSE IF Overdue(c) THEN {"timed_out"}
  ELSE IF Terminals(c) \subseteq delivered[c] THEN {"succeeded"}
  ELSE {"running"}

\* mark_succeeded, mark_failed, mark_timed_out
Mark(r, status) ==
  IF Terminal(status) THEN [r EXCEPT !.status = status, !.finish = now] ELSE r

Sync(from, to) ==
  /\ At(from)
  /\ LET done == Unread("done")
         failed == Unread("failed")
         delivered == Read(done)
     IN  /\ \E status \in [Chain -> {"failed", "timed_out", "succeeded", "running"}] :
              /\ \A c \in Chain : Running(c) => status[c] \in Conclusion(c, failed, delivered)
              /\ \A c \in Chain : ~Running(c) => status[c] = "running"
              /\ chain' = [c \in Chain |-> Mark(chain[c], status[c])]
         /\ completed' = delivered
         /\ processed' = processed \cup done \cup failed
  /\ phase' = to
  /\ UNCHANGED <<planning, task, inst, present, now>>

-----------------------------------------------------------------------------
(***************************************************************************)
(* LASDMEnvAdapter.sync_service_instances.  DEGRADED instances are as      *)
(* selectable as ACTIVE ones, so that only "up" is kept; an unauthenticated*)
(* node degrades its instances, the failed ones included.                  *)
(***************************************************************************)
ComputingAt(n) ==
  {x \in Chain \X Fn : /\ task[x[1]][x[2]].status = "computing"
                       /\ assign[x[1]][x[2]] \in {i \in Instance : HostOf[i] = n}}

\* Mutant of Refreshed: a missing node leaves the status as it is.
RefreshedBlind(i, untrusted) ==
  IF HostOf[i] \notin present THEN inst[i]
  ELSE [inst[i] EXCEPT !.up = @ \/ i \in AutoRecover \/ HostOf[i] \in untrusted,
                       !.load = Cardinality(ComputingAt(HostOf[i]))]

Refreshed(i, untrusted) ==
  IF HostOf[i] \notin present THEN [inst[i] EXCEPT !.up = FALSE]
  ELSE [inst[i] EXCEPT !.up = @ \/ i \in AutoRecover \/ HostOf[i] \in untrusted,
                       !.load = Cardinality(ComputingAt(HostOf[i]))]

SyncInstances ==
  /\ At("instances")
  /\ \E untrusted \in SUBSET present :
       inst' = [i \in Instance |-> Refreshed(i, untrusted)]
  /\ phase' = "submit"
  /\ UNCHANGED <<chain, planning, completed, processed, task, present, now>>

\* The chain provider may hand over any of the chains that were not submitted.
Submit ==
  /\ At("submit")
  /\ \E new \in SUBSET {c \in Chain : chain[c].status = "pending"} :
       chain' = [c \in Chain |-> IF c \in new
                                 THEN [chain[c] EXCEPT !.status = "running", !.submit = now]
                                 ELSE chain[c]]
  /\ phase' = "plan"
  /\ UNCHANGED <<planning, completed, processed, task, inst, present, now>>

-----------------------------------------------------------------------------
(***************************************************************************)
(* LASDMOrchestrator.plan, one function of one chain at a time.            *)
(***************************************************************************)
Undecided == {c \in Chain : Running(c) /\ decision[c] = "none"}

CanReserve(i, demand) ==
  /\ inst[i].up
  /\ inst[i].load < MaxConcurrency[i]
  /\ demand <= Capacity[i] - inst[i].used

Candidates(c, f) == {i \in Serves[c][f] : CanReserve(i, Demand[c][f])}

Reserve(i, demand) ==
  inst' = [inst EXCEPT ![i].used = @ + demand, ![i].load = @ + 1]

\* Mutant of Release: the load goes down, the resources stay reserved.
ReleaseLoad(i, demand) ==
  inst' = [inst EXCEPT ![i].load = IF @ > 0 THEN @ - 1 ELSE 0]

Release(i, demand) ==
  inst' = [inst EXCEPT ![i].used = IF @ > demand THEN @ - demand ELSE 0,
                       ![i].load = IF @ > 0 THEN @ - 1 ELSE 0]

\* The function the plan has reached.
Current == Order[target][position]
Placing == At("plan") /\ target # NoChain /\ position \in DOMAIN Order[target]

StartPlan(c) ==
  /\ At("plan") /\ target = NoChain
  /\ c \in Undecided
  /\ target' = c /\ position' = 1
  /\ UNCHANGED <<chain, decision, assign, completed, processed, task, inst, present, now, phase>>

PlaceFunction(i) ==
  /\ Placing
  /\ i \in Candidates(target, Current)
  /\ Reserve(i, Demand[target][Current])
  /\ assign' = [assign EXCEPT ![target][Current] = i]
  /\ position' = position + 1
  /\ UNCHANGED <<chain, decision, target, completed, processed, task, present, now, phase>>

SkipOptional ==
  /\ Placing
  /\ Candidates(target, Current) = {} /\ Current \in Optional[target]
  /\ position' = position + 1
  /\ UNCHANGED <<chain, decision, assign, target, completed, processed, task, inst, present,
                 now, phase>>

NoCandidate ==
  /\ Placing
  /\ Candidates(target, Current) = {} /\ Current \notin Optional[target]
  /\ position' = position - 1
  /\ phase' = "rollback"
  /\ UNCHANGED <<chain, decision, assign, target, completed, processed, task, inst, present, now>>

Accept ==
  /\ At("plan") /\ target # NoChain /\ position = Len(Order[target]) + 1
  /\ decision' = [decision EXCEPT ![target] = "accepted"]
  /\ target' = NoChain /\ position' = 0
  /\ UNCHANGED <<chain, assign, completed, processed, task, inst, present, now, phase>>

\* _rollback, from the last reservation to the first.  The assignments of a
\* rejected decision are not read again and are dropped with the reservation.
Rollback ==
  /\ At("rollback") /\ position > 0
  /\ IF assign[target][Current] = NoInstance
     THEN UNCHANGED <<inst, assign>>
     ELSE /\ Release(assign[target][Current], Demand[target][Current])
          /\ assign' = [assign EXCEPT ![target][Current] = NoInstance]
  /\ position' = position - 1
  /\ UNCHANGED <<chain, decision, target, completed, processed, task, present, now, phase>>

\* The decision is rejected and LASDMManager.step fails the chain.
Reject ==
  /\ At("rollback") /\ position = 0
  /\ decision' = [decision EXCEPT ![target] = "rejected"]
  /\ chain' = [chain EXCEPT ![target] = Mark(@, "failed")]
  /\ target' = NoChain
  /\ phase' = "plan"
  /\ UNCHANGED <<assign, position, completed, processed, task, inst, present, now>>

-----------------------------------------------------------------------------
(***************************************************************************)
(* create_ready_function_tasks and apply_orchestration_decision.           *)
(***************************************************************************)

\* Mutant of PredecessorsCompleted: one completed predecessor is enough.
AnyPredecessor(c, f) ==
  Predecessors(c, f) = {} \/ Predecessors(c, f) \cap completed[c] # {}

PredecessorsCompleted(c, f) == Predecessors(c, f) \subseteq completed[c]

Ready(c, f) ==
  /\ Running(c) /\ decision[c] = "accepted"
  /\ assign[c][f] # NoInstance /\ task[c][f].status = "none"
  /\ PredecessorsCompleted(c, f)

\* LASDMSFCNode.effective_qos: a function may have a deadline of its own,
\* shorter or longer than that of its chain, counted from the submission too.
EffectiveDeadline(c, f) == IF Override[c][f] = NoOverride THEN Deadline[c] ELSE Override[c][f]

\* Mutant of Remaining: every task gets its deadline anew.
FullDeadline(c, f) == EffectiveDeadline(c, f)

\* LASDMTaskAdapter._task_deadline
Remaining(c, f) ==
  LET elapsed == now - chain[c].submit
  IN  IF elapsed < EffectiveDeadline(c, f) THEN EffectiveDeadline(c, f) - elapsed ELSE 0

\* Mutant of Origin: the instance is taken for its node.
OriginInstance(c, f) ==
  IF Predecessors(c, f) = {} THEN Source[c] ELSE assign[c][Carrier[c][f]]

\* _ready_input: a task starts where its carrier was computed.
Origin(c, f) ==
  IF Predecessors(c, f) = {} THEN Source[c] ELSE HostOf[assign[c][Carrier[c][f]]]

CreateTasks ==
  /\ At("plan") /\ target = NoChain /\ Undecided = {}
  /\ task' = [c \in Chain |-> [f \in Fn |->
       IF f \in Functions[c] /\ Ready(c, f)
       THEN [status |-> "waiting", owner |-> Origin(c, f),
             due |-> now + Remaining(c, f), code |-> "none"]
       ELSE task[c][f]]]
  /\ phase' = "apply"
  /\ UNCHANGED <<chain, planning, completed, processed, inst, present, now>>

\* A task is offloaded where its chain was planned, whatever has become of the
\* chain, unless its owner or its processor is missing.
ApplyDecisions ==
  /\ At("apply")
  /\ task' = [c \in Chain |-> [f \in Fn |->
       IF /\ task[c][f].status = "waiting" /\ decision[c] = "accepted"
          /\ {task[c][f].owner, HostOf[assign[c][f]]} \subseteq present
       THEN [task[c][f] EXCEPT !.status = "moving"]
       ELSE task[c][f]]]
  /\ phase' = "traffic"
  /\ UNCHANGED <<chain, planning, completed, processed, inst, present, now>>

-----------------------------------------------------------------------------
(***************************************************************************)
(* AirFogSimEnv.step, as far as the tasks of the chains can tell.          *)
(***************************************************************************)
Active(c, f) == task[c][f].status \in ActiveStatus

\* Nodes a task in service depends on; only the last functions return to the
\* sink, the others end where they are computed.
Uses(c, f) ==
  {task[c][f].owner, HostOf[assign[c][f]]} \cup (IF f \in Terminals(c) THEN {Sink[c]} ELSE {})

Removed(c, f, gone) == Active(c, f) /\ Uses(c, f) \cap gone # {}

Leave ==
  /\ At("traffic")
  /\ \E gone \in SUBSET (Vehicles \cap present) :
       /\ present' = present \ gone
       /\ task' = [c \in Chain |-> [f \in Fn |->
            IF Removed(c, f, gone) THEN [task[c][f] EXCEPT !.status = "removed"]
            ELSE task[c][f]]]
  /\ phase' = "audit"
  /\ UNCHANGED <<chain, planning, completed, processed, inst, now>>

\* _validateTaskResults may revoke any done result.
Audit ==
  /\ At("audit")
  /\ \E revoked \in SUBSET {x \in Chain \X Fn : task[x[1]][x[2]].status = "done"} :
       task' = [c \in Chain |-> [f \in Fn |->
         IF <<c, f>> \in revoked
         THEN [task[c][f] EXCEPT !.status = "failed", !.code = "malicious"]
         ELSE task[c][f]]]
  /\ phase' = "advance"
  /\ UNCHANGED <<chain, planning, completed, processed, inst, present, now>>

Fails(r, code) == [r EXCEPT !.status = "failed", !.code = code]

\* The radio, the backhaul and the processors move a task on, or deliver its
\* result in time; a transmission may time out, and a result that is late at
\* the end of the step fails without a code.
ActiveTasks == {x \in Chain \X Fn : Active(x[1], x[2])}
Possible(outcome, r) ==
  /\ outcome = "done" => now <= r.due
  /\ outcome = "other" => now + 1 > r.due

Worked(c, f, outcome) ==
  IF ~Active(c, f) THEN task[c][f]
  ELSE IF outcome[<<c, f>>] \in {"tti", "other"} THEN Fails(task[c][f], outcome[<<c, f>>])
  ELSE [task[c][f] EXCEPT !.status = outcome[<<c, f>>]]

\* The end of the step: the tasks of UAVs with an empty battery are removed,
\* and what is still pending past its deadline fails.
Ended(c, f, r, dead) ==
  IF r.status \in ActiveStatus /\ Uses(c, f) \cap dead # {} THEN [r EXCEPT !.status = "removed"]
  ELSE IF r.status \in PendingStatus /\ now + 1 > r.due THEN Fails(r, "ddl")
  ELSE r

Outcomes ==
  {o \in [ActiveTasks -> {"moving", "computing", "done", "tti", "other"}] :
     \A x \in ActiveTasks : Possible(o[x], task[x[1]][x[2]])}

Advance ==
  /\ At("advance")
  /\ \E outcome \in Outcomes, dead \in SUBSET (UAVs \cap present) :
       /\ task' = [c \in Chain |-> [f \in Fn |-> Ended(c, f, Worked(c, f, outcome), dead)]]
       /\ present' = present \ dead
  /\ now' = now + 1
  /\ phase' = "post"
  /\ UNCHANGED <<chain, planning, completed, processed, inst>>

\* env.step raises before its end; run_benchmark reads the lists once more and
\* stops.
StepRaises ==
  /\ At("advance")
  /\ \E outcome \in Outcomes :
       task' = [c \in Chain |-> [f \in Fn |-> Worked(c, f, outcome)]]
  /\ phase' = "abort"
  /\ UNCHANGED <<chain, planning, completed, processed, inst, present, now>>

-----------------------------------------------------------------------------
(***************************************************************************)
(* run_benchmark.                                                          *)
(***************************************************************************)
AllChainsTerminal == \A c \in Chain : Terminal(chain[c].status)

\* AirFogSimEnv.isDone: the time is over, or a step found no UAV (force_quit).
EnvIsDone == now >= MaxTime \/ (now > 0 /\ UAVs \cap present = {})

Loop ==
  /\ At("loop")
  /\ phase' = IF ~EnvIsDone /\ now < MaxSteps /\ ~AllChainsTerminal THEN "sync" ELSE "final"
  /\ UNCHANGED <<chain, planning, completed, processed, task, inst, present, now>>

\* Mutant of Unfinished: off by one step.
UnfinishedLate(c) == now > MaxSteps /\ Running(c)

\* _mark_unfinished_chains
Unfinished(c) == now >= MaxSteps /\ Running(c)

MarkUnfinished ==
  /\ At("mark")
  /\ chain' = [c \in Chain |->
       IF Unfinished(c) THEN Mark(chain[c], "timed_out") ELSE chain[c]]
  /\ phase' = "end"
  /\ UNCHANGED <<planning, completed, processed, task, inst, present, now>>

Halt == At("end") /\ UNCHANGED vars

Plan ==
  \/ \E c \in Chain : StartPlan(c)
  \/ \E i \in Instance : PlaceFunction(i)
  \/ SkipOptional \/ NoCandidate \/ Accept \/ Rollback \/ Reject

Next ==
  \/ Loop
  \/ Sync("sync", "instances") \/ Sync("post", "loop")
  \/ Sync("final", "mark") \/ Sync("abort", "end")
  \/ SyncInstances \/ Submit \/ Plan \/ CreateTasks \/ ApplyDecisions
  \/ Leave \/ Audit \/ Advance \/ StepRaises
  \/ MarkUnfinished \/ Halt

Spec == Init /\ [][Next]_vars

\* The round is straight-line code called in a loop.
FairSpec == Spec /\ WF_vars(Next)

-----------------------------------------------------------------------------
(***************************************************************************)
(* Properties.                                                             *)
(***************************************************************************)
Phases == {"loop", "sync", "instances", "submit", "plan", "rollback", "apply", "traffic",
           "audit", "advance", "post", "abort", "final", "mark", "end"}

\* The step has moved the tasks and the lists were not read yet.
Unsynchronised == phase \in {"post", "abort"}

\* Every variable has its type.
TypeOK ==
  /\ chain \in [Chain -> ChainState]
  /\ decision \in [Chain -> {"none", "accepted", "rejected"}]
  /\ assign \in [Chain -> [Fn -> Instance \cup {NoInstance}]]
  /\ target \in Chain \cup {NoChain}
  /\ position \in Nat
  /\ completed \in [Chain -> SUBSET Fn]
  /\ processed \subseteq Chain \X Fn
  /\ task \in [Chain -> [Fn -> TaskState]]
  /\ inst \in [Instance -> InstanceState]
  /\ present \subseteq Node
  /\ now \in Nat
  /\ phase \in Phases

\* The bridge completes a chain when its last functions are done.  Then every
\* function of the chain was done, each after its predecessors, and none was
\* skipped by the planner.
SuccessIsComplete ==
  \A c \in Chain : chain[c].status = "succeeded" =>
    /\ completed[c] = Functions[c]
    /\ \A f \in Functions[c] : assign[c][f] # NoInstance

\* What the functions planned onto an instance ask of it, unit by unit.
Units(x) == {x} \X (1 .. Demand[x[1]][x[2]])
PlannedOnto(i) == {x \in Chain \X Fn : assign[x[1]][x[2]] = i}
Claimed(i) == UNION {Units(x) : x \in PlannedOnto(i)}

\* The resources reserved on an instance are those of the functions planned
\* onto it, through every rollback, and never more than its capacity.
ReservationsBalance ==
  \A i \in Instance : inst[i].used = Cardinality(Claimed(i)) /\ inst[i].used <= Capacity[i]

\* A task is pending only until the deadline of its function, counted from the
\* submission of the chain, however late the task was created: _task_deadline
\* and the deadlines of TaskManager agree with effective_qos.  The exception is
\* a task that is created when a shorter deadline of its own is over: it is
\* pending in that one step, which begins within the deadline of the chain.
TasksStopInTime ==
  \A c \in Chain : \A f \in Fn :
    task[c][f].status \in PendingStatus =>
      \/ now <= chain[c].submit + EffectiveDeadline(c, f)
      \/ now = task[c][f].due /\ now <= chain[c].submit + Deadline[c]

\* A failed task is never overlooked: once the lists were read, a chain with a
\* failed function no longer runs, unless the function had been done before.
FailureEndsChain ==
  \A c \in Chain : Running(c) /\ ~Unsynchronised =>
    \A f \in Functions[c] : task[c][f].status = "failed" => f \in completed[c]

\* A chain that runs after a synchronisation is within its deadline.
RunningInTime ==
  \A c \in Chain : Running(c) /\ phase # "post" => now <= chain[c].submit + Deadline[c]

\* A chain is accepted only onto instances whose nodes are in the simulation:
\* the directory was refreshed since the last departure.
AcceptedOnPresent ==
  [][\A c \in Chain : decision[c] # decision'[c] /\ decision'[c] = "accepted" =>
       \A f \in Functions[c] : assign'[c][f] # NoInstance => HostOf[assign'[c][f]] \in present']_vars

\* The bridge synchronises twice between two steps.  The second time finds
\* nothing new: no chain ends and no function completes.
SecondSyncSilent ==
  [][At("sync") \/ At("final") => chain' = chain /\ completed' = completed]_vars

\* Every submitted chain gets a verdict: not only when a task fails, but also
\* when its task was removed with a node, which no list reports, when a skipped
\* function starves its successors, and when max_steps come before its deadline.
\* Only a run that the environment cut short leaves chains running.
CutShort == phase = "end" /\ now < MaxSteps
EveryChainEnds == \A c \in Chain : Running(c) ~> Terminal(chain[c].status) \/ CutShort

Contract == INSTANCE ServiceContract WITH
  verdict <- [c \in Chain |-> chain[c].status],
  delivered <- completed,
  Needs <- [c \in Chain |-> [f \in Fn |-> Predecessors(c, f)]]

\* The chains keep the abstract contract: verdicts are final, functions are
\* delivered in the order of the graph, and success means all of them.
KeepsContract == Contract!Spec

(***************************************************************************)
(* What the repository says of the code, and the code does not do.         *)
(***************************************************************************)

\* lasdm_failure_reason_contract.md: "`TASK_FAIL_MALICIOUS_RESULT`: maps to
\* `reliability_violation`."  A chain one of whose results was found malicious
\* no longer runs once the lists were read.
MaliciousEndsChain ==
  \A c \in Chain : Running(c) /\ phase = "instances" =>
    \A f \in Functions[c] : task[c][f].code # "malicious"

=============================================================================
