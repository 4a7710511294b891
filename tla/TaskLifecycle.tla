--------------------------- MODULE TaskLifecycle ---------------------------
(***************************************************************************)
(* The life of a task in AirFogSim: the queues of TaskManager, the fields  *)
(* of Task that decide which queue comes next, and the order in which one  *)
(* AirFogSimEnv.step runs the handlers that move tasks between the queues. *)
(*                                                                         *)
(* A step is a fixed sequence of phases.  Between two steps the scheduler  *)
(* offloads tasks, asks for return routes and hands out radio blocks; the  *)
(* step then removes departed vehicles, audits finished results, releases  *)
(* arrived tasks, starts returns, runs the radio, the wired backhaul and   *)
(* the processors, removes exhausted UAVs and advances the clock.          *)
(*                                                                         *)
(* TaskManager keeps lists.  A task is listed more than once only through  *)
(* the query getOffloadingTasksWithNumber, and all its copies in one list  *)
(* are treated alike, so a list is the set of its members and a task       *)
(* carries the set of the queues that list it.                             *)
(***************************************************************************)
EXTENDS Integers, Sequences, FiniteSets

CONSTANTS
  Task,           \* task identifiers
  Node,           \* vehicles, UAVs, RSUs and cloud servers
  NoNode,         \* Python's None where a node id is expected
  Vehicles,       \* nodes the traffic simulator may take away
  UAVs,           \* nodes an empty battery may take away
  Clouds,         \* nodes without a radio
  WiredLinks,     \* WiredNetworkManager._links
  TaskNodeOf,     \* Task._task_node_id
  ReturnNodeOf,   \* Task._to_return_node_id at creation
  Returns,        \* tasks with _required_returned_size > 0
  External,       \* tasks built by the LASDM bridge, not by TaskManager
  ArrivalOf,      \* _task_arrival_time of the generated tasks
  DeadlineOf,     \* _task_deadline
  Parents,        \* predecessors in TaskManager._task_dependencies
  OffloadRoutes,  \* routes the scheduler may propose for a task
  ReturnRoutes,   \* return routes the scheduler may propose for a task
  TTI,            \* _config_task['tti_threshold'], in simulation intervals
  MaxTime         \* max_simulation_time, and the bound on the clock

ASSUME TasksAndNodes ==
  /\ NoNode \notin Node
  /\ Vehicles \subseteq Node /\ UAVs \subseteq Node /\ Clouds \subseteq Node
  /\ WiredLinks \subseteq (Node \ (Vehicles \cup UAVs)) \X (Node \ (Vehicles \cup UAVs))
  /\ TaskNodeOf \in [Task -> Node]
  /\ ReturnNodeOf \in [Task -> Node]
  /\ Returns \subseteq Task /\ External \subseteq Task
  /\ Parents \in [Task -> SUBSET Task]
  /\ \A t \in External : Parents[t] = {}

ASSUME Routes ==
  /\ OffloadRoutes \in [Task -> SUBSET (Seq(Node) \ {<<>>})]
  /\ ReturnRoutes \in [Task -> SUBSET (Seq(Node) \ {<<>>})]

ASSUME Times ==
  /\ ArrivalOf \in [Task -> Nat] /\ DeadlineOf \in [Task -> Nat]
  /\ TTI \in Nat /\ MaxTime \in Nat

VARIABLES
  task,     \* the Task objects and the queues that list them
  present,  \* nodes in the simulation
  flows,    \* WiredNetworkManager._flows: a task and the link of its flow
  rb,       \* env.activated_offloading_tasks_with_RB_Nos
  retReq,   \* env.task_return_routes, <<>> for no entry
  now,      \* simulation time, in simulation intervals
  phase,    \* the handler that AirFogSimEnv.step runs next, or "end"
  crash     \* the exception that ended the simulation

vars == <<task, present, flows, rb, retReq, now, phase, crash>>

-----------------------------------------------------------------------------
(***************************************************************************)
(* Tasks.                                                                  *)
(***************************************************************************)

\* "echo" stands for the copies that getOffloadingTasksWithNumber leaves in
\* _offloading_tasks[assigned]; "unborn" for a bridge task not yet built.
Transmitted == {"offloading", "echo", "returning"}
Pending == {"generate", "waiting", "computing", "waitReturn"} \cup Transmitted
Settled == {"done", "failed", "removed"}
Queue == Pending \cup Settled \cup {"unborn"}

Code == {"none", "ddl", "tti", "parent", "malicious"}

TaskState ==
  [at       : SUBSET Queue,          \* the queues that list the task
   cur      : Node,                  \* getCurrentNodeId
   assigned : Node \cup {NoNode},    \* _assigned_to
   retNode  : Node,                  \* _to_return_node_id
   route    : Seq(Node),             \* _to_offload_route
   retSet   : BOOLEAN,               \* _to_return_route was set
   computed : BOOLEAN,               \* isComputed
   lastTx   : Nat,                   \* _last_transmission_time
   arrival  : Nat,                   \* _task_arrival_time
   code     : Code,                  \* _failure_reason_code
   echoed   : BOOLEAN]               \* history: was ever in "echo"

Last(s) == s[Len(s)]

In(r, queues) == r.at \cap queues # {}
Move(r, from, to) == [r EXCEPT !.at = (@ \ from) \cup {to}]
Fail(r, why) == [Move(r, Pending, "failed") EXCEPT !.code = why]

Started(r) == r.assigned # NoNode
Local(t, r) == r.assigned = TaskNodeOf[t]
Transmitting(t, r) == Started(r) /\ ~Local(t, r)
IsReturning(t, r) == r.computed /\ Transmitting(t, r)
RequireReturn(t, r) == r.assigned # r.retNode /\ t \in Returns

\* Mutant of Related: the owner of the task is forgotten.
OwnerForgotten(t, r, n) ==
  n \in {r.assigned, r.retNode, r.cur} \cup {r.route[i] : i \in DOMAIN r.route}

\* Task.isRelatedToNode: _to_return_route is the list _to_offload_route once
\* the task returns, so the remaining route covers both.
Related(t, r, n) ==
  n \in {TaskNodeOf[t], r.assigned, r.retNode, r.cur} \cup {r.route[i] : i \in DOMAIN r.route}

InTime(t, r, time) == time - r.arrival <= DeadlineOf[t]

-----------------------------------------------------------------------------
(***************************************************************************)
(* TaskManager.checkTasks, stage by stage.  The first three stages treat   *)
(* each task by itself.                                                    *)
(***************************************************************************)

\* Stage 1: a task executed locally goes straight to the processor.
CheckLocal(t, r) ==
  IF Local(t, r) /\ In(r, {"waiting", "offloading", "echo"})
  THEN [Move(r, {"waiting", "offloading", "echo"}, "computing")
          EXCEPT !.cur = TaskNodeOf[t]]
  ELSE r

\* Stage 2: a result that needs no transfer is delivered at once; a late one
\* fails, and no failure code is recorded.
CheckReturn(t, r, time) ==
  IF In(r, {"returning", "waitReturn"}) /\ ~RequireReturn(t, r)
  THEN [Move(r, {"returning", "waitReturn"},
             IF InTime(t, r, time) THEN "done" ELSE "failed")
          EXCEPT !.cur = r.retNode, !.route = <<>>,
                 !.lastTx = IF IsReturning(t, r) THEN @ ELSE time]
  ELSE r

\* Stage 3, with failOffloadingTask: the queue that is searched depends on
\* isReturning, and the clock that is read is the one of the outward journey.
CheckTTI(t, r, time) ==
  IF In(r, Transmitted) /\ time - r.lastTx > TTI
  THEN LET q == IF IsReturning(t, r) THEN "returning" ELSE "offloading"
       IN  [(IF q \in r.at THEN Move(r, {q}, "failed") ELSE r) EXCEPT !.code = "tti"]
  ELSE r

CheckAlone(t, r, time) == CheckTTI(t, CheckReturn(t, CheckLocal(t, r), time), time)

\* Mutant of DependencyMet: a failed parent is as good as a done one.
DependencyOver(f, t) == \A p \in Parents[t] : In(f[p], {"done", "failed"})

\* checkTaskDependency
DependencyMet(f, t) == \A p \in Parents[t] : "done" \in f[p].at
ParentFailed(f, t) ==
  ~DependencyMet(f, t) /\ \E p \in Parents[t] : "failed" \in f[p].at

\* Stage 4 visits the waiting lists first, the predicted tasks last.
Visit(r) == IF "waiting" \in r.at THEN 1 ELSE IF "generate" \in r.at THEN 3 ELSE 2

\* Mutants of Expired: off by one; the processors are not looked at.
ExpiredLate(f, time) ==
  {t \in Task : In(f[t], Pending) /\ ~InTime(t, f[t], time - 1)}
ExpiredIdle(f, time) ==
  {t \in Task : In(f[t], Pending \ {"computing"}) /\ ~InTime(t, f[t], time)}

Expired(f, time) == {t \in Task : In(f[t], Pending) /\ ~InTime(t, f[t], time)}

\* Mutant of Cascade: children of failed tasks are kept.
NoCascade(f, late, casc) == casc = {}

\* The tasks stage 4 may fail for a failed parent: a parent that fails in the
\* same pass counts only if it is visited first.  The order inside one queue
\* is left open.
Cascade(f, late, casc) ==
  LET gone == late \cup casc
      blames(t, p) == ~DependencyMet(f, t) /\ p \in gone
  IN  /\ \A t \in casc :
           /\ In(f[t], Pending) /\ t \notin late
           /\ \/ ParentFailed(f, t)
              \/ \E p \in Parents[t] : blames(t, p) /\ Visit(f[p]) <= Visit(f[t])
      /\ \A t \in Task \ gone :
           In(f[t], Pending) =>
             /\ ~ParentFailed(f, t)
             /\ \A p \in Parents[t] : blames(t, p) => Visit(f[p]) >= Visit(f[t])

\* checkTasks(time) on the tasks f
CheckTasks(f, time) ==
  LET g == [t \in Task |-> CheckAlone(t, f[t], time)]
      late == Expired(g, time)
  IN  \E casc \in SUBSET Task :
        /\ Cascade(g, late, casc)
        /\ task' = [t \in Task |-> IF t \in late THEN Fail(g[t], "ddl")
                                   ELSE IF t \in casc THEN Fail(g[t], "parent")
                                   ELSE g[t]]

-----------------------------------------------------------------------------
(***************************************************************************)
(* Other TaskManager operations.                                           *)
(***************************************************************************)

\* A list _offloading_tasks[n] exists once a task of n was offloaded, until n
\* is removed.
HasOffloadingList(f, n) ==
  n \in present /\ \E t \in Task : TaskNodeOf[t] = n /\ Started(f[t])

\* getOffloadingTasksWithNumber appends the tasks returning from n to the
\* very list that holds the tasks n is offloading.
Query(f) ==
  [t \in Task |->
     IF "returning" \in f[t].at /\ HasOffloadingList(f, f[t].assigned)
     THEN [f[t] EXCEPT !.at = @ \cup {"echo"}, !.echoed = TRUE]
     ELSE f[t]]

\* Mutants of RemoveTasks: the offloading lists are skipped; the done list is
\* not.
RemoveButOffloading(f, gone) ==
  [t \in Task |->
     IF In(f[t], Pending \ {"waiting", "offloading"}) /\ \E n \in gone : Related(t, f[t], n)
     THEN Move(f[t], Pending \ {"waiting"}, "removed")
     ELSE f[t]]
RemoveDone(f, gone) ==
  [t \in Task |->
     IF \E n \in gone : Related(t, f[t], n)
     THEN Move(f[t], Queue \ {"waiting"}, "removed")
     ELSE f[t]]

\* removeTasksByNodeId for every node of gone: every queue but the waiting one
RemoveTasks(f, gone) ==
  [t \in Task |->
     IF In(f[t], Pending \ {"waiting"}) /\ \E n \in gone : Related(t, f[t], n)
     THEN Move(f[t], Pending \ {"waiting"}, "removed")
     ELSE f[t]]

\* Task.transmit_to_Node for one interval; hop tells whether the data of the
\* hop is complete.
Transmit(t, r, hop) ==
  [r EXCEPT !.lastTx = IF IsReturning(t, r) THEN @ ELSE now,
            !.cur = IF hop THEN Head(r.route) ELSE @,
            !.route = IF hop THEN Tail(@) ELSE @]

\* Mutant of FinishOffloading: a returned task stays in the returning list.
FinishKept(t, r) ==
  IF ~IsReturning(t, r)
  THEN IF "offloading" \in r.at THEN Move(r, {"offloading"}, "computing") ELSE r
  ELSE IF "returning" \notin r.at THEN r ELSE Move(r, {}, "done")

\* finishOffloadingTask
FinishOffloading(t, r) ==
  IF ~IsReturning(t, r)
  THEN IF "offloading" \in r.at THEN Move(r, {"offloading"}, "computing") ELSE r
  ELSE IF "returning" \notin r.at THEN r
  ELSE IF InTime(t, r, now) THEN Move(r, {"returning"}, "done")
  ELSE [Move(r, {"returning"}, "failed") EXCEPT !.code = "ddl"]

\* finishOffloadingTask indexes a dictionary entry that removeTasksByNodeId
\* deletes with its node.
FinishKeyMissing(t, r) ==
  (IF IsReturning(t, r) THEN r.assigned ELSE TaskNodeOf[t]) \notin present

\* Mutant of Carry: the first hop counts as the arrival.
CarryFirstHop(f, served, hops) ==
  [t \in Task |->
     IF t \notin served THEN f[t]
     ELSE LET r == Transmit(t, f[t], t \in hops)
          IN  IF t \in hops THEN FinishOffloading(t, r) ELSE r]

\* One interval of transfer for the tasks in served; those in hops complete
\* the hop.
Carry(f, served, hops) ==
  [t \in Task |->
     IF t \notin served THEN f[t]
     ELSE LET r == Transmit(t, f[t], t \in hops)
          IN  IF r.route = <<>> THEN FinishOffloading(t, r) ELSE r]

\* Some task arrives, and finishOffloadingTask cannot index its list.
ArrivalRaises(f, hops) ==
  \E t \in hops : Len(f[t].route) = 1 /\ FinishKeyMissing(t, f[t])

\* Mutant of StartReturn: the sink is reset as for a lazy return.
ReturnNowhere(t, r, route) ==
  [Move(r, {"waitReturn"}, "returning")
     EXCEPT !.retSet = TRUE, !.retNode = NoNode,
            !.route = IF t \in Returns THEN route ELSE <<>>]

\* setTaskReturnRouteAndStartReturn for a waiting task: the return route
\* becomes the route of the task, or is dropped when nothing is to be sent.
StartReturn(t, r, route) ==
  [Move(r, {"waitReturn"}, "returning")
     EXCEPT !.retSet = TRUE, !.retNode = Last(route),
            !.route = IF t \in Returns THEN route ELSE <<>>]

\* The assertion of setToReturnRoute: the task has a return route already.
ReturnRouteKept(t, r) == r.retSet /\ (r.route # <<>> \/ t \notin Returns)

Link(r) == <<r.cur, Head(r.route)>>
RadioNode(n) == n \in present \ Clouds
RadioHop(r) == RadioNode(r.cur) /\ RadioNode(Head(r.route))
NeedsRB(t, r) ==
  In(r, Transmitted) /\ ~Local(t, r) /\ r.route # <<>> /\ RadioHop(r)

-----------------------------------------------------------------------------
Init ==
  /\ task = [t \in Task |->
       [at |-> {IF t \in External THEN "unborn" ELSE "generate"},
        cur |-> TaskNodeOf[t], assigned |-> NoNode, retNode |-> ReturnNodeOf[t],
        route |-> <<>>, retSet |-> FALSE, computed |-> FALSE, lastTx |-> 0,
        arrival |-> ArrivalOf[t], code |-> "none", echoed |-> FALSE]]
  /\ present = Node
  /\ flows = {}
  /\ rb = {}
  /\ retReq = [t \in Task |-> <<>>]
  /\ now = 0
  /\ phase = "schedule"
  /\ crash = "none"

At(p) == phase = p /\ crash = "none"

\* An exception leaves AirFogSimEnv.step; the half-done handler is not
\* observed again.
Raise(why) ==
  crash' = why /\ UNCHANGED <<task, present, flows, rb, retReq, now, phase>>

(***************************************************************************)
(* Between two steps: the scheduler.                                       *)
(***************************************************************************)

\* The bridge builds a task and registerGeneratedTask queues it.
Register(t) ==
  /\ At("schedule")
  /\ now < MaxTime
  /\ "unborn" \in task[t].at
  /\ task' = [task EXCEPT ![t] =
                [Move(@, {"unborn"}, "waiting") EXCEPT !.arrival = now]]
  /\ UNCHANGED <<present, flows, rb, retReq, now, phase, crash>>

\* The scheduler looks only at nodes of the simulation.
CanOffload(t, route) ==
  /\ At("schedule")
  /\ now < MaxTime
  /\ "waiting" \in task[t].at
  /\ {task[t].cur} \cup {route[i] : i \in DOMAIN route} \subseteq present

\* offloadTask; a task for its own node goes straight to the processor.
Offload(t, route) ==
  /\ CanOffload(t, route)
  /\ DependencyMet(task, t)
  /\ task' = [task EXCEPT ![t] =
       [Move(@, {"waiting"},
             IF Last(route) = TaskNodeOf[t] /\ @.cur = TaskNodeOf[t]
             THEN "computing" ELSE "offloading")
          EXCEPT !.assigned = Last(route), !.route = route, !.lastTx = now]]
  /\ UNCHANGED <<present, flows, rb, retReq, now, phase, crash>>

\* offloadTask when a parent of t has failed: the loop over the waiting list
\* asks about t once per waiting task, and fails the waiting task.
OffloadRefused(t, route) ==
  /\ CanOffload(t, route)
  /\ ParentFailed(task, t)
  /\ task' = [u \in Task |->
       IF "waiting" \in task[u].at /\ TaskNodeOf[u] = TaskNodeOf[t]
       THEN [Move(task[u], {"waiting"}, "failed") EXCEPT !.code = "parent"]
       ELSE task[u]]
  /\ UNCHANGED <<present, flows, rb, retReq, now, phase, crash>>

\* schedule_returning, for one task
RequestReturn(t, route) ==
  /\ At("schedule")
  /\ now < MaxTime
  /\ "waitReturn" \in task[t].at
  /\ retReq[t] = <<>>
  /\ retReq' = [retReq EXCEPT ![t] = route]
  /\ UNCHANGED <<task, present, flows, rb, now, phase, crash>>

\* schedule_communication: which of the tasks that need radio blocks get some
\* is left open.
ScheduleCommunication ==
  /\ At("schedule")
  /\ now < MaxTime
  /\ task' = Query(task)
  /\ rb' \in SUBSET {t \in Task : NeedsRB(t, task'[t])}
  /\ phase' = "traffic"
  /\ UNCHANGED <<present, flows, retReq, now, crash>>

(***************************************************************************)
(* The phases of AirFogSimEnv.step.                                        *)
(***************************************************************************)

\* _updateTraffics, _removeVehicle
UpdateTraffics ==
  /\ At("traffic")
  /\ \E gone \in SUBSET (Vehicles \cap present) :
       /\ task' = RemoveTasks(task, gone)
       /\ present' = present \ gone
  /\ phase' = "auth"
  /\ UNCHANGED <<flows, rb, retReq, now, crash>>

\* _validateTaskResults: the audit may reject any delivered result.
ValidateTaskResults ==
  /\ At("auth")
  /\ \E bad \in SUBSET {t \in Task : "done" \in task[t].at} :
       task' = [t \in Task |->
         IF t \in bad
         THEN [Move(task[t], {"done"}, "failed") EXCEPT !.code = "malicious"]
         ELSE task[t]]
  /\ phase' = "generate"
  /\ UNCHANGED <<present, flows, rb, retReq, now, crash>>

\* generateAndCheckTasks
Released ==
  [t \in Task |-> IF "generate" \in task[t].at /\ task[t].arrival <= now
                  THEN Move(task[t], {"generate"}, "waiting")
                  ELSE task[t]]

GenerateAndCheckTasks ==
  /\ At("generate")
  /\ CheckTasks(Released, now)
  /\ phase' = "return"
  /\ UNCHANGED <<present, flows, rb, retReq, now, crash>>

\* The rest of _updateTask: the requested returns start.
Starting == {t \in Task : retReq[t] # <<>> /\ "waitReturn" \in task[t].at}

StartReturns ==
  /\ At("return")
  /\ IF \E t \in Starting : ReturnRouteKept(t, task[t])
     THEN Raise("return")
     ELSE /\ CheckTasks([t \in Task |-> IF t \in Starting
                                       THEN StartReturn(t, task[t], retReq[t])
                                       ELSE task[t]], now)
          /\ phase' = "wireless"
          /\ retReq' = [t \in Task |-> <<>>]
          /\ UNCHANGED <<present, flows, rb, now, crash>>

\* _updateWirelessCommunication: the assertions of the allocation guard every
\* task it serves.
Listed(f) == {t \in Task : In(f[t], Transmitted)}
Misallocated(f) ==
  \E t \in rb \cap Listed(f) :
    Local(t, f[t]) \/ (f[t].route # <<>> /\ ~RadioHop(f[t]))

UpdateWireless ==
  /\ At("wireless")
  /\ LET f == Query(task)
         served == {t \in rb \cap Listed(f) : f[t].route # <<>>}
     IN  IF Misallocated(f) THEN Raise("radio")
         ELSE \E hops \in SUBSET served :
                IF ArrivalRaises(f, hops) THEN Raise("key")
                ELSE /\ task' = Carry(f, served, hops)
                     /\ phase' = "wired"
                     /\ UNCHANGED <<present, flows, rb, retReq, now, crash>>

\* _updateWiredCommunication: a flow is queued for a listed task that has
\* none; then every flow moves its task, whatever list the task is in and
\* whatever link the flow was queued for.
Enqueued(f) ==
  flows \cup {<<t, Link(f[t])>> : t \in
    {u \in Listed(f) : /\ f[u].route # <<>> /\ Link(f[u]) \in WiredLinks
                       /\ \A fl \in flows : fl[1] # u}}

\* A drained flow of the current hop completes it.  The hop completes first
\* only with help from the radio, or from a flow left from an earlier hop.
Consistent(f, fl, hops, drained) ==
  LET t == fl[1]
      fresh == fl[2] = Link(f[t])
  IN  /\ fresh /\ t \in drained => t \in hops
      /\ t \in hops => t \in drained \/ ~fresh \/ RadioHop(f[t])

UpdateWired ==
  /\ At("wired")
  /\ LET f == Query(task)
         queued == Enqueued(f)
         moving == {fl[1] : fl \in {x \in queued :
                      Transmitting(x[1], f[x[1]]) /\ f[x[1]].route # <<>>}}
     IN  \E hops \in SUBSET moving, drained \in SUBSET moving :
           /\ \A fl \in queued : fl[1] \in moving => Consistent(f, fl, hops, drained)
           /\ IF ArrivalRaises(f, hops) THEN Raise("key")
              ELSE /\ task' = Carry(f, moving, hops)
                   /\ flows' = {fl \in queued : fl[1] \in moving \ drained}
                   /\ phase' = "compute"
                   /\ UNCHANGED <<present, rb, retReq, now, crash>>

\* _updateComputation: the tasks in fin finish; the assertion of Task.compute
\* guards every task that gets a share of the processor.
UpdateComputation ==
  /\ At("compute")
  /\ \E fin \in SUBSET {t \in Task : "computing" \in task[t].at} :
       IF \E t \in fin : task[t].cur # task[t].assigned THEN Raise("place")
       ELSE /\ task' = [t \in Task |->
                 IF t \in fin
                 THEN [Move(task[t], {"computing"}, "waitReturn")
                         EXCEPT !.computed = TRUE]
                 ELSE task[t]]
            /\ phase' = "settle"
            /\ UNCHANGED <<present, flows, rb, retReq, now, crash>>

\* The rest of the step: UAVs with an empty battery leave, the clock advances,
\* the tasks are checked and the decisions cleared.
Settle ==
  /\ At("settle")
  /\ \E dead \in SUBSET (UAVs \cap present) :
       /\ CheckTasks(RemoveTasks(task, dead), now + 1)
       /\ present' = present \ dead
  /\ now' = now + 1
  /\ rb' = {}
  /\ retReq' = [t \in Task |-> <<>>]
  /\ phase' = "schedule"
  /\ UNCHANGED <<flows, crash>>

\* AirFogSimEnv.isDone: the time is over, or a step found no UAV (force_quit).
IsDone == now >= MaxTime \/ (now > 0 /\ UAVs \cap present = {})

\* The loop of a driver ends, whatever is pending.  Not every loop around
\* env.step asks isDone each time (_warmup_env and advance_runtime do not), so
\* the steps may also go on while there is time.
Finish ==
  /\ At("schedule")
  /\ IsDone
  /\ phase' = "end"
  /\ UNCHANGED <<task, present, flows, rb, retReq, now, crash>>

\* The simulation has ended.
Halt ==
  /\ crash # "none" \/ phase = "end"
  /\ UNCHANGED vars

Schedule ==
  \E t \in Task :
    \/ Register(t)
    \/ \E route \in OffloadRoutes[t] : Offload(t, route) \/ OffloadRefused(t, route)
    \/ \E route \in ReturnRoutes[t] : RequestReturn(t, route)

Step ==
  \/ ScheduleCommunication \/ UpdateTraffics \/ ValidateTaskResults
  \/ GenerateAndCheckTasks \/ StartReturns \/ UpdateWireless \/ UpdateWired
  \/ UpdateComputation \/ Settle \/ Finish

Next == Schedule \/ Step \/ Halt

Spec == Init /\ [][Next]_vars

\* env.step is a straight line of code called in a loop, which its driver ends.
FairSpec == Spec /\ WF_vars(Step)

-----------------------------------------------------------------------------
(***************************************************************************)
(* Properties.                                                             *)
(***************************************************************************)

Phases == {"schedule", "traffic", "auth", "generate", "return", "wireless",
           "wired", "compute", "settle", "end"}

\* Every variable has its type.
TypeOK ==
  /\ task \in [Task -> TaskState]
  /\ present \subseteq Node
  /\ flows \subseteq Task \X WiredLinks
  /\ rb \subseteq Task
  /\ retReq \in [Task -> Seq(Node)]
  /\ now \in Nat
  /\ phase \in Phases
  /\ crash \in {"none", "return", "radio", "key", "place"}

\* TaskManager files every task in exactly one of its queues, from its
\* prediction to its verdict, through every handler of the step: no handler
\* loses a task or files it twice.  The one exception is a task that the query
\* getOffloadingTasksWithNumber has copied.
SingleQueue ==
  \A t \in Task : ~task[t].echoed => \E q \in Queue : task[t].at = {q}

\* A task counted as done was computed and its result is at the node it has to
\* return to, whether it was returned hop by hop or checkTasks found that
\* nothing had to be returned.
DoneIsDelivered ==
  \A t \in Task : "done" \in task[t].at =>
    task[t].computed /\ task[t].cur = task[t].retNode

\* checkTaskDependency: no task leaves the waiting list before each of its
\* parents has delivered a result, which at most the audit takes back later.
ChildAfterParents ==
  \A t \in Task : Started(task[t]) =>
    \A p \in Parents[t] :
      /\ task[p].computed /\ task[p].cur = task[p].retNode
      /\ task[p].at \cap {"done", "failed"} # {}

\* No queue keeps a task past its deadline: between any two handlers every
\* pending task is within its deadline on the clock of the simulation.
DeadlineEnforced ==
  \A t \in Task : In(task[t], Pending) => InTime(t, task[t], now)

\* No task in service depends on a node that has left: removeTasksByNodeId
\* finds every task whose owner, processor or outward route is gone, and no
\* handler brings such a task back.
InServicePresent ==
  \A t \in Task :
    In(task[t], {"offloading", "computing", "waitReturn", "returning"}) =>
      /\ {TaskNodeOf[t], task[t].assigned} \subseteq present
      /\ "offloading" \in task[t].at =>
           {task[t].cur} \cup {task[t].route[i] : i \in DOMAIN task[t].route} \subseteq present

\* The assertions of _allocate_communication_RBs (a task with radio blocks is
\* not local and both ends of its hop are present radio nodes) and of
\* Task.compute (a task is processed where it is assigned) hold when they are
\* reached, one vehicle removal and three handlers after the blocks were given.
AssertionsHold == crash \notin {"radio", "place"}

\* A verdict stands: a failed or a removed task stays so, and only the audit
\* revokes a done one.
VerdictsStand ==
  [][\A t \in Task :
       /\ \A q \in {"failed", "removed"} : q \in task[t].at => q \in task'[t].at
       /\ "done" \in task[t].at /\ "done" \notin task'[t].at =>
            "failed" \in task'[t].at /\ task'[t].code = "malicious"]_vars

\* A pass of checkTasks leaves no pending child of a parent that had failed
\* before the pass, the audited ones included.  Only the copies of the query
\* can save the child: a parent listed as failed and as done counts as done,
\* if after the pass all the others are done too.
FailureSpreads ==
  [][phase # phase' /\ phase \in {"generate", "settle"} =>
       \A t \in Task : In(task'[t], Pending) =>
         \A p \in Parents[t] : "failed" \in task[p].at =>
           "done" \in task[p].at /\ DependencyMet(task', t)]_vars

\* The run ended, by isDone, before the deadline of the task.
CutShort(t) == phase = "end" /\ InTime(t, task[t], now)

\* Every task that is predicted or registered gets a verdict, unless an
\* exception ends the simulation or isDone ends it before the deadline of the
\* task: a task cannot stay in the queues for ever, not when its parent, its
\* processor or its sink has left, nor when its flow is never served.
EveryTaskSettles ==
  \A t \in Task :
    In(task[t], Pending) ~> \/ crash # "none" \/ task[t].at \subseteq Settled
                            \/ CutShort(t)

(***************************************************************************)
(* What the repository says of the code, and the code does not do.         *)
(***************************************************************************)

\* enum_const.py: "Task fails due to parent task failed."  A task that gets
\* this code has a parent that failed.
ParentIsToBlame ==
  \A t \in Task : task[t].code = "parent" =>
    \E p \in Parents[t] : "failed" \in task[p].at

\* finishOffloadingTask: "True if the task is executed successfully, False
\* otherwise."  It answers, and does not end the simulation by a KeyError.
FinishAnswers == crash # "key"

\* setToReturnRoute asserts that a task gets its return route once.
ReturnRouteOnce == crash # "return"

\* checkTasks: "if the transmission time is out of TTI, then move the task to
\* the failed tasks".  A result whose return starts now is not out of TTI.
FreshReturnNotTimedOut ==
  [][\A t \in Task :
       "waitReturn" \in task[t].at /\ task[t].code = "none" => task'[t].code # "tti"]_vars

=============================================================================
