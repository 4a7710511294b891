------------------------- MODULE TaskServiceProofs -------------------------
(***************************************************************************)
(* More proofs about TaskLifecycle: what a step may change of a task in    *)
(* service.  Every handler but offloadTask follows one relation between    *)
(* the old and the new state of a task; three invariants about the nodes,  *)
(* the radio blocks and the parents of a task rest on it.                  *)
(***************************************************************************)
EXTENDS TaskLifecycleProofs

-----------------------------------------------------------------------------
Service == {"offloading", "echo", "computing", "waitReturn", "returning"}

\* The nodes of the outward journey that a task has still to make.
Way(r) == {r.cur} \cup {r.route[i] : i \in DOMAIN r.route}

\* A parent whose result was delivered: nothing moves it any more, and only
\* its verdict may change.
Resolved(r) ==
  /\ r.computed /\ r.cur = r.retNode /\ r.route = <<>>
  /\ r.at \subseteq {"done", "failed", "removed", "echo"}
  /\ r.at \cap {"done", "failed"} # {}

\* What every handler but offloadTask does to a task.
Follows(r, r2) ==
  /\ r2.assigned = r.assigned
  /\ In(r2, Service) => In(r, Service)
  /\ "offloading" \in r2.at => "offloading" \in r.at /\ Way(r2) \subseteq Way(r)
  /\ Resolved(r) => Resolved(r2)

-----------------------------------------------------------------------------
(* The handlers follow the relation, one by one. *)

\* A handler that only moves a task into the failed or the removed list.
LEMMA VerdictFollows ==
  ASSUME NEW t \in Task, NEW r \in TaskState, NEW from, NEW to \in {"failed", "removed"},
         from \subseteq Pending \cup {"done"}, "done" \in from => to = "failed"
  PROVE  Follows(r, Move(r, from, to))
<1> DEFINE r2 == Move(r, from, to)
<1>1. /\ r2.at = (r.at \ from) \cup {to} /\ r2.assigned = r.assigned /\ r2.cur = r.cur
      /\ r2.route = r.route /\ r2.computed = r.computed /\ r2.retNode = r.retNode
  BY DEF Move, TaskState
<1> HIDE DEF r2
<1>2. Resolved(r) => Resolved(r2)
  BY <1>1 DEF Resolved, Pending, Transmitted
<1>3. Way(r2) = Way(r)
  BY <1>1 DEF Way
<1>4. QED
  BY <1>1, <1>2, <1>3 DEF Follows, In, Service, r2

\* A failure code is no part of the relation.
LEMMA CodeFollows ==
  ASSUME NEW r, NEW r2 \in TaskState, Follows(r, r2), NEW why
  PROVE  Follows(r, [r2 EXCEPT !.code = why])
<1> DEFINE r3 == [r2 EXCEPT !.code = why]
<1>1. /\ r3.at = r2.at /\ r3.assigned = r2.assigned /\ r3.cur = r2.cur
      /\ r3.route = r2.route /\ r3.computed = r2.computed /\ r3.retNode = r2.retNode
  BY DEF TaskState
<1> HIDE DEF r3
<1>2. Way(r3) = Way(r2) /\ (Resolved(r2) => Resolved(r3))
  BY <1>1 DEF Way, Resolved
<1>3. QED
  BY <1>1, <1>2 DEF Follows, In, r3

\* The relation is transitive.
LEMMA FollowsOn ==
  ASSUME NEW r, NEW r2, NEW r3, Follows(r, r2), Follows(r2, r3)
  PROVE  Follows(r, r3)
BY DEF Follows

\* Stages 1 to 3 of checkTasks.
LEMMA CheckAloneFollows ==
  ASSUME NEW t \in Task, NEW r, Sound(t, r), NEW time \in Nat
  PROVE  Follows(r, CheckAlone(t, r, time))
<1> DEFINE r1 == CheckLocal(t, r)
           r2 == CheckReturn(t, r1, time)
           r3 == CheckTTI(t, r2, time)
<1>1. Sound(t, r1)
  BY CheckLocalSound
<1>2. Sound(t, r2)
  BY <1>1, CheckReturnSteady DEF Steady
<1>3. Follows(r, r1)
  <2>1. CASE ~(Local(t, r) /\ In(r, {"waiting", "offloading", "echo"}))
    BY <2>1 DEF CheckLocal, Follows
  <2>2. CASE Local(t, r) /\ In(r, {"waiting", "offloading", "echo"})
    <3>1. r \in TaskState /\ TaskNodeOf[t] \in Node /\ NoNode \notin Node
      BY TasksAndNodes DEF Sound
    <3>2. r.echoed /\ "offloading" \notin r.at /\ "echo" \in r.at /\ r.route # <<>>
      BY <2>2, <3>1 DEF Sound, Copied, Idle, Outbound, In, Local, Started
    <3>3. /\ r1.at = (r.at \ {"waiting", "offloading", "echo"}) \cup {"computing"}
          /\ r1.assigned = r.assigned
      BY <2>2, <3>1 DEF CheckLocal, Move, TaskState
    <3> HIDE DEF r1
    <3>4. QED
      BY <3>2, <3>3 DEF Follows, In, Service, Resolved
  <2>3. QED
    BY <2>1, <2>2
<1> HIDE DEF r1
<1>4. Follows(r1, r2)
  <2>1. CASE ~(In(r1, {"returning", "waitReturn"}) /\ ~RequireReturn(t, r1))
    BY <2>1 DEF CheckReturn, Follows
  <2>2. CASE In(r1, {"returning", "waitReturn"}) /\ ~RequireReturn(t, r1)
    <3>1. r1 \in TaskState
      BY <1>1 DEF Sound
    <3>2. PICK to \in {"done", "failed"} :
            /\ r2.at = (r1.at \ {"returning", "waitReturn"}) \cup {to}
            /\ r2.assigned = r1.assigned
      BY <2>2, <3>1 DEF CheckReturn, Move, TaskState
    <3>3. "offloading" \notin r1.at /\ ~Resolved(r1)
      BY <1>1, <2>2 DEF Sound, Outbound, Copied, Finished, Inbound, Filed, In, Resolved
    <3> HIDE DEF r2
    <3>4. QED
      BY <2>2, <3>2, <3>3 DEF Follows, In, Service
  <2>3. QED
    BY <2>1, <2>2
<1> HIDE DEF r2
<1>5. Follows(r2, r3)
  <2> DEFINE q == IF IsReturning(t, r2) THEN "returning" ELSE "offloading"
             m == IF q \in r2.at THEN Move(r2, {q}, "failed") ELSE r2
  <2>1. CASE ~(In(r2, Transmitted) /\ time - r2.lastTx > TTI)
    BY <2>1 DEF CheckTTI, Follows
  <2>2. CASE In(r2, Transmitted) /\ time - r2.lastTx > TTI
    <3>1. r3 = [m EXCEPT !.code = "tti"]
      BY <2>2 DEF CheckTTI
    <3>2. r2 \in TaskState /\ {q} \subseteq Pending
      BY <1>2 DEF Sound, Pending, Transmitted
    <3>3. "done" \notin {q}
      OBVIOUS
    <3> HIDE DEF q
    <3>4. Follows(r2, m) /\ m \in TaskState
      BY <3>2, <3>3, VerdictFollows DEF Follows, Move, TaskState, Queue, Settled
    <3> HIDE DEF m
    <3>5. QED
      BY <3>1, <3>4, CodeFollows
  <2>3. QED
    BY <2>1, <2>2
<1> HIDE DEF r3
<1>6. CheckAlone(t, r, time) = r3
  BY DEF CheckAlone, r1, r2, r3
<1>7. QED
  BY <1>3, <1>4, <1>5, <1>6, FollowsOn

\* A task that checkTasks fails.
LEMMA FailFollows ==
  ASSUME NEW t \in Task, NEW r \in TaskState, NEW why
  PROVE  Follows(r, Fail(r, why))
<1>1. Follows(r, Move(r, Pending, "failed"))
  BY VerdictFollows DEF Pending, Transmitted
<1>2. Move(r, Pending, "failed") \in TaskState
  BY DEF Move, TaskState, Queue, Settled
<1>3. QED
  BY <1>1, <1>2, CodeFollows DEF Fail

\* All of checkTasks.
LEMMA CheckTasksFollows ==
  ASSUME NEW f, \A t \in Task : Sound(t, f[t]), NEW time \in Nat, CheckTasks(f, time)
  PROVE  \A t \in Task : Follows(f[t], task'[t])
<1> DEFINE g == [t \in Task |-> CheckAlone(t, f[t], time)]
           late == Expired(g, time)
<1>1. PICK casc \in SUBSET Task :
        task' = [t \in Task |-> IF t \in late THEN Fail(g[t], "ddl")
                                ELSE IF t \in casc THEN Fail(g[t], "parent")
                                ELSE g[t]]
  BY DEF CheckTasks
<1>2. \A t \in Task : g[t] \in TaskState /\ Follows(f[t], g[t])
  BY CheckAloneSteady, CheckAloneFollows DEF Steady, Sound
<1> HIDE DEF g, late
<1>3. \A t \in Task, why \in {"ddl", "parent"} : Follows(g[t], Fail(g[t], why))
  BY <1>2, FailFollows
<1>4. \A t \in Task : task'[t] \in {Fail(g[t], "ddl"), Fail(g[t], "parent"), g[t]}
  BY <1>1
<1>5. QED
  BY <1>2, <1>3, <1>4, FollowsOn

\* A departed node takes its tasks along.
LEMMA RemoveFollows ==
  ASSUME NEW f, NEW gone, NEW t \in Task, f[t] \in TaskState
  PROVE  Follows(f[t], RemoveTasks(f, gone)[t])
<1>1. RemoveTasks(f, gone)[t] \in {f[t], Move(f[t], Pending \ {"waiting"}, "removed")}
  BY DEF RemoveTasks
<1>2. Follows(f[t], Move(f[t], Pending \ {"waiting"}, "removed"))
  BY VerdictFollows DEF Pending, Transmitted
<1>3. Follows(f[t], f[t])
  BY DEF Follows
<1>4. QED
  BY <1>1, <1>2, <1>3

\* The query copies only tasks in service.
LEMMA QueryFollows ==
  ASSUME NEW f, NEW t \in Task, f[t] \in TaskState
  PROVE  Follows(f[t], Query(f)[t])
<1> DEFINE r == f[t]
           r2 == Query(f)[t]
<1>1. CASE ~("returning" \in r.at /\ HasOffloadingList(f, r.assigned))
  BY <1>1 DEF Query, Follows
<1>2. CASE "returning" \in r.at /\ HasOffloadingList(f, r.assigned)
  <2>1. r2 = [r EXCEPT !.at = r.at \cup {"echo"}, !.echoed = TRUE]
    BY <1>2 DEF Query
  <2>2. /\ r2.at = r.at \cup {"echo"} /\ r2.assigned = r.assigned /\ r2.cur = r.cur
        /\ r2.route = r.route
    BY <2>1 DEF TaskState
  <2>3. Way(r2) = Way(r)
    BY <2>2 DEF Way
  <2> HIDE DEF r, r2
  <2>4. Follows(r, r2)
    BY <1>2, <2>2, <2>3 DEF Follows, In, Service, Resolved
  <2>5. QED
    BY <2>4 DEF r, r2
<1>3. QED
  BY <1>1, <1>2

\* What is left of a route.
LEMMA RouteShrinks ==
  ASSUME NEW s \in Seq(Node), s # <<>>
  PROVE  {Head(s)} \cup {Tail(s)[i] : i \in DOMAIN Tail(s)} \subseteq {s[i] : i \in DOMAIN s}
<1>1. Len(s) \in Nat \ {0}
  OBVIOUS
<1>2. Len(Tail(s)) = Len(s) - 1 /\ \A i \in 1 .. Len(s) - 1 : Tail(s)[i] = s[i + 1]
  BY <1>1
<1>3. DOMAIN s = 1 .. Len(s) /\ DOMAIN Tail(s) = 1 .. Len(s) - 1 /\ Head(s) = s[1]
  BY <1>1, <1>2
<1>4. \A i \in 1 .. Len(s) - 1 : i + 1 \in 1 .. Len(s)
  BY <1>1
<1>5. 1 \in 1 .. Len(s)
  BY <1>1
<1>6. \A i \in DOMAIN Tail(s) : Tail(s)[i] \in {s[j] : j \in DOMAIN s}
  BY <1>2, <1>3, <1>4
<1>7. QED
  BY <1>3, <1>5, <1>6

\* One interval of transfer for a task with a hop to go.
LEMMA CarryFollows ==
  ASSUME NEW f, NEW served, NEW hops, NEW t \in Task, Steady(t, f[t]),
         t \in served => Transmitting(t, f[t]) /\ f[t].route # <<>>
  PROVE  Follows(f[t], Carry(f, served, hops)[t])
<1> DEFINE r == f[t]
           r2 == Transmit(t, r, t \in hops)
           r3 == IF r2.route = <<>> THEN FinishOffloading(t, r2) ELSE r2
<1>1. CASE t \notin served
  BY <1>1 DEF Carry, Follows
<1>2. CASE t \in served
  <2>1. r \in TaskState /\ r.route \in Seq(Node) /\ r.route # <<>>
    BY <1>2 DEF Steady, Sound, TaskState
  <2>2. /\ r2.at = r.at /\ r2.assigned = r.assigned /\ DOMAIN r2 = DOMAIN r
        /\ r2.cur = IF t \in hops THEN Head(r.route) ELSE r.cur
        /\ r2.route = IF t \in hops THEN Tail(r.route) ELSE r.route
        /\ r2.computed = r.computed
    BY <2>1 DEF Transmit, TaskState
  <2> HIDE DEF r, r2
  <2>3. Way(r2) \subseteq Way(r)
    BY <2>1, <2>2, RouteShrinks DEF Way
  <2>4. ~Resolved(r)
    BY <2>1 DEF Resolved
  <2>5. /\ r3.assigned = r2.assigned
        /\ r3.at \subseteq r2.at \cup {"computing", "done", "failed"}
        /\ "computing" \in r3.at /\ "computing" \notin r2.at => "offloading" \in r2.at
        /\ "offloading" \in r3.at => r3 = r2
    BY <2>2, <2>1, <1>2 DEF FinishOffloading, Move, TaskState, IsReturning, Transmitting, Started,
       Local, Steady, Sound, Outbound, r
  <2>6. Carry(f, served, hops)[t] = r3
    BY <1>2 DEF Carry, r, r2
  <2> HIDE DEF r3
  <2>7. QED
    BY <2>2, <2>3, <2>4, <2>5, <2>6 DEF Follows, In, Service, r
<1>3. QED
  BY <1>1, <1>2

\* A step that offloads no task follows the relation for all of them.
LEMMA NextFollows ==
  ASSUME IInv, [Next]_vars, NEW t \in Task
  PROVE  Follows(task[t], task'[t]) \/ \E route \in OffloadRoutes[t] : Offload(t, route)
<1>1. task[t] \in TaskState /\ Steady(t, task[t]) /\ now \in Nat
  BY DEF IInv, TypeOK
<1>2. Follows(task[t], task[t])
  BY DEF Follows
<1>3. CASE Schedule
  <2>1. PICK u \in Task :
          \/ Register(u)
          \/ \E route \in OffloadRoutes[u] : Offload(u, route) \/ OffloadRefused(u, route)
          \/ \E route \in ReturnRoutes[u] : RequestReturn(u, route)
    BY <1>3 DEF Schedule
  <2>2. CASE Register(u)
    <3>1. CASE u = t
      <4>1. /\ "unborn" \in task[t].at /\ task'[t].at = (task[t].at \ {"unborn"}) \cup {"waiting"}
            /\ task'[t].assigned = task[t].assigned
        BY <1>1, <2>2, <3>1 DEF Register, Move, IInv, TypeOK, TaskState
      <4>2. "offloading" \notin task[t].at
        BY <1>1, <4>1 DEF Steady, Sound, Idle, Outbound, In
      <4> DEFINE r2 == task'[t]
      <4> HIDE DEF r2
      <4>3. Follows(task[t], r2)
        BY <4>1, <4>2 DEF Follows, In, Service, Resolved, r2
      <4>4. QED
        BY <4>3 DEF r2
    <3>2. CASE u # t
      BY <1>2, <2>2, <3>2 DEF Register, IInv, TypeOK
    <3>3. QED
      BY <3>1, <3>2
  <2>3. CASE \E route \in OffloadRoutes[u] : Offload(u, route)
    BY <1>2, <2>3 DEF Offload, IInv, TypeOK
  <2>4. CASE \E route \in OffloadRoutes[u] : OffloadRefused(u, route)
    <3> DEFINE m == Move(task[t], {"waiting"}, "failed")
    <3>1. task'[t] = task[t] \/ task'[t] = [m EXCEPT !.code = "parent"]
      BY <2>4 DEF OffloadRefused
    <3>2. Follows(task[t], m) /\ m \in TaskState
      BY <1>1, VerdictFollows DEF Pending, Move, TaskState, Queue, Settled
    <3> HIDE DEF m
    <3>3. QED
      BY <1>2, <3>1, <3>2, CodeFollows
  <2>5. CASE \E route \in ReturnRoutes[u] : RequestReturn(u, route)
    BY <1>2, <2>5 DEF RequestReturn
  <2>6. QED
    BY <2>1, <2>2, <2>3, <2>4, <2>5
<1>4. CASE ScheduleCommunication
  BY <1>1, <1>4, QueryFollows DEF ScheduleCommunication
<1>5. CASE UpdateTraffics
  BY <1>1, <1>5, RemoveFollows DEF UpdateTraffics
<1>6. CASE ValidateTaskResults
  <2> DEFINE m == Move(task[t], {"done"}, "failed")
  <2>1. task'[t] = task[t] \/ task'[t] = [m EXCEPT !.code = "malicious"]
    BY <1>6 DEF ValidateTaskResults
  <2>2. Follows(task[t], m) /\ m \in TaskState
    BY <1>1, VerdictFollows DEF Move, TaskState, Queue, Settled
  <2> HIDE DEF m
  <2>3. QED
    BY <1>2, <2>1, <2>2, CodeFollows
<1>7. CASE GenerateAndCheckTasks
  <2>1. \A u \in Task : Sound(u, Released[u])
    BY ReleasedSound DEF IInv
  <2>2. Follows(Released[t], task'[t])
    BY <1>1, <1>7, <2>1, CheckTasksFollows DEF GenerateAndCheckTasks
  <2>3. Follows(task[t], Released[t])
    <3>1. CASE "generate" \in task[t].at /\ task[t].arrival <= now
      <4>1. /\ Released[t].at = (task[t].at \ {"generate"}) \cup {"waiting"}
            /\ Released[t].assigned = task[t].assigned
        BY <1>1, <3>1 DEF Released, Move, TaskState
      <4>2. "offloading" \notin task[t].at
        BY <1>1, <3>1 DEF Steady, Sound, Idle, Outbound, In
      <4>3. QED
        BY <3>1, <4>1, <4>2 DEF Follows, In, Service, Resolved
    <3>2. CASE ~("generate" \in task[t].at /\ task[t].arrival <= now)
      BY <1>2, <3>2 DEF Released
    <3>3. QED
      BY <3>1, <3>2
  <2>4. QED
    BY <2>2, <2>3, FollowsOn
<1>8. CASE StartReturns
  <2>1. CASE \E u \in Starting : ReturnRouteKept(u, task[u])
    BY <1>2, <1>8, <2>1 DEF StartReturns, Raise
  <2>2. CASE ~\E u \in Starting : ReturnRouteKept(u, task[u])
    <3> DEFINE f == [u \in Task |-> IF u \in Starting THEN StartReturn(u, task[u], retReq[u])
                                    ELSE task[u]]
    <3>1. \A u \in Task : Sound(u, f[u])
      BY <2>2, StartingSound
    <3>2. Follows(task[t], f[t])
      <4>1. CASE t \in Starting
        <5>1. /\ "waitReturn" \in task[t].at
              /\ f[t].at = (task[t].at \ {"waitReturn"}) \cup {"returning"}
              /\ f[t].assigned = task[t].assigned
          BY <1>1, <4>1 DEF Starting, StartReturn, Move, TaskState
        <5>2. "offloading" \notin task[t].at
          BY <1>1, <5>1 DEF Steady, Sound, Finished, Outbound
        <5>3. QED
          BY <5>1, <5>2 DEF Follows, In, Service, Resolved
      <4>2. CASE t \notin Starting
        BY <1>2, <4>2
      <4>3. QED
        BY <4>1, <4>2
    <3>3. CheckTasks(f, now)
      BY <1>8, <2>2 DEF StartReturns
    <3> HIDE DEF f
    <3>4. Follows(f[t], task'[t])
      BY <1>1, <3>1, <3>3, CheckTasksFollows
    <3>5. QED
      BY <3>2, <3>4, FollowsOn
  <2>3. QED
    BY <2>1, <2>2
<1>9. CASE UpdateWireless
  <2> DEFINE f == Query(task)
             served == {u \in rb \cap Listed(f) : f[u].route # <<>>}
  <2>1. task' = task \/ (~Misallocated(f) /\ \E hops : task' = Carry(f, served, hops))
    <3>1. CASE Misallocated(f)
      BY <1>9, <3>1 DEF UpdateWireless, Raise
    <3>2. CASE ~Misallocated(f)
      <4>1. PICK hops \in SUBSET served :
              IF ArrivalRaises(f, hops) THEN Raise("key")
              ELSE /\ task' = Carry(f, served, hops)
                   /\ phase' = "wired"
                   /\ UNCHANGED <<present, flows, rb, retReq, now, crash>>
        BY <1>9, <3>2 DEF UpdateWireless
      <4> HIDE DEF f, served
      <4>2. QED
        BY <3>2, <4>1 DEF Raise
    <3>3. QED
      BY <3>1, <3>2
  <2>2. Steady(t, f[t])
    BY QuerySteady DEF IInv
  <2>3. ~Misallocated(f) /\ t \in served => Transmitting(t, f[t]) /\ f[t].route # <<>>
    BY <2>2 DEF Misallocated, Listed, Transmitting, In, Transmitted, Steady, Sound,
       Copied, Outbound, Inbound
  <2>4. Follows(task[t], f[t])
    BY <1>1, QueryFollows
  <2> HIDE DEF f, served
  <2>5. QED
    BY <1>2, <2>1, <2>2, <2>3, <2>4, CarryFollows, FollowsOn
<1>10. CASE UpdateWired
  <2> DEFINE f == Query(task)
             moving == {fl[1] : fl \in {x \in Enqueued(f) :
                          Transmitting(x[1], f[x[1]]) /\ f[x[1]].route # <<>>}}
  <2>1. task' = task \/ \E hops : task' = Carry(f, moving, hops)
    BY <1>10 DEF UpdateWired, Raise
  <2>2. Steady(t, f[t]) /\ (t \in moving => Transmitting(t, f[t]) /\ f[t].route # <<>>)
    BY QuerySteady DEF IInv
  <2>3. Follows(task[t], f[t])
    BY <1>1, QueryFollows
  <2> HIDE DEF f, moving
  <2>4. QED
    BY <1>2, <2>1, <2>2, <2>3, CarryFollows, FollowsOn
<1>11. CASE UpdateComputation
  <2>1. \/ task'[t] = task[t]
        \/ /\ "computing" \in task[t].at
           /\ task'[t] = [Move(task[t], {"computing"}, "waitReturn") EXCEPT !.computed = TRUE]
    BY <1>11 DEF UpdateComputation, Raise
  <2>2. "computing" \in task[t].at => "offloading" \notin task[t].at
    BY <1>1 DEF Steady, Sound, Outbound, Placed, Copied, Filed
  <2>3. CASE "computing" \in task[t].at /\ task'[t] # task[t]
    <3> DEFINE r2 == task'[t]
    <3>1. /\ r2.at = (task[t].at \ {"computing"}) \cup {"waitReturn"}
          /\ r2.assigned = task[t].assigned
      BY <1>1, <2>1, <2>3 DEF Move, TaskState
    <3> HIDE DEF r2
    <3>2. Follows(task[t], r2)
      BY <2>2, <2>3, <3>1 DEF Follows, In, Service, Resolved
    <3>3. QED
      BY <3>2 DEF r2
  <2>4. QED
    BY <1>2, <2>1, <2>3
<1>12. CASE Settle
  <2>1. PICK dead \in SUBSET (UAVs \cap present) :
          CheckTasks(RemoveTasks(task, dead), now + 1)
    BY <1>12 DEF Settle
  <2> DEFINE f == RemoveTasks(task, dead)
  <2>2. \A u \in Task : Sound(u, f[u])
    BY RemoveSteady DEF IInv, Steady
  <2>3. Follows(task[t], f[t])
    BY <1>1, RemoveFollows
  <2>4. CheckTasks(f, now + 1)
    BY <2>1
  <2> HIDE DEF f
  <2>5. Follows(f[t], task'[t])
    BY <1>1, <2>2, <2>4, CheckTasksFollows
  <2>6. QED
    BY <2>3, <2>5, FollowsOn
<1>13. CASE Finish \/ Halt \/ UNCHANGED vars
  BY <1>2, <1>13 DEF Finish, Halt, vars
<1>14. QED
  BY <1>3, <1>4, <1>5, <1>6, <1>7, <1>8, <1>9, <1>10, <1>11, <1>12, <1>13 DEF Next, Step

-----------------------------------------------------------------------------
(***************************************************************************)
(* The nodes of a task in service.  The copies count as in service too: a  *)
(* copy of a local result goes back to its processor.                      *)
(***************************************************************************)

Attended(t, r, nodes) ==
  In(r, Service) =>
    /\ {TaskNodeOf[t], r.assigned} \subseteq nodes
    /\ "offloading" \in r.at => Way(r) \subseteq nodes

LEMMA FollowsAttended ==
  ASSUME NEW t \in Task, NEW r, NEW r2, NEW nodes, Follows(r, r2), Attended(t, r, nodes)
  PROVE  Attended(t, r2, nodes)
BY DEF Follows, Attended

\* What is left in service depends on no node that left.
LEMMA RemoveAttended ==
  ASSUME NEW f, NEW gone, NEW nodes, NEW t \in Task, f[t] \in TaskState,
         Attended(t, f[t], nodes)
  PROVE  Attended(t, RemoveTasks(f, gone)[t], nodes \ gone)
<1> DEFINE r == f[t]
           r2 == RemoveTasks(f, gone)[t]
<1>1. CASE In(r, Pending \ {"waiting"}) /\ \E n \in gone : Related(t, r, n)
  <2>1. r2.at = (r.at \ (Pending \ {"waiting"})) \cup {"removed"}
    BY <1>1 DEF RemoveTasks, Move, TaskState
  <2> HIDE DEF r2
  <2>2. Attended(t, r2, nodes \ gone)
    BY <2>1 DEF Attended, In, Service, Pending, Transmitted
  <2>3. QED
    BY <2>2 DEF r2
<1>2. CASE ~In(r, Pending \ {"waiting"})
  <2>1. r2 = r
    BY <1>2 DEF RemoveTasks
  <2>2. ~In(r, Service)
    BY <1>2 DEF In, Service, Pending, Transmitted
  <2>3. QED
    BY <2>1, <2>2 DEF Attended
<1>3. CASE ~\E n \in gone : Related(t, r, n)
  <2>1. r2 = r
    BY <1>3 DEF RemoveTasks
  <2>2. \A n \in gone : n \notin {TaskNodeOf[t], r.assigned} \cup Way(r)
    BY <1>3 DEF Related, Way
  <2>3. QED
    BY <2>1, <2>2 DEF Attended
<1>4. QED
  BY <1>1, <1>2, <1>3

\* A step on which no node leaves.
LEMMA StayAttended ==
  ASSUME IInv, [Next]_vars, present' = present, NEW t \in Task,
         Attended(t, task[t], present)
  PROVE  Attended(t, task'[t], present)
<1>1. CASE Follows(task[t], task'[t])
  BY <1>1, FollowsAttended
<1>2. CASE \E route \in OffloadRoutes[t] : Offload(t, route)
  <2>1. PICK route \in OffloadRoutes[t] : Offload(t, route)
    BY <1>2
  <2>2. task[t] \in TaskState /\ Steady(t, task[t]) /\ "waiting" \in task[t].at
    BY <2>1 DEF IInv, TypeOK, Offload, CanOffload
  <2>3. task[t].cur = TaskNodeOf[t]
    BY <2>2 DEF Steady, Sound, Idle, In
  <2>4. {task[t].cur} \cup {route[i] : i \in DOMAIN route} \subseteq present
    BY <2>1 DEF Offload, CanOffload
  <2>5. route \in Seq(Node) /\ route # <<>>
    BY Parameters
  <2>6. Len(route) \in Nat \ {0} /\ DOMAIN route = 1 .. Len(route)
    BY <2>5
  <2>7. Last(route) \in {route[i] : i \in DOMAIN route}
    BY <2>6 DEF Last
  <2>8. task'[t].assigned = Last(route) /\ task'[t].cur = task[t].cur /\ task'[t].route = route
    BY <2>1, <2>2 DEF Offload, Move, IInv, TypeOK, TaskState
  <2>9. Way(task'[t]) \subseteq present
    BY <2>4, <2>8 DEF Way
  <2>10. QED
    BY <2>3, <2>4, <2>7, <2>8, <2>9 DEF Attended
<1>3. QED
  BY <1>1, <1>2, NextFollows

\* Every step keeps the tasks in service attended.
LEMMA NextAttended ==
  ASSUME IInv, [Next]_vars, \A t \in Task : Attended(t, task[t], present)
  PROVE  \A t \in Task : Attended(t, task'[t], present')
<1>1. CASE present' = present
  BY <1>1, StayAttended
<1>2. CASE UpdateTraffics
  <2>1. PICK gone \in SUBSET (Vehicles \cap present) :
          task' = RemoveTasks(task, gone) /\ present' = present \ gone
    BY <1>2 DEF UpdateTraffics
  <2>2. \A t \in Task : task[t] \in TaskState
    BY DEF IInv, TypeOK
  <2>3. \A t \in Task : Attended(t, RemoveTasks(task, gone)[t], present \ gone)
    BY <2>2, RemoveAttended
  <2>4. QED
    BY <2>1, <2>3
<1>3. CASE Settle
  <2>1. PICK dead \in SUBSET (UAVs \cap present) :
          CheckTasks(RemoveTasks(task, dead), now + 1) /\ present' = present \ dead
    BY <1>3 DEF Settle
  <2> DEFINE f == RemoveTasks(task, dead)
  <2>2. \A t \in Task : Sound(t, f[t])
    BY RemoveSteady DEF IInv, Steady
  <2>3. \A t \in Task : Attended(t, f[t], present')
    BY <2>1, RemoveAttended DEF IInv, TypeOK
  <2>4. CheckTasks(f, now + 1) /\ now + 1 \in Nat
    BY <2>1 DEF IInv, TypeOK
  <2> HIDE DEF f
  <2>5. \A t \in Task : Follows(f[t], task'[t])
    BY <2>2, <2>4, CheckTasksFollows
  <2>6. QED
    BY <2>3, <2>5, FollowsAttended
<1>4. present' = present \/ UpdateTraffics \/ Settle
  <2>1. Schedule => present' = present
    BY DEF Schedule, Register, Offload, OffloadRefused, RequestReturn
  <2>2. ScheduleCommunication \/ ValidateTaskResults \/ GenerateAndCheckTasks => present' = present
    BY DEF ScheduleCommunication, ValidateTaskResults, GenerateAndCheckTasks
  <2>3. StartReturns => present' = present
    BY DEF StartReturns, Raise
  <2>4. UpdateWireless => present' = present
    BY DEF UpdateWireless, Raise
  <2>5. UpdateWired => present' = present
    BY DEF UpdateWired, Raise
  <2>6. UpdateComputation => present' = present
    BY DEF UpdateComputation, Raise
  <2>7. Finish \/ Halt \/ UNCHANGED vars => present' = present
    BY DEF Finish, Halt, vars
  <2>8. QED
    BY <2>1, <2>2, <2>3, <2>4, <2>5, <2>6, <2>7 DEF Next, Step
<1>5. QED
  BY <1>1, <1>2, <1>3, <1>4

\* No task in service depends on a node that has left, for any network, any
\* routes and any order of departures.
THEOREM ServiceAttended == Spec => []InServicePresent
<1> DEFINE AllAttended == \A t \in Task : Attended(t, task[t], present)
<1>1. Init => AllAttended
  <2>1. Init => \A t \in Task : task[t].at \subseteq {"unborn", "generate"}
    BY DEF Init
  <2>2. QED
    BY <2>1 DEF Attended, In, Service
<1>2. IInv /\ AllAttended /\ [Next]_vars => AllAttended'
  BY NextAttended
<1>3. AllAttended => InServicePresent
  BY DEF Attended, InServicePresent, In, Service, Way
<1> HIDE DEF AllAttended
<1>4. QED
  BY <1>1, <1>2, <1>3, Invariance, PTL DEF Spec

-----------------------------------------------------------------------------
(***************************************************************************)
(* The parents of a started task.                                          *)
(***************************************************************************)

ParentsResolved == \A t \in Task : Started(task[t]) => \A p \in Parents[t] : Resolved(task[p])

\* A task that checkTaskDependency accepts as done is resolved.
LEMMA DoneResolved ==
  ASSUME NEW t \in Task, NEW r, Steady(t, r), "done" \in r.at
  PROVE  Resolved(r)
<1>1. r \in TaskState
  BY DEF Steady, Sound
<1>2. r.computed /\ r.cur = r.retNode /\ r.route = <<>>
  BY DEF Steady, Sound, Delivered
<1>3. CASE ~r.echoed
  BY <1>2, <1>3 DEF Steady, Sound, Filed, Resolved
<1>4. CASE r.echoed
  <2>1. ~In(r, {"computing", "waitReturn", "returning", "offloading", "unborn", "generate", "waiting"})
    BY <1>2, <1>4 DEF Steady, Sound, Copied, Inbound, Returnable, Outbound, Idle, In
  <2>2. r.at \subseteq {"done", "failed", "removed", "echo"}
    BY <1>1, <2>1 DEF TaskState, Queue, Pending, Transmitted, Settled, In
  <2>3. QED
    BY <1>2, <2>2 DEF Resolved
<1>5. QED
  BY <1>3, <1>4

\* Every step keeps the parents of started tasks resolved.
LEMMA NextResolved ==
  ASSUME IInv, [Next]_vars, ParentsResolved
  PROVE  ParentsResolved'
<1> SUFFICES ASSUME NEW t \in Task, Started(task'[t]), NEW p \in Parents[t]
             PROVE  Resolved(task'[p])
  BY DEF ParentsResolved
<1>1. p \in Task
  BY TasksAndNodes
<1>2. Resolved(task[p])
  <2>1. CASE Follows(task[t], task'[t])
    BY <2>1 DEF Follows, Started, ParentsResolved
  <2>2. CASE \E route \in OffloadRoutes[t] : Offload(t, route)
    <3>1. "done" \in task[p].at
      BY <2>2 DEF Offload, DependencyMet
    <3>2. QED
      BY <1>1, <3>1, DoneResolved DEF IInv
  <2>3. QED
    BY <2>1, <2>2, NextFollows
<1>3. ~\E route \in OffloadRoutes[p] : Offload(p, route)
  BY <1>2 DEF Offload, CanOffload, Resolved
<1>4. QED
  BY <1>1, <1>2, <1>3, NextFollows DEF Follows

\* No task leaves the waiting list before each of its parents has delivered a
\* result, for any dependencies, cyclic ones included.
THEOREM ParentsFirst == Spec => []ChildAfterParents
<1>1. Init => ParentsResolved
  BY DEF Init, ParentsResolved, Started
<1>2. IInv /\ ParentsResolved /\ [Next]_vars => ParentsResolved'
  BY NextResolved
<1>3. ParentsResolved => ChildAfterParents
  BY DEF ParentsResolved, ChildAfterParents, Resolved
<1>4. QED
  BY <1>1, <1>2, <1>3, Invariance, PTL DEF Spec

-----------------------------------------------------------------------------
(***************************************************************************)
(* The assertions of the allocation and of the processors.                 *)
(***************************************************************************)

\* A task with radio blocks, until the blocks are used.
OnAir(t, r) ==
  /\ r.at \subseteq Transmitted \cup Settled
  /\ In(r, Transmitted) => ~Local(t, r) /\ r.route # <<>> /\ RadioHop(r)

Allocated ==
  phase \in {"traffic", "auth", "generate", "return", "wireless"} =>
    \A t \in rb : OnAir(t, task[t])

\* A handler that only takes such a task out of queues of transmitted tasks.
Fades(r, r2) ==
  /\ r2.at \subseteq r.at \cup {"failed", "removed"}
  /\ r2.cur = r.cur /\ r2.assigned = r.assigned /\ r2.route = r.route

LEMMA FadesOnAir ==
  ASSUME NEW t \in Task, NEW r, NEW r2, OnAir(t, r), Fades(r, r2)
  PROVE  OnAir(t, r2)
BY DEF OnAir, Fades, In, Transmitted, Settled, Local, RadioHop

\* Stages 1 to 3 of checkTasks.
LEMMA CheckAloneFades ==
  ASSUME NEW t \in Task, NEW r, Steady(t, r), OnAir(t, r), NEW time \in Nat
  PROVE  Fades(r, CheckAlone(t, r, time))
<1>1. CheckLocal(t, r) = r
  BY DEF CheckLocal, OnAir, In, Transmitted, Settled
<1>2. CheckReturn(t, r, time) = r
  BY DEF CheckReturn, OnAir, In, Transmitted, Settled, Steady, Returnable
<1>3. r \in TaskState
  BY DEF Steady, Sound
<1>4. Fades(r, CheckTTI(t, r, time))
  <2> DEFINE q == IF IsReturning(t, r) THEN "returning" ELSE "offloading"
             m == IF q \in r.at THEN Move(r, {q}, "failed") ELSE r
  <2>1. CheckTTI(t, r, time) \in {r, [m EXCEPT !.code = "tti"]}
    BY DEF CheckTTI
  <2>2. Fades(r, m) /\ m \in TaskState
    BY <1>3 DEF Fades, Move, TaskState, Queue, Settled
  <2> HIDE DEF m
  <2>3. Fades(r, [m EXCEPT !.code = "tti"]) /\ Fades(r, r)
    BY <2>2 DEF Fades, TaskState
  <2>4. QED
    BY <2>1, <2>3
<1>5. QED
  BY <1>1, <1>2, <1>4 DEF CheckAlone

\* All of checkTasks.
LEMMA CheckTasksOnAir ==
  ASSUME NEW f, \A u \in Task : Sound(u, f[u]), NEW time \in Nat, CheckTasks(f, time),
         NEW t \in Task, Steady(t, f[t]), OnAir(t, f[t])
  PROVE  OnAir(t, task'[t])
<1> DEFINE g == [u \in Task |-> CheckAlone(u, f[u], time)]
           late == Expired(g, time)
<1>1. PICK casc \in SUBSET Task :
        task' = [u \in Task |-> IF u \in late THEN Fail(g[u], "ddl")
                                ELSE IF u \in casc THEN Fail(g[u], "parent")
                                ELSE g[u]]
  BY DEF CheckTasks
<1>2. g[t] \in TaskState /\ OnAir(t, g[t])
  BY CheckAloneSteady, CheckAloneFades, FadesOnAir DEF Steady, Sound
<1>3. task'[t] \in {Fail(g[t], "ddl"), Fail(g[t], "parent"), g[t]}
  BY <1>1
<1> HIDE DEF g
<1>4. \A why : Fades(g[t], Fail(g[t], why))
  BY <1>2 DEF Fades, Fail, Move, TaskState
<1>5. QED
  BY <1>2, <1>3, <1>4, FadesOnAir

\* The blocks go to tasks whose hop is a radio hop.
LEMMA GivenOnAir ==
  ASSUME NEW t \in Task, NEW r, Steady(t, r), NeedsRB(t, r)
  PROVE  OnAir(t, r)
<1>1. r \in TaskState
  BY DEF Steady, Sound
<1>2. ~In(r, {"unborn", "generate", "waiting", "computing", "waitReturn", "done"})
  <2>1. ~In(r, {"unborn", "generate", "waiting", "done"})
    BY DEF NeedsRB, Steady, Sound, Idle, Delivered, In
  <2>2. ~In(r, {"computing", "waitReturn"})
    BY DEF NeedsRB, Steady, Sound, Placed, Finished, In
  <2>3. QED
    BY <2>1, <2>2 DEF In
<1>3. r.at \subseteq Transmitted \cup Settled
  BY <1>1, <1>2 DEF TaskState, Queue, Pending, Transmitted, Settled, In
<1>4. QED
  BY <1>3 DEF OnAir, NeedsRB

\* Departures take the allocated tasks whose hop they break.
LEMMA TrafficOnAir ==
  ASSUME IInv, UpdateTraffics, NEW t \in Task, OnAir(t, task[t])
  PROVE  OnAir(t, task[t])'
<1> DEFINE r == task[t]
           r2 == task'[t]
<1>1. PICK gone \in SUBSET (Vehicles \cap present) :
        task' = RemoveTasks(task, gone) /\ present' = present \ gone
  BY DEF UpdateTraffics
<1>2. r \in TaskState
  BY DEF IInv, TypeOK
<1>3. CASE In(r, Pending \ {"waiting"}) /\ \E n \in gone : Related(t, r, n)
  <2>1. r2.at = (r.at \ (Pending \ {"waiting"})) \cup {"removed"}
    BY <1>1, <1>2, <1>3 DEF RemoveTasks, Move, TaskState
  <2>2. r2.at \subseteq Settled
    BY <2>1 DEF OnAir, Transmitted, Settled, Pending
  <2>3. QED
    BY <2>2 DEF OnAir, In, Transmitted, Settled
<1>4. CASE ~(In(r, Pending \ {"waiting"}) /\ \E n \in gone : Related(t, r, n))
  <2>1. r2 = r
    BY <1>1, <1>4 DEF RemoveTasks
  <2>2. CASE In(r, Transmitted)
    <3>1. ~\E n \in gone : Related(t, r, n)
      BY <1>4, <2>2 DEF In, Transmitted, Pending
    <3>2. r.route \in Seq(Node) /\ r.route # <<>>
      BY <1>2, <2>2 DEF OnAir, TaskState
    <3>3. 1 \in DOMAIN r.route /\ Head(r.route) = r.route[1]
      BY <3>2
    <3>4. r.cur \notin gone /\ Head(r.route) \notin gone
      BY <3>1, <3>3 DEF Related
    <3>5. QED
      BY <1>1, <2>1, <3>4 DEF OnAir, RadioHop, RadioNode, Local
  <2>3. CASE ~In(r, Transmitted)
    BY <2>1, <2>3 DEF OnAir
  <2>4. QED
    BY <2>2, <2>3
<1>5. QED
  BY <1>3, <1>4

\* Where the blocks are used, the assertions of the allocation hold.
LEMMA WellAllocated ==
  ASSUME IInv, Allocated, phase = "wireless"
  PROVE  ~Misallocated(Query(task))
<1> SUFFICES ASSUME NEW t \in rb, In(Query(task)[t], Transmitted)
             PROVE  /\ ~Local(t, Query(task)[t])
                    /\ Query(task)[t].route = <<>> \/ RadioHop(Query(task)[t])
  BY DEF Misallocated, Listed
<1> DEFINE r == task[t]
           r2 == Query(task)[t]
<1>1. t \in Task /\ r \in TaskState /\ OnAir(t, r)
  BY DEF IInv, TypeOK, Allocated
<1>2. \/ r2 = r
      \/ "returning" \in r.at /\ r2 = [r EXCEPT !.at = r.at \cup {"echo"}, !.echoed = TRUE]
  BY <1>1 DEF Query
<1>3. r2.cur = r.cur /\ r2.route = r.route /\ r2.assigned = r.assigned
  BY <1>1, <1>2 DEF TaskState
<1>4. In(r, Transmitted)
  BY <1>2 DEF In, Transmitted
<1> HIDE DEF r, r2
<1>5. ~Local(t, r2) /\ RadioHop(r2)
  BY <1>1, <1>3, <1>4 DEF OnAir, Local, RadioHop
<1>6. QED
  BY <1>5 DEF r2

\* A pass of checkTasks in the middle of the step.
LEMMA MidStepOnAir ==
  ASSUME IInv, NEW f, \A u \in Task : Sound(u, f[u]), CheckTasks(f, now), present' = present,
         NEW t \in Task, f[t] = task[t], OnAir(t, task[t])
  PROVE  OnAir(t, task[t])'
<1>1. now \in Nat /\ Steady(t, f[t])
  BY DEF IInv, TypeOK
<1>2. OnAir(t, task'[t])
  BY <1>1, CheckTasksOnAir
<1>3. QED
  BY <1>2 DEF OnAir, RadioHop, RadioNode

\* Every step keeps the allocated tasks on air until the radio has run, and
\* neither assertion ever fails.
LEMMA NextAllocated ==
  ASSUME IInv, [Next]_vars, Allocated, AssertionsHold
  PROVE  Allocated' /\ AssertionsHold'
<1>1. task \in [Task -> TaskState] /\ rb \subseteq Task
  BY DEF IInv, TypeOK
<1>2. CASE Schedule
  BY <1>2 DEF Schedule, Register, Offload, CanOffload, OffloadRefused, RequestReturn, At, Allocated,
     AssertionsHold
<1>3. CASE ScheduleCommunication
  <2>1. \A t \in rb' : t \in Task /\ Steady(t, task'[t]) /\ NeedsRB(t, task'[t])
    BY <1>3, QuerySteady DEF ScheduleCommunication, IInv
  <2>2. \A t \in rb' : OnAir(t, task'[t])
    BY <2>1, GivenOnAir
  <2>3. present' = present /\ crash' = crash
    BY <1>3 DEF ScheduleCommunication
  <2>4. QED
    BY <2>2, <2>3 DEF Allocated, OnAir, RadioHop, RadioNode, AssertionsHold
<1>4. CASE UpdateTraffics
  BY <1>1, <1>4, TrafficOnAir DEF UpdateTraffics, Allocated, AssertionsHold, At
<1>5. CASE ValidateTaskResults
  <2>1. ASSUME NEW t \in rb
        PROVE  Fades(task[t], task'[t])
    <3> DEFINE m == Move(task[t], {"done"}, "failed")
    <3>1. task[t] \in TaskState
      BY <1>1
    <3>2. task'[t] = task[t] \/ task'[t] = [m EXCEPT !.code = "malicious"]
      BY <1>1, <1>5 DEF ValidateTaskResults
    <3>3. Fades(task[t], task[t])
      BY DEF Fades
    <3>4. Fades(task[t], [m EXCEPT !.code = "malicious"])
      BY <3>1 DEF Fades, Move, TaskState
    <3>5. QED
      BY <3>2, <3>3, <3>4
  <2>2. \A t \in rb : OnAir(t, task'[t])
    BY <1>1, <1>5, <2>1, FadesOnAir DEF Allocated, ValidateTaskResults, At
  <2>3. QED
    BY <1>5, <2>2 DEF ValidateTaskResults, Allocated, OnAir, RadioHop, RadioNode, AssertionsHold
<1>6. CASE GenerateAndCheckTasks
  <2>1. \A u \in Task : Sound(u, Released[u])
    BY ReleasedSound
  <2>2. \A t \in rb : OnAir(t, task[t]) /\ Released[t] = task[t]
    BY <1>1, <1>6 DEF GenerateAndCheckTasks, At, Allocated, OnAir, Released, Transmitted, Settled
  <2>3. CheckTasks(Released, now) /\ present' = present /\ rb' = rb /\ crash' = crash
    BY <1>6 DEF GenerateAndCheckTasks
  <2>4. \A t \in rb : OnAir(t, task[t])'
    BY <1>1, <2>1, <2>2, <2>3, MidStepOnAir
  <2>5. QED
    BY <2>3, <2>4 DEF Allocated, AssertionsHold
<1>7. CASE StartReturns
  <2>1. CASE \E u \in Starting : ReturnRouteKept(u, task[u])
    BY <1>7, <2>1 DEF StartReturns, Raise, Allocated, AssertionsHold, OnAir, RadioHop, RadioNode
  <2>2. CASE ~\E u \in Starting : ReturnRouteKept(u, task[u])
    <3> DEFINE f == [u \in Task |-> IF u \in Starting THEN StartReturn(u, task[u], retReq[u])
                                    ELSE task[u]]
    <3>1. \A u \in Task : Sound(u, f[u])
      BY <2>2, StartingSound
    <3>2. \A t \in rb : OnAir(t, task[t]) /\ f[t] = task[t]
      BY <1>1, <1>7 DEF StartReturns, At, Allocated, OnAir, Starting, Transmitted, Settled
    <3>3. CheckTasks(f, now) /\ present' = present /\ rb' = rb /\ crash' = crash
      BY <1>7, <2>2 DEF StartReturns
    <3> HIDE DEF f
    <3>4. \A t \in rb : OnAir(t, task[t])'
      BY <1>1, <3>1, <3>2, <3>3, MidStepOnAir
    <3>5. QED
      BY <3>3, <3>4 DEF Allocated, AssertionsHold
  <2>3. QED
    BY <2>1, <2>2
<1>8. CASE UpdateWireless
  <2> DEFINE f == Query(task)
             served == {t \in rb \cap Listed(f) : f[t].route # <<>>}
  <2>1. ~Misallocated(f)
    BY <1>8, WellAllocated DEF UpdateWireless, At
  <2>2. PICK hops \in SUBSET served :
          IF ArrivalRaises(f, hops) THEN Raise("key")
          ELSE /\ task' = Carry(f, served, hops)
               /\ phase' = "wired"
               /\ UNCHANGED <<present, flows, rb, retReq, now, crash>>
    BY <1>8, <2>1 DEF UpdateWireless
  <2> HIDE DEF f, served
  <2>3. CASE Raise("key")
    BY <2>3 DEF Raise, Allocated, AssertionsHold, OnAir, RadioHop, RadioNode
  <2>4. CASE phase' = "wired" /\ crash' = crash
    BY <2>4 DEF Allocated, AssertionsHold
  <2>5. QED
    BY <2>2, <2>3, <2>4
<1>9. CASE UpdateWired
  <2>1. Raise("key") \/ (phase' = "compute" /\ crash' = crash)
    BY <1>9 DEF UpdateWired
  <2>2. CASE Raise("key")
    BY <2>2 DEF Raise, Allocated, AssertionsHold, OnAir, RadioHop, RadioNode
  <2>3. CASE phase' = "compute" /\ crash' = crash
    BY <2>3 DEF Allocated, AssertionsHold
  <2>4. QED
    BY <2>1, <2>2, <2>3
<1>10. CASE UpdateComputation
  <2>1. phase' = "settle" /\ crash' = crash
    <3>1. PICK fin \in SUBSET {t \in Task : "computing" \in task[t].at} :
            \/ \E t \in fin : task[t].cur # task[t].assigned
            \/ phase' = "settle" /\ crash' = crash
      BY <1>10 DEF UpdateComputation
    <3>2. \A t \in fin : task[t].cur = task[t].assigned
      BY DEF IInv, Steady, Sound, Placed
    <3>3. QED
      BY <3>1, <3>2
  <2>2. QED
    BY <2>1 DEF Allocated, AssertionsHold
<1>11. CASE Settle
  BY <1>11 DEF Settle, Allocated, AssertionsHold
<1>12. CASE Finish \/ Halt \/ UNCHANGED vars
  BY <1>12 DEF Finish, Halt, vars, Allocated, AssertionsHold, OnAir, RadioHop, RadioNode
<1>13. QED
  BY <1>2, <1>3, <1>4, <1>5, <1>6, <1>7, <1>8, <1>9, <1>10, <1>11, <1>12 DEF Next, Step

\* The assertions of _allocate_communication_RBs and of Task.compute hold
\* whenever they are reached, for any network and any departures in between.
THEOREM AssertionsNeverFail == Spec => []AssertionsHold
<1>1. Init => Allocated /\ AssertionsHold
  BY DEF Init, Allocated, AssertionsHold
<1>2. IInv /\ Allocated /\ AssertionsHold /\ [Next]_vars => Allocated' /\ AssertionsHold'
  BY NextAllocated
<1>3. QED
  BY <1>1, <1>2, Invariance, PTL DEF Spec

-----------------------------------------------------------------------------
(***************************************************************************)
(* The cascade of failures.                                                *)
(***************************************************************************)

\* Stages 1 to 3 make no failed task done: only a task without copies can be
\* delivered by checkTasks.
LEMMA FailedNotDone ==
  ASSUME NEW t \in Task, NEW r, Sound(t, r), "failed" \in r.at, "done" \notin r.at,
         NEW time \in Nat
  PROVE  "done" \notin CheckAlone(t, r, time).at
<1> DEFINE r1 == CheckLocal(t, r)
           r2 == CheckReturn(t, r1, time)
           r3 == CheckTTI(t, r2, time)
<1>1. Sound(t, r1) /\ r \in TaskState
  BY CheckLocalSound DEF Sound
<1>2. "failed" \in r1.at /\ "done" \notin r1.at
  BY <1>1 DEF CheckLocal, Move, TaskState
<1> HIDE DEF r1
<1>3. r2 = r1
  BY <1>1, <1>2 DEF CheckReturn, In, Sound, Filed, Copied
<1>4. r1 \in TaskState
  BY <1>1 DEF Sound
<1>5. "done" \notin r3.at
  <2> DEFINE q == IF IsReturning(t, r1) THEN "returning" ELSE "offloading"
             m == IF q \in r1.at THEN Move(r1, {q}, "failed") ELSE r1
  <2>1. CheckTTI(t, r1, time) \in {r1, [m EXCEPT !.code = "tti"]}
    BY DEF CheckTTI
  <2>2. "done" \notin m.at /\ m \in TaskState
    BY <1>2, <1>4 DEF Move, TaskState, Queue, Settled
  <2> HIDE DEF m
  <2>3. "done" \notin [m EXCEPT !.code = "tti"].at
    BY <2>2 DEF TaskState
  <2>4. QED
    BY <1>2, <1>3, <2>1, <2>3
<1>6. QED
  BY <1>5 DEF CheckAlone, r1

\* A pass of checkTasks leaves no pending child of a failed parent, unless
\* copies of the parent made it done as well.
LEMMA CheckTasksSpreads ==
  ASSUME NEW f, \A u \in Task : Sound(u, f[u]), NEW time \in Nat, CheckTasks(f, time),
         NEW t \in Task, In(task'[t], Pending), NEW p \in Parents[t], "failed" \in f[p].at
  PROVE  "done" \in f[p].at /\ DependencyMet(task', t)
<1> DEFINE g == [u \in Task |-> CheckAlone(u, f[u], time)]
           late == Expired(g, time)
<1>1. PICK casc \in SUBSET Task :
        /\ Cascade(g, late, casc)
        /\ task' = [u \in Task |-> IF u \in late THEN Fail(g[u], "ddl")
                                   ELSE IF u \in casc THEN Fail(g[u], "parent")
                                   ELSE g[u]]
  BY DEF CheckTasks
<1>2. p \in Task /\ Parents[t] \subseteq Task
  BY TasksAndNodes
<1>3. \A u \in Task : Steady(u, g[u]) /\ g[u] \in TaskState /\ Stands(f[u], g[u])
  BY CheckAloneSteady, CheckAloneStands DEF Steady, Sound
<1>4. "done" \notin f[p].at => "done" \notin g[p].at
  BY <1>2, FailedNotDone
<1> HIDE DEF g, late
<1>5. \A u \in Task : task'[u] \in {Fail(g[u], "ddl"), Fail(g[u], "parent"), g[u]}
  BY <1>1
<1>6. t \notin late \cup casc
  <2>1. \A why : ~In(Fail(g[t], why), Pending)
    BY <1>3 DEF Fail, Move, In, TaskState, Pending, Transmitted
  <2>2. QED
    BY <1>1, <2>1
<1>7. In(g[t], Pending)
  BY <1>1, <1>6
<1>8. ~ParentFailed(g, t)
  BY <1>1, <1>6, <1>7 DEF Cascade
<1>9. "failed" \in g[p].at
  BY <1>2, <1>3 DEF Stands, Settled
<1>10. DependencyMet(g, t)
  BY <1>8, <1>9 DEF ParentFailed
<1>11. \A u \in Task, why \in {"ddl", "parent"} : Stands(g[u], Fail(g[u], why))
  BY <1>3 DEF Fail, Move, Stands, TaskState, Settled, Pending, Transmitted
<1>12. DependencyMet(task', t)
  BY <1>2, <1>5, <1>10, <1>11 DEF DependencyMet, Stands, Settled
<1>13. QED
  BY <1>4, <1>10, <1>12 DEF DependencyMet

\* After each of the two passes that clear the queues, no child of a parent
\* that had failed is pending, for any dependencies, unless a copy of that
\* parent was delivered and all the others are done.
THEOREM FailuresSpread == Spec => FailureSpreads
<1> DEFINE Spread(t) ==
      In(task'[t], Pending) =>
        \A p \in Parents[t] : "failed" \in task[p].at =>
          "done" \in task[p].at /\ DependencyMet(task', t)
<1>1. ASSUME IInv, GenerateAndCheckTasks, NEW t \in Task
      PROVE  Spread(t)
  <2>1. \A u \in Task : Sound(u, Released[u])
    BY <1>1, ReleasedSound
  <2>2. CheckTasks(Released, now) /\ now \in Nat
    BY <1>1 DEF GenerateAndCheckTasks, IInv, TypeOK
  <2>3. \A p \in Task : /\ "failed" \in task[p].at => "failed" \in Released[p].at
                        /\ "done" \in Released[p].at => "done" \in task[p].at
    BY <1>1 DEF Released, Move, IInv, TypeOK, TaskState
  <2>4. Parents[t] \subseteq Task
    BY TasksAndNodes
  <2>5. QED
    BY <2>1, <2>2, <2>3, <2>4, CheckTasksSpreads
<1>2. ASSUME IInv, Settle, NEW t \in Task
      PROVE  Spread(t)
  <2>1. PICK dead \in SUBSET (UAVs \cap present) :
          CheckTasks(RemoveTasks(task, dead), now + 1)
    BY <1>2 DEF Settle
  <2> DEFINE f == RemoveTasks(task, dead)
  <2>2. \A u \in Task : Sound(u, f[u])
    BY <1>2, RemoveSteady DEF IInv, Steady
  <2>3. CheckTasks(f, now + 1) /\ now + 1 \in Nat
    BY <1>2, <2>1 DEF IInv, TypeOK
  <2>4. \A p \in Task : /\ "failed" \in task[p].at => "failed" \in f[p].at
                        /\ "done" \in f[p].at => "done" \in task[p].at
    BY <1>2 DEF RemoveTasks, Move, IInv, TypeOK, TaskState, Pending, Transmitted
  <2>5. Parents[t] \subseteq Task
    BY TasksAndNodes
  <2> HIDE DEF f
  <2>6. QED
    BY <2>2, <2>3, <2>4, <2>5, CheckTasksSpreads
<1>3. ASSUME [Next]_vars, phase # phase', phase \in {"generate", "settle"}
      PROVE  GenerateAndCheckTasks \/ Settle
  BY <1>3 DEF Next, Schedule, Step, Finish, Halt, vars, Register, Offload, CanOffload, OffloadRefused,
     RequestReturn, ScheduleCommunication, UpdateTraffics, ValidateTaskResults, StartReturns,
     UpdateWireless, UpdateWired, UpdateComputation, At
<1>4. IInv /\ [Next]_vars =>
        [phase # phase' /\ phase \in {"generate", "settle"} => \A t \in Task : Spread(t)]_vars
  BY <1>1, <1>2, <1>3
<1>5. QED
  BY <1>4, Invariance, PTL DEF Spec, FailureSpreads

=============================================================================
