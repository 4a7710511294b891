------------------------ MODULE TaskLifecycleProofs ------------------------
(***************************************************************************)
(* Proofs about TaskLifecycle.                                             *)
(***************************************************************************)
EXTENDS TaskLifecycle, TLAPS

-----------------------------------------------------------------------------
(* Routes. *)

\* The next hop of a route is a node, and what is left of it is a route with
\* the same destination.
LEMMA NextHop ==
  ASSUME NEW s \in Seq(Node), s # <<>>
  PROVE  /\ Head(s) \in Node
         /\ Tail(s) \in Seq(Node)
         /\ Last(s) \in Node
         /\ Tail(s) # <<>> => Last(Tail(s)) = Last(s)
         /\ Tail(s) = <<>> => Head(s) = Last(s)
<1>1. Len(s) \in Nat \ {0}
  OBVIOUS
<1>2. Len(Tail(s)) = Len(s) - 1 /\ \A i \in 1 .. Len(s) - 1 : Tail(s)[i] = s[i + 1]
  BY <1>1
<1>3. Tail(s) # <<>> => Len(s) > 1
  BY <1>1, <1>2
<1>4. Tail(s) = <<>> => Len(s) = 1
  BY <1>1, <1>2
<1>5. QED
  BY <1>1, <1>2, <1>3, <1>4 DEF Last

-----------------------------------------------------------------------------
(***************************************************************************)
(* The inductive invariant, for one task.  The queue that lists a task     *)
(* determines where the task is, whether it is computed and what is left   *)
(* of its route; the copies of getOffloadingTasksWithNumber weaken that    *)
(* only for results that really have to be returned.                       *)
(***************************************************************************)

Filed(r) == ~r.echoed => \E q \in Queue : r.at = {q}

Copied(t, r) ==
  /\ "echo" \in r.at => r.echoed
  /\ r.echoed => /\ r.computed /\ r.retSet /\ Started(r) /\ RequireReturn(t, r)
                 /\ In(r, {"computing", "waitReturn"}) => Local(t, r)
                 /\ Local(t, r) => r.route # <<>> /\ "done" \notin r.at

Idle(t, r) ==
  In(r, {"unborn", "generate", "waiting"}) =>
    r.cur = TaskNodeOf[t] /\ ~Started(r) /\ ~r.computed /\ r.route = <<>>

Outbound(t, r) ==
  "offloading" \in r.at =>
    /\ Started(r) /\ ~r.computed /\ ~Local(t, r)
    /\ r.route # <<>> /\ Last(r.route) = r.assigned

Placed(t, r) ==
  "computing" \in r.at =>
    Started(r) /\ r.cur = r.assigned /\ (~Local(t, r) => r.route = <<>>)

Finished(t, r) ==
  "waitReturn" \in r.at =>
    Started(r) /\ r.computed /\ (~Local(t, r) => r.route = <<>>)

Inbound(t, r) ==
  "returning" \in r.at =>
    /\ Started(r) /\ r.computed /\ r.retSet
    /\ RequireReturn(t, r) => r.route # <<>> /\ Last(r.route) = r.retNode

Delivered(r) ==
  "done" \in r.at => r.computed /\ r.cur = r.retNode /\ r.route = <<>>

Sound(t, r) ==
  /\ r \in TaskState
  /\ Filed(r) /\ Copied(t, r) /\ Idle(t, r) /\ Outbound(t, r) /\ Placed(t, r)
  /\ Finished(t, r) /\ Inbound(t, r) /\ Delivered(r)

\* Between two handlers a returning task has something to return.
Returnable(t, r) == "returning" \in r.at => RequireReturn(t, r)

Steady(t, r) == Sound(t, r) /\ Returnable(t, r)

\* r2 is a later state of r that is pending only if r was.
Ages(r, r2) ==
  r2.arrival = r.arrival /\ (In(r2, Pending) => In(r, Pending))

-----------------------------------------------------------------------------
(* The handlers keep a task sound, one by one. *)

\* Stage 1 of checkTasks.
LEMMA CheckLocalSound ==
  ASSUME NEW t \in Task, NEW r, Sound(t, r)
  PROVE  Sound(t, CheckLocal(t, r)) /\ Ages(r, CheckLocal(t, r))
<1>1. CASE ~(Local(t, r) /\ In(r, {"waiting", "offloading", "echo"}))
  BY <1>1 DEF CheckLocal, Ages
<1>2. CASE Local(t, r) /\ In(r, {"waiting", "offloading", "echo"})
  <2> DEFINE r2 == CheckLocal(t, r)
  <2>1. r \in TaskState /\ TaskNodeOf[t] \in Node /\ NoNode \notin Node
    BY TasksAndNodes DEF Sound
  <2>2. r.echoed /\ "waiting" \notin r.at /\ "offloading" \notin r.at /\ "echo" \in r.at
    BY <1>2, <2>1 DEF Sound, Copied, Idle, Outbound, In, Local, Started
  <2>3. r2 = [r EXCEPT !.at = (r.at \ {"waiting", "offloading", "echo"}) \cup {"computing"},
                       !.cur = TaskNodeOf[t]]
    BY <1>2, <2>1 DEF CheckLocal, Move, TaskState
  <2>4. r2 \in TaskState
    BY <2>1, <2>3 DEF TaskState, Queue, Pending, Transmitted, Settled
  <2>5. QED
    BY <1>2, <2>1, <2>2, <2>3, <2>4 DEF Sound, Filed, Copied, Idle, Outbound, Placed,
       Finished, Inbound, Delivered, In, Local, Started, RequireReturn, Ages,
       TaskState, Pending, Transmitted
<1>3. QED
  BY <1>1, <1>2

\* Stage 2: what is left in the returning lists has something to return.
LEMMA CheckReturnSteady ==
  ASSUME NEW t \in Task, NEW r, Sound(t, r), NEW time \in Nat
  PROVE  Steady(t, CheckReturn(t, r, time)) /\ Ages(r, CheckReturn(t, r, time))
<1>1. CASE ~(In(r, {"returning", "waitReturn"}) /\ ~RequireReturn(t, r))
  <2>1. CheckReturn(t, r, time) = r
    BY <1>1 DEF CheckReturn
  <2>2. Returnable(t, r)
    BY <1>1 DEF Returnable, In
  <2>3. QED
    BY <2>1, <2>2 DEF Steady, Ages
<1>2. CASE In(r, {"returning", "waitReturn"}) /\ ~RequireReturn(t, r)
  <2> DEFINE r2 == CheckReturn(t, r, time)
             verdict == IF InTime(t, r, time) THEN "done" ELSE "failed"
             last == IF IsReturning(t, r) THEN r.lastTx ELSE time
  <2>1. r \in TaskState
    BY DEF Sound
  <2>2. ~r.echoed /\ (r.at = {"returning"} \/ r.at = {"waitReturn"}) /\ r.computed
    BY <1>2 DEF Sound, Copied, Filed, In, Finished, Inbound
  <2>3. r2 = [r EXCEPT !.at = {verdict}, !.cur = r.retNode, !.route = <<>>, !.lastTx = last]
    BY <1>2, <2>1, <2>2 DEF CheckReturn, Move, TaskState
  <2>4. last \in Nat /\ verdict \in {"done", "failed"} /\ r.retNode \in Node
    BY <2>1 DEF TaskState
  <2> HIDE DEF r2, verdict, last
  <2>5. r2 \in TaskState
    <3>1. {verdict} \in SUBSET Queue
      BY <2>4 DEF Queue, Settled
    <3>2. <<>> \in Seq(Node)
      OBVIOUS
    <3>3. QED
      BY <2>1, <2>3, <2>4, <3>1, <3>2 DEF TaskState
  <2>6. /\ r2.at = {verdict} /\ r2.cur = r2.retNode /\ r2.route = <<>>
        /\ r2.computed = r.computed /\ r2.echoed = r.echoed /\ r2.arrival = r.arrival
    BY <2>1, <2>3 DEF TaskState
  <2>7. Sound(t, r2) /\ Returnable(t, r2) /\ Ages(r, r2)
    BY <2>2, <2>4, <2>5, <2>6 DEF Sound, Filed, Copied, Idle, Outbound, Placed, Finished,
       Inbound, Delivered, Returnable, In, Ages, Queue, Pending, Transmitted, Settled
  <2>8. QED
    BY <2>7 DEF Steady, r2
<1>3. QED
  BY <1>1, <1>2

\* Moving a task out of some queues into the failed or the removed list keeps
\* it sound.
LEMMA VerdictSteady ==
  ASSUME NEW t \in Task, NEW r, Steady(t, r), NEW from, NEW to \in {"failed", "removed"},
         from \subseteq Pending \cup {"done"}, In(r, from)
  PROVE  Steady(t, Move(r, from, to)) /\ Ages(r, Move(r, from, to))
<1> DEFINE r2 == Move(r, from, to)
<1>1. r \in TaskState
  BY DEF Steady, Sound
<1>2. /\ r2 \in TaskState /\ r2.at = (r.at \ from) \cup {to}
      /\ r2.cur = r.cur /\ r2.assigned = r.assigned /\ r2.retNode = r.retNode
      /\ r2.route = r.route /\ r2.retSet = r.retSet /\ r2.computed = r.computed
      /\ r2.arrival = r.arrival /\ r2.echoed = r.echoed
  BY <1>1 DEF Move, TaskState, Queue, Settled
<1> HIDE DEF r2
<1>3. Filed(r2)
  BY <1>2 DEF Steady, Sound, Filed, In, Queue, Settled
<1>4. Sound(t, r2) /\ Returnable(t, r2) /\ Ages(r, r2)
  BY <1>2, <1>3 DEF Steady, Sound, Copied, Idle, Outbound, Placed, Finished, Inbound,
     Delivered, Returnable, In, Ages, Local, Started, RequireReturn, Pending, Transmitted
<1>5. QED
  BY <1>4 DEF Steady, r2

\* A failure code is only a label.
LEMMA CodeSteady ==
  ASSUME NEW t \in Task, NEW r, Steady(t, r), NEW why \in Code
  PROVE  LET r2 == [r EXCEPT !.code = why] IN Steady(t, r2) /\ Ages(r, r2)
<1> DEFINE r2 == [r EXCEPT !.code = why]
<1>1. /\ r2 \in TaskState /\ r2.at = r.at
      /\ r2.cur = r.cur /\ r2.assigned = r.assigned /\ r2.retNode = r.retNode
      /\ r2.route = r.route /\ r2.retSet = r.retSet /\ r2.computed = r.computed
      /\ r2.arrival = r.arrival /\ r2.echoed = r.echoed
  BY DEF Steady, Sound, TaskState
<1> HIDE DEF r2
<1>2. Sound(t, r2) /\ Returnable(t, r2) /\ Ages(r, r2)
  BY <1>1 DEF Steady, Sound, Filed, Copied, Idle, Outbound, Placed, Finished, Inbound,
     Delivered, Returnable, In, Ages, Local, Started, RequireReturn
<1>3. QED
  BY <1>2 DEF Steady, r2

\* A failed task.
LEMMA FailSteady ==
  ASSUME NEW t \in Task, NEW r, Steady(t, r), In(r, Pending), NEW why \in Code
  PROVE  /\ Steady(t, Fail(r, why)) /\ Ages(r, Fail(r, why))
         /\ ~In(Fail(r, why), Pending)
<1>1. Steady(t, Move(r, Pending, "failed")) /\ Ages(r, Move(r, Pending, "failed"))
  BY VerdictSteady
<1>2. Steady(t, Fail(r, why)) /\ Ages(Move(r, Pending, "failed"), Fail(r, why))
  BY <1>1, CodeSteady DEF Fail
<1>3. Fail(r, why).at = (r.at \ Pending) \cup {"failed"}
  BY DEF Fail, Move, Steady, Sound, TaskState
<1>4. QED
  BY <1>1, <1>2, <1>3 DEF Ages, In, Pending, Transmitted

\* Stage 3, and the first three stages together.
LEMMA CheckTTISteady ==
  ASSUME NEW t \in Task, NEW r, Steady(t, r), NEW time \in Nat
  PROVE  Steady(t, CheckTTI(t, r, time)) /\ Ages(r, CheckTTI(t, r, time))
<1> DEFINE q == IF IsReturning(t, r) THEN "returning" ELSE "offloading"
           m == IF q \in r.at THEN Move(r, {q}, "failed") ELSE r
<1>1. CASE ~(In(r, Transmitted) /\ time - r.lastTx > TTI)
  BY <1>1 DEF CheckTTI, Ages
<1>2. CASE In(r, Transmitted) /\ time - r.lastTx > TTI
  <2>1. CheckTTI(t, r, time) = [m EXCEPT !.code = "tti"]
    BY <1>2 DEF CheckTTI
  <2>2. {q} \subseteq Pending
    BY DEF Pending, Transmitted
  <2> HIDE DEF q
  <2>3. Steady(t, m) /\ Ages(r, m)
    BY <2>2, VerdictSteady DEF In, Ages
  <2> HIDE DEF m
  <2>4. Steady(t, [m EXCEPT !.code = "tti"]) /\ Ages(m, [m EXCEPT !.code = "tti"])
    BY <2>3, CodeSteady DEF Code
  <2>5. QED
    BY <2>1, <2>3, <2>4 DEF Ages
<1>3. QED
  BY <1>1, <1>2

\* Stages 1 to 3 together make a sound task steady.
LEMMA CheckAloneSteady ==
  ASSUME NEW t \in Task, NEW r, Sound(t, r), NEW time \in Nat
  PROVE  Steady(t, CheckAlone(t, r, time)) /\ Ages(r, CheckAlone(t, r, time))
BY CheckLocalSound, CheckReturnSteady, CheckTTISteady DEF CheckAlone, Ages

\* One interval of transfer, with the arrival at the end of the last hop.
LEMMA CarrySteady ==
  ASSUME NEW t \in Task, NEW r, Steady(t, r), Transmitting(t, r), r.route # <<>>,
         NEW hop \in BOOLEAN, now \in Nat
  PROVE  LET r2 == Transmit(t, r, hop)
             r3 == IF r2.route = <<>> THEN FinishOffloading(t, r2) ELSE r2
         IN  Steady(t, r3) /\ Ages(r, r3)
<1> DEFINE r2 == Transmit(t, r, hop)
           r3 == IF r2.route = <<>> THEN FinishOffloading(t, r2) ELSE r2
           last == IF IsReturning(t, r) THEN r.lastTx ELSE now
<1>1. r \in TaskState /\ r.route \in Seq(Node) /\ r.lastTx \in Nat
  BY DEF Steady, Sound, TaskState
<1>2. r.at \subseteq {"offloading", "returning", "echo", "failed", "removed"}
  BY <1>1 DEF Steady, Sound, Idle, Placed, Finished, Delivered, Transmitting, In,
     TaskState, Queue, Pending, Transmitted, Settled
<1>3. CASE ~hop
  <2>1. r2 = [r EXCEPT !.lastTx = last]
    BY <1>1, <1>3 DEF Transmit, TaskState
  <2> HIDE DEF r2, last
  <2>2. last \in Nat
    BY <1>1 DEF last
  <2>3. /\ r2 \in TaskState /\ r2.at = r.at
        /\ r2.cur = r.cur /\ r2.assigned = r.assigned /\ r2.retNode = r.retNode
        /\ r2.route = r.route /\ r2.retSet = r.retSet /\ r2.computed = r.computed
        /\ r2.arrival = r.arrival /\ r2.echoed = r.echoed
    BY <1>1, <2>1, <2>2 DEF TaskState
  <2>4. Steady(t, r2) /\ Ages(r, r2)
    BY <2>3 DEF Steady, Sound, Filed, Copied, Idle, Outbound, Placed, Finished, Inbound,
       Delivered, Returnable, In, Ages, Local, Started, RequireReturn
  <2>5. r2.route # <<>>
    BY <2>3
  <2>6. QED
    BY <2>4, <2>5 DEF r2
<1>4. CASE hop
  <2>1. r2 = [r EXCEPT !.lastTx = last, !.cur = Head(r.route), !.route = Tail(r.route)]
    BY <1>1, <1>4 DEF Transmit, TaskState
  <2>2. /\ Head(r.route) \in Node /\ Tail(r.route) \in Seq(Node)
        /\ Tail(r.route) # <<>> => Last(Tail(r.route)) = Last(r.route)
        /\ Tail(r.route) = <<>> => Head(r.route) = Last(r.route)
    BY <1>1, NextHop
  <2>3. last \in Nat
    BY <1>1
  <2> HIDE DEF r2, last
  <2>4. /\ r2 \in TaskState /\ r2.at = r.at
        /\ r2.cur = Head(r.route) /\ r2.assigned = r.assigned /\ r2.retNode = r.retNode
        /\ r2.route = Tail(r.route) /\ r2.retSet = r.retSet /\ r2.computed = r.computed
        /\ r2.arrival = r.arrival /\ r2.echoed = r.echoed
    BY <1>1, <2>1, <2>2, <2>3 DEF TaskState
  <2>5. CASE Tail(r.route) # <<>>
    <3>1. Steady(t, r2) /\ Ages(r, r2)
      BY <1>2, <2>2, <2>4, <2>5 DEF Steady, Sound, Filed, Copied, Idle, Outbound, Placed,
         Finished, Inbound, Delivered, Returnable, In, Ages, Local, Started, RequireReturn
    <3>2. QED
      BY <2>4, <2>5, <3>1 DEF r2
  <2>6. CASE Tail(r.route) = <<>>
    <3>1. r2.route = <<>> /\ r2.cur = Last(r.route) /\ ~Local(t, r2) /\ Started(r2)
      BY <2>2, <2>4, <2>6 DEF Local, Started, Transmitting
    <3>2. CASE ~r.computed
      <4>1. ~IsReturning(t, r2) /\ "returning" \notin r.at /\ "echo" \notin r.at /\ ~r.echoed
        BY <2>4, <3>2 DEF IsReturning, Steady, Sound, Inbound, Copied
      <4>2. CASE "offloading" \in r.at
        <5>1. r3 = [r2 EXCEPT !.at = {"computing"}]
          <6>1. r2.at = {"offloading"}
            BY <2>4, <4>1, <4>2 DEF Steady, Sound, Filed
          <6>2. Move(r2, {"offloading"}, "computing") = [r2 EXCEPT !.at = {"computing"}]
            BY <2>4, <6>1 DEF Move, TaskState
          <6>3. QED
            BY <3>1, <4>1, <4>2, <2>4, <6>2 DEF FinishOffloading
        <5> HIDE DEF r3
        <5>2. /\ r3 \in TaskState /\ r3.at = {"computing"}
              /\ r3.cur = r3.assigned /\ r3.assigned = r.assigned
              /\ r3.route = <<>> /\ ~r3.computed
              /\ r3.arrival = r.arrival /\ ~r3.echoed /\ Started(r3)
          BY <2>4, <3>1, <3>2, <4>1, <4>2, <5>1 DEF TaskState, Queue, Pending, Steady, Sound,
             Outbound, Started
        <5>3. Steady(t, r3) /\ Ages(r, r3)
          BY <4>2, <5>2 DEF Steady, Sound, Filed, Copied, Idle, Outbound, Placed, Finished,
             Inbound, Delivered, Returnable, In, Ages, Queue, Pending, Transmitted
        <5>4. QED
          BY <5>3 DEF r3, r2
      <4>3. CASE "offloading" \notin r.at
        <5>1. r3 = r2
          BY <3>1, <4>1, <4>3, <2>4 DEF FinishOffloading
        <5>2. Steady(t, r2) /\ Ages(r, r2)
          BY <1>2, <2>4, <4>1, <4>3 DEF Steady, Sound, Filed, Copied, Idle, Outbound, Placed,
             Finished, Inbound, Delivered, Returnable, In, Ages
        <5>3. QED
          BY <5>1, <5>2 DEF r3, r2
      <4>4. QED
        BY <4>2, <4>3
    <3>3. CASE r.computed
      <4>1. IsReturning(t, r2) /\ "offloading" \notin r.at
        BY <2>4, <3>1, <3>3 DEF IsReturning, Transmitting, Steady, Sound, Outbound
      <4>2. CASE "returning" \notin r.at
        <5>1. r3 = r2
          BY <3>1, <4>1, <4>2, <2>4 DEF FinishOffloading
        <5>2. Steady(t, r2) /\ Ages(r, r2)
          BY <1>2, <2>4, <3>1, <4>1, <4>2 DEF Steady, Sound, Filed, Copied, Idle, Outbound,
             Placed, Finished, Inbound, Delivered, Returnable, In, Ages, Local, Started,
             RequireReturn
        <5>3. QED
          BY <5>1, <5>2 DEF r3, r2
      <4>3. CASE "returning" \in r.at
        <5>1. PICK verdict \in {"done", "failed"}, why \in Code :
                r3 = [r2 EXCEPT !.at = (r.at \ {"returning"}) \cup {verdict}, !.code = why]
          <6>1. r3 = IF InTime(t, r2, now) THEN Move(r2, {"returning"}, "done")
                     ELSE [Move(r2, {"returning"}, "failed") EXCEPT !.code = "ddl"]
            BY <2>4, <3>1, <4>1, <4>3 DEF FinishOffloading
          <6>2. CASE InTime(t, r2, now)
            <7>1. r3 = [r2 EXCEPT !.at = (r.at \ {"returning"}) \cup {"done"}, !.code = r2.code]
              BY <2>4, <6>1, <6>2 DEF Move, TaskState
            <7>2. r2.code \in Code
              BY <2>4 DEF TaskState
            <7>3. QED
              BY <7>1, <7>2
          <6>3. CASE ~InTime(t, r2, now)
            <7>1. r3 = [r2 EXCEPT !.at = (r.at \ {"returning"}) \cup {"failed"}, !.code = "ddl"]
              BY <2>4, <6>1, <6>3 DEF Move, TaskState
            <7>2. QED
              BY <7>1 DEF Code
          <6>4. QED
            BY <6>2, <6>3
        <5> HIDE DEF r3
        <5>2. (r.at \ {"returning"}) \cup {verdict} \in SUBSET Queue
          BY <1>1 DEF TaskState, Queue, Settled
        <5>3. /\ r3 \in TaskState /\ r3.at = (r.at \ {"returning"}) \cup {verdict}
              /\ r3.cur = r3.retNode /\ r3.assigned = r.assigned /\ r3.retNode = r.retNode
              /\ r3.route = <<>> /\ r3.retSet = r.retSet /\ r3.computed
              /\ r3.arrival = r.arrival /\ r3.echoed = r.echoed
          BY <2>4, <3>1, <3>3, <4>3, <5>1, <5>2 DEF TaskState, Steady, Sound, Inbound, Returnable
        <5>4. Filed(r3)
          BY <4>3, <5>3 DEF Filed, Steady, Sound, Queue, Settled
        <5>5. Steady(t, r3) /\ Ages(r, r3)
          BY <1>2, <3>1, <2>4, <4>1, <4>3, <5>3, <5>4 DEF Steady, Sound, Copied, Idle, Outbound,
             Placed, Finished, Inbound, Delivered, Returnable, In, Ages, Local, Started,
             RequireReturn, Pending, Transmitted
        <5>6. QED
          BY <5>5 DEF r3, r2
      <4>4. QED
        BY <4>2, <4>3
    <3>4. QED
      BY <3>2, <3>3
  <2>7. QED
    BY <2>5, <2>6
<1>5. QED
  BY <1>3, <1>4

-----------------------------------------------------------------------------
(* The same for the operations on all tasks. *)

\* checkTasks: afterwards every task is steady, and within its deadline if it
\* is pending.
LEMMA CheckTasksSteady ==
  ASSUME NEW f, \A t \in Task : Sound(t, f[t]), NEW time \in Nat, CheckTasks(f, time)
  PROVE  /\ task' = [t \in Task |-> task'[t]]
         /\ \A t \in Task : /\ Steady(t, task'[t]) /\ Ages(f[t], task'[t])
                            /\ In(task'[t], Pending) => InTime(t, task'[t], time)
<1> DEFINE g == [t \in Task |-> CheckAlone(t, f[t], time)]
           late == Expired(g, time)
<1>1. PICK casc \in SUBSET Task :
        /\ Cascade(g, late, casc)
        /\ task' = [t \in Task |-> IF t \in late THEN Fail(g[t], "ddl")
                                   ELSE IF t \in casc THEN Fail(g[t], "parent")
                                   ELSE g[t]]
  BY DEF CheckTasks
<1>2. ASSUME NEW t \in Task
      PROVE  /\ Steady(t, task'[t]) /\ Ages(f[t], task'[t])
             /\ In(task'[t], Pending) => InTime(t, task'[t], time)
  <2>1. Steady(t, g[t]) /\ Ages(f[t], g[t])
    BY CheckAloneSteady
  <2>2. CASE t \in late
    <3>1. In(g[t], Pending)
      BY <2>2 DEF Expired
    <3>2. /\ Steady(t, Fail(g[t], "ddl")) /\ Ages(g[t], Fail(g[t], "ddl"))
          /\ ~In(Fail(g[t], "ddl"), Pending)
      BY <2>1, <3>1, FailSteady DEF Code
    <3>3. task'[t] = Fail(g[t], "ddl")
      BY <1>1, <2>2
    <3> HIDE DEF g
    <3>4. QED
      BY <2>1, <3>2, <3>3 DEF Ages
  <2>3. CASE t \notin late /\ t \in casc
    <3>1. In(g[t], Pending)
      BY <1>1, <2>3 DEF Cascade
    <3>2. /\ Steady(t, Fail(g[t], "parent")) /\ Ages(g[t], Fail(g[t], "parent"))
          /\ ~In(Fail(g[t], "parent"), Pending)
      BY <2>1, <3>1, FailSteady DEF Code
    <3>3. task'[t] = Fail(g[t], "parent")
      BY <1>1, <2>3
    <3> HIDE DEF g
    <3>4. QED
      BY <2>1, <3>2, <3>3 DEF Ages
  <2>4. CASE t \notin late /\ t \notin casc
    <3>1. task'[t] = g[t]
      BY <1>1, <2>4
    <3>2. In(g[t], Pending) => InTime(t, g[t], time)
      BY <2>4 DEF Expired
    <3> HIDE DEF g
    <3>3. QED
      BY <2>1, <3>1, <3>2
  <2>5. QED
    BY <2>2, <2>3, <2>4
<1> HIDE DEF g, late
<1>3. task' = [t \in Task |-> task'[t]]
  BY <1>1
<1>4. QED
  BY <1>2, <1>3

\* The query marks what it copies.
LEMMA QuerySteady ==
  ASSUME NEW f, NEW t \in Task, Steady(t, f[t])
  PROVE  Steady(t, Query(f)[t]) /\ Ages(f[t], Query(f)[t])
<1> DEFINE r == f[t]
           r2 == Query(f)[t]
<1>1. CASE ~("returning" \in r.at /\ HasOffloadingList(f, r.assigned))
  <2>1. r2 = r
    BY <1>1 DEF Query
  <2>2. QED
    BY <2>1 DEF Ages
<1>2. CASE "returning" \in r.at /\ HasOffloadingList(f, r.assigned)
  <2>1. r2 = [r EXCEPT !.at = r.at \cup {"echo"}, !.echoed = TRUE]
    BY <1>2 DEF Query, Steady, Sound, TaskState
  <2> HIDE DEF r, r2
  <2>2. r \in TaskState /\ Steady(t, r)
    BY DEF r, Steady, Sound
  <2>3. /\ r2 \in TaskState /\ r2.at = r.at \cup {"echo"}
        /\ r2.cur = r.cur /\ r2.assigned = r.assigned /\ r2.retNode = r.retNode
        /\ r2.route = r.route /\ r2.retSet = r.retSet /\ r2.computed = r.computed
        /\ r2.arrival = r.arrival /\ r2.echoed
    BY <2>1, <2>2 DEF TaskState, Queue, Pending, Transmitted
  <2>4. ~r.echoed => r.at = {"returning"}
    BY <1>2, <2>2 DEF Steady, Sound, Filed
  <2>5. Steady(t, r2) /\ Ages(r, r2)
    BY <1>2, <2>2, <2>3, <2>4 DEF Steady, Sound, Filed, Copied, Idle, Outbound, Placed, Finished,
       Inbound, Delivered, Returnable, In, Ages, Local, Started, RequireReturn, Pending,
       Transmitted
  <2>6. QED
    BY <2>5 DEF r, r2
<1>3. QED
  BY <1>1, <1>2

\* A departed node takes its tasks along.
LEMMA RemoveSteady ==
  ASSUME NEW f, NEW gone, NEW t \in Task, Steady(t, f[t])
  PROVE  Steady(t, RemoveTasks(f, gone)[t]) /\ Ages(f[t], RemoveTasks(f, gone)[t])
<1>1. CASE In(f[t], Pending \ {"waiting"}) /\ \E n \in gone : Related(t, f[t], n)
  <2>1. RemoveTasks(f, gone)[t] = Move(f[t], Pending \ {"waiting"}, "removed")
    BY <1>1 DEF RemoveTasks
  <2>2. QED
    BY <1>1, <2>1, VerdictSteady
<1>2. CASE ~(In(f[t], Pending \ {"waiting"}) /\ \E n \in gone : Related(t, f[t], n))
  <2>1. RemoveTasks(f, gone)[t] = f[t]
    BY <1>2 DEF RemoveTasks
  <2>2. QED
    BY <2>1 DEF Ages
<1>3. QED
  BY <1>1, <1>2

\* A return starts only for a task that has no copies: a copied one would
\* keep its return route and raise.
LEMMA StartReturnSound ==
  ASSUME NEW t \in Task, NEW r, Steady(t, r), "waitReturn" \in r.at,
         ~ReturnRouteKept(t, r), NEW route \in Seq(Node), route # <<>>
  PROVE  Sound(t, StartReturn(t, r, route)) /\ Ages(r, StartReturn(t, r, route))
<1> DEFINE r2 == StartReturn(t, r, route)
           rest == IF t \in Returns THEN route ELSE <<>>
<1>1. r \in TaskState
  BY DEF Steady, Sound
<1>2. ~r.echoed
  BY DEF Steady, Sound, Copied, ReturnRouteKept, In
<1>3. r.at = {"waitReturn"} /\ Started(r) /\ r.computed
  BY <1>2 DEF Steady, Sound, Filed, Finished
<1>4. Last(route) \in Node /\ rest \in Seq(Node)
  BY NextHop
<1>5. r2 = [r EXCEPT !.at = {"returning"}, !.retSet = TRUE, !.retNode = Last(route), !.route = rest]
  BY <1>1, <1>3 DEF StartReturn, Move, TaskState
<1> HIDE DEF r2, rest
<1>6. {"returning"} \in SUBSET Queue
  BY DEF Queue, Pending, Transmitted
<1>7. /\ r2 \in TaskState /\ r2.at = {"returning"} /\ r2.cur = r.cur
      /\ r2.assigned = r.assigned /\ r2.retNode = Last(route) /\ r2.route = rest
      /\ r2.retSet /\ r2.computed /\ r2.arrival = r.arrival /\ ~r2.echoed
  BY <1>1, <1>2, <1>3, <1>4, <1>5, <1>6 DEF TaskState
<1>8. Sound(t, r2) /\ Ages(r, r2)
  BY <1>3, <1>6, <1>7 DEF Sound, Filed, Copied, Idle, Outbound, Placed, Finished, Inbound,
     Delivered, In, Ages, Started, RequireReturn, Pending, Transmitted, rest
<1>9. QED
  BY <1>8 DEF r2

-----------------------------------------------------------------------------
(***************************************************************************)
(* The inductive invariant: every task is steady between two handlers.     *)
(***************************************************************************)
IInv ==
  /\ TypeOK
  /\ \A t \in Task : Steady(t, task[t])
  /\ DeadlineEnforced

TasksHold == task \in [Task -> TaskState] /\ (\A t \in Task : Steady(t, task[t])) /\ DeadlineEnforced

\* The parameters have the types the proofs need.
LEMMA Parameters ==
  /\ \A t \in Task : /\ TaskNodeOf[t] \in Node /\ ReturnNodeOf[t] \in Node
                     /\ ArrivalOf[t] \in Nat /\ DeadlineOf[t] \in Nat
  /\ \A t \in Task : OffloadRoutes[t] \cup ReturnRoutes[t] \subseteq Seq(Node) \ {<<>>}
  /\ NoNode \notin Node
<1>1. \A t \in Task : /\ TaskNodeOf[t] \in Node /\ ReturnNodeOf[t] \in Node
                      /\ ArrivalOf[t] \in Nat /\ DeadlineOf[t] \in Nat
  BY TasksAndNodes, Times
<1>2. \A t \in Task : /\ OffloadRoutes[t] \in SUBSET (Seq(Node) \ {<<>>})
                      /\ ReturnRoutes[t] \in SUBSET (Seq(Node) \ {<<>>})
  BY Routes
<1>3. \A t \in Task : OffloadRoutes[t] \cup ReturnRoutes[t] \subseteq Seq(Node) \ {<<>>}
  BY <1>2
<1>4. QED
  BY <1>1, <1>3, TasksAndNodes

\* At the start every task is predicted, or still to be built by the bridge.
LEMMA InitHolds == Init => IInv
<1> SUFFICES ASSUME Init PROVE IInv
  OBVIOUS
<1>1. ASSUME NEW t \in Task
      PROVE  Steady(t, task[t]) /\ (In(task[t], Pending) => InTime(t, task[t], now))
  <2> DEFINE q == IF t \in External THEN "unborn" ELSE "generate"
  <2>1. task[t] = [at |-> {q}, cur |-> TaskNodeOf[t], assigned |-> NoNode,
                   retNode |-> ReturnNodeOf[t], route |-> <<>>, retSet |-> FALSE,
                   computed |-> FALSE, lastTx |-> 0, arrival |-> ArrivalOf[t],
                   code |-> "none", echoed |-> FALSE]
    BY DEF Init
  <2>2. q \in {"unborn", "generate"}
    OBVIOUS
  <2> HIDE DEF q
  <2>3. {q} \in SUBSET Queue /\ <<>> \in Seq(Node) /\ "none" \in Code
    BY <2>2 DEF Queue, Pending, Code
  <2>4. task[t] \in TaskState
    BY <2>1, <2>3, Parameters DEF TaskState
  <2>5. Steady(t, task[t])
    BY <2>1, <2>2, <2>3, <2>4, Parameters DEF Steady, Sound, Filed, Copied, Idle, Outbound,
       Placed, Finished, Inbound, Delivered, Returnable, In, Started
  <2>6. InTime(t, task[t], now)
    BY <2>1, Parameters DEF InTime, Init
  <2>7. QED
    BY <2>5, <2>6
<1>2. task \in [Task -> TaskState]
  BY <1>1 DEF Init, Steady, Sound
<1>3. retReq \in [Task -> Seq(Node)]
  BY DEF Init
<1>4. TypeOK
  BY <1>2, <1>3 DEF Init, TypeOK, Phases
<1>5. QED
  BY <1>1, <1>4 DEF IInv, DeadlineEnforced

\* A handler that ages steady tasks keeps the tasks as they should be.
LEMMA TasksAge ==
  ASSUME IInv, task' = [t \in Task |-> task'[t]], now' = now,
         \A t \in Task : Steady(t, task'[t]) /\ Ages(task[t], task'[t])
  PROVE  TasksHold'
<1>1. task' \in [Task -> TaskState]
  BY DEF Steady, Sound
<1>2. DeadlineEnforced'
  BY DEF IInv, DeadlineEnforced, Ages, InTime
<1>3. QED
  BY <1>1, <1>2 DEF TasksHold

\* A pass of checkTasks at the new time does so whatever the time was.
LEMMA TasksChecked ==
  ASSUME NEW f, \A t \in Task : Sound(t, f[t]), now' \in Nat, CheckTasks(f, now')
  PROVE  TasksHold'
<1>1. /\ task' = [t \in Task |-> task'[t]]
      /\ \A t \in Task : /\ Steady(t, task'[t])
                         /\ In(task'[t], Pending) => InTime(t, task'[t], now')
  BY CheckTasksSteady
<1>2. task' \in [Task -> TaskState]
  BY <1>1 DEF Steady, Sound
<1>3. DeadlineEnforced'
  BY <1>1 DEF DeadlineEnforced, InTime
<1>4. QED
  BY <1>1, <1>2, <1>3 DEF TasksHold

-----------------------------------------------------------------------------
(* Every action preserves the invariant. *)

\* A bridge task is registered with its deadline before it.
LEMMA RegisterHolds ==
  ASSUME IInv, NEW t \in Task, Register(t)
  PROVE  IInv'
<1> DEFINE r == task[t]
           r2 == [Move(r, {"unborn"}, "waiting") EXCEPT !.arrival = now]
<1>1. r \in TaskState /\ Steady(t, r) /\ now \in Nat /\ "unborn" \in r.at
  BY DEF IInv, TypeOK, Register
<1>2. r.at = {"unborn"}
  BY <1>1 DEF Steady, Sound, Filed, Copied, Idle, In
<1>3. r2 = [r EXCEPT !.at = {"waiting"}, !.arrival = now]
  BY <1>1, <1>2 DEF Move, TaskState
<1>4. task' = [task EXCEPT ![t] = r2]
  BY DEF Register
<1> HIDE DEF r2
<1>5. {"waiting"} \in SUBSET Queue
  BY DEF Queue, Pending
<1>6. /\ r2 \in TaskState /\ r2.at = {"waiting"}
      /\ r2.cur = r.cur /\ r2.assigned = r.assigned /\ r2.retNode = r.retNode
      /\ r2.route = r.route /\ r2.retSet = r.retSet /\ r2.computed = r.computed
      /\ r2.arrival = now /\ r2.echoed = r.echoed
  BY <1>1, <1>3, <1>5 DEF TaskState
<1>7. Steady(t, r2)
  BY <1>1, <1>2, <1>5, <1>6 DEF Steady, Sound, Filed, Copied, Idle, Outbound, Placed,
     Finished, Inbound, Delivered, Returnable, In, Started
<1>8. InTime(t, r2, now)
  BY <1>1, <1>6, Parameters DEF InTime
<1>9. TasksHold'
  BY <1>4, <1>6, <1>7, <1>8 DEF TasksHold, IInv, TypeOK, DeadlineEnforced, Register
<1>10. QED
  BY <1>9 DEF TasksHold, IInv, TypeOK, Register

\* An offloaded task waits for its hops, or is at its own processor.
LEMMA OffloadHolds ==
  ASSUME IInv, NEW t \in Task, NEW route \in OffloadRoutes[t], Offload(t, route)
  PROVE  IInv'
<1> DEFINE r == task[t]
           q == IF Last(route) = TaskNodeOf[t] /\ r.cur = TaskNodeOf[t]
                THEN "computing" ELSE "offloading"
           r2 == [Move(r, {"waiting"}, q)
                    EXCEPT !.assigned = Last(route), !.route = route, !.lastTx = now]
<1>1. r \in TaskState /\ Steady(t, r) /\ now \in Nat /\ "waiting" \in r.at
  BY DEF IInv, TypeOK, Offload, CanOffload
<1>2. r.at = {"waiting"} /\ r.cur = TaskNodeOf[t] /\ ~r.computed
  BY <1>1 DEF Steady, Sound, Filed, Copied, Idle, In
<1>3. route \in Seq(Node) /\ route # <<>>
  BY Parameters
<1>4. Last(route) \in Node
  BY <1>3, NextHop
<1>5. r2 = [r EXCEPT !.at = {q}, !.assigned = Last(route), !.route = route, !.lastTx = now]
  BY <1>1, <1>2 DEF Move, TaskState
<1>6. task' = [task EXCEPT ![t] = r2]
  BY <1>1 DEF Offload, IInv, TypeOK
<1> HIDE DEF r2
<1>7. {q} \in SUBSET Queue /\ q \in Pending
  BY DEF Queue, Pending, Transmitted
<1>8. /\ r2 \in TaskState /\ r2.at = {q}
      /\ r2.cur = r.cur /\ r2.assigned = Last(route) /\ r2.retNode = r.retNode
      /\ r2.route = route /\ r2.retSet = r.retSet /\ ~r2.computed
      /\ r2.arrival = r.arrival /\ r2.echoed = r.echoed
  BY <1>1, <1>2, <1>3, <1>4, <1>5, <1>7 DEF TaskState
<1>9. Steady(t, r2)
  <2>1. CASE Last(route) = TaskNodeOf[t]
    <3>1. q = "computing"
      BY <2>1, <1>2
    <3> HIDE DEF q
    <3>2. QED
      BY <2>1, <3>1, <1>1, <1>2, <1>4, <1>7, <1>8, Parameters DEF Steady, Sound, Filed, Copied,
         Idle, Outbound, Placed, Finished, Inbound, Delivered, Returnable, In, Started, Local
  <2>2. CASE Last(route) # TaskNodeOf[t]
    <3>1. q = "offloading"
      BY <2>2
    <3> HIDE DEF q
    <3>2. QED
      BY <2>2, <3>1, <1>1, <1>2, <1>3, <1>4, <1>7, <1>8, Parameters DEF Steady, Sound, Filed,
         Copied, Idle, Outbound, Placed, Finished, Inbound, Delivered, Returnable, In, Started,
         Local
  <2>3. QED
    BY <2>1, <2>2
<1>10. Ages(r, r2)
  BY <1>2, <1>8 DEF Ages, In, Pending
<1>11. task' = [u \in Task |-> task'[u]] /\ now' = now
  BY <1>6 DEF IInv, TypeOK, Offload
<1>12. \A u \in Task : Steady(u, task'[u]) /\ Ages(task[u], task'[u])
  BY <1>6, <1>9, <1>10 DEF IInv, TypeOK, Ages
<1>13. TasksHold'
  BY <1>11, <1>12, TasksAge
<1>14. QED
  BY <1>13 DEF TasksHold, IInv, TypeOK, Offload

\* A refused offloading fails waiting tasks, and only those.
LEMMA OffloadRefusedHolds ==
  ASSUME IInv, NEW t \in Task, NEW route \in OffloadRoutes[t], OffloadRefused(t, route)
  PROVE  IInv'
<1>1. task' = [u \in Task |-> task'[u]] /\ now' = now
  BY DEF OffloadRefused
<1>2. ASSUME NEW u \in Task
      PROVE  Steady(u, task'[u]) /\ Ages(task[u], task'[u])
  <2>1. CASE "waiting" \in task[u].at /\ TaskNodeOf[u] = TaskNodeOf[t]
    <3> DEFINE m == Move(task[u], {"waiting"}, "failed")
    <3>1. task'[u] = [m EXCEPT !.code = "parent"]
      BY <2>1 DEF OffloadRefused
    <3>2. Steady(u, m) /\ Ages(task[u], m)
      BY <2>1, VerdictSteady DEF IInv, In, Pending
    <3> HIDE DEF m
    <3>3. QED
      BY <3>1, <3>2, CodeSteady DEF Ages, Code
  <2>2. CASE ~("waiting" \in task[u].at /\ TaskNodeOf[u] = TaskNodeOf[t])
    BY <2>2 DEF OffloadRefused, IInv, Ages
  <2>3. QED
    BY <2>1, <2>2
<1>3. TasksHold'
  BY <1>1, <1>2, TasksAge
<1>4. QED
  BY <1>3 DEF TasksHold, IInv, TypeOK, OffloadRefused

\* A requested return route is only noted.
LEMMA RequestReturnHolds ==
  ASSUME IInv, NEW t \in Task, NEW route \in ReturnRoutes[t], RequestReturn(t, route)
  PROVE  IInv'
<1>1. route \in Seq(Node)
  BY Parameters
<1>2. QED
  BY <1>1 DEF IInv, TypeOK, DeadlineEnforced, InTime, RequestReturn

\* The scheduler's query copies returning tasks, and no other.
LEMMA ScheduleCommunicationHolds ==
  ASSUME IInv, ScheduleCommunication
  PROVE  IInv'
<1>1. task' = [u \in Task |-> task'[u]] /\ now' = now
  BY DEF ScheduleCommunication, Query
<1>2. \A u \in Task : Steady(u, task'[u]) /\ Ages(task[u], task'[u])
  BY QuerySteady DEF IInv, ScheduleCommunication
<1>3. TasksHold'
  BY <1>1, <1>2, TasksAge
<1>4. rb' \subseteq Task
  BY DEF ScheduleCommunication
<1>5. QED
  BY <1>3, <1>4 DEF TasksHold, IInv, TypeOK, ScheduleCommunication, Phases

\* Departed vehicles take their tasks along.
LEMMA UpdateTrafficsHolds ==
  ASSUME IInv, UpdateTraffics
  PROVE  IInv'
<1>1. PICK gone \in SUBSET (Vehicles \cap present) :
        task' = RemoveTasks(task, gone) /\ present' = present \ gone
  BY DEF UpdateTraffics
<1>2. task' = [u \in Task |-> task'[u]] /\ now' = now
  BY <1>1 DEF UpdateTraffics, RemoveTasks
<1>3. \A u \in Task : Steady(u, task'[u]) /\ Ages(task[u], task'[u])
  BY <1>1, RemoveSteady DEF IInv
<1>4. TasksHold'
  BY <1>2, <1>3, TasksAge
<1>5. QED
  BY <1>1, <1>4 DEF TasksHold, IInv, TypeOK, UpdateTraffics, Phases

\* The audit moves delivered results to the failed list.
LEMMA ValidateTaskResultsHolds ==
  ASSUME IInv, ValidateTaskResults
  PROVE  IInv'
<1>1. PICK bad \in SUBSET {t \in Task : "done" \in task[t].at} :
        task' = [t \in Task |->
          IF t \in bad
          THEN [Move(task[t], {"done"}, "failed") EXCEPT !.code = "malicious"]
          ELSE task[t]]
  BY DEF ValidateTaskResults
<1>2. task' = [u \in Task |-> task'[u]] /\ now' = now
  BY <1>1 DEF ValidateTaskResults
<1>3. ASSUME NEW u \in Task
      PROVE  Steady(u, task'[u]) /\ Ages(task[u], task'[u])
  <2>1. CASE u \in bad
    <3> DEFINE m == Move(task[u], {"done"}, "failed")
    <3>1. task'[u] = [m EXCEPT !.code = "malicious"]
      BY <1>1, <2>1
    <3>2. Steady(u, m) /\ Ages(task[u], m)
      BY <1>1, <2>1, VerdictSteady DEF IInv, In
    <3> HIDE DEF m
    <3>3. QED
      BY <3>1, <3>2, CodeSteady DEF Ages, Code
  <2>2. CASE u \notin bad
    BY <1>1, <2>2 DEF IInv, Ages
  <2>3. QED
    BY <2>1, <2>2
<1>4. TasksHold'
  BY <1>2, <1>3, TasksAge
<1>5. QED
  BY <1>4 DEF TasksHold, IInv, TypeOK, ValidateTaskResults, Phases

\* An exception changes nothing else.
LEMMA RaiseHolds ==
  ASSUME IInv, NEW why \in {"return", "radio", "key", "place"}, Raise(why)
  PROVE  IInv'
BY DEF IInv, TypeOK, DeadlineEnforced, InTime, Raise

\* The tasks that arrive are sound in the waiting list.
LEMMA ReleasedSound ==
  ASSUME IInv, NEW t \in Task
  PROVE  Sound(t, Released[t])
<1> DEFINE r == task[t]
           r2 == Move(r, {"generate"}, "waiting")
<1>1. CASE "generate" \in r.at /\ r.arrival <= now
  <2>1. r \in TaskState /\ Steady(t, r)
    BY DEF IInv, TypeOK
  <2>2. r.at = {"generate"}
    BY <1>1, <2>1 DEF Steady, Sound, Filed, Copied, Idle, In
  <2>3. r2 = [r EXCEPT !.at = {"waiting"}]
    BY <2>2 DEF Move
  <2>4. Released[t] = r2
    BY <1>1 DEF Released
  <2> HIDE DEF r2
  <2>5. {"waiting"} \in SUBSET Queue
    BY DEF Queue, Pending
  <2>6. /\ r2 \in TaskState /\ r2.at = {"waiting"}
        /\ r2.cur = r.cur /\ r2.assigned = r.assigned /\ r2.route = r.route
        /\ r2.computed = r.computed /\ r2.echoed = r.echoed
    BY <2>1, <2>3, <2>5 DEF TaskState
  <2>7. Sound(t, r2)
    BY <2>1, <2>2, <2>5, <2>6 DEF Steady, Sound, Filed, Copied, Idle, Outbound, Placed,
       Finished, Inbound, Delivered, In, Started
  <2>8. QED
    BY <2>4, <2>7
<1>2. CASE ~("generate" \in r.at /\ r.arrival <= now)
  BY <1>2 DEF Released, IInv, Steady
<1>3. QED
  BY <1>1, <1>2

\* Releasing and checking tasks preserves the invariant.
LEMMA GenerateAndCheckTasksHolds ==
  ASSUME IInv, GenerateAndCheckTasks
  PROVE  IInv'
<1>1. \A t \in Task : Sound(t, Released[t])
  BY ReleasedSound
<1>2. now' = now /\ now \in Nat /\ CheckTasks(Released, now)
  BY DEF IInv, TypeOK, GenerateAndCheckTasks
<1>3. TasksHold'
  BY <1>1, <1>2, TasksChecked
<1>4. QED
  BY <1>3 DEF TasksHold, IInv, TypeOK, GenerateAndCheckTasks, Phases

\* The tasks whose return starts are sound if no assertion stops the handler.
LEMMA StartingSound ==
  ASSUME IInv, ~\E t \in Starting : ReturnRouteKept(t, task[t]), NEW t \in Task
  PROVE  Sound(t, IF t \in Starting THEN StartReturn(t, task[t], retReq[t]) ELSE task[t])
<1>1. CASE t \in Starting
  <2>1. retReq[t] \in Seq(Node) /\ retReq[t] # <<>> /\ "waitReturn" \in task[t].at
    BY <1>1 DEF Starting, IInv, TypeOK
  <2>2. Sound(t, StartReturn(t, task[t], retReq[t]))
    BY <1>1, <2>1, StartReturnSound DEF IInv
  <2>3. QED
    BY <1>1, <2>2
<1>2. CASE t \notin Starting
  BY <1>2 DEF IInv, Steady
<1>3. QED
  BY <1>1, <1>2

\* Starting the returns preserves the invariant.
LEMMA StartReturnsHolds ==
  ASSUME IInv, StartReturns
  PROVE  IInv'
<1>1. CASE \E t \in Starting : ReturnRouteKept(t, task[t])
  BY <1>1, RaiseHolds DEF StartReturns
<1>2. CASE ~\E t \in Starting : ReturnRouteKept(t, task[t])
  <2> DEFINE f == [t \in Task |-> IF t \in Starting THEN StartReturn(t, task[t], retReq[t])
                                  ELSE task[t]]
  <2>1. \A t \in Task : Sound(t, f[t])
    BY <1>2, StartingSound
  <2>2. now' = now /\ now \in Nat /\ CheckTasks(f, now)
    BY <1>2 DEF IInv, TypeOK, StartReturns
  <2> HIDE DEF f
  <2>3. TasksHold'
    BY <2>1, <2>2, TasksChecked
  <2>4. /\ phase' = "wireless"
        /\ retReq' = [t \in Task |-> <<>>]
        /\ UNCHANGED <<present, flows, rb, now, crash>>
    BY <1>2 DEF StartReturns
  <2>5. retReq' \in [Task -> Seq(Node)]
    <3>1. <<>> \in Seq(Node)
      OBVIOUS
    <3>2. QED
      BY <2>4, <3>1
  <2>6. TypeOK' /\ \A t \in Task : Steady(t, task'[t])
    BY <2>3, <2>4, <2>5 DEF TasksHold, IInv, TypeOK, Phases
  <2>7. DeadlineEnforced'
    BY <2>3 DEF TasksHold
  <2>8. QED
    BY <2>6, <2>7 DEF IInv
<1>3. QED
  BY <1>1, <1>2

\* A transfer interval for some tasks that have a hop to go.
LEMMA CarryHolds ==
  ASSUME IInv, now' = now, NEW f, NEW served, NEW hops,
         \A t \in Task : Steady(t, f[t]) /\ Ages(task[t], f[t]),
         \A t \in served : Transmitting(t, f[t]) /\ f[t].route # <<>>,
         task' = Carry(f, served, hops)
  PROVE  TasksHold'
<1>1. task' = [t \in Task |-> task'[t]]
  BY DEF Carry
<1>2. ASSUME NEW t \in Task
      PROVE  Steady(t, task'[t]) /\ Ages(task[t], task'[t])
  <2> DEFINE r2 == Transmit(t, f[t], t \in hops)
             r3 == IF r2.route = <<>> THEN FinishOffloading(t, r2) ELSE r2
  <2>1. CASE t \in served
    <3>1. Steady(t, r3) /\ Ages(f[t], r3)
      <4>1. now \in Nat /\ (t \in hops) \in BOOLEAN
        BY DEF IInv, TypeOK
      <4>2. QED
        BY <2>1, <4>1, CarrySteady
    <3>2. task'[t] = r3
      BY <2>1 DEF Carry
    <3> HIDE DEF r3
    <3>3. QED
      BY <3>1, <3>2 DEF Ages
  <2>2. CASE t \notin served
    BY <2>2 DEF Carry
  <2>3. QED
    BY <2>1, <2>2
<1>3. QED
  BY <1>1, <1>2, TasksAge

\* The radio moves tasks that transmit; its assertions exclude local ones.
LEMMA UpdateWirelessHolds ==
  ASSUME IInv, UpdateWireless
  PROVE  IInv'
<1> DEFINE f == Query(task)
           served == {t \in rb \cap Listed(f) : f[t].route # <<>>}
<1>1. CASE Misallocated(f)
  BY <1>1, RaiseHolds DEF UpdateWireless
<1>2. CASE ~Misallocated(f)
  <2>1. PICK hops \in SUBSET served :
          IF ArrivalRaises(f, hops) THEN Raise("key")
          ELSE /\ task' = Carry(f, served, hops)
               /\ phase' = "wired"
               /\ UNCHANGED <<present, flows, rb, retReq, now, crash>>
    BY <1>2 DEF UpdateWireless
  <2>2. \A t \in Task : Steady(t, f[t]) /\ Ages(task[t], f[t])
    BY QuerySteady DEF IInv
  <2>3. \A t \in served : Transmitting(t, f[t]) /\ f[t].route # <<>>
    BY <1>2, <2>2 DEF Misallocated, Listed, Transmitting, In, Transmitted, Steady, Sound,
       Copied, Outbound, Inbound
  <2> HIDE DEF f, served
  <2>4. CASE ArrivalRaises(f, hops)
    BY <2>1, <2>4, RaiseHolds
  <2>5. CASE ~ArrivalRaises(f, hops)
    <3>1. TasksHold'
      BY <2>1, <2>2, <2>3, <2>5, CarryHolds
    <3>2. QED
      BY <2>1, <2>5, <3>1 DEF TasksHold, IInv, TypeOK, Phases
  <2>6. QED
    BY <2>4, <2>5
<1>3. QED
  BY <1>1, <1>2

\* The backhaul moves tasks that transmit, for links that exist.
LEMMA UpdateWiredHolds ==
  ASSUME IInv, UpdateWired
  PROVE  IInv'
<1> DEFINE f == Query(task)
           queued == Enqueued(f)
           moving == {fl[1] : fl \in {x \in queued :
                        Transmitting(x[1], f[x[1]]) /\ f[x[1]].route # <<>>}}
<1>1. PICK hops \in SUBSET moving, drained \in SUBSET moving :
        IF ArrivalRaises(f, hops) THEN Raise("key")
        ELSE /\ task' = Carry(f, moving, hops)
             /\ flows' = {fl \in queued : fl[1] \in moving \ drained}
             /\ phase' = "compute"
             /\ UNCHANGED <<present, rb, retReq, now, crash>>
  BY DEF UpdateWired
<1>2. \A t \in Task : Steady(t, f[t]) /\ Ages(task[t], f[t])
  BY QuerySteady DEF IInv
<1>3. \A t \in moving : Transmitting(t, f[t]) /\ f[t].route # <<>>
  OBVIOUS
<1>4. queued \subseteq Task \X WiredLinks
  BY DEF Enqueued, Listed, IInv, TypeOK
<1> HIDE DEF f, queued, moving
<1>5. CASE ArrivalRaises(f, hops)
  BY <1>1, <1>5, RaiseHolds
<1>6. CASE ~ArrivalRaises(f, hops)
  <2>1. TasksHold'
    BY <1>1, <1>2, <1>3, <1>6, CarryHolds
  <2>2. QED
    BY <1>1, <1>4, <1>6, <2>1 DEF TasksHold, IInv, TypeOK, Phases
<1>7. QED
  BY <1>5, <1>6

\* The processors hold tasks only where they are assigned, so the assertion
\* of Task.compute never fails.
LEMMA UpdateComputationHolds ==
  ASSUME IInv, UpdateComputation
  PROVE  IInv'
<1>1. PICK fin \in SUBSET {t \in Task : "computing" \in task[t].at} :
        IF \E t \in fin : task[t].cur # task[t].assigned THEN Raise("place")
        ELSE /\ task' = [t \in Task |->
                  IF t \in fin
                  THEN [Move(task[t], {"computing"}, "waitReturn") EXCEPT !.computed = TRUE]
                  ELSE task[t]]
             /\ phase' = "settle"
             /\ UNCHANGED <<present, flows, rb, retReq, now, crash>>
  BY DEF UpdateComputation
<1>2. ~\E t \in fin : task[t].cur # task[t].assigned
  BY DEF IInv, Steady, Sound, Placed
<1>3. ASSUME NEW t \in Task
      PROVE  Steady(t, task'[t]) /\ Ages(task[t], task'[t])
  <2> DEFINE r == task[t]
             r2 == [Move(r, {"computing"}, "waitReturn") EXCEPT !.computed = TRUE]
  <2>1. CASE t \in fin
    <3>1. r \in TaskState /\ Steady(t, r) /\ "computing" \in r.at
      BY <2>1 DEF IInv, TypeOK
    <3>2. task'[t] = r2
      BY <1>1, <1>2, <2>1
    <3>3. r2 = [r EXCEPT !.at = (r.at \ {"computing"}) \cup {"waitReturn"}, !.computed = TRUE]
      BY <3>1 DEF Move, TaskState
    <3> HIDE DEF r2
    <3>4. (r.at \ {"computing"}) \cup {"waitReturn"} \in SUBSET Queue
      BY <3>1 DEF TaskState, Queue, Pending
    <3>5. /\ r2 \in TaskState /\ r2.at = (r.at \ {"computing"}) \cup {"waitReturn"}
          /\ r2.cur = r.cur /\ r2.assigned = r.assigned /\ r2.retNode = r.retNode
          /\ r2.route = r.route /\ r2.retSet = r.retSet /\ r2.computed
          /\ r2.arrival = r.arrival /\ r2.echoed = r.echoed
      BY <3>1, <3>3, <3>4 DEF TaskState
    <3>6. ~r.echoed => r.at = {"computing"}
      BY <3>1 DEF Steady, Sound, Filed
    <3>7. r.echoed => "offloading" \notin r.at /\ ~In(r, {"unborn", "generate", "waiting"})
      BY <3>1 DEF Steady, Sound, Copied, Outbound, Idle
    <3>8. Filed(r2)
      BY <3>5, <3>6, <3>4 DEF Filed
    <3>9. Steady(t, r2) /\ Ages(r, r2)
      BY <3>1, <3>5, <3>6, <3>7, <3>8 DEF Steady, Sound, Copied, Idle, Outbound, Placed,
         Finished, Inbound, Delivered, Returnable, In, Ages, Local, Started, RequireReturn,
         Pending, Transmitted
    <3>10. QED
      BY <3>2, <3>9
  <2>2. CASE t \notin fin
    BY <1>1, <1>2, <2>2 DEF IInv, Ages
  <2>3. QED
    BY <2>1, <2>2
<1>4. task' = [t \in Task |-> task'[t]] /\ now' = now
  BY <1>1, <1>2
<1>5. TasksHold'
  BY <1>3, <1>4, TasksAge
<1>6. QED
  BY <1>1, <1>2, <1>5 DEF TasksHold, IInv, TypeOK, Phases

\* The clock advances under a pass of checkTasks at the new time.
LEMMA SettleHolds ==
  ASSUME IInv, Settle
  PROVE  IInv'
<1>1. PICK dead \in SUBSET (UAVs \cap present) :
        CheckTasks(RemoveTasks(task, dead), now + 1) /\ present' = present \ dead
  BY DEF Settle
<1>2. \A t \in Task : Sound(t, RemoveTasks(task, dead)[t])
  BY RemoveSteady DEF IInv, Steady
<1>3. now' = now + 1 /\ now' \in Nat
  BY DEF Settle, IInv, TypeOK
<1>4. TasksHold'
  <2> DEFINE f == RemoveTasks(task, dead)
  <2>1. CheckTasks(f, now') /\ \A t \in Task : Sound(t, f[t])
    BY <1>1, <1>2, <1>3
  <2> HIDE DEF f
  <2>2. QED
    BY <1>3, <2>1, TasksChecked
<1>5. retReq' \in [Task -> Seq(Node)]
  BY DEF Settle
<1>6. QED
  BY <1>1, <1>3, <1>4, <1>5 DEF TasksHold, IInv, TypeOK, Settle, Phases

\* Every step of the system preserves the invariant.
LEMMA NextHolds ==
  ASSUME IInv, [Next]_vars
  PROVE  IInv'
<1>1. CASE Schedule
  <2>1. PICK t \in Task :
          \/ Register(t)
          \/ \E route \in OffloadRoutes[t] : Offload(t, route) \/ OffloadRefused(t, route)
          \/ \E route \in ReturnRoutes[t] : RequestReturn(t, route)
    BY <1>1 DEF Schedule
  <2>2. CASE Register(t)
    BY <2>2, RegisterHolds
  <2>3. CASE \E route \in OffloadRoutes[t] : Offload(t, route) \/ OffloadRefused(t, route)
    <3>1. PICK route \in OffloadRoutes[t] : Offload(t, route) \/ OffloadRefused(t, route)
      BY <2>3
    <3>2. CASE Offload(t, route)
      BY <3>2, OffloadHolds
    <3>3. CASE OffloadRefused(t, route)
      BY <3>3, OffloadRefusedHolds
    <3>4. QED
      BY <3>1, <3>2, <3>3
  <2>4. CASE \E route \in ReturnRoutes[t] : RequestReturn(t, route)
    BY <2>4, RequestReturnHolds
  <2>5. QED
    BY <2>1, <2>2, <2>3, <2>4
<1>2. CASE Step
  <2>1. CASE ScheduleCommunication
    BY <2>1, ScheduleCommunicationHolds
  <2>2. CASE UpdateTraffics
    BY <2>2, UpdateTrafficsHolds
  <2>3. CASE ValidateTaskResults
    BY <2>3, ValidateTaskResultsHolds
  <2>4. CASE GenerateAndCheckTasks
    BY <2>4, GenerateAndCheckTasksHolds
  <2>5. CASE StartReturns
    BY <2>5, StartReturnsHolds
  <2>6. CASE UpdateWireless
    BY <2>6, UpdateWirelessHolds
  <2>7. CASE UpdateWired
    BY <2>7, UpdateWiredHolds
  <2>8. CASE UpdateComputation
    BY <2>8, UpdateComputationHolds
  <2>9. CASE Settle
    BY <2>9, SettleHolds
  <2>10. CASE Finish
    BY <2>10 DEF Finish, IInv, TypeOK, Phases, DeadlineEnforced, InTime
  <2>11. QED
    BY <1>2, <2>1, <2>2, <2>3, <2>4, <2>5, <2>6, <2>7, <2>8, <2>9, <2>10 DEF Step
<1>3. CASE Halt \/ UNCHANGED vars
  BY <1>3 DEF Halt, vars, IInv, TypeOK, DeadlineEnforced, InTime
<1>4. QED
  BY <1>1, <1>2, <1>3 DEF Next

-----------------------------------------------------------------------------
(* The theorems. *)

\* The inductive invariant holds of every behaviour, for any tasks, nodes,
\* links, routes, deadlines and thresholds.
THEOREM Invariance == Spec => []IInv
<1>1. Init => IInv
  BY InitHolds
<1>2. IInv /\ [Next]_vars => IInv'
  BY NextHolds
<1>3. QED
  BY <1>1, <1>2, PTL DEF Spec

\* Every handler keeps every variable, and every field of every task, typed.
THEOREM TypeCorrect == Spec => []TypeOK
<1>1. IInv => TypeOK
  BY DEF IInv
<1>2. QED
  BY <1>1, Invariance, PTL

\* TaskManager files every task in exactly one of its queues, unless the query
\* getOffloadingTasksWithNumber has copied it.
THEOREM FiledOnce == Spec => []SingleQueue
<1>1. IInv => SingleQueue
  BY DEF IInv, Steady, Sound, Filed, SingleQueue
<1>2. QED
  BY <1>1, Invariance, PTL

\* A task in the done list was computed and its result is at its sink.
THEOREM DoneDelivered == Spec => []DoneIsDelivered
<1>1. IInv => DoneIsDelivered
  BY DEF IInv, Steady, Sound, Delivered, DoneIsDelivered
<1>2. QED
  BY <1>1, Invariance, PTL

\* Between any two handlers every pending task is within its deadline.
THEOREM DeadlinesEnforced == Spec => []DeadlineEnforced
<1>1. IInv => DeadlineEnforced
  BY DEF IInv
<1>2. QED
  BY <1>1, Invariance, PTL

-----------------------------------------------------------------------------
(***************************************************************************)
(* Verdicts.  No handler but the audit takes a task out of the lists of    *)
(* settled tasks.                                                          *)
(***************************************************************************)

Stands(r, r2) == r.at \cap Settled \subseteq r2.at

\* Stages 1 to 3 of checkTasks.
LEMMA CheckAloneStands ==
  ASSUME NEW t \in Task, NEW r, Sound(t, r), NEW time \in Nat
  PROVE  Stands(r, CheckAlone(t, r, time))
<1> DEFINE r1 == CheckLocal(t, r)
           r2 == CheckReturn(t, r1, time)
           r3 == CheckTTI(t, r2, time)
<1>1. Sound(t, r1)
  BY CheckLocalSound
<1>2. Sound(t, r2)
  BY <1>1, CheckReturnSteady DEF Steady
<1>3. Stands(r, r1)
  BY DEF CheckLocal, Move, Stands, Sound, TaskState, Settled
<1> HIDE DEF r1
<1>4. Stands(r1, r2)
  BY <1>1 DEF CheckReturn, Move, Stands, Sound, TaskState, Settled
<1> HIDE DEF r2
<1>5. Stands(r2, r3)
  BY <1>2 DEF CheckTTI, Move, Stands, Sound, TaskState, Settled
<1> HIDE DEF r3
<1>6. CheckAlone(t, r, time) = r3
  BY DEF CheckAlone, r1, r2, r3
<1>7. QED
  BY <1>3, <1>4, <1>5, <1>6 DEF Stands

\* All of checkTasks.
LEMMA CheckTasksStands ==
  ASSUME NEW f, \A t \in Task : Sound(t, f[t]), NEW time \in Nat, CheckTasks(f, time)
  PROVE  \A t \in Task : Stands(f[t], task'[t])
<1> DEFINE g == [t \in Task |-> CheckAlone(t, f[t], time)]
           late == Expired(g, time)
<1>1. PICK casc \in SUBSET Task :
        task' = [t \in Task |-> IF t \in late THEN Fail(g[t], "ddl")
                                ELSE IF t \in casc THEN Fail(g[t], "parent")
                                ELSE g[t]]
  BY DEF CheckTasks
<1>2. \A t \in Task : g[t] \in TaskState /\ Stands(f[t], g[t])
  BY CheckAloneSteady, CheckAloneStands DEF Steady, Sound
<1> HIDE DEF g, late
<1>3. \A t \in Task, why \in {"ddl", "parent"} : Stands(g[t], Fail(g[t], why))
  BY <1>2 DEF Fail, Move, Stands, TaskState, Settled, Pending, Transmitted
<1>4. \A t \in Task : task'[t] \in {Fail(g[t], "ddl"), Fail(g[t], "parent"), g[t]}
  BY <1>1
<1>5. QED
  BY <1>2, <1>3, <1>4 DEF Stands

\* A query, followed by a transfer.
LEMMA CarryStands ==
  ASSUME IInv, NEW served, NEW hops, NEW t \in Task
  PROVE  /\ Stands(task[t], Query(task)[t])
         /\ Stands(task[t], Carry(Query(task), served, hops)[t])
<1> DEFINE r == task[t]
           r1 == Query(task)[t]
           r2 == Transmit(t, r1, t \in hops)
           r3 == Carry(Query(task), served, hops)[t]
<1>1. r \in TaskState
  BY DEF IInv, TypeOK
<1>2. Stands(r, r1) /\ r1 \in TaskState
  BY <1>1, QuerySteady DEF IInv, Query, Stands, TaskState, Steady, Sound
<1> HIDE DEF r1
<1>3. r2.at = r1.at /\ DOMAIN r2 = DOMAIN r1
  BY <1>2 DEF Transmit, TaskState
<1> HIDE DEF r2
<1>4. Stands(r2, FinishOffloading(t, r2))
  BY <1>2, <1>3 DEF FinishOffloading, Move, Stands, TaskState, Settled
<1>5. r3 \in {r1, r2, FinishOffloading(t, r2)}
  BY DEF Carry, r1, r2
<1>6. QED
  BY <1>2, <1>3, <1>4, <1>5 DEF Stands, r1

\* A move that gives a verdict its code.
LEMMA CodedMove ==
  ASSUME NEW r \in TaskState, NEW from, NEW to, NEW code
  PROVE  /\ [Move(r, from, to) EXCEPT !.code = code].at = (r.at \ from) \cup {to}
         /\ [Move(r, from, to) EXCEPT !.code = code].code = code
<1> DEFINE m == Move(r, from, to)
<1>1. m.at = (r.at \ from) \cup {to} /\ DOMAIN m = DOMAIN r /\ "code" \in DOMAIN r
  BY DEF Move, TaskState
<1> HIDE DEF m
<1>2. [m EXCEPT !.code = code].at = m.at /\ [m EXCEPT !.code = code].code = code
  BY <1>1
<1>3. QED
  BY <1>1, <1>2 DEF m

\* A step that is not the audit's keeps every verdict.
LEMMA NextStands ==
  ASSUME IInv, [Next]_vars, ~ValidateTaskResults, NEW t \in Task
  PROVE  Stands(task[t], task'[t])
<1>1. task[t] \in TaskState /\ now \in Nat
  BY DEF IInv, TypeOK
<1>2. CASE Schedule
  <2>1. PICK u \in Task :
          \/ Register(u)
          \/ \E route \in OffloadRoutes[u] : Offload(u, route) \/ OffloadRefused(u, route)
          \/ \E route \in ReturnRoutes[u] : RequestReturn(u, route)
    BY <1>2 DEF Schedule
  <2>2. CASE Register(u)
    BY <1>1, <2>2 DEF Register, Move, Stands, IInv, TypeOK, TaskState, Settled
  <2>3. CASE \E route \in OffloadRoutes[u] : Offload(u, route)
    BY <1>1, <2>3 DEF Offload, Move, Stands, IInv, TypeOK, TaskState, Settled
  <2>4. CASE \E route \in OffloadRoutes[u] : OffloadRefused(u, route)
    <3> DEFINE m == [Move(task[t], {"waiting"}, "failed") EXCEPT !.code = "parent"]
    <3>1. task'[t] = task[t] \/ task'[t] = m
      BY <2>4 DEF OffloadRefused
    <3>2. m.at = (task[t].at \ {"waiting"}) \cup {"failed"}
      BY <1>1, CodedMove
    <3> HIDE DEF m
    <3>3. QED
      BY <3>1, <3>2 DEF Stands, Settled
  <2>5. CASE \E route \in ReturnRoutes[u] : RequestReturn(u, route)
    BY <2>5 DEF RequestReturn, Stands
  <2>6. QED
    BY <2>1, <2>2, <2>3, <2>4, <2>5
<1>3. CASE ScheduleCommunication
  BY <1>3, CarryStands DEF ScheduleCommunication
<1>4. CASE UpdateTraffics
  BY <1>1, <1>4 DEF UpdateTraffics, RemoveTasks, Move, Stands, TaskState, Settled, Pending,
     Transmitted
<1>5. CASE GenerateAndCheckTasks
  <2>1. \A u \in Task : Sound(u, Released[u])
    BY ReleasedSound DEF IInv
  <2>2. Stands(Released[t], task'[t])
    BY <1>1, <1>5, <2>1, CheckTasksStands DEF GenerateAndCheckTasks
  <2>3. Stands(task[t], Released[t])
    BY <1>1 DEF Released, Move, Stands, TaskState, Settled
  <2>4. QED
    BY <2>2, <2>3 DEF Stands
<1>6. CASE StartReturns
  <2>1. CASE \E u \in Starting : ReturnRouteKept(u, task[u])
    BY <1>6, <2>1 DEF StartReturns, Raise, Stands
  <2>2. CASE ~\E u \in Starting : ReturnRouteKept(u, task[u])
    <3> DEFINE f == [u \in Task |-> IF u \in Starting THEN StartReturn(u, task[u], retReq[u])
                                    ELSE task[u]]
    <3>1. \A u \in Task : Sound(u, f[u])
      BY <2>2, StartingSound
    <3>2. Stands(task[t], f[t])
      BY <1>1 DEF StartReturn, Move, Stands, TaskState, Settled
    <3>3. CheckTasks(f, now)
      BY <1>6, <2>2 DEF StartReturns
    <3> HIDE DEF f
    <3>4. Stands(f[t], task'[t])
      BY <1>1, <3>1, <3>3, CheckTasksStands
    <3>5. QED
      BY <3>2, <3>4 DEF Stands
  <2>3. QED
    BY <2>1, <2>2
<1>7. CASE UpdateWireless
  <2>1. task' = task \/ \E served, hops : task' = Carry(Query(task), served, hops)
    BY <1>7 DEF UpdateWireless, Raise
  <2>2. QED
    BY <2>1, CarryStands DEF Stands
<1>8. CASE UpdateWired
  <2>1. task' = task \/ \E served, hops : task' = Carry(Query(task), served, hops)
    BY <1>8 DEF UpdateWired, Raise
  <2>2. QED
    BY <2>1, CarryStands DEF Stands
<1>9. CASE UpdateComputation
  <2>1. task'[t] \in {task[t], [Move(task[t], {"computing"}, "waitReturn")
                                EXCEPT !.computed = TRUE]}
    BY <1>9 DEF UpdateComputation, Raise
  <2>2. QED
    BY <1>1, <2>1 DEF Move, Stands, TaskState, Settled
<1>10. CASE Settle
  <2>1. PICK dead \in SUBSET (UAVs \cap present) :
          CheckTasks(RemoveTasks(task, dead), now + 1)
    BY <1>10 DEF Settle
  <2> DEFINE f == RemoveTasks(task, dead)
  <2>2. \A u \in Task : Sound(u, f[u])
    BY RemoveSteady DEF IInv, Steady
  <2>3. Stands(task[t], f[t])
    BY <1>1 DEF RemoveTasks, Move, Stands, TaskState, Settled, Pending, Transmitted
  <2>4. CheckTasks(f, now + 1)
    BY <2>1
  <2> HIDE DEF f
  <2>5. Stands(f[t], task'[t])
    BY <1>1, <2>2, <2>4, CheckTasksStands
  <2>6. QED
    BY <2>3, <2>5 DEF Stands
<1>11. CASE Finish \/ Halt \/ UNCHANGED vars
  BY <1>11 DEF Finish, Halt, vars, Stands
<1>12. QED
  BY <1>2, <1>3, <1>4, <1>5, <1>6, <1>7, <1>8, <1>9, <1>10, <1>11 DEF Next, Step

\* A failed or a removed task stays so, and only the audit revokes a done one.
THEOREM VerdictsAreFinal == Spec => VerdictsStand
<1> DEFINE Final(t) ==
      /\ \A q \in {"failed", "removed"} : q \in task[t].at => q \in task'[t].at
      /\ "done" \in task[t].at /\ "done" \notin task'[t].at =>
           "failed" \in task'[t].at /\ task'[t].code = "malicious"
<1>1. ASSUME IInv, [Next]_vars, NEW t \in Task
      PROVE  Final(t)
  <2>1. CASE ValidateTaskResults
    <3>1. task[t] \in TaskState
      BY <1>1 DEF IInv, TypeOK
    <3> DEFINE m == [Move(task[t], {"done"}, "failed") EXCEPT !.code = "malicious"]
    <3>2. task'[t] \in {task[t], m}
      BY <2>1 DEF ValidateTaskResults
    <3>3. m.at = (task[t].at \ {"done"}) \cup {"failed"} /\ m.code = "malicious"
      BY <3>1, CodedMove
    <3> HIDE DEF m
    <3>4. QED
      BY <3>2, <3>3
  <2>2. CASE ~ValidateTaskResults
    BY <1>1, <2>2, NextStands DEF Stands, Settled
  <2>3. QED
    BY <2>1, <2>2
<1>2. IInv /\ [Next]_vars => [\A t \in Task : Final(t)]_vars
  BY <1>1
<1>3. QED
  BY <1>2, Invariance, PTL DEF Spec, VerdictsStand

=============================================================================
