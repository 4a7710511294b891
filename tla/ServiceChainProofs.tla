------------------------- MODULE ServiceChainProofs -------------------------
(***************************************************************************)
(* Proofs about ServiceChain.                                              *)
(***************************************************************************)
EXTENDS ServiceChain, FiniteSetTheorems, WellFoundedInduction, TLAPS

-----------------------------------------------------------------------------
(* The graph of a chain. *)

\* A non-empty set of positions of the topological order has a last one.
LEMMA LastPosition ==
  ASSUME NEW n \in Nat, NEW K \in SUBSET (1 .. n), K # {}
  PROVE  \E k \in K : \A j \in K : j <= k
<1> DEFINE T == {n - k : k \in K}
<1>1. T \subseteq Nat /\ T # {}
  <2>1. \A k \in K : k \in Nat /\ k <= n /\ n - k \in Nat
    OBVIOUS
  <2>2. PICK k \in K : TRUE
    OBVIOUS
  <2>3. n - k \in T
    BY <2>2
  <2>4. QED
    BY <2>1, <2>3
<1>2. PICK x \in T : \A y \in T : ~(<<y, x>> \in OpToRel(<, Nat))
  BY <1>1, WFMin, NatLessThanWellFounded
<1>3. \A y \in T : ~(y < x)
  BY <1>1, <1>2 DEF OpToRel
<1>4. PICK k \in K : x = n - k
  OBVIOUS
<1>5. \A j \in K : j <= k
  <2>1. ASSUME NEW j \in K PROVE j <= k
    <3>1. n - j \in T /\ j \in Nat /\ k \in Nat
      OBVIOUS
    <3>2. ~(n - j < n - k)
      BY <1>3, <1>4, <3>1
    <3>3. QED
      BY <3>1, <3>2
  <2>2. QED
    BY <2>1
<1>6. QED
  BY <1>5

\* A set of functions that holds the last ones and, with every function, its
\* predecessors, holds all: the graph of a chain has no cycle.
LEMMA LastFunctionsSuffice ==
  ASSUME NEW c \in Chain, NEW S,
         Terminals(c) \subseteq S,
         \A f \in S : Predecessors(c, f) \subseteq S
  PROVE  Functions[c] \subseteq S
<1>1. Order[c] \in Seq(Fn) /\ Len(Order[c]) \in Nat /\ DOMAIN Order[c] = 1 .. Len(Order[c])
  BY Graphs
<1> DEFINE K == {k \in DOMAIN Order[c] : Order[c][k] \notin S}
<1>2. SUFFICES ASSUME K # {} PROVE FALSE
  BY DEF Functions
<1>3. PICK k \in K : \A j \in K : j <= k
  BY <1>1, <1>2, LastPosition
<1>4. Order[c][k] \in Functions[c] \ Terminals(c)
  BY DEF Functions
<1>5. PICK e \in Edges[c] : e[1] = Order[c][k]
  BY <1>4 DEF Terminals
<1>6. PICK i, j \in DOMAIN Order[c] : i < j /\ e = <<Order[c][i], Order[c][j]>>
  BY Graphs
<1>7. i = k
  BY <1>5, <1>6, Graphs
<1>8. j \notin K
  BY <1>1, <1>3, <1>6, <1>7
<1>9. Order[c][k] \in Predecessors(c, Order[c][j])
  BY <1>5, <1>6 DEF Predecessors
<1>10. QED
  BY <1>6, <1>8, <1>9


-----------------------------------------------------------------------------
(***************************************************************************)
(* The inductive invariant.                                                *)
(***************************************************************************)

\* The planner: it is inside the order of a running chain that has no
\* decision; a chain it has not begun has no assignment.
Planning ==
  /\ target # NoChain =>
       /\ Running(target) /\ decision[target] = "none"
       /\ position \in 0 .. Len(Order[target]) + 1
  /\ phase = "plan" /\ target # NoChain => position > 0
  /\ phase = "rollback" => target # NoChain /\ position <= Len(Order[target])
  /\ phase \notin {"plan", "rollback"} => target = NoChain
  /\ \A c \in Chain : decision[c] = "none" /\ c # target =>
       \A f \in Fn : assign[c][f] = NoInstance

\* A task belongs to a function that the accepted plan of a submitted chain
\* placed and whose predecessors are completed.
Spawned ==
  \A c \in Chain : \A f \in Fn : task[c][f].status # "none" =>
    /\ f \in Functions[c] /\ Predecessors(c, f) \subseteq completed[c]
    /\ decision[c] = "accepted" /\ assign[c][f] # NoInstance
    /\ chain[c].status # "pending"

\* A pending task is due within the deadline of its function, or it was created
\* in this step, by when that was over and the deadline of the chain was not.
Punctual ==
  \A c \in Chain : \A f \in Fn : task[c][f].status \in PendingStatus =>
    \/ task[c][f].due <= chain[c].submit + EffectiveDeadline(c, f)
    \/ task[c][f].due = now /\ now <= chain[c].submit + Deadline[c]

\* The lists: between the synchronisation and the next step every ended task
\* was read; what a running chain has read is completed.
ListsRead ==
  \A c \in Chain : \A f \in Fn :
    /\ f \in completed[c] => <<c, f>> \in processed
    /\ <<c, f>> \in processed => task[c][f].status \in {"done", "failed"}
    /\ <<c, f>> \in processed /\ (Running(c) \/ task[c][f].status = "done") => f \in completed[c]
    /\ ~Unsynchronised /\ task[c][f].status \in {"done", "failed"} => <<c, f>> \in processed

\* The clocks of the chains and of their tasks.
Timely ==
  /\ \A c \in Chain : chain[c].status # "pending" => chain[c].submit <= now
  /\ \A c \in Chain : Running(c) /\ phase # "post" => now <= chain[c].submit + Deadline[c]
  /\ \A c \in Chain : \A f \in Fn :
       task[c][f].status \in PendingStatus => now <= task[c][f].due

Concluded ==
  \A c \in Chain : chain[c].status = "succeeded" => Terminals(c) \subseteq completed[c]

\* While the planner runs, the directory knows which nodes are missing.
DirectoryCurrent ==
  phase \in {"submit", "plan", "rollback"} =>
    /\ \A i \in Instance : inst[i].up => HostOf[i] \in present
    /\ target # NoChain => \A f \in Fn :
         assign[target][f] # NoInstance => HostOf[assign[target][f]] \in present

IInv ==
  /\ TypeOK /\ Planning /\ Spawned /\ ListsRead
  /\ Timely /\ Punctual /\ Concluded /\ DirectoryCurrent

-----------------------------------------------------------------------------
(* Types. *)

\* A function's own deadline is a number if its chain's is.
LEMMA EffectiveTyped ==
  ASSUME NEW c \in Chain, NEW f \in Fn
  PROVE  EffectiveDeadline(c, f) \in Nat
BY Graphs DEF EffectiveDeadline

\* The number of computing tasks of a node is a number.
LEMMA LoadIsNat ==
  ASSUME NEW n \in Node
  PROVE  Cardinality(ComputingAt(n)) \in Nat
<1>1. IsFiniteSet(Chain) /\ IsFiniteSet(Fn)
  BY Deployment
<1>a. IsFiniteSet(Chain \X Fn)
  BY <1>1, FS_Product, Zenon
<1>2. ComputingAt(n) \in SUBSET (Chain \X Fn)
  BY DEF ComputingAt
<1>3. QED
  BY <1>a, <1>2, FS_Subset, FS_CardinalityType

\* mark_succeeded, mark_failed and mark_timed_out keep the type of a chain.
LEMMA MarkTyped ==
  ASSUME NEW r \in ChainState, NEW s \in {"running", "failed", "timed_out", "succeeded"},
         now \in Nat
  PROVE  Mark(r, s) \in ChainState
BY DEF Mark, Terminal, ChainState

\* The synchronisation keeps the types.
LEMMA SyncTyped ==
  ASSUME TypeOK, NEW from \in Phases, NEW to \in Phases, Sync(from, to)
  PROVE  TypeOK'
<1>1. completed' \in [Chain -> SUBSET Fn]
  <2>1. completed' = [c \in Chain |-> completed[c] \cup {f \in Fn : <<c, f>> \in Unread("done")}]
    BY DEF Sync, Read
  <2>2. QED
    BY <2>1 DEF TypeOK
<1>2. processed' \subseteq Chain \X Fn
  BY DEF Sync, Unread, TypeOK
<1>3. chain' \in [Chain -> ChainState]
  <2>1. PICK status \in [Chain -> {"failed", "timed_out", "succeeded", "running"}] :
          chain' = [c \in Chain |-> Mark(chain[c], status[c])]
    BY DEF Sync
  <2>2. ASSUME NEW c \in Chain PROVE Mark(chain[c], status[c]) \in ChainState
    BY MarkTyped DEF TypeOK
  <2>3. QED
    BY <2>1, <2>2
<1>4. phase' \in Phases
  BY DEF Sync
<1>5. QED
  BY <1>1, <1>2, <1>3, <1>4 DEF Sync, planning, TypeOK

\* ServiceInstance.release keeps the type of the directory.
LEMMA ReleaseTyped ==
  ASSUME inst \in [Instance -> InstanceState], NEW i \in Instance, NEW d \in Nat, Release(i, d)
  PROVE  inst' \in [Instance -> InstanceState]
<1> DEFINE r == [inst[i] EXCEPT !.used = IF @ > d THEN @ - d ELSE 0,
                                !.load = IF @ > 0 THEN @ - 1 ELSE 0]
<1>1. inst[i] \in InstanceState
  OBVIOUS
<1>2. r \in InstanceState
  <2>1. \A n \in Nat : (IF n > d THEN n - d ELSE 0) \in Nat /\ (IF n > 0 THEN n - 1 ELSE 0) \in Nat
    OBVIOUS
  <2>2. QED
    BY <1>1, <2>1 DEF InstanceState
<1>3. inst' = [inst EXCEPT ![i] = r]
  BY <1>1 DEF Release, InstanceState
<1>4. QED
  BY <1>2, <1>3

\* The planner keeps the types.
LEMMA PlanTyped ==
  ASSUME TypeOK, Planning, Plan
  PROVE  TypeOK'
<1>1. ASSUME NEW c \in Chain, StartPlan(c) PROVE TypeOK'
  BY <1>1 DEF StartPlan, TypeOK
<1>2. ASSUME NEW i \in Instance, PlaceFunction(i) PROVE TypeOK'
  <2>1. target \in Chain /\ Current \in Fn
    <3>1. target \in Chain /\ position \in DOMAIN Order[target]
      BY <1>2 DEF PlaceFunction, Placing, TypeOK
    <3>2. QED
      BY <3>1, Graphs DEF Current
  <2>2. Demand[target][Current] \in Nat
    BY <2>1, Graphs
  <2>3. inst' \in [Instance -> InstanceState]
    BY <1>2, <2>2 DEF PlaceFunction, Reserve, InstanceState, TypeOK
  <2>4. assign' \in [Chain -> [Fn -> Instance \cup {NoInstance}]]
    BY <1>2, <2>1 DEF PlaceFunction, TypeOK
  <2>5. QED
    BY <1>2, <2>3, <2>4 DEF PlaceFunction, TypeOK
<1>3. CASE SkipOptional
  BY <1>3 DEF SkipOptional, TypeOK
<1>4. CASE NoCandidate
  <2>1. position \in 1 .. Len(Order[target]) /\ Len(Order[target]) \in Nat
    BY <1>4, Graphs DEF NoCandidate, Placing, TypeOK
  <2>2. QED
    BY <1>4, <2>1 DEF NoCandidate, Phases, TypeOK
<1>5. CASE Accept
  BY <1>5 DEF Accept, TypeOK
<1>6. CASE Rollback
  <2> Current \in Fn /\ target \in Chain /\ Demand[target][Current] \in Nat
    <3>1. target \in Chain /\ position \in DOMAIN Order[target]
      BY <1>6, Graphs DEF Rollback, At, Planning, TypeOK
    <3>2. QED
      BY <3>1, Graphs DEF Current
  <2>1. position' \in Nat
    BY <1>6 DEF Rollback, TypeOK
  <2>2. CASE assign[target][Current] = NoInstance
    BY <1>6, <2>1, <2>2 DEF Rollback, TypeOK
  <2>3. CASE assign[target][Current] # NoInstance
    <3> DEFINE i == assign[target][Current]
               d == Demand[target][Current]
    <3>1. /\ Release(i, d)
          /\ assign' = [assign EXCEPT ![target][Current] = NoInstance]
      BY <1>6, <2>3 DEF Rollback
    <3>2. assign' \in [Chain -> [Fn -> Instance \cup {NoInstance}]]
      BY <3>1 DEF TypeOK
    <3>3. i \in Instance /\ d \in Nat /\ inst[i] \in InstanceState
      BY <2>3 DEF TypeOK
    <3>4. inst' \in [Instance -> InstanceState]
      BY <3>1, <3>3, ReleaseTyped DEF TypeOK
    <3>5. QED
      BY <1>6, <2>1, <3>2, <3>4 DEF Rollback, TypeOK
  <2>4. QED
    BY <2>2, <2>3
<1>7. CASE Reject
  <2>1. target \in Chain /\ Mark(chain[target], "failed") \in ChainState
    BY <1>7, MarkTyped DEF Reject, At, Planning, TypeOK
  <2>2. QED
    BY <1>7, <2>1 DEF Reject, Phases, TypeOK
<1>8. QED
  BY <1>1, <1>2, <1>3, <1>4, <1>5, <1>6, <1>7 DEF Plan

\* A task that changes its status keeps its type.
LEMMA TaskStatusTyped ==
  ASSUME NEW r \in TaskState,
         NEW s \in {"none", "waiting", "moving", "computing", "done", "failed", "removed"}
  PROVE  [r EXCEPT !.status = s] \in TaskState
BY DEF TaskState

\* A task that fails keeps its type.
LEMMA TaskFailsTyped ==
  ASSUME NEW r \in TaskState, NEW code \in {"none", "ddl", "tti", "other", "malicious"}
  PROVE  Fails(r, code) \in TaskState
BY DEF Fails, TaskState

\* What the step does to a task in service: its deadline stays, and the others
\* are left alone.
LEMMA WorkedKeeps ==
  ASSUME NEW c \in Chain, NEW f \in Fn, NEW outcome \in Outcomes, task[c][f] \in TaskState
  PROVE  /\ Worked(c, f, outcome) \in TaskState
         /\ Worked(c, f, outcome).due = task[c][f].due
         /\ ~Active(c, f) => Worked(c, f, outcome) = task[c][f]
<1>1. Active(c, f) => outcome[<<c, f>>] \in {"moving", "computing", "done", "tti", "other"}
  BY DEF ActiveTasks, Outcomes
<1>2. QED
  BY <1>1 DEF Worked, Fails, TaskState

\* The other parts of the round keep the types.
LEMMA RoundTyped ==
  ASSUME IInv, [Next]_vars,
         ~Plan, ~Sync("sync", "instances"), ~Sync("post", "loop"), ~Sync("final", "mark"),
         ~Sync("abort", "end")
  PROVE  TypeOK'
<1>1. TypeOK
  BY DEF IInv
<1>2. CASE Loop
  BY <1>1, <1>2 DEF Loop, planning, Phases, TypeOK
<1>3. CASE SyncInstances
  <2>1. PICK untrusted \in SUBSET present :
          inst' = [i \in Instance |-> Refreshed(i, untrusted)]
    BY <1>3 DEF SyncInstances
  <2>2. ASSUME NEW i \in Instance PROVE Refreshed(i, untrusted) \in InstanceState
    <3>1. Cardinality(ComputingAt(HostOf[i])) \in Nat
      BY LoadIsNat, Deployment
    <3>2. inst[i] \in InstanceState
      BY <1>1 DEF TypeOK
    <3>3. QED
      BY <3>1, <3>2 DEF Refreshed, InstanceState
  <2>3. QED
    BY <1>1, <1>3, <2>1, <2>2 DEF SyncInstances, planning, Phases, TypeOK
<1>4. CASE Submit
  <2>1. PICK new \in SUBSET {c \in Chain : chain[c].status = "pending"} :
       chain' = [c \in Chain |-> IF c \in new
                                 THEN [chain[c] EXCEPT !.status = "running", !.submit = now]
                                 ELSE chain[c]]
    BY <1>4 DEF Submit
  <2>2. chain' \in [Chain -> ChainState]
    BY <1>1, <2>1 DEF ChainState, TypeOK
  <2>3. QED
    BY <1>1, <1>4, <2>2 DEF Submit, planning, Phases, TypeOK
<1>5. CASE CreateTasks
  <2>1. ASSUME NEW c \in Chain, NEW f \in Fn, Ready(c, f)
        PROVE  Origin(c, f) \in Node /\ now + Remaining(c, f) \in Nat
    <3>1. now + Remaining(c, f) \in Nat
      <4>1. now \in Nat /\ chain[c].submit \in Nat /\ EffectiveDeadline(c, f) \in Nat
        BY <1>1, EffectiveTyped DEF TypeOK, ChainState
      <4>2. QED
        BY <4>1 DEF Remaining
    <3>2. CASE Predecessors(c, f) = {}
      BY <3>1, <3>2, Deployment DEF Origin
    <3>3. CASE Predecessors(c, f) # {}
      <4>1. Carrier[c][f] \in Predecessors(c, f)
        BY <3>3, Graphs
      <4>2. Carrier[c][f] \in completed[c] /\ Carrier[c][f] \in Fn
        BY <1>1, <2>1, <4>1 DEF Ready, PredecessorsCompleted, TypeOK
      <4>3. assign[c][Carrier[c][f]] \in Instance
        <5>1. <<c, Carrier[c][f]>> \in processed
          BY <4>2 DEF IInv, ListsRead
        <5>2. task[c][Carrier[c][f]].status \in {"done", "failed"}
          BY <4>2, <5>1 DEF IInv, ListsRead
        <5>3. assign[c][Carrier[c][f]] # NoInstance
          BY <4>2, <5>2 DEF IInv, Spawned
        <5>4. QED
          BY <1>1, <4>2, <5>3 DEF TypeOK
      <4>4. QED
        BY <3>1, <3>3, <4>3, Deployment DEF Origin
    <3>4. QED
      BY <3>2, <3>3
  <2>2. task' \in [Chain -> [Fn -> TaskState]]
    BY <1>1, <1>5, <2>1 DEF CreateTasks, TaskState, TypeOK
  <2>3. QED
    BY <1>1, <1>5, <2>2 DEF CreateTasks, planning, Phases, TypeOK
<1>6. CASE ApplyDecisions
  <2>1. task' \in [Chain -> [Fn -> TaskState]]
    <3>1. \A c \in Chain : \A f \in Fn : [task[c][f] EXCEPT !.status = "moving"] \in TaskState
      <4>1. \A c \in Chain : \A f \in Fn : task[c][f] \in TaskState
        BY <1>1 DEF TypeOK
      <4>2. QED
        BY <4>1, TaskStatusTyped
    <3>2. QED
      BY <1>1, <1>6, <3>1 DEF ApplyDecisions, TypeOK
  <2>2. QED
    BY <1>1, <1>6, <2>1 DEF ApplyDecisions, planning, Phases, TypeOK
<1>7. CASE Leave
  <2>1. PICK gone \in SUBSET (Vehicles \cap present) :
          /\ present' = present \ gone
          /\ task' = [c \in Chain |-> [f \in Fn |->
               IF Removed(c, f, gone) THEN [task[c][f] EXCEPT !.status = "removed"]
               ELSE task[c][f]]]
    BY <1>7 DEF Leave
  <2>2. \A c \in Chain : \A f \in Fn : [task[c][f] EXCEPT !.status = "removed"] \in TaskState
    <3>1. \A c \in Chain : \A f \in Fn : task[c][f] \in TaskState
      BY <1>1 DEF TypeOK
    <3>2. QED
      BY <3>1, TaskStatusTyped
  <2>3. task' \in [Chain -> [Fn -> TaskState]] /\ present' \subseteq Node
    BY <1>1, <2>1, <2>2 DEF TypeOK
  <2>4. QED
    BY <1>1, <1>7, <2>3 DEF Leave, planning, Phases, TypeOK
<1>8. CASE Audit
  <2>1. PICK revoked \in SUBSET {x \in Chain \X Fn : task[x[1]][x[2]].status = "done"} :
          task' = [c \in Chain |-> [f \in Fn |->
            IF <<c, f>> \in revoked
            THEN [task[c][f] EXCEPT !.status = "failed", !.code = "malicious"]
            ELSE task[c][f]]]
    BY <1>8 DEF Audit
  <2>2. \A c \in Chain : \A f \in Fn : Fails(task[c][f], "malicious") \in TaskState
    BY <1>1, TaskFailsTyped DEF TypeOK
  <2>3. task' \in [Chain -> [Fn -> TaskState]]
    BY <1>1, <2>1, <2>2 DEF Fails, TypeOK
  <2>4. QED
    BY <1>1, <1>8, <2>3 DEF Audit, planning, Phases, TypeOK
<1>9. CASE Advance
  <2>1. PICK outcome \in Outcomes, dead \in SUBSET (UAVs \cap present) :
          /\ task' = [c \in Chain |-> [f \in Fn |-> Ended(c, f, Worked(c, f, outcome), dead)]]
          /\ present' = present \ dead
    BY <1>9 DEF Advance
  <2>2. ASSUME NEW c \in Chain, NEW f \in Fn
        PROVE  Ended(c, f, Worked(c, f, outcome), dead) \in TaskState
    <3>1. task[c][f] \in TaskState
      BY <1>1 DEF TypeOK
    <3>2. Worked(c, f, outcome) \in TaskState
      BY <3>1, WorkedKeeps
    <3>3. QED
      BY <3>2 DEF Ended, Fails, TaskState
  <2>3. task' \in [Chain -> [Fn -> TaskState]] /\ present' \subseteq Node /\ now' \in Nat
    BY <1>1, <1>9, <2>1, <2>2 DEF Advance, TypeOK
  <2>4. QED
    BY <1>1, <1>9, <2>3 DEF Advance, planning, Phases, TypeOK
<1>10. CASE StepRaises
  <2>1. PICK outcome \in Outcomes :
          task' = [c \in Chain |-> [f \in Fn |-> Worked(c, f, outcome)]]
    BY <1>10 DEF StepRaises
  <2>2. task' \in [Chain -> [Fn -> TaskState]]
    BY <1>1, <2>1, WorkedKeeps DEF TypeOK
  <2>3. QED
    BY <1>1, <1>10, <2>2 DEF StepRaises, planning, Phases, TypeOK
<1>11. CASE MarkUnfinished
  <2>1. chain' \in [Chain -> ChainState]
    BY <1>1, <1>11, MarkTyped DEF MarkUnfinished, TypeOK
  <2>2. QED
    BY <1>1, <1>11, <2>1 DEF MarkUnfinished, planning, Phases, TypeOK
<1>12. CASE Halt \/ UNCHANGED vars
  BY <1>1, <1>12 DEF Halt, vars, planning, TypeOK
<1>13. QED
  BY <1>2, <1>3, <1>4, <1>5, <1>6, <1>7, <1>8, <1>9, <1>11, <1>12, <1>10 DEF Next

\* Every step keeps the types.
LEMMA NextTyped == IInv /\ [Next]_vars => TypeOK'
BY RoundTyped, SyncTyped, PlanTyped DEF IInv, Phases

-----------------------------------------------------------------------------
(* What the steps may do. *)

\* A verdict leaves the submission of a chain alone, and only a verdict changes
\* the status.
LEMMA MarkKeeps ==
  ASSUME NEW r \in ChainState, NEW s \in {"running", "failed", "timed_out", "succeeded"}
  PROVE  /\ Mark(r, s).submit = r.submit
         /\ Mark(r, s).status = IF s = "running" THEN r.status ELSE s
BY DEF Mark, Terminal, ChainState

\* A synchronisation reads the lists and gives verdicts to running chains only.
LEMMA SyncReads ==
  ASSUME TypeOK, NEW from \in Phases, NEW to \in Phases, Sync(from, to), NEW c \in Chain
  PROVE  /\ chain'[c].submit = chain[c].submit
         /\ ~Running(c) => chain'[c] = chain[c]
         /\ Running(c) =>
              chain'[c].status \in Conclusion(c, Unread("failed"), Read(Unread("done")))
<1> DEFINE done == Unread("done")
           failed == Unread("failed")
<1>1. PICK status \in [Chain -> {"failed", "timed_out", "succeeded", "running"}] :
        /\ \A d \in Chain : Running(d) => status[d] \in Conclusion(d, failed, Read(done))
        /\ \A d \in Chain : ~Running(d) => status[d] = "running"
        /\ chain' = [d \in Chain |-> Mark(chain[d], status[d])]
  BY DEF Sync
<1>2. chain'[c] = Mark(chain[c], status[c]) /\ chain[c] \in ChainState
  BY <1>1 DEF TypeOK
<1>3. chain'[c].submit = chain[c].submit
  BY <1>2, MarkKeeps
<1>4. ASSUME ~Running(c) PROVE chain'[c] = chain[c]
  BY <1>1, <1>2, <1>4 DEF Mark, Terminal
<1>5. ASSUME Running(c)
      PROVE  chain'[c].status \in Conclusion(c, failed, Read(done))
  <2>1. status[c] \in Conclusion(c, failed, Read(done))
    BY <1>1, <1>5
  <2>2. chain'[c].status = status[c]
    BY <1>2, <1>5, MarkKeeps DEF Running
  <2>3. QED
    BY <2>1, <2>2
<1>6. QED
  BY <1>3, <1>4, <1>5

\* What the conclusion of a chain says of the lists and of its deadline.
LEMMA ConclusionMeans ==
  ASSUME NEW c \in Chain, NEW failed, NEW delivered, NEW s,
         s \in Conclusion(c, failed, delivered)
  PROVE  /\ s \in {"succeeded", "failed", "timed_out", "running"}
         /\ s = "running" => ~Overdue(c) /\ \A x \in failed : x[1] # c
         /\ s = "succeeded" => Terminals(c) \subseteq delivered[c]
<1>1. \A x \in FailureStatuses(c, failed) : x \in {"failed", "timed_out"}
  BY DEF FailureStatuses, FailureStatus
<1>2. FailureStatuses(c, failed) = {} => \A x \in failed : x[1] # c
  BY DEF FailureStatuses
<1>3. QED
  BY <1>1, <1>2 DEF Conclusion

\* The environment moves the tasks that were created: it creates none, leaves
\* the deadlines alone, and touches no ended task but to revoke a result.
LEMMA TasksMove ==
  ASSUME TypeOK, ApplyDecisions \/ Leave \/ Audit \/ Advance \/ StepRaises, NEW c \in Chain, NEW f \in Fn
  PROVE  /\ task'[c][f].due = task[c][f].due
         /\ task[c][f].status \notin PendingStatus \cup {"done"} => task'[c][f] = task[c][f]
         /\ task[c][f].status \in PendingStatus \/ task[c][f].status = task'[c][f].status
              \/ (At("audit") /\ task[c][f].status = "done" /\ task'[c][f].status = "failed")
         /\ ~At("advance") /\ task[c][f].status \in PendingStatus =>
              task'[c][f].status \in {"waiting", "moving", "computing", "removed"}
         /\ now' # now /\ task'[c][f].status \in PendingStatus => now' <= task'[c][f].due
<1> DEFINE r == task[c][f]
<1>0. /\ r \in TaskState /\ now \in Nat
      /\ PendingStatus = {"waiting", "moving", "computing"} /\ ActiveStatus = {"moving", "computing"}
  BY DEF TypeOK, PendingStatus, ActiveStatus
<1>1. CASE ApplyDecisions
  <2>1. task'[c][f] \in {r, [r EXCEPT !.status = "moving"]}
    BY <1>1 DEF ApplyDecisions
  <2>2. task'[c][f] = r \/ r.status = "waiting"
    BY <1>1 DEF ApplyDecisions
  <2>3. QED
    BY <1>0, <1>1, <2>1, <2>2 DEF ApplyDecisions, At, TaskState
<1>2. CASE Leave
  <2>1. task'[c][f] \in {r, [r EXCEPT !.status = "removed"]}
    BY <1>2 DEF Leave
  <2>2. task'[c][f] = r \/ r.status \in ActiveStatus
    BY <1>2 DEF Leave, Removed, Active
  <2>3. QED
    BY <1>0, <1>2, <2>1, <2>2 DEF Leave, At, TaskState
<1>3. CASE Audit
  <2>1. PICK revoked \in SUBSET {x \in Chain \X Fn : task[x[1]][x[2]].status = "done"} :
          task' = [d \in Chain |-> [g \in Fn |->
            IF <<d, g>> \in revoked
            THEN [task[d][g] EXCEPT !.status = "failed", !.code = "malicious"]
            ELSE task[d][g]]]
    BY <1>3 DEF Audit
  <2>2. task'[c][f] = r
        \/ (r.status = "done" /\ task'[c][f] = [r EXCEPT !.status = "failed", !.code = "malicious"])
    BY <2>1
  <2>3. QED
    BY <1>0, <1>3, <2>2 DEF Audit, At, TaskState
<1>4. CASE Advance
  <2>1. PICK outcome \in Outcomes, dead \in SUBSET (UAVs \cap present) :
          task' = [d \in Chain |-> [g \in Fn |-> Ended(d, g, Worked(d, g, outcome), dead)]]
    BY <1>4 DEF Advance
  <2> DEFINE w == Worked(c, f, outcome)
  <2>2. task'[c][f] = Ended(c, f, w, dead)
    BY <2>1
  <2>3. /\ w \in TaskState /\ w.due = r.due
        /\ r.status \notin ActiveStatus => w = r
    BY <1>0, WorkedKeeps DEF Active
  <2>4. /\ Ended(c, f, w, dead).due = w.due
        /\ w.status \notin PendingStatus => Ended(c, f, w, dead) = w
        /\ Ended(c, f, w, dead).status \in PendingStatus => now + 1 <= w.due
    BY <1>0, <2>3 DEF Ended, Fails, TaskState
  <2>5. QED
    BY <1>0, <1>4, <2>2, <2>3, <2>4 DEF Advance, At
<1>5. CASE StepRaises
  <2>1. PICK outcome \in Outcomes :
          task' = [d \in Chain |-> [g \in Fn |-> Worked(d, g, outcome)]]
    BY <1>5 DEF StepRaises
  <2>2. task'[c][f] = Worked(c, f, outcome)
    BY <2>1
  <2>3. task'[c][f].due = r.due /\ (r.status \notin ActiveStatus => task'[c][f] = r)
    BY <1>0, <2>2, WorkedKeeps DEF Active
  <2>4. At("advance") /\ now' = now
    BY <1>5 DEF StepRaises
  <2>5. QED
    BY <1>0, <2>3, <2>4 DEF At
<1>6. QED
  BY <1>1, <1>2, <1>3, <1>4, <1>5

\* The planner leaves the tasks and the lists alone; it decides on the chain it
\* plans and assigns its functions, and ends that chain when it rejects it.
LEMMA PlanDecides ==
  ASSUME TypeOK, Planning, Plan, NEW c \in Chain
  PROVE  /\ UNCHANGED <<task, completed, processed, present, now>>
         /\ At("plan") \/ At("rollback")
         /\ phase' \in {"plan", "rollback"}
         /\ decision[c] # "none" => decision'[c] = decision[c] /\ assign'[c] = assign[c]
         /\ chain'[c] = chain[c] \/ (/\ Running(c) /\ decision[c] = "none"
                                     /\ chain'[c].status = "failed"
                                     /\ chain'[c].submit = chain[c].submit)
<1>1. ASSUME NEW d \in Chain, StartPlan(d) PROVE decision' = decision /\ assign' = assign /\ chain' = chain
  BY <1>1 DEF StartPlan
<1>2. ASSUME NEW i \in Instance, PlaceFunction(i)
      PROVE  /\ decision' = decision /\ chain' = chain
             /\ c # target => assign'[c] = assign[c]
  BY <1>2 DEF PlaceFunction, TypeOK
<1>3. CASE SkipOptional \/ NoCandidate \/ Accept
  BY <1>3 DEF SkipOptional, NoCandidate, Accept, Placing, Planning, At, TypeOK
<1>4. CASE Rollback
  BY <1>4 DEF Rollback, Planning, At, TypeOK
<1>5. CASE Reject
  <2>1. target \in Chain /\ Running(target) /\ decision[target] = "none"
    BY <1>5 DEF Reject, Planning, At, TypeOK
  <2>2. chain[target] \in ChainState
    BY <2>1 DEF TypeOK
  <2>3. chain' = [chain EXCEPT ![target] = Mark(chain[target], "failed")]
    BY <1>5 DEF Reject
  <2>4. c = target => chain'[c].status = "failed" /\ chain'[c].submit = chain[c].submit
    BY <2>2, <2>3, MarkKeeps DEF TypeOK
  <2>5. c # target => chain'[c] = chain[c]
    BY <2>3 DEF TypeOK
  <2>6. QED
    BY <1>5, <2>1, <2>4, <2>5 DEF Reject, At, TypeOK
<1>6. QED
  BY <1>1, <1>2, <1>3, <1>4, <1>5
     DEF Plan, StartPlan, PlaceFunction, Placing, Planning, At, TypeOK

-----------------------------------------------------------------------------
(* The parts of the invariant. *)

\* The planner stays inside the order of the chain it plans.
LEMMA PlanningKept == IInv /\ [Next]_vars => Planning'
<1> SUFFICES ASSUME IInv, [Next]_vars PROVE Planning'
  OBVIOUS
<1> USE DEF At
<1>0. TypeOK /\ Planning
  BY DEF IInv
<1>1. ASSUME UNCHANGED planning, phase \notin {"plan", "rollback"}, phase' # "rollback"
      PROVE  Planning'
  BY <1>0, <1>1 DEF planning, Planning, TypeOK
<1>2. CASE Loop \/ (\E from, to \in Phases \ {"plan", "rollback"} : Sync(from, to))
           \/ SyncInstances \/ Submit \/ ApplyDecisions \/ Leave \/ Audit \/ Advance
           \/ StepRaises \/ MarkUnfinished
  BY <1>1, <1>2 DEF Loop, Sync, SyncInstances, Submit, ApplyDecisions, Leave, Audit, Advance, StepRaises,
                    MarkUnfinished
<1>3. CASE CreateTasks
  BY <1>0, <1>3 DEF CreateTasks, planning, Planning, TypeOK
<1>4. ASSUME NEW c \in Chain, StartPlan(c) PROVE Planning'
  <2>1. Len(Order[c]) \in Nat /\ 1 \in 0 .. Len(Order[c]) + 1
    BY Graphs
  <2>2. /\ target = NoChain /\ target' = c /\ position' = 1 /\ phase = "plan" /\ phase' = "plan"
        /\ Running(c)' /\ decision'[c] = "none" /\ decision' = decision /\ assign' = assign
    BY <1>4 DEF StartPlan, Undecided, Running
  <2>3. \A d \in Chain : decision'[d] = "none" /\ d # c =>
          \A f \in Fn : assign'[d][f] = NoInstance
    BY <1>0, <2>2, Deployment DEF Planning
  <2>4. QED
    BY <2>1, <2>2, <2>3 DEF Planning
<1>5. ASSUME Placing PROVE position \in 1 .. Len(Order[target]) /\ Len(Order[target]) \in Nat
  BY <1>0, <1>5, Graphs DEF Placing, TypeOK
<1>6. ASSUME NEW i \in Instance, PlaceFunction(i) PROVE Planning'
  <2>1. target # NoChain /\ position' \in 1 .. Len(Order[target]) + 1
    BY <1>5, <1>6 DEF PlaceFunction, Placing
  <2>2. \A c \in Chain : c # target => assign'[c] = assign[c]
    BY <1>0, <1>6 DEF PlaceFunction, TypeOK
  <2>3. QED
    BY <1>0, <1>6, <2>1, <2>2 DEF PlaceFunction, Placing, Planning, Running, TypeOK
<1>7. CASE SkipOptional
  <2>1. target # NoChain /\ position' \in 1 .. Len(Order[target]) + 1
    BY <1>5, <1>7 DEF SkipOptional, Placing
  <2>2. QED
    BY <1>0, <1>7, <2>1 DEF SkipOptional, Placing, Planning, Running, TypeOK
<1>8. CASE NoCandidate
  <2>1. target # NoChain /\ position' \in 0 .. Len(Order[target])
    BY <1>5, <1>8 DEF NoCandidate, Placing
  <2>2. position' <= Len(Order[target]) /\ position' \in 0 .. Len(Order[target]) + 1
    BY <1>5, <1>8, <2>1 DEF NoCandidate
  <2>3. QED
    BY <1>0, <1>8, <2>1, <2>2 DEF NoCandidate, Placing, Planning, Running, TypeOK
<1>9. CASE Accept
  <2>1. target \in Chain /\ target # NoChain
    BY <1>0, <1>9 DEF Accept, TypeOK
  <2>2. \A c \in Chain : decision'[c] = "none" => c # target /\ decision[c] = "none"
    BY <1>0, <1>9, <2>1 DEF Accept, TypeOK
  <2>3. QED
    BY <1>0, <1>9, <2>2 DEF Accept, Planning
<1>10. CASE Rollback
  <2>1. target \in Chain /\ target # NoChain /\ Len(Order[target]) \in Nat
    BY <1>0, <1>10, Graphs DEF Rollback, Planning, TypeOK
  <2>2. position' \in 0 .. Len(Order[target]) + 1 /\ position' <= Len(Order[target])
    BY <1>0, <1>10, <2>1 DEF Rollback, Planning, TypeOK
  <2>3. \A c \in Chain : c # target => assign'[c] = assign[c]
    BY <1>0, <1>10 DEF Rollback, TypeOK
  <2>4. QED
    BY <1>0, <1>10, <2>1, <2>2, <2>3 DEF Rollback, Planning, Running, TypeOK
<1>11. CASE Reject
  <2>1. \A c \in Chain : decision'[c] = "none" /\ c # NoChain => c # target /\ decision[c] = "none"
    BY <1>0, <1>11 DEF Reject, Planning, TypeOK
  <2>2. QED
    BY <1>0, <1>11, <2>1, Deployment DEF Reject, Planning
<1>12. CASE Halt \/ UNCHANGED vars
  BY <1>0, <1>12 DEF Halt, vars, planning, Planning, Running
<1>13. QED
  BY <1>2, <1>3, <1>4, <1>6, <1>7, <1>8, <1>9, <1>10, <1>11, <1>12 DEF Next, Plan, Phases

\* Every task belongs to an accepted plan.
LEMMA SpawnedKept == IInv /\ [Next]_vars => Spawned'
<1> SUFFICES ASSUME IInv, [Next]_vars, NEW c \in Chain, NEW f \in Fn, task'[c][f].status # "none"
             PROVE  /\ f \in Functions[c] /\ Predecessors(c, f) \subseteq completed'[c]
                    /\ decision'[c] = "accepted" /\ assign'[c][f] # NoInstance
                    /\ chain'[c].status # "pending"
  BY DEF Spawned
<1> DEFINE Goal == /\ f \in Functions[c] /\ Predecessors(c, f) \subseteq completed'[c]
                   /\ decision'[c] = "accepted" /\ assign'[c][f] # NoInstance
                   /\ chain'[c].status # "pending"
<1>0. TypeOK /\ Planning /\ Spawned
  BY DEF IInv
<1>1. ASSUME NEW from \in Phases, NEW to \in Phases, Sync(from, to) PROVE Goal
  <2>1. task' = task /\ UNCHANGED planning /\ completed[c] \subseteq completed'[c]
    BY <1>0, <1>1 DEF Sync, Read, TypeOK
  <2>2. chain'[c].submit = chain[c].submit
    BY <1>0, <1>1, SyncReads
  <2>3. chain'[c].status # "pending"
    <3>1. CASE Running(c)
      BY <1>0, <1>1, <3>1, SyncReads, ConclusionMeans
    <3>2. CASE ~Running(c)
      BY <1>0, <1>1, <2>1, <3>2, SyncReads DEF Spawned
    <3>3. QED
      BY <3>1, <3>2
  <2>4. QED
    BY <1>0, <2>1, <2>2, <2>3 DEF Spawned, planning
<1>2. CASE Submit
  <2>1. task' = task /\ UNCHANGED planning /\ completed' = completed
    BY <1>2 DEF Submit
  <2>2. chain[c].status # "pending"
    BY <1>0, <2>1 DEF Spawned
  <2>3. chain'[c] = chain[c]
    BY <1>2, <2>2 DEF Submit
  <2>4. QED
    BY <1>0, <2>1, <2>3 DEF Spawned, planning
<1>3. CASE Plan
  <2>1. task' = task /\ completed' = completed
    BY <1>0, <1>3, PlanDecides
  <2>2. decision[c] = "accepted"
    BY <1>0, <2>1 DEF Spawned
  <2>3. decision'[c] = decision[c] /\ assign'[c] = assign[c] /\ chain'[c] = chain[c]
    BY <1>0, <1>3, <2>2, PlanDecides
  <2>4. QED
    BY <1>0, <2>1, <2>3 DEF Spawned
<1>4. CASE CreateTasks
  <2>1. UNCHANGED <<chain, decision, assign, completed>>
    BY <1>4 DEF CreateTasks, planning
  <2>2. CASE f \in Functions[c] /\ Ready(c, f)
    BY <2>1, <2>2 DEF Ready, Running, PredecessorsCompleted
  <2>3. CASE ~(f \in Functions[c] /\ Ready(c, f))
    <3>1. task'[c][f] = task[c][f]
      BY <1>4, <2>3 DEF CreateTasks
    <3>2. QED
      BY <1>0, <2>1, <3>1 DEF Spawned
  <2>4. QED
    BY <2>2, <2>3
<1>5. CASE ApplyDecisions \/ Leave \/ Audit \/ Advance \/ StepRaises
  <2>1. UNCHANGED <<chain, decision, assign, completed>>
    BY <1>5 DEF ApplyDecisions, Leave, Audit, Advance, StepRaises, planning
  <2>2. task[c][f].status # "none"
    BY <1>0, <1>5, TasksMove DEF PendingStatus, ActiveStatus
  <2>3. QED
    BY <1>0, <2>1, <2>2 DEF Spawned
<1>6. CASE MarkUnfinished
  <2>1. UNCHANGED <<decision, assign, completed, task>>
    BY <1>6 DEF MarkUnfinished, planning
  <2>2. chain'[c] \in {chain[c], Mark(chain[c], "timed_out")} /\ chain[c] \in ChainState
    BY <1>0, <1>6 DEF MarkUnfinished, TypeOK
  <2>3. chain'[c].submit = chain[c].submit /\ chain'[c].status \in {chain[c].status, "timed_out"}
    BY <2>2, MarkKeeps
  <2>4. QED
    BY <1>0, <2>1, <2>3 DEF Spawned
<1>7. CASE Loop \/ SyncInstances \/ Halt \/ UNCHANGED vars
  BY <1>0, <1>7 DEF Loop, SyncInstances, Halt, vars, planning, Spawned
<1>8. QED
  BY <1>1, <1>2, <1>3, <1>4, <1>5, <1>6, <1>7 DEF Next, Phases

\* What the lists of ended tasks, the set of read tasks and the completed
\* functions say of each other.
LEMMA ListsReadKept == IInv /\ [Next]_vars => ListsRead'
<1> SUFFICES ASSUME IInv, [Next]_vars, NEW c \in Chain, NEW f \in Fn
             PROVE  /\ f \in completed'[c] => <<c, f>> \in processed'
                    /\ <<c, f>> \in processed' => task'[c][f].status \in {"done", "failed"}
                    /\ <<c, f>> \in processed' /\ (Running(c)' \/ task'[c][f].status = "done") =>
                         f \in completed'[c]
                    /\ ~Unsynchronised' /\ task'[c][f].status \in {"done", "failed"} =>
                         <<c, f>> \in processed'
  BY DEF ListsRead
<1> DEFINE Goal == /\ f \in completed'[c] => <<c, f>> \in processed'
                   /\ <<c, f>> \in processed' => task'[c][f].status \in {"done", "failed"}
                   /\ <<c, f>> \in processed' /\ (Running(c)' \/ task'[c][f].status = "done") =>
                        f \in completed'[c]
                   /\ ~Unsynchronised' /\ task'[c][f].status \in {"done", "failed"} =>
                        <<c, f>> \in processed'
<1>0. TypeOK /\ Planning /\ Spawned /\ ListsRead
  BY DEF IInv
<1>1. ASSUME NEW from \in Phases, NEW to \in Phases, Sync(from, to) PROVE Goal
  <2> DEFINE done == Unread("done")
             failed == Unread("failed")
  <2>1. /\ task' = task
        /\ completed'[c] = completed[c] \cup {g \in Fn : <<c, g>> \in done}
        /\ processed' = processed \cup done \cup failed
    BY <1>1 DEF Sync, Read
  <2>2. /\ <<c, f>> \in done <=> task[c][f].status = "done" /\ <<c, f>> \notin processed
        /\ <<c, f>> \in failed <=> task[c][f].status = "failed" /\ <<c, f>> \notin processed
    BY DEF Unread
  <2>3. Running(c)' => Running(c) /\ \A x \in failed : x[1] # c
    <3>1. CASE Running(c)
      BY <1>0, <1>1, <3>1, SyncReads, ConclusionMeans DEF Running
    <3>2. CASE ~Running(c)
      BY <1>0, <1>1, <3>2, SyncReads DEF Running
    <3>3. QED
      BY <3>1, <3>2
  <2>4. Running(c)' => <<c, f>> \notin failed
    BY <2>3
  <2>5. QED
    BY <1>0, <1>1, <2>1, <2>2, <2>3, <2>4 DEF ListsRead
<1>2. CASE Submit
  <2>1. UNCHANGED <<task, completed, processed>> /\ ~Unsynchronised
    BY <1>2 DEF Submit, Unsynchronised, At
  <2>2. <<c, f>> \in processed => chain[c].status # "pending"
    BY <1>0 DEF ListsRead, Spawned
  <2>3. <<c, f>> \in processed => chain'[c] = chain[c]
    BY <1>2, <2>2 DEF Submit
  <2>4. QED
    BY <1>0, <2>1, <2>3 DEF ListsRead, Running
<1>3. CASE Plan
  <2>1. UNCHANGED <<task, completed, processed>> /\ ~Unsynchronised
    BY <1>0, <1>3, PlanDecides DEF Unsynchronised, At
  <2>2. Running(c)' => Running(c)
    BY <1>0, <1>3, PlanDecides DEF Running
  <2>3. QED
    BY <1>0, <2>1, <2>2 DEF ListsRead
<1>4. CASE CreateTasks
  <2>1. UNCHANGED <<chain, completed, processed>> /\ ~Unsynchronised
    BY <1>4 DEF CreateTasks, Unsynchronised, At
  <2>2. task'[c][f] = task[c][f] \/ (task[c][f].status = "none" /\ task'[c][f].status = "waiting")
    BY <1>4 DEF CreateTasks, Ready
  <2>3. QED
    BY <1>0, <2>1, <2>2 DEF ListsRead, Running
<1>5. CASE ApplyDecisions \/ Leave \/ Audit \/ Advance \/ StepRaises
  <2>1. UNCHANGED <<chain, completed, processed>> /\ ~Unsynchronised
        /\ (Unsynchronised' <=> At("advance"))
    BY <1>5 DEF ApplyDecisions, Leave, Audit, Advance, StepRaises, Unsynchronised, At
  <2>2. /\ task[c][f].status \in {"done", "failed"} => task'[c][f].status \in {"done", "failed"}
        /\ task'[c][f].status = "done" /\ task[c][f].status \in {"done", "failed"} =>
             task[c][f].status = "done"
        /\ ~Unsynchronised' /\ task'[c][f].status \in {"done", "failed"} =>
             task[c][f].status \in {"done", "failed"}
    BY <1>0, <1>5, <2>1, TasksMove DEF PendingStatus, ActiveStatus
  <2>3. QED
    BY <1>0, <2>1, <2>2 DEF ListsRead, Running
<1>6. CASE MarkUnfinished
  <2>1. UNCHANGED <<completed, processed, task>> /\ ~Unsynchronised
    BY <1>6 DEF MarkUnfinished, Unsynchronised, At
  <2>2. chain'[c] \in {chain[c], Mark(chain[c], "timed_out")} /\ chain[c] \in ChainState
    BY <1>0, <1>6 DEF MarkUnfinished, TypeOK
  <2>3. Running(c)' => Running(c)
    BY <2>2, MarkKeeps DEF Running
  <2>4. QED
    BY <1>0, <2>1, <2>3 DEF ListsRead
<1>7. CASE Loop \/ SyncInstances \/ Halt \/ UNCHANGED vars
  BY <1>0, <1>7 DEF Loop, SyncInstances, Halt, vars, At, Running, Unsynchronised, ListsRead
<1>8. QED
  BY <1>1, <1>2, <1>3, <1>4, <1>5, <1>6, <1>7 DEF Next, Phases

\* The clocks: running chains and pending tasks are within their deadlines.
LEMMA TimelyKept == IInv /\ [Next]_vars => Timely'
<1> SUFFICES ASSUME IInv, [Next]_vars, NEW c \in Chain
             PROVE  /\ chain'[c].status # "pending" => chain'[c].submit <= now'
                    /\ Running(c)' /\ phase' # "post" => now' <= chain'[c].submit + Deadline[c]
                    /\ \A f \in Fn : task'[c][f].status \in PendingStatus => now' <= task'[c][f].due
  BY DEF Timely, PendingStatus, ActiveStatus
<1> DEFINE Goal == /\ chain'[c].status # "pending" => chain'[c].submit <= now'
                   /\ Running(c)' /\ phase' # "post" => now' <= chain'[c].submit + Deadline[c]
                   /\ \A f \in Fn : task'[c][f].status \in PendingStatus => now' <= task'[c][f].due
<1>0. TypeOK /\ Planning /\ Spawned /\ Timely
  BY DEF IInv
<1>n. now \in Nat /\ chain[c].submit \in Nat /\ Deadline[c] \in Nat
  BY <1>0, Graphs DEF TypeOK, ChainState
<1>1. ASSUME NEW from \in Phases, NEW to \in Phases, Sync(from, to) PROVE Goal
  <2>1. task' = task /\ now' = now /\ chain'[c].submit = chain[c].submit
    BY <1>0, <1>1, SyncReads DEF Sync
  <2>2. CASE Running(c)
    <3>1. Running(c)' => ~Overdue(c)
      BY <1>0, <1>1, <2>2, SyncReads, ConclusionMeans DEF Running
    <3>2. QED
      BY <1>0, <1>n, <2>1, <2>2, <3>1 DEF Overdue, Timely, Running
  <2>3. CASE ~Running(c)
    BY <1>0, <1>1, <2>1, <2>3, SyncReads DEF Timely, Running
  <2>4. QED
    BY <2>2, <2>3
<1>2. CASE Submit
  <2>1. task' = task /\ now' = now /\ phase # "post"
    BY <1>2 DEF Submit, At
  <2>2. chain[c] \in ChainState
    BY <1>0 DEF TypeOK
  <2>3. chain'[c] = chain[c] \/ chain'[c] = [chain[c] EXCEPT !.status = "running", !.submit = now]
    BY <1>2 DEF Submit
  <2>4. chain'[c] = chain[c] \/ chain'[c].submit = now
    BY <2>2, <2>3 DEF ChainState
  <2>5. QED
    BY <1>0, <1>n, <2>1, <2>4 DEF Timely, Running
<1>3. CASE Plan
  <2>1. task' = task /\ now' = now /\ phase # "post"
    BY <1>0, <1>3, PlanDecides DEF At
  <2>2. chain'[c] = chain[c] \/ (/\ Running(c) /\ chain'[c].status = "failed"
                                 /\ chain'[c].submit = chain[c].submit)
    BY <1>0, <1>3, PlanDecides
  <2>3. QED
    BY <1>0, <2>1, <2>2 DEF Timely, Running
<1>4. CASE CreateTasks
  <2>1. chain' = chain /\ now' = now /\ phase # "post"
    BY <1>4 DEF CreateTasks, At
  <2>2. ASSUME NEW f \in Fn, task'[c][f].status \in PendingStatus PROVE now <= task'[c][f].due
    <3>1. now + Remaining(c, f) \in Nat /\ now <= now + Remaining(c, f)
      BY <1>n, EffectiveTyped DEF Remaining
    <3>2. task'[c][f] = task[c][f] \/ task'[c][f].due = now + Remaining(c, f)
      BY <1>4 DEF CreateTasks
    <3>3. QED
      BY <1>0, <2>2, <3>1, <3>2 DEF Timely
  <2>3. QED
    BY <1>0, <2>1, <2>2 DEF Timely, Running
<1>5. CASE ApplyDecisions \/ Leave \/ Audit
  <2>1. chain' = chain /\ now' = now /\ phase # "post" /\ ~At("advance")
    BY <1>5 DEF ApplyDecisions, Leave, Audit, At
  <2>2. ASSUME NEW f \in Fn, task'[c][f].status \in PendingStatus
        PROVE  task[c][f].status \in PendingStatus /\ task'[c][f].due = task[c][f].due
    BY <1>0, <1>5, <2>2, TasksMove DEF PendingStatus, ActiveStatus
  <2>3. QED
    BY <1>0, <2>1, <2>2 DEF Timely, Running
<1>6. CASE StepRaises
  <2>1. chain' = chain /\ now' = now /\ phase # "post"
    BY <1>6 DEF StepRaises, At
  <2>2. ASSUME NEW f \in Fn, task'[c][f].status \in PendingStatus
        PROVE  task[c][f].status \in PendingStatus /\ task'[c][f].due = task[c][f].due
    BY <1>0, <1>6, <2>2, TasksMove DEF PendingStatus, ActiveStatus
  <2>3. QED
    BY <1>0, <2>1, <2>2 DEF Timely, Running
<1>7. CASE Advance
  <2>1. chain' = chain /\ now' = now + 1 /\ phase' = "post" /\ At("advance")
    BY <1>7 DEF Advance
  <2>2. \A f \in Fn : task'[c][f].status \in PendingStatus => now' <= task'[c][f].due
    BY <1>0, <1>7, <1>n, <2>1, TasksMove
  <2>3. QED
    BY <1>0, <1>n, <2>1, <2>2 DEF Timely
<1>8. CASE MarkUnfinished
  <2>1. task' = task /\ now' = now /\ phase # "post"
    BY <1>8 DEF MarkUnfinished, At
  <2>2. chain'[c] \in {chain[c], Mark(chain[c], "timed_out")} /\ chain[c] \in ChainState
    BY <1>0, <1>8 DEF MarkUnfinished, TypeOK
  <2>3. chain'[c] = chain[c] \/ (Unfinished(c) /\ chain'[c].status = "timed_out"
                                 /\ chain'[c].submit = chain[c].submit)
    BY <1>8, <2>2, MarkKeeps DEF MarkUnfinished
  <2>4. QED
    BY <1>0, <2>1, <2>3 DEF Timely, Running, Unfinished
<1>9. CASE Loop \/ SyncInstances \/ Halt \/ UNCHANGED vars
  BY <1>0, <1>9 DEF Loop, SyncInstances, Halt, vars, At, Running, Timely
<1>10. QED
  BY <1>1, <1>2, <1>3, <1>4, <1>5, <1>7, <1>8, <1>9, <1>6 DEF Next, Phases

\* Every task is due in time.
LEMMA PunctualKept == IInv /\ [Next]_vars => Punctual'
<1> SUFFICES ASSUME IInv, [Next]_vars, NEW c \in Chain, NEW f \in Fn,
                    task'[c][f].status \in PendingStatus
             PROVE  \/ task'[c][f].due <= chain'[c].submit + EffectiveDeadline(c, f)
                    \/ task'[c][f].due = now' /\ now' <= chain'[c].submit + Deadline[c]
  BY DEF Punctual, PendingStatus, ActiveStatus, EffectiveDeadline
<1> DEFINE Goal == \/ task'[c][f].due <= chain'[c].submit + EffectiveDeadline(c, f)
                   \/ task'[c][f].due = now' /\ now' <= chain'[c].submit + Deadline[c]
           Kept == /\ task[c][f].status \in PendingStatus
                   /\ task'[c][f].due = task[c][f].due /\ chain'[c].submit = chain[c].submit
<1>0. TypeOK /\ Planning /\ Spawned /\ Timely /\ Punctual
  BY DEF IInv
<1>k. Kept /\ now' = now => Goal
  BY <1>0 DEF Punctual
<1>n. /\ now \in Nat /\ chain[c].submit \in Nat /\ Deadline[c] \in Nat
      /\ EffectiveDeadline(c, f) \in Nat /\ task[c][f].due \in Nat
  <2>1. chain[c] \in ChainState /\ task[c][f] \in TaskState /\ now \in Nat
    BY <1>0 DEF TypeOK
  <2>2. Deadline[c] \in Nat
    BY Graphs
  <2>3. EffectiveDeadline(c, f) \in Nat
    BY EffectiveTyped
  <2>4. QED
    BY <2>1, <2>2, <2>3 DEF ChainState, TaskState
<1>1. ASSUME NEW from \in Phases, NEW to \in Phases, Sync(from, to) PROVE Goal
  <2>1. Kept /\ now' = now
    BY <1>0, <1>1, SyncReads DEF Sync
  <2>2. QED
    BY <1>k, <2>1
<1>2. CASE Submit
  <2>1. task' = task /\ now' = now
    BY <1>2 DEF Submit
  <2>2. chain[c].status # "pending"
    BY <1>0, <2>1 DEF Spawned, PendingStatus, ActiveStatus
  <2>3. chain'[c] = chain[c]
    BY <1>2, <2>2 DEF Submit
  <2>4. QED
    BY <1>k, <2>1, <2>3
<1>3. CASE Plan
  BY <1>0, <1>3, <1>k, PlanDecides
<1>4. CASE CreateTasks
  <2>1. chain' = chain /\ now' = now
    BY <1>4 DEF CreateTasks
  <2>2. CASE f \in Functions[c] /\ Ready(c, f)
    <3>1. task'[c][f].due = now + Remaining(c, f)
      BY <1>4, <2>2 DEF CreateTasks
    <3>2. now <= chain[c].submit + Deadline[c]
      BY <1>0, <2>2, <1>4 DEF CreateTasks, At, Timely, Ready
    <3>3. \/ now + Remaining(c, f) = chain[c].submit + EffectiveDeadline(c, f)
          \/ now + Remaining(c, f) = now
      BY <1>n DEF Remaining
    <3>4. QED
      BY <1>n, <2>1, <3>1, <3>2, <3>3
  <2>3. CASE ~(f \in Functions[c] /\ Ready(c, f))
    <3>1. task'[c][f] = task[c][f]
      BY <1>4, <2>3 DEF CreateTasks
    <3>2. QED
      BY <1>k, <2>1, <3>1
  <2>4. QED
    BY <2>2, <2>3
<1>5. CASE ApplyDecisions \/ Leave \/ Audit \/ StepRaises
  <2>1. chain' = chain /\ now' = now
    BY <1>5 DEF ApplyDecisions, Leave, Audit, StepRaises
  <2>2. task[c][f].status \in PendingStatus /\ task'[c][f].due = task[c][f].due
    BY <1>0, <1>5, TasksMove DEF PendingStatus, ActiveStatus
  <2>3. QED
    BY <1>k, <2>1, <2>2
<1>6. CASE Advance
  <2>1. chain' = chain /\ now' = now + 1
    BY <1>6 DEF Advance
  <2>2. task[c][f].status \in PendingStatus /\ task'[c][f].due = task[c][f].due
    BY <1>0, <1>6, TasksMove DEF PendingStatus, ActiveStatus
  <2>3. now' <= task'[c][f].due
    BY <1>0, <1>6, <1>n, <2>1, TasksMove
  <2>4. QED
    BY <1>0, <1>n, <2>1, <2>2, <2>3 DEF Punctual
<1>7. CASE MarkUnfinished
  <2>1. task' = task /\ now' = now
    BY <1>7 DEF MarkUnfinished
  <2>2. chain'[c] \in {chain[c], Mark(chain[c], "timed_out")} /\ chain[c] \in ChainState
    BY <1>0, <1>7 DEF MarkUnfinished, TypeOK
  <2>3. chain'[c].submit = chain[c].submit
    BY <2>2, MarkKeeps
  <2>4. QED
    BY <1>k, <2>1, <2>3
<1>8. CASE Loop \/ SyncInstances \/ Halt \/ UNCHANGED vars
  BY <1>k, <1>8 DEF Loop, SyncInstances, Halt, vars
<1>9. QED
  BY <1>1, <1>2, <1>3, <1>4, <1>5, <1>6, <1>7, <1>8, <1>k DEF Next, Phases

\* A chain that succeeded has completed its last functions.
LEMMA ConcludedKept == IInv /\ [Next]_vars => Concluded'
<1> SUFFICES ASSUME IInv, [Next]_vars, NEW c \in Chain, chain'[c].status = "succeeded"
             PROVE  Terminals(c) \subseteq completed'[c]
  BY DEF Concluded
<1>0. TypeOK /\ Planning /\ Concluded
  BY DEF IInv
<1>1. ASSUME NEW from \in Phases, NEW to \in Phases, Sync(from, to)
      PROVE  Terminals(c) \subseteq completed'[c]
  <2>1. completed' = Read(Unread("done")) /\ completed[c] \subseteq completed'[c]
    BY <1>0, <1>1 DEF Sync, Read, TypeOK
  <2>2. CASE Running(c)
    BY <1>0, <1>1, <2>1, <2>2, SyncReads, ConclusionMeans
  <2>3. CASE ~Running(c)
    BY <1>0, <1>1, <2>1, <2>3, SyncReads DEF Concluded
  <2>4. QED
    BY <2>2, <2>3
<1>2. CASE Submit
  BY <1>0, <1>2 DEF Submit, Concluded, TypeOK, ChainState
<1>3. CASE Plan
  BY <1>0, <1>3, PlanDecides DEF Concluded
<1>4. CASE MarkUnfinished
  <2>1. chain'[c] \in {chain[c], Mark(chain[c], "timed_out")} /\ chain[c] \in ChainState
    BY <1>0, <1>4 DEF MarkUnfinished, TypeOK
  <2>2. chain[c].status = "succeeded"
    BY <2>1, MarkKeeps
  <2>3. QED
    BY <1>0, <1>4, <2>2 DEF Concluded, MarkUnfinished
<1>5. CASE Loop \/ SyncInstances \/ CreateTasks \/ ApplyDecisions \/ Leave \/ Audit \/ Advance
           \/ StepRaises \/ Halt \/ UNCHANGED vars
  BY <1>0, <1>5 DEF Loop, SyncInstances, CreateTasks, ApplyDecisions, Leave, Audit, Advance, StepRaises,
                    Halt, vars, Concluded
<1>6. QED
  BY <1>1, <1>2, <1>3, <1>4, <1>5 DEF Next, Phases

\* The planner works on a directory that knows the missing nodes.
LEMMA DirectoryCurrentKept == IInv /\ [Next]_vars => DirectoryCurrent'
<1> SUFFICES ASSUME IInv, [Next]_vars PROVE DirectoryCurrent'
  OBVIOUS
<1> USE DEF At
<1>0. TypeOK /\ Planning /\ DirectoryCurrent
  BY DEF IInv
<1>1. CASE SyncInstances
  <2>1. PICK untrusted \in SUBSET present :
          inst' = [i \in Instance |-> Refreshed(i, untrusted)]
    BY <1>1 DEF SyncInstances
  <2>2. ASSUME NEW i \in Instance, inst'[i].up PROVE HostOf[i] \in present
    <3>1. inst[i] \in InstanceState /\ inst'[i] = Refreshed(i, untrusted)
      BY <1>0, <2>1 DEF TypeOK
    <3>2. QED
      BY <2>2, <3>1 DEF Refreshed, InstanceState
  <2>3. target' = NoChain /\ present' = present
    BY <1>0, <1>1 DEF SyncInstances, planning, Planning
  <2>4. QED
    BY <2>2, <2>3 DEF DirectoryCurrent
<1>2. CASE Submit
  BY <1>0, <1>2 DEF Submit, planning, DirectoryCurrent
<1>3. ASSUME NEW c \in Chain, StartPlan(c) PROVE DirectoryCurrent'
  <2>1. \A f \in Fn : assign[c][f] = NoInstance
    BY <1>0, <1>3, Deployment DEF StartPlan, Undecided, Planning
  <2>2. QED
    BY <1>0, <1>3, <2>1 DEF StartPlan, DirectoryCurrent
<1>4. ASSUME NEW i \in Instance, PlaceFunction(i) PROVE DirectoryCurrent'
  <2>1. inst[i].up /\ phase \in {"plan", "rollback"} /\ target \in Chain /\ target' = target
    BY <1>0, <1>4 DEF PlaceFunction, Placing, Candidates, CanReserve, TypeOK
  <2>2. \A j \in Instance : inst'[j].up => inst[j].up
    BY <1>0, <1>4 DEF PlaceFunction, Reserve, TypeOK, InstanceState
  <2>3. Current \in Fn
    <3>1. position \in DOMAIN Order[target]
      BY <1>4 DEF PlaceFunction, Placing
    <3>2. QED
      BY <2>1, <3>1, Graphs DEF Current
  <2>4. \A f \in Fn : assign'[target][f] \in {assign[target][f], i}
    BY <1>0, <1>4, <2>1, <2>3 DEF PlaceFunction, TypeOK
  <2>5. HostOf[i] \in present /\ target # NoChain /\ present' = present
    BY <1>0, <1>4, <2>1 DEF DirectoryCurrent, PlaceFunction, Placing
  <2>6. QED
    BY <1>0, <2>1, <2>2, <2>4, <2>5 DEF DirectoryCurrent
<1>5. CASE SkipOptional \/ NoCandidate \/ Accept
  BY <1>0, <1>5 DEF SkipOptional, NoCandidate, Accept, Placing, DirectoryCurrent
<1>6. CASE Rollback
  <2>1. target \in Chain /\ Current \in Fn /\ target' = target /\ target # NoChain /\ present' = present
    BY <1>0, <1>6, Graphs DEF Rollback, Planning, Current, TypeOK
  <2>2. \A j \in Instance : inst'[j].up => inst[j].up
    <3>1. ASSUME NEW i \in Instance, Release(i, Demand[target][Current]), NEW j \in Instance
          PROVE  inst'[j].up = inst[j].up
      BY <1>0, <3>1 DEF Release, TypeOK, InstanceState
    <3>2. assign[target][Current] \in Instance \cup {NoInstance}
      BY <1>0, <2>1 DEF TypeOK
    <3>3. QED
      BY <1>6, <3>1, <3>2 DEF Rollback
  <2>3. \A f \in Fn : assign'[target][f] \in {assign[target][f], NoInstance}
    BY <1>0, <1>6, <2>1 DEF Rollback, TypeOK
  <2>4. QED
    BY <1>0, <1>6, <2>1, <2>2, <2>3 DEF Rollback, DirectoryCurrent
<1>7. CASE Reject
  BY <1>0, <1>7 DEF Reject, DirectoryCurrent
<1>8. ASSUME NEW from, NEW to \in Phases \ {"submit", "plan", "rollback"}, Sync(from, to)
      PROVE  DirectoryCurrent'
  BY <1>8 DEF Sync, DirectoryCurrent
<1>9. CASE Loop \/ CreateTasks \/ ApplyDecisions \/ Leave \/ Audit \/ Advance \/ StepRaises
           \/ MarkUnfinished
  BY <1>9 DEF Loop, CreateTasks, ApplyDecisions, Leave, Audit, Advance, StepRaises, MarkUnfinished,
              DirectoryCurrent
<1>10. CASE Halt \/ UNCHANGED vars
  BY <1>0, <1>10 DEF Halt, vars, planning, DirectoryCurrent
<1>11. QED
  BY <1>1, <1>2, <1>3, <1>4, <1>5, <1>6, <1>7, <1>8, <1>9, <1>10 DEF Next, Plan, Phases

-----------------------------------------------------------------------------
(***************************************************************************)
(* The theorems.                                                           *)
(***************************************************************************)

\* The initial states satisfy the invariant.
LEMMA InitInv == Init => IInv
<1> SUFFICES ASSUME Init PROVE IInv
  OBVIOUS
<1> USE DEF Init
<1>1. TypeOK
  BY DEF TypeOK, ChainState, TaskState, InstanceState, NoTask, Phases
<1>2. \A c \in Chain : \A f \in Fn : task[c][f].status = "none"
  BY DEF NoTask
<1>3. Planning /\ DirectoryCurrent
  BY DEF Planning, DirectoryCurrent
<1>4. Spawned /\ ListsRead
  BY <1>2 DEF Spawned, ListsRead
<1>5. Timely /\ Punctual /\ Concluded
  BY <1>2 DEF Timely, Punctual, Concluded, Running, PendingStatus, ActiveStatus
<1>6. QED
  BY <1>1, <1>3, <1>4, <1>5 DEF IInv

\* The invariant is inductive.
LEMMA NextInv == IInv /\ [Next]_vars => IInv'
BY NextTyped, PlanningKept, SpawnedKept, ListsReadKept, TimelyKept, PunctualKept,
   ConcludedKept, DirectoryCurrentKept DEF IInv

\* The chains, the planner, the tasks and the clocks satisfy the invariant in
\* every state of every deployment.
THEOREM Invariance == Spec => []IInv
BY InitInv, NextInv, PTL DEF Spec

\* Every variable has its type.
THEOREM TypeCorrect == Spec => []TypeOK
<1>1. IInv => TypeOK
  BY DEF IInv
<1>2. QED
  BY <1>1, Invariance, PTL

\* The completed functions of a chain: each was placed by the planner and
\* follows its predecessors.
Closed ==
  \A c \in Chain :
    /\ completed[c] \subseteq Functions[c]
    /\ \A f \in completed[c] :
         Predecessors(c, f) \subseteq completed[c] /\ assign[c][f] # NoInstance

\* The completed functions are closed under predecessors.
LEMMA CompletedClosed == IInv => Closed
<1>1. ASSUME IInv, NEW c \in Chain, NEW f \in completed[c]
      PROVE  /\ f \in Functions[c] /\ Predecessors(c, f) \subseteq completed[c]
             /\ assign[c][f] # NoInstance
  <2>1. f \in Fn
    BY <1>1 DEF IInv, TypeOK
  <2>2. task[c][f].status \in {"done", "failed"}
    BY <1>1, <2>1 DEF IInv, ListsRead
  <2>3. QED
    BY <1>1, <2>1, <2>2 DEF IInv, Spawned
<1>2. QED
  BY <1>1 DEF Closed

\* A chain that succeeded is complete.
LEMMA SuccessComplete == IInv => SuccessIsComplete
<1> SUFFICES ASSUME IInv, NEW c \in Chain, chain[c].status = "succeeded"
             PROVE  /\ completed[c] = Functions[c]
                    /\ \A f \in Functions[c] : assign[c][f] # NoInstance
  BY DEF SuccessIsComplete
<1>1. Terminals(c) \subseteq completed[c]
  BY DEF IInv, Concluded
<1>2. Functions[c] \subseteq completed[c]
  BY <1>1, CompletedClosed, LastFunctionsSuffice DEF Closed
<1>3. QED
  BY <1>2, CompletedClosed DEF Closed

\* The bridge looks at the last functions of a chain only, yet a chain that
\* succeeds has run every function, each after its predecessors: the graph has
\* no cycle and a task is created after the predecessors completed.
THEOREM SuccessTheorem == Spec => []SuccessIsComplete
BY SuccessComplete, Invariance, PTL

\* A task is pending only until the deadline of its function, shorter or longer
\* than that of its chain; one that is created later than that, only in the
\* step that begins with its creation.
THEOREM TasksStopTheorem == Spec => []TasksStopInTime
<1>1. ASSUME IInv, NEW c \in Chain, NEW f \in Fn, task[c][f].status \in PendingStatus
      PROVE  \/ now <= chain[c].submit + EffectiveDeadline(c, f)
             \/ now = task[c][f].due /\ now <= chain[c].submit + Deadline[c]
  <2>1. now <= task[c][f].due
    BY <1>1 DEF IInv, Timely
  <2>2. \/ task[c][f].due <= chain[c].submit + EffectiveDeadline(c, f)
        \/ task[c][f].due = now /\ now <= chain[c].submit + Deadline[c]
    BY <1>1 DEF IInv, Punctual
  <2>3. /\ now \in Nat /\ task[c][f].due \in Nat /\ chain[c].submit \in Nat
        /\ EffectiveDeadline(c, f) \in Nat
    BY <1>1, EffectiveTyped DEF IInv, TypeOK, ChainState, TaskState
  <2>4. QED
    BY <2>1, <2>2, <2>3
<1>2. IInv => TasksStopInTime
  BY <1>1 DEF TasksStopInTime
<1>3. QED
  BY <1>2, Invariance, PTL

\* Once the lists were read, a running chain has no failed function but one
\* that had been done before.
THEOREM FailureTheorem == Spec => []FailureEndsChain
<1>1. ASSUME IInv PROVE FailureEndsChain
  <2>1. ASSUME NEW c \in Chain, NEW f \in Fn, Running(c), ~Unsynchronised, task[c][f].status = "failed"
        PROVE  f \in completed[c]
    <3>1. <<c, f>> \in processed
      BY <1>1, <2>1 DEF IInv, ListsRead
    <3>2. QED
      BY <1>1, <2>1, <3>1 DEF IInv, ListsRead
  <2>2. \A c \in Chain : Functions[c] \subseteq Fn
    BY Graphs DEF Functions
  <2>3. QED
    BY <2>1, <2>2 DEF FailureEndsChain
<1>2. QED
  BY <1>1, Invariance, PTL

\* A chain that runs after a synchronisation is within its deadline.
THEOREM RunningInTimeTheorem == Spec => []RunningInTime
<1>1. IInv => RunningInTime
  BY DEF IInv, Timely, RunningInTime
<1>2. QED
  BY <1>1, Invariance, PTL

\* A chain is accepted only onto instances whose nodes are present.
THEOREM AcceptedTheorem == Spec => AcceptedOnPresent
<1>1. ASSUME IInv, [Next]_vars, NEW c \in Chain,
             decision[c] # decision'[c], decision'[c] = "accepted",
             NEW f \in Functions[c], assign'[c][f] # NoInstance
      PROVE  HostOf[assign'[c][f]] \in present'
  <2>0. TypeOK /\ Planning /\ f \in Fn
    BY <1>1, Graphs DEF IInv, Functions
  <2>1. CASE Accept
    <3>1. c = target /\ UNCHANGED <<assign, present>> /\ phase = "plan"
      BY <1>1, <2>0, <2>1 DEF Accept, At, TypeOK
    <3>2. QED
      BY <1>1, <2>0, <2>1, <3>1 DEF Accept, IInv, DirectoryCurrent
  <2>2. CASE Reject
    BY <1>1, <2>0, <2>2 DEF Reject, TypeOK
  <2>3. CASE decision' = decision
    BY <1>1, <2>3
  <2>4. QED
    BY <1>1, <2>1, <2>2, <2>3
       DEF Next, Plan, Loop, Sync, SyncInstances, Submit, StartPlan, PlaceFunction, SkipOptional,
           NoCandidate, Rollback, CreateTasks, ApplyDecisions, Leave, Audit, Advance, StepRaises,
           MarkUnfinished, Halt, vars, planning
<1>2. IInv /\ [Next]_vars =>
        [\A c \in Chain : decision[c] # decision'[c] /\ decision'[c] = "accepted" =>
           \A f \in Functions[c] : assign'[c][f] # NoInstance => HostOf[assign'[c][f]] \in present']_vars
  BY <1>1
<1>3. QED
  BY <1>2, Invariance, PTL DEF Spec, AcceptedOnPresent

-----------------------------------------------------------------------------
(* The chains implement their contract. *)

\* A chain moves from pending to running and from running to its end.
LEMMA StatusMoves ==
  ASSUME IInv, [Next]_vars, NEW c \in Chain
  PROVE  \/ chain'[c].status = chain[c].status
         \/ chain[c].status = "pending" /\ chain'[c].status = "running"
         \/ chain[c].status = "running" /\ chain'[c].status \in {"failed", "timed_out", "succeeded"}
<1> DEFINE Goal == \/ chain'[c].status = chain[c].status
                   \/ chain[c].status = "pending" /\ chain'[c].status = "running"
                   \/ /\ chain[c].status = "running"
                      /\ chain'[c].status \in {"failed", "timed_out", "succeeded"}
<1>0. TypeOK /\ Planning /\ chain[c] \in ChainState
  BY DEF IInv, TypeOK
<1>1. ASSUME NEW from \in Phases, NEW to \in Phases, Sync(from, to) PROVE Goal
  BY <1>0, <1>1, SyncReads, ConclusionMeans DEF Running
<1>2. CASE Submit
  BY <1>0, <1>2 DEF Submit, ChainState
<1>3. CASE Plan
  BY <1>0, <1>3, PlanDecides DEF Running
<1>4. CASE MarkUnfinished
  <2>1. chain'[c] = chain[c] \/ (Unfinished(c) /\ chain'[c] = Mark(chain[c], "timed_out"))
    BY <1>4 DEF MarkUnfinished
  <2>2. QED
    BY <1>0, <2>1, MarkKeeps DEF Unfinished, Running
<1>5. CASE Loop \/ SyncInstances \/ CreateTasks \/ ApplyDecisions \/ Leave \/ Audit \/ Advance
           \/ StepRaises \/ Halt \/ UNCHANGED vars
  BY <1>5 DEF Loop, SyncInstances, CreateTasks, ApplyDecisions, Leave, Audit, Advance, StepRaises, Halt, vars
<1>6. QED
  BY <1>1, <1>2, <1>3, <1>4, <1>5 DEF Next, Phases

\* A function is completed after its predecessors.
LEMMA CompletedMoves ==
  ASSUME IInv, [Next]_vars, NEW c \in Chain
  PROVE  /\ completed[c] \subseteq completed'[c]
         /\ \A f \in completed'[c] \ completed[c] : Predecessors(c, f) \subseteq completed[c]
<1> DEFINE Goal == /\ completed[c] \subseteq completed'[c]
                   /\ \A f \in completed'[c] \ completed[c] : Predecessors(c, f) \subseteq completed[c]
<1>0. TypeOK /\ Planning
  BY DEF IInv
<1>1. ASSUME NEW from \in Phases, NEW to \in Phases, Sync(from, to) PROVE Goal
  <2>1. completed'[c] = completed[c] \cup {f \in Fn : <<c, f>> \in Unread("done")}
    BY <1>1 DEF Sync, Read
  <2>2. \A f \in Fn : <<c, f>> \in Unread("done") => task[c][f].status = "done"
    BY DEF Unread
  <2>3. QED
    BY <2>1, <2>2 DEF IInv, Spawned
<1>2. CASE Plan
  BY <1>0, <1>2, PlanDecides
<1>3. CASE Loop \/ SyncInstances \/ Submit \/ CreateTasks \/ ApplyDecisions \/ Leave \/ Audit
           \/ Advance \/ StepRaises \/ MarkUnfinished \/ Halt \/ UNCHANGED vars
  BY <1>3 DEF Loop, SyncInstances, Submit, CreateTasks, ApplyDecisions, Leave, Audit, Advance, StepRaises,
              MarkUnfinished, Halt, vars
<1>4. QED
  BY <1>1, <1>2, <1>3 DEF Next, Phases

\* A step of the chains is a step of the contract or leaves it alone.
LEMMA StepImplements ==
  IInv /\ IInv' /\ [Next]_vars =>
    [Contract!Next]_<<[c \in Chain |-> chain[c].status], completed>>
<1> SUFFICES ASSUME IInv, IInv', [Next]_vars PROVE Contract!Next
  OBVIOUS
<1>1. [c \in Chain |-> chain'[c].status] \in
        [Chain -> {"pending", "running", "succeeded", "failed", "timed_out"}]
  BY DEF IInv, TypeOK, ChainState
<1>2. DOMAIN completed' = Chain
  BY DEF IInv, TypeOK
<1>a. Closed'
  BY CompletedClosed, PTL
<1>b. SuccessIsComplete'
  BY SuccessComplete, PTL
<1>3. ASSUME NEW c \in Chain PROVE Contract!Deliver(c)
  <2>1. completed'[c] \subseteq Functions[c]
    BY <1>a DEF Closed
  <2>2. \A f \in completed'[c] : f \in Fn
    BY DEF IInv, TypeOK
  <2>3. QED
    BY <2>1, <2>2, CompletedMoves DEF Contract!Deliver
<1>4. ASSUME NEW c \in Chain PROVE Contract!Progress(c)
  <2>1. chain'[c].status = "succeeded" => completed'[c] = Functions[c]
    BY <1>b DEF SuccessIsComplete
  <2>2. QED
    BY <2>1, StatusMoves DEF Contract!Progress
<1>5. QED
  BY <1>1, <1>2, <1>3, <1>4 DEF Contract!Next, Contract!Verdict

\* LASDM keeps the contract of the chains: verdicts are final, functions are
\* delivered in the order of the graph, and success means all of them.
THEOREM ContractTheorem == Spec => KeepsContract
<1>1. Init => Contract!Init
  BY DEF Init, Contract!Init
<1>2. QED
  BY <1>1, StepImplements, Invariance, PTL DEF Spec, KeepsContract, Contract!Spec

=============================================================================
