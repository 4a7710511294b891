------------------------- MODULE ChainLedgerProofs -------------------------
(***************************************************************************)
(* More proofs about ServiceChain: the second of the two synchronisations  *)
(* between two steps changes nothing, and the reservations of every        *)
(* instance are those of the functions planned onto it.                    *)
(***************************************************************************)
EXTENDS ServiceChainProofs

-----------------------------------------------------------------------------
(* The second synchronisation. *)

\* Once the lists were read, a chain that runs lacks one of its last functions.
Lacking ==
  \A c \in Chain : Running(c) /\ ~Unsynchronised => ~(Terminals(c) \subseteq completed[c])

\* Every chain has a last function.
LEMMA TerminalsExist ==
  ASSUME NEW c \in Chain
  PROVE  Terminals(c) # {}
<1>1. Order[c] \in Seq(Fn) /\ Order[c] # <<>>
  BY Graphs
<1>2. 1 \in DOMAIN Order[c]
  BY <1>1
<1>3. Functions[c] # {}
  BY <1>2 DEF Functions
<1>4. Terminals(c) = {} => Functions[c] \subseteq {}
  BY LastFunctionsSuffice
<1>5. QED
  BY <1>3, <1>4

\* A chain that goes on after a synchronisation has a last function to come.
LEMMA SyncLacking ==
  ASSUME TypeOK, NEW from \in Phases, NEW to \in Phases, Sync(from, to),
         NEW c \in Chain, Running(c)'
  PROVE  ~(Terminals(c) \subseteq completed'[c])
<1>1. Running(c)
  BY SyncReads DEF Running
<1>2. "running" \in Conclusion(c, Unread("failed"), Read(Unread("done")))
  BY <1>1, SyncReads DEF Running
<1>3. completed' = Read(Unread("done"))
  BY DEF Sync
<1>4. QED
  BY <1>2, <1>3 DEF Conclusion, FailureStatuses, FailureStatus

\* Every step keeps the running chains lacking.
LEMMA LackingKept == IInv /\ Lacking /\ [Next]_vars => Lacking'
<1> SUFFICES ASSUME IInv, Lacking, [Next]_vars, NEW c \in Chain, Running(c)', ~Unsynchronised'
             PROVE  ~(Terminals(c) \subseteq completed'[c])
  BY DEF Lacking
<1>0. TypeOK /\ Planning
  BY DEF IInv
<1>1. ASSUME NEW from \in Phases, NEW to \in Phases, Sync(from, to)
      PROVE  ~(Terminals(c) \subseteq completed'[c])
  BY <1>0, <1>1, SyncLacking
<1>2. CASE Submit
  <2>1. completed' = completed /\ ~Unsynchronised
    BY <1>2 DEF Submit, At, Unsynchronised
  <2>2. CASE Running(c)
    BY <2>1, <2>2 DEF Lacking
  <2>3. CASE ~Running(c)
    <3>1. chain[c].status = "pending"
      BY <1>0, <1>2, <2>3 DEF Submit, Running, TypeOK, ChainState
    <3>2. \A f \in Fn : task[c][f].status = "none"
      BY <3>1 DEF IInv, Spawned
    <3>3. completed[c] = {}
      BY <1>0, <3>2 DEF IInv, ListsRead, TypeOK
    <3>4. QED
      BY <2>1, <3>3, TerminalsExist
  <2>4. QED
    BY <2>2, <2>3
<1>3. CASE Plan
  <2>1. completed' = completed /\ ~Unsynchronised /\ Running(c)
    BY <1>0, <1>3, PlanDecides DEF At, Unsynchronised, Running
  <2>2. QED
    BY <2>1 DEF Lacking
<1>4. CASE MarkUnfinished
  <2>1. completed' = completed /\ ~Unsynchronised /\ Running(c)
    BY <1>0, <1>4 DEF MarkUnfinished, Mark, Terminal, Unfinished, Running, At, Unsynchronised,
       TypeOK, ChainState
  <2>2. QED
    BY <2>1 DEF Lacking
<1>5. CASE Loop \/ SyncInstances \/ CreateTasks \/ ApplyDecisions \/ Leave \/ Audit
           \/ Advance \/ StepRaises \/ Halt \/ UNCHANGED vars
  <2>1. completed' = completed /\ chain' = chain /\ ~Unsynchronised
    BY <1>5 DEF Loop, SyncInstances, CreateTasks, ApplyDecisions, Leave, Audit, Advance,
       StepRaises, Halt, vars, At, Unsynchronised
  <2>2. QED
    BY <2>1 DEF Lacking, Running
<1>6. QED
  BY <1>1, <1>2, <1>3, <1>4, <1>5 DEF Next, Phases

\* The lists hold nothing unread at the second synchronisation, no chain is
\* overdue, and none has all its last functions.
LEMMA SecondSyncFindsNothing ==
  ASSUME IInv, Lacking, NEW from \in {"sync", "final"}, NEW to \in Phases, Sync(from, to)
  PROVE  chain' = chain /\ completed' = completed
<1>1. TypeOK /\ phase = from /\ ~Unsynchronised
  BY DEF IInv, Sync, At, Unsynchronised
<1>2. Unread("done") = {} /\ Unread("failed") = {}
  BY <1>1 DEF Unread, IInv, ListsRead
<1>3. Read(Unread("done")) = completed
  BY <1>1, <1>2 DEF Read, TypeOK
<1>4. ASSUME NEW c \in Chain, Running(c)
      PROVE  Conclusion(c, Unread("failed"), Read(Unread("done"))) = {"running"}
  <2>1. FailureStatuses(c, Unread("failed")) = {}
    BY <1>2 DEF FailureStatuses
  <2>2. now <= chain[c].submit + Deadline[c]
    BY <1>1, <1>4 DEF IInv, Timely
  <2>3. now \in Nat /\ chain[c].submit \in Nat /\ Deadline[c] \in Nat
    BY <1>1, Graphs DEF TypeOK, ChainState
  <2>4. ~Overdue(c)
    BY <2>2, <2>3 DEF Overdue
  <2>5. ~(Terminals(c) \subseteq completed[c])
    BY <1>1, <1>4 DEF Lacking
  <2>6. QED
    BY <1>3, <2>1, <2>4, <2>5 DEF Conclusion
<1>5. PICK status \in [Chain -> {"failed", "timed_out", "succeeded", "running"}] :
        /\ \A c \in Chain : Running(c) => status[c] \in
             Conclusion(c, Unread("failed"), Read(Unread("done")))
        /\ \A c \in Chain : ~Running(c) => status[c] = "running"
        /\ chain' = [c \in Chain |-> Mark(chain[c], status[c])]
  BY DEF Sync
<1>6. \A c \in Chain : status[c] = "running"
  BY <1>4, <1>5
<1>7. \A c \in Chain : Mark(chain[c], status[c]) = chain[c]
  BY <1>6 DEF Mark, Terminal
<1>8. chain' = chain
  BY <1>1, <1>5, <1>7 DEF TypeOK
<1>9. completed' = completed
  BY <1>3 DEF Sync
<1>10. QED
  BY <1>8, <1>9

\* The bridge reads the task lists before and after every step of the
\* simulation.  What it reads before the step it has read already: no chain
\* ends and no function completes then, for any chains and deployment.
THEOREM SecondSyncTheorem == Spec => SecondSyncSilent
<1>1. Init => Lacking
  BY DEF Init, Lacking, Running
<1>2. IInv /\ Lacking /\ [Next]_vars => Lacking'
  BY LackingKept
<1>3. ASSUME IInv, Lacking, [Next]_vars, At("sync") \/ At("final")
      PROVE  chain' = chain /\ completed' = completed
  <2>1. CASE Sync("sync", "instances") \/ Sync("final", "mark")
    BY <1>3, <2>1, SecondSyncFindsNothing DEF Phases
  <2>2. CASE UNCHANGED vars
    BY <2>2 DEF vars
  <2>3. Planning
    BY <1>3 DEF IInv
  <2>4. ~Plan
    BY <1>3 DEF Plan, StartPlan, PlaceFunction, Placing, SkipOptional, NoCandidate, Accept,
       Rollback, Reject, At
  <2>5. QED
    BY <1>3, <2>1, <2>2, <2>4 DEF Next, Loop, Sync, SyncInstances, Submit, CreateTasks,
       ApplyDecisions, Leave, Audit, Advance, StepRaises, MarkUnfinished, Halt, At
<1>4. IInv /\ Lacking /\ [Next]_vars =>
        [At("sync") \/ At("final") => chain' = chain /\ completed' = completed]_vars
  BY <1>3
<1>5. QED
  BY <1>1, <1>2, <1>4, Invariance, PTL DEF Spec, SecondSyncSilent

-----------------------------------------------------------------------------
(* The reservations. *)

UnitsOf(S) == UNION {Units(x) : x \in S}

LEMMA NumberedCopies ==
  ASSUME NEW x, NEW n \in Nat
  PROVE  IsFiniteSet({x} \X (1 .. n)) /\ Cardinality({x} \X (1 .. n)) = n
<1>1. IsFiniteSet(1 .. n) /\ Cardinality(1 .. n) = IF 1 > n THEN 0 ELSE n - 1 + 1
  BY FS_Interval
<1>2. IsFiniteSet({x}) /\ Cardinality({x}) = 1
  BY FS_Singleton
<1>3. IsFiniteSet({x} \X (1 .. n)) /\ Cardinality({x} \X (1 .. n)) = 1 * Cardinality(1 .. n)
  BY <1>1, <1>2, FS_Product
<1>4. Cardinality(1 .. n) = n
  BY <1>1
<1>5. QED
  BY <1>3, <1>4

\* The demand of a function, unit by unit, is counted by its units.
LEMMA UnitsCounted ==
  ASSUME NEW x \in Chain \X Fn
  PROVE  /\ Demand[x[1]][x[2]] \in Nat
         /\ IsFiniteSet(Units(x))
         /\ Cardinality(Units(x)) = Demand[x[1]][x[2]]
<1>1. Demand[x[1]][x[2]] \in Nat
  BY Graphs
<1>2. QED
  BY <1>1, NumberedCopies DEF Units

\* There are finitely many units.
LEMMA UnitsFinite ==
  ASSUME NEW S \in SUBSET (Chain \X Fn)
  PROVE  IsFiniteSet(UnitsOf(S))
<1> DEFINE T == {Units(x) : x \in S}
           units == [x \in S |-> Units(x)]
<1>1. IsFiniteSet(Chain \X Fn)
  BY Deployment, FS_Product
<1>2. IsFiniteSet(S)
  BY <1>1, FS_Subset
<1>3. units \in Surjection(S, T)
  BY DEF Surjection
<1>4. IsFiniteSet(T)
  BY <1>2, <1>3, FS_Surjection
<1>5. \A U \in T : IsFiniteSet(U)
  BY UnitsCounted
<1>6. QED
  BY <1>4, <1>5, FS_UNION DEF UnitsOf

\* One function more on an instance adds its demand.
LEMMA UnitsAdded ==
  ASSUME NEW S \in SUBSET (Chain \X Fn), NEW x \in Chain \X Fn, x \notin S
  PROVE  /\ Cardinality(UnitsOf(S)) \in Nat
         /\ Cardinality(UnitsOf(S \cup {x})) = Cardinality(UnitsOf(S)) + Demand[x[1]][x[2]]
<1>1. UnitsOf(S \cup {x}) = UnitsOf(S) \cup Units(x)
  BY DEF UnitsOf
<1>2. UnitsOf(S) \cap Units(x) = {}
  BY DEF UnitsOf, Units
<1>3. IsFiniteSet(UnitsOf(S)) /\ IsFiniteSet(Units(x))
  BY UnitsFinite, UnitsCounted
<1>4. /\ Cardinality(UnitsOf(S) \cup Units(x)) =
           Cardinality(UnitsOf(S)) + Cardinality(Units(x)) - Cardinality(UnitsOf(S) \cap Units(x))
      /\ Cardinality(UnitsOf(S)) \in Nat
  BY <1>3, FS_Union, FS_CardinalityType
<1>5. Cardinality(UnitsOf(S) \cap Units(x)) = 0
  BY <1>2, FS_EmptySet
<1>6. Cardinality(Units(x)) = Demand[x[1]][x[2]] /\ Demand[x[1]][x[2]] \in Nat
  BY UnitsCounted
<1>7. Cardinality(UnitsOf(S) \cup Units(x)) = Cardinality(UnitsOf(S)) + Demand[x[1]][x[2]]
  BY <1>4, <1>5, <1>6
<1>8. Cardinality(UnitsOf(S \cup {x})) = Cardinality(UnitsOf(S) \cup Units(x))
  BY <1>1
<1>9. QED
  BY <1>4, <1>7, <1>8

\* While a chain is planned, the functions the plan has not reached, and those
\* it has rolled back, are on no instance.
Ahead ==
  target # NoChain => \A k \in DOMAIN Order[target] :
    (phase = "plan" /\ k >= position) \/ (phase = "rollback" /\ k > position) =>
      assign[target][Order[target][k]] = NoInstance

\* The functions are placed one after the other and withdrawn in reverse.
LEMMA AheadKept == IInv /\ Ahead /\ [Next]_vars => Ahead'
<1> SUFFICES ASSUME IInv, Ahead, [Next]_vars, target' # NoChain,
                    NEW k \in DOMAIN Order[target'],
                    \/ phase' = "plan" /\ k >= position'
                    \/ phase' = "rollback" /\ k > position'
             PROVE  assign'[target'][Order[target'][k]] = NoInstance
  BY DEF Ahead
<1> USE DEF At
<1>0. TypeOK /\ Planning
  BY DEF IInv
<1>1. ASSUME NEW c \in Chain, StartPlan(c)
      PROVE  assign'[target'][Order[target'][k]] = NoInstance
  <2>1. target = NoChain /\ target' = c /\ assign' = assign /\ decision[c] = "none"
    BY <1>1 DEF StartPlan, Undecided
  <2>2. Order[c][k] \in Fn
    BY <2>1, Graphs
  <2>3. QED
    BY <1>0, <2>1, <2>2, Deployment DEF Planning
<1>2. ASSUME Placing
      PROVE  /\ target \in Chain /\ position \in DOMAIN Order[target]
             /\ Order[target] \in Seq(Fn) /\ DOMAIN Order[target] \subseteq Nat
             /\ Current \in Fn
  BY <1>0, <1>2, Graphs DEF Placing, Current, TypeOK
<1>3. ASSUME NEW i \in Instance, PlaceFunction(i)
      PROVE  assign'[target'][Order[target'][k]] = NoInstance
  <2>1. /\ Placing /\ target' = target /\ position' = position + 1 /\ phase' = phase
        /\ assign' = [assign EXCEPT ![target][Current] = i]
    BY <1>3 DEF PlaceFunction
  <2>2. k > position /\ k \in Nat
    BY <1>2, <2>1 DEF Placing
  <2>3. Order[target][k] # Current
    BY <1>2, <2>1, <2>2, Graphs DEF Current
  <2>4. assign[target][Order[target][k]] = NoInstance
    BY <1>2, <2>1, <2>2 DEF Ahead, Placing
  <2>5. QED
    BY <1>0, <1>2, <2>1, <2>3, <2>4 DEF TypeOK
<1>4. CASE SkipOptional \/ NoCandidate
  <2>1. Placing /\ target' = target /\ assign' = assign
    BY <1>4 DEF SkipOptional, NoCandidate
  <2>2. k >= position
    BY <1>2, <1>4, <2>1 DEF SkipOptional, NoCandidate, Placing
  <2>3. QED
    BY <2>1, <2>2 DEF Ahead, Placing
<1>5. CASE Rollback
  <2>1. /\ target' = target /\ target \in Chain /\ position \in 1 .. Len(Order[target])
        /\ position' = position - 1 /\ phase = "rollback" /\ phase' = "rollback"
    BY <1>0, <1>5, Graphs DEF Rollback, Planning, TypeOK
  <2>2. Current \in Fn /\ Order[target][k] \in Fn /\ DOMAIN Order[target] \subseteq Nat
    BY <2>1, Graphs DEF Current
  <2>3. assign'[target][Current] = NoInstance
    BY <1>0, <1>5, <2>1, <2>2 DEF Rollback, TypeOK
  <2>4. k # position => assign[target][Order[target][k]] = NoInstance
    BY <2>1, <2>2 DEF Ahead
  <2>5. assign' = assign \/ assign' = [assign EXCEPT ![target][Current] = NoInstance]
    BY <1>5 DEF Rollback
  <2>6. QED
    BY <1>0, <2>1, <2>2, <2>3, <2>4, <2>5 DEF Current, TypeOK
<1>6. CASE Accept \/ Reject
  BY <1>6 DEF Accept, Reject
<1>7. CASE UNCHANGED vars
  BY <1>7 DEF vars, planning, Ahead
<1>8. ASSUME ~Plan, ~(UNCHANGED vars)
      PROVE  FALSE
  <2>1. phase \notin {"plan", "rollback"} \/ CreateTasks
    BY <1>8 DEF Next, Loop, Sync, SyncInstances, Submit, ApplyDecisions, Leave, Audit, Advance,
       StepRaises, MarkUnfinished, Halt
  <2>2. target = NoChain
    BY <1>0, <2>1 DEF Planning, CreateTasks
  <2>3. target' = target
    BY <1>8 DEF Next, Loop, Sync, SyncInstances, Submit, CreateTasks, ApplyDecisions, Leave, Audit,
       Advance, StepRaises, MarkUnfinished, Halt, planning
  <2>4. QED
    BY <2>2, <2>3
<1>9. QED
  BY <1>1, <1>3, <1>4, <1>5, <1>6, <1>7, <1>8 DEF Plan

\* A function placed on an instance takes its demand there and nothing elsewhere.
LEMMA PlaceBalances ==
  ASSUME TypeOK, ReservationsBalance, NEW c \in Chain, NEW f \in Fn, NEW i \in Instance,
         assign[c][f] = NoInstance, Demand[c][f] <= Capacity[i] - inst[i].used,
         Reserve(i, Demand[c][f]), assign' = [assign EXCEPT ![c][f] = i]
  PROVE  ReservationsBalance'
<1>1. \A j \in Instance : PlannedOnto(j)' = IF j = i THEN PlannedOnto(i) \cup {<<c, f>>}
                                            ELSE PlannedOnto(j)
  BY Deployment DEF PlannedOnto, TypeOK
<1>2. <<c, f>> \notin PlannedOnto(i)
  BY Deployment DEF PlannedOnto
<1>3. /\ Cardinality(UnitsOf(PlannedOnto(i))) \in Nat
      /\ Cardinality(UnitsOf(PlannedOnto(i) \cup {<<c, f>>}))
           = Cardinality(UnitsOf(PlannedOnto(i))) + Demand[c][f]
  BY <1>2, UnitsAdded DEF PlannedOnto
<1>4. \A j \in Instance : inst'[j].used = IF j = i THEN inst[i].used + Demand[c][f]
                                          ELSE inst[j].used
  BY DEF Reserve, InstanceState, TypeOK
<1>5. \A j \in Instance : Claimed(j) = UnitsOf(PlannedOnto(j)) /\ Claimed(j)' = UnitsOf(PlannedOnto(j)')
  BY DEF Claimed, UnitsOf
<1>6. Demand[c][f] \in Nat /\ Capacity[i] \in Nat /\ inst[i].used \in Nat
  <2>1. Demand[c][f] \in Nat /\ Capacity[i] \in Nat
    BY Graphs, Deployment
  <2>2. inst[i] \in InstanceState
    BY DEF TypeOK
  <2>3. QED
    BY <2>1, <2>2 DEF InstanceState
<1>7. ASSUME NEW j \in Instance
      PROVE  inst'[j].used = Cardinality(Claimed(j)') /\ inst'[j].used <= Capacity[j]
  <2>1. CASE j = i
    <3>1. Claimed(i)' = UnitsOf(PlannedOnto(i) \cup {<<c, f>>})
      BY <1>1, <1>5
    <3>2. inst[i].used = Cardinality(UnitsOf(PlannedOnto(i)))
      BY <1>5 DEF ReservationsBalance
    <3>3. inst'[i].used = Cardinality(Claimed(i)')
      BY <1>3, <1>4, <3>1, <3>2
    <3>4. inst'[i].used <= Capacity[i]
      BY <1>4, <1>6
    <3>5. QED
      BY <2>1, <3>3, <3>4
  <2>2. CASE j # i
    BY <1>1, <1>4, <1>5, <2>2 DEF ReservationsBalance
  <2>3. QED
    BY <2>1, <2>2
<1>8. QED
  BY <1>7 DEF ReservationsBalance

\* A function withdrawn from an instance gives its demand back: the floor at
\* zero in Release is never reached.
LEMMA WithdrawBalances ==
  ASSUME TypeOK, ReservationsBalance, NEW c \in Chain, NEW f \in Fn, NEW i \in Instance,
         assign[c][f] = i, Release(i, Demand[c][f]),
         assign' = [assign EXCEPT ![c][f] = NoInstance]
  PROVE  ReservationsBalance'
<1> DEFINE S == PlannedOnto(i) \ {<<c, f>>}
<1>1. \A j \in Instance : PlannedOnto(j)' = IF j = i THEN S ELSE PlannedOnto(j)
  BY Deployment DEF PlannedOnto, TypeOK
<1>2. <<c, f>> \in PlannedOnto(i) /\ S \cup {<<c, f>>} = PlannedOnto(i)
  BY DEF PlannedOnto
<1>3. /\ Cardinality(UnitsOf(S)) \in Nat
      /\ Cardinality(UnitsOf(PlannedOnto(i))) = Cardinality(UnitsOf(S)) + Demand[c][f]
  <2>1. S \in SUBSET (Chain \X Fn) /\ <<c, f>> \in Chain \X Fn /\ <<c, f>> \notin S
    BY DEF PlannedOnto
  <2>2. QED
    BY <1>2, <2>1, UnitsAdded
<1>4. \A j \in Instance : Claimed(j) = UnitsOf(PlannedOnto(j)) /\ Claimed(j)' = UnitsOf(PlannedOnto(j)')
  BY DEF Claimed, UnitsOf
<1> HIDE DEF S
<1>5. /\ Demand[c][f] \in Nat /\ Capacity[i] \in Nat
      /\ inst[i].used = Cardinality(UnitsOf(S)) + Demand[c][f] /\ inst[i].used <= Capacity[i]
  BY <1>3, <1>4, Graphs, Deployment DEF ReservationsBalance
<1>6. \A j \in Instance : inst'[j].used = IF j = i THEN Cardinality(UnitsOf(S)) ELSE inst[j].used
  <2>1. \A j \in Instance : inst'[j].used =
          IF j = i THEN (IF inst[i].used > Demand[c][f] THEN inst[i].used - Demand[c][f] ELSE 0)
          ELSE inst[j].used
    BY DEF Release, InstanceState, TypeOK
  <2>2. (IF inst[i].used > Demand[c][f] THEN inst[i].used - Demand[c][f] ELSE 0)
          = Cardinality(UnitsOf(S))
    BY <1>3, <1>5
  <2>3. QED
    BY <2>1, <2>2
<1>7. ASSUME NEW j \in Instance
      PROVE  inst'[j].used = Cardinality(Claimed(j)') /\ inst'[j].used <= Capacity[j]
  <2>1. CASE j = i
    <3>1. Claimed(i)' = UnitsOf(S)
      BY <1>1, <1>4
    <3>2. Cardinality(UnitsOf(S)) <= Capacity[i]
      BY <1>3, <1>5
    <3>3. QED
      BY <1>6, <2>1, <3>1, <3>2
  <2>2. CASE j # i
    BY <1>1, <1>4, <1>6, <2>2 DEF ReservationsBalance
  <2>3. QED
    BY <2>1, <2>2
<1>8. QED
  BY <1>7 DEF ReservationsBalance

\* A step that neither reserves nor releases keeps the balance: a refresh of the
\* directory leaves the reservations alone.
LEMMA StillBalances ==
  ASSUME ReservationsBalance, assign' = assign, \A i \in Instance : inst'[i].used = inst[i].used
  PROVE  ReservationsBalance'
BY DEF ReservationsBalance, Claimed, PlannedOnto

\* Every step keeps the balance.
LEMMA BalanceKept == IInv /\ Ahead /\ ReservationsBalance /\ [Next]_vars => ReservationsBalance'
<1> SUFFICES ASSUME IInv, Ahead, ReservationsBalance, [Next]_vars PROVE ReservationsBalance'
  OBVIOUS
<1>0. TypeOK /\ Planning
  BY DEF IInv
<1>1. ASSUME NEW i \in Instance, PlaceFunction(i) PROVE ReservationsBalance'
  <2>1. /\ target \in Chain /\ position \in DOMAIN Order[target] /\ position \in Nat
        /\ target # NoChain /\ phase = "plan"
    BY <1>0, <1>1 DEF PlaceFunction, Placing, At, TypeOK
  <2>0. Current \in Fn
    BY <2>1, Graphs DEF Current
  <2>2. assign[target][Current] = NoInstance
    BY <2>1 DEF Ahead, Current
  <2>3. Demand[target][Current] <= Capacity[i] - inst[i].used
    BY <1>1 DEF PlaceFunction, Candidates, CanReserve
  <2>4. QED
    BY <1>0, <1>1, <2>0, <2>1, <2>2, <2>3, PlaceBalances DEF PlaceFunction
<1>2. CASE Rollback
  <2>1. target \in Chain /\ Current \in Fn
    BY <1>0, <1>2, Graphs DEF Rollback, Planning, At, Current, TypeOK
  <2>2. CASE assign[target][Current] = NoInstance
    BY <1>2, <2>2, StillBalances DEF Rollback
  <2>3. CASE assign[target][Current] # NoInstance
    <3>1. assign[target][Current] \in Instance
      BY <1>0, <2>1, <2>3 DEF TypeOK
    <3>2. QED
      BY <1>0, <1>2, <2>1, <2>3, <3>1, WithdrawBalances DEF Rollback
  <2>4. QED
    BY <2>2, <2>3
<1>3. CASE SyncInstances
  <2>1. PICK untrusted \in SUBSET present : inst' = [i \in Instance |-> Refreshed(i, untrusted)]
    BY <1>3 DEF SyncInstances
  <2>2. \A i \in Instance : Refreshed(i, untrusted).used = inst[i].used
    BY <1>0 DEF Refreshed, InstanceState, TypeOK
  <2>3. QED
    BY <1>3, <2>1, <2>2, StillBalances DEF SyncInstances, planning
<1>4. ASSUME ~SyncInstances, ~Rollback, \A i \in Instance : ~PlaceFunction(i)
      PROVE  assign' = assign /\ inst' = inst
  BY <1>4 DEF Next, Plan, StartPlan, SkipOptional, NoCandidate, Accept, Reject, Loop, Sync, Submit,
     CreateTasks, ApplyDecisions, Leave, Audit, Advance, StepRaises, MarkUnfinished, Halt, vars,
     planning
<1>5. QED
  BY <1>1, <1>2, <1>3, <1>4, StillBalances

\* Whatever is planned, rejected and rolled back, the resources reserved on an
\* instance are exactly what the functions on it ask for, and within its
\* capacity.
THEOREM ReservationsTheorem == Spec => []ReservationsBalance
<1>1. Init => Ahead /\ ReservationsBalance
  <2> SUFFICES ASSUME Init PROVE Ahead /\ ReservationsBalance
    OBVIOUS
  <2>1. Ahead
    BY DEF Init, Ahead
  <2>2. \A i \in Instance : PlannedOnto(i) = {} /\ inst[i].used = 0
    BY Deployment DEF Init, PlannedOnto
  <2>3. \A i \in Instance : Cardinality(Claimed(i)) = 0
    BY <2>2, FS_EmptySet DEF Claimed
  <2>4. QED
    BY <2>1, <2>2, <2>3, Deployment DEF ReservationsBalance
<1>2. IInv /\ Ahead /\ ReservationsBalance /\ [Next]_vars => Ahead' /\ ReservationsBalance'
  BY AheadKept, BalanceKept
<1>3. QED
  BY <1>1, <1>2, Invariance, PTL DEF Spec

=============================================================================
