----------------------------- MODULE MarlEpisode -----------------------------
(***************************************************************************)
(* Learning on service chains: SemanticTopologyMARLEnv lets the regional   *)
(* agents place the functions that are ready, drives AirFogSim until a     *)
(* task ends, and reports what became of the chains and the functions;     *)
(* the MASAC training loop turns each placement into one transition of the *)
(* replay buffer and credits it, later, with the verdict of its chain and  *)
(* the fate of its function.                                               *)
(*                                                                         *)
(* A training run is a sequence of episodes, each on a fresh environment,  *)
(* over one replay buffer.  AirFogSim, the tasks and the bridge are those  *)
(* of TaskLifecycle and ServiceChain, reduced to what the agents see.      *)
(***************************************************************************)
EXTENDS Integers, SequencesExt

CONSTANTS
  Chain,         \* LASDMServiceChain.sfc_id
  Fn,            \* LASDMSFCNode.node_id
  Order,         \* topological_order of the functions of a chain
  Edges,         \* LASDMServiceChain.edges
  Optional,      \* functions with LASDMSFCNode.optional
  Arrival,       \* context.arrival_time_s
  Deadline,      \* qos.deadline_s, in simulation intervals
  Overriding,    \* functions with a qos_override
  MinTicks,      \* runtime_ticks_per_marl_step
  MaxTicks,      \* runtime_max_ticks_after_action
  MaxSteps,      \* max_steps of an episode
  Episodes,      \* episodes of a training run
  Capacity       \* capacity of the replay buffer

Functions(c) == {Order[c][k] : k \in DOMAIN Order[c]}
Predecessors(c, f) == {e[1] : e \in {x \in Edges[c] : x[2] = f}}
Terminals(c) == {f \in Functions(c) : \A e \in Edges[c] : e[1] # f}

ASSUME TrainingGraphs ==
  /\ IsFiniteSet(Chain) /\ IsFiniteSet(Fn)
  /\ Order \in [Chain -> Seq(Fn) \ {<<>>}]
  /\ \A c \in Chain : \A i, j \in DOMAIN Order[c] : Order[c][i] = Order[c][j] => i = j
  /\ Edges \in [Chain -> SUBSET (Fn \X Fn)]
  /\ Optional \in [Chain -> SUBSET Fn]
  /\ Arrival \in [Chain -> Nat] /\ Deadline \in [Chain -> Nat \ {0}]
  /\ Overriding \in [Chain -> SUBSET Fn]

ASSUME TrainingBounds ==
  /\ MinTicks \in Nat \ {0} /\ MaxTicks \in Nat /\ MaxSteps \in Nat \ {0}
  /\ Episodes \in Nat \ {0} /\ Capacity \in Nat \ {0}

VARIABLES
  episode,   \* the episode of the training loop
  chain,     \* status and submit time; the pending ones are _pending_chain_ids
  decision,  \* who decided LASDMManager.decisions: none, agent or planner
  placed,    \* LASDMDecision.assignments
  task,      \* the AirFogSim task of a function
  offered,   \* functions with candidates in the last observations
  acted,     \* the placement actions of the step
  before,    \* the snapshots step() takes before it acts
  now,       \* env.simulation_time
  ticks,     \* AirFogSim steps of this step
  steps,     \* step_count
  replay,    \* ReplayBuffer._items
  added,     \* ReplayBuffer.total_added
  ofChain,   \* last_transition_by_chain, by transition_id
  ofFn,      \* last_transition_by_decision, by transition_id
  phase      \* what the training loop does next

runtime == <<chain, decision, placed, task, now>>
learning == <<replay, added, ofChain, ofFn>>
vars == <<episode, runtime, offered, acted, before, ticks, steps, learning, phase>>

At(p) == phase = p

Statuses == {"pending", "running", "succeeded", "failed", "timed_out"}
TaskStatuses == {"none", "waiting", "active", "done", "failed", "removed"}
Ended(status) == status \in {"succeeded", "failed", "timed_out"}
Running(c) == chain[c].status = "running"

-----------------------------------------------------------------------------
(***************************************************************************)
(* Arrival and observation.                                                *)
(***************************************************************************)
Due(c, t) == chain[c].status = "pending" /\ Arrival[c] <= t

\* _submit_due_chains
Submitted(r, c, t) ==
  IF Due(c, t) THEN [status |-> "running", submit |-> t] ELSE r

\* _ready_unspawned_nodes, over the tasks t
ReadyUnspawned(c, t) ==
  {f \in Functions(c) : /\ t[c][f] = "none"
                        /\ \A p \in Predecessors(c, f) : t[c][p] = "done"}

\* The functions _candidate_sets_for_agent looks candidates up for.  The
\* controlling agent is chosen by the topology and only its actions are read.
Offerable(c, r, d, t) ==
  IF r[c].status = "running" /\ d[c] = "none" THEN ReadyUnspawned(c, t) ELSE {}

\* The discovery may find no candidate for some of them.
Observations(r, d, t) ==
  {o \in [Chain -> SUBSET Fn] : \A c \in Chain : o[c] \subseteq Offerable(c, r, d, t)}

NoTasks == [c \in Chain |-> [f \in Fn |-> "none"]]
Nothing == [status |-> [c \in Chain |-> "pending"], task |-> NoTasks]
Undecided == [c \in Chain |-> "none"]
Arrivals == [c \in Chain |-> IF Arrival[c] = 0 THEN [status |-> "running", submit |-> 0]
                             ELSE [status |-> "pending", submit |-> 0]]

Init ==
  /\ episode = 1
  /\ chain = Arrivals
  /\ decision = Undecided
  /\ placed = [c \in Chain |-> {}]
  /\ task = NoTasks
  /\ offered \in Observations(Arrivals, Undecided, NoTasks)
  /\ acted = {}
  /\ before = Nothing
  /\ now = 0 /\ ticks = 0 /\ steps = 0
  /\ replay = <<>> /\ added = 0
  /\ ofChain = [c \in Chain |-> 0]
  /\ ofFn = [c \in Chain |-> [f \in Fn |-> 0]]
  /\ phase = "act"

-----------------------------------------------------------------------------
(***************************************************************************)
(* The bridge: sync_from_airfogsim_tasks over the tasks t at time m.  A    *)
(* failed task or the deadline ends a chain; LASDMManager.step then plans  *)
(* every running chain that has no decision; a chain whose last functions  *)
(* are done succeeds.                                                      *)
(***************************************************************************)
Verdicts(c, fresh, t, m) ==
  IF \E f \in Functions(c) : fresh[c][f] # "failed" /\ t[c][f] = "failed"
  THEN {"failed", "timed_out"}
  ELSE IF m - chain[c].submit > Deadline[c] THEN {"timed_out"}
  ELSE IF \A f \in Terminals(c) : t[c][f] = "done" THEN {"succeeded"}
  ELSE {"running"}

\* The statuses the synchronisation may leave; fresh are the tasks as the
\* bridge last read them.
Synchronised(fresh, t, m) ==
  {s \in [Chain -> Statuses] : \A c \in Chain :
     s[c] \in IF Running(c) THEN Verdicts(c, fresh, t, m) ELSE {chain[c].status}}

\* plan_pending
PlannedFor(s, d) ==
  [c \in Chain |-> IF s[c] = "running" /\ d[c] = "none" THEN "planner" ELSE d[c]]

Marked(s) == [c \in Chain |-> [chain[c] EXCEPT !.status = s[c]]]

-----------------------------------------------------------------------------
(***************************************************************************)
(* step(): decode the actions, refuse the chains without a decision,       *)
(* prepare the AirFogSim step.                                             *)
(***************************************************************************)

\* _decode_actions rejects a decision with an instance that has left the
\* directory and one without an action for a ready function that is required.
Refused(c, lost) ==
  c \in lost \/ ~(ReadyUnspawned(c, task) \ Optional[c] \subseteq offered[c])

Acts(c) == Running(c) /\ offered[c] # {}

\* The chain after the actions: rejected decisions fail, and so does a running
\* chain that has no decision at all.
Judged(c, lost) ==
  LET r == Submitted(chain[c], c, now)
  IN  IF \/ Acts(c) /\ Refused(c, lost)
         \/ r.status = "running" /\ ~Acts(c) /\ decision[c] = "none"
      THEN [r EXCEPT !.status = "failed"]
      ELSE r

Act ==
  /\ At("act")
  /\ before' = [status |-> [c \in Chain |-> Submitted(chain[c], c, now).status], task |-> task]
  /\ acted' = {x \in Chain \X Fn : Acts(x[1]) /\ x[2] \in offered[x[1]]}
  /\ decision' = [c \in Chain |-> IF Acts(c) THEN "agent" ELSE decision[c]]
  /\ placed' = [c \in Chain |-> IF Acts(c) THEN offered[c] ELSE placed[c]]
  /\ \E lost \in SUBSET {c \in Chain : Acts(c)} :
       chain' = [c \in Chain |-> Judged(c, lost)]
  /\ offered' = [c \in Chain |-> {}]
  /\ phase' = "prepare"
  /\ UNCHANGED <<episode, task, now, ticks, steps, learning>>

\* create_ready_function_tasks for the running chains
Spawned(c, f) ==
  /\ Running(c) /\ decision[c] # "none"
  /\ f \in placed[c] /\ f \in ReadyUnspawned(c, task)

\* prepare_airfogsim_step: tasks are created, and those the decision places are
\* offloaded unless the adapter finds no way; these stay and are tried again.
Prepare ==
  /\ At("prepare")
  /\ decision' = PlannedFor([c \in Chain |-> chain[c].status], decision)
  /\ \E scheduled \in SUBSET {x \in Chain \X Fn :
                                /\ x[2] \in placed[x[1]]
                                /\ task[x[1]][x[2]] = "waiting" \/ Spawned(x[1], x[2])} :
       task' = [c \in Chain |-> [f \in Fn |->
         IF <<c, f>> \in scheduled THEN "active"
         ELSE IF Spawned(c, f) THEN "waiting"
         ELSE task[c][f]]]
  /\ phase' = "tick"
  /\ UNCHANGED <<episode, chain, placed, offered, acted, before, now, ticks, steps, learning>>

-----------------------------------------------------------------------------
(***************************************************************************)
(* advance_runtime: env.step and a synchronisation, until a task has ended *)
(* or MaxTicks is reached.                                                 *)
(***************************************************************************)
Late(c) == now + 1 > chain[c].submit + Deadline[c]

\* A task has the deadline of its chain, unless its function has one of its own,
\* which is left open; one that is removed with its node is in no list.
Outcomes(c, f, status) ==
  IF f \in Overriding[c] /\ status = "waiting" THEN {"waiting", "failed"}
  ELSE IF status = "active" /\ Late(c) /\ f \notin Overriding[c]
       THEN {"failed", "removed"}
              \cup (IF now = chain[c].submit + Deadline[c] THEN {"done"} ELSE {})
  ELSE IF status = "active" THEN {"active", "done", "failed", "removed"}
  ELSE IF status = "waiting" /\ Late(c) THEN {"failed"}
  ELSE {status}

\* A step of AirFogSim moves each pending task on its own.
Pending == {x \in Chain \X Fn : task[x[1]][x[2]] \in {"waiting", "active"}}
Moves ==
  {o \in [Pending -> {"waiting", "active", "done", "failed", "removed"}] :
     \A x \in Pending : o[x] \in Outcomes(x[1], x[2], task[x[1]][x[2]])}
Moved(o) ==
  [c \in Chain |-> [f \in Fn |-> IF <<c, f>> \in Pending THEN o[<<c, f>>] ELSE task[c][f]]]

\* The counts of done and failed tasks have grown since the step began.
TaskEnded(t) ==
  \E c \in Chain, f \in Fn : before.task[c][f] # t[c][f] /\ t[c][f] \in {"done", "failed"}

\* _clear_partial_chain_decisions_for_replanning
Released(c, s, d, t) ==
  /\ s[c] = "running" /\ d[c] # "none"
  /\ \E f \in Fn : t[c][f] = "done"
  /\ ReadyUnspawned(c, t) # {}

\* Mutant of KeptByTick: the decisions are released between two ticks.
KeptReleased(s, t) ==
  [c \in Chain |-> IF Released(c, s, decision, t) THEN "none" ELSE decision[c]]

\* A tick releases no decision, so that its synchronisation plans nothing.
KeptByTick(s, t) == decision

Tick ==
  /\ At("tick")
  /\ \E o \in Moves : LET t == Moved(o) IN \E s \in Synchronised(task, t, now + 1) :
       /\ task' = t
       /\ chain' = Marked(s)
       /\ decision' = PlannedFor(s, KeptByTick(s, t))
       /\ phase' = IF \/ ticks + 1 >= MinTicks /\ TaskEnded(t)
                      \/ ticks + 1 >= MaxTicks /\ ticks + 1 >= MinTicks
                   THEN "close" ELSE "tick"
  /\ now' = now + 1
  /\ ticks' = ticks + 1
  /\ UNCHANGED <<episode, placed, offered, acted, before, steps, learning>>

-----------------------------------------------------------------------------
(***************************************************************************)
(* The rest of step(): a last synchronisation, replanning, deadlines and   *)
(* arrivals, and the next observations.                                    *)
(***************************************************************************)

\* Mutant of Admitted: chains that arrive during the step wait for the next.
AdmittedLate(r, c) == r

Admitted(r, c) == Submitted(r, c, now)

\* sync, then _expire_deadlines, then _submit_due_chains
Closed(s) == [c \in Chain |-> Admitted([chain[c] EXCEPT !.status = s[c]], c)]

Close ==
  /\ At("close")
  /\ \E s \in Synchronised(task, task, now) :
       LET d == PlannedFor(s, decision)
       IN  /\ chain' = Closed(s)
           /\ decision' = [c \in Chain |-> IF Released(c, s, d, task) THEN "none" ELSE d[c]]
           /\ placed' = [c \in Chain |-> IF Released(c, s, d, task) THEN {} ELSE placed[c]]
  /\ offered' \in Observations(chain', decision', task)
  /\ steps' = steps + 1
  /\ ticks' = 0
  /\ phase' = "learn"
  /\ UNCHANGED <<episode, task, acted, before, now, learning>>

\* Mutant of Done: chains that have not arrived are forgotten.
DoneNow(n) == n >= MaxSteps \/ \A c \in Chain : ~Running(c)

\* done(): the horizon, or every chain arrived and ended.
Done(n) ==
  \/ n >= MaxSteps
  \/ \A c \in Chain : ~Running(c) /\ chain[c].status # "pending"

-----------------------------------------------------------------------------
(***************************************************************************)
(* The training loop after env.step: build_per_action_transitions,         *)
(* ReplayBuffer.add, apply_stage_credits, apply_terminal_credits.  Rewards *)
(* other than the credits, the normaliser and the update of the policy     *)
(* read this state and change none of it.                                  *)
(***************************************************************************)
Success == 10   \* SFCRewardConfig.success
Timeout == -5   \* SFCRewardConfig.timeout, for every chain that did not succeed

Transition ==
  [id : Nat, episode : Nat, chain : Chain, fn : Fn, stage : Int, terminal : Int]

\* The orders the action dictionary may have: chain by chain, and within a chain
\* by sfc_node_index.
ActionOrders ==
  {q \in [1..Cardinality(acted) -> acted] :
     \A i, j \in DOMAIN q : i < j =>
       /\ q[i] # q[j]
       /\ q[i][1] = q[j][1] =>
            /\ \A m \in i..j : q[m][1] = q[i][1]
            /\ \E a, b \in DOMAIN Order[q[i][1]] :
                 a < b /\ Order[q[i][1]][a] = q[i][2] /\ Order[q[i][1]][b] = q[j][2]}

\* transition_id of an action of the step, and of the last one of a chain
IdOf(q, x) == added + CHOOSE k \in DOMAIN q : q[k] = x
LastOf(q, c) ==
  added + CHOOSE k \in DOMAIN q :
            q[k][1] = c /\ \A m \in DOMAIN q : q[m][1] = c => m <= k

New(q) ==
  [k \in DOMAIN q |-> [id |-> added + k, episode |-> episode, chain |-> q[k][1],
                       fn |-> q[k][2], stage |-> 0, terminal |-> 0]]

\* Mutant of Newest: the buffer never drops a transition.
NewestUnbounded(s) == s

\* A deque with maxlen: the oldest transitions go.
Newest(s) == SubSeq(s, Len(s) - (IF Len(s) < Capacity THEN Len(s) ELSE Capacity) + 1, Len(s))

\* add_per_action_transitions
LastByChain(q) == [c \in Chain |-> IF \E x \in acted : x[1] = c THEN LastOf(q, c) ELSE ofChain[c]]
LastByFn(q) ==
  [c \in Chain |-> [f \in Fn |-> IF <<c, f>> \in acted THEN IdOf(q, <<c, f>>) ELSE ofFn[c][f]]]

\* Mutant of StageCredit: a failed task is credited like a done one.
StageCreditBlind(c, f) == IF before.task[c][f] # task[c][f] /\ task[c][f] \in {"done", "failed"}
                          THEN 1 ELSE 0

\* _gs2l_stage_events and the sign of compute_gs2l_stage_action_credit
StageCredit(c, f) ==
  IF before.task[c][f] = task[c][f] THEN 0
  ELSE IF task[c][f] = "done" THEN 1
  ELSE IF task[c][f] = "failed" THEN -1
  ELSE 0

\* Mutant of TerminalCredit: a chain is credited in every step after its end.
TerminalCreditAgain(c) ==
  IF ~Ended(chain[c].status) THEN 0
  ELSE IF chain[c].status = "succeeded" THEN Success
  ELSE Timeout

\* _chain_terminal_events
TerminalCredit(c) ==
  IF Ended(before.status[c]) \/ ~Ended(chain[c].status) THEN 0
  ELSE IF chain[c].status = "succeeded" THEN Success
  ELSE Timeout

\* The credits of a step go to the transitions the two dictionaries name, if the
\* buffer still holds them.
Credited(r, byChain, byFn) ==
  [r EXCEPT !.stage = @ + (IF r.id = byFn[r.chain][r.fn]
                           THEN StageCredit(r.chain, r.fn) ELSE 0),
            !.terminal = @ + (IF r.id = byChain[r.chain]
                              THEN TerminalCredit(r.chain) ELSE 0)]

\* The dictionaries are made anew for an episode.
\* Mutant of Forgotten: they are made once per training run.
Remembered == UNCHANGED <<ofChain, ofFn>>

Forgotten ==
  /\ ofChain' = [c \in Chain |-> 0]
  /\ ofFn' = [c \in Chain |-> [f \in Fn |-> 0]]

Learn ==
  /\ At("learn")
  /\ \E q \in ActionOrders :
       LET held == Newest(replay \o New(q))
       IN  /\ ofChain' = LastByChain(q)
           /\ ofFn' = LastByFn(q)
           /\ replay' = [k \in DOMAIN held |-> Credited(held[k], LastByChain(q), LastByFn(q))]
  /\ added' = added + Cardinality(acted)
  /\ acted' = {}
  /\ before' = Nothing
  /\ phase' = IF Done(steps) THEN "over" ELSE "act"
  /\ UNCHANGED <<episode, runtime, offered, ticks, steps>>

\* The next episode: a fresh environment, reset().
NextEpisode ==
  /\ At("over") /\ episode < Episodes
  /\ episode' = episode + 1
  /\ chain' = Arrivals
  /\ decision' = Undecided
  /\ placed' = [c \in Chain |-> {}]
  /\ task' = NoTasks
  /\ offered' \in Observations(Arrivals, Undecided, NoTasks)
  /\ acted' = {}
  /\ before' = Nothing
  /\ now' = 0 /\ ticks' = 0 /\ steps' = 0
  /\ Forgotten
  /\ phase' = "act"
  /\ UNCHANGED <<replay, added>>

Trained == At("over") /\ episode = Episodes /\ UNCHANGED vars

Next == Act \/ Prepare \/ Tick \/ Close \/ Learn \/ NextEpisode \/ Trained

Spec == Init /\ [][Next]_vars

-----------------------------------------------------------------------------
(***************************************************************************)
(* Properties.                                                             *)
(***************************************************************************)

\* Every variable has its type; the buffer keeps to its capacity and the loops to
\* their bounds.
TypeOK ==
  /\ episode \in 1..Episodes
  /\ chain \in [Chain -> [status : Statuses, submit : Nat]]
  /\ decision \in [Chain -> {"none", "agent", "planner"}]
  /\ placed \in [Chain -> SUBSET Fn]
  /\ task \in [Chain -> [Fn -> TaskStatuses]]
  /\ offered \in [Chain -> SUBSET Fn]
  /\ acted \subseteq Chain \X Fn
  /\ before \in [status : [Chain -> Statuses], task : [Chain -> [Fn -> TaskStatuses]]]
  /\ now \in Nat /\ ticks \in Nat /\ steps \in 0..MaxSteps /\ added \in Nat
  /\ replay \in Seq(Transition) /\ Len(replay) <= Capacity
  /\ ofChain \in [Chain -> Nat]
  /\ ofFn \in [Chain -> [Fn -> Nat]]
  /\ phase \in {"act", "prepare", "tick", "close", "learn", "over"}

\* Between two steps the credits of the episode are settled.
Settled == phase \in {"act", "over"}
Held == {replay[k] : k \in DOMAIN replay}
OfEpisode == {r \in Held : r.episode = episode}
LastOfChain(r) == \A x \in OfEpisode : x.chain = r.chain => x.id <= r.id

\* What a placement is worth once its chain, and its task, have these statuses.
Verdict(status) == CASE status = "succeeded" -> Success
                     [] status \in {"failed", "timed_out"} -> Timeout
                     [] OTHER -> 0
Fate(status) == CASE status = "done" -> 1
                  [] status = "failed" -> -1
                  [] OTHER -> 0

\* The verdict of a chain is credited exactly once, with its sign, and only to
\* the last placement of the chain, however many steps lie between the two and
\* whatever the buffer has dropped since.
VerdictCreditedOnce ==
  Settled => \A r \in OfEpisode :
    r.terminal = IF LastOfChain(r) THEN Verdict(chain[r.chain].status) ELSE 0

\* A placement is credited with the fate of the task it led to, once: the
\* function is not placed again, and a revoked or late end is not counted twice.
FateCreditedOnce ==
  Settled => \A r \in OfEpisode :
    /\ r.stage = Fate(task[r.chain][r.fn])
    /\ \A x \in OfEpisode : x.chain = r.chain /\ x.fn = r.fn => x = r

\* The chains have the same names in every episode, and one buffer holds the
\* transitions of all: no credit reaches a transition of an earlier episode.
PastIsSettled ==
  [][\A k \in DOMAIN replay : replay[k].episode < episode =>
       \A m \in DOMAIN replay' : replay'[m].id = replay[k].id => replay'[m] = replay[k]]_vars

\* The bridge plans every running chain without a decision, at any of its
\* synchronisations; decisions are released and chains admitted where none
\* follows before the agents have acted, so that only they decide.
OnlyAgentsDecide == \A c \in Chain : decision[c] # "planner"

\* A chain is refused for want of a decision only after an agent has seen it.
SeenBeforeRefused ==
  [][\A c \in Chain : chain[c].status = "pending" /\ episode' = episode =>
       chain'[c].status \in {"pending", "running"}]_vars

\* An episode that stops before its horizon leaves no chain behind.
EpisodeIsComplete ==
  At("over") /\ steps < MaxSteps => \A c \in Chain : Ended(chain[c].status)

=============================================================================
