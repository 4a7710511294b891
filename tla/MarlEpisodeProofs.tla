--------------------------- MODULE MarlEpisodeProofs ---------------------------
(***************************************************************************)
(* Who decides on the chains of an episode, which of them are refused, how *)
(* an episode ends, and what the replay buffer credits to each transition, *)
(* for any chains, deadlines, bounds and candidates.                       *)
(***************************************************************************)
EXTENDS MarlEpisode, FiniteSetTheorems, SequenceTheorems, WellFoundedInduction, TLAPS

Record == [status : Statuses, submit : Nat]

Types ==
  /\ chain \in [Chain -> Record]
  /\ decision \in [Chain -> {"none", "agent"}]
  /\ now \in Nat /\ steps \in Nat
  /\ phase \in {"act", "prepare", "tick", "close", "learn", "over"}

\* From the actions to the last synchronisation every running chain is decided.
Decided ==
  phase \in {"prepare", "tick", "close"} =>
    \A c \in Chain : Running(c) => decision[c] # "none"

\* The agents act on all that has arrived.
NoneDue == phase \in {"learn", "act"} => \A c \in Chain : ~Due(c, now)

IInv == Types /\ Decided /\ NoneDue /\ EpisodeIsComplete

-----------------------------------------------------------------------------
\* The chains of a fresh environment.
LEMMA ArrivalsTyped ==
  /\ Arrivals \in [Chain -> Record] /\ Undecided \in [Chain -> {"none", "agent"}]
  /\ \A c \in Chain : Arrivals[c].status = "pending" => Arrival[c] > 0
<1>. USE TrainingGraphs DEF Arrivals, Undecided, Record, Statuses
<1>1. Arrivals \in [Chain -> Record]
  OBVIOUS
<1>2. \A c \in Chain : Arrivals[c].status = "pending" => Arrival[c] > 0
  OBVIOUS
<1>. QED
  BY <1>1, <1>2

LEMMA InitHolds == Init => IInv
<1>. SUFFICES ASSUME Init PROVE IInv
  OBVIOUS
<1>1. chain = Arrivals /\ decision = Undecided /\ now = 0 /\ steps = 0 /\ phase = "act"
  BY DEF Init
<1>2. Types
  BY <1>1, ArrivalsTyped DEF Types
<1>3. NoneDue
  BY <1>1, ArrivalsTyped, TrainingGraphs DEF NoneDue, Due
<1>4. Decided /\ EpisodeIsComplete
  BY <1>1 DEF Decided, EpisodeIsComplete, At
<1>. QED
  BY <1>2, <1>3, <1>4 DEF IInv

\* A synchronisation starts no chain, and none of those that ended runs again.
LEMMA SynchronisedRuns ==
  ASSUME Types, NEW fresh, NEW t, NEW m, NEW s \in Synchronised(fresh, t, m), NEW c \in Chain
  PROVE  /\ s[c] \in Statuses
         /\ s[c] = "running" => Running(c)
         /\ s[c] = "pending" <=> chain[c].status = "pending"
<1>1. s[c] \in Statuses /\ s[c] \in IF Running(c) THEN Verdicts(c, fresh, t, m) ELSE {chain[c].status}
  BY DEF Synchronised
<1>2. Verdicts(c, fresh, t, m) \subseteq {"failed", "timed_out", "succeeded", "running"}
  BY DEF Verdicts
<1>. QED
  BY <1>1, <1>2 DEF Running

\* The chain after its admission: pending chains that are due run, the others stay.
LEMMA SubmittedRuns ==
  ASSUME NEW c \in Chain, NEW r \in Record, NEW t \in Nat
  PROVE  /\ Submitted(r, c, t) \in Record
         /\ Submitted(r, c, t) = r \/ (Due(c, t) /\ Submitted(r, c, t).status = "running")
         /\ Due(c, t) => Submitted(r, c, t).status = "running"
         /\ ~Due(c, t) => Submitted(r, c, t) = r
BY DEF Submitted, Record, Statuses

LEMMA ActHolds == IInv /\ Act => IInv'
<1>. SUFFICES ASSUME IInv, Act PROVE IInv'
  OBVIOUS
<1>1. PICK lost \in SUBSET {c \in Chain : Acts(c)} :
        chain' = [c \in Chain |-> Judged(c, lost)]
  BY DEF Act
<1>2. /\ phase = "act" /\ phase' = "prepare" /\ UNCHANGED <<now, steps>>
      /\ decision' = [c \in Chain |-> IF Acts(c) THEN "agent" ELSE decision[c]]
  BY DEF Act, At
<1>3. \A c \in Chain : chain[c] \in Record /\ Submitted(chain[c], c, now) = chain[c]
  BY <1>2, SubmittedRuns DEF IInv, Types, NoneDue
<1>4. \A c \in Chain :
        Judged(c, lost) = IF \/ Acts(c) /\ Refused(c, lost)
                             \/ Running(c) /\ ~Acts(c) /\ decision[c] = "none"
                          THEN [chain[c] EXCEPT !.status = "failed"]
                          ELSE chain[c]
  BY <1>3 DEF Judged, Running
<1>5. \A c \in Chain : Judged(c, lost) \in Record
  BY <1>3, <1>4 DEF Record, Statuses
<1>6. \A c \in Chain : Judged(c, lost).status = "running" =>
        Running(c) /\ (Acts(c) \/ decision[c] # "none")
  BY <1>3, <1>4 DEF Record, Running
<1>7. Types'
  BY <1>1, <1>2, <1>5 DEF IInv, Types
<1>8. Decided'
  BY <1>1, <1>2, <1>6 DEF Decided, Running
<1>9. NoneDue' /\ EpisodeIsComplete'
  BY <1>2 DEF NoneDue, EpisodeIsComplete, At
<1>. QED
  BY <1>7, <1>8, <1>9 DEF IInv

LEMMA PrepareHolds == IInv /\ Prepare => IInv'
<1>. SUFFICES ASSUME IInv, Prepare PROVE IInv'
  OBVIOUS
<1>1. /\ phase = "prepare" /\ phase' = "tick" /\ UNCHANGED <<chain, now, steps>>
      /\ decision' = PlannedFor([c \in Chain |-> chain[c].status], decision)
  BY DEF Prepare, At
<1>2. decision' = decision
  BY <1>1 DEF PlannedFor, IInv, Types, Decided, Running
<1>. QED
  BY <1>1, <1>2 DEF IInv, Types, Decided, NoneDue, EpisodeIsComplete, At, Running

\* Where every running chain is decided a synchronisation plans nothing.
LEMMA NothingPlanned ==
  ASSUME Types, \A c \in Chain : Running(c) => decision[c] # "none",
         NEW fresh, NEW t, NEW m, NEW s \in Synchronised(fresh, t, m)
  PROVE  PlannedFor(s, decision) = decision
<1>1. \A c \in Chain : ~(s[c] = "running" /\ decision[c] = "none")
  BY SynchronisedRuns
<1>. QED
  BY <1>1 DEF PlannedFor, Types

LEMMA TickHolds == IInv /\ Tick => IInv'
<1>. SUFFICES ASSUME IInv, Tick PROVE IInv'
  OBVIOUS
<1>1. PICK o \in Moves : \E s \in Synchronised(task, Moved(o), now + 1) :
        chain' = Marked(s) /\ decision' = PlannedFor(s, KeptByTick(s, Moved(o)))
  BY DEF Tick
<1>2. PICK s \in Synchronised(task, Moved(o), now + 1) :
        chain' = Marked(s) /\ decision' = PlannedFor(s, KeptByTick(s, Moved(o)))
  BY <1>1
<1>3. phase = "tick" /\ phase' \in {"tick", "close"} /\ now' = now + 1 /\ steps' = steps
  BY DEF Tick, At
<1>4. decision' = decision
  BY <1>2, <1>3, NothingPlanned DEF IInv, Decided, KeptByTick
<1>5. \A c \in Chain : chain[c] \in Record /\ chain'[c] = [chain[c] EXCEPT !.status = s[c]]
  BY <1>2 DEF Marked, IInv, Types
<1>6. \A c \in Chain : s[c] \in Statuses /\ (s[c] = "running" => Running(c))
  BY <1>2, SynchronisedRuns DEF IInv
<1>7. \A c \in Chain : chain'[c] \in Record /\ chain'[c].status = s[c]
  BY <1>5, <1>6 DEF Record
<1>8. Types'
  <2>1. chain' \in [Chain -> Record]
    BY <1>2, <1>7 DEF Marked
  <2>. QED
    BY <2>1, <1>3, <1>4 DEF IInv, Types
<1>9. Decided'
  BY <1>3, <1>4, <1>6, <1>7 DEF IInv, Decided, Running
<1>10. NoneDue' /\ EpisodeIsComplete'
  BY <1>3 DEF NoneDue, EpisodeIsComplete, At
<1>. QED
  BY <1>8, <1>9, <1>10 DEF IInv

LEMMA CloseHolds == IInv /\ Close => IInv'
<1>. SUFFICES ASSUME IInv, Close PROVE IInv'
  OBVIOUS
<1>1. PICK s \in Synchronised(task, task, now) :
        /\ chain' = Closed(s)
        /\ decision' = [c \in Chain |->
             IF Released(c, s, PlannedFor(s, decision), task) THEN "none"
             ELSE PlannedFor(s, decision)[c]]
  BY DEF Close
<1>2. phase = "close" /\ phase' = "learn" /\ now' = now /\ now \in Nat
      /\ steps' = steps + 1 /\ steps \in Nat
  BY DEF Close, At, IInv, Types
<1>3. PlannedFor(s, decision) = decision
  BY <1>2, NothingPlanned DEF IInv, Decided
<1>4. \A c \in Chain :
        /\ [chain[c] EXCEPT !.status = s[c]] \in Record
        /\ [chain[c] EXCEPT !.status = s[c]].status = s[c]
        /\ s[c] = "pending" <=> chain[c].status = "pending"
  BY SynchronisedRuns DEF IInv, Types, Record
<1>5. \A c \in Chain :
        /\ chain'[c] = Submitted([chain[c] EXCEPT !.status = s[c]], c, now)
        /\ chain'[c] \in Record
        /\ Due(c, now) => chain'[c].status = "running"
        /\ ~Due(c, now) => chain'[c].status = s[c]
  BY <1>1, <1>2, <1>4, SubmittedRuns DEF Closed, Admitted
<1>6. Types'
  <2>1. chain' \in [Chain -> Record]
    BY <1>1, <1>5 DEF Closed
  <2>2. decision' \in [Chain -> {"none", "agent"}]
    BY <1>1, <1>3 DEF IInv, Types
  <2>. QED
    BY <2>1, <2>2, <1>2 DEF Types
<1>7. NoneDue'
  BY <1>2, <1>4, <1>5 DEF NoneDue, Due
<1>8. Decided' /\ EpisodeIsComplete'
  BY <1>2 DEF Decided, EpisodeIsComplete, At
<1>. QED
  BY <1>6, <1>7, <1>8 DEF IInv

LEMMA LearnHolds == IInv /\ Learn => IInv'
<1>. SUFFICES ASSUME IInv, Learn PROVE IInv'
  OBVIOUS
<1>1. /\ UNCHANGED <<chain, decision, now, steps>> /\ phase = "learn"
      /\ phase' = IF Done(steps) THEN "over" ELSE "act"
  BY DEF Learn, runtime, At
<1>2. Types' /\ Decided' /\ NoneDue'
  BY <1>1 DEF IInv, Types, Decided, NoneDue, Due
<1>3. EpisodeIsComplete'
  <2>. SUFFICES ASSUME Done(steps), steps < MaxSteps, NEW c \in Chain
                PROVE  Ended(chain[c].status)
    BY <1>1 DEF EpisodeIsComplete, At
  <2>1. CASE steps >= MaxSteps
    BY <2>1, TrainingBounds DEF IInv, Types
  <2>2. CASE ~Running(c) /\ chain[c].status # "pending"
    BY <2>2 DEF Running, Ended, IInv, Types, Record, Statuses
  <2>. QED
    BY <2>1, <2>2 DEF Done
<1>. QED
  BY <1>2, <1>3 DEF IInv

LEMMA NextEpisodeHolds == IInv /\ NextEpisode => IInv'
<1>. SUFFICES ASSUME IInv, NextEpisode PROVE IInv'
  OBVIOUS
<1>1. chain' = Arrivals /\ decision' = Undecided /\ now' = 0 /\ steps' = 0 /\ phase' = "act"
  BY DEF NextEpisode
<1>2. Types'
  BY <1>1, ArrivalsTyped DEF Types
<1>3. NoneDue'
  BY <1>1, ArrivalsTyped, TrainingGraphs DEF NoneDue, Due
<1>4. Decided' /\ EpisodeIsComplete'
  BY <1>1 DEF Decided, EpisodeIsComplete, At
<1>. QED
  BY <1>2, <1>3, <1>4 DEF IInv

-----------------------------------------------------------------------------
\* What the environment and the training loop keep to in every step of an episode.
THEOREM Invariance == Spec => []IInv
<1>1. IInv /\ [Next]_vars => IInv'
  <2>. SUFFICES ASSUME IInv, [Next]_vars PROVE IInv'
    OBVIOUS
  <2>1. CASE UNCHANGED vars
    BY <2>1 DEF vars, runtime, IInv, Types, Decided, NoneDue, Due, EpisodeIsComplete, At, Running
  <2>. QED
    BY <2>1, ActHolds, PrepareHolds, TickHolds, CloseHolds, LearnHolds, NextEpisodeHolds
    DEF Next, Trained
<1>. QED
  BY InitHolds, <1>1, PTL DEF Spec

\* Only the agents decide: no synchronisation of the bridge plans a chain
\* (plan_pending, _clear_partial_chain_decisions_for_replanning).
THEOREM AgentsTheorem == Spec => []OnlyAgentsDecide
<1>1. IInv => OnlyAgentsDecide
  BY DEF IInv, Types, OnlyAgentsDecide
<1>. QED
  BY Invariance, <1>1, PTL

\* An episode that stops before its horizon leaves no chain behind (done).
THEOREM CompleteTheorem == Spec => []EpisodeIsComplete
<1>1. IInv => EpisodeIsComplete
  BY DEF IInv
<1>. QED
  BY Invariance, <1>1, PTL

\* No chain is refused in the step it arrives in (_submit_due_chains, _decode_actions).
THEOREM SeenTheorem == Spec => SeenBeforeRefused
<1>. DEFINE Seen ==
       \A c \in Chain : chain[c].status = "pending" /\ episode' = episode =>
         chain'[c].status \in {"pending", "running"}
<1>1. ASSUME IInv, Act PROVE Seen
  <2>1. PICK lost \in SUBSET {c \in Chain : Acts(c)} :
          chain' = [c \in Chain |-> Judged(c, lost)]
    BY <1>1 DEF Act
  <2>2. ASSUME NEW c \in Chain, chain[c].status = "pending" PROVE chain'[c] = chain[c]
    <3>1. Submitted(chain[c], c, now) = chain[c]
      BY <1>1, SubmittedRuns DEF Act, At, IInv, Types, NoneDue
    <3>2. ~Acts(c)
      BY <2>2 DEF Acts, Running
    <3>. QED
      BY <2>1, <2>2, <3>1, <3>2 DEF Judged
  <2>. QED
    BY <2>2
<1>2. ASSUME IInv, Tick PROVE Seen
  <2>1. PICK o \in Moves : \E s \in Synchronised(task, Moved(o), now + 1) : chain' = Marked(s)
    BY <1>2 DEF Tick
  <2>2. PICK s \in Synchronised(task, Moved(o), now + 1) : chain' = Marked(s)
    BY <2>1
  <2>3. \A c \in Chain : s[c] = "pending" <=> chain[c].status = "pending"
    BY <1>2, SynchronisedRuns DEF IInv
  <2>. QED
    BY <1>2, <2>2, <2>3 DEF Marked, IInv, Types, Record
<1>3. ASSUME IInv, Close PROVE Seen
  <2>1. PICK s \in Synchronised(task, task, now) : chain' = Closed(s)
    BY <1>3 DEF Close
  <2>2. ASSUME NEW c \in Chain, chain[c].status = "pending"
        PROVE  chain'[c].status \in {"pending", "running"}
    <3>1. s[c] = "pending" /\ chain[c] \in Record /\ now \in Nat
      BY <1>3, <2>2, SynchronisedRuns DEF IInv, Types
    <3>2. [chain[c] EXCEPT !.status = s[c]] \in Record
          /\ [chain[c] EXCEPT !.status = s[c]].status = "pending"
      BY <3>1 DEF Record, Statuses
    <3>. QED
      BY <2>1, <3>1, <3>2, SubmittedRuns DEF Closed, Admitted
  <2>. QED
    BY <2>2
<1>4. ASSUME NextEpisode PROVE Seen
  BY <1>4 DEF NextEpisode, Arrivals
<1>5. ASSUME Prepare \/ Learn \/ UNCHANGED vars PROVE Seen
  BY <1>5 DEF Prepare, Learn, runtime, vars
<1>6. IInv /\ [Next]_vars => [Seen]_vars
  BY <1>1, <1>2, <1>3, <1>4, <1>5 DEF Next, Trained
<1>. QED
  BY Invariance, <1>6, PTL DEF Spec, SeenBeforeRefused

-----------------------------------------------------------------------------
(***************************************************************************)
(* The replay buffer and its credits.                                      *)
(***************************************************************************)

\* The types of the rest of the environment, and the horizon.
World ==
  /\ episode \in 1..Episodes
  /\ placed \in [Chain -> SUBSET Fn]
  /\ task \in [Chain -> [Fn -> TaskStatuses]]
  /\ offered \in [Chain -> SUBSET Fn]
  /\ acted \subseteq Chain \X Fn
  /\ before \in [status : [Chain -> Statuses], task : [Chain -> [Fn -> TaskStatuses]]]
  /\ ticks \in Nat /\ steps \in 0..MaxSteps
  /\ phase \in {"act", "prepare", "tick", "close"} => steps < MaxSteps

\* The buffer holds the last transitions that were added, in their order.
Buffer ==
  /\ added \in Nat /\ replay \in Seq(Transition)
  /\ Len(replay) <= Capacity /\ Len(replay) <= added
  /\ \A k \in DOMAIN replay :
       replay[k].id = added - Len(replay) + k /\ replay[k].episode <= episode

\* The dictionaries name transitions of the episode only, each that of its chain
\* and of its function; every transition of the episode is the only one of its
\* function, and none is newer than the one named for its chain.
Named(r) ==
  /\ \A c \in Chain : r.id = ofChain[c] => c = r.chain /\ r.episode = episode
  /\ r.id = ofFn[r.chain][r.fn] <=> r.episode = episode
  /\ r.episode = episode => r.id <= ofChain[r.chain]
Names ==
  /\ ofChain \in [Chain -> 0..added] /\ ofFn \in [Chain -> [Fn -> 0..added]]
  /\ \A k \in DOMAIN replay : Named(replay[k])

\* What the agents are offered is still to be placed when they act.
Offer ==
  phase \in {"learn", "act", "over"} =>
    \A c \in Chain : offered[c] \subseteq Offerable(c, chain, decision, task)

\* A function that was placed has a task, or its chain has ended.
Placed ==
  \A k \in DOMAIN replay : replay[k].episode = episode =>
    task[replay[k].chain][replay[k].fn] # "none" \/ Ended(chain[replay[k].chain].status)

\* From the actions to their credit: what had ended before the actions stays so.
Steady ==
  ~Settled =>
    /\ \A c \in Chain : Ended(before.status[c]) => chain[c].status = before.status[c]
    /\ \A c \in Chain : \A f \in Fn :
         before.task[c][f] \in {"done", "failed"} => task[c][f] = before.task[c][f]

\* From the actions to their credit: a placed function had no task and no
\* transition, its chain ran, and it gets a task unless its chain ends.
Acting ==
  ~Settled => \A x \in acted :
    /\ before.task[x[1]][x[2]] = "none" /\ before.status[x[1]] = "running"
    /\ \A k \in DOMAIN replay : replay[k].episode = episode =>
         ~(replay[k].chain = x[1] /\ replay[k].fn = x[2])
    /\ chain[x[1]].status # "pending"
    /\ Running(x[1]) =>
         IF phase = "prepare"
         THEN decision[x[1]] # "none" /\ x[2] \in placed[x[1]] \cap ReadyUnspawned(x[1], task)
         ELSE task[x[1]][x[2]] # "none"

\* The transitions of the episode carry what was known when the step began.
KnownTask(c, f) == IF Settled THEN task[c][f] ELSE before.task[c][f]
KnownStatus(c) == IF Settled THEN chain[c].status ELSE before.status[c]
Account(r) ==
  r.episode = episode =>
    /\ r.stage = Fate(KnownTask(r.chain, r.fn))
    /\ r.terminal = IF r.id = ofChain[r.chain] THEN Verdict(KnownStatus(r.chain)) ELSE 0
Accounts == \A k \in DOMAIN replay : Account(replay[k])

Learning == World /\ Buffer /\ Names /\ Offer /\ Placed /\ Steady /\ Acting /\ Accounts

-----------------------------------------------------------------------------
(* The steps that add no transition. *)

\* Chains that ended stay as they are, tasks that ended too, and no task vanishes.
Onward ==
  /\ \A c \in Chain : Ended(chain[c].status) => chain'[c].status = chain[c].status
  /\ \A c \in Chain : chain[c].status # "pending" => chain'[c].status # "pending"
  /\ \A c \in Chain : \A f \in Fn :
       /\ task[c][f] \in {"done", "failed"} => task'[c][f] = task[c][f]
       /\ task[c][f] # "none" => task'[c][f] # "none"

\* A record of the buffer names a chain, a function and numbers.
LEMMA HeldTyped ==
  ASSUME Buffer, NEW k \in DOMAIN replay
  PROVE  /\ replay[k] \in Transition
         /\ replay[k].chain \in Chain /\ replay[k].fn \in Fn
         /\ replay[k].id \in 1..added /\ replay[k].episode \in Nat
<1>1. k \in 1..Len(replay) /\ Len(replay) \in Nat
  BY DEF Buffer
<1>2. replay[k] \in Transition
  BY <1>1 DEF Buffer
<1>3. added \in Nat /\ Len(replay) <= added /\ replay[k].id = added - Len(replay) + k
  BY DEF Buffer
<1>. QED
  BY <1>1, <1>2, <1>3 DEF Transition

\* Between the actions and their credit the accounts do not move.
LEMMA WaitKeeps ==
  ASSUME Learning, Onward, ~Settled, ~Settled', phase' # "prepare",
         UNCHANGED <<episode, learning, acted, before>>,
         \A x \in acted : Running(x[1])' => task'[x[1]][x[2]] # "none"
  PROVE  Buffer' /\ Names' /\ Placed' /\ Steady' /\ Acting' /\ Accounts'
<1>1. UNCHANGED <<replay, added, ofChain, ofFn>>
  BY DEF learning
<1>2. Buffer' /\ Names'
  BY <1>1 DEF Learning, Buffer, Names, Named
<1>3. Placed'
  <2>. SUFFICES ASSUME NEW k \in DOMAIN replay, replay[k].episode = episode
                PROVE  \/ task'[replay[k].chain][replay[k].fn] # "none"
                       \/ Ended(chain'[replay[k].chain].status)
    BY <1>1 DEF Placed
  <2>1. replay[k].chain \in Chain /\ replay[k].fn \in Fn
    BY HeldTyped DEF Learning
  <2>2. task[replay[k].chain][replay[k].fn] # "none" \/ Ended(chain[replay[k].chain].status)
    BY DEF Learning, Placed
  <2>. QED
    BY <2>1, <2>2 DEF Onward
<1>4. Steady'
  <2>1. before' = before
    OBVIOUS
  <2>2. ASSUME NEW c \in Chain, Ended(before.status[c])
        PROVE  chain'[c].status = before.status[c]
    BY <2>2 DEF Learning, Steady, Onward
  <2>3. ASSUME NEW c \in Chain, NEW f \in Fn, before.task[c][f] \in {"done", "failed"}
        PROVE  task'[c][f] = before.task[c][f]
    BY <2>3 DEF Learning, Steady, Onward
  <2>. QED
    BY <2>1, <2>2, <2>3 DEF Steady
<1>5. Acting'
  <2>. SUFFICES ASSUME NEW x \in acted
                PROVE  /\ before.task[x[1]][x[2]] = "none" /\ before.status[x[1]] = "running"
                       /\ \A k \in DOMAIN replay : replay[k].episode = episode =>
                            ~(replay[k].chain = x[1] /\ replay[k].fn = x[2])
                       /\ chain'[x[1]].status # "pending"
                       /\ Running(x[1])' => task'[x[1]][x[2]] # "none"
    BY <1>1 DEF Acting
  <2>1. x[1] \in Chain
    BY DEF Learning, World
  <2>. QED
    BY <2>1 DEF Learning, Acting, Onward
<1>6. Accounts'
  BY <1>1 DEF Learning, Accounts, Account, KnownTask, KnownStatus
<1>. QED
  BY <1>2, <1>3, <1>4, <1>5, <1>6

LEMMA ActLearns == IInv /\ Learning /\ Act => Learning'
<1>. SUFFICES ASSUME IInv, Learning, Act PROVE Learning'
  OBVIOUS
<1>1. PICK lost \in SUBSET {c \in Chain : Acts(c)} :
        chain' = [c \in Chain |-> Judged(c, lost)]
  BY DEF Act
<1>2. /\ phase = "act" /\ phase' = "prepare"
      /\ UNCHANGED <<episode, task, now, ticks, steps, replay, added, ofChain, ofFn>>
      /\ before' = [status |-> [c \in Chain |-> Submitted(chain[c], c, now).status], task |-> task]
      /\ acted' = {x \in Chain \X Fn : Acts(x[1]) /\ x[2] \in offered[x[1]]}
      /\ decision' = [c \in Chain |-> IF Acts(c) THEN "agent" ELSE decision[c]]
      /\ placed' = [c \in Chain |-> IF Acts(c) THEN offered[c] ELSE placed[c]]
      /\ offered' = [c \in Chain |-> {}]
  BY DEF Act, At, learning
<1>3. \A c \in Chain : chain[c] \in Record /\ Submitted(chain[c], c, now) = chain[c]
  BY <1>2, SubmittedRuns DEF IInv, Types, NoneDue
<1>4. \A c \in Chain : before'.status[c] = chain[c].status /\ before'.task = task
  BY <1>2, <1>3
<1>5. \A c \in Chain : /\ Ended(chain[c].status) => chain'[c] = chain[c]
                       /\ chain[c].status = "running" => chain'[c].status \in {"running", "failed"}
  BY <1>1, <1>3 DEF Judged, Acts, Running, Ended, Record
<1>6. World'
  <2>1. before' \in [status : [Chain -> Statuses], task : [Chain -> [Fn -> TaskStatuses]]]
    <3>1. \A c \in Chain : Submitted(chain[c], c, now).status \in Statuses
      BY <1>3 DEF Record
    <3>. QED
      BY <1>2, <3>1 DEF Learning, World
  <2>2. acted' \subseteq Chain \X Fn /\ placed' \in [Chain -> SUBSET Fn]
        /\ offered' \in [Chain -> SUBSET Fn]
    BY <1>2 DEF Learning, World
  <2>. QED
    BY <1>2, <2>1, <2>2 DEF Learning, World
<1>7. Buffer' /\ Names'
  BY <1>2 DEF Learning, Buffer, Names, Named
<1>8. Offer'
  BY <1>2 DEF Offer
<1>9. Placed'
  <2>. SUFFICES ASSUME NEW k \in DOMAIN replay, replay[k].episode = episode
                PROVE  \/ task[replay[k].chain][replay[k].fn] # "none"
                       \/ Ended(chain'[replay[k].chain].status)
    BY <1>2 DEF Placed
  <2>1. replay[k].chain \in Chain
    BY HeldTyped DEF Learning
  <2>. QED
    BY <1>5, <2>1 DEF Learning, Placed
<1>10. Steady'
  BY <1>2, <1>4, <1>5 DEF Steady
<1>11. Acting'
  <2>. SUFFICES ASSUME NEW c \in Chain, NEW f \in Fn, Acts(c), f \in offered[c]
                PROVE  /\ task[c][f] = "none" /\ chain[c].status = "running"
                       /\ \A k \in DOMAIN replay : replay[k].episode = episode =>
                            ~(replay[k].chain = c /\ replay[k].fn = f)
                       /\ chain'[c].status # "pending"
                       /\ decision'[c] # "none" /\ f \in placed'[c]
                       /\ f \in ReadyUnspawned(c, task)
    <3>1. \A x \in acted' : x[1] \in Chain /\ x[2] \in Fn /\ Acts(x[1]) /\ x[2] \in offered[x[1]]
      BY <1>2
    <3>. QED
      BY <1>2, <1>4, <3>1 DEF Acting
  <2>1. f \in ReadyUnspawned(c, task)
    BY <1>2 DEF Learning, Offer, Offerable
  <2>2. task[c][f] = "none" /\ chain[c].status = "running"
    BY <2>1 DEF ReadyUnspawned, Acts, Running
  <2>3. \A k \in DOMAIN replay : replay[k].episode = episode =>
          ~(replay[k].chain = c /\ replay[k].fn = f)
    BY <2>2 DEF Learning, Placed, Ended
  <2>. QED
    BY <1>2, <1>5, <2>1, <2>2, <2>3
<1>12. Accounts'
  <2>. SUFFICES ASSUME NEW k \in DOMAIN replay PROVE Account(replay[k])'
    BY <1>2 DEF Accounts
  <2>1. replay[k].chain \in Chain
    BY HeldTyped DEF Learning
  <2>. QED
    BY <1>2, <1>4, <2>1 DEF Learning, Accounts, Account, KnownTask, KnownStatus, Settled
<1>. QED
  BY <1>6, <1>7, <1>8, <1>9, <1>10, <1>11, <1>12 DEF Learning

LEMMA PrepareLearns == IInv /\ Learning /\ Prepare => Learning'
<1>. SUFFICES ASSUME IInv, Learning, Prepare PROVE Learning'
  OBVIOUS
<1>1. PICK scheduled \in SUBSET {x \in Chain \X Fn :
                                   /\ x[2] \in placed[x[1]]
                                   /\ task[x[1]][x[2]] = "waiting" \/ Spawned(x[1], x[2])} :
        task' = [c \in Chain |-> [f \in Fn |->
          IF <<c, f>> \in scheduled THEN "active"
          ELSE IF Spawned(c, f) THEN "waiting"
          ELSE task[c][f]]]
  BY DEF Prepare
<1>2. /\ phase = "prepare" /\ phase' = "tick"
      /\ UNCHANGED <<episode, chain, placed, offered, acted, before, ticks, steps, learning>>
  BY DEF Prepare, At
<1>3. \A c \in Chain : \A f \in Fn :
        /\ <<c, f>> \in scheduled => task[c][f] = "waiting" \/ Spawned(c, f)
        /\ Spawned(c, f) => task[c][f] = "none"
        /\ task'[c][f] = IF <<c, f>> \in scheduled THEN "active"
                         ELSE IF Spawned(c, f) THEN "waiting"
                         ELSE task[c][f]
  BY <1>1 DEF Spawned, ReadyUnspawned
<1>4. Onward
  BY <1>2, <1>3 DEF Onward
<1>5. ASSUME NEW x \in acted, Running(x[1])' PROVE task'[x[1]][x[2]] # "none"
  <2>1. x[1] \in Chain /\ x[2] \in Fn /\ Running(x[1])
    BY <1>2, <1>5 DEF Learning, World, Running
  <2>2. decision[x[1]] # "none" /\ x[2] \in placed[x[1]] /\ x[2] \in ReadyUnspawned(x[1], task)
    BY <1>2, <2>1 DEF Learning, Acting, Settled
  <2>3. Spawned(x[1], x[2])
    BY <2>1, <2>2 DEF Spawned
  <2>. QED
    BY <1>3, <2>1, <2>3
<1>6. World'
  <2>1. task' \in [Chain -> [Fn -> TaskStatuses]]
    BY <1>1 DEF Learning, World, TaskStatuses
  <2>. QED
    BY <1>2, <2>1 DEF Learning, World
<1>7. Offer'
  BY <1>2 DEF Offer
<1>8. Buffer' /\ Names' /\ Placed' /\ Steady' /\ Acting' /\ Accounts'
  BY <1>2, <1>4, <1>5, WaitKeeps DEF Settled
<1>. QED
  BY <1>6, <1>7, <1>8 DEF Learning

\* A synchronisation leaves the chains alone that do not run.
LEMMA SynchronisedKeeps ==
  ASSUME Types, NEW fresh, NEW t, NEW m, NEW s \in Synchronised(fresh, t, m), NEW c \in Chain
  PROVE  /\ Ended(chain[c].status) => s[c] = chain[c].status
         /\ chain[c].status # "pending" => s[c] # "pending"
<1>1. ~Running(c) => s[c] = chain[c].status
  BY DEF Synchronised
<1>. QED
  BY <1>1, SynchronisedRuns DEF Running, Ended

LEMMA TickLearns == IInv /\ Learning /\ Tick => Learning'
<1>. SUFFICES ASSUME IInv, Learning, Tick PROVE Learning'
  OBVIOUS
<1>1. PICK o \in Moves : \E s \in Synchronised(task, Moved(o), now + 1) :
        task' = Moved(o) /\ chain' = Marked(s)
  BY DEF Tick
<1>2. PICK s \in Synchronised(task, Moved(o), now + 1) : task' = Moved(o) /\ chain' = Marked(s)
  BY <1>1
<1>3. /\ phase = "tick" /\ phase' \in {"tick", "close"} /\ ticks' = ticks + 1
      /\ UNCHANGED <<episode, placed, offered, acted, before, steps, learning>>
  BY DEF Tick, At
<1>4. \A c \in Chain : \A f \in Fn :
        /\ <<c, f>> \in Pending <=> task[c][f] \in {"waiting", "active"}
        /\ <<c, f>> \in Pending => o[<<c, f>>] \in {"waiting", "active", "done", "failed", "removed"}
        /\ task'[c][f] = IF <<c, f>> \in Pending THEN o[<<c, f>>] ELSE task[c][f]
  BY <1>2 DEF Moves, Moved, Pending
<1>5. \A c \in Chain : \A f \in Fn :
        /\ task[c][f] \in {"done", "failed"} => task'[c][f] = task[c][f]
        /\ task[c][f] # "none" => task'[c][f] # "none"
        /\ task'[c][f] \in TaskStatuses
  <2>. SUFFICES ASSUME NEW c \in Chain, NEW f \in Fn
                PROVE  /\ task[c][f] \in {"done", "failed"} => task'[c][f] = task[c][f]
                       /\ task[c][f] # "none" => task'[c][f] # "none"
                       /\ task'[c][f] \in TaskStatuses
    OBVIOUS
  <2>1. task[c][f] \in TaskStatuses
    BY DEF Learning, World
  <2>2. CASE <<c, f>> \in Pending
    BY <1>4, <2>2 DEF TaskStatuses
  <2>3. CASE <<c, f>> \notin Pending
    BY <1>4, <2>1, <2>3
  <2>. QED
    BY <2>2, <2>3
<1>6. \A c \in Chain : chain'[c].status = s[c]
  BY <1>2 DEF Marked, IInv, Types, Record
<1>7. Onward
  BY <1>2, <1>5, <1>6, SynchronisedKeeps DEF Onward, IInv
<1>8. ASSUME NEW x \in acted, Running(x[1])' PROVE task'[x[1]][x[2]] # "none"
  <2>1. x[1] \in Chain /\ x[2] \in Fn
    BY DEF Learning, World
  <2>2. Running(x[1])
    BY <1>2, <1>6, <1>8, <2>1, SynchronisedRuns DEF Running, IInv
  <2>3. task[x[1]][x[2]] # "none"
    BY <1>3, <2>2 DEF Learning, Acting, Settled
  <2>. QED
    BY <1>5, <2>1, <2>3
<1>9. World'
  <2>1. task' \in [Chain -> [Fn -> TaskStatuses]]
    BY <1>2, <1>5 DEF Moved
  <2>. QED
    BY <1>3, <2>1 DEF Learning, World
<1>10. Offer'
  BY <1>3 DEF Offer
<1>11. Buffer' /\ Names' /\ Placed' /\ Steady' /\ Acting' /\ Accounts'
  BY <1>3, <1>7, <1>8, WaitKeeps DEF Settled
<1>. QED
  BY <1>9, <1>10, <1>11 DEF Learning

LEMMA CloseLearns == IInv /\ Learning /\ Close => Learning'
<1>. SUFFICES ASSUME IInv, Learning, Close PROVE Learning'
  OBVIOUS
<1>1. PICK s \in Synchronised(task, task, now) :
        /\ chain' = Closed(s)
        /\ placed' = [c \in Chain |->
             IF Released(c, s, PlannedFor(s, decision), task) THEN {} ELSE placed[c]]
  BY DEF Close
<1>2. /\ phase = "close" /\ phase' = "learn" /\ steps' = steps + 1 /\ ticks' = 0
      /\ offered' \in Observations(chain', decision', task)
      /\ UNCHANGED <<episode, task, acted, before, now, learning>>
  BY DEF Close, At
<1>3. \A c \in Chain :
        /\ [chain[c] EXCEPT !.status = s[c]] \in Record
        /\ [chain[c] EXCEPT !.status = s[c]].status = s[c]
        /\ s[c] = "pending" <=> chain[c].status = "pending"
  BY SynchronisedRuns DEF IInv, Types, Record
<1>4. \A c \in Chain :
        /\ chain'[c].status \in {s[c], "running"}
        /\ chain[c].status # "pending" => chain'[c].status = s[c]
  <2>. TAKE c \in Chain
  <2>1. chain'[c] = Submitted([chain[c] EXCEPT !.status = s[c]], c, now)
    BY <1>1 DEF Closed, Admitted
  <2> DEFINE r == [chain[c] EXCEPT !.status = s[c]]
  <2>2. now \in Nat /\ r \in Record /\ r.status = s[c]
    BY <1>3 DEF IInv, Types
  <2> HIDE DEF r
  <2>3. chain'[c] = r \/ (Due(c, now) /\ chain'[c].status = "running")
    BY <2>1, <2>2, SubmittedRuns DEF r
  <2>. QED
    BY <2>2, <2>3 DEF Due
<1>5. Onward
  <2>1. \A c \in Chain : Ended(chain[c].status) =>
          s[c] = chain[c].status /\ chain[c].status # "pending"
    BY SynchronisedKeeps DEF IInv, Ended
  <2>2. \A c \in Chain : chain[c].status # "pending" => s[c] # "pending"
    BY SynchronisedKeeps DEF IInv
  <2>. QED
    BY <1>2, <1>4, <2>1, <2>2 DEF Onward
<1>6. ASSUME NEW x \in acted, Running(x[1])' PROVE task'[x[1]][x[2]] # "none"
  <2>1. x[1] \in Chain /\ chain[x[1]].status # "pending"
    BY <1>2 DEF Learning, World, Acting, Settled
  <2>2. s[x[1]] = "running"
    BY <1>4, <1>6, <2>1 DEF Running
  <2>3. Running(x[1])
    BY <2>1, <2>2, SynchronisedRuns DEF IInv
  <2>. QED
    BY <1>2, <2>3 DEF Learning, Acting, Settled
<1>7. World'
  <2>1. placed' \in [Chain -> SUBSET Fn]
    BY <1>1 DEF Learning, World
  <2>2. offered' \in [Chain -> SUBSET Fn]
    BY <1>2 DEF Observations
  <2>3. steps' \in 0..MaxSteps
    BY <1>2, TrainingBounds DEF Learning, World
  <2>. QED
    BY <1>2, <2>1, <2>2, <2>3 DEF Learning, World
<1>8. Offer'
  BY <1>2 DEF Offer, Observations
<1>9. Buffer' /\ Names' /\ Placed' /\ Steady' /\ Acting' /\ Accounts'
  BY <1>2, <1>5, <1>6, WaitKeeps DEF Settled
<1>. QED
  BY <1>7, <1>8, <1>9 DEF Learning

-----------------------------------------------------------------------------
(* Episodes. *)

\* Nothing is offered of what is not a function.
LEMMA ObservationsTyped ==
  ASSUME NEW r, NEW d, NEW t, NEW o \in Observations(r, d, t)
  PROVE  /\ o \in [Chain -> SUBSET Fn]
         /\ \A c \in Chain : o[c] \subseteq Offerable(c, r, d, t)
BY DEF Observations

LEMMA InitLearns == Init => Learning
<1>. SUFFICES ASSUME Init PROVE Learning
  OBVIOUS
<1>1. World
  <2>1. Nothing \in [status : [Chain -> Statuses], task : [Chain -> [Fn -> TaskStatuses]]]
        /\ NoTasks \in [Chain -> [Fn -> TaskStatuses]]
    BY DEF Nothing, NoTasks, Statuses, TaskStatuses
  <2>. QED
    BY <2>1, ObservationsTyped, TrainingBounds DEF Init, World
<1>2. Buffer
  BY TrainingBounds DEF Init, Buffer
<1>3. Names /\ Placed /\ Accounts
  BY DEF Init, Names, Placed, Accounts
<1>4. Offer
  BY ObservationsTyped DEF Init, Offer
<1>5. Steady /\ Acting
  BY DEF Init, Steady, Acting, Settled
<1>. QED
  BY <1>1, <1>2, <1>3, <1>4, <1>5 DEF Learning

LEMMA NextEpisodeLearns == Learning /\ NextEpisode => Learning'
<1>. SUFFICES ASSUME Learning, NextEpisode PROVE Learning'
  OBVIOUS
<1>1. /\ episode < Episodes /\ episode' = episode + 1 /\ chain' = Arrivals /\ decision' = Undecided
      /\ placed' = [c \in Chain |-> {}] /\ task' = NoTasks
      /\ offered' \in Observations(Arrivals, Undecided, NoTasks)
      /\ acted' = {} /\ before' = Nothing /\ now' = 0 /\ ticks' = 0 /\ steps' = 0
      /\ ofChain' = [c \in Chain |-> 0] /\ ofFn' = [c \in Chain |-> [f \in Fn |-> 0]]
      /\ phase' = "act" /\ UNCHANGED <<replay, added>>
  BY DEF NextEpisode, Forgotten
<1>2. World'
  <2>1. Nothing \in [status : [Chain -> Statuses], task : [Chain -> [Fn -> TaskStatuses]]]
        /\ NoTasks \in [Chain -> [Fn -> TaskStatuses]]
    BY DEF Nothing, NoTasks, Statuses, TaskStatuses
  <2>2. episode' \in 1..Episodes
    BY <1>1, TrainingBounds DEF Learning, World
  <2>. QED
    BY <1>1, <2>1, <2>2, ObservationsTyped, TrainingBounds DEF World
<1>3. \A k \in DOMAIN replay : replay[k].id \in Nat \ {0} /\ replay[k].episode < episode'
  <2>. TAKE k \in DOMAIN replay
  <2>1. replay[k].id \in 1..added /\ added \in Nat /\ replay[k].episode \in Nat
        /\ replay[k].episode <= episode
    BY HeldTyped DEF Learning, Buffer
  <2>2. episode \in Nat
    BY TrainingBounds DEF Learning, World
  <2>. QED
    BY <1>1, <2>1, <2>2
<1>4. \A k \in DOMAIN replay : replay[k].episode # episode' /\ replay[k].episode <= episode'
  <2>. TAKE k \in DOMAIN replay
  <2>1. replay[k].episode \in Nat /\ episode \in Nat
    BY HeldTyped, TrainingBounds DEF Learning, World
  <2>. QED
    BY <1>1, <1>3, <2>1
<1>5. Buffer'
  BY <1>1, <1>4 DEF Learning, Buffer
<1>6. Names'
  <2>1. added \in Nat
    BY DEF Learning, Buffer
  <2>2. ofChain' \in [Chain -> 0..added] /\ ofFn' \in [Chain -> [Fn -> 0..added]]
    BY <1>1, <2>1
  <2>3. \A k \in DOMAIN replay : Named(replay[k])'
    <3>. TAKE k \in DOMAIN replay
    <3>1. replay[k].chain \in Chain /\ replay[k].fn \in Fn
      BY HeldTyped DEF Learning
    <3>. QED
      BY <1>1, <1>3, <1>4, <3>1 DEF Named
  <2>. QED
    BY <1>1, <2>2, <2>3 DEF Names
<1>7. Placed' /\ Accounts'
  BY <1>1, <1>4 DEF Placed, Accounts, Account
<1>8. Offer'
  BY <1>1, ObservationsTyped DEF Offer
<1>9. Steady' /\ Acting'
  BY <1>1 DEF Steady, Acting, Settled
<1>. QED
  BY <1>2, <1>5, <1>6, <1>7, <1>8, <1>9 DEF Learning

-----------------------------------------------------------------------------
(* The transitions of a step. *)

\* A non-empty set of numbers up to n has a greatest one.
LEMMA Greatest ==
  ASSUME NEW n \in Nat, NEW K \in SUBSET (1 .. n), K # {}
  PROVE  \E k \in K : \A j \in K : j <= k
<1> DEFINE T == {n - k : k \in K}
<1>1. T \in SUBSET Nat /\ T # {}
  <2>1. \A k \in K : n - k \in Nat
    OBVIOUS
  <2>. QED
    BY <2>1
<1>2. PICK x \in T : \A y \in T : ~(<<y, x>> \in OpToRel(<, Nat))
  BY <1>1, WFMin, NatLessThanWellFounded
<1>3. PICK k \in K : x = n - k
  OBVIOUS
<1>4. ASSUME NEW j \in K PROVE j <= k
  <2>1. n - j \in T /\ n - j \in Nat /\ x \in Nat
    BY <1>1
  <2>2. ~(n - j < x)
    BY <1>2, <2>1 DEF OpToRel
  <2>. QED
    BY <1>3, <2>1, <2>2
<1>. QED
  BY <1>4

\* The actions of a step, in the order of the action dictionary: each has one
\* number.
LEMMA OrderCounts ==
  ASSUME World, NEW q \in ActionOrders
  PROVE  /\ Cardinality(acted) \in Nat
         /\ q \in [1..Cardinality(acted) -> acted] /\ DOMAIN q = 1..Cardinality(acted)
         /\ \A i, j \in 1..Cardinality(acted) : q[i] = q[j] => i = j
         /\ \A x \in acted : \E k \in 1..Cardinality(acted) : q[k] = x
<1> DEFINE n == Cardinality(acted)
<1>1. IsFiniteSet(acted)
  <2>1. IsFiniteSet(Chain \X Fn)
    BY TrainingGraphs, FS_Product
  <2>. QED
    BY <2>1, FS_Subset DEF World
<1>2. n \in Nat
  BY <1>1, FS_CardinalityType
<1>3. q \in [1..n -> acted]
  BY DEF ActionOrders
<1>4. \A i, j \in 1..n : i < j => q[i] # q[j]
  BY <1>3 DEF ActionOrders
<1> HIDE DEF n
<1>5. \A i, j \in 1..n : q[i] = q[j] => i = j
  <2>. SUFFICES ASSUME NEW i \in 1..n, NEW j \in 1..n, q[i] = q[j], i # j PROVE FALSE
    OBVIOUS
  <2>1. i < j \/ j < i
    BY <1>2
  <2>. QED
    BY <1>4, <2>1
<1>6. q \in Injection(1..n, acted)
  BY <1>3, <1>5 DEF Injection, IsInjective
<1>7. IsFiniteSet(1..n) /\ Cardinality(1..n) = n
  <2>1. Cardinality(1..n) = IF 1 > n THEN 0 ELSE n - 1 + 1
    BY <1>2, FS_Interval
  <2>. QED
    BY <1>2, <2>1, FS_Interval
<1>8. q \in Surjection(1..n, acted)
  BY <1>1, <1>6, <1>7, FS_Injection DEF n
<1>. QED
  BY <1>2, <1>3, <1>5, <1>8 DEF n, Surjection

\* The numbers the two dictionaries give to the actions of the step.
LEMMA IdOfAction ==
  ASSUME World, NEW q \in ActionOrders, NEW k \in 1..Cardinality(acted)
  PROVE  IdOf(q, q[k]) = added + k
<1>1. \A j \in DOMAIN q : q[j] = q[k] => j = k
  BY OrderCounts
<1>2. k \in DOMAIN q
  BY OrderCounts
<1>3. (CHOOSE j \in DOMAIN q : q[j] = q[k]) = k
  BY <1>1, <1>2
<1>. QED
  BY <1>3 DEF IdOf

LEMMA LastOfAction ==
  ASSUME World, NEW q \in ActionOrders, NEW c \in Chain, \E x \in acted : x[1] = c
  PROVE  \E k \in 1..Cardinality(acted) :
           /\ LastOf(q, c) = added + k /\ q[k][1] = c
           /\ \A m \in 1..Cardinality(acted) : q[m][1] = c => m <= k
<1> DEFINE n == Cardinality(acted)
           K == {k \in 1..n : q[k][1] = c}
           IsLast(k) == q[k][1] = c /\ \A m \in DOMAIN q : q[m][1] = c => m <= k
<1>1. n \in Nat /\ DOMAIN q = 1..n /\ K # {}
  BY OrderCounts
<1> HIDE DEF n
<1>2. \E k \in K : \A j \in K : j <= k
  BY <1>1, Greatest
<1>3. \E k \in DOMAIN q : IsLast(k)
  BY <1>1, <1>2
<1>4. PICK k : k = CHOOSE j \in DOMAIN q : IsLast(j)
  OBVIOUS
<1>5. k \in DOMAIN q /\ IsLast(k)
  BY <1>3, <1>4
<1>6. LastOf(q, c) = added + k
  BY <1>4 DEF LastOf
<1>. QED
  BY <1>1, <1>5, <1>6 DEF n

\* The transitions made of the actions.
LEMMA NewTyped ==
  ASSUME World, Buffer, NEW q \in ActionOrders
  PROVE  /\ New(q) \in Seq(Transition) /\ Len(New(q)) = Cardinality(acted)
         /\ \A k \in 1..Cardinality(acted) :
              New(q)[k] = [id |-> added + k, episode |-> episode, chain |-> q[k][1],
                           fn |-> q[k][2], stage |-> 0, terminal |-> 0]
<1> DEFINE n == Cardinality(acted)
<1>1. n \in Nat /\ DOMAIN q = 1..n /\ q \in [1..n -> Chain \X Fn]
  BY OrderCounts DEF World
<1> HIDE DEF n
<1>2. added \in Nat /\ episode \in Nat
  BY TrainingBounds DEF World, Buffer
<1>3. \A k \in 1..n : [id |-> added + k, episode |-> episode, chain |-> q[k][1],
                       fn |-> q[k][2], stage |-> 0, terminal |-> 0] \in Transition
  BY <1>1, <1>2 DEF Transition
<1>4. New(q) \in [1..n -> Transition]
  BY <1>1, <1>3 DEF New
<1>5. New(q) \in Seq(Transition)
  BY <1>1, <1>4, SeqDef
<1>6. Len(New(q)) = n
  BY <1>1, <1>4, <1>5, LenProperties
<1>. QED
  BY <1>1, <1>5, <1>6 DEF n, New

\* The deque keeps the newest, in their order.
LEMMA NewestKeeps ==
  ASSUME NEW T, NEW s \in Seq(T)
  PROVE  /\ Newest(s) \in Seq(T)
         /\ Len(Newest(s)) = IF Len(s) < Capacity THEN Len(s) ELSE Capacity
         /\ \A k \in 1..Len(Newest(s)) :
              Len(s) - Len(Newest(s)) + k \in 1..Len(s)
              /\ Newest(s)[k] = s[Len(s) - Len(Newest(s)) + k]
<1> DEFINE n == Len(s)
           h == IF n < Capacity THEN n ELSE Capacity
<1>1. n \in Nat /\ Capacity \in Nat \ {0}
  BY TrainingBounds
<1>2. h \in 0..n
  BY <1>1
<1> HIDE DEF n, h
<1>3. Newest(s) = SubSeq(s, n - h + 1, n)
  BY DEF Newest, n, h
<1>4. n - h + 1 \in Int /\ n \in Int /\ \A i \in (n - h + 1)..n : s[i] \in T
  BY <1>1, <1>2, ElementOfSeq DEF n
<1>5. /\ Newest(s) \in Seq(T) /\ Len(Newest(s)) = IF n - h + 1 <= n THEN n - (n - h + 1) + 1 ELSE 0
      /\ \A i \in 1..n - (n - h + 1) + 1 : Newest(s)[i] = s[(n - h + 1) + i - 1]
  BY <1>3, <1>4, SubSeqProperties
<1>6. Len(Newest(s)) = h
  BY <1>1, <1>2, <1>5
<1>7. \A k \in 1..h : n - h + k \in 1..n /\ Newest(s)[k] = s[n - h + k]
  <2>. TAKE k \in 1..h
  <2>1. k \in 1..n - (n - h + 1) + 1 /\ (n - h + 1) + k - 1 = n - h + k
    BY <1>1, <1>2
  <2>. QED
    BY <1>1, <1>2, <1>5, <2>1
<1>. QED
  BY <1>5, <1>6, <1>7 DEF n, h

-----------------------------------------------------------------------------
(* The credits of a step. *)

\* What a step credits is the difference it made.
LEMMA StageSums ==
  ASSUME Learning, ~Settled, NEW c \in Chain, NEW f \in Fn
  PROVE  /\ Fate(before.task[c][f]) \in Int /\ StageCredit(c, f) \in Int
         /\ Fate(before.task[c][f]) + StageCredit(c, f) = Fate(task[c][f])
<1>1. before.task[c][f] \in {"done", "failed"} => task[c][f] = before.task[c][f]
  BY DEF Learning, Steady
<1>2. \A s : Fate(s) = IF s = "done" THEN 1 ELSE IF s = "failed" THEN -1 ELSE 0
  BY DEF Fate
<1>. QED
  BY <1>1, <1>2 DEF StageCredit

LEMMA VerdictSums ==
  ASSUME Learning, ~Settled, NEW c \in Chain
  PROVE  /\ Verdict(before.status[c]) \in Int /\ TerminalCredit(c) \in Int
         /\ Verdict(before.status[c]) + TerminalCredit(c) = Verdict(chain[c].status)
<1>1. Ended(before.status[c]) => chain[c].status = before.status[c]
  BY DEF Learning, Steady
<1>2. \A s : Verdict(s) = IF s = "succeeded" THEN Success ELSE IF Ended(s) THEN Timeout ELSE 0
  BY DEF Verdict, Ended
<1>3. Success \in Int /\ Timeout \in Int
  BY DEF Success, Timeout
<1>. QED
  BY <1>1, <1>2, <1>3 DEF TerminalCredit, Ended

\* A credit changes the two sums of a transition and nothing else.
LEMMA CreditedKeeps ==
  ASSUME NEW r \in Transition, NEW byChain, NEW byFn,
         StageCredit(r.chain, r.fn) \in Int, TerminalCredit(r.chain) \in Int
  PROVE  LET s == Credited(r, byChain, byFn)
         IN  /\ s \in Transition
             /\ s.id = r.id /\ s.episode = r.episode /\ s.chain = r.chain /\ s.fn = r.fn
             /\ s.stage = IF r.id = byFn[r.chain][r.fn]
                          THEN r.stage + StageCredit(r.chain, r.fn) ELSE r.stage
             /\ s.terminal = IF r.id = byChain[r.chain]
                             THEN r.terminal + TerminalCredit(r.chain) ELSE r.terminal
             /\ r.id # byFn[r.chain][r.fn] /\ r.id # byChain[r.chain] => s = r
<1> DEFINE a == IF r.id = byFn[r.chain][r.fn] THEN StageCredit(r.chain, r.fn) ELSE 0
           b == IF r.id = byChain[r.chain] THEN TerminalCredit(r.chain) ELSE 0
           s == Credited(r, byChain, byFn)
<1>1. a \in Int /\ b \in Int /\ r.stage \in Int /\ r.terminal \in Int
  BY DEF Transition
<1>2. s = [r EXCEPT !.stage = r.stage + a, !.terminal = r.terminal + b]
  BY DEF Credited
<1>3. /\ r.id # byFn[r.chain][r.fn] => r.stage + a = r.stage
      /\ r.id # byChain[r.chain] => r.terminal + b = r.terminal
      /\ r.id = byFn[r.chain][r.fn] => a = StageCredit(r.chain, r.fn)
      /\ r.id = byChain[r.chain] => b = TerminalCredit(r.chain)
  BY <1>1
<1> HIDE DEF a, b, s
<1>4. /\ s \in Transition /\ s.id = r.id /\ s.episode = r.episode /\ s.chain = r.chain
      /\ s.fn = r.fn /\ s.stage = r.stage + a /\ s.terminal = r.terminal + b
  <2> DEFINE v == r.stage + a
             w == r.terminal + b
  <2>1. v \in Int /\ w \in Int /\ s = [r EXCEPT !.stage = v, !.terminal = w]
    BY <1>1, <1>2
  <2> HIDE DEF v, w
  <2>2. /\ s \in Transition /\ s.id = r.id /\ s.episode = r.episode /\ s.chain = r.chain
        /\ s.fn = r.fn /\ s.stage = v /\ s.terminal = w
    BY <2>1 DEF Transition
  <2>. QED
    BY <2>2 DEF v, w
<1>5. r.stage + a = r.stage /\ r.terminal + b = r.terminal => s = r
  <2>. SUFFICES ASSUME r.stage + a = r.stage, r.terminal + b = r.terminal PROVE s = r
    OBVIOUS
  <2>1. s = [r EXCEPT !.stage = r.stage, !.terminal = r.terminal]
    BY <1>2
  <2>. QED
    BY <2>1 DEF Transition
<1>. QED
  BY <1>3, <1>4, <1>5 DEF s

\* The dictionaries after the step.
LEMMA DictionariesTyped ==
  ASSUME World, Buffer, Names, NEW q \in ActionOrders
  PROVE  /\ \A c \in Chain : LastByChain(q)[c] \in
              IF \E x \in acted : x[1] = c THEN (added + 1)..(added + Cardinality(acted))
              ELSE {ofChain[c]}
         /\ \A c \in Chain : \A f \in Fn : LastByFn(q)[c][f] \in
              IF <<c, f>> \in acted THEN (added + 1)..(added + Cardinality(acted))
              ELSE {ofFn[c][f]}
         /\ LastByChain(q) \in [Chain -> 0..(added + Cardinality(acted))]
         /\ LastByFn(q) \in [Chain -> [Fn -> 0..(added + Cardinality(acted))]]
<1> DEFINE n == Cardinality(acted)
<1>1. n \in Nat /\ added \in Nat
  BY OrderCounts DEF Buffer
<1>2. \A k \in 1..n : added + k \in (added + 1)..(added + n)
  BY <1>1
<1>3. ASSUME NEW c \in Chain
      PROVE  LastByChain(q)[c] \in IF \E x \in acted : x[1] = c THEN (added + 1)..(added + n)
                                   ELSE {ofChain[c]}
  <2>1. CASE \E x \in acted : x[1] = c
    <3>1. LastOf(q, c) \in (added + 1)..(added + n)
      BY <1>2, <2>1, LastOfAction
    <3>. QED
      BY <2>1, <3>1 DEF LastByChain
  <2>2. CASE ~(\E x \in acted : x[1] = c)
    BY <2>2 DEF LastByChain
  <2>. QED
    BY <2>1, <2>2
<1>4. ASSUME NEW c \in Chain, NEW f \in Fn
      PROVE  LastByFn(q)[c][f] \in IF <<c, f>> \in acted THEN (added + 1)..(added + n)
                                   ELSE {ofFn[c][f]}
  <2>1. CASE <<c, f>> \in acted
    <3>1. PICK k \in 1..n : q[k] = <<c, f>>
      BY <2>1, OrderCounts
    <3>2. IdOf(q, <<c, f>>) = added + k
      BY <3>1, IdOfAction
    <3>. QED
      BY <1>2, <2>1, <3>2 DEF LastByFn
  <2>2. CASE <<c, f>> \notin acted
    BY <2>2 DEF LastByFn
  <2>. QED
    BY <2>1, <2>2
<1>5. (added + 1)..(added + n) \subseteq 0..(added + n) /\ 0..added \subseteq 0..(added + n)
  BY <1>1
<1> HIDE DEF n
<1>6. ASSUME NEW c \in Chain PROVE LastByChain(q)[c] \in 0..(added + n)
  <2>1. ofChain[c] \in 0..(added + n)
    BY <1>5 DEF Names
  <2>2. LastByChain(q)[c] = ofChain[c] \/ LastByChain(q)[c] \in (added + 1)..(added + n)
    BY <1>3
  <2>. QED
    BY <1>5, <2>1, <2>2
<1>7. ASSUME NEW c \in Chain, NEW f \in Fn PROVE LastByFn(q)[c][f] \in 0..(added + n)
  <2>1. ofFn[c][f] \in 0..(added + n)
    BY <1>5 DEF Names
  <2>2. LastByFn(q)[c][f] = ofFn[c][f] \/ LastByFn(q)[c][f] \in (added + 1)..(added + n)
    BY <1>4
  <2>. QED
    BY <1>5, <2>1, <2>2
<1>8. LastByChain(q) \in [Chain -> 0..(added + n)]
  BY <1>6 DEF LastByChain
<1>9. LastByFn(q) \in [Chain -> [Fn -> 0..(added + n)]]
  BY <1>7 DEF LastByFn
<1>. QED
  BY <1>3, <1>4, <1>8, <1>9 DEF n

\* What holds of every transition r, held or new, when the step is credited.
Renamed(r, q) ==
  /\ \A c \in Chain : r.id = LastByChain(q)[c] => c = r.chain /\ r.episode = episode
  /\ r.id = LastByFn(q)[r.chain][r.fn] <=> r.episode = episode
  /\ r.episode = episode => r.id <= LastByChain(q)[r.chain]
Balanced(r, q) ==
  r.episode = episode =>
    /\ r.stage = Fate(before.task[r.chain][r.fn])
    /\ r.terminal = IF r.id = LastByChain(q)[r.chain] THEN Verdict(before.status[r.chain]) ELSE 0
Tasked(r) ==
  r.episode = episode => task[r.chain][r.fn] # "none" \/ Ended(chain[r.chain].status)
Fits(r, q) == Renamed(r, q) /\ Balanced(r, q) /\ Tasked(r)

\* A transition the buffer held before.
LEMMA OldFits ==
  ASSUME Learning, phase = "learn", NEW q \in ActionOrders, NEW k \in DOMAIN replay
  PROVE  Fits(replay[k], q)
<1> DEFINE r == replay[k]
<1>1. /\ r.chain \in Chain /\ r.fn \in Fn /\ r.id \in 1..added /\ added \in Nat
      /\ Cardinality(acted) \in Nat
  BY HeldTyped, OrderCounts DEF Learning, Buffer
<1>2. Named(r) /\ Account(r) /\ Tasked(r)
  BY DEF Learning, Names, Accounts, Placed, Tasked
<1>3. r.episode = episode => <<r.chain, r.fn>> \notin acted
  BY DEF Learning, Acting, Settled
<1> HIDE DEF r
<1>4. \A c \in Chain : IF \E x \in acted : x[1] = c THEN r.id < LastByChain(q)[c]
                       ELSE LastByChain(q)[c] = ofChain[c]
  <2>. TAKE c \in Chain
  <2>1. CASE \E x \in acted : x[1] = c
    <3>1. LastByChain(q)[c] \in (added + 1)..(added + Cardinality(acted))
      BY <2>1, DictionariesTyped DEF Learning
    <3>. QED
      BY <1>1, <2>1, <3>1
  <2>2. CASE ~(\E x \in acted : x[1] = c)
    BY <2>2 DEF LastByChain
  <2>. QED
    BY <2>1, <2>2
<1>5. IF <<r.chain, r.fn>> \in acted THEN r.id < LastByFn(q)[r.chain][r.fn]
      ELSE LastByFn(q)[r.chain][r.fn] = ofFn[r.chain][r.fn]
  <2>1. CASE <<r.chain, r.fn>> \in acted
    <3>1. LastByFn(q)[r.chain][r.fn] \in (added + 1)..(added + Cardinality(acted))
      BY <1>1, <2>1, DictionariesTyped DEF Learning
    <3>. QED
      BY <1>1, <2>1, <3>1
  <2>2. CASE <<r.chain, r.fn>> \notin acted
    BY <1>1, <2>2 DEF LastByFn
  <2>. QED
    BY <2>1, <2>2
<1>6. LastByChain(q)[r.chain] \in Int /\ LastByFn(q)[r.chain][r.fn] \in Int
  BY <1>1, DictionariesTyped DEF Learning
<1>7. Renamed(r, q)
  <2>1. ASSUME NEW c \in Chain, r.id = LastByChain(q)[c]
        PROVE  c = r.chain /\ r.episode = episode
    BY <1>1, <1>2, <1>4, <2>1 DEF Named
  <2>2. r.id = LastByFn(q)[r.chain][r.fn] <=> r.episode = episode
    BY <1>1, <1>2, <1>3, <1>5, <1>6 DEF Named
  <2>3. r.episode = episode => r.id <= LastByChain(q)[r.chain]
    BY <1>1, <1>2, <1>4, <1>6 DEF Named
  <2>. QED
    BY <2>1, <2>2, <2>3 DEF Renamed
<1>8. Balanced(r, q)
  <2>. SUFFICES ASSUME r.episode = episode
                PROVE  /\ r.stage = Fate(before.task[r.chain][r.fn])
                       /\ r.terminal = IF r.id = LastByChain(q)[r.chain]
                                       THEN Verdict(before.status[r.chain]) ELSE 0
    BY DEF Balanced
  <2>1. /\ r.stage = Fate(before.task[r.chain][r.fn])
        /\ r.terminal = IF r.id = ofChain[r.chain] THEN Verdict(before.status[r.chain]) ELSE 0
    BY <1>2 DEF Account, KnownTask, KnownStatus, Settled
  <2>2. CASE \E x \in acted : x[1] = r.chain
    <3>1. r.id # LastByChain(q)[r.chain]
      BY <1>1, <1>4, <1>6, <2>2
    <3>2. before.status[r.chain] = "running"
      BY <2>2 DEF Learning, Acting, Settled
    <3>3. Verdict(before.status[r.chain]) = 0
      BY <3>2 DEF Verdict
    <3>. QED
      BY <2>1, <3>1, <3>3
  <2>3. CASE ~(\E x \in acted : x[1] = r.chain)
    BY <1>1, <1>4, <2>1, <2>3
  <2>. QED
    BY <2>2, <2>3
<1>. QED
  BY <1>2, <1>7, <1>8 DEF Fits, r

\* A transition of the step.
LEMMA NewFits ==
  ASSUME IInv, Learning, phase = "learn", NEW q \in ActionOrders, NEW k \in 1..Cardinality(acted)
  PROVE  Fits(New(q)[k], q)
<1> DEFINE r == New(q)[k]
           x == q[k]
<1>1. /\ r.id = added + k /\ r.episode = episode /\ r.chain = x[1] /\ r.fn = x[2]
      /\ r.stage = 0 /\ r.terminal = 0
  <2>1. r = [id |-> added + k, episode |-> episode, chain |-> x[1], fn |-> x[2],
             stage |-> 0, terminal |-> 0]
    BY NewTyped DEF Learning
  <2>. QED
    BY <2>1
<1>2. x \in acted /\ x[1] \in Chain /\ x[2] \in Fn /\ x = <<x[1], x[2]>>
  BY OrderCounts DEF Learning, World
<1>3. added \in Nat /\ Cardinality(acted) \in Nat /\ k \in Nat
  BY OrderCounts DEF Learning, Buffer
<1>4. IdOf(q, x) = added + k
  BY IdOfAction DEF Learning
<1> HIDE DEF r
<1>5. LastByFn(q)[x[1]][x[2]] = added + k
  BY <1>2, <1>4 DEF LastByFn, x
<1>6. PICK m \in 1..Cardinality(acted) :
        /\ LastByChain(q)[x[1]] = added + m
        /\ \A j \in 1..Cardinality(acted) : q[j][1] = x[1] => j <= m
  <2>1. \E y \in acted : y[1] = x[1]
    BY <1>2
  <2>2. LastByChain(q)[x[1]] = LastOf(q, x[1])
    BY <1>2, <2>1 DEF LastByChain
  <2>. QED
    <3>1. PICK m \in 1..Cardinality(acted) :
            /\ LastOf(q, x[1]) = added + m
            /\ \A j \in 1..Cardinality(acted) : q[j][1] = x[1] => j <= m
      BY <1>2, <2>1, LastOfAction DEF Learning
    <3>. QED
      BY <2>2, <3>1
<1>7. ASSUME NEW c \in Chain, r.id = LastByChain(q)[c] PROVE c = x[1]
  <2>1. CASE \E y \in acted : y[1] = c
    <3>1. PICK j \in 1..Cardinality(acted) : LastOf(q, c) = added + j /\ q[j][1] = c
      BY <2>1, LastOfAction DEF Learning
    <3>2. LastByChain(q)[c] = added + j
      BY <2>1, <3>1 DEF LastByChain
    <3>3. j = k
      BY <1>1, <1>3, <1>7, <3>2
    <3>. QED
      BY <3>1, <3>3
  <2>2. CASE ~(\E y \in acted : y[1] = c)
    <3>1. LastByChain(q)[c] = ofChain[c] /\ ofChain[c] \in 0..added
      BY <2>2 DEF LastByChain, Learning, Names
    <3>. QED
      BY <1>1, <1>3, <1>7, <3>1
  <2>. QED
    BY <2>1, <2>2
<1>8. k <= m
  BY <1>6
<1>9. Renamed(r, q)
  BY <1>1, <1>3, <1>5, <1>6, <1>7, <1>8 DEF Renamed
<1>10. before.task[x[1]][x[2]] = "none" /\ before.status[x[1]] = "running"
       /\ (task[x[1]][x[2]] # "none" \/ ~Running(x[1])) /\ chain[x[1]].status # "pending"
  BY <1>2 DEF Learning, Acting, Settled
<1>11. Balanced(r, q)
  BY <1>1, <1>10 DEF Balanced, Fate, Verdict
<1>12. Tasked(r)
  <2>1. chain[x[1]].status \in Statuses
    BY <1>2 DEF IInv, Types, Record
  <2>. QED
    BY <1>1, <1>10, <2>1 DEF Tasked, Running, Ended, Statuses
<1>. QED
  BY <1>9, <1>11, <1>12 DEF Fits, r

\* The buffer after the step: its last transitions, held before or new, credited.
Source(r, q) ==
  /\ r \in Transition /\ Fits(r, q) /\ r.episode <= episode
  /\ (\E k \in DOMAIN replay : r = replay[k]) \/ (r.id > added /\ r.episode = episode)
After(m, q) ==
  \E r : /\ Source(r, q) /\ r.id = added' - Len(replay') + m
         /\ replay'[m] = Credited(r, LastByChain(q), LastByFn(q))

LEMMA Sources ==
  ASSUME IInv, Learning, phase = "learn", NEW q \in ActionOrders,
         NEW j \in 1..(Len(replay) + Cardinality(acted))
  PROVE  /\ Source((replay \o New(q))[j], q)
         /\ (replay \o New(q))[j].id = added - Len(replay) + j
<1> DEFINE l == Len(replay)
           n == Cardinality(acted)
           r == (replay \o New(q))[j]
<1>1. /\ replay \in Seq(Transition) /\ l \in Nat /\ DOMAIN replay = 1..l /\ added \in Nat
      /\ New(q) \in Seq(Transition) /\ Len(New(q)) = n /\ n \in Nat /\ episode \in Nat
  BY NewTyped, OrderCounts, TrainingBounds DEF Learning, Buffer, World
<1>2. r = IF j <= l THEN replay[j] ELSE New(q)[j - l]
  BY <1>1, ConcatProperties
<1> HIDE DEF r
<1>3. CASE j <= l
  <2>1. r = replay[j] /\ j \in DOMAIN replay
    BY <1>1, <1>2, <1>3
  <2>2. Fits(r, q) /\ r \in Transition
    BY <2>1, OldFits, HeldTyped DEF Learning
  <2>3. r.id = added - l + j /\ r.episode <= episode
    BY <2>1 DEF Learning, Buffer
  <2>. QED
    BY <2>1, <2>2, <2>3 DEF Source, r
<1>4. CASE ~(j <= l)
  <2>1. j - l \in 1..n /\ r = New(q)[j - l]
    BY <1>1, <1>2, <1>4
  <2>2. r = [id |-> added + (j - l), episode |-> episode, chain |-> q[j - l][1],
             fn |-> q[j - l][2], stage |-> 0, terminal |-> 0]
    BY <2>1, NewTyped DEF Learning
  <2>3. r.id = added + (j - l) /\ r.episode = episode
    BY <2>2
  <2>4. Fits(r, q) /\ r \in Transition
    BY <1>1, <2>1, NewFits, ElementOfSeq
  <2>5. r.id > added /\ r.id = added - l + j /\ r.episode <= episode
    BY <1>1, <2>1, <2>3
  <2>. QED
    BY <2>3, <2>4, <2>5 DEF Source, r
<1>. QED
  BY <1>3, <1>4

LEMMA LearnAfter ==
  ASSUME IInv, Learning, Learn
  PROVE  /\ phase = "learn" /\ phase' \in {"act", "over"}
         /\ \E q \in ActionOrders :
              /\ ofChain' = LastByChain(q) /\ ofFn' = LastByFn(q)
              /\ added' = added + Cardinality(acted)
              /\ replay' \in Seq(Transition)
              /\ Len(replay') <= Capacity /\ Len(replay') <= added'
              /\ \A m \in DOMAIN replay' : After(m, q)
<1>1. /\ phase = "learn" /\ phase' \in {"act", "over"}
      /\ added' = added + Cardinality(acted)
  BY DEF Learn, At
<1>2. PICK q \in ActionOrders :
        LET held == Newest(replay \o New(q))
        IN  /\ ofChain' = LastByChain(q)
            /\ ofFn' = LastByFn(q)
            /\ replay' = [k \in DOMAIN held |-> Credited(held[k], LastByChain(q), LastByFn(q))]
  BY DEF Learn
<1> DEFINE l == Len(replay)
           n == Cardinality(acted)
           s == replay \o New(q)
           h == Len(Newest(s))
<1>3. /\ replay \in Seq(Transition) /\ l \in Nat /\ added \in Nat /\ l <= added
      /\ New(q) \in Seq(Transition) /\ Len(New(q)) = n /\ n \in Nat
  BY NewTyped, OrderCounts DEF Learning, Buffer
<1>4. s \in Seq(Transition) /\ Len(s) = l + n
  BY <1>3, ConcatProperties
<1>5. /\ Newest(s) \in Seq(Transition) /\ h \in Nat /\ DOMAIN Newest(s) = 1..h
      /\ h = IF Len(s) < Capacity THEN Len(s) ELSE Capacity
      /\ \A k \in 1..h : Len(s) - h + k \in 1..Len(s) /\ Newest(s)[k] = s[Len(s) - h + k]
  BY <1>4, NewestKeeps, LenProperties
<1>6. h <= Capacity /\ h <= l + n
  BY <1>3, <1>4, <1>5, TrainingBounds
<1> HIDE DEF l, n, s, h
<1>7. \A k \in 1..h : /\ Source(Newest(s)[k], q)
                      /\ Newest(s)[k].id = added + n - h + k
  <2>. TAKE k \in 1..h
  <2> DEFINE j == Len(s) - h + k
  <2>1. j \in 1..Len(s) /\ Newest(s)[k] = s[j]
    BY <1>5
  <2>2. added - l + j = added + n - h + k
    BY <1>3, <1>4, <1>5
  <2> HIDE DEF j
  <2>3. Source(s[j], q) /\ s[j].id = added - l + j
    BY <1>1, <1>4, <2>1, Sources DEF l, n, s
  <2>. QED
    BY <2>1, <2>2, <2>3
<1>8. replay' = [k \in 1..h |-> Credited(Newest(s)[k], LastByChain(q), LastByFn(q))]
  BY <1>2, <1>5 DEF s, h
<1>9. ASSUME NEW r, Source(r, q)
      PROVE  Credited(r, LastByChain(q), LastByFn(q)) \in Transition
  <2>1. r \in Transition /\ r.chain \in Chain /\ r.fn \in Fn
    BY <1>9 DEF Source, Transition
  <2>2. StageCredit(r.chain, r.fn) \in Int /\ TerminalCredit(r.chain) \in Int
    BY <1>1, <2>1, StageSums, VerdictSums DEF Settled
  <2>. QED
    BY <2>1, <2>2, CreditedKeeps
<1>10. replay' \in [1..h -> Transition]
  BY <1>7, <1>8, <1>9
<1>11. replay' \in Seq(Transition) /\ Len(replay') = h /\ DOMAIN replay' = 1..h
  <2>1. replay' \in Seq(Transition)
    BY <1>5, <1>10, SeqDef
  <2>. QED
    BY <1>5, <1>10, <2>1, LenProperties
<1>12. Len(replay') <= added'
  BY <1>1, <1>3, <1>5, <1>6, <1>11 DEF n
<1>13. \A m \in DOMAIN replay' : After(m, q)
  <2>. TAKE m \in DOMAIN replay'
  <2>1. /\ Source(Newest(s)[m], q) /\ Newest(s)[m].id = added' - Len(replay') + m
        /\ replay'[m] = Credited(Newest(s)[m], LastByChain(q), LastByFn(q))
    <3>1. m \in 1..h /\ added' - Len(replay') + m = added + n - h + m
      BY <1>1, <1>3, <1>5, <1>11 DEF n
    <3>. QED
      BY <1>7, <1>8, <3>1
  <2>. QED
    BY <2>1 DEF After
<1>. QED
  BY <1>1, <1>2, <1>6, <1>11, <1>12, <1>13

\* What a credited transition carries: the fate of its task and, if it is the
\* last one of its chain, the verdict.
LEMMA AfterCredit ==
  ASSUME Learning, phase = "learn", NEW q \in ActionOrders, NEW r, Source(r, q)
  PROVE  LET s == Credited(r, LastByChain(q), LastByFn(q))
         IN  /\ s \in Transition
             /\ s.id = r.id /\ s.episode = r.episode /\ s.chain = r.chain /\ s.fn = r.fn
             /\ r.episode = episode =>
                  /\ s.stage = Fate(task[r.chain][r.fn])
                  /\ s.terminal = IF r.id = LastByChain(q)[r.chain]
                                  THEN Verdict(chain[r.chain].status) ELSE 0
             /\ r.episode # episode => s = r
<1> DEFINE s == Credited(r, LastByChain(q), LastByFn(q))
<1>1. r \in Transition /\ r.chain \in Chain /\ r.fn \in Fn /\ Renamed(r, q) /\ Balanced(r, q)
  BY DEF Source, Fits, Transition
<1>2. /\ StageCredit(r.chain, r.fn) \in Int /\ TerminalCredit(r.chain) \in Int
      /\ Fate(before.task[r.chain][r.fn]) + StageCredit(r.chain, r.fn) = Fate(task[r.chain][r.fn])
      /\ Verdict(before.status[r.chain]) + TerminalCredit(r.chain) = Verdict(chain[r.chain].status)
  BY <1>1, StageSums, VerdictSums DEF Settled
<1>3. /\ s \in Transition
      /\ s.id = r.id /\ s.episode = r.episode /\ s.chain = r.chain /\ s.fn = r.fn
      /\ s.stage = IF r.id = LastByFn(q)[r.chain][r.fn]
                   THEN r.stage + StageCredit(r.chain, r.fn) ELSE r.stage
      /\ s.terminal = IF r.id = LastByChain(q)[r.chain]
                      THEN r.terminal + TerminalCredit(r.chain) ELSE r.terminal
      /\ (r.id # LastByFn(q)[r.chain][r.fn] /\ r.id # LastByChain(q)[r.chain]) => s = r
  BY <1>1, <1>2, CreditedKeeps
<1> HIDE DEF s
<1>4. r.episode = episode =>
        /\ s.stage = Fate(task[r.chain][r.fn])
        /\ s.terminal = IF r.id = LastByChain(q)[r.chain]
                        THEN Verdict(chain[r.chain].status) ELSE 0
  BY <1>1, <1>2, <1>3 DEF Renamed, Balanced
<1>5. r.episode # episode => s = r
  BY <1>1, <1>3 DEF Renamed
<1>. QED
  BY <1>3, <1>4, <1>5 DEF s

LEMMA LearnLearns == IInv /\ Learning /\ Learn => Learning'
<1>. SUFFICES ASSUME IInv, Learning, Learn PROVE Learning'
  OBVIOUS
<1>1. /\ phase = "learn" /\ phase' \in {"act", "over"}
      /\ UNCHANGED <<episode, chain, decision, placed, task, now, offered, ticks, steps>>
      /\ acted' = {} /\ before' = Nothing
      /\ phase' = "act" => ~Done(steps)
  BY DEF Learn, At, runtime
<1>2. PICK q \in ActionOrders :
        /\ ofChain' = LastByChain(q) /\ ofFn' = LastByFn(q)
        /\ added' = added + Cardinality(acted)
        /\ replay' \in Seq(Transition)
        /\ Len(replay') <= Capacity /\ Len(replay') <= added'
        /\ \A m \in DOMAIN replay' : After(m, q)
  BY LearnAfter
<1>3. added' \in Nat
  BY <1>2, OrderCounts DEF Learning, Buffer
<1>4. World'
  <2>1. Nothing \in [status : [Chain -> Statuses], task : [Chain -> [Fn -> TaskStatuses]]]
    BY DEF Nothing, NoTasks, Statuses, TaskStatuses
  <2>2. phase' = "act" => steps < MaxSteps
    BY <1>1, TrainingBounds DEF Done, Learning, World
  <2>. QED
    BY <1>1, <2>1, <2>2 DEF Learning, World
<1>5. ASSUME NEW m \in DOMAIN replay'
      PROVE  /\ replay'[m].id = added' - Len(replay') + m /\ replay'[m].episode <= episode
             /\ Tasked(replay'[m])
             /\ \A c \in Chain : replay'[m].id = ofChain'[c] =>
                  c = replay'[m].chain /\ replay'[m].episode = episode'
             /\ replay'[m].id = ofFn'[replay'[m].chain][replay'[m].fn]
                  <=> replay'[m].episode = episode'
             /\ replay'[m].episode = episode' => replay'[m].id <= ofChain'[replay'[m].chain]
             /\ replay'[m].episode = episode' =>
                  /\ replay'[m].stage = Fate(task'[replay'[m].chain][replay'[m].fn])
                  /\ replay'[m].terminal = IF replay'[m].id = ofChain'[replay'[m].chain]
                                           THEN Verdict(chain'[replay'[m].chain].status) ELSE 0
  <2> DEFINE t == replay'[m]
  <2>1. PICK r : /\ Source(r, q) /\ r.id = added' - Len(replay') + m
                 /\ t = Credited(r, LastByChain(q), LastByFn(q))
    BY <1>2, <1>5 DEF After
  <2> HIDE DEF t
  <2>2. /\ t.id = r.id /\ t.episode = r.episode /\ t.chain = r.chain /\ t.fn = r.fn
        /\ r.episode = episode =>
             /\ t.stage = Fate(task[r.chain][r.fn])
             /\ t.terminal = IF r.id = LastByChain(q)[r.chain]
                             THEN Verdict(chain[r.chain].status) ELSE 0
    BY <1>1, <2>1, AfterCredit
  <2>3. Renamed(r, q) /\ Tasked(r) /\ r.episode <= episode
    BY <2>1 DEF Source, Fits
  <2>4. t.id = added' - Len(replay') + m /\ t.episode <= episode /\ Tasked(t)
    BY <2>1, <2>2, <2>3 DEF Tasked
  <2>5. /\ \A c \in Chain : t.id = ofChain'[c] => c = t.chain /\ t.episode = episode'
        /\ t.id = ofFn'[t.chain][t.fn] <=> t.episode = episode'
        /\ t.episode = episode' => t.id <= ofChain'[t.chain]
    BY <1>1, <1>2, <2>2, <2>3 DEF Renamed
  <2>6. t.episode = episode' =>
          /\ t.stage = Fate(task'[t.chain][t.fn])
          /\ t.terminal = IF t.id = ofChain'[t.chain] THEN Verdict(chain'[t.chain].status) ELSE 0
    BY <1>1, <1>2, <2>2
  <2>. QED
    BY <2>4, <2>5, <2>6 DEF t
<1>6. Buffer'
  BY <1>1, <1>2, <1>3, <1>5 DEF Buffer
<1>7. Names'
  <2>1. ofChain' \in [Chain -> 0..added'] /\ ofFn' \in [Chain -> [Fn -> 0..added']]
    BY <1>2, DictionariesTyped DEF Learning
  <2>. QED
    BY <1>5, <2>1 DEF Names, Named
<1>8. Accounts'
  BY <1>1, <1>5 DEF Accounts, Account, KnownTask, KnownStatus, Settled
<1>9. Placed'
  BY <1>1, <1>5 DEF Placed, Tasked
<1>10. Offer'
  BY <1>1 DEF Learning, Offer
<1>11. Steady' /\ Acting'
  BY <1>1 DEF Steady, Acting, Settled
<1>. QED
  BY <1>4, <1>6, <1>7, <1>8, <1>9, <1>10, <1>11 DEF Learning

-----------------------------------------------------------------------------
\* The buffer, its dictionaries and its credits are in order in every step of a
\* training run.
THEOREM LearningTheorem == Spec => []Learning
<1>1. IInv /\ Learning /\ [Next]_vars => Learning'
  <2>. SUFFICES ASSUME IInv, Learning, [Next]_vars PROVE Learning'
    OBVIOUS
  <2>1. CASE UNCHANGED vars
    BY <2>1 DEF vars, runtime, learning, Learning, World, Buffer, Names, Named, Offer, Placed,
       Steady, Acting, Accounts, Account, KnownTask, KnownStatus, Settled, Running,
       ReadyUnspawned, Offerable
  <2>. QED
    BY <2>1, ActLearns, PrepareLearns, TickLearns, CloseLearns, LearnLearns, NextEpisodeLearns
    DEF Next, Trained
<1>. QED
  BY InitLearns, <1>1, Invariance, PTL DEF Spec

\* Every variable of the training run has its type, the buffer keeps to its
\* capacity (ReplayBuffer.add) and the episode to its horizon (done).
THEOREM TypeCorrect == Spec => []TypeOK
<1>1. IInv /\ Learning => TypeOK
  <2>. SUFFICES ASSUME IInv, Learning PROVE TypeOK
    OBVIOUS
  <2>1. ofChain \in [Chain -> Nat] /\ ofFn \in [Chain -> [Fn -> Nat]]
    BY DEF Learning, Names, Buffer
  <2>. QED
    BY <2>1 DEF IInv, Types, Record, Learning, World, Buffer, TypeOK
<1>. QED
  BY Invariance, LearningTheorem, <1>1, PTL

\* A transition_id names one transition of the buffer.
LEMMA Cancel ==
  ASSUME NEW d \in Int, NEW a \in Int, NEW b \in Int, d + a = d + b
  PROVE  a = b
OBVIOUS

LEMMA SameId ==
  ASSUME Buffer, NEW j \in DOMAIN replay, NEW k \in DOMAIN replay, replay[j].id = replay[k].id
  PROVE  replay[j] = replay[k]
<1>1. added - Len(replay) \in Int /\ j \in Int /\ k \in Int
  BY DEF Buffer
<1>2. replay[j].id = added - Len(replay) + j /\ replay[k].id = added - Len(replay) + k
  BY DEF Buffer
<1>3. (added - Len(replay)) + j = (added - Len(replay)) + k
  BY <1>2, Zenon
<1>4. j = k
  BY <1>1, <1>3, Cancel
<1>. QED
  BY <1>4

\* The fate of a function is credited once, to the one placement of the function
\* in the episode (apply_stage_credits).
THEOREM FateTheorem == Spec => []FateCreditedOnce
<1>1. Learning => FateCreditedOnce
  <2>. SUFFICES ASSUME Learning, Settled, NEW k \in DOMAIN replay, replay[k].episode = episode
                PROVE  /\ replay[k].stage = Fate(task[replay[k].chain][replay[k].fn])
                       /\ \A j \in DOMAIN replay :
                            replay[j].episode = episode /\ replay[j].chain = replay[k].chain
                            /\ replay[j].fn = replay[k].fn => replay[j] = replay[k]
    BY DEF FateCreditedOnce, OfEpisode, Held
  <2>1. replay[k].stage = Fate(task[replay[k].chain][replay[k].fn])
    BY DEF Learning, Accounts, Account, KnownTask
  <2>2. ASSUME NEW j \in DOMAIN replay, replay[j].episode = episode,
               replay[j].chain = replay[k].chain, replay[j].fn = replay[k].fn
        PROVE  replay[j] = replay[k]
    <3>1. replay[j].id = replay[k].id
      BY <2>2 DEF Learning, Names, Named
    <3>. QED
      BY <3>1, SameId DEF Learning
  <2>. QED
    BY <2>1, <2>2
<1>. QED
  BY LearningTheorem, <1>1, PTL

\* The verdict of a chain is credited once, to its last placement: the
\* dictionary and the buffer agree on which one that is, whatever was dropped
\* (apply_terminal_credits).
THEOREM VerdictTheorem == Spec => []VerdictCreditedOnce
<1>1. Learning => VerdictCreditedOnce
  <2>. SUFFICES ASSUME Learning, Settled, NEW k \in DOMAIN replay, replay[k].episode = episode
                PROVE  replay[k].terminal = IF LastOfChain(replay[k])
                                            THEN Verdict(chain[replay[k].chain].status) ELSE 0
    BY DEF VerdictCreditedOnce, OfEpisode, Held
  <2> DEFINE r == replay[k]
             c == r.chain
  <2>1. r.terminal = IF r.id = ofChain[c] THEN Verdict(chain[c].status) ELSE 0
    BY DEF Learning, Accounts, Account, KnownStatus
  <2>2. c \in Chain /\ r.id \in 1..added /\ r.id <= ofChain[c]
    BY HeldTyped DEF Learning, Names, Named
  <2>3. /\ added \in Nat /\ Len(replay) \in Nat /\ DOMAIN replay = 1..Len(replay)
        /\ Len(replay) <= added /\ ofChain[c] \in 0..added /\ k \in Nat
        /\ r.id = added - Len(replay) + k
    BY <2>2 DEF Learning, Buffer, Names
  <2>4. ASSUME r.id = ofChain[c] PROVE LastOfChain(r)
    BY <2>4 DEF LastOfChain, OfEpisode, Held, Learning, Names, Named
  <2>5. ASSUME LastOfChain(r) PROVE r.id = ofChain[c]
    <3> DEFINE j == ofChain[c] - added + Len(replay)
    <3>1. j \in DOMAIN replay /\ added - Len(replay) + j = ofChain[c]
      BY <2>2, <2>3
    <3>2. replay[j].id = ofChain[c]
      BY <3>1 DEF Learning, Buffer
    <3>3. replay[j].chain = c /\ replay[j].episode = episode
      BY <2>2, <3>1, <3>2 DEF Learning, Names, Named
    <3>4. replay[j].id <= r.id
      BY <2>5, <3>1, <3>3 DEF LastOfChain, OfEpisode, Held
    <3>. QED
      BY <2>2, <2>3, <3>2, <3>4
  <2>. QED
    BY <2>1, <2>4, <2>5
<1>. QED
  BY LearningTheorem, <1>1, PTL

\* A late credit never reaches a transition of an earlier episode, though the
\* chains and functions carry the same names (the dictionaries of train).
THEOREM PastTheorem == Spec => PastIsSettled
<1>. DEFINE Untouched ==
       \A k \in DOMAIN replay : replay[k].episode < episode =>
         \A m \in DOMAIN replay' : replay'[m].id = replay[k].id => replay'[m] = replay[k]
<1>1. ASSUME Learning, NEW j \in DOMAIN replay, NEW k \in DOMAIN replay,
             replay[j].id = replay[k].id
      PROVE  replay[j] = replay[k]
  <2>. QED
    BY <1>1, SameId DEF Learning
<1>2. ASSUME IInv, Learning, Learn PROVE Untouched
  <2>. SUFFICES ASSUME NEW k \in DOMAIN replay, replay[k].episode < episode,
                       NEW m \in DOMAIN replay', replay'[m].id = replay[k].id
                PROVE  replay'[m] = replay[k]
    OBVIOUS
  <2>1. PICK q \in ActionOrders : After(m, q)
    BY <1>2, LearnAfter
  <2>2. PICK r : Source(r, q) /\ replay'[m] = Credited(r, LastByChain(q), LastByFn(q))
    BY <2>1 DEF After
  <2>3. phase = "learn"
    BY <1>2, LearnAfter
  <2>4. replay'[m].id = r.id /\ (r.episode # episode => replay'[m] = r)
    BY <1>2, <2>2, <2>3, AfterCredit
  <2>5. replay[k].id \in 1..added /\ added \in Nat /\ replay[k].episode \in Nat /\ episode \in Nat
    BY <1>2, HeldTyped, TrainingBounds DEF Learning, Buffer, World
  <2>6. ~(r.id > added)
    BY <2>4, <2>5
  <2>7. \E j \in DOMAIN replay : r = replay[j]
    BY <2>2, <2>6 DEF Source
  <2>8. r = replay[k]
    BY <1>1, <1>2, <2>4, <2>7
  <2>. QED
    BY <2>4, <2>5, <2>8
<1>3. ASSUME Learning, Act \/ Prepare \/ Tick \/ Close \/ NextEpisode \/ UNCHANGED vars
      PROVE  Untouched
  <2>1. replay' = replay
    BY <1>3 DEF Act, Prepare, Tick, Close, NextEpisode, learning, vars
  <2>. QED
    BY <1>1, <1>3, <2>1
<1>4. IInv /\ Learning /\ [Next]_vars => [Untouched]_vars
  BY <1>2, <1>3 DEF Next, Trained
<1>. QED
  BY Invariance, LearningTheorem, <1>4, PTL DEF Spec, PastIsSettled

=============================================================================
