# AirFogSim in TLA+

AirFogSim simulates vehicular fog computing: vehicles, UAVs, road-side units (RSUs) and cloud servers
offload tasks to one another over radio and a wired backhaul. On top of it LASDM plans service chains,
graphs of functions with a deadline, onto service instances, and runs each function as an AirFogSim task.

The Python code is under `src/AirFogSim/airfogsim`; paths below are relative to that directory unless
they start with `src/`. The simulator is single-threaded: `AirFogSimEnv.step` is a straight line of
handlers called in a loop. What is hard about it is not threads but the order in which a dozen handlers
touch the same tasks, with departures of nodes, late answers, audits and exceptions in between, and the
shared lists through which they talk. Around it stand two things that are concurrent: the messages between
regional agents, which take time, and the processes of the training runner.

- [Inventory](#inventory)
- [Modules](#modules)
- [Runs](#runs)
- [Fairness](#fairness)
- [Proofs](#proofs)
- [Divergences found](#divergences-found)
- [What is not modelled](#what-is-not-modelled)
- [Plan](#plan)

## Inventory

| Component | State | Operations | What makes it correct | Modelled |
|---|---|---|---|---|
| **Task lifecycle**: `manager/task_manager.py`, `entities/task.py`, the step of `airfogsim_env.py` | nine collections of tasks by node (to generate, waiting, offloading, computing, waiting to return, returning, done, out of deadline or failed, removed), the dependency graph, the fields of each `Task` | generate, register, offload, finish or fail an offloading, compute, request and start a return, `checkTasks`, `removeTasksByNodeId` | every task is in one queue; a done task was computed and delivered; children start after their parents; deadlines are enforced; verdicts are final; every task gets one | `TaskLifecycle` |
| **Service chains and bridge**: `lasdm/manager.py`, `runtime_bridge.py`, `task_adapter.py`, `env_adapter.py` | chains with status and times, decisions, completed functions, processed tasks | submit, create the tasks of ready functions, offload them, read the done and failed lists, time out, complete, mark at the end | a chain ends once; success means every function, each after those it needs; a failed or late function is not overlooked; every chain ends | `ServiceChain`, `ServiceContract` |
| **Chain planner**: `lasdm/orchestrator.py` | the reservations of the chain being planned | place, skip, roll back, accept, reject | reservations balance; none beyond capacity; none on a missing node | `ServiceChain` |
| **Instance directory and lifecycle**: `lasdm/instance_directory.py`, `instance_lifecycle.py` | instances with status, load, resources, phase, heartbeats | select, reserve, release, refresh, register, heartbeat, deploy, scale, drain, recover | selection respects status, concurrency and capacity; phases and status agree | selection, reservation and refresh in `ServiceChain` |
| **Discovery and semantic exchange**: `lasdm/service_discovery_protocol.py`, `semantic_exchange.py`, `semantic_cache.py`, `distributed_catalog.py`, the exchange in `marl_env.py` | messages under way, a cache of advertisements per agent, the neighbours of the regions | advertise, deliver what is due, cache, prune, offer remote candidates | what is offered is recent; a late message does not replace a newer one; no advertisement is lost by its delay | `SemanticDiscovery` |
| **Wired backhaul**: `manager/wired_manager.py` | links, flows with rest and rate | add a flow, advance, drop a finished one | shares within the bandwidth of a link; a flow moves the task it was queued for | the existence of flows in `TaskLifecycle` |
| **Wireless channel**: `manager/channel_manager_cp.py`, `channel_callback/` | resource blocks, rates | allocate, compute SINR and rate | the allocation names present radio nodes and transmitting tasks | the assertions in `TaskLifecycle` |
| **Node storage**: `manager/storage_manager.py` | entries by node, used size | put with LRU eviction, get | within capacity; nothing counted twice | no |
| **UAV energy**: `manager/energy_manager.py` | energy by UAV | consume, remove an exhausted UAV | a UAV without energy leaves with its tasks and missions | departure of UAVs |
| **Authentication**: `manager/simple_auth_manager.py`, `scheduler/auth_sched.py` | trust, credentials, validated tasks | authenticate, validate results, revoke | a malicious result is revoked once | the audit |
| **Sensors and missions**: `manager/sensor_manager.py`, `mission_manager.py`, `entities/mission.py`, `sensor.py` | sensors by state, profiles, executing, successful and failed missions, the stay at a waypoint, the task of a mission | profile, appoint, start, stay, compute and return, succeed, fail, disable | a busy sensor has one mission and a mission its sensor, whatever leaves; a mission can succeed | `Missions` |
| **Blockchain**: `manager/block_manager.py` | chain, pending transactions | pack, choose a miner, append | hashes link up, no transaction twice | no |
| **Traffic**: `manager/traffic_manager.py` and SUMO | vehicles and positions | advance, spawn, remove | ids are unique; a removed vehicle is reported once | departure of vehicles, and arrival in `Missions` |
| **Regional service orchestration**: `service_orchestration/` | an earlier orchestrator with a small runtime of its own | request, match, run | as for LASDM | no |
| **Generic schedulers**: `scheduler/*.py` | the decisions recorded for the next step | offload, return, allocate | decisions refer to listed tasks | decisions are left open in `TaskLifecycle` |
| **Learning agents and baselines**: `lasdm/marl*.py`, `algorithm/`, policies, `src/methods_baselines/lasdm` | chains and decisions of an episode, the snapshots of a step, the replay buffer and its late credits, networks | observe, act, refuse, advance the runtime, replan, credit, learn | only agents decide; a chain is refused only after it was seen; every placement is credited once with what became of it | the episode and the buffer in `MarlEpisode` |
| **Observation and metrics**: `lasdm/metrics.py`, `event_logger.py`, `airfogsim_evaluation.py` | logs | read, write | they only read | no |
| **Training runner**: `src/scripts/run_stage1_training_sharded.py` | worker processes, checkpoints, results, the manifest | start, poll, stop, collect; again with `--force` or `--skip-completed` | nothing is left running; the manifest is true | `TrainingShards` |
| **Visualisation, examples, other scripts** | | | | no |

How they interact. The bridge registers tasks with `TaskManager` and asks for offloadings and return
routes between two steps. A step removes departed vehicles, lets the audit revoke done results, releases
arrived tasks, starts returns, moves data by radio and by wire, computes, removes exhausted UAVs, advances
the clock and checks every queue. `TaskManager` is called by all of them. After the step the bridge reads
two lists, done and out of deadline (which holds every failed task), and turns them into verdicts on
chains. The coupling is by shared lists and by task ids; no message tells anyone that something changed.

What is hard to test. Each hazard is listed in `PROJECT.json` at its line. In short: state read in one
handler and used three handlers later (radio blocks, flows, the directory of instances); a query that
changes what it reads; two clocks on one task; departures in the middle of everything; a planner that
fails half way; verdicts applied in the order failed, late, complete; things only a deadline ends; credits
that come after the transition they belong to was dropped; messages that take longer than the topology
they were sent in lasts; and files that a crashed or an earlier run has left.

## Modules

| Module | What it is |
|---|---|
| `TaskLifecycle` | tasks, queues and the handlers of a step |
| `MCTaskLifecycle` | one vehicle, one UAV, two wired RSUs, a cloud; two workloads |
| `TaskLifecycleProofs` | its inductive invariant and theorems: queues, results, deadlines, verdicts |
| `TaskServiceProofs` | further theorems: departures, dependencies, assertions, the spread of failures |
| `ServiceContract` | what LASDM promises of a chain: the abstract specification |
| `ServiceChain` | manager, planner, bridge and the loop of `run_benchmark` |
| `MCServiceChain` | two chains that compete for two instances |
| `ServiceChainProofs` | its inductive invariant, theorems, and the refinement of the contract |
| `ChainLedgerProofs` | further theorems: the reservations, the second synchronisation |
| `MarlEpisode` | the training environment, its step, and the replay buffer |
| `MCMarlEpisode` | a chain that forks and one that arrives later; two episodes |
| `MarlEpisodeProofs` | its inductive invariant and theorems |
| `SemanticDiscovery` | the exchange of advertisements between regional agents |
| `MCSemanticDiscovery` | three agents and a region without one; five topologies |
| `SemanticDiscoveryProofs` | its inductive invariant and theorems |
| `Missions` | sensors, missions and the nodes they depend on |
| `MCMissions` | two missions; two vehicles and two UAVs, three sensors |
| `MissionsProofs` | its inductive invariant and theorems |
| `TrainingShards` | the training runner, its workers and their files |
| `MCTrainingShards` | three jobs, two at a time, two invocations |
| `TrainingShardsProofs` | its inductive invariant and theorems |

`PROJECT.json` maps every definition to the lines it stands for. Some properties have a *mutant* beside
the definition it changes: the same definition with a plausible mistake, used to see that the property
notices.

### TaskLifecycle

A task is a record: the set `at` of the queues that list it, where its data is (`cur`), where it is
assigned, the node its result goes to, the rest of its route, whether it was computed, its clock and its
failure code. The queues of `TaskManager` are lists; a task occurs twice only through the query
`getOffloadingTasksWithNumber`, which appends the tasks returning from a node to the *stored* offloading
list of that node. Those copies are the queue `"echo"`. A bridge task that was not built yet is `"unborn"`.

`phase` names the handler that runs next. Between two steps, in phase `schedule`, any number of
`Register`, `Offload`, `OffloadRefused` and `RequestReturn` may happen; `ScheduleCommunication` ends it.
Then, in the order of `AirFogSimEnv.step`:

| Phase | Action | Code |
|---|---|---|
| traffic | `UpdateTraffics` | `_updateTraffics`, `_removeVehicle`, `removeTasksByNodeId` |
| auth | `ValidateTaskResults` | `_validateTaskResults` |
| generate | `GenerateAndCheckTasks` | `generateAndCheckTasks` with its `checkTasks` |
| return | `StartReturns` | `setTaskReturnRouteAndStartReturn`, second `checkTasks` |
| wireless | `UpdateWireless` | `_allocate_communication_RBs` with its assertions, `finishOffloadingTask` |
| wired | `UpdateWired` | `_updateWiredCommunication` |
| compute | `UpdateComputation` | `_updateComputation`, `Task.compute` |
| settle | `Settle` | removal of UAVs, the clock, third `checkTasks`, cleared decisions |

`CheckTasks` is `checkTasks` stage by stage: local tasks, returns that need no transfer, transmission
timeouts, then deadlines and failed parents. The cascade of failed parents depends on the order in which
the queues are visited (`Visit`); the order inside one queue is left open. An exception out of a handler
is `Raise`: it names the reason in `crash` and the simulation stops.

A run ends in the phase `end`, through `Finish`, between two steps and whatever is pending. `IsDone` is
`isDone`: `MaxTime`, which stands for `max_simulation_time`, is reached, or a step has found that the last
UAV is gone and has set `force_quit` (`airfogsim_env.py:904`, `1136`). Loops that ask `isDone` each time
(`run_benchmark`) then stop; those that do not (`_warmup_env`, `advance_runtime`) go on stepping, so both
are possible until `MaxTime`.

What is abstracted:

- Amounts of data and cycles. An interval of transfer or computation completes or does not; which is left
  open. A drained flow does complete the hop it was queued for (`Consistent`).
- Decisions. Any route of `OffloadRoutes` and `ReturnRoutes` whose nodes are present may be chosen at any
  time, and any of the tasks that need radio blocks may get some.
- Which results are bad: the audit may revoke any done one.
- Positions and energy: any vehicle may leave in any step, any UAV at the end of it. A departed node does
  not return. Vehicles that arrive later are not modelled.
- One traffic interval is one simulation interval, and time is counted in it.
- Generated tasks are predicted up front, as `generateAndCheckTasks` predicts them, and released on arrival.
- Stage 5 of `checkTasks` prunes the dependency graph and does not change what an unfinished task waits
  for; it is left out.

The one bound is `MaxTime`: even the loops that do not ask `isDone` stop there. Bridge tasks may be
registered at any time before it, and be cut short by it.

### ServiceChain

One round of `run_benchmark`, in the order of its `phase`:

| Phase | Action | Code |
|---|---|---|
| loop | `Loop` | the loop condition: `isDone`, `max_steps`, all chains terminal |
| sync | `Sync` | `sync_from_airfogsim_tasks` before the step |
| instances | `SyncInstances` | `sync_service_instances` |
| submit | `Submit` | `submit_chain`, for any chains the provider hands over |
| plan, rollback | `StartPlan`, `PlaceFunction`, `SkipOptional`, `NoCandidate`, `Rollback`, `Reject`, `Accept` | `LASDMOrchestrator.plan` |
| plan | `CreateTasks` | `create_ready_function_tasks`, `_ready_input`, `_task_deadline` |
| apply | `ApplyDecisions` | `apply_orchestration_decision` |
| traffic, audit, advance | `Leave`, `Audit`, `Advance` | `env.step`, reduced to what it may do to chain tasks |
| advance | `StepRaises` | an exception out of `env.step`: the lists are read once more, the run stops |
| post, final, abort | `Sync` | `sync_from_airfogsim_tasks` after the step, after the loop, after an exception |
| mark | `MarkUnfinished` | `_mark_unfinished_chains` |

`Sync` reads the unread done tasks and the unread failed ones, and gives each running chain its
`Conclusion`: the first failed task decides, else the deadline, else whether the last functions are done.
The manager does not look at the other functions, which is why `SuccessIsComplete` is a property and not a
guard.

What is abstracted:

- `env.step` is an over-approximation of `TaskLifecycle`: an active task moves, computes, is delivered
  (within its deadline), fails, or is removed with a node it depends on. Only the last functions of a chain
  return to its sink, so only they depend on it.
- The score of the candidates: any instance that matches and has room may be selected.
- DEGRADED instances are as selectable as ACTIVE ones, so one flag `up` is kept. An unauthenticated node
  degrades its instances, the failed ones included, and so brings them back.
- Resources are one number. Payload sizes are static, so the predecessor with the largest output is a
  constant (`Carrier`).
- The smallest deadline of a task (1e-6 s) is 0 in whole intervals.
- Of a function's `qos_override` only the deadline is kept (`Override`, `EffectiveDeadline`). It is counted
  from the submission of the chain like the chain's, may be shorter or longer, and does not change when the
  chain itself times out.
- Chains are planned in any order, and a rejected chain is marked failed at the end of its rollback; the
  code does both in one call of the planning loop.
- The assignments of a rejected decision are never read again and are dropped with their reservations.
- RSUs do not leave, so that the nodes on a route between a task's owner and its processor do not matter.
- Trust thresholds (0 here), semantic gating (a constant hook of this bridge), node aliases and warm-up.

### ServiceContract

A chain has a verdict and a set of delivered functions. Functions are delivered after those they need; a
verdict moves from pending to running to one of succeeded, failed and timed out, and stays; it becomes
succeeded only together with the delivery of every function. `KeepsContract` in `ServiceChain` states
that LASDM implements it, with `verdict` the status of the chain and `delivered` the `completed_nodes` of
the bridge.

### MarlEpisode

The chains, decisions and tasks are those of `ServiceChain`, reduced to what an agent sees. `phase` is where
the training loop is:

| Phase | Action | Code |
|---|---|---|
| act | `Act` | `step` up to the runtime: chains that are due, the decisions decoded, refused or missing |
| prepare | `Prepare` | `prepare_airfogsim_step`: a synchronisation, then the tasks of the ready functions |
| tick | `Tick` | one tick of `advance_runtime`, with the synchronisation after it |
| close | `Close` | decisions released for replanning, deadlines, arrivals, observations |
| learn | `Learn` | rewards, the transitions of the step, the terminal and stage credits |
| over | `NextEpisode`, `Trained` | the loop over episodes |

A replanned decision drops the sibling whose offload was refused together with the placed ones
(`lasdm/marl_env.py:340`), so that it is placed again. A credit whose transition the buffer has dropped is
dropped with it. `reset()` of one and the same environment clears neither the discovery caches nor the
chains of the manager; the drivers of the repository build a fresh environment per episode, and so does the
module. Rewards are their signs; observations are the functions with candidates. The task of a function with
a deadline of its own (`Overriding`) may fail, or go on, at any time.

### SemanticDiscovery

One message stands for all the advertisements an agent sends another in one exchange. `Reset` and `Warm` are
the two exchanges of `reset()`, the second dated in the future; `StepExchange` is that of `step()`;
`Advance` moves the clock and the topology; `Observe` reads and prunes the caches of the agents that query.
The neighbours are those of `_expand_neighbor_map_by_radius`, and an agent all of whose neighbours are
direct sends only to the first `radius_hops` names, as `step_exchange` has it.

`StepsOutlastMessages` is an assumption: a step of the environment lasts at least as long as the slowest
message. It holds of both shipped configurations
(`src/methods_baselines/lasdm/configs/semantic_topology_marl.yaml:385`, where the delays are 0), and of the
default delays (0.1 s and 0.02 s a hop) with intervals of a second; it does not hold of the defaults with
steps of 0.1 s. Without it a message over two hops may be overtaken by the one sent a step later over one,
and the cache keeps what arrives last. Failed instances are advertised like others
(`lasdm/semantic_exchange.py:69`); nothing here depends on it.

### Missions

A mission is in one list at a time (`mission`): a profile, new (appointed, in `new_missions` of the
environment), executing, succeeded, failed, or failed before it was appointed. A sensor is idle, busy or
unavailable, or not deployed yet because its vehicle has not entered. The order within a step is `Traffic`,
then for each sub-step `UpdateTask`, `UpdateMission`, `Work`, `Energy`, then `EndStep`; `Schedule` is
`scheduleMission` before it. `Leave` is what `_removeVehicle` and `_removeUAV` do to missions: those of the
node fail, executing or new, and so do executing ones whose result goes over it.

The task of a mission is reduced to its stage. Its result goes to an RSU, and, for a vehicle, possibly over
a UAV: `relay`. Every profile the repository generates has one waypoint and one task. `broken` records a
failed assertion of `SensorManager`.

### TrainingShards

A checkpoint or result file is absent, incomplete, or written by the worker of some run; `open` and `close` of
a file are two steps. A worker may fail at any point. The runner may be killed at any point and its workers go
on; the next invocation is then made beside them. `Invoke` chooses between `--force`, `--skip-completed` and
neither. A worker's write of its result and its exit with 0 are one step. A MASAC worker empties the directory
of its seed first and catches an error of its final save
(`src/methods_baselines/lasdm/run_complete_runtime_experiment.py:842`); MAPPO and IQL workers do neither.

## Runs

Passing runs:

| Run | Specification | Asks |
|---|---|---|
| `task_dag` | `FairSpec` of `TaskLifecycle`, a parent, its child and a sibling on the UAV | `ChildAfterParents`, `DeadlineEnforced`, `FailureSpreads`, `EveryTaskSettles` |
| `task_chain` | `Spec` of `TaskLifecycle`, two bridge tasks that return to the UAV | `TypeOK`, `SingleQueue`, `DoneIsDelivered`, `InServicePresent`, `AssertionsHold`, `VerdictsStand` |
| `chain_round` | `FairSpec` of `ServiceChain`, `MaxSteps = 4` | `TypeOK`, `SuccessIsComplete`, `ReservationsBalance`, `TasksStopInTime`, `FailureEndsChain`, `AcceptedOnPresent`, `SecondSyncSilent`, `KeepsContract`, `EveryChainEnds` |
| `training` | `Spec` of `MarlEpisode`, two episodes of three steps | `TypeOK`, `VerdictCreditedOnce`, `FateCreditedOnce`, `OnlyAgentsDecide`, `EpisodeIsComplete`, `PastIsSettled`, `SeenBeforeRefused` |
| `discovery` | `Spec` of `SemanticDiscovery`, three steps | `TypeOK`, `OfferedIsRecent`, `NewestKept`, `SentIsHeard` |
| `missions` | `Spec` of `Missions`, symmetric in the missions | `TypeOK`, `SensorsHeld`, `WhatSuccessTakes` |
| `shards` | `Spec` of `TrainingShards`, symmetric in the MAPPO and IQL jobs | `NothingLeftRunning`, `ManifestIsTrue` |

Violated runs, each with one property that quotes the repository: `blamed_parent`, `missing_key`,
`return_route_twice`, `fresh_return_timeout`, `malicious_chain`; see
[Divergences found](#divergences-found).

What they show, property by property:

- `SingleQueue`: no handler loses a task or files it twice, unless the offloading query has copied it.
  `isReturning` picks the queue that is searched, from fields other handlers change; this says it always
  picks the right one.
- `DoneIsDelivered`: done means computed and at the sink, over radio, wire, and the short cut of
  `checkTasks`, also when a stale flow carries the task over a link it was not queued for.
- `ChildAfterParents`: a dependency is asked about before the step and may be revoked in it; a child in
  service still had its parents' results.
- `DeadlineEnforced`, `FailureSpreads`: three passes of `checkTasks` per step are enough, between any two
  handlers, for deadlines; and a pass leaves no pending child of a parent that had failed before it, unless
  a copy of that parent was delivered and so released the child.
- `InServicePresent`, `AssertionsHold`: a departure leaves no task in service on the departed node, and the
  radio blocks handed out before the step are still right when they are used.
- `VerdictsStand`: failed and removed are final; only the audit revokes done.
- `EveryTaskSettles`: every task gets a verdict, unless an exception ends the simulation or `isDone` ends it
  before the deadline of the task (`CutShort`). So a run that ends, because its last UAV has left or its time
  is over, leaves no task pending whose deadline had passed.
- `SuccessIsComplete`: success is decided from the last functions, yet means all of them.
- `ReservationsBalance`: through every rollback, what is reserved on an instance is what is planned onto
  it, within its capacity. It also documents that nothing is given back when a chain ends.
- `TasksStopInTime`: however late a task is created, it is pending only until the deadline of its function,
  the chain's or its own, is over. With a longer deadline of its own a task does outlive its chain. With a
  shorter one it may be created when that is over already, and is then pending for the one step to come.
- `FailureEndsChain`: after the lists were read, no chain runs with a failed function, unless that function
  had been read as done before. (That none runs past its deadline, `RunningInTime`, is only proved.)
- `AcceptedOnPresent`: the directory the planner reads knows every missing node.
- `SecondSyncSilent`: reading the lists a second time between two steps changes nothing.
- `KeepsContract`: the refinement.
- `EveryChainEnds`: every submitted chain ends, except in a run that the environment cuts short (it is
  done, or raises, before `max_steps`): there `_mark_unfinished_chains` returns early and chains stay
  running. That exception is the code's, and is part of the property (`CutShort`).
- `OnlyAgentsDecide`: every synchronisation of the bridge would plan a running chain that has no decision;
  decisions are released and chains admitted where no synchronisation follows before the agents have acted.
- `SeenBeforeRefused`: a chain is refused for want of a decision only after an observation showed it.
- `VerdictCreditedOnce`, `FateCreditedOnce`, `PastIsSettled`: whatever the buffer has dropped and however
  many steps lie between, each transition gets the fate of its function once, the last one of a chain its
  verdict once, and no credit reaches an earlier episode, where the chains have the same names.
- `EpisodeIsComplete`: an episode that ends before its horizon leaves no chain behind, arrived or not.
- `OfferedIsRecent`: what a catalog offers is no older than the time to live, plus the time by which the
  warm-up exchange is dated ahead.
- `NewestKept`: the cache overwrites without looking at dates, and messages over more hops take longer;
  still an agent holds the latest it has heard, before and, stale messages apart, within an exchange.
- `SentIsHeard`: what was sent is heard by the next exchange though the topology has changed meanwhile,
  unless it went stale.
- `SensorsHeld`: through every departure, an executing mission has its sensor to itself and a new one finds
  it idle, and the assertions of `startUseById` and `endUseById` hold. It documents the one leak: a sensor
  stays busy for good when its mission failed because a relay left.
- `WhatSuccessTakes`: with `isFinished` comparing by `>=` and `isSensingFinished` by `>`, a mission whose
  duration the interval divides never starts its task, and so never succeeds. And the transmission timeout of
  its result is counted from time -1: no mission succeeds later than an interval after `tti_threshold - 1`.
- `NothingLeftRunning`: a runner that was not killed leaves no worker behind.
- `ManifestIsTrue`: a manifest that says completed has a whole result for each job, from a worker that
  exited with 0 or was skipped, unless a worker of a killed runner has written over it.

Bounds, and why they are enough:

- `MCTaskLifecycle` has one node of each kind that differs in a handler: a vehicle (may leave in traffic), a
  UAV (may leave at the end), two RSUs (radio *and* wire between them), a cloud (wire only). The routes have
  one and two hops, over radio, over wire and both. `TTI = 2` and deadlines 3 and 4 let a transmission time
  out, a deadline pass and a task complete. `MaxTime = 6` is after the last deadline of what is there from the
  start, so that deadlines, and not only the end of the run, settle tasks; a task registered late and, once
  the UAV has left, any other may be cut short.
- The DAG has the smallest cases of a dependency: a parent, a child, and a task with no parent that shares
  the waiting list. The sibling has no result to return, so both kinds of task occur.
- `MCServiceChain` has a join (a function with two predecessors) and two independent functions, one of them
  optional, so that a chain has one or two last functions. Two instances have room for four of five
  functions, so that either chain may be rejected half way, and one of them starts failed. Deadlines of 2 and 1
  fall inside `MaxSteps = 4`, which equals `MaxTime`, with room for a chain submitted late, so that chains
  are ended by tasks, deadlines and `_mark_unfinished_chains`. Two functions of the join have a deadline of
  their own, one longer and one shorter than the chain's. No shipped configuration sets a
  `qos_override`; the parser accepts one (`lasdm/model.py:83`).
- `MCMarlEpisode` has a function with two successors, one of them optional, and a second chain that arrives
  at time 2, while the first is under way; `Capacity = 2` makes the buffer drop transitions that still wait for
  a credit; with two episodes the buffer holds transitions of both.
- `MCSemanticDiscovery` has topologies that connect, cut, reverse and shorten every path, a region that
  receives and has no cache, delays of 2 and 3 for one and two hops, steps of 4 and 5, and a time to live
  of 6: entries survive one step and not two, so both refresh and expiry happen within three.
- `MCMissions` has a vehicle that may enter late, a UAV with a sensor and one that only relays; a duration
  of 1 (met by one interval of 2) and one of 2 (met exactly); `tti_threshold` 9 lets a mission succeed and one
  time out; a deadline of 4 fails a profile before or as it is appointed. `SubSteps = 2` although the shipped
  configurations have one, so that a UAV leaves between two sub-steps.
- `MCTrainingShards` has a job more than may run at once, so that one is still to be launched when another
  fails, and two runs: the second finds what the first has left.

Deadlock is checked in every run: the specifications stutter explicitly once the program has ended (`Halt`,
`Trained`, `Horizon`, `Done`, `Over`). Symmetry is used only where no property is about liveness.

What `WhatSuccessTakes` means for the shipped configurations. Those with missions set `tti_threshold` to
0.5, so none of their missions ever succeeds; the one with 60 has a mission rate of 0. The claim about exact
stays is one about numbers whose multiples are exact in floating point, such as 1 and 0.5; fifty additions of
0.1 fall short of 5, and the stay then overshoots.

## Fairness

`FairSpec` of `TaskLifecycle` assumes weak fairness of `Step`, that of `ServiceChain` weak fairness of `Next`.
Both stand for the same fact: `env.step` and the round are straight-line code in a loop that nothing blocks,
so the next handler does run, until the loop ends. How long it runs is not assumed: `Step` includes `Finish`,
`Next` includes the end of the round's loop by `isDone` or an exception, and both liveness properties except
what the loop left pending when it ended so (`CutShort`). No fairness is assumed of the scheduler (it may
never offload a task), of the radio, the wire or the processors (they may never serve one), nor of the
planner's choice.

## Proofs

TLAPS checks the modules named `...Proofs` for all values of the constants. The assumptions are those named in
the modules: `TasksAndNodes`, `Routes`, `Times` (types, and that wired links join nodes that never leave),
`Graphs` (functions are listed in an order that respects the edges, as `topological_order` returns them;
deadlines are positive, and a function's own deadline, where it has one, is a number), `Deployment` (types;
finitely many chains and functions), `TrainingGraphs` (the same; no function twice in an order) and
`TrainingBounds`, `DiscoveryTypes` (types; names of regions are ordered), `StepsOutlastMessages` (see
[SemanticDiscovery](#semanticdiscovery)), `MissionTypes` (types; a positive interval), `ShardTypes` (types,
and a concurrency of at least 1).

**Tasks.** `SingleQueue` and `DoneIsDelivered` are not inductive: that a task found at its sink was
computed depends on which queue it came from. `IInv` says for every task (`Steady`) what its queue implies:
a waiting task is at its owner and not assigned, the data of a computing task is where it is assigned, the
rest of the route of a transmitted task is not empty and ends at its destination, a task waiting to return
is computed, and a task the query has copied really has a result to return. With `TypeOK` and
`DeadlineEnforced` it is preserved by every handler; each handler is first shown to preserve it for one
task in a lemma, and the three passes of `checkTasks` share one. From it follow:

- `TypeCorrect`, `FiledOnce` (`SingleQueue`), `DoneDelivered` (`DoneIsDelivered`),
  `DeadlinesEnforced` (`DeadlineEnforced`), and the action property `VerdictsAreFinal` (`VerdictsStand`).

`TaskServiceProofs` goes on from that invariant. Every handler but `offloadTask` is first shown to do four
things to a task (`Follows`): it keeps its processor, puts nothing into service that was not, never lengthens
the way of an outgoing task, and leaves a delivered result where it is (`Resolved`). On this rest

- `ServiceAttended` (`InServicePresent`): while a task is in service its owner and processor are present, and
  the whole way of an outgoing task (`Attended`, which includes the copies of the query);
- `ParentsFirst` (`ChildAfterParents`): the parents of a task that was started are resolved, as
  `Offload` found them done and `Follows` keeps them so;
- `AssertionsNeverFail` (`AssertionsHold`): from `ScheduleCommunication` to the radio, through a departure, an
  audit and two passes, a task with blocks is on a radio hop or out of the queues (`OnAir`, `Allocated`);
- `FailuresSpread` (`FailureSpreads`): the first stages of a pass leave a failed parent failed and never make
  it done, so a pending task whose parents are not all done is among those the last stage fails.

**Chains.** `IInv` is `TypeOK` with seven parts. `Planning`: the planner is inside its chain, and only what it
has passed is assigned. `Spawned`: a task belongs to a function of an accepted chain, its predecessors are
completed. `Punctual`: a pending task is due by the deadline of its function, or now. `ListsRead`: what was
read as done is completed, what is completed was read, and outside `post` nothing is unread. `Timely`: pending
tasks and running chains are within their deadlines. `Concluded`: a chain that succeeded has its last
functions completed. `DirectoryCurrent`: while chains are planned, no instance that is up is on a missing
node. From it follow:

- `TypeCorrect`, `SuccessTheorem`, `TasksStopTheorem`, `FailureTheorem`, `RunningInTimeTheorem`, the action
  property `AcceptedTheorem`, and `ContractTheorem`, the refinement `Spec => KeepsContract`.

`ChainLedgerProofs` adds an invariant for each of two more properties. `Lacking`: once the lists were read, a
chain that still runs lacks one of its last functions, so reading them again concludes nothing
(`SecondSyncTheorem`). `Ahead`: the functions a plan has not reached, and those it has rolled back, are on no
instance; so a placement adds exactly the units of one function and a withdrawal takes exactly those away.
The property counts reserved units as the cardinality of a set, where one would expect a sum over functions:
the prover can then follow one unit, and needs no induction (`ReservationsTheorem`).

The step that carries `SuccessTheorem` is the one place where the order of the functions is used: if a
function were not completed, take the last such one in the order; it has a successor (or it would be a last
function, and completed), the successor comes later, so it is completed, so its task was created after its
predecessors were completed.

**Shards.** What the manifest may say depends on who can still write to the files. `IInv` has four parts:
`Types`; `Quiet`, no worker is alive outside its run unless the runner of that run was killed; `Watched`,
the runner's list holds every live worker of its run, it has seen the failures it no longer lists, and
the result of a worker that exited is its own or was written over by a worker of a killed runner;
`Reasons`, the runner stops after a failure and otherwise collects with an empty list. Every step of a
worker is first reduced to what the others see of it (`Moves`). From it follow, for any jobs and any
number of invocations, `Invariance`, `NothingLeftRunningTheorem` and the action property
`ManifestIsTrueTheorem`.

**Episodes.** `OnlyAgentsDecide` is about what a synchronisation finds, so `IInv` says where in a step every
running chain has a decision: from `Act`, which refuses the others, to the last tick (`Decided`); and that
when the agents act no chain is due that they have not seen (`NoneDue`), since `Close` admits what has
arrived before it observes. From it follow, for any chains, arrivals and lengths of a step, `AgentsTheorem`,
`CompleteTheorem` and the action property `SeenTheorem`.

The credits need a second invariant, `Learning`, for a buffer of any capacity. `Buffer`: the ids in it are
the last ones given, in order, so a transition is found by its id exactly while it has not been dropped.
`Names`: the dictionaries name transitions of this episode only; each transition of the episode is the only
one of its function, and none is newer than the one named for its chain. `Offer`, `Placed` and `Acting`:
what the agents place has no task and no transition yet, and what was placed has a task or belongs to a chain
that has ended, so it is not offered again. `Steady`: what had ended when the step began stays so until it
is credited. `Accounts`: until the credit, the transitions of the episode carry what was known when the step
began, after it what is known now; so a step has to credit just the difference between its two snapshots.
From it follow `LearningTheorem`, `TypeCorrect`, `FateTheorem` (`FateCreditedOnce`), `VerdictTheorem`
(`VerdictCreditedOnce`) and the action property `PastTheorem` (`PastIsSettled`).

**Discovery.** The argument for `NewestKept` is that no message is overtaken: `Delays` bounds a delay by the
length of a step, so what is under way when an exchange begins is due by then, except what the reset has dated
ahead (`Arrives`), and messages are delivered in the order they were sent, which is that of their dates
(`InOrder`, `LastIsLast`, `NoOvertaking`). `Held` says the same of the caches: nothing under way is older than
what is held. `SentIsHeard` needs more, as a message of the reset may still not be due at the first step: the
topology has not changed by then, so the same pair of agents has exchanged a message of that date that is due
(`Unmoved`, `Covered`). From it follow `TypeCorrect`, `RecentTheorem`, and the action properties
`NewestTheorem` and `HeardTheorem`.

**Missions.** `SensorsHeld` holds through departures because only a present node has sensors to give
(`Deployed`), a new mission lives from one step's appointment to the next one's start (`Pending`), and a
relay is known only once a result is on its way (`Routes`), which is the one case in which a sensor is kept.
For `WhatSuccessTakes`, the stay is a multiple of the interval that has gone past the duration by less than
one interval when it ends (`Stayed`); between a multiple and the next there is none (`NoMultipleBetween`); and
returns are checked against the timeout before they arrive (`InTime`). From it follow `TypeCorrect`,
`SensorsTheorem` and the action property `SuccessTheorem`.

**Only model-checked.** The liveness properties `EveryTaskSettles` and `EveryChainEnds`: they rest on
fairness, and so on ENABLED, which is out of the prover's reach. Every other property of a passing run is
stated by a theorem. The properties of the runs that expect a violation are false, and stay with TLC.

## Divergences found

- `blamed_parent` (`manager/task_manager.py:974`). When an offloading is refused because a parent failed,
  the loop over the waiting list of the node fails *every* waiting task of that node with
  `TASK_FAIL_PARENT_FAILED`, since it asks about the same task each time round.
- `missing_key` (`task_manager.py:249`). A wired flow outlives a removed task; when it arrives after
  the owner has left, `finishOffloadingTask` raises a `KeyError` out of `env.step`, where its docstring
  promises an answer.
- `return_route_twice` (`task_manager.py:446`). The query's `extend` changes the stored list, a returned
  task is computed again, and its second return route violates the assertion in `entities/task.py:235`.
- `fresh_return_timeout` (`task_manager.py:880`). The transmission timeout of a returning task is measured
  from its outward journey; a result whose computation was long fails as its return starts.
- `malicious_chain` (`lasdm/runtime_bridge.py:210`). A result the audit revokes has been read as done
  before, is skipped as processed, and never fails its chain, though
  `src/docs/lasdm_failure_reason_contract.md:36` maps that failure to `reliability_violation`.

## What is not modelled

- Physics: path loss, fading, SINR, rates and energy are floating-point functions of positions. The
  modules leave their results open.
- SUMO and the recorded traces behind `TrafficManager`.
- Policies, losses and heuristics (`marl_policy.py`, `nsga2_policy.py`, `baselines.py`, the optimisers) and
  embeddings: numeric functions that choose among decisions the modules allow all. With plotting, they are the
  larger part of the code, and the reason why most of its lines are mapped by no definition.
- Lazy return nodes (a task whose sink is set only with its route); `moveComputingTaskToOffloading`, which has
  no caller; profiles of missions with several waypoints or tasks, which nothing generates; `env.reset()` of
  the sensors, which empties `SensorManager` without deploying new ones and leaves `new_missions` alone.
- Blockchain. No program of the repository fills `revenue_and_punishment_for_tasks`, so there are never any
  transactions; after `env.reset()` all stakes and revenues are 0. With transactions, blocks packed in one
  call would get the hash of the same predecessor, and `addBlock` rewrites it after the block's own hash was
  computed (`manager/block_manager.py:58`).
- Instance lifecycle. Heartbeats, `retire_stale` and the phases of `LASDMInstanceLifecycle` are called from
  tests only, each sequentially. An update may take an instance from any phase to any other
  (`lasdm/instance_lifecycle.py:217`).
- Storage: a sequential LRU store which nothing reads back.
- Authentication beyond the audit: credentials are stamped with the wall clock and compared with simulation
  time (`manager/simple_auth_manager.py:75`), so they do not expire within a run.
- The sharing of bandwidth among flows: equal parts of a rate, in floating point.
- The load of an instance, overwritten with the computing count of its node at every refresh
  (`lasdm/env_adapter.py:337`), is in `ServiceChain`; no document says what it should count, so no property
  is stated of it. Nor of `--skip-completed`, which takes a job for completed when its two files exist,
  complete and of the same training or not (`src/scripts/run_stage1_training_sharded.py:359`).
- The truncation of direct neighbours to the first `radius_hops` names
  (`lasdm/semantic_exchange.py:166`) is modelled; no document says what it should do, so no property is stated.
- The regional orchestrator, an earlier layer beside LASDM, and what only reads: metrics, logging,
  visualisation, examples.

## Plan

Done: `TaskLifecycle`, `ServiceContract`, `ServiceChain`, `MarlEpisode`, `SemanticDiscovery`, `Missions` and
`TrainingShards`; a theorem for each of their safety and action properties; the refinement of the contract.
Left: the composition. `TaskLifecycle` implements the environment that `ServiceChain` assumes of `env.step`,
as a refinement of an abstract task; and `ServiceChain` that of `MarlEpisode`.
