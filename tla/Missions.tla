------------------------------- MODULE Missions -------------------------------
(***************************************************************************)
(* Sensing missions.  A mission is profiled ahead of its arrival, is given *)
(* an idle sensor of a vehicle or a UAV, has that node stay at its         *)
(* waypoint, and then has one task, computed at the node and returned to   *)
(* an RSU, possibly over a UAV.  Nodes enter and leave: vehicles with the  *)
(* traffic, UAVs when their battery is empty.                              *)
(*                                                                         *)
(* Every profile of the repository has one waypoint and one task.  The     *)
(* node and the relay of a mission stay recorded after it has ended.       *)
(***************************************************************************)
EXTENDS Integers, FiniteSets

CONSTANTS
  Vehicle, UAV,  \* nodes with sensors
  Sensor,        \* sensor ids
  Owner,         \* the node a sensor is deployed on
  Mission,       \* mission ids
  Suits,         \* the sensors with the type and the accuracy of a mission
  Profiles,      \* arrival, deadline (time to live) and duration of a mission
  Interval,      \* simulation_interval
  SubSteps,      \* traffic_interval / simulation_interval
  Threshold,     \* tti_threshold
  MaxTime,       \* max_simulation_time
  None           \* no node, no sensor

Node == Vehicle \cup UAV

ASSUME MissionTypes ==
  /\ Vehicle \cap UAV = {} /\ None \notin Node /\ None \notin Sensor
  /\ Owner \in [Sensor -> Node]
  /\ Suits \in [Mission -> SUBSET Sensor]
  /\ Profiles \subseteq [arrival : Nat \ {0}, deadline : Nat \ {0}, duration : Nat \ {0}]
  /\ Interval \in Nat \ {0} /\ SubSteps \in Nat \ {0}
  /\ Threshold \in Int /\ MaxTime \in Nat

VARIABLES
  now,      \* simulation_time
  phase,    \* where the program is in scheduleStep and step
  left,     \* sub-steps of this step still to come
  node,     \* whether a node is in the simulation
  sensor,   \* the dictionary of SensorManager a sensor is in
  profile,  \* the random profile of each mission
  mission,  \* the list of MissionManager, or of the environment, a mission is in
  given,    \* _appointed_sensor_id
  stayed,   \* _mission_stayed_time
  task,     \* the stage of the task of a mission
  relay,    \* the UAV on the return route of that task
  broken    \* an assertion of SensorManager has failed

vars == <<now, phase, left, node, sensor, profile, mission, given, stayed, task, relay, broken>>

At(p) == phase = p
In(state) == {m \in Mission : mission[m] = state}
Present == {n \in Node : node[n] = "present"}
Deadline(m) == profile[m].arrival + profile[m].deadline
Appointed(m) == given[m] # None
HostOf(m) == IF Appointed(m) THEN Owner[given[m]] ELSE None
SensorsOf(set) == {given[m] : m \in set}

-----------------------------------------------------------------------------
Init ==
  /\ now = 0 /\ phase = "schedule" /\ left = 0
  /\ node \in [Node -> {"coming", "present"}]
  /\ \A u \in UAV : node[u] = "present"
  /\ sensor = [s \in Sensor |-> IF node[Owner[s]] = "present" THEN "idle" ELSE "none"]
  /\ profile \in [Mission -> Profiles]
  /\ mission = [m \in Mission |-> "profile"]
  /\ given = [m \in Mission |-> None]
  /\ stayed = [m \in Mission |-> 0]
  /\ task = [m \in Mission |-> "unstarted"]
  /\ relay = [m \in Mission |-> None]
  /\ broken = FALSE

\* The missions a scheduler may appoint: those that have arrived.
Arrived == {m \in In("profile") : profile[m].arrival <= now}

\* Mutant of Candidates: the sensors already appointed in this call are not excluded.
CandidatesAgain(m, taken) == {s \in Suits[m] : sensor[s] = "idle"}

\* Idle sensors that suit, without those appointed in this call.
Candidates(m, taken) == {s \in Suits[m] : sensor[s] = "idle"} \ taken

\* scheduleMission: the shipped schedulers differ in the sensor they take.  None of
\* them appoints a sensor to two missions of one call.
Schedule ==
  /\ At("schedule") /\ now < MaxTime /\ \E u \in UAV : u \in Present
  /\ \E appointed \in SUBSET Arrived :
     \E choice \in [appointed -> Sensor] :
       /\ \A m \in appointed :
            choice[m] \in Candidates(m, {choice[x] : x \in appointed \ {m}})
       /\ given' = [m \in Mission |-> IF m \in appointed THEN choice[m] ELSE given[m]]
       /\ mission' = [m \in Mission |-> IF m \in appointed THEN "new" ELSE mission[m]]
  /\ phase' = "traffic"
  /\ UNCHANGED <<now, left, node, sensor, profile, stayed, task, relay, broken>>

-----------------------------------------------------------------------------
(***************************************************************************)
(* _removeVehicle, _removeUAV: the tasks related to the node are removed,  *)
(* its missions fail, executing or new, and so do the executing missions   *)
(* of other nodes whose task goes over it; its sensors are disabled.       *)
(***************************************************************************)
Own(gone) == {m \in In("executing") \cup In("new") : HostOf(m) \in gone}
Routed(gone) ==
  {m \in In("executing") : task[m] \in {"returning", "failed"} /\ relay[m] \in gone}

\* Mutant of Ended: the new missions of a node are forgotten when it leaves.
EndedExecuting(gone) == {m \in In("executing") : HostOf(m) \in gone} \cup Routed(gone)

Ended(gone) == Own(gone) \cup Routed(gone)

Leave(gone) ==
  /\ mission' = [m \in Mission |-> IF m \in Ended(gone) THEN "failed" ELSE mission[m]]
  /\ task' = [m \in Mission |->
       IF m \in Ended(gone) /\ task[m] # "unstarted" THEN "failed" ELSE task[m]]

Disabled(s, gone) == Owner[s] \in gone /\ sensor[s] \in {"idle", "busy"}

\* _updateTraffics, _updateSensor
Traffic ==
  /\ At("traffic")
  /\ \E gone \in SUBSET (Vehicle \cap Present),
        come \in SUBSET {v \in Vehicle : node[v] = "coming"} :
       /\ Leave(gone)
       /\ node' = [n \in Node |->
            IF n \in gone THEN "gone" ELSE IF n \in come THEN "present" ELSE node[n]]
       /\ sensor' = [s \in Sensor |->
            IF Disabled(s, gone) THEN "unavailable"
            ELSE IF Owner[s] \in come THEN "idle" ELSE sensor[s]]
  /\ phase' = "task"
  /\ left' = SubSteps
  /\ UNCHANGED <<now, profile, given, stayed, relay, broken>>

\* Mutant of OutOfTTI: only the tasks that are being offloaded are looked at.
OutOfTTIOffloading(m) == FALSE

\* checkTasks, stage 3.  A return leaves the last transmission time alone, and the
\* task of a mission was never offloaded: its last transmission is dated -1.
OutOfTTI(m) == now - (-1) > Threshold

Checked(returning) ==
  [m \in Mission |-> IF m \in returning
                     THEN IF OutOfTTI(m) THEN "failed" ELSE "returning"
                     ELSE task[m]]

Returning == {m \in Mission : task[m] = "returning"}

\* _updateTask applies the routes decided for the tasks that waited at scheduleStep,
\* then checks every task that returns.
UpdateTask ==
  /\ At("task")
  /\ \E routed \in SUBSET {m \in Mission : task[m] = "waiting" /\ left = SubSteps} :
     \E via \in [routed -> (UAV \cap Present) \cup {None}] :
       /\ \A m \in routed : HostOf(m) \in UAV => via[m] = None
       /\ relay' = [m \in Mission |-> IF m \in routed THEN via[m] ELSE relay[m]]
       /\ task' = Checked(Returning \cup routed)
  /\ phase' = "mission"
  /\ UNCHANGED <<now, left, node, sensor, profile, mission, given, stayed, broken>>

-----------------------------------------------------------------------------
(***************************************************************************)
(* _updateMission: the new missions start to use their sensors, those past *)
(* their deadline fail, and the others go on.                              *)
(***************************************************************************)
Started == In("new")
Active == In("executing") \cup Started
Overdue == {m \in Active : Deadline(m) <= now}

\* Mutant of EarlyFailed: the profile of an appointed mission is still looked at.
EarlyFailedKept == {m \in Mission : Deadline(m) < now}

\* The profiles nobody appointed in time.
EarlyFailed == {m \in In("profile") : Deadline(m) < now}

\* updateMission, for the missions whose node is near its waypoint
Stays(near) ==
  [m \in Mission |->
     IF m \in (near \cap Active) \ Overdue /\ stayed[m] < profile[m].duration
     THEN stayed[m] + Interval ELSE stayed[m]]

\* Mutant of SensingFinished: a stay of exactly the duration is enough.
SensingFinishedAtDuration(m) == stayed'[m] >= profile[m].duration

SensingFinished(m) == stayed'[m] > profile[m].duration

\* isFinished, where the comparison is not strict
Finished == {m \in Active \ Overdue : stayed'[m] >= profile[m].duration /\ task[m] = "finished"}

\* Mutant of Freed: a mission that fails keeps its sensor.
FreedBySuccess == SensorsOf(Finished)

\* The sensors of endUseById.
Freed == SensorsOf(Finished \cup Overdue)

UpdateMission ==
  /\ At("mission")
  /\ \E near \in SUBSET Active : stayed' = Stays(near)
  /\ mission' = [m \in Mission |->
       IF m \in Overdue THEN "failed"
       ELSE IF m \in EarlyFailed THEN "early"
       ELSE IF m \in Finished THEN "succeeded"
       ELSE IF m \in Started THEN "executing" ELSE mission[m]]
  /\ task' = [m \in Mission |->
       IF m \in Active \ Overdue /\ SensingFinished(m) /\ task[m] = "unstarted"
       THEN "computing" ELSE task[m]]
  /\ sensor' = [s \in Sensor |->
       IF s \in Freed THEN "idle" ELSE IF s \in SensorsOf(Started) THEN "busy" ELSE sensor[s]]
  /\ broken' =
       \/ broken
       \/ \E m \in Started : \/ sensor[given[m]] # "idle"
                             \/ \E x \in Started \ {m} : given[x] = given[m]
       \/ \E m \in (Overdue \cup Finished) \ Started : sensor[given[m]] # "busy"
  /\ phase' = "work"
  /\ UNCHANGED <<now, left, node, profile, given, relay>>

\* Wireless, wired and compute updates: what is computed waits for a route, what is
\* returning may arrive.
Work ==
  /\ At("work")
  /\ \E computed \in SUBSET {m \in Mission : task[m] = "computing"} :
     \E returned \in SUBSET Returning :
       task' = [m \in Mission |->
         IF m \in computed THEN "waiting" ELSE IF m \in returned THEN "finished" ELSE task[m]]
  /\ phase' = "energy"
  /\ UNCHANGED <<now, left, node, sensor, profile, mission, given, stayed, relay, broken>>

\* _updateEnergy removes the UAVs without energy, at the end of a sub-step.
Energy ==
  /\ At("energy")
  /\ \E gone \in SUBSET (UAV \cap Present) :
       /\ Leave(gone)
       /\ node' = [n \in Node |-> IF n \in gone THEN "gone" ELSE node[n]]
       /\ sensor' = [s \in Sensor |-> IF Disabled(s, gone) THEN "unavailable" ELSE sensor[s]]
  /\ now' = now + Interval
  /\ left' = left - 1
  /\ phase' = IF left = 1 THEN "check" ELSE "task"
  /\ UNCHANGED <<profile, given, stayed, relay, broken>>

\* The end of step() checks the tasks again.
EndStep ==
  /\ At("check")
  /\ task' = Checked(Returning)
  /\ phase' = "schedule"
  /\ UNCHANGED <<now, left, node, sensor, profile, mission, given, stayed, relay, broken>>

\* isDone
Done ==
  /\ At("schedule") /\ (now >= MaxTime \/ UAV \cap Present = {})
  /\ UNCHANGED vars

Next == Schedule \/ Traffic \/ UpdateTask \/ UpdateMission \/ Work \/ Energy
        \/ EndStep \/ Done

Spec == Init /\ [][Next]_vars

-----------------------------------------------------------------------------
(***************************************************************************)
(* Properties.                                                             *)
(***************************************************************************)

\* Every variable has its type, and a mission has a sensor from its appointment on.
TypeOK ==
  /\ now \in Nat /\ left \in 0..SubSteps
  /\ phase \in {"schedule", "traffic", "task", "mission", "work", "energy", "check"}
  /\ node \in [Node -> {"coming", "present", "gone"}]
  /\ sensor \in [Sensor -> {"none", "idle", "busy", "unavailable"}]
  /\ profile \in [Mission -> Profiles]
  /\ mission \in [Mission -> {"profile", "new", "executing", "succeeded", "failed", "early"}]
  /\ given \in [Mission -> Sensor \cup {None}]
  /\ \A m \in Mission : ~Appointed(m) <=> mission[m] \in {"profile", "early"}
  /\ stayed \in [Mission -> Nat]
  /\ task \in [Mission -> {"unstarted", "computing", "waiting", "returning", "finished", "failed"}]
  /\ relay \in [Mission -> UAV \cup {None}]
  /\ broken \in BOOLEAN

\* A mission that failed because a UAV on the route of its task left.
FailedByRelay(m) ==
  /\ mission[m] = "failed" /\ relay[m] # None /\ node[relay[m]] = "gone"

\* The sensor of an executing mission is busy and its alone, that of a new mission
\* is idle, whatever nodes left since it was appointed; the assertions of startUse
\* and endUse hold; and a sensor stays busy without a mission only when that was
\* failed by the departure of a relay.
SensorsHeld ==
  /\ ~broken
  /\ \A m \in Active : sensor[given[m]] = IF mission[m] = "new" THEN "idle" ELSE "busy"
  /\ \A m, x \in Active : given[m] = given[x] => m = x
  /\ \A s \in Sensor : sensor[s] = "busy" =>
       \E m \in Mission : given[m] = s /\ (mission[m] = "executing" \/ FailedByRelay(m))

\* What a mission must have to succeed, beside time.  Its duration is no multiple of
\* the interval: its stay would end at the duration exactly, which isFinished takes
\* and isSensingFinished does not.  And it succeeds no later than an interval after
\* tti_threshold - 1: the timeout of its result is counted from time -1.
WhatSuccessTakes ==
  [][\A m \in Mission : mission[m] # "succeeded" /\ mission'[m] = "succeeded" =>
       profile[m].duration % Interval # 0 /\ now < Threshold + Interval]_vars

=============================================================================
