---------------------------- MODULE MissionsProofs ----------------------------
(***************************************************************************)
(* The sensors of missions, and what a mission takes to succeed, for any   *)
(* nodes, sensors, missions, profiles and interval.                        *)
(***************************************************************************)
EXTENDS Missions, TLAPS

\* Sub-steps are left while a step goes on, and new missions wait for the next one.
Pending ==
  /\ phase \in {"task", "mission", "work", "energy"} => left >= 1
  /\ \A m \in Mission : mission[m] = "new" => phase \in {"traffic", "task", "mission"}

\* Only a node that is present has sensors to give.
Deployed == \A s \in Sensor : sensor[s] \in {"idle", "busy"} => node[Owner[s]] = "present"

\* A relay is known from the return on, and a task exists in executing missions first.
Routes ==
  \A m \in Mission :
    /\ relay[m] # None => task[m] \in {"returning", "finished", "failed"}
    /\ mission[m] \in {"profile", "new"} => task[m] = "unstarted"

\* The time a mission has stayed, by whole intervals and not past the one that ends it.
Stayed ==
  \A m \in Mission :
    /\ \E k \in Nat : stayed[m] = k * Interval
    /\ stayed[m] < profile[m].duration + Interval
    /\ task[m] # "unstarted" => stayed[m] > profile[m].duration

\* Returns are checked before they arrive, and a mission ends as soon as its result is in.
InTime ==
  \A m \in Mission :
    /\ task[m] = "returning" /\ phase \in {"mission", "work"} => now < Threshold
    /\ task[m] = "finished" /\ mission[m] = "executing" =>
         /\ phase # "work"
         /\ now < Threshold + Interval
         /\ phase = "energy" => now < Threshold

IInv == TypeOK /\ SensorsHeld /\ Pending /\ Deployed /\ Routes /\ Stayed /\ InTime

Kind == {"profile", "new", "executing", "succeeded", "failed", "early"}

-----------------------------------------------------------------------------
(***************************************************************************)
(* Arithmetic of the time a mission stays.                                 *)
(***************************************************************************)

\* One interval more is still by whole intervals.
LEMMA OneMore ==
  ASSUME NEW k \in Nat, NEW n \in Nat
  PROVE  k * n + n = (k + 1) * n /\ k + 1 \in Nat
OBVIOUS

\* Between d and d + n there is no multiple of n when d is one.
LEMMA NoMultipleBetween ==
  ASSUME NEW d \in Nat, NEW n \in Nat \ {0}, NEW k \in Nat, d % n = 0, d < k * n
  PROVE  k * n >= d + n
<1>. DEFINE q == d \div n
<1>1. q \in Int /\ d = n * q
  OBVIOUS
<1>2. q < k
  <2>. SUFFICES ASSUME q >= k PROVE FALSE
    BY <1>1
  <2>1. PICK e \in Nat : q = k + e
    BY <1>1
  <2>2. d = k * n + e * n
    BY <1>1, <2>1
  <2>3. e * n >= 0
    OBVIOUS
  <2>. HIDE DEF q
  <2>. QED
    BY <2>2, <2>3
<1>. HIDE DEF q
<1>3. PICK e \in Nat : k = q + 1 + e
  <2>1. k - q - 1 \in Nat /\ k = q + 1 + (k - q - 1)
    BY <1>1, <1>2
  <2>. QED
    BY <2>1
<1>4. k * n = n * q + n + e * n
  BY <1>1, <1>3
<1>5. e * n >= 0
  OBVIOUS
<1>. QED
  BY <1>1, <1>4, <1>5

-----------------------------------------------------------------------------
LEMMA InitHolds == Init => IInv
<1>. SUFFICES ASSUME Init PROVE IInv
  OBVIOUS
<1>. USE MissionTypes DEF Init, Node
<1>1. TypeOK
  <2>1. now \in Nat /\ left \in 0..SubSteps /\ phase = "schedule"
    OBVIOUS
  <2>2. node \in [Node -> {"coming", "present", "gone"}]
    OBVIOUS
  <2>3. sensor \in [Sensor -> {"none", "idle", "busy", "unavailable"}]
    OBVIOUS
  <2>4. /\ given \in [Mission -> Sensor \cup {None}]
        /\ \A m \in Mission : ~Appointed(m) <=> mission[m] \in {"profile", "early"}
    BY DEF Appointed
  <2>. QED
    BY <2>1, <2>2, <2>3, <2>4 DEF TypeOK
<1>2. SensorsHeld
  BY DEF SensorsHeld, Active, Started, In
<1>3. Pending /\ Deployed /\ Routes /\ InTime
  BY DEF Pending, Deployed, Routes, InTime
<1>4. Stayed
  <2>1. 0 = 0 * Interval
    OBVIOUS
  <2>. QED
    BY <2>1 DEF Stayed
<1>. QED
  BY <1>1, <1>2, <1>3, <1>4 DEF IInv

(***************************************************************************)
(* Nodes that leave and come, at the start of a step and at its end.       *)
(***************************************************************************)
LEMMA LeaveHolds ==
  ASSUME IInv, NEW gone \in SUBSET Present, NEW come \in SUBSET {n \in Node : node[n] = "coming"},
         Leave(gone),
         node' = [n \in Node |->
           IF n \in gone THEN "gone" ELSE IF n \in come THEN "present" ELSE node[n]],
         sensor' = [s \in Sensor |->
           IF Disabled(s, gone) THEN "unavailable"
           ELSE IF Owner[s] \in come THEN "idle" ELSE sensor[s]],
         UNCHANGED <<profile, given, stayed, relay, broken>>
  PROVE  /\ SensorsHeld' /\ Deployed' /\ Routes' /\ Stayed'
         /\ node' \in [Node -> {"coming", "present", "gone"}]
         /\ sensor' \in [Sensor -> {"none", "idle", "busy", "unavailable"}]
         /\ mission' \in [Mission -> Kind]
         /\ \A m \in Mission :
              /\ ~Appointed(m)' <=> mission'[m] \in {"profile", "early"}
              /\ mission'[m] = mission[m] \/ mission'[m] = "failed"
              /\ task'[m] = task[m] \/ task'[m] = "failed"
         /\ task' \in [Mission ->
              {"unstarted", "computing", "waiting", "returning", "finished", "failed"}]
<1>. USE MissionTypes DEF IInv, TypeOK, Kind
<1>1. node' \in [Node -> {"coming", "present", "gone"}]
  OBVIOUS
<1>2. sensor' \in [Sensor -> {"none", "idle", "busy", "unavailable"}]
  OBVIOUS
<1>3. \A m \in Mission :
        /\ mission'[m] = IF m \in Ended(gone) THEN "failed" ELSE mission[m]
        /\ task'[m] = IF m \in Ended(gone) /\ task[m] # "unstarted" THEN "failed" ELSE task[m]
  BY DEF Leave
<1>4. mission' \in [Mission -> Kind]
  BY DEF Leave
<1>5. task' \in [Mission ->
        {"unstarted", "computing", "waiting", "returning", "finished", "failed"}]
  BY DEF Leave
<1>6. \A m \in Ended(gone) : m \in Mission /\ mission[m] \in {"new", "executing"}
  BY DEF Ended, Own, Routed, In
<1>7. \A m \in Mission : ~Appointed(m)' <=> mission'[m] \in {"profile", "early"}
  BY <1>3, <1>6 DEF Appointed
<1>8. Deployed'
  BY DEF Deployed, Disabled, Present
<1>9. Routes'
  BY <1>3, <1>6 DEF Routes
<1>10. Stayed'
  BY <1>3 DEF Stayed
<1>11. \A m \in Active : given[m] \in Sensor /\ Appointed(m)
  BY DEF Active, Started, In, Appointed
<1>12. SensorsHeld'
  <2>1. ~broken'
    BY DEF SensorsHeld
  <2>2. \A m \in Active' :
          m \in Active /\ m \notin Ended(gone) /\ mission'[m] = mission[m]
    BY <1>3 DEF Active, Started, In
  <2>3. \A m, x \in Active' : given'[m] = given'[x] => m = x
    BY <2>2 DEF SensorsHeld
  <2>4. ASSUME NEW m \in Active'
        PROVE  sensor'[given'[m]] = IF mission'[m] = "new" THEN "idle" ELSE "busy"
    <3>1. m \in Active /\ m \notin Ended(gone) /\ mission'[m] = mission[m]
      BY <2>2
    <3>2. given[m] \in Sensor /\ sensor[given[m]] = IF mission[m] = "new" THEN "idle" ELSE "busy"
      BY <3>1, <1>11 DEF SensorsHeld
    <3>3. Owner[given[m]] \notin gone
      BY <3>1, <1>11 DEF Ended, Own, HostOf, Active, Started, In
    <3>4. Owner[given[m]] \notin come
      BY <3>2 DEF Deployed
    <3>. QED
      BY <3>1, <3>2, <3>3, <3>4 DEF Disabled
  <2>5. ASSUME NEW s \in Sensor, sensor'[s] = "busy"
        PROVE  \E m \in Mission :
                 given'[m] = s /\ (mission'[m] = "executing" \/ FailedByRelay(m)')
    <3>1. sensor[s] = "busy" /\ Owner[s] \notin gone
      BY <2>5 DEF Disabled
    <3>2. PICK m \in Mission : given[m] = s /\ (mission[m] = "executing" \/ FailedByRelay(m))
      BY <3>1 DEF SensorsHeld
    <3>3. CASE FailedByRelay(m)
      <4>1. mission'[m] = "failed"
        BY <3>3, <1>3 DEF FailedByRelay
      <4>2. relay[m] \in Node /\ node[relay[m]] = "gone"
        BY <3>3 DEF FailedByRelay, Node
      <4>3. node'[relay[m]] = "gone"
        BY <4>2
      <4>. QED
        BY <3>2, <3>3, <4>1, <4>3 DEF FailedByRelay
    <3>4. CASE mission[m] = "executing" /\ m \notin Ended(gone)
      BY <3>2, <3>4, <1>3
    <3>5. CASE mission[m] = "executing" /\ m \in Ended(gone)
      <4>1. m \notin Own(gone)
        BY <3>1, <3>2, <3>5, MissionTypes DEF Own, HostOf, Appointed, In
      <4>2. relay[m] \in gone
        BY <3>5, <4>1 DEF Ended, Routed
      <4>3. relay[m] # None /\ node'[relay[m]] = "gone"
        BY <4>2 DEF Present
      <4>4. mission'[m] = "failed"
        BY <3>5, <1>3
      <4>. QED
        BY <3>2, <4>3, <4>4 DEF FailedByRelay
    <3>. QED
      BY <3>2, <3>3, <3>4, <3>5
  <2>. QED
    BY <2>1, <2>3, <2>4, <2>5 DEF SensorsHeld
<1>. QED
  BY <1>1, <1>2, <1>3, <1>4, <1>5, <1>7, <1>8, <1>9, <1>10, <1>12

LEMMA ScheduleHolds == IInv /\ Schedule => IInv'
<1>. SUFFICES ASSUME IInv, Schedule PROVE IInv'
  OBVIOUS
<1>. USE MissionTypes DEF IInv, TypeOK, Schedule, At
<1>a. PICK appointed \in SUBSET Arrived : \E choice \in [appointed -> Sensor] :
        /\ \A m \in appointed :
             choice[m] \in Candidates(m, {choice[x] : x \in appointed \ {m}})
        /\ given' = [m \in Mission |-> IF m \in appointed THEN choice[m] ELSE given[m]]
        /\ mission' = [m \in Mission |-> IF m \in appointed THEN "new" ELSE mission[m]]
  OBVIOUS
<1>0. PICK choice \in [appointed -> Sensor] :
        /\ \A m \in appointed :
             choice[m] \in Candidates(m, {choice[x] : x \in appointed \ {m}})
        /\ given' = [m \in Mission |-> IF m \in appointed THEN choice[m] ELSE given[m]]
        /\ mission' = [m \in Mission |-> IF m \in appointed THEN "new" ELSE mission[m]]
  BY <1>a
<1>1. \A m \in appointed :
        /\ m \in Mission /\ mission[m] = "profile" /\ task[m] = "unstarted" /\ given[m] = None
        /\ choice[m] \in Sensor /\ sensor[choice[m]] = "idle"
        /\ \A x \in appointed : choice[x] = choice[m] => x = m
  BY <1>0 DEF Arrived, In, Candidates, Routes, Appointed
<1>2. \A m \in Mission : mission[m] # "new"
  BY DEF Pending
<1>3. TypeOK'
  <2>1. given' \in [Mission -> Sensor \cup {None}]
    BY <1>0, <1>1
  <2>2. mission' \in [Mission -> Kind]
    BY <1>0 DEF Kind
  <2>3. \A m \in Mission : ~Appointed(m)' <=> mission'[m] \in {"profile", "early"}
    BY <1>0, <1>1 DEF Appointed
  <2>. QED
    BY <2>1, <2>2, <2>3 DEF Kind
<1>4. SensorsHeld'
  <2>1. \A m \in Active' :
          \/ /\ m \in appointed /\ mission'[m] = "new" /\ given'[m] = choice[m]
          \/ /\ m \in Active /\ m \notin appointed /\ mission'[m] = "executing"
             /\ given'[m] = given[m] /\ sensor[given[m]] = "busy"
    BY <1>0, <1>1, <1>2 DEF Active, Started, In, SensorsHeld
  <2>0. sensor' = sensor /\ broken' = broken /\ SensorsHeld
    OBVIOUS
  <2>. HIDE MissionTypes DEF IInv, TypeOK, Schedule, At
  <2>2. ASSUME NEW m \in Active'
        PROVE  sensor'[given'[m]] = IF mission'[m] = "new" THEN "idle" ELSE "busy"
    <3>1. CASE m \in appointed
      BY <3>1, <2>0, <2>1, <1>1
    <3>2. CASE m \notin appointed
      BY <3>2, <2>0, <2>1
    <3>. QED
      BY <3>1, <3>2
  <2>3. ASSUME NEW m \in Active', NEW x \in Active', given'[m] = given'[x]
        PROVE  m = x
    <3>1. m \in appointed <=> x \in appointed
      BY <2>3, <2>1, <1>1
    <3>2. CASE m \in appointed
      BY <3>1, <3>2, <2>3, <2>1, <1>1
    <3>3. CASE m \notin appointed
      BY <3>1, <3>3, <2>0, <2>3, <2>1 DEF SensorsHeld
    <3>. QED
      BY <3>2, <3>3
  <2>4. ASSUME NEW s \in Sensor, sensor'[s] = "busy"
        PROVE  \E m \in Mission :
                 given'[m] = s /\ (mission'[m] = "executing" \/ FailedByRelay(m)')
    <3>1. PICK m \in Mission : given[m] = s /\ (mission[m] = "executing" \/ FailedByRelay(m))
      BY <2>0, <2>4 DEF SensorsHeld
    <3>2. m \notin appointed
      BY <3>1, <1>1 DEF FailedByRelay
    <3>3. UNCHANGED <<relay, node>> /\ given'[m] = given[m] /\ mission'[m] = mission[m]
      BY <3>2, <1>0 DEF Schedule
    <3>. QED
      BY <3>1, <3>3 DEF FailedByRelay
  <2>. QED
    BY <2>0, <2>2, <2>3, <2>4 DEF SensorsHeld
<1>5. Pending'
  BY DEF Pending
<1>6. Deployed'
  BY DEF Deployed
<1>7. Routes'
  BY <1>0, <1>1 DEF Routes
<1>8. Stayed'
  BY DEF Stayed
<1>9. InTime'
  BY <1>0, <1>1 DEF InTime
<1>. QED
  BY <1>3, <1>4, <1>5, <1>6, <1>7, <1>8, <1>9

LEMMA TrafficHolds == IInv /\ Traffic => IInv'
<1>. SUFFICES ASSUME IInv, Traffic PROVE IInv'
  OBVIOUS
<1>. USE MissionTypes DEF At, Traffic
<1>0. PICK gone \in SUBSET (Vehicle \cap Present), come \in SUBSET {v \in Vehicle : node[v] = "coming"} :
        /\ Leave(gone)
        /\ node' = [n \in Node |->
             IF n \in gone THEN "gone" ELSE IF n \in come THEN "present" ELSE node[n]]
        /\ sensor' = [s \in Sensor |->
             IF Disabled(s, gone) THEN "unavailable"
             ELSE IF Owner[s] \in come THEN "idle" ELSE sensor[s]]
  OBVIOUS
<1>1. gone \in SUBSET Present /\ come \in SUBSET {n \in Node : node[n] = "coming"}
  BY DEF Node
<1>2. /\ SensorsHeld' /\ Deployed' /\ Routes' /\ Stayed'
      /\ node' \in [Node -> {"coming", "present", "gone"}]
      /\ sensor' \in [Sensor -> {"none", "idle", "busy", "unavailable"}]
      /\ mission' \in [Mission -> Kind]
      /\ \A m \in Mission :
           /\ ~Appointed(m)' <=> mission'[m] \in {"profile", "early"}
           /\ mission'[m] = mission[m] \/ mission'[m] = "failed"
           /\ task'[m] = task[m] \/ task'[m] = "failed"
      /\ task' \in [Mission ->
           {"unstarted", "computing", "waiting", "returning", "finished", "failed"}]
  BY <1>0, <1>1, LeaveHolds
<1>3. TypeOK'
  BY <1>2 DEF IInv, TypeOK, Kind
<1>4. Pending'
  BY <1>2 DEF Pending, IInv, TypeOK
<1>5. InTime'
  BY <1>2 DEF InTime, IInv
<1>. QED
  BY <1>2, <1>3, <1>4, <1>5 DEF IInv

LEMMA EnergyHolds == IInv /\ Energy => IInv'
<1>. SUFFICES ASSUME IInv, Energy PROVE IInv'
  OBVIOUS
<1>. USE MissionTypes DEF At, Energy
<1>0. PICK gone \in SUBSET (UAV \cap Present) :
        /\ Leave(gone)
        /\ node' = [n \in Node |-> IF n \in gone THEN "gone" ELSE node[n]]
        /\ sensor' = [s \in Sensor |-> IF Disabled(s, gone) THEN "unavailable" ELSE sensor[s]]
  OBVIOUS
<1>1. gone \in SUBSET Present /\ {} \in SUBSET {n \in Node : node[n] = "coming"}
  OBVIOUS
<1>2. /\ node' = [n \in Node |->
           IF n \in gone THEN "gone" ELSE IF n \in {} THEN "present" ELSE node[n]]
      /\ sensor' = [s \in Sensor |->
           IF Disabled(s, gone) THEN "unavailable"
           ELSE IF Owner[s] \in {} THEN "idle" ELSE sensor[s]]
  BY <1>0
<1>3. /\ SensorsHeld' /\ Deployed' /\ Routes' /\ Stayed'
      /\ node' \in [Node -> {"coming", "present", "gone"}]
      /\ sensor' \in [Sensor -> {"none", "idle", "busy", "unavailable"}]
      /\ mission' \in [Mission -> Kind]
      /\ \A m \in Mission :
           /\ ~Appointed(m)' <=> mission'[m] \in {"profile", "early"}
           /\ mission'[m] = mission[m] \/ mission'[m] = "failed"
           /\ task'[m] = task[m] \/ task'[m] = "failed"
      /\ task' \in [Mission ->
           {"unstarted", "computing", "waiting", "returning", "finished", "failed"}]
  BY <1>0, <1>1, <1>2, LeaveHolds
<1>4. left >= 1 /\ left \in 0..SubSteps
  BY DEF IInv, Pending, TypeOK
<1>5. TypeOK'
  BY <1>3, <1>4 DEF IInv, TypeOK, Kind
<1>6. Pending'
  BY <1>3, <1>4 DEF Pending, IInv
<1>7. InTime'
  BY <1>3 DEF InTime, IInv, TypeOK
<1>. QED
  BY <1>3, <1>5, <1>6, <1>7 DEF IInv

(***************************************************************************)
(* The tasks of missions: routes, arrivals and the checks of checkTasks.   *)
(***************************************************************************)

\* A check fails a return that is late, or finds it early enough.
LEMMA CheckedReturns ==
  ASSUME IInv, NEW returning \in SUBSET Mission, task' = Checked(returning)
  PROVE  \A m \in Mission :
           /\ m \notin returning => task'[m] = task[m]
           /\ m \in returning => task'[m] \in {"failed", "returning"}
           /\ m \in returning /\ task'[m] = "returning" => now < Threshold
BY MissionTypes DEF IInv, TypeOK, Checked, OutOfTTI

LEMMA UpdateTaskHolds == IInv /\ UpdateTask => IInv'
<1>. SUFFICES ASSUME IInv, UpdateTask PROVE IInv'
  OBVIOUS
<1>a. PICK routed \in SUBSET {m \in Mission : task[m] = "waiting" /\ left = SubSteps} :
      \E via \in [routed -> (UAV \cap Present) \cup {None}] :
        /\ relay' = [m \in Mission |-> IF m \in routed THEN via[m] ELSE relay[m]]
        /\ task' = Checked(Returning \cup routed)
  BY DEF UpdateTask
<1>0. PICK via \in [routed -> (UAV \cap Present) \cup {None}] :
        /\ relay' = [m \in Mission |-> IF m \in routed THEN via[m] ELSE relay[m]]
        /\ task' = Checked(Returning \cup routed)
  BY <1>a
<1>1. \A m \in Mission :
        /\ m \notin Returning \cup routed => task'[m] = task[m]
        /\ m \in Returning \cup routed => task'[m] \in {"failed", "returning"}
        /\ m \in Returning \cup routed /\ task'[m] = "returning" => now < Threshold
  <2>1. Returning \cup routed \in SUBSET Mission
    BY DEF Returning
  <2>. QED
    BY <1>0, <2>1, CheckedReturns
<1>2. \A m \in Mission : m \in Returning \cup routed <=> task[m] = "returning" \/ m \in routed
  BY DEF Returning
<1>3. \A m \in routed : m \in Mission /\ task[m] = "waiting" /\ relay[m] = None
  BY DEF IInv, TypeOK, Routes
<1>4. UNCHANGED <<now, left, node, sensor, profile, mission, given, stayed, broken>>
      /\ phase = "task" /\ phase' = "mission"
  BY DEF UpdateTask, At
<1>5. TypeOK'
  <2>1. relay' \in [Mission -> UAV \cup {None}]
    BY <1>0 DEF IInv, TypeOK
  <2>2. task' \in [Mission ->
          {"unstarted", "computing", "waiting", "returning", "finished", "failed"}]
    <3>1. task' = [m \in Mission |-> task'[m]]
      BY <1>0 DEF Checked
    <3>2. \A m \in Mission : task'[m] \in
            {"unstarted", "computing", "waiting", "returning", "finished", "failed"}
      BY <1>1 DEF IInv, TypeOK
    <3>. QED
      BY <3>1, <3>2
  <2>. QED
    BY <2>1, <2>2, <1>4 DEF IInv, TypeOK, Appointed
<1>6. SensorsHeld'
  <2>1. \A m \in Mission : FailedByRelay(m) => FailedByRelay(m)'
    BY <1>0, <1>3, <1>4 DEF FailedByRelay
  <2>2. Active' = Active
    BY <1>4 DEF Active, Started, In
  <2>. QED
    BY <2>1, <2>2, <1>4 DEF IInv, SensorsHeld
<1>7. Pending' /\ Deployed'
  BY <1>4 DEF IInv, Pending, Deployed
<1>8. Routes'
  BY <1>0, <1>1, <1>2, <1>3, <1>4 DEF IInv, Routes
<1>9. Stayed'
  BY <1>1, <1>2, <1>3, <1>4 DEF IInv, Stayed
<1>10. InTime'
  BY <1>1, <1>2, <1>4 DEF IInv, InTime
<1>. QED
  BY <1>5, <1>6, <1>7, <1>8, <1>9, <1>10 DEF IInv

LEMMA EndStepHolds == IInv /\ EndStep => IInv'
<1>. SUFFICES ASSUME IInv, EndStep PROVE IInv'
  OBVIOUS
<1>1. \A m \in Mission :
        /\ task[m] # "returning" => task'[m] = task[m]
        /\ task[m] = "returning" => task'[m] \in {"failed", "returning"}
  BY CheckedReturns DEF Returning, EndStep
<1>2. UNCHANGED <<now, left, node, sensor, profile, mission, given, stayed, relay, broken>>
      /\ phase = "check" /\ phase' = "schedule"
  BY DEF EndStep, At
<1>3. TypeOK'
  <2>1. task' = [m \in Mission |-> task'[m]]
    BY DEF EndStep, Checked
  <2>2. \A m \in Mission : task'[m] \in
          {"unstarted", "computing", "waiting", "returning", "finished", "failed"}
    BY <1>1 DEF IInv, TypeOK
  <2>. QED
    BY <1>2, <2>1, <2>2 DEF IInv, TypeOK, Appointed
<1>4. SensorsHeld'
  BY <1>2 DEF IInv, SensorsHeld, Active, Started, In, FailedByRelay
<1>5. Pending' /\ Deployed'
  BY <1>2 DEF IInv, Pending, Deployed
<1>6. Routes' /\ Stayed' /\ InTime'
  BY <1>1, <1>2 DEF IInv, Routes, Stayed, InTime
<1>. QED
  BY <1>3, <1>4, <1>5, <1>6 DEF IInv

LEMMA WorkHolds == IInv /\ Work => IInv'
<1>. SUFFICES ASSUME IInv, Work PROVE IInv'
  OBVIOUS
<1>0. \A m \in Mission :
        \/ task'[m] = task[m]
        \/ task[m] = "computing" /\ task'[m] = "waiting"
        \/ task[m] = "returning" /\ task'[m] = "finished"
  BY DEF Work, Returning
<1>1. UNCHANGED <<now, left, node, sensor, profile, mission, given, stayed, relay, broken>>
      /\ phase = "work" /\ phase' = "energy"
  BY DEF Work, At
<1>2. TypeOK'
  <2>1. task' = [m \in Mission |-> task'[m]]
    BY DEF Work
  <2>2. \A m \in Mission : task'[m] \in
          {"unstarted", "computing", "waiting", "returning", "finished", "failed"}
    BY <1>0 DEF IInv, TypeOK
  <2>. QED
    BY <1>1, <2>1, <2>2 DEF IInv, TypeOK, Appointed
<1>3. SensorsHeld'
  BY <1>1 DEF IInv, SensorsHeld, Active, Started, In, FailedByRelay
<1>4. Pending' /\ Deployed'
  BY <1>1 DEF IInv, Pending, Deployed
<1>5. Routes' /\ Stayed'
  BY <1>0, <1>1 DEF IInv, Routes, Stayed
<1>6. InTime'
  BY <1>0, <1>1, MissionTypes DEF IInv, TypeOK, InTime
<1>. QED
  BY <1>2, <1>3, <1>4, <1>5, <1>6 DEF IInv

(***************************************************************************)
(* _updateMission, for one mission: what has become of it, and when a      *)
(* sensor is taken or given back.                                          *)
(***************************************************************************)
LEMMA StayHolds ==
  ASSUME IInv, UpdateMission, NEW m \in Mission
  PROVE  /\ stayed'[m] \in Nat /\ stayed'[m] >= stayed[m]
         /\ \E k \in Nat : stayed'[m] = k * Interval
         /\ stayed'[m] < profile[m].duration + Interval
<1>. USE MissionTypes DEF IInv, TypeOK
<1>1. stayed[m] \in Nat /\ profile[m].duration \in Nat /\ Interval \in Nat \ {0}
  OBVIOUS
<1>2. \/ stayed'[m] = stayed[m]
      \/ stayed'[m] = stayed[m] + Interval /\ stayed[m] < profile[m].duration
  BY DEF UpdateMission, Stays
<1>3. PICK k \in Nat : stayed[m] = k * Interval
  BY DEF Stayed
<1>4. k * Interval + Interval = (k + 1) * Interval /\ k + 1 \in Nat
  BY OneMore, <1>1
<1>5. stayed[m] < profile[m].duration + Interval
  BY DEF Stayed
<1>6. \E i \in Nat : stayed'[m] = i * Interval
  BY <1>2, <1>3, <1>4
<1>. HIDE MissionTypes DEF IInv, TypeOK
<1>. QED
  BY <1>1, <1>2, <1>5, <1>6

LEMMA UpdateMissionHolds == IInv /\ UpdateMission => IInv'
<1>. SUFFICES ASSUME IInv, UpdateMission PROVE IInv'
  OBVIOUS
<1>1. UNCHANGED <<now, left, node, profile, given, relay>>
      /\ phase = "mission" /\ phase' = "work"
  BY DEF UpdateMission, At
<1>2. /\ Overdue \subseteq Active /\ Finished \subseteq Active \ Overdue
      /\ Started \subseteq Active /\ Active \subseteq Mission
      /\ \A m \in Mission : m \in Active <=> mission[m] \in {"new", "executing"}
      /\ \A m \in Mission : m \in Started <=> mission[m] = "new"
      /\ \A m \in EarlyFailed : m \in Mission /\ mission[m] = "profile"
  BY DEF Overdue, Finished, Active, Started, In, EarlyFailed
<1>3. \A m \in Mission :
        mission'[m] = IF m \in Overdue THEN "failed"
                      ELSE IF m \in EarlyFailed THEN "early"
                      ELSE IF m \in Finished THEN "succeeded"
                      ELSE IF m \in Started THEN "executing" ELSE mission[m]
  BY DEF UpdateMission
<1>4. \A m \in Mission :
        \/ task'[m] = task[m]
        \/ /\ m \in Active \ Overdue /\ task[m] = "unstarted" /\ task'[m] = "computing"
           /\ stayed'[m] > profile[m].duration
  BY DEF UpdateMission, SensingFinished
<1>5. \A s \in Sensor :
        sensor'[s] = IF s \in Freed THEN "idle"
                     ELSE IF s \in SensorsOf(Started) THEN "busy" ELSE sensor[s]
  BY DEF UpdateMission
<1>6. \A m \in Active : given[m] \in Sensor
  BY <1>2 DEF IInv, TypeOK, Appointed
<1>7. \A m, x \in Active : given[m] = given[x] => m = x
  BY DEF IInv, SensorsHeld
<1>8. \A m \in Active :
        /\ given[m] \in Freed <=> m \in Finished \cup Overdue
        /\ given[m] \in SensorsOf(Started) <=> m \in Started
  BY <1>2, <1>7 DEF Freed, SensorsOf
<1>9. \A m \in Active' :
        m \in Active \ (Finished \cup Overdue) /\ mission'[m] = "executing"
  BY <1>2, <1>3 DEF Active, Started, In
<1>10. TypeOK'
  <2>1. stayed' \in [Mission -> Nat]
    <3>1. stayed' = [m \in Mission |-> stayed'[m]]
      BY DEF UpdateMission, Stays
    <3>. QED
      BY <3>1, StayHolds
  <2>2. mission' \in [Mission -> Kind]
    <3>1. mission' = [m \in Mission |-> mission'[m]]
      BY DEF UpdateMission
    <3>2. \A m \in Mission : mission'[m] \in Kind
      BY <1>3 DEF IInv, TypeOK, Kind
    <3>. QED
      BY <3>1, <3>2
  <2>3. \A m \in Mission : ~Appointed(m)' <=> mission'[m] \in {"profile", "early"}
    BY <1>1, <1>2, <1>3 DEF IInv, TypeOK, Appointed
  <2>4. task' \in [Mission ->
          {"unstarted", "computing", "waiting", "returning", "finished", "failed"}]
    <3>1. task' = [m \in Mission |-> task'[m]]
      BY DEF UpdateMission
    <3>2. \A m \in Mission : task'[m] \in
            {"unstarted", "computing", "waiting", "returning", "finished", "failed"}
      BY <1>4 DEF IInv, TypeOK
    <3>. QED
      BY <3>1, <3>2
  <2>5. sensor' \in [Sensor -> {"none", "idle", "busy", "unavailable"}]
    <3>1. sensor' = [s \in Sensor |-> sensor'[s]]
      BY DEF UpdateMission
    <3>2. \A s \in Sensor : sensor'[s] \in {"none", "idle", "busy", "unavailable"}
      BY <1>5 DEF IInv, TypeOK
    <3>. QED
      BY <3>1, <3>2
  <2>6. broken' \in BOOLEAN
    BY DEF UpdateMission, IInv, TypeOK
  <2>. QED
    BY <2>1, <2>2, <2>3, <2>4, <2>5, <2>6, <1>1 DEF IInv, TypeOK, Kind
<1>11. SensorsHeld'
  <2>1. ~broken'
    <3>1. \A m \in Started : sensor[given[m]] = "idle"
      BY <1>2 DEF IInv, SensorsHeld
    <3>2. \A m \in Started : ~\E x \in Started \ {m} : given[x] = given[m]
      BY <1>2, <1>7
    <3>3. \A m \in (Overdue \cup Finished) \ Started : sensor[given[m]] = "busy"
      BY <1>2 DEF IInv, SensorsHeld
    <3>. QED
      BY <3>1, <3>2, <3>3 DEF UpdateMission, IInv, SensorsHeld
  <2>2. ASSUME NEW m \in Active'
        PROVE  sensor'[given'[m]] = IF mission'[m] = "new" THEN "idle" ELSE "busy"
    <3>1. m \in Active /\ m \notin Finished \cup Overdue /\ mission'[m] = "executing"
      BY <1>9
    <3>2. m \notin Started => sensor[given[m]] = "busy"
      BY <3>1, <1>2 DEF IInv, SensorsHeld
    <3>. QED
      BY <3>1, <3>2, <1>1, <1>5, <1>6, <1>8
  <2>3. \A m, x \in Active' : given'[m] = given'[x] => m = x
    BY <1>1, <1>7, <1>9
  <2>4. ASSUME NEW s \in Sensor, sensor'[s] = "busy"
        PROVE  \E m \in Mission :
                 given'[m] = s /\ (mission'[m] = "executing" \/ FailedByRelay(m)')
    <3>1. s \notin Freed
      BY <2>4, <1>5
    <3>2. CASE s \in SensorsOf(Started)
      <4>1. PICK m \in Started : given[m] = s
        BY <3>2 DEF SensorsOf
      <4>2. m \in Mission /\ m \notin Finished \cup Overdue /\ mission[m] = "new"
        BY <4>1, <3>1, <1>2, <1>8
      <4>3. mission'[m] = "executing"
        BY <4>1, <4>2, <1>2, <1>3
      <4>. QED
        BY <4>1, <4>2, <4>3, <1>1
    <3>3. CASE s \notin SensorsOf(Started)
      <4>1. sensor[s] = "busy"
        BY <2>4, <3>1, <3>3, <1>5
      <4>2. PICK m \in Mission :
              given[m] = s /\ (mission[m] = "executing" \/ FailedByRelay(m))
        BY <4>1 DEF IInv, SensorsHeld
      <4>3. CASE mission[m] = "executing"
        <5>1. m \in Active /\ m \notin Finished \cup Overdue
          BY <4>2, <4>3, <3>1, <1>2, <1>8
        <5>2. mission'[m] = "executing"
          BY <4>3, <5>1, <1>2, <1>3
        <5>. QED
          BY <4>2, <5>2, <1>1
      <4>4. CASE FailedByRelay(m)
        <5>1. mission'[m] = "failed"
          BY <4>4, <1>2, <1>3 DEF FailedByRelay
        <5>. QED
          BY <4>2, <4>4, <5>1, <1>1 DEF FailedByRelay
      <4>. QED
        BY <4>2, <4>3, <4>4
    <3>. QED
      BY <3>2, <3>3
  <2>. QED
    BY <2>1, <2>2, <2>3, <2>4 DEF SensorsHeld
<1>12. Pending'
  BY <1>1, <1>2, <1>3 DEF IInv, Pending
<1>13. Deployed'
  <2>1. \A m \in Active : sensor[given[m]] \in {"idle", "busy"}
    BY DEF IInv, SensorsHeld
  <2>2. ASSUME NEW s \in Freed \cup SensorsOf(Started)
        PROVE  sensor[s] \in {"idle", "busy"}
    BY <2>1, <1>2 DEF Freed, SensorsOf
  <2>. QED
    BY <2>2, <1>1, <1>5 DEF IInv, Deployed
<1>14. Routes'
  BY <1>1, <1>2, <1>3, <1>4 DEF IInv, Routes
<1>15. \A m \in Mission :
         /\ stayed[m] \in Nat /\ stayed'[m] \in Nat /\ profile[m].duration \in Nat
         /\ stayed'[m] >= stayed[m]
  <2>1. \A m \in Mission : stayed[m] \in Nat /\ profile[m].duration \in Nat
    BY MissionTypes DEF IInv, TypeOK
  <2>2. \A m \in Mission : stayed'[m] \in Nat /\ stayed'[m] >= stayed[m]
    BY StayHolds
  <2>. QED
    BY <2>1, <2>2
<1>16. Stayed'
  <2>. SUFFICES ASSUME NEW m \in Mission
                PROVE  /\ \E k \in Nat : stayed'[m] = k * Interval
                       /\ stayed'[m] < profile[m].duration + Interval
                       /\ task'[m] # "unstarted" => stayed'[m] > profile[m].duration
    BY <1>1 DEF Stayed
  <2>0. /\ stayed[m] \in Nat /\ stayed'[m] \in Nat /\ profile[m].duration \in Nat
        /\ stayed'[m] >= stayed[m]
    BY <1>15
  <2>1. task'[m] # "unstarted" => stayed'[m] > profile[m].duration
    BY <1>4, <2>0 DEF IInv, Stayed
  <2>. QED
    BY <2>1, StayHolds
<1>17. InTime'
  <2>. SUFFICES ASSUME NEW m \in Mission
                PROVE  /\ task'[m] = "returning" => now < Threshold
                       /\ ~(task'[m] = "finished" /\ mission'[m] = "executing")
    BY <1>1 DEF InTime
  <2>1. task'[m] = "returning" => now < Threshold
    BY <1>1, <1>4 DEF IInv, InTime
  <2>2. ASSUME task'[m] = "finished", mission'[m] = "executing" PROVE FALSE
    <3>1. task[m] = "finished" /\ m \in Active \ Overdue /\ m \notin Finished
      BY <2>2, <1>2, <1>3, <1>4
    <3>2. stayed'[m] >= profile[m].duration
      BY <3>1, <1>15 DEF IInv, Stayed
    <3>. QED
      BY <3>1, <3>2 DEF Finished
  <2>. QED
    BY <2>1, <2>2
<1>. QED
  BY <1>10, <1>11, <1>12, <1>13, <1>14, <1>16, <1>17 DEF IInv

-----------------------------------------------------------------------------
\* What the handlers of nodes, sensors, missions and their tasks keep to together.
THEOREM Invariance == Spec => []IInv
<1>1. IInv /\ [Next]_vars => IInv'
  <2>. SUFFICES ASSUME IInv, [Next]_vars PROVE IInv'
    OBVIOUS
  <2>1. CASE UNCHANGED vars
    BY <2>1 DEF vars, IInv, TypeOK, Appointed, SensorsHeld, Active, Started, In,
                FailedByRelay, Pending, Deployed, Routes, Stayed, InTime
  <2>. QED
    BY <2>1, ScheduleHolds, TrafficHolds, UpdateTaskHolds, UpdateMissionHolds, WorkHolds,
       EnergyHolds, EndStepHolds
    DEF Next, Done
<1>. QED
  BY InitHolds, <1>1, PTL DEF Spec

\* Every variable has its type, and a mission has a sensor from its appointment on.
THEOREM TypeCorrect == Spec => []TypeOK
<1>1. IInv => TypeOK
  BY DEF IInv
<1>. QED
  BY Invariance, <1>1, PTL

\* A sensor serves one mission at a time, and is given back but when a relay leaves
\* (startUseById, endUseById, _removeVehicle, _removeUAV).
THEOREM SensorsTheorem == Spec => []SensorsHeld
<1>1. IInv => SensorsHeld
  BY DEF IInv
<1>. QED
  BY Invariance, <1>1, PTL

\* A mission succeeds only with a duration the interval does not divide, and only in
\* the time the timeout of its result leaves (isFinished, isSensingFinished, checkTasks).
THEOREM SuccessTheorem == Spec => WhatSuccessTakes
<1>. DEFINE Takes ==
       \A m \in Mission : mission[m] # "succeeded" /\ mission'[m] = "succeeded" =>
         profile[m].duration % Interval # 0 /\ now < Threshold + Interval
<1>1. ASSUME IInv, UpdateMission PROVE Takes
  <2>. SUFFICES ASSUME NEW m \in Mission, mission[m] # "succeeded", mission'[m] = "succeeded"
                PROVE  profile[m].duration % Interval # 0 /\ now < Threshold + Interval
    OBVIOUS
  <2>1. m \in Active /\ task[m] = "finished"
    BY <1>1 DEF UpdateMission, Finished
  <2>2. mission[m] = "executing"
    BY <1>1, <2>1 DEF Active, Started, In, IInv, Routes
  <2>3. now < Threshold + Interval
    BY <1>1, <2>1, <2>2 DEF IInv, InTime
  <2>4. /\ stayed[m] \in Nat /\ profile[m].duration \in Nat
        /\ Interval \in Nat \ {0}
        /\ profile[m].duration < stayed[m] /\ stayed[m] < profile[m].duration + Interval
    BY <1>1, <2>1, MissionTypes DEF IInv, TypeOK, Stayed
  <2>5. PICK k \in Nat : stayed[m] = k * Interval
    BY <1>1 DEF IInv, Stayed
  <2>6. ASSUME profile[m].duration % Interval = 0 PROVE FALSE
    <3>1. k * Interval >= profile[m].duration + Interval
      BY <2>4, <2>5, <2>6, NoMultipleBetween
    <3>. QED
      BY <3>1, <2>4, <2>5
  <2>. QED
    BY <2>3, <2>6
<1>2. ASSUME IInv, Traffic \/ Energy PROVE Takes
  BY <1>2 DEF Traffic, Energy, Leave
<1>3. ASSUME Schedule PROVE Takes
  BY <1>3 DEF Schedule
<1>4. ASSUME UpdateTask \/ Work \/ EndStep \/ UNCHANGED vars PROVE Takes
  BY <1>4 DEF UpdateTask, Work, EndStep, vars
<1>5. IInv /\ [Next]_vars => [Takes]_vars
  BY <1>1, <1>2, <1>3, <1>4 DEF Next, Done
<1>. QED
  BY Invariance, <1>5, PTL DEF Spec, WhatSuccessTakes

=============================================================================
