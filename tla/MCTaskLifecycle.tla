-------------------------- MODULE MCTaskLifecycle --------------------------
(***************************************************************************)
(* A deployment with one vehicle, one UAV, two RSUs with a wired link and  *)
(* a cloud server behind the first RSU, and two workloads on it.           *)
(***************************************************************************)
EXTENDS TaskLifecycle

CONSTANTS car, uav, rsu, rsu2, cloud

MCNode == {car, uav, rsu, rsu2, cloud}
MCWiredLinks == {<<rsu, rsu2>>, <<rsu2, rsu>>, <<rsu, cloud>>, <<cloud, rsu>>}

(* A generated DAG on the UAV: the child needs the parent, the sibling     *)
(* nothing.                                                                *)
Dag == {"parent", "child", "sibling"}
DagNodeOf == [t \in Dag |-> uav]
DagParents == [t \in Dag |-> IF t = "child" THEN {"parent"} ELSE {}]
DagArrivalOf == [t \in Dag |-> IF t = "parent" THEN 0 ELSE 1]
DagDeadlineOf == [t \in Dag |-> IF t = "child" THEN 4 ELSE 3]
DagOffloadRoutes ==
  [t \in Dag |-> CASE t = "parent" -> {<<uav>>, <<car>>}
                   [] t = "child" -> {<<rsu, cloud>>}
                   [] t = "sibling" -> {<<uav>>}]
DagReturnRoutes == [t \in Dag |-> {<<uav>>}]

(* Two bridge tasks whose results go to the UAV: the vehicle's task goes   *)
(* to an RSU, the task of the first RSU runs locally or in the cloud.      *)
Chain == {"first", "second"}
ChainNodeOf == [t \in Chain |-> IF t = "first" THEN car ELSE rsu]
ChainReturnNodeOf == [t \in Chain |-> uav]
ChainParents == [t \in Chain |-> {}]
ChainArrivalOf == [t \in Chain |-> 0]
ChainDeadlineOf == [t \in Chain |-> IF t = "first" THEN 4 ELSE 3]
ChainOffloadRoutes ==
  [t \in Chain |-> IF t = "first" THEN {<<rsu>>, <<rsu, rsu2>>} ELSE {<<rsu>>, <<cloud>>}]
ChainReturnRoutes == [t \in Chain |-> {<<uav>>, <<rsu, uav>>}]
=============================================================================
