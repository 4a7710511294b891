--------------------------- MODULE MCServiceChain ---------------------------
(***************************************************************************)
(* Two chains on two instances.  The first joins two functions into a      *)
(* third; the second has two independent functions, one of them optional.  *)
(* The instances have room for four of the five functions, so that the     *)
(* order of submission decides which chain is rejected half way.           *)
(***************************************************************************)
EXTENDS ServiceChain, TLC

CONSTANTS car, uav, rsu

MCNode == {car, uav, rsu}
Join == "join"
Pair == "pair"
MCChain == {Join, Pair}
MCFn == {"a", "b", "c"}

MCOrder == (Join :> <<"a", "b", "c">>) @@ (Pair :> <<"a", "b">>)
MCEdges == (Join :> {<<"a", "c">>, <<"b", "c">>}) @@ (Pair :> {})
MCCarrier == [c \in MCChain |-> [f \in MCFn |-> "b"]]
MCOptional == (Join :> {}) @@ (Pair :> {"b"})
MCSource == (Join :> uav) @@ (Pair :> car)
MCSink == (Join :> uav) @@ (Pair :> rsu)
MCDeadline == (Join :> 2) @@ (Pair :> 1)
MCOverride == [c \in MCChain |-> [f \in MCFn |->
  CASE c = Join /\ f = "b" -> 3 [] c = Join /\ f = "c" -> 1 [] OTHER -> NoOverride]]
MCDemand == [c \in MCChain |-> [f \in MCFn |-> 1]]

MCInstance == {"onCar", "onRsu"}
MCServes == [c \in MCChain |->
  [f \in MCFn |-> CASE f = "a" -> MCInstance [] f = "b" -> {"onRsu"} [] f = "c" -> {"onCar"}]]
MCHostOf == ("onCar" :> car) @@ ("onRsu" :> rsu)
MCCapacity == [i \in MCInstance |-> 2]
=============================================================================
