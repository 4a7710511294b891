-------------------------- MODULE ServiceContract --------------------------
(***************************************************************************)
(* What LASDM promises of a service chain, without instances, tasks or     *)
(* time: a submitted chain runs, its functions are delivered after the     *)
(* functions they need, and it ends once, in success only if every         *)
(* function was delivered.                                                 *)
(***************************************************************************)
CONSTANTS
  Chain,      \* service chain identifiers
  Functions,  \* the functions of a chain, [Chain -> SUBSET Fn]
  Needs       \* the functions a function of a chain needs

VARIABLES
  verdict,    \* GraphStatus of the chain
  delivered   \* functions whose result was delivered

Verdict == {"pending", "running", "succeeded", "failed", "timed_out"}

Init ==
  /\ verdict = [c \in Chain |-> "pending"]
  /\ delivered = [c \in Chain |-> {}]

\* A function is delivered after those it needs; a chain that ended may still
\* have functions delivered.
Deliver(c) ==
  /\ delivered[c] \subseteq delivered'[c]
  /\ delivered'[c] \subseteq Functions[c]
  /\ \A f \in delivered'[c] \ delivered[c] : Needs[c][f] \subseteq delivered[c]

\* A chain is submitted once and ends once.
Progress(c) ==
  \/ verdict'[c] = verdict[c]
  \/ verdict[c] = "pending" /\ verdict'[c] = "running"
  \/ verdict[c] = "running" /\ verdict'[c] \in {"failed", "timed_out"}
  \/ /\ verdict[c] = "running" /\ verdict'[c] = "succeeded"
     /\ delivered'[c] = Functions[c]

\* Several chains may move in one synchronisation.
Next ==
  /\ verdict' \in [Chain -> Verdict]
  /\ DOMAIN delivered' = Chain
  /\ \A c \in Chain : Deliver(c) /\ Progress(c)

Spec == Init /\ [][Next]_<<verdict, delivered>>
=============================================================================
