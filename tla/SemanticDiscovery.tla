-------------------------- MODULE SemanticDiscovery --------------------------
(***************************************************************************)
(* Service discovery between regional agents.  In every step of the        *)
(* training environment each agent advertises the instances of its region  *)
(* to the regions around it; the messages take time, a cache per agent     *)
(* keeps what was heard last from each source for a time to live, and the  *)
(* catalog offers the cached instances as remote candidates.               *)
(*                                                                         *)
(* An advertisement stands for all an agent sends in one message: its      *)
(* first top_k_per_agent instances, dated alike.  Every message has the    *)
(* turn of its exchange, which is the order of SemanticExchange.pending.   *)
(***************************************************************************)
EXTENDS Integers, FiniteSets

CONSTANTS
  Region,        \* regions of the topology
  Agent,         \* regions with a catalog
  Rank,          \* the order of the names of the regions
  Topologies,    \* the neighbour relations a topology may have, as sets of pairs
  FixedDelay,    \* fixed_delay_s
  PerHop,        \* per_hop_delay_s
  Radius,        \* radius_hops
  TTL,           \* ttl_s
  Durations,     \* the times a step of the environment may take
  MaxSteps       \* max_steps

ASSUME DiscoveryTypes ==
  /\ Agent \subseteq Region
  /\ Rank \in [Region -> Nat]
  /\ \A r, s \in Region : Rank[r] = Rank[s] => r = s
  /\ \A g \in Topologies : g \subseteq Region \X Region
  /\ FixedDelay \in Nat /\ PerHop \in Nat /\ TTL \in Nat
  /\ Radius \in Nat \ {0} /\ Durations \subseteq Nat \ {0} /\ MaxSteps \in Nat

\* reset() runs a second exchange, dated this much later.
WarmUp == FixedDelay + PerHop

\* A message arrives before the exchange of the next step.
ASSUME StepsOutlastMessages == \A d \in Durations : d >= FixedDelay + PerHop * Radius

VARIABLES
  now,       \* AirFogSim's clock
  steps,     \* step_count
  turn,      \* exchanges so far
  topology,  \* region neighbours, from neighbor_map_by_region
  pending,   \* SemanticExchange.pending
  cache,     \* SemanticAdvertisementCache._ads of each agent, by source
  offered,   \* the remote candidates of the last observations
  phase      \* where the environment is in reset() or step()

vars == <<now, steps, turn, topology, pending, cache, offered, phase>>

At(p) == phase = p

\* taken is the time the directory was read at; created the date it is given.
Advertisement == [from : Agent, taken : Nat, created : Nat]
Message == [ad : Advertisement, to : Region, hops : 1..Radius, due : Nat, turn : Nat]
Unheard == [from |-> "nobody"]

-----------------------------------------------------------------------------
(***************************************************************************)
(* _expand_neighbor_map_by_radius: the regions within k hops, breadth      *)
(* first over the symmetric neighbour relation.                            *)
(***************************************************************************)
Within(r, g) ==
  LET w[k \in 0..Radius] ==
        IF k = 0 THEN {r}
        ELSE w[k-1] \cup {s \in Region : \E x \in w[k-1] : <<x, s>> \in g \/ <<s, x>> \in g}
  IN  w

\* A region is counted in the first round that reaches it.
ReachedIn(k, r, s, g) == s \in Within(r, g)[k] \ Within(r, g)[k-1]

\* Mutant of Hops: the frontier is counted before it is crossed.
HopsOffByOne(r, s, g) == 1 + CHOOSE k \in 1..Radius : ReachedIn(k, r, s, g)

Hops(r, s, g) == CHOOSE k \in 1..Radius : ReachedIn(k, r, s, g)

Neighbours(r, g) == {s \in Region : \E k \in 1..Radius : ReachedIn(k, r, s, g)}

\* The first Radius names of a set.
First(set) == {s \in set : Cardinality({x \in set : Rank[x] < Rank[s]}) < Radius}

\* step_exchange: an agent whose neighbours are all direct sends to the first few.
Receivers(r, g) ==
  IF \A s \in Neighbours(r, g) : Hops(r, s, g) <= 1
  THEN First(Neighbours(r, g))
  ELSE Neighbours(r, g)

\* Mutant of Delay: every hop costs the whole delay.
DelayPerHop(h) == (FixedDelay + PerHop) * h

Delay(h) == FixedDelay + PerHop * (h - 1)

\* broadcast, at the date t
Sent(t) ==
  UNION {{[ad |-> [from |-> r, taken |-> now, created |-> t], to |-> s,
           hops |-> Hops(r, s, topology),
           due |-> t + Delay(Hops(r, s, topology)), turn |-> turn + 1]
          : s \in Receivers(r, topology)} : r \in Agent}

-----------------------------------------------------------------------------
(***************************************************************************)
(* DistributedServiceDiscoveryProtocol.tick: every agent sends, the due    *)
(* messages are delivered in the order they were sent, and each receiver   *)
(* takes what is not stale into its cache, over what it had.               *)
(***************************************************************************)
Age(ad, t) == IF t > ad.created THEN t - ad.created ELSE 0
Stale(ad, t) == Age(ad, t) > TTL

\* Mutant of LastHeard: the messages are delivered latest first.
FirstHeard(heard) == CHOOSE m \in heard : \A x \in heard : m.turn <= x.turn

LastHeard(heard) == CHOOSE m \in heard : \A x \in heard : x.turn <= m.turn

Cached(due, t) ==
  [r \in Agent |-> [s \in Agent |->
     LET heard == {m \in due : m.to = r /\ m.ad.from = s /\ ~Stale(m.ad, t)}
     IN  IF heard = {} THEN cache[r][s] ELSE LastHeard(heard).ad]]

Exchange(t) ==
  LET messages == pending \cup Sent(t)
  IN  /\ cache' = Cached({m \in messages : m.due <= t}, t)
      /\ pending' = {m \in messages : m.due > t}
      /\ turn' = turn + 1

-----------------------------------------------------------------------------
Init ==
  /\ now = 0 /\ steps = 0 /\ turn = 0
  /\ topology \in Topologies
  /\ pending = {}
  /\ cache = [r \in Agent |-> [s \in Agent |-> Unheard]]
  /\ offered = [r \in Agent |-> {}]
  /\ phase = "reset"

\* reset(): the exchange at the current time, and one dated WarmUp later.
Reset ==
  /\ At("reset")
  /\ Exchange(now)
  /\ phase' = "warm_up"
  /\ UNCHANGED <<now, steps, topology, offered>>

Warm ==
  /\ At("warm_up")
  /\ Exchange(now + WarmUp)
  /\ phase' = "observe"
  /\ UNCHANGED <<now, steps, topology, offered>>

\* Mutant of Fresh: the cache is read without being pruned.
FreshUnpruned(ads) == ads

\* fresh(): prune, then all that is left.
Fresh(ads) == {ad \in ads : ~Stale(ad, now)}

\* _build_observations: the agents that control a chain with ready functions
\* query their catalog; what is stale leaves their cache.
Observe ==
  /\ At("observe")
  /\ \E asking \in SUBSET Agent :
       LET left == [r \in Agent |-> Fresh({cache[r][s] : s \in Agent} \ {Unheard})]
       IN  /\ cache' = [r \in Agent |-> [s \in Agent |->
                IF r \in asking /\ cache[r][s] \notin left[r] THEN Unheard ELSE cache[r][s]]]
           /\ offered' = [r \in Agent |-> IF r \in asking THEN left[r] ELSE {}]
  /\ phase' = "step"
  /\ UNCHANGED <<now, steps, turn, topology, pending>>

\* step(): the topology is read again at a time at which nothing has moved, then
\* the exchange.
StepExchange ==
  /\ At("step") /\ steps < MaxSteps
  /\ Exchange(now)
  /\ offered' = [r \in Agent |-> {}]
  /\ phase' = "advance"
  /\ UNCHANGED <<now, steps, topology>>

\* advance_runtime, and the topology of the new time.
Advance ==
  /\ At("advance")
  /\ \E d \in Durations : now' = now + d
  /\ topology' \in Topologies
  /\ steps' = steps + 1
  /\ phase' = "observe"
  /\ UNCHANGED <<turn, pending, cache, offered>>

Horizon == At("step") /\ steps = MaxSteps /\ UNCHANGED vars

Next == Reset \/ Warm \/ Observe \/ StepExchange \/ Advance \/ Horizon

Spec == Init /\ [][Next]_vars

-----------------------------------------------------------------------------
(***************************************************************************)
(* Properties.                                                             *)
(***************************************************************************)

\* Every variable has its type; no message goes further than the radius.
TypeOK ==
  /\ now \in Nat /\ steps \in 0..MaxSteps /\ turn \in Nat
  /\ topology \in Topologies
  /\ pending \subseteq Message
  /\ cache \in [Agent -> [Agent -> Advertisement \cup {Unheard}]]
  /\ offered \in [Agent -> SUBSET Advertisement]
  /\ phase \in {"reset", "warm_up", "observe", "step", "advance"}

\* A remote candidate describes the region of its source as it was at most TTL
\* ago; only the exchange of reset(), dated later than it is made, adds to that.
OfferedIsRecent ==
  \A r \in Agent : \A ad \in offered[r] : now - ad.taken <= TTL + WarmUp

\* Messages over more hops take longer and the cache overwrites without looking at
\* dates; still what an agent holds of a source never gets older, and is no older than
\* what this exchange has delivered, stale messages apart.
Known(r, s) == {cache[r][s]} \ {Unheard}
Delivered(r, s) == {m.ad : m \in {x \in pending \ pending' : x.to = r /\ x.ad.from = s}}
NewestKept ==
  [][\A r, s \in Agent : cache'[r][s] # Unheard =>
       /\ \A ad \in Known(r, s) : cache'[r][s].taken >= ad.taken
       /\ \A ad \in Delivered(r, s) :
            cache'[r][s].taken >= ad.taken \/ now - ad.taken > TTL]_vars

\* What was sent in a step has been heard by the end of the next exchange, or was
\* replaced by something later, unless it went stale on the way.
SentIsHeard ==
  [][StepExchange => \A m \in pending :
       m.to \in Agent /\ m.ad.taken < now =>
         \/ cache'[m.to][m.ad.from] # Unheard /\ cache'[m.to][m.ad.from].taken >= m.ad.taken
         \/ now - m.ad.taken > TTL]_vars

=============================================================================
