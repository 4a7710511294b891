------------------------ MODULE SemanticDiscoveryProofs ------------------------
(***************************************************************************)
(* What agents hold of one another, for any regions, topologies, delays,   *)
(* radius, time to live and steps that outlast the messages.               *)
(***************************************************************************)
EXTENDS SemanticDiscovery, WellFoundedInduction, TLAPS

\* The longest a message takes, which no step is shorter than.
Span == FixedDelay + PerHop * Radius

\* Steps are whole spans apart, from the reset on.
Clock ==
  /\ now = 0 \/ Span <= now
  /\ phase \in {"reset", "warm_up"} => now = 0
  /\ phase = "advance" => steps < MaxSteps

\* An advertisement is dated when it is made or, in the reset, a little later.
Dated(ad) ==
  /\ ad.taken <= ad.created /\ ad.created <= ad.taken + WarmUp
  /\ ad.taken = now \/ ad.taken + Span <= now
  /\ ad.taken = 0 \/ Span <= ad.taken

\* When a message arrives: only those of the reset may outlast a step.
Arrives(m) ==
  /\ m.ad.taken + FixedDelay <= m.due
  /\ m.due <= m.ad.taken + Span \/ (m.ad.taken = 0 /\ m.due <= FixedDelay + Span)

Posted == \A m \in pending : m.turn <= turn /\ Dated(m.ad) /\ Arrives(m)

InOrder == \A x, y \in pending : x.turn <= y.turn => x.ad.taken <= y.ad.taken

\* What is held is no later than what is still to come.
Held ==
  \A r, s \in Agent : cache[r][s] # Unheard =>
    /\ Dated(cache[r][s])
    /\ \A m \in pending : m.to = r /\ m.ad.from = s => cache[r][s].taken <= m.ad.taken

\* Candidates are offered between an observation and the step it leads to.
Offers == phase = "step" \/ \A r \in Agent : offered[r] = {}

IInv == TypeOK /\ Clock /\ Posted /\ InOrder /\ Held /\ Offers /\ OfferedIsRecent

-----------------------------------------------------------------------------
(***************************************************************************)
(* Delays and messages.                                                    *)
(***************************************************************************)
LEMMA Delays ==
  /\ Span \in Nat /\ WarmUp \in Nat /\ FixedDelay <= Span
  /\ \A h \in 1..Radius :
       Delay(h) \in Nat /\ FixedDelay <= Delay(h) /\ Delay(h) + PerHop <= Span
<1>. USE DiscoveryTypes
<1>1. \A a, b \in Nat : a * b \in Nat
  OBVIOUS
<1>2. PerHop * Radius \in Nat
  BY <1>1
<1>3. ASSUME NEW h \in 1..Radius
      PROVE  Delay(h) \in Nat /\ FixedDelay <= Delay(h) /\ Delay(h) + PerHop <= Span
  <2>1. PICK e \in Nat : Radius = h + e
    <3>1. Radius - h \in Nat /\ Radius = h + (Radius - h)
      OBVIOUS
    <3>. QED
      BY <3>1
  <2>2. h \in Int /\ PerHop * Radius = PerHop * h + PerHop * e
    BY <2>1
  <2>3. PerHop * h = PerHop * (h - 1) + PerHop
    OBVIOUS
  <2>4. PerHop * (h - 1) \in Nat /\ PerHop * e \in Nat
    <3>1. h - 1 \in Nat
      OBVIOUS
    <3>. QED
      BY <3>1, <1>1
  <2>. QED
    BY <2>2, <2>3, <2>4 DEF Delay, Span
<1>. QED
  BY <1>2, <1>3 DEF Span, WarmUp

\* Whoever receives is a region, at a number of hops within the radius.
LEMMA ReceiversInReach ==
  ASSUME NEW r, NEW s \in Receivers(r, topology)
  PROVE  s \in Region /\ Hops(r, s, topology) \in 1..Radius
<1>1. s \in Neighbours(r, topology)
  BY DEF Receivers, First
<1>2. s \in Region /\ \E k \in 1..Radius : ReachedIn(k, r, s, topology)
  BY <1>1 DEF Neighbours
<1>. QED
  BY <1>2 DEF Hops

\* The dates at which exchanges are held.
Date(t) == t = now \/ (now = 0 /\ t = WarmUp)

LEMMA SentMessages ==
  ASSUME TypeOK, Clock, NEW t \in Nat, Date(t), NEW m \in Sent(t)
  PROVE  m \in Message /\ m.turn = turn + 1 /\ m.ad.taken = now /\ Dated(m.ad) /\ Arrives(m)
<1>1. PICK r \in Agent : \E s \in Receivers(r, topology) :
        m = [ad |-> [from |-> r, taken |-> now, created |-> t], to |-> s,
             hops |-> Hops(r, s, topology),
             due |-> t + Delay(Hops(r, s, topology)), turn |-> turn + 1]
  BY DEF Sent
<1>2. PICK s \in Receivers(r, topology) :
        m = [ad |-> [from |-> r, taken |-> now, created |-> t], to |-> s,
             hops |-> Hops(r, s, topology),
             due |-> t + Delay(Hops(r, s, topology)), turn |-> turn + 1]
  BY <1>1
<1>3. s \in Region /\ Hops(r, s, topology) \in 1..Radius
  BY ReceiversInReach
<1>. DEFINE delay == Delay(Hops(r, s, topology))
<1>4. /\ delay \in Nat /\ FixedDelay <= delay /\ delay + PerHop <= Span
      /\ Span \in Nat /\ WarmUp \in Nat
  BY <1>3, Delays
<1>. HIDE DEF delay
<1>5. m = [ad |-> [from |-> r, taken |-> now, created |-> t], to |-> s,
           hops |-> Hops(r, s, topology), due |-> t + delay, turn |-> turn + 1]
  BY <1>2 DEF delay
<1>6. now \in Nat /\ turn \in Nat
  BY DEF TypeOK
<1>7. m \in Message
  BY <1>3, <1>4, <1>5, <1>6 DEF Message, Advertisement
<1>8. /\ m.turn = turn + 1 /\ m.ad.taken = now /\ m.ad.created = t /\ m.due = t + delay
  BY <1>5
<1>9. Dated(m.ad)
  BY <1>4, <1>6, <1>8 DEF Dated, Date, Clock
<1>10. Arrives(m)
  BY <1>4, <1>6, <1>8, DiscoveryTypes DEF Arrives, Date, WarmUp
<1>. QED
  BY <1>7, <1>8, <1>9, <1>10

\* Whoever receives is sent a message, due by the span.
LEMMA SentToReceivers ==
  ASSUME NEW t, NEW r \in Agent, NEW s \in Receivers(r, topology)
  PROVE  \E x \in Sent(t) :
           /\ x.to = s /\ x.ad.from = r /\ x.ad.taken = now /\ x.ad.created = t
           /\ x.due = t + Delay(Hops(r, s, topology))
<1>. DEFINE x == [ad |-> [from |-> r, taken |-> now, created |-> t], to |-> s,
                  hops |-> Hops(r, s, topology),
                  due |-> t + Delay(Hops(r, s, topology)), turn |-> turn + 1]
<1>1. x \in Sent(t)
  BY DEF Sent
<1>2. /\ x.to = s /\ x.ad.from = r /\ x.ad.taken = now /\ x.ad.created = t
      /\ x.due = t + Delay(Hops(r, s, topology))
  OBVIOUS
<1>. QED
  BY <1>1, <1>2

\* No advertisement is the absence of one.
LEMMA UnheardIsNone == \A ad \in Advertisement : ad # Unheard
<1>. SUFFICES ASSUME NEW ad \in Advertisement, ad = Unheard PROVE FALSE
  OBVIOUS
<1>1. DOMAIN ad = {"from", "taken", "created"}
  BY DEF Advertisement
<1>2. DOMAIN Unheard = {"from"}
  BY DEF Unheard
<1>3. "taken" # "from"
  OBVIOUS
<1>. QED
  BY <1>1, <1>2, <1>3

\* Of what is heard from a source one message was sent last.
LEMMA LastIsLast ==
  ASSUME NEW heard, heard # {}, NEW b \in Nat, \A m \in heard : m.turn \in Nat /\ m.turn <= b
  PROVE  LastHeard(heard) \in heard /\ \A x \in heard : x.turn <= LastHeard(heard).turn
<1>. DEFINE T == {n \in Nat : \E m \in heard : n + m.turn = b}
<1>1. ASSUME NEW m \in heard PROVE b - m.turn \in T
  <2>1. b - m.turn \in Nat /\ (b - m.turn) + m.turn = b
    OBVIOUS
  <2>. QED
    BY <2>1
<1>2. T \subseteq Nat /\ T # {}
  BY <1>1
<1>. HIDE DEF T
<1>3. PICK n \in T : \A k \in T : ~(<<k, n>> \in OpToRel(<, Nat))
  BY <1>2, NatLessThanWellFounded, WFMin
<1>4. \A k \in T : n <= k
  <2>. SUFFICES ASSUME NEW k \in T, k < n PROVE FALSE
    BY <1>2
  <2>1. <<k, n>> \in OpToRel(<, Nat)
    BY <1>2 DEF OpToRel
  <2>. QED
    BY <1>3, <2>1
<1>5. PICK m \in heard : n + m.turn = b
  BY DEF T
<1>6. \A x \in heard : x.turn <= m.turn
  BY <1>1, <1>2, <1>4, <1>5
<1>. QED
  BY <1>6 DEF LastHeard

\* A message that is due does not overtake one that is not.
LEMMA NoOvertaking ==
  ASSUME TypeOK, Clock, NEW t \in Nat, Date(t),
         NEW y \in Message, Dated(y.ad), Arrives(y), y.due <= t,
         NEW m \in Message, Dated(m.ad), Arrives(m), m.due > t
  PROVE  y.ad.taken <= m.ad.taken
<1>1. /\ y.ad.taken \in Nat /\ m.ad.taken \in Nat /\ y.due \in Nat /\ m.due \in Nat
      /\ now \in Nat /\ Span \in Nat /\ FixedDelay \in Nat /\ FixedDelay <= Span
  BY Delays, DiscoveryTypes DEF Message, Advertisement, TypeOK
<1>. SUFFICES ASSUME y.ad.taken > m.ad.taken PROVE FALSE
  BY <1>1
<1>2. now > 0 /\ t = now /\ Span <= now
  BY <1>1 DEF Dated, Date, Clock
<1>3. m.ad.taken = 0 /\ m.due <= FixedDelay + Span
  BY <1>1, <1>2 DEF Dated, Arrives
<1>4. CASE y.ad.taken = now
  BY <1>1, <1>2, <1>3, <1>4 DEF Arrives
<1>5. CASE y.ad.taken # now
  BY <1>1, <1>2, <1>3, <1>5 DEF Dated
<1>. QED
  BY <1>4, <1>5

(***************************************************************************)
(* An exchange: what is cached after it, and what is left to deliver.      *)
(***************************************************************************)
LEMMA ExchangeHolds ==
  ASSUME IInv, NEW t \in Nat, Date(t), Exchange(t), UNCHANGED now
  PROVE  /\ pending' \subseteq Message /\ turn' \in Nat
         /\ cache' \in [Agent -> [Agent -> Advertisement \cup {Unheard}]]
         /\ Posted' /\ InOrder' /\ Held'
         /\ \A r, s \in Agent : cache'[r][s] # Unheard =>
              /\ \A ad \in Known(r, s) : cache'[r][s].taken >= ad.taken
              /\ \A ad \in Delivered(r, s) :
                   cache'[r][s].taken >= ad.taken \/ now - ad.taken > TTL
         /\ \A r, s \in Agent : cache[r][s] # Unheard => cache'[r][s] # Unheard
         /\ \A m \in pending \cup Sent(t) :
              m.to \in Agent /\ m.due <= t /\ ~Stale(m.ad, t) =>
                /\ cache'[m.to][m.ad.from] # Unheard
                /\ cache'[m.to][m.ad.from].taken >= m.ad.taken
<1>. DEFINE messages == pending \cup Sent(t)
            due == {m \in messages : m.due <= t}
            heard(r, s) == {m \in due : m.to = r /\ m.ad.from = s /\ ~Stale(m.ad, t)}
<1>1. /\ cache' = Cached(due, t) /\ pending' = {m \in messages : m.due > t}
      /\ turn' = turn + 1 /\ now' = now
  BY DEF Exchange
<1>2. now \in Nat /\ turn \in Nat /\ TypeOK /\ Clock
  BY DEF IInv, TypeOK
<1>3. \A m \in messages :
        m \in Message /\ m.turn <= turn + 1 /\ Dated(m.ad) /\ Arrives(m)
  <2>1. \A m \in pending :
          m \in Message /\ m.turn <= turn /\ Dated(m.ad) /\ Arrives(m)
    BY DEF IInv, TypeOK, Posted
  <2>2. \A m \in pending : m.turn <= turn + 1
    BY <2>1, <1>2 DEF Message
  <2>3. \A m \in Sent(t) :
          m \in Message /\ m.turn = turn + 1 /\ Dated(m.ad) /\ Arrives(m)
    BY <1>2, SentMessages
  <2>4. \A m \in Sent(t) : m.turn <= turn + 1
    BY <2>3, <1>2
  <2>. QED
    BY <2>1, <2>2, <2>3, <2>4
<1>4. \A m \in messages :
        /\ m.turn \in Nat /\ m.due \in Nat /\ m.ad \in Advertisement
        /\ m.ad.taken \in Nat /\ m.ad.created \in Nat
        /\ m.ad.taken <= now
  <2>1. \A m \in messages : /\ m.turn \in Nat /\ m.due \in Nat /\ m.ad \in Advertisement
                            /\ m.ad.taken \in Nat /\ m.ad.created \in Nat
    BY <1>3 DEF Message, Advertisement
  <2>. QED
    BY <1>2, <1>3, <2>1, Delays DEF Dated
<1>5. \A x, y \in messages : x.turn <= y.turn => x.ad.taken <= y.ad.taken
  <2>1. \A x \in Sent(t) : x.turn = turn + 1 /\ x.ad.taken = now
    BY <1>2, SentMessages
  <2>2. \A x \in pending : x.turn <= turn
    BY DEF IInv, Posted
  <2>3. \A x, y \in pending : x.turn <= y.turn => x.ad.taken <= y.ad.taken
    BY DEF IInv, InOrder
  <2>. QED
    BY <1>2, <1>4, <2>1, <2>2, <2>3
<1>6. ASSUME NEW r \in Agent, NEW s \in Agent
      PROVE  \/ /\ heard(r, s) = {} /\ cache'[r][s] = cache[r][s]
             \/ \E y \in heard(r, s) :
                  /\ cache'[r][s] = y.ad
                  /\ \A x \in heard(r, s) : x.ad.taken <= y.ad.taken
  <2>1. cache'[r][s] = IF heard(r, s) = {} THEN cache[r][s] ELSE LastHeard(heard(r, s)).ad
    BY <1>1 DEF Cached
  <2>2. CASE heard(r, s) # {}
    <3>1. \A m \in heard(r, s) : m \in messages /\ m.turn \in Nat /\ m.turn <= turn + 1
      BY <1>3, <1>4
    <3>2. /\ LastHeard(heard(r, s)) \in heard(r, s)
          /\ \A x \in heard(r, s) : x.turn <= LastHeard(heard(r, s)).turn
      <4>. HIDE DEF heard
      <4>1. turn + 1 \in Nat
        BY <1>2
      <4>. QED
        BY <2>2, <3>1, <4>1, LastIsLast
    <3>3. \A x \in heard(r, s) : x.ad.taken <= LastHeard(heard(r, s)).ad.taken
      BY <1>5, <3>1, <3>2
    <3>. QED
      BY <2>1, <2>2, <3>2, <3>3
  <2>. QED
    BY <2>1, <2>2
<1>7. \A r, s \in Agent : \A m \in heard(r, s) :
        m \in messages /\ m.due <= t /\ m.to = r /\ m.ad.from = s
  OBVIOUS
<1>8. \A m \in messages : m.due <= t => \A r, s \in Agent :
        m.to = r /\ m.ad.from = s => m \in heard(r, s) \/ Stale(m.ad, t)
  OBVIOUS
<1>9. \A m \in pending' : m \in messages /\ m.due > t
  BY <1>1
<1>10. \A m \in pending \ pending' : m \in messages /\ m.due <= t
  BY <1>1, <1>4
<1>11. \A m \in messages : m \in pending \/ m.ad.taken = now
  BY <1>2, SentMessages
<1>. HIDE DEF messages, due, heard
<1>12. pending' \subseteq Message /\ turn' \in Nat
  BY <1>1, <1>2, <1>3, <1>9
<1>13. cache' \in [Agent -> [Agent -> Advertisement \cup {Unheard}]]
  <2>1. cache' = [r \in Agent |-> [s \in Agent |-> cache'[r][s]]]
    BY <1>1 DEF Cached
  <2>2. \A r, s \in Agent : cache'[r][s] \in Advertisement \cup {Unheard}
    BY <1>2, <1>4, <1>6, <1>7 DEF TypeOK
  <2>. QED
    BY <2>1, <2>2
<1>14. Posted'
  BY <1>1, <1>3, <1>9 DEF Posted, Dated, Arrives
<1>15. InOrder'
  BY <1>5, <1>9 DEF InOrder
<1>16. Held'
  <2>. SUFFICES ASSUME NEW r \in Agent, NEW s \in Agent, cache'[r][s] # Unheard
                PROVE  /\ Dated(cache'[r][s])
                       /\ \A m \in pending' : m.to = r /\ m.ad.from = s =>
                            cache'[r][s].taken <= m.ad.taken
    BY <1>1 DEF Held, Dated
  <2>1. CASE cache'[r][s] = cache[r][s]
    <3>1. Dated(cache[r][s]) /\ cache[r][s].taken <= now
      BY <1>2, <2>1, Delays DEF IInv, Held, TypeOK, Dated, Advertisement
    <3>2. \A m \in pending : m.to = r /\ m.ad.from = s => cache[r][s].taken <= m.ad.taken
      BY <2>1 DEF IInv, Held
    <3>. QED
      BY <2>1, <3>1, <3>2, <1>9, <1>11
  <2>2. ASSUME NEW y \in heard(r, s), cache'[r][s] = y.ad
        PROVE  /\ Dated(cache'[r][s])
               /\ \A m \in pending' : m.to = r /\ m.ad.from = s =>
                    cache'[r][s].taken <= m.ad.taken
    <3>1. y \in messages /\ y.due <= t
      BY <1>7
    <3>2. y \in Message /\ Dated(y.ad) /\ Arrives(y)
      BY <3>1, <1>3
    <3>3. ASSUME NEW m \in pending' PROVE y.ad.taken <= m.ad.taken
      <4>1. m \in Message /\ Dated(m.ad) /\ Arrives(m) /\ m.due > t
        BY <1>3, <1>9
      <4>. QED
        BY <3>1, <3>2, <4>1, <1>2, NoOvertaking
    <3>. QED
      BY <2>2, <3>2, <3>3
  <2>. QED
    BY <1>6, <2>1, <2>2
<1>17. ASSUME NEW r \in Agent, NEW s \in Agent, cache'[r][s] # Unheard,
              NEW ad \in Known(r, s)
       PROVE  cache'[r][s].taken >= ad.taken
  <2>1. /\ ad = cache[r][s] /\ ad \in Advertisement /\ ad.taken \in Nat /\ Dated(ad)
        /\ \A m \in pending : m.to = r /\ m.ad.from = s => ad.taken <= m.ad.taken
    BY DEF Known, IInv, TypeOK, Held, Advertisement
  <2>2. ad.taken <= now
    BY <1>2, <2>1, Delays DEF Dated
  <2>3. CASE cache'[r][s] = cache[r][s]
    BY <2>1, <2>3
  <2>4. ASSUME NEW y \in heard(r, s), cache'[r][s] = y.ad
        PROVE  cache'[r][s].taken >= ad.taken
    <3>1. y \in messages /\ y.to = r /\ y.ad.from = s /\ y.ad.taken \in Nat
      BY <1>4, <1>7
    <3>2. ad.taken <= y.ad.taken
      BY <2>1, <2>2, <3>1, <1>11
    <3>. QED
      BY <2>1, <2>4, <3>1, <3>2
  <2>. QED
    BY <1>6, <2>3, <2>4
<1>18. ASSUME NEW r \in Agent, NEW s \in Agent, cache'[r][s] # Unheard,
              NEW ad \in Delivered(r, s)
       PROVE  cache'[r][s].taken >= ad.taken \/ now - ad.taken > TTL
  <2>1. PICK m \in pending \ pending' : m.to = r /\ m.ad.from = s /\ ad = m.ad
    BY DEF Delivered
  <2>2. /\ m \in messages /\ m.due <= t /\ m.ad.taken \in Nat /\ m.ad.created \in Nat
        /\ m.ad.taken <= now /\ Dated(m.ad)
    BY <1>3, <1>4, <1>10
  <2>3. cache'[r][s] \in Advertisement /\ cache'[r][s].taken \in Nat
    BY <1>13, <1>18 DEF Advertisement
  <2>4. CASE m \in heard(r, s)
    <3>1. PICK y \in heard(r, s) :
            cache'[r][s] = y.ad /\ \A x \in heard(r, s) : x.ad.taken <= y.ad.taken
      BY <2>4, <1>6
    <3>. QED
      BY <2>1, <2>2, <2>3, <2>4, <3>1
  <2>5. CASE Stale(m.ad, t)
    <3>1. CASE t = now
      BY <2>1, <2>2, <2>5, <3>1, <1>2, DiscoveryTypes DEF Stale, Age, Dated
    <3>2. CASE now = 0
      BY <2>1, <2>2, <2>3, <3>2
    <3>. QED
      BY <3>1, <3>2 DEF Date
  <2>. QED
    BY <2>1, <2>2, <2>4, <2>5, <1>8
<1>19. \A r, s \in Agent : cache[r][s] # Unheard => cache'[r][s] # Unheard
  BY <1>4, <1>6, <1>7, UnheardIsNone
<1>20. ASSUME NEW m \in messages, m.to \in Agent, m.due <= t, ~Stale(m.ad, t)
       PROVE  /\ cache'[m.to][m.ad.from] # Unheard
              /\ cache'[m.to][m.ad.from].taken >= m.ad.taken
  <2>1. m.ad.from \in Agent /\ m.ad.taken \in Nat
    BY <1>4 DEF Advertisement
  <2>2. m \in heard(m.to, m.ad.from)
    BY <1>8, <1>20, <2>1
  <2>3. PICK y \in heard(m.to, m.ad.from) :
          /\ cache'[m.to][m.ad.from] = y.ad
          /\ \A x \in heard(m.to, m.ad.from) : x.ad.taken <= y.ad.taken
    BY <1>6, <1>20, <2>1, <2>2
  <2>4. y.ad \in Advertisement /\ y.ad.taken \in Nat
    BY <1>4, <1>7, <1>20, <2>1
  <2>. QED
    BY <2>1, <2>2, <2>3, <2>4, UnheardIsNone
<1>21. messages = pending \cup Sent(t)
  BY DEF messages
<1>. QED
  BY <1>12, <1>13, <1>14, <1>15, <1>16, <1>17, <1>18, <1>19, <1>20, <1>21

-----------------------------------------------------------------------------
LEMMA InitHolds == Init => IInv
<1>. SUFFICES ASSUME Init PROVE IInv
  OBVIOUS
<1>. USE DiscoveryTypes DEF Init
<1>1. TypeOK
  BY DEF TypeOK
<1>2. Clock /\ Posted /\ InOrder /\ Held /\ Offers /\ OfferedIsRecent
  BY DEF Clock, Posted, InOrder, Held, Offers, OfferedIsRecent
<1>. QED
  BY <1>1, <1>2 DEF IInv

\* The three handlers that hold an exchange, and its dates.
LEMMA Exchanges ==
  ASSUME IInv, Reset \/ Warm \/ StepExchange
  PROVE  \E t \in Nat : Date(t) /\ Exchange(t) /\ UNCHANGED <<now, steps, topology>>
<1>1. now \in Nat /\ now + WarmUp \in Nat
  BY Delays DEF IInv, TypeOK
<1>2. CASE Reset \/ StepExchange
  BY <1>1, <1>2 DEF Reset, StepExchange, Date
<1>3. CASE Warm
  <2>1. now = 0 /\ now + WarmUp = WarmUp
    BY <1>3, Delays DEF Warm, At, IInv, Clock
  <2>. QED
    BY <1>1, <1>3, <2>1 DEF Warm, Date
<1>. QED
  BY <1>2, <1>3

LEMMA ExchangesHold == IInv /\ (Reset \/ Warm \/ StepExchange) => IInv'
<1>. SUFFICES ASSUME IInv, Reset \/ Warm \/ StepExchange PROVE IInv'
  OBVIOUS
<1>1. PICK t \in Nat : Date(t) /\ Exchange(t) /\ UNCHANGED <<now, steps, topology>>
  BY Exchanges
<1>2. /\ pending' \subseteq Message /\ turn' \in Nat
      /\ cache' \in [Agent -> [Agent -> Advertisement \cup {Unheard}]]
      /\ Posted' /\ InOrder' /\ Held'
  BY <1>1, ExchangeHolds
<1>3. \/ /\ offered' = offered /\ phase \in {"reset", "warm_up"} /\ phase' \in {"warm_up", "observe"}
      \/ /\ offered' = [r \in Agent |-> {}] /\ phase = "step" /\ steps < MaxSteps
         /\ phase' = "advance"
  BY DEF Reset, Warm, StepExchange, At
<1>4. phase' = "warm_up" => phase \in {"reset", "warm_up"}
  BY <1>3
<1>5. \A r \in Agent : offered'[r] = {}
  BY <1>3 DEF IInv, Offers
<1>6. TypeOK'
  <2>1. offered' \in [Agent -> SUBSET Advertisement]
    BY <1>3 DEF IInv, TypeOK
  <2>. QED
    BY <1>1, <1>2, <1>3, <2>1 DEF IInv, TypeOK
<1>7. Clock'
  BY <1>1, <1>3 DEF IInv, Clock
<1>8. Offers' /\ OfferedIsRecent'
  BY <1>5 DEF Offers, OfferedIsRecent
<1>. QED
  BY <1>2, <1>6, <1>7, <1>8 DEF IInv

LEMMA ObserveHolds == IInv /\ Observe => IInv'
<1>. SUFFICES ASSUME IInv, Observe PROVE IInv'
  OBVIOUS
<1>. DEFINE left == [r \in Agent |-> Fresh({cache[r][s] : s \in Agent} \ {Unheard})]
<1>1. PICK asking \in SUBSET Agent :
        /\ cache' = [r \in Agent |-> [s \in Agent |->
             IF r \in asking /\ cache[r][s] \notin left[r] THEN Unheard ELSE cache[r][s]]]
        /\ offered' = [r \in Agent |-> IF r \in asking THEN left[r] ELSE {}]
  BY DEF Observe
<1>2. UNCHANGED <<now, steps, turn, topology, pending>> /\ phase = "observe" /\ phase' = "step"
  BY DEF Observe, At
<1>3. \A r \in Agent : \A ad \in left[r] :
        /\ ~Stale(ad, now) /\ ad # Unheard
        /\ \E s \in Agent : ad = cache[r][s]
  BY DEF Fresh
<1>4. \A r \in Agent : \A ad \in left[r] :
        ad \in Advertisement /\ Dated(ad)
  BY <1>3 DEF IInv, TypeOK, Held
<1>. HIDE DEF left
<1>5. \A r, s \in Agent : cache'[r][s] # Unheard => cache'[r][s] = cache[r][s]
  BY <1>1
<1>6. TypeOK'
  <2>1. cache' \in [Agent -> [Agent -> Advertisement \cup {Unheard}]]
    BY <1>1 DEF IInv, TypeOK
  <2>2. offered' \in [Agent -> SUBSET Advertisement]
    BY <1>1, <1>4
  <2>. QED
    BY <1>2, <2>1, <2>2 DEF IInv, TypeOK
<1>7. Clock' /\ Offers'
  BY <1>2 DEF IInv, Clock, Offers
<1>8. Posted' /\ InOrder'
  BY <1>2 DEF IInv, Posted, InOrder, Dated, Arrives
<1>9. Held'
  BY <1>2, <1>5 DEF IInv, Held, Dated
<1>10. OfferedIsRecent'
  <2>. SUFFICES ASSUME NEW r \in Agent, NEW ad \in offered'[r]
                PROVE  now - ad.taken <= TTL + WarmUp
    BY <1>2 DEF OfferedIsRecent
  <2>1. ad \in left[r]
    BY <1>1
  <2>2. ~Stale(ad, now) /\ Dated(ad) /\ ad \in Advertisement
    BY <2>1, <1>3, <1>4
  <2>3. ad.taken \in Nat /\ ad.created \in Nat /\ now \in Nat /\ TTL \in Nat /\ WarmUp \in Nat
    BY <2>2, Delays, DiscoveryTypes DEF Advertisement, IInv, TypeOK
  <2>. QED
    BY <2>2, <2>3 DEF Stale, Age, Dated
<1>. QED
  BY <1>6, <1>7, <1>8, <1>9, <1>10 DEF IInv

LEMMA AdvanceHolds == IInv /\ Advance => IInv'
<1>. SUFFICES ASSUME IInv, Advance PROVE IInv'
  OBVIOUS
<1>1. PICK d \in Durations : now' = now + d
  BY DEF Advance
<1>2. /\ d \in Nat /\ d >= Span /\ now \in Nat /\ Span \in Nat /\ now' \in Nat
      /\ now' >= now + Span
  BY <1>1, Delays, DiscoveryTypes, StepsOutlastMessages DEF IInv, TypeOK, Span
<1>3. /\ UNCHANGED <<turn, pending, cache, offered>> /\ steps' = steps + 1
      /\ topology' \in Topologies /\ phase = "advance" /\ phase' = "observe"
  BY DEF Advance, At
<1>4. TypeOK'
  BY <1>2, <1>3, DiscoveryTypes DEF IInv, TypeOK, Clock
<1>5. Clock'
  BY <1>2, <1>3 DEF Clock
<1>6. ASSUME NEW ad, ad.taken \in Nat, Dated(ad) PROVE Dated(ad)'
  BY <1>2, <1>6 DEF Dated
<1>7. Posted'
  <2>1. \A m \in pending : m.ad.taken \in Nat
    BY DEF IInv, TypeOK, Message, Advertisement
  <2>. QED
    BY <1>3, <1>6, <2>1 DEF IInv, Posted, Arrives
<1>8. InOrder'
  BY <1>3 DEF IInv, InOrder
<1>9. Held'
  <2>1. \A r, s \in Agent : cache[r][s] # Unheard => cache[r][s].taken \in Nat
    BY DEF IInv, TypeOK, Advertisement
  <2>. QED
    BY <1>3, <1>6, <2>1 DEF IInv, Held
<1>10. Offers' /\ OfferedIsRecent'
  BY <1>3 DEF IInv, Offers, OfferedIsRecent
<1>. QED
  BY <1>4, <1>5, <1>7, <1>8, <1>9, <1>10 DEF IInv

-----------------------------------------------------------------------------
\* What exchanges, observations and the runtime keep to together.
THEOREM Invariance == Spec => []IInv
<1>1. IInv /\ [Next]_vars => IInv'
  <2>. SUFFICES ASSUME IInv, [Next]_vars PROVE IInv'
    OBVIOUS
  <2>1. CASE UNCHANGED vars
    BY <2>1 DEF vars, IInv, TypeOK, Clock, Posted, InOrder, Held, Offers, OfferedIsRecent,
                Dated, Arrives
  <2>. QED
    BY <2>1, ExchangesHold, ObserveHolds, AdvanceHolds DEF Next, Horizon
<1>. QED
  BY InitHolds, <1>1, PTL DEF Spec

\* Every variable has its type; no message goes further than the radius.
THEOREM TypeCorrect == Spec => []TypeOK
<1>1. IInv => TypeOK
  BY DEF IInv
<1>. QED
  BY Invariance, <1>1, PTL

\* What a catalog offers is at most TTL and the advance of reset() behind (fresh, reset).
THEOREM RecentTheorem == Spec => []OfferedIsRecent
<1>1. IInv => OfferedIsRecent
  BY DEF IInv
<1>. QED
  BY Invariance, <1>1, PTL

\* The cache never goes back to an older advertisement, although upsert overwrites
\* without comparing dates and messages over more hops take longer.
THEOREM NewestTheorem == Spec => NewestKept
<1>. DEFINE Newest ==
       \A r, s \in Agent : cache'[r][s] # Unheard =>
         /\ \A ad \in Known(r, s) : cache'[r][s].taken >= ad.taken
         /\ \A ad \in Delivered(r, s) :
              cache'[r][s].taken >= ad.taken \/ now - ad.taken > TTL
<1>1. ASSUME IInv, Reset \/ Warm \/ StepExchange PROVE Newest
  <2>1. PICK t \in Nat : Date(t) /\ Exchange(t) /\ UNCHANGED <<now, steps, topology>>
    BY <1>1, Exchanges
  <2>. QED
    BY <1>1, <2>1, ExchangeHolds
<1>2. ASSUME IInv, pending' = pending,
             \A r, s \in Agent : cache'[r][s] # Unheard => cache'[r][s] = cache[r][s]
      PROVE  Newest
  <2>. SUFFICES ASSUME NEW r \in Agent, NEW s \in Agent, cache'[r][s] # Unheard
                PROVE  /\ \A ad \in Known(r, s) : cache'[r][s].taken >= ad.taken
                       /\ Delivered(r, s) = {}
    OBVIOUS
  <2>1. Delivered(r, s) = {}
    BY <1>2 DEF Delivered
  <2>2. cache'[r][s] = cache[r][s] /\ cache[r][s].taken \in Nat
    BY <1>2 DEF IInv, TypeOK, Advertisement
  <2>. QED
    BY <2>1, <2>2 DEF Known
<1>3. ASSUME IInv, Observe PROVE Newest
  <2>1. pending' = pending
    BY <1>3 DEF Observe
  <2>2. \A r, s \in Agent : cache'[r][s] # Unheard => cache'[r][s] = cache[r][s]
    BY <1>3 DEF Observe
  <2>. QED
    BY <1>2, <1>3, <2>1, <2>2
<1>4. ASSUME IInv, Advance \/ UNCHANGED vars PROVE Newest
  BY <1>2, <1>4 DEF Advance, vars
<1>5. IInv /\ [Next]_vars => [Newest]_vars
  BY <1>1, <1>3, <1>4 DEF Next, Horizon
<1>. QED
  BY Invariance, <1>5, PTL DEF Spec, NewestKept

(***************************************************************************)
(* Nothing is lost.  Only messages of the second exchange of reset() may   *)
(* outlast a step; what they say is said again by the first step, over the *)
(* same topology.                                                          *)
(***************************************************************************)
Late(m) == m.due > m.ad.taken + Span

Covers(x, m) == x.to = m.to /\ x.ad.from = m.ad.from /\ x.ad.taken = 0 /\ ~Late(x)

Unmoved ==
  now = 0 /\ phase # "advance" =>
    \A m \in pending : m.to \in Receivers(m.ad.from, topology)

Covered ==
  now > 0 \/ phase = "advance" =>
    \A m \in pending : m.to \in Agent /\ Late(m) =>
      \/ \E x \in pending : Covers(x, m)
      \/ cache[m.to][m.ad.from] # Unheard
      \/ now > TTL

Heard == Unmoved /\ Covered

\* Within an exchange at the present, only what was already pending can be late.
LEMMA LateIsOld ==
  ASSUME IInv, NEW t \in Nat, Date(t), Exchange(t), t = now, NEW m \in pending', Late(m)
  PROVE  m \in pending
<1>1. m \in pending \/ m \in Sent(t)
  BY DEF Exchange
<1>2. ASSUME m \in Sent(t) PROVE FALSE
  <2>1. PICK r \in Agent : \E s \in Receivers(r, topology) :
          m = [ad |-> [from |-> r, taken |-> now, created |-> t], to |-> s,
               hops |-> Hops(r, s, topology),
               due |-> t + Delay(Hops(r, s, topology)), turn |-> turn + 1]
    BY <1>2 DEF Sent
  <2>2. PICK s \in Receivers(r, topology) :
          m.due = t + Delay(Hops(r, s, topology)) /\ m.ad.taken = now
    BY <2>1
  <2>3. Delay(Hops(r, s, topology)) \in Nat /\ Delay(Hops(r, s, topology)) <= Span
    BY ReceiversInReach, Delays, DiscoveryTypes
  <2>. QED
    BY <2>2, <2>3, Delays DEF Late, IInv, TypeOK
<1>. QED
  BY <1>1, <1>2

\* The first step says again, over the topology of the reset, what is late.
LEMMA FirstStepCovers ==
  ASSUME IInv, Heard, now = 0, At("step"), Exchange(0), UNCHANGED now,
         NEW m \in pending, m.to \in Agent
  PROVE  \/ \E x \in pending' : Covers(x, m)
         \/ cache'[m.to][m.ad.from] # Unheard
<1>1. m.ad.from \in Agent /\ m.to \in Receivers(m.ad.from, topology)
  BY DEF Heard, Unmoved, At, IInv, TypeOK, Message, Advertisement
<1>2. PICK x \in Sent(0) :
        /\ x.to = m.to /\ x.ad.from = m.ad.from /\ x.ad.taken = 0 /\ x.ad.created = 0
        /\ x.due = 0 + Delay(Hops(m.ad.from, m.to, topology))
  BY <1>1, SentToReceivers
<1>3. Delay(Hops(m.ad.from, m.to, topology)) \in Nat
      /\ Delay(Hops(m.ad.from, m.to, topology)) <= Span
  BY <1>1, ReceiversInReach, Delays, DiscoveryTypes
<1>4. Covers(x, m) /\ x.due \in Nat
  BY <1>2, <1>3, Delays DEF Covers, Late
<1>5. CASE x.due > 0
  <2>1. x \in pending'
    BY <1>5 DEF Exchange
  <2>. QED
    BY <1>4, <2>1
<1>6. CASE ~(x.due > 0)
  <2>1. x.due <= 0
    BY <1>4, <1>6
  <2>2. ~Stale(x.ad, 0)
    BY <1>2, DiscoveryTypes DEF Stale, Age
  <2>3. Date(0)
    BY DEF Date
  <2>. QED
    BY <1>2, <2>1, <2>2, <2>3, ExchangeHolds
<1>. QED
  BY <1>5, <1>6

\* What covers a late message stays so until it is heard, or time is up.
LEMMA LaterStepsCover ==
  ASSUME IInv, Heard, now > 0, Exchange(now), UNCHANGED now,
         NEW m \in pending, m.to \in Agent, Late(m)
  PROVE  \/ \E x \in pending' : Covers(x, m) /\ x.due > now
         \/ cache'[m.to][m.ad.from] # Unheard
         \/ now > TTL
<1>0. now \in Nat /\ Date(now) /\ TTL \in Nat
  BY DiscoveryTypes DEF IInv, TypeOK, Date
<1>1. \/ \E x \in pending : Covers(x, m)
      \/ cache[m.to][m.ad.from] # Unheard
      \/ now > TTL
  BY DEF Heard, Covered
<1>2. CASE cache[m.to][m.ad.from] # Unheard
  <2>1. m.ad.from \in Agent
    BY DEF IInv, TypeOK, Message, Advertisement
  <2>. QED
    BY <1>0, <1>2, <2>1, ExchangeHolds
<1>3. ASSUME NEW x \in pending, Covers(x, m)
      PROVE  \/ \E y \in pending' : Covers(y, m) /\ y.due > now
             \/ cache'[m.to][m.ad.from] # Unheard
             \/ now > TTL
  <2>1. x.due \in Nat /\ x.ad.created \in Nat
    BY DEF IInv, TypeOK, Message, Advertisement
  <2>2. CASE x.due > now
    BY <1>3, <2>2 DEF Exchange
  <2>3. CASE Stale(x.ad, now)
    BY <1>0, <2>1, <2>3 DEF Stale, Age
  <2>4. CASE x.due <= now /\ ~Stale(x.ad, now)
    BY <1>0, <1>3, <2>4, ExchangeHolds DEF Covers
  <2>. QED
    BY <1>0, <2>1, <2>2, <2>3, <2>4
<1>. QED
  BY <1>1, <1>2, <1>3

LEMMA StepHears == IInv /\ Heard /\ StepExchange => Heard'
<1>. SUFFICES ASSUME IInv, Heard, StepExchange PROVE Heard'
  OBVIOUS
<1>1. now \in Nat /\ Date(now) /\ Exchange(now) /\ now' = now /\ phase' = "advance" /\ At("step")
  BY DEF IInv, TypeOK, Date, StepExchange
<1>. SUFFICES ASSUME NEW m \in pending', m.to \in Agent, Late(m)
              PROVE  \/ \E x \in pending' : Covers(x, m)
                     \/ cache'[m.to][m.ad.from] # Unheard
                     \/ now > TTL
  BY <1>1 DEF Heard, Unmoved, Covered, Late, Covers
<1>2. m \in pending
  BY <1>1, LateIsOld
<1>3. CASE now = 0
  BY <1>1, <1>2, <1>3, FirstStepCovers
<1>4. CASE now > 0
  BY <1>1, <1>2, <1>4, LaterStepsCover
<1>. QED
  BY <1>1, <1>3, <1>4

LEMMA ResetHears == IInv /\ Heard /\ (Reset \/ Warm) => Heard'
<1>. SUFFICES ASSUME IInv, Heard, Reset \/ Warm PROVE Heard'
  OBVIOUS
<1>1. /\ now = 0 /\ now' = 0 /\ topology' = topology
      /\ phase \in {"reset", "warm_up"} /\ phase' \in {"warm_up", "observe"}
  BY DEF Reset, Warm, At, IInv, Clock
<1>2. \E t : \A m \in pending' : m \in pending \/ m \in Sent(t)
  BY DEF Reset, Warm, Exchange
<1>3. \A t : \A m \in Sent(t) : m.to \in Receivers(m.ad.from, topology)
  BY DEF Sent
<1>4. \A m \in pending : m.to \in Receivers(m.ad.from, topology)
  BY <1>1 DEF Heard, Unmoved
<1>5. \A m \in pending' : m.to \in Receivers(m.ad.from, topology)
  BY <1>2, <1>3, <1>4
<1>6. Unmoved'
  BY <1>1, <1>5 DEF Unmoved
<1>7. Covered'
  BY <1>1 DEF Covered
<1>. QED
  BY <1>6, <1>7 DEF Heard

LEMMA ObserveHears == IInv /\ Heard /\ Observe => Heard'
<1>. SUFFICES ASSUME IInv, Heard, Observe PROVE Heard'
  OBVIOUS
<1>1. UNCHANGED <<now, topology, pending>> /\ phase = "observe" /\ phase' = "step"
  BY DEF Observe, At
<1>2. ASSUME NEW r \in Agent, NEW s \in Agent, cache[r][s] # Unheard, cache'[r][s] = Unheard
      PROVE  now > TTL
  <2>1. PICK asking \in SUBSET Agent :
          cache' = [i \in Agent |-> [j \in Agent |->
            IF i \in asking
               /\ cache[i][j] \notin [k \in Agent |-> Fresh({cache[k][l] : l \in Agent} \ {Unheard})][i]
            THEN Unheard ELSE cache[i][j]]]
    BY DEF Observe
  <2>2. cache[r][s] \notin Fresh({cache[r][l] : l \in Agent} \ {Unheard})
    BY <1>2, <2>1
  <2>3. Stale(cache[r][s], now)
    BY <1>2, <2>2 DEF Fresh
  <2>4. cache[r][s].created \in Nat /\ now \in Nat /\ TTL \in Nat
    BY <1>2, DiscoveryTypes DEF IInv, TypeOK, Advertisement
  <2>. QED
    BY <2>3, <2>4 DEF Stale, Age
<1>3. \A m \in pending : m.ad.from \in Agent
  BY DEF IInv, TypeOK, Message, Advertisement
<1>4. Unmoved'
  BY <1>1 DEF Heard, Unmoved
<1>5. Covered'
  BY <1>1, <1>2, <1>3 DEF Heard, Covered, Late, Covers
<1>. QED
  BY <1>4, <1>5 DEF Heard

LEMMA AdvanceHears == IInv /\ Heard /\ Advance => Heard'
<1>. SUFFICES ASSUME IInv, Heard, Advance PROVE Heard'
  OBVIOUS
<1>1. now' > now /\ now \in Nat /\ now' \in Nat /\ TTL \in Nat
  BY DiscoveryTypes DEF Advance, IInv, TypeOK
<1>2. UNCHANGED <<pending, cache>> /\ phase = "advance"
  BY DEF Advance, At
<1>. QED
  BY <1>1, <1>2 DEF Heard, Unmoved, Covered, Late, Covers

\* Nothing that an agent has sent is lost between two steps, but by its time to live
\* (broadcast, deliver, upsert).
THEOREM HeardTheorem == Spec => SentIsHeard
<1>. DEFINE Kept ==
       StepExchange => \A m \in pending :
         m.to \in Agent /\ m.ad.taken < now =>
           \/ cache'[m.to][m.ad.from] # Unheard /\ cache'[m.to][m.ad.from].taken >= m.ad.taken
           \/ now - m.ad.taken > TTL
<1>1. Init => Heard
  BY DEF Init, Heard, Unmoved, Covered
<1>2. IInv /\ Heard /\ [Next]_vars => Heard'
  <2>. SUFFICES ASSUME IInv, Heard, [Next]_vars PROVE Heard'
    OBVIOUS
  <2>1. CASE UNCHANGED vars
    BY <2>1 DEF vars, Heard, Unmoved, Covered, Late, Covers
  <2>. QED
    BY <2>1, StepHears, ResetHears, ObserveHears, AdvanceHears DEF Next, Horizon
<1>3. Spec => []Heard
  BY Invariance, <1>1, <1>2, PTL DEF Spec
<1>4. ASSUME IInv, Heard, StepExchange, NEW m \in pending, m.to \in Agent, m.ad.taken < now
      PROVE  \/ /\ cache'[m.to][m.ad.from] # Unheard
                /\ cache'[m.to][m.ad.from].taken >= m.ad.taken
             \/ now - m.ad.taken > TTL
  <2>1. now \in Nat /\ Date(now) /\ Exchange(now) /\ now' = now
    BY <1>4 DEF IInv, TypeOK, Date, StepExchange
  <2>2. /\ m.due \in Nat /\ m.ad.taken \in Nat /\ m.ad.created \in Nat /\ m.ad.from \in Agent
        /\ Dated(m.ad) /\ Arrives(m) /\ TTL \in Nat
    BY <1>4, DiscoveryTypes DEF IInv, TypeOK, Posted, Message, Advertisement
  <2>3. CASE m.due <= now /\ ~Stale(m.ad, now)
    BY <1>4, <2>1, <2>3, ExchangeHolds
  <2>4. CASE Stale(m.ad, now)
    BY <2>1, <2>2, <2>4 DEF Stale, Age, Dated
  <2>5. CASE m.due > now
    <3>1. Late(m) /\ m.ad.taken = 0 /\ Span <= now /\ now > 0
      BY <1>4, <2>1, <2>2, <2>5, Delays DEF Dated, Arrives, Late
    <3>2. \A x \in pending' : Covers(x, m) => ~(x.due > now)
      <4>1. \A x \in pending' : Covers(x, m) => x.due \in Nat /\ x.due <= Span
        BY <1>4, <2>1, ExchangeHolds, Delays DEF Covers, Late, Message
      <4>. QED
        BY <2>1, <3>1, <4>1, Delays
    <3>3. cache'[m.to][m.ad.from] # Unheard \/ now > TTL
      BY <1>4, <2>1, <3>1, <3>2, LaterStepsCover
    <3>4. cache'[m.to][m.ad.from] # Unheard => cache'[m.to][m.ad.from].taken \in Nat
      BY <1>4, <2>1, <2>2, ExchangeHolds DEF Advertisement
    <3>. QED
      BY <2>1, <2>2, <3>1, <3>3, <3>4
  <2>. QED
    BY <2>1, <2>2, <2>3, <2>4, <2>5
<1>5. IInv /\ Heard /\ [Next]_vars => [Kept]_vars
  BY <1>4
<1>. QED
  BY Invariance, <1>3, <1>5, PTL DEF Spec, SentIsHeard

=============================================================================
