-------------------------- MODULE CallSignalsProof --------------------------
(* Retries keep their distances, deliveries only advance and no runtime    *)
(* falls asleep, for any nodes, signals, clocks, delays and bounds.        *)
EXTENDS CallSignalProperties, FiniteSetTheorems, TLAPS

(* A set of numbers has a least element: among the initial segments of     *)
(* its members one contains no other.                                      *)
LEMMA MinOf ==
    ASSUME NEW S \in SUBSET Nat, S # {}
    PROVE  Min(S) \in S /\ \A k \in S : Min(S) <= k
<1> DEFINE Up == {0..k : k \in S}
<1>1. \A v \in Up : v \in FiniteSubsetsOf(Nat)
  <2> TAKE v \in Up
  <2>1. PICK k \in S : v = 0..k
    OBVIOUS
  <2>2. IsFiniteSet(v)
    BY <2>1, FS_Interval
  <2>3. v \subseteq Nat
    BY <2>1
  <2> QED BY <2>2, <2>3 DEF FiniteSubsetsOf
<1>2. Up # {}
  OBVIOUS
<1>3. PICK u \in Up : \A v \in Up : ~(<<v, u>> \in StrictSubsetOrdering(Nat))
  <2> HIDE DEF Up
  <2>1. Up \subseteq FiniteSubsetsOf(Nat)
    BY <1>1
  <2> QED BY <2>1, <1>2, FS_StrictSubsetOrderingWellFounded, WFMin, Zenon
<1>4. PICK m \in S : u = 0..m
  OBVIOUS
<1>5. \A k \in S : m <= k
  <2> SUFFICES ASSUME NEW k \in S, k < m PROVE FALSE
    OBVIOUS
  <2>1. 0..k \subseteq u /\ 0..k # u /\ u \subseteq Nat
    BY <1>4
  <2> QED BY <1>3, <2>1 DEF StrictSubsetOrdering
<1> HIDE DEF Up
<1> QED BY <1>5 DEF Min

LEMMA MaxOfTwo ==
    ASSUME NEW a \in Nat, NEW b \in Nat
    PROVE  Max({a, b}) = IF a >= b THEN a ELSE b
<1> DEFINE m == IF a >= b THEN a ELSE b
<1>1. m \in {a, b} /\ \A y \in {a, b} : m >= y
  OBVIOUS
<1>2. \A x \in {a, b} : (\A y \in {a, b} : x >= y) => x = m
  OBVIOUS
<1> QED BY <1>1, <1>2 DEF Max

-----------------------------------------------------------------------------
(* What the attempts on the way look like: every event was published, and  *)
(* every send was checked, at a time that RetriesAreSpaced allows.         *)
WireIsSpaced ==
    \A e \in wire \cap Sent :
        e.sentAt + MaxSkew >= Created[e.signal] + RetryOffsets[e.attempt]

SendsAreFresh ==
    \A n \in Nodes, s \in Signals :
        <<n, s>> \in sending => Created[s] <= Clock(n) + MaxSkew

(* The time that a maintenance took has passed.                            *)
MaintenanceIsPast == \A n \in Nodes : runtime[n].at <= Clock(n)

Inv == /\ SignalTypeOK /\ RetriesAreSpaced /\ MaintenanceIsArmed
       /\ WireIsSpaced /\ SendsAreFresh /\ MaintenanceIsPast

USE SignalConstants

(* The delays are the distances of the running totals.                     *)
LEMMA Delays ==
    /\ Attempts \subseteq Nat /\ 1 \in Attempts
    /\ \A a \in Attempts : RetryDelay(a) \in Nat /\ RetryOffsets[a] \in Nat
    /\ \A a \in Attempts : a < Len(RetryOffsets) =>
          /\ a + 1 \in Attempts
          /\ RetryOffsets[a] + RetryDelay(a) = RetryOffsets[a + 1]
<1>1. Len(RetryOffsets) \in Nat \ {0}
  OBVIOUS
<1>2. \A a \in Attempts : RetryOffsets[a] \in Nat
  BY <1>1 DEF Attempts
<1>3. \A a \in Attempts : a < Len(RetryOffsets) =>
          a + 1 \in Attempts /\ a + 1 \in 2..Len(RetryOffsets) /\ (a + 1) - 1 = a
  BY <1>1 DEF Attempts
<1>4. \A a \in Attempts : a < Len(RetryOffsets) => RetryOffsets[a] <= RetryOffsets[a + 1]
  BY <1>3
<1> QED BY <1>1, <1>2, <1>3, <1>4 DEF Attempts, RetryDelay

LEMMA Clocks ==
    ASSUME now \in Nat, NEW n \in Nodes
    PROVE  Clock(n) \in Nat
BY DEF Clock

LEMMA ScheduledType ==
    ASSUME NEW n \in Nodes, NEW a \in Attempts, NEW t \in Nat
    PROVE  Scheduled(n, a, t) \in Delivery
BY Delays DEF Scheduled, Delivery

(* The next maintenance of what a node holds.                              *)
LEMMA NextOfOne ==
    ASSUME NEW n, NEW s \in Signals, NEW d \in Delivery
    PROVE  NextMaintenanceOf(n, s, d) \in Nat
<1>1. d.nextRetryAt \in Nat /\ ExpiresAt(s) \in Nat
  BY DEF Delivery, ExpiresAt
<1>2. Min({d.nextRetryAt, ExpiresAt(s)}) \in Nat
  <2> DEFINE S == {d.nextRetryAt, ExpiresAt(s)}
  <2>1. S \in SUBSET Nat /\ S # {}
    BY <1>1
  <2> HIDE DEF S
  <2>2. Min(S) \in Nat
    BY <2>1, MinOf
  <2> QED BY <2>2 DEF S
<1> QED BY <1>1, <1>2 DEF NextMaintenanceOf

LEMMA NextOfAll ==
    ASSUME NEW n, NEW held \in [Signals -> Delivery \cup {NoDelivery}],
           Unacknowledged(held) # {}
    PROVE  NextMaintenance(n, held) \in Nat
<1> DEFINE S == {NextMaintenanceOf(n, s, held[s]) : s \in Unacknowledged(held)}
<1>1. \A s \in Unacknowledged(held) : NextMaintenanceOf(n, s, held[s]) \in Nat
  BY NextOfOne DEF Unacknowledged
<1>2. S \in SUBSET Nat /\ S # {}
  BY <1>1
<1>3. Min(S) \in Nat
  <2> HIDE DEF S
  <2> QED BY <1>2, MinOf
<1> QED BY <1>3 DEF NextMaintenance

(* Setting the timer anew keeps everything else of a runtime and leaves it *)
(* armed.                                                                  *)
LEMMA RescheduledIsArmed ==
    ASSUME now \in Nat, NEW n \in Nodes, NEW r \in Runtime, NEW delay \in Nat,
           NEW held \in [Signals -> Delivery \cup {NoDelivery}]
    PROVE  LET q == Rescheduled(n, r, held, delay)
           IN  /\ q \in Runtime
               /\ q.knowsNode = r.knowsNode /\ q.running = r.running /\ q.at = r.at
               /\ IsArmed(n, q, held, delay)
<1> DEFINE q == Rescheduled(n, r, held, delay)
<1>1. CASE r.running \/ ~r.knowsNode
  BY <1>1 DEF Rescheduled, IsArmed
<1>2. CASE ~(r.running \/ ~r.knowsNode) /\ Unacknowledged(held) = {}
  BY <1>2 DEF Rescheduled, IsArmed, Runtime
<1>3. CASE ~(r.running \/ ~r.knowsNode) /\ Unacknowledged(held) # {}
  <2> DEFINE a == Clock(n) + delay
             b == NextMaintenance(n, held)
  <2>1. a \in Nat /\ b \in Nat
    BY <1>3, Clocks, NextOfAll
  <2>2. Max({a, b}) = IF a >= b THEN a ELSE b
    <3> HIDE DEF a, b
    <3> QED BY <2>1, MaxOfTwo
  <2>3. q = [r EXCEPT !.timer = Max({a, b})]
    BY <1>3 DEF Rescheduled
  <2>4. PICK m \in Nat : q = [r EXCEPT !.timer = m] /\ (m <= a \/ m <= b)
    <3> HIDE DEF a, b, q
    <3>1. Max({a, b}) \in Nat /\ (Max({a, b}) <= a \/ Max({a, b}) <= b)
      BY <2>1, <2>2
    <3> QED BY <3>1, <2>1, <2>2, <2>3
  <2>5. m # NoTimer
    OBVIOUS
  <2>6. /\ q \in Runtime /\ q.timer = m
        /\ q.knowsNode = r.knowsNode /\ q.running = r.running /\ q.at = r.at
    BY <2>4 DEF Runtime
  <2> QED BY <2>4, <2>5, <2>6 DEF IsArmed
<1> QED BY <1>1, <1>2, <1>3

(* What a save changes.                                                    *)
LEMMA SaveStep ==
    ASSUME Inv, NEW n \in Nodes, NEW s \in Signals, NEW d \in Delivery, IsSpaced(s, d),
           Save(n, s, d), UNCHANGED <<now, faults>>
    PROVE  /\ deliveries' \in [Nodes -> [Signals -> Delivery \cup {NoDelivery}]]
           /\ runtime' \in [Nodes -> Runtime]
           /\ RetriesAreSpaced' /\ MaintenanceIsArmed' /\ MaintenanceIsPast'
           /\ \A m \in Nodes, x \in Signals :
                \/ deliveries'[m][x] = deliveries[m][x]
                \/ /\ m = n /\ x = s /\ deliveries'[m][x] = d
                   /\ deliveries[n][s] = NoDelivery \/ Supersedes(d, deliveries[n][s])
<1> USE DEF Inv, SignalTypeOK
<1>1. CASE UNCHANGED <<deliveries, runtime>>
  <2>1. /\ RetriesAreSpaced' /\ MaintenanceIsPast'
    BY <1>1 DEF RetriesAreSpaced, MaintenanceIsPast, Held, Clock
  <2>2. MaintenanceIsArmed'
    <3>1. MaintenanceIsArmed /\ UNCHANGED <<deliveries, runtime, now, faults>>
      BY <1>1
    <3> HIDE DEF Inv, SignalTypeOK
    <3>2. Slack' = Slack
      BY <3>1 DEF Slack
    <3>3. ASSUME NEW m \in Nodes PROVE IsArmed(m, runtime[m], deliveries[m], Slack)'
      <4>1. IsArmed(m, runtime[m], deliveries[m], Slack)
        BY <3>1 DEF MaintenanceIsArmed
      <4> QED BY <3>1, <3>2, <4>1 DEF IsArmed, NextMaintenance, Clock
    <3> QED BY <3>3 DEF MaintenanceIsArmed
  <2>3. /\ deliveries' \in [Nodes -> [Signals -> Delivery \cup {NoDelivery}]]
        /\ runtime' \in [Nodes -> Runtime]
    BY <1>1
  <2>4. deliveries' = deliveries
    BY <1>1
  <2> HIDE DEF Inv, SignalTypeOK
  <2> QED BY <2>1, <2>2, <2>3, <2>4
<1> DEFINE held == [deliveries[n] EXCEPT ![s] = d]
<1>2. CASE /\ deliveries[n][s] = NoDelivery \/ Supersedes(d, deliveries[n][s])
           /\ deliveries' = [deliveries EXCEPT ![n] = held]
           /\ runtime' = [runtime EXCEPT ![n] = Rescheduled(n, runtime[n], held, 0)]
  <2>1. held \in [Signals -> Delivery \cup {NoDelivery}]
    OBVIOUS
  <2> DEFINE q == Rescheduled(n, runtime[n], held, 0)
  <2>2. q \in Runtime /\ q.at = runtime[n].at /\ IsArmed(n, q, held, 0)
    <3>1. runtime[n] \in Runtime
      OBVIOUS
    <3> HIDE DEF held
    <3> QED BY <2>1, <3>1, RescheduledIsArmed
  <2>3. /\ deliveries' \in [Nodes -> [Signals -> Delivery \cup {NoDelivery}]]
        /\ deliveries'[n] = held
        /\ \A m \in Nodes \ {n} : deliveries'[m] = deliveries[m]
    BY <1>2, <2>1
  <2>4. /\ runtime' \in [Nodes -> Runtime]
        /\ runtime'[n] = q
        /\ \A m \in Nodes \ {n} : runtime'[m] = runtime[m]
    <3> HIDE DEF q, held
    <3> QED BY <1>2, <2>2 DEF q
  <2> HIDE DEF q
  <2>5. RetriesAreSpaced'
    BY <2>3 DEF RetriesAreSpaced, Held
  <2>6. MaintenanceIsPast'
    BY <2>2, <2>4 DEF MaintenanceIsPast, Clock
  <2>7. IsArmed(n, q, held, Slack)
    <3>1. Clock(n) \in Nat /\ q.timer \in Nat \cup {NoTimer}
      BY <2>2, Clocks DEF Runtime
    <3> HIDE DEF held
    <3> QED BY <2>2, <3>1 DEF IsArmed, Slack
  <2>8. MaintenanceIsArmed'
    <3> HIDE DEF held
    <3>1. \A m \in Nodes : IsArmed(m, runtime'[m], deliveries'[m], Slack)
      BY <2>3, <2>4, <2>7 DEF MaintenanceIsArmed
    <3> QED BY <3>1 DEF MaintenanceIsArmed, IsArmed, Slack, NextMaintenance, Clock
  <2> QED BY <1>2, <2>3, <2>4, <2>5, <2>6, <2>8
<1> QED BY <1>1, <1>2 DEF Save

(* Everything that a step has to show.                                     *)
Forward == \A n \in Nodes, s \in Signals : Held(n, s) => KeepsOrExpires(n, s)

Step == Inv' /\ Forward

(* A save of a delivery that is spaced is such a step, whatever is         *)
(* published or sent with it.                                              *)
LEMMA SaveKeepsInv ==
    ASSUME Inv, NEW n \in Nodes, NEW s \in Signals, NEW d \in Delivery, IsSpaced(s, d),
           d.acknowledged => d = Acknowledged(deliveries[n][s]),
           Save(n, s, d), UNCHANGED <<now, faults>>, sending' \subseteq sending,
           offered' \subseteq Nodes \X Signals,
           wire' \subseteq Sent \cup Acknowledgement, WireIsSpaced'
    PROVE  Step
<1> USE DEF Inv
<1>1. /\ deliveries' \in [Nodes -> [Signals -> Delivery \cup {NoDelivery}]]
      /\ runtime' \in [Nodes -> Runtime]
      /\ RetriesAreSpaced' /\ MaintenanceIsArmed' /\ MaintenanceIsPast'
      /\ \A m \in Nodes, x \in Signals :
           \/ deliveries'[m][x] = deliveries[m][x]
           \/ /\ m = n /\ x = s /\ deliveries'[m][x] = d
              /\ deliveries[n][s] = NoDelivery \/ Supersedes(d, deliveries[n][s])
  BY SaveStep
<1>2. SignalTypeOK'
  BY <1>1 DEF SignalTypeOK
<1>3. SendsAreFresh'
  BY DEF SendsAreFresh, Clock
<1>4. Forward
  <2> SUFFICES ASSUME NEW m \in Nodes, NEW x \in Signals, Held(m, x)
               PROVE  KeepsOrExpires(m, x)
    BY DEF Forward
  <2>1. deliveries[m][x] \in Delivery
    BY DEF SignalTypeOK, Held
  <2>2. CASE deliveries'[m][x] = deliveries[m][x]
    <3>1. deliveries[m][x].attempt \in Nat /\ deliveries[m][x].nextRetryAt \in Nat
      BY <2>1, Delays DEF Delivery
    <3> QED BY <2>2, <3>1 DEF KeepsOrExpires, Held
  <2>3. CASE /\ deliveries'[m][x] = d /\ m = n /\ x = s
             /\ Supersedes(d, deliveries[m][x])
    <3>1. d # NoDelivery
      BY NoDeliveryIsNone
    <3>2. d.owner = deliveries[m][x].owner /\ (deliveries[m][x].acknowledged => d.acknowledged)
      BY <2>3 DEF Supersedes
    <3>3. /\ d.attempt >= deliveries[m][x].attempt
          /\ d.nextRetryAt >= deliveries[m][x].nextRetryAt
      <4>1. /\ deliveries[m][x].attempt \in Nat /\ deliveries[m][x].nextRetryAt \in Nat
            /\ d.attempt \in Nat /\ d.nextRetryAt \in Nat
        BY <2>1, Delays DEF Delivery
      <4>2. CASE d.acknowledged
        <5>1. d = [deliveries[m][x] EXCEPT !.acknowledged = TRUE]
          BY <2>3, <4>2 DEF Acknowledged
        <5>2. d.attempt = deliveries[m][x].attempt /\ d.nextRetryAt = deliveries[m][x].nextRetryAt
          BY <2>1, <5>1 DEF Delivery
        <5> QED BY <4>1, <5>2
      <4>3. CASE ~d.acknowledged
        BY <2>3, <4>1, <4>3 DEF Supersedes
      <4> QED BY <4>2, <4>3
    <3> QED BY <2>1, <2>3, <3>1, <3>2, <3>3 DEF KeepsOrExpires, Held
  <2> QED BY <1>1, <2>2, <2>3 DEF Held
<1> QED BY <1>1, <1>2, <1>3, <1>4 DEF Step

(* A step that saves nothing and leaves every runtime armed.               *)
LEMMA QuietStep ==
    ASSUME Inv, UNCHANGED <<deliveries, faults>>, now' \in Nat, now' >= now,
           runtime' \in [Nodes -> Runtime], MaintenanceIsArmed', MaintenanceIsPast',
           sending' \subseteq Nodes \X Signals, SendsAreFresh',
           UNCHANGED <<wire, offered>>
    PROVE  Step
<1> USE DEF Inv
<1>1. SignalTypeOK'
  BY DEF SignalTypeOK
<1>2. RetriesAreSpaced' /\ WireIsSpaced'
  BY DEF RetriesAreSpaced, WireIsSpaced, Held
<1>3. Forward
  BY DEF Forward, KeepsOrExpires, Held, SignalTypeOK, Delivery, Attempts
<1> QED BY <1>1, <1>2, <1>3 DEF Step

LEMMA PassTimeStep == Inv /\ PassTime => Step
<1> SUFFICES ASSUME Inv, PassTime PROVE Step
  OBVIOUS
<1> USE DEF Inv, SignalTypeOK, PassTime
<1>1. now' = now + 1 /\ now \in Nat
  OBVIOUS
<1>2. \A n \in Nodes : Clock(n) \in Nat /\ Clock(n)' = Clock(n) + 1
  BY <1>1 DEF Clock
<1>3. MaintenanceIsArmed'
  <2> SUFFICES ASSUME NEW n \in Nodes PROVE IsArmed(n, runtime[n], deliveries[n], Slack)'
    BY DEF MaintenanceIsArmed
  <2>1. IsArmed(n, runtime[n], deliveries[n], Slack)
    BY DEF MaintenanceIsArmed
  <2>2. Slack' = Slack /\ Slack \in Nat
    BY DEF Slack
  <2>3. runtime[n].timer \in Nat \cup {NoTimer}
    BY DEF Runtime
  <2>4. /\ runtime'[n] = runtime[n] /\ deliveries'[n] = deliveries[n]
    OBVIOUS
  <2>5. IsArmed(n, runtime[n], deliveries[n], Slack)'
        <=> ((runtime[n].knowsNode /\ ~runtime[n].running
              /\ Unacknowledged(deliveries[n]) # {}) =>
                /\ runtime[n].timer # NoTimer
                /\ \/ runtime[n].timer <= NextMaintenance(n, deliveries[n])
                   \/ runtime[n].timer <= Clock(n)' + Slack')
    BY <2>4 DEF IsArmed
  <2> QED BY <1>2, <2>1, <2>2, <2>3, <2>5 DEF IsArmed
<1>4. MaintenanceIsPast'
  <2>1. \A n \in Nodes : runtime[n].at \in Nat
    BY DEF Runtime
  <2> QED BY <1>2, <2>1 DEF MaintenanceIsPast
<1>5. SendsAreFresh'
  BY <1>2 DEF SendsAreFresh
<1> QED BY <1>1, <1>3, <1>4, <1>5, QuietStep

LEMMA CheckSendStep ==
    ASSUME Inv, NEW n \in Nodes, NEW s \in Signals, CheckSend(n, s) PROVE Step
<1> USE DEF Inv, SignalTypeOK, CheckSend
<1>1. SendsAreFresh'
  BY DEF SendsAreFresh, Clock, IsFresh
<1>2. MaintenanceIsArmed' /\ MaintenanceIsPast'
  BY DEF MaintenanceIsArmed, MaintenanceIsPast, IsArmed, Slack, Clock
<1> QED BY <1>1, <1>2, QuietStep

(* A step in which only the runtime of n changes, and stays armed.         *)
LEMMA RuntimeStep ==
    ASSUME Inv, NEW n \in Nodes, NEW r \in Runtime,
           runtime' = [runtime EXCEPT ![n] = r],
           IsArmed(n, r, deliveries[n], Slack), r.at <= Clock(n),
           UNCHANGED <<now, deliveries, sending, wire, offered, faults>>
    PROVE  Step
<1> USE DEF Inv, SignalTypeOK
<1>1. /\ runtime' \in [Nodes -> Runtime] /\ runtime'[n] = r
      /\ \A m \in Nodes \ {n} : runtime'[m] = runtime[m]
  OBVIOUS
<1>2. MaintenanceIsArmed'
  <2>1. \A m \in Nodes : IsArmed(m, runtime'[m], deliveries[m], Slack)
    BY <1>1 DEF MaintenanceIsArmed
  <2> QED BY <2>1 DEF MaintenanceIsArmed, IsArmed, Slack, Clock
<1>3. MaintenanceIsPast'
  BY <1>1 DEF MaintenanceIsPast, Clock
<1>4. SendsAreFresh'
  BY DEF SendsAreFresh, Clock
<1> QED BY <1>1, <1>2, <1>3, <1>4, QuietStep

LEMMA RunMaintenanceStep ==
    ASSUME Inv, NEW n \in Nodes, RunMaintenance(n) PROVE Step
<1> USE DEF Inv, SignalTypeOK
<1> DEFINE r == [runtime[n] EXCEPT !.knowsNode = TRUE]
           q == Rescheduled(n, r, deliveries[n], 0)
<1>1. r \in Runtime /\ r.at = runtime[n].at
  BY DEF Runtime
<1>2. q \in Runtime /\ q.at = r.at /\ IsArmed(n, q, deliveries[n], 0)
  <2> HIDE DEF r
  <2> QED BY <1>1, RescheduledIsArmed
<1>3. IsArmed(n, q, deliveries[n], Slack)
  <2>1. Clock(n) \in Nat /\ q.timer \in Nat \cup {NoTimer}
    BY <1>2, Clocks DEF Runtime
  <2> HIDE DEF q
  <2> QED BY <1>2, <2>1 DEF IsArmed, Slack
<1>4. q.at <= Clock(n)
  BY <1>1, <1>2 DEF MaintenanceIsPast
<1>5. runtime' = [runtime EXCEPT ![n] = q]
  BY DEF RunMaintenance
<1> HIDE DEF q
<1> QED BY <1>2, <1>3, <1>4, <1>5, RuntimeStep DEF RunMaintenance

LEMMA WakeStep ==
    ASSUME Inv, NEW n \in Nodes, Wake(n) PROVE Step
<1> USE DEF Inv, SignalTypeOK
<1> DEFINE r == [runtime[n] EXCEPT !.timer = NoTimer, !.running = TRUE, !.at = Clock(n)]
<1>1. r \in Runtime /\ r.at = Clock(n) /\ r.running
  BY Clocks DEF Runtime
<1>2. IsArmed(n, r, deliveries[n], Slack)
  BY <1>1 DEF IsArmed
<1>3. runtime' = [runtime EXCEPT ![n] = r]
  BY DEF Wake
<1>4. r.at <= Clock(n)
  BY <1>1, Clocks
<1> HIDE DEF r
<1> QED BY <1>1, <1>2, <1>3, <1>4, RuntimeStep DEF Wake

-----------------------------------------------------------------------------
(* The steps that save.                                                    *)
LEMMA CommitSendStep ==
    ASSUME Inv, NEW n \in Nodes, NEW s \in Signals, CommitSend(n, s) PROVE Step
<1> USE DEF Inv, SignalTypeOK
<1> DEFINE d == Scheduled(n, 1, Clock(n))
           e == [signal |-> s, owner |-> n, attempt |-> 1, sentAt |-> Clock(n)]
<1>1. Clock(n) \in Nat /\ RetryOffsets[1] = 0
  BY Clocks
<1>2. d \in Delivery /\ e \in Sent
  BY <1>1, Delays, ScheduledType DEF Sent
<1>3. Created[s] <= Clock(n) + MaxSkew
  BY DEF CommitSend, SendsAreFresh
<1>4. IsSpaced(s, d) /\ ~d.acknowledged
  BY <1>1, <1>3 DEF IsSpaced, Scheduled
<1>5. wire' = wire \cup {e}
  BY DEF CommitSend
<1>6. WireIsSpaced'
  <2>1. e.sentAt + MaxSkew >= Created[e.signal] + RetryOffsets[e.attempt]
    BY <1>1, <1>3
  <2> HIDE DEF e
  <2> QED BY <1>5, <2>1 DEF WireIsSpaced
<1>7. wire' \subseteq Sent \cup Acknowledgement
  BY <1>2, <1>5
<1>8. offered' \subseteq Nodes \X Signals
  BY DEF CommitSend, Offer
<1> QED BY <1>2, <1>4, <1>6, <1>7, <1>8, SaveKeepsInv DEF CommitSend

LEMMA ReceiveSentStep ==
    ASSUME Inv, NEW n \in Nodes, NEW e \in wire, ReceiveSent(n, e) PROVE Step
<1> USE DEF Inv, SignalTypeOK
<1>1. e \in Sent /\ UNCHANGED <<now, sending, wire, faults>> /\ Offer(n, e.signal)
  BY DEF ReceiveSent
<1> DEFINE s == e.signal
           d == Scheduled(e.owner, e.attempt, e.sentAt)
<1>2. s \in Signals /\ e.owner \in Nodes /\ e.attempt \in Attempts /\ e.sentAt \in Nat
  BY <1>1 DEF Sent
<1>3. offered' \subseteq Nodes \X Signals
  BY <1>1, <1>2 DEF Offer
<1>4. WireIsSpaced'
  BY <1>1 DEF WireIsSpaced
<1>5. CASE Save(n, s, d)
  <2>1. d \in Delivery
    BY <1>2, ScheduledType
  <2>2. IsSpaced(s, d) /\ ~d.acknowledged
    BY <1>1 DEF IsSpaced, Scheduled, WireIsSpaced
  <2> HIDE DEF d, s
  <2> QED BY <1>1, <1>2, <1>3, <1>4, <1>5, <2>1, <2>2, SaveKeepsInv DEF s
<1>6. CASE UNCHANGED <<deliveries, runtime>>
  <2>1. MaintenanceIsArmed' /\ MaintenanceIsPast' /\ SendsAreFresh'
    BY <1>1, <1>6 DEF MaintenanceIsArmed, MaintenanceIsPast, SendsAreFresh, IsArmed, Slack, Clock
  <2>2. RetriesAreSpaced' /\ Forward
    BY <1>6 DEF RetriesAreSpaced, Forward, KeepsOrExpires, Held, Delivery, Attempts
  <2>3. SignalTypeOK'
    BY <1>1, <1>3, <1>6
  <2> QED BY <1>4, <2>1, <2>2, <2>3 DEF Step
<1> QED BY <1>5, <1>6 DEF ReceiveSent

LEMMA AcknowledgedType ==
    ASSUME NEW s \in Signals, NEW d \in Delivery, IsSpaced(s, d)
    PROVE  Acknowledged(d) \in Delivery /\ IsSpaced(s, Acknowledged(d))
BY DEF Acknowledged, Delivery, IsSpaced

LEMMA AcknowledgeStep ==
    ASSUME Inv, NEW n \in Nodes, NEW s \in Signals, Acknowledge(n, s) PROVE Step
<1> USE DEF Inv, SignalTypeOK
<1> DEFINE d == Acknowledged(deliveries[n][s])
           e == [signal |-> s, inTime |-> ~HasExpiredAt(s, Clock(n))]
<1>1. d \in Delivery /\ IsSpaced(s, d)
  <2>1. deliveries[n][s] \in Delivery /\ IsSpaced(s, deliveries[n][s])
    BY DEF Acknowledge, RetriesAreSpaced, Held
  <2> QED BY <2>1, AcknowledgedType
<1>2. e \in Acknowledgement /\ e \notin Sent
  <2>1. DOMAIN e = {"signal", "inTime"}
    OBVIOUS
  <2>2. \A x \in Sent : DOMAIN x = {"signal", "owner", "attempt", "sentAt"}
    BY DEF Sent
  <2>3. e \in Acknowledgement
    BY DEF Acknowledgement, HasExpiredAt
  <2>4. "owner" \in {"signal", "owner", "attempt", "sentAt"} /\ "owner" \notin {"signal", "inTime"}
    OBVIOUS
  <2> HIDE DEF e
  <2> QED BY <2>1, <2>2, <2>3, <2>4
<1>3. wire' = wire \cup {e}
  BY DEF Acknowledge
<1>4. WireIsSpaced' /\ wire' \subseteq Sent \cup Acknowledgement
  <2> HIDE DEF e
  <2> QED BY <1>2, <1>3 DEF WireIsSpaced
<1>5. Save(n, s, d) /\ UNCHANGED <<now, sending, offered, faults>>
  BY DEF Acknowledge
<1> HIDE DEF e
<1> QED BY <1>1, <1>4, <1>5, SaveKeepsInv

LEMMA ReceiveAcknowledgementStep ==
    ASSUME Inv, NEW n \in Nodes, NEW e \in wire, ReceiveAcknowledgement(n, e) PROVE Step
<1> USE DEF Inv, SignalTypeOK
<1> DEFINE s == e.signal
           d == Acknowledged(deliveries[n][s])
<1>1. s \in Signals
  BY DEF ReceiveAcknowledgement, Acknowledgement
<1>2. d \in Delivery /\ IsSpaced(s, d)
  <2>1. deliveries[n][s] \in Delivery /\ IsSpaced(s, deliveries[n][s])
    BY <1>1 DEF ReceiveAcknowledgement, RetriesAreSpaced, Held
  <2> QED BY <1>1, <2>1, AcknowledgedType
<1>3. Save(n, s, d) /\ UNCHANGED <<now, sending, wire, offered, faults>>
  BY DEF ReceiveAcknowledgement
<1>4. WireIsSpaced'
  BY <1>3 DEF WireIsSpaced
<1> QED BY <1>1, <1>2, <1>3, <1>4, SaveKeepsInv

-----------------------------------------------------------------------------
(* A fault gives every runtime the slack of a backoff.                     *)
LEMMA FaultStep ==
    ASSUME Inv, NEW n \in Nodes, NEW r \in Runtime, faults' = faults + 1, faults < MaxFaults,
           NEW held \in [Signals -> Delivery \cup {NoDelivery}],
           runtime' = [runtime EXCEPT ![n] = r],
           deliveries' = [deliveries EXCEPT ![n] = held],
           \/ held = deliveries[n]
           \/ r = NewRuntime /\ held = [s \in Signals |-> NoDelivery],
           IsArmed(n, r, held, Backoff), r.at <= Clock(n),
           sending' \subseteq sending, UNCHANGED <<now, wire, offered>>
    PROVE  Step
<1> USE DEF Inv, SignalTypeOK
<1>1. /\ runtime' \in [Nodes -> Runtime] /\ runtime'[n] = r
      /\ \A m \in Nodes \ {n} : runtime'[m] = runtime[m]
      /\ deliveries' \in [Nodes -> [Signals -> Delivery \cup {NoDelivery}]]
      /\ deliveries'[n] = held
      /\ \A m \in Nodes \ {n} : deliveries'[m] = deliveries[m]
  OBVIOUS
<1>2. faults' \in 0..MaxFaults /\ faults' # 0
  OBVIOUS
<1>3. MaintenanceIsArmed'
  <2>1. \A m \in Nodes : IsArmed(m, runtime'[m], deliveries'[m], Backoff)
    <3> SUFFICES ASSUME NEW m \in Nodes, m # n
                 PROVE  IsArmed(m, runtime[m], deliveries[m], Backoff)
      BY <1>1
    <3>1. IsArmed(m, runtime[m], deliveries[m], Slack)
      BY DEF MaintenanceIsArmed
    <3>2. Clock(m) \in Nat /\ runtime[m].timer \in Nat \cup {NoTimer}
      BY Clocks DEF Runtime
    <3> QED BY <3>1, <3>2 DEF IsArmed, Slack
  <2>2. Slack' = Backoff
    BY <1>2 DEF Slack
  <2> QED BY <2>1, <2>2 DEF MaintenanceIsArmed, IsArmed, Clock
<1>4. MaintenanceIsPast'
  BY <1>1 DEF MaintenanceIsPast, Clock
<1>5. RetriesAreSpaced' /\ WireIsSpaced' /\ SendsAreFresh'
  BY <1>1 DEF RetriesAreSpaced, WireIsSpaced, SendsAreFresh, Held, Clock
<1>6. Forward
  <2> SUFFICES ASSUME NEW m \in Nodes, NEW s \in Signals, Held(m, s)
               PROVE  KeepsOrExpires(m, s)
    BY DEF Forward
  <2>1. CASE deliveries'[m] = deliveries[m]
    <3>1. deliveries[m][s] \in Delivery
      BY DEF Held
    <3>2. deliveries[m][s].attempt \in Nat /\ deliveries[m][s].nextRetryAt \in Nat
      BY <3>1, Delays DEF Delivery
    <3> QED BY <2>1, <3>2 DEF KeepsOrExpires, Held
  <2>2. CASE m = n /\ r = NewRuntime /\ held = [x \in Signals |-> NoDelivery]
    BY <1>1, <2>2 DEF KeepsOrExpires, Held
  <2> QED BY <1>1, <2>1, <2>2
<1>7. SignalTypeOK'
  BY <1>1, <1>2
<1> QED BY <1>3, <1>4, <1>5, <1>6, <1>7 DEF Step

LEMMA FailMaintenanceStep ==
    ASSUME Inv, NEW n \in Nodes, FailMaintenance(n) PROVE Step
<1> USE DEF Inv, SignalTypeOK
<1> DEFINE r == [runtime[n] EXCEPT !.running = FALSE]
           q == Rescheduled(n, r, deliveries[n], Backoff)
<1>1. r \in Runtime /\ r.at = runtime[n].at
  <2>1. runtime[n] \in Runtime
    OBVIOUS
  <2> HIDE DEF Inv, SignalTypeOK
  <2> QED BY <2>1 DEF Runtime
<1>2. q \in Runtime /\ q.at = r.at /\ IsArmed(n, q, deliveries[n], Backoff)
  <2> HIDE DEF r
  <2> QED BY <1>1, RescheduledIsArmed
<1>3. q.at <= Clock(n)
  BY <1>1, <1>2 DEF MaintenanceIsPast
<1>4. /\ runtime' = [runtime EXCEPT ![n] = q]
      /\ deliveries' = [deliveries EXCEPT ![n] = deliveries[n]]
      /\ faults < MaxFaults /\ faults' = faults + 1
      /\ UNCHANGED <<now, sending, wire, offered>>
  BY DEF FailMaintenance
<1> HIDE DEF q
<1> QED BY <1>2, <1>3, <1>4, FaultStep

LEMMA RestartNodeStep ==
    ASSUME Inv, NEW n \in Nodes, RestartNode(n) PROVE Step
<1> USE DEF Inv, SignalTypeOK
<1> DEFINE held == [s \in Signals |-> NoDelivery]
<1>1. NewRuntime \in Runtime /\ NewRuntime.at = 0 /\ ~NewRuntime.knowsNode
  BY DEF NewRuntime, Runtime
<1>2. IsArmed(n, NewRuntime, held, Backoff) /\ NewRuntime.at <= Clock(n)
  BY <1>1, Clocks DEF IsArmed
<1>3. held \in [Signals -> Delivery \cup {NoDelivery}]
  OBVIOUS
<1> QED BY <1>1, <1>2, <1>3, FaultStep DEF RestartNode

-----------------------------------------------------------------------------
(* One maintenance: what is due is published again, at its time.           *)
LEMMA RetriedStep ==
    ASSUME Inv, NEW n \in Nodes, NEW s \in Retryable(n, runtime[n].at)
    PROVE  LET d == deliveries[n][s]
               q == Retried(d, runtime[n].at)
           IN  /\ s \in Signals /\ d \in Delivery /\ q \in Delivery /\ IsSpaced(s, q)
               /\ q.owner = n /\ d.owner = n /\ q.sentAt = runtime[n].at /\ ~d.acknowledged
               /\ q.attempt >= d.attempt /\ q.nextRetryAt >= d.nextRetryAt
<1> USE DEF Inv, SignalTypeOK
<1> DEFINE d == deliveries[n][s]
           t == runtime[n].at
           q == Retried(d, t)
<1>1. /\ s \in Signals /\ d \in Delivery /\ d.owner = n /\ ~d.acknowledged
      /\ d.attempt < Len(RetryOffsets) /\ t >= d.nextRetryAt
  BY DEF Retryable, IsRetryableAt, CanRetry
<1>2. IsSpaced(s, d)
  BY <1>1 DEF RetriesAreSpaced, Held, Retryable
<1>3. /\ d.attempt \in Attempts /\ d.attempt \in Nat /\ d.nextRetryAt \in Nat
      /\ d.sentAt \in Nat /\ t \in Nat /\ Created[s] \in Nat
  BY <1>1, Delays DEF Delivery, Runtime
<1>4. /\ d.attempt + 1 \in Attempts
      /\ RetryOffsets[d.attempt] + RetryDelay(d.attempt) = RetryOffsets[d.attempt + 1]
      /\ RetryOffsets[d.attempt] \in Nat /\ RetryOffsets[d.attempt + 1] \in Nat
      /\ RetryDelay(d.attempt) \in Nat /\ RetryDelay(d.attempt + 1) \in Nat
  BY <1>1, <1>3, Delays
<1>5. /\ q.owner = n /\ q.attempt = d.attempt + 1 /\ q.sentAt = t
      /\ q.nextRetryAt = t + RetryDelay(d.attempt + 1)
  BY <1>1 DEF Retried, Scheduled
<1>6. q \in Delivery
  BY <1>1, <1>3, <1>4, ScheduledType DEF Retried
<1> HIDE DEF q, d, t
<1>7. IsSpaced(s, q)
  <2>1. /\ d.sentAt + MaxSkew >= Created[s] + RetryOffsets[d.attempt]
        /\ d.nextRetryAt = d.sentAt + RetryDelay(d.attempt)
    BY <1>2 DEF IsSpaced
  <2>2. t + MaxSkew >= Created[s] + RetryOffsets[d.attempt + 1]
    <3> DEFINE o == RetryOffsets[d.attempt]
               p == RetryOffsets[d.attempt + 1]
               delay == RetryDelay(d.attempt)
               sent == d.sentAt
               next == d.nextRetryAt
               created == Created[s]
    <3>1. /\ t >= next /\ next = sent + delay
          /\ sent + MaxSkew >= created + o /\ o + delay = p
          /\ t \in Nat /\ next \in Nat /\ sent \in Nat /\ MaxSkew \in Nat /\ created \in Nat
          /\ o \in Nat /\ p \in Nat /\ delay \in Nat
      BY <1>1, <1>3, <1>4, <2>1, Zenon
    <3> HIDE DEF o, p, delay, sent, next, created, Inv, SignalTypeOK
    <3>2. t + MaxSkew >= created + p
      BY <3>1
    <3> QED BY <3>2 DEF created, p
  <2>3. /\ q.sentAt + MaxSkew >= Created[s] + RetryOffsets[q.attempt]
        /\ q.nextRetryAt = q.sentAt + RetryDelay(q.attempt)
    BY <1>5, <2>2, Zenon
  <2> QED BY <2>3 DEF IsSpaced
<1>8. q.attempt >= d.attempt /\ q.nextRetryAt >= d.nextRetryAt
  <2> HIDE DEF Inv, SignalTypeOK
  <2>1. q.attempt >= d.attempt
    BY <1>3, <1>5
  <2> DEFINE delay == RetryDelay(d.attempt + 1)
             next == d.nextRetryAt
  <2>2. q.nextRetryAt = t + delay /\ t >= next
    BY <1>1, <1>5, Zenon
  <2>3. delay \in Nat /\ t \in Nat /\ next \in Nat
    BY <1>3, <1>4
  <2> HIDE DEF delay, next
  <2>4. q.nextRetryAt >= next
    BY <2>2, <2>3
  <2> QED BY <2>1, <2>4 DEF next
<1> QED BY <1>1, <1>5, <1>6, <1>7, <1>8 DEF q, d, t

LEMMA MaintainStep ==
    ASSUME Inv, NEW n \in Nodes, Maintain(n) PROVE Step
<1> USE DEF Inv, SignalTypeOK
<1> DEFINE t == runtime[n].at
           due == Retryable(n, t)
           retried == [s \in due |-> Retried(deliveries[n][s], t)]
           kept == [s \in Signals |->
                      IF s \in due THEN retried[s]
                      ELSE IF HasExpiredAt(s, t) THEN NoDelivery ELSE deliveries[n][s]]
           r == [runtime[n] EXCEPT !.running = FALSE]
           q == Rescheduled(n, r, kept, 0)
<1>1. /\ deliveries' = [deliveries EXCEPT ![n] = kept]
      /\ wire' = wire \cup {[signal |-> s, owner |-> n, attempt |-> retried[s].attempt,
                             sentAt |-> t] : s \in due}
      /\ runtime' = [runtime EXCEPT ![n] = q]
      /\ UNCHANGED <<now, sending, faults>>
  BY DEF Maintain
<1>2. \A s \in due :
        /\ s \in Signals /\ deliveries[n][s] \in Delivery /\ retried[s] \in Delivery
        /\ IsSpaced(s, retried[s]) /\ retried[s].owner = n /\ deliveries[n][s].owner = n
        /\ retried[s].sentAt = t /\ ~deliveries[n][s].acknowledged
        /\ retried[s].attempt >= deliveries[n][s].attempt
        /\ retried[s].nextRetryAt >= deliveries[n][s].nextRetryAt
  BY RetriedStep
<1>3. offered' \subseteq Nodes \X Signals
  BY <1>2 DEF Maintain
<1>4. t \in Nat /\ Clock(n) \in Nat /\ t <= Clock(n)
  BY Clocks DEF Runtime, MaintenanceIsPast
<1>5. \A s \in Signals : kept[s] = IF s \in due THEN retried[s]
        ELSE IF HasExpiredAt(s, t) THEN NoDelivery ELSE deliveries[n][s]
  OBVIOUS
<1>6. kept \in [Signals -> Delivery \cup {NoDelivery}]
  <2> HIDE DEF due, retried
  <2> QED BY <1>2
<1>7. r \in Runtime /\ r.at = t
  BY DEF Runtime
<1>8. q \in Runtime /\ q.at = t /\ IsArmed(n, q, kept, 0)
  <2> HIDE DEF r, kept, t
  <2> QED BY <1>6, <1>7, RescheduledIsArmed
<1> HIDE DEF due, retried, kept, r, q, t
<1>9. /\ deliveries'[n] = kept /\ runtime'[n] = q
      /\ \A m \in Nodes \ {n} : deliveries'[m] = deliveries[m] /\ runtime'[m] = runtime[m]
      /\ deliveries' \in [Nodes -> [Signals -> Delivery \cup {NoDelivery}]]
      /\ runtime' \in [Nodes -> Runtime]
  BY <1>1, <1>6, <1>8
<1>10. MaintenanceIsArmed'
  <2>1. IsArmed(n, q, kept, Slack)
    <3>1. q.timer \in Nat \cup {NoTimer} /\ Slack \in Nat
      BY <1>8 DEF Runtime, Slack
    <3> QED BY <1>4, <1>8, <3>1 DEF IsArmed
  <2>2. \A m \in Nodes : IsArmed(m, runtime'[m], deliveries'[m], Slack)
    BY <1>9, <2>1 DEF MaintenanceIsArmed
  <2> QED BY <1>1, <2>2 DEF MaintenanceIsArmed, IsArmed, Slack, Clock
<1>11. MaintenanceIsPast' /\ SendsAreFresh'
  BY <1>1, <1>4, <1>8, <1>9 DEF MaintenanceIsPast, SendsAreFresh, Clock
<1>12. WireIsSpaced' /\ wire' \subseteq Sent \cup Acknowledgement
  <2>1. \A s \in due : LET e == [signal |-> s, owner |-> n, attempt |-> retried[s].attempt,
                                 sentAt |-> t]
                       IN  /\ e \in Sent
                           /\ e.sentAt + MaxSkew >= Created[e.signal] + RetryOffsets[e.attempt]
    BY <1>2, <1>4 DEF Sent, IsSpaced, Delivery
  <2> QED BY <1>1, <2>1 DEF WireIsSpaced
<1>13. RetriesAreSpaced'
  <2>1. \A s \in Signals : kept[s] # NoDelivery => IsSpaced(s, kept[s])
    BY <1>2, <1>5 DEF RetriesAreSpaced, Held
  <2> QED BY <1>9, <2>1 DEF RetriesAreSpaced, Held
<1>14. Forward
  <2> SUFFICES ASSUME NEW m \in Nodes, NEW s \in Signals, Held(m, s)
               PROVE  KeepsOrExpires(m, s)
    BY DEF Forward
  <2>1. deliveries[m][s] \in Delivery
    BY DEF Held
  <2>2. deliveries[m][s].attempt \in Nat /\ deliveries[m][s].nextRetryAt \in Nat
    BY <2>1, Delays DEF Delivery
  <2>3. CASE deliveries'[m][s] = deliveries[m][s]
    BY <2>2, <2>3 DEF KeepsOrExpires, Held
  <2>4. CASE m = n /\ s \in due
    <3>1. deliveries'[m][s] = retried[s] /\ retried[s] # NoDelivery
      BY <1>2, <1>5, <1>9, <2>4, NoDeliveryIsNone
    <3> QED BY <1>2, <2>4, <3>1 DEF KeepsOrExpires, Held
  <2>5. CASE m = n /\ s \notin due /\ HasExpiredAt(s, t)
    <3>1. deliveries'[m][s] = NoDelivery
      BY <1>5, <1>9, <2>5
    <3>2. ExpiresAt(s) \in Nat
      BY DEF ExpiresAt
    <3>3. HasExpiredAt(s, Clock(m))
      BY <1>4, <2>5, <3>2 DEF HasExpiredAt
    <3> QED BY <3>1, <3>3 DEF KeepsOrExpires, Held
  <2> QED BY <1>5, <1>9, <2>3, <2>4, <2>5
<1>15. SignalTypeOK'
  BY <1>1, <1>3, <1>9, <1>12
<1> QED BY <1>10, <1>11, <1>12, <1>13, <1>14, <1>15 DEF Step

-----------------------------------------------------------------------------
LEMMA InitEstablishesInv == SignalInit => Inv
<1> SUFFICES ASSUME SignalInit PROVE Inv
  OBVIOUS
<1> USE DEF SignalInit
<1>1. NewRuntime \in Runtime /\ NewRuntime.at = 0 /\ ~NewRuntime.knowsNode
  BY DEF NewRuntime, Runtime
<1>2. SignalTypeOK
  BY <1>1 DEF SignalTypeOK
<1>3. RetriesAreSpaced /\ WireIsSpaced /\ SendsAreFresh
  BY DEF RetriesAreSpaced, Held, WireIsSpaced, SendsAreFresh
<1>4. MaintenanceIsArmed /\ MaintenanceIsPast
  BY <1>1, Clocks DEF MaintenanceIsArmed, IsArmed, MaintenanceIsPast
<1> QED BY <1>2, <1>3, <1>4 DEF Inv

LEMMA NextIsAStep == Inv /\ [SignalNext]_signalVars => Step
<1> SUFFICES ASSUME Inv, [SignalNext]_signalVars PROVE Step
  OBVIOUS
<1>1. CASE UNCHANGED signalVars
  <2> USE DEF Inv, SignalTypeOK, signalVars
  <2>1. MaintenanceIsArmed' /\ MaintenanceIsPast' /\ SendsAreFresh'
    BY <1>1 DEF MaintenanceIsArmed, MaintenanceIsPast, SendsAreFresh, IsArmed, Slack, Clock
  <2> QED BY <1>1, <2>1, QuietStep
<1>2. CASE PassTime
  BY <1>2, PassTimeStep
<1>3. ASSUME NEW n \in Nodes,
             RunMaintenance(n) \/ Wake(n) \/ Maintain(n) \/ FailMaintenance(n) \/ RestartNode(n)
      PROVE  Step
  BY <1>3, RunMaintenanceStep, WakeStep, MaintainStep, FailMaintenanceStep, RestartNodeStep
<1>4. ASSUME NEW n \in Nodes, NEW s \in Signals,
             CheckSend(n, s) \/ CommitSend(n, s) \/ Acknowledge(n, s)
      PROVE  Step
  BY <1>4, CheckSendStep, CommitSendStep, AcknowledgeStep
<1>5. ASSUME NEW n \in Nodes, NEW e \in wire,
             ReceiveSent(n, e) \/ ReceiveAcknowledgement(n, e)
      PROVE  Step
  BY <1>5, ReceiveSentStep, ReceiveAcknowledgementStep
<1> QED BY <1>1, <1>2, <1>3, <1>4, <1>5 DEF SignalNext

(* The conjunction the theorems below are read from: types, spacing, what   *)
(* is armed, what is on the wire and the clock (OutboundSignalDelivery).    *)
THEOREM InvTheorem == SignalSpec => []Inv
<1>1. Inv /\ [SignalNext]_signalVars => Inv'
  BY NextIsAStep DEF Step
<1> QED BY <1>1, InitEstablishesInv, PTL DEF SignalSpec

(* The records of every node have their types.                             *)
THEOREM SignalTypeTheorem == SignalSpec => []SignalTypeOK
<1>1. Inv => SignalTypeOK
  BY DEF Inv
<1> QED BY <1>1, InvTheorem, PTL

(* The retries of a signal keep the distances of RETRY_DELAYS_MS.          *)
THEOREM SpacingTheorem == SignalSpec => []RetriesAreSpaced
<1>1. Inv => RetriesAreSpaced
  BY DEF Inv
<1> QED BY <1>1, InvTheorem, PTL

(* No save, failure or start leaves a runtime asleep.                      *)
THEOREM ArmedTheorem == SignalSpec => []MaintenanceIsArmed
<1>1. Inv => MaintenanceIsArmed
  BY DEF Inv
<1> QED BY <1>1, InvTheorem, PTL

(* A delivery never changes hands, falls back or goes before its expiry.   *)
THEOREM AdvanceTheorem == SignalSpec => DeliveriesOnlyAdvance
<1>1. Inv /\ [SignalNext]_signalVars =>
        [\A n \in Nodes, s \in Signals : Held(n, s) => KeepsOrExpires(n, s)]_signalVars
  BY NextIsAStep DEF Step, Forward
<1> QED BY <1>1, InvTheorem, PTL DEF SignalSpec, DeliveriesOnlyAdvance
=============================================================================
