---------------------------- MODULE CallSignals ----------------------------
(***************************************************************************)
(* The delivery of call signals between nodes.  The node that takes a      *)
(* signal from its sender owns the delivery and publishes it again until   *)
(* the recipient acknowledged it, the attempts are used up, or the signal  *)
(* has expired.  Every node keeps the deliveries it hears of in memory.    *)
(* The topics lose, repeat and reorder: an event once published may reach  *)
(* a node at any time, often, or never.                                    *)
(***************************************************************************)
EXTENDS Integers, Sequences, FiniteSetsExt

CONSTANTS Nodes, Signals, NoDelivery, NoTimer,
          Homes,          \* the nodes where a client of the recipient is connected
          Offset,         \* how far the clock of each node runs ahead
          Created,        \* the creation time that each signal carries
          Lifetime,       \* CallSignal.LIFETIME_MS
          MaxSkew,        \* CALL_SIGNAL_MAX_CLOCK_SKEW_MS
          RetryOffsets,   \* the running totals of RETRY_DELAYS_MS, from 0
          Backoff,        \* the delay after a maintenance that failed
          MaxNow, MaxFaults

ASSUME SignalConstants ==
    /\ Homes \subseteq Nodes
    /\ Offset \in [Nodes -> Nat]
    /\ Created \in [Signals -> Nat]
    /\ Lifetime \in Nat /\ MaxSkew \in Nat /\ Backoff \in Nat
    /\ MaxNow \in Nat /\ MaxFaults \in Nat
    /\ RetryOffsets \in Seq(Nat) /\ RetryOffsets # <<>> /\ RetryOffsets[1] = 0
    /\ \A a \in 2..Len(RetryOffsets) : RetryOffsets[a - 1] <= RetryOffsets[a]
    /\ NoTimer \notin Nat

VARIABLES
    now,            \* the time of a clock without offset
    deliveries,     \* InMemoryCallSignalDeliveryRepository.deliveries of each node
    sending,        \* the sends that looked for the signal and have not saved it
    runtime,        \* CallSignalDeliveryMaintenanceRuntime of each node
    wire,           \* the events published so far
    offered,        \* the nodes that handed a copy of a signal to a client
    faults          \* bound: restarts and failed maintenances so far

signalVars == <<now, deliveries, sending, runtime, wire, offered, faults>>

Attempts == 1..Len(RetryOffsets)
Delivery == [owner : Nodes, attempt : Attempts, sentAt : Nat,
             nextRetryAt : Nat, acknowledged : BOOLEAN]

ASSUME NoDeliveryIsNone == NoDelivery \notin Delivery

Runtime == [knowsNode : BOOLEAN, running : BOOLEAN, at : Nat, timer : Nat \cup {NoTimer}]
Sent == [signal : Signals, owner : Nodes, attempt : Attempts, sentAt : Nat]
Acknowledgement == [signal : Signals, inTime : BOOLEAN]   \* of acknowledgedAt: before the expiry
NewRuntime == [knowsNode |-> FALSE, running |-> FALSE, at |-> 0, timer |-> NoTimer]

Clock(n) == now + Offset[n]
ExpiresAt(s) == Created[s] + Lifetime
HasExpiredAt(s, t) == t >= ExpiresAt(s)

CanRetry(d) == d.attempt < Len(RetryOffsets)
RetryDelay(a) == IF a < Len(RetryOffsets) THEN RetryOffsets[a + 1] - RetryOffsets[a] ELSE 0

(* A schedule of one attempt, as the owner makes it and as a receiver      *)
(* computes it again from the event.                                       *)
Scheduled(owner, a, t) ==
    [owner |-> owner, attempt |-> a, sentAt |-> t,
     nextRetryAt |-> t + RetryDelay(a), acknowledged |-> FALSE]

Acknowledged(d) == [d EXCEPT !.acknowledged = TRUE]

(* Mutant of IsRetryableAt: the time of the next retry is not looked at.   *)
IsRetryableAnyTime(s, d, t) == ~d.acknowledged /\ ~HasExpiredAt(s, t) /\ CanRetry(d)

IsRetryableAt(s, d, t) ==
    /\ ~d.acknowledged /\ ~HasExpiredAt(s, t)
    /\ CanRetry(d) /\ t >= d.nextRetryAt

(* Mutant of Supersedes: a later attempt beats an acknowledgement.         *)
SupersedesByAttempt(d, current) ==
    d.owner = current.owner /\ (d.acknowledged \/ d.attempt > current.attempt)

Supersedes(d, current) ==
    /\ d.owner = current.owner
    /\ IF current.acknowledged
         THEN d.acknowledged
         ELSE \/ d.acknowledged
              \/ /\ d.attempt > current.attempt
                 /\ d.sentAt >= current.sentAt
                 /\ d.nextRetryAt >= current.nextRetryAt

-----------------------------------------------------------------------------
(* When a node has to look at a delivery again; an acknowledged one never. *)
NextMaintenanceOf(n, s, d) ==
    IF d.owner = n /\ CanRetry(d) THEN Min({d.nextRetryAt, ExpiresAt(s)}) ELSE ExpiresAt(s)

Unacknowledged(held) == {s \in Signals : held[s] # NoDelivery /\ ~held[s].acknowledged}

NextMaintenance(n, held) == Min({NextMaintenanceOf(n, s, held[s]) : s \in Unacknowledged(held)})

(* Mutant of Rescheduled: a timer that runs is left as it is.              *)
ScheduledOnce(n, r, held, minimumDelay) ==
    IF r.running \/ ~r.knowsNode \/ r.timer # NoTimer \/ Unacknowledged(held) = {} THEN r
    ELSE [r EXCEPT !.timer = Max({Clock(n) + minimumDelay, NextMaintenance(n, held)})]

(* scheduleNextMaintenance: the runtime of n with its timer set anew.      *)
Rescheduled(n, r, held, minimumDelay) ==
    IF r.running \/ ~r.knowsNode THEN r
    ELSE [r EXCEPT !.timer =
            IF Unacknowledged(held) = {} THEN NoTimer
            ELSE Max({Clock(n) + minimumDelay, NextMaintenance(n, held)})]

(* The repository of n keeps d unless it holds a delivery that d does not   *)
(* supersede, and tells the runtime when it changed.                        *)
Save(n, s, d) ==
    LET held == [deliveries[n] EXCEPT ![s] = d]
    IN  IF deliveries[n][s] = NoDelivery \/ Supersedes(d, deliveries[n][s])
          THEN /\ deliveries' = [deliveries EXCEPT ![n] = held]
               /\ runtime' = [runtime EXCEPT ![n] = Rescheduled(n, @, held, 0)]
          ELSE UNCHANGED <<deliveries, runtime>>

SignalInit ==
    /\ now = 0
    /\ deliveries = [n \in Nodes |-> [s \in Signals |-> NoDelivery]]
    /\ sending = {}
    /\ runtime = [n \in Nodes |-> NewRuntime]
    /\ wire = {} /\ offered = {} /\ faults = 0

(* The maintenance runtime learns the id of its node and starts.           *)
RunMaintenance(n) ==
    /\ ~runtime[n].knowsNode
    /\ runtime' = [runtime EXCEPT ![n] =
                     Rescheduled(n, [@ EXCEPT !.knowsNode = TRUE], deliveries[n], 0)]
    /\ UNCHANGED <<now, deliveries, sending, wire, offered, faults>>

IsFresh(s, t) == ~HasExpiredAt(s, t) /\ Created[s] <= t + MaxSkew

WasSentWithinLifetime(s, sentAt, t) ==
    /\ Created[s] - MaxSkew <= sentAt
    /\ sentAt <= Min({ExpiresAt(s), t + MaxSkew})

Offer(n, s) == offered' = IF n \in Homes /\ IsFresh(s, Clock(n))
                            THEN offered \cup {<<n, s>>} ELSE offered

(* A send passes its checks and then waits for the node and the callers.   *)
CheckSend(n, s) ==
    /\ IsFresh(s, Clock(n))
    /\ deliveries[n][s] = NoDelivery
    /\ sending' = sending \cup {<<n, s>>}
    /\ UNCHANGED <<now, deliveries, runtime, wire, offered, faults>>

CommitSend(n, s) ==
    /\ <<n, s>> \in sending
    /\ sending' = sending \ {<<n, s>>}
    /\ Save(n, s, Scheduled(n, 1, Clock(n)))
    /\ wire' = wire \cup {[signal |-> s, owner |-> n, attempt |-> 1, sentAt |-> Clock(n)]}
    /\ Offer(n, s)
    /\ UNCHANGED <<now, faults>>

(* A sent event reaches n: the consumer registers it, then the hub offers. *)
ReceiveSent(n, e) ==
    LET mayRegister == /\ IsFresh(e.signal, Clock(n))
                       /\ WasSentWithinLifetime(e.signal, e.sentAt, Clock(n))
                       /\ e.owner # n
    IN  /\ e \in wire \cap Sent
        /\ IF mayRegister
             THEN Save(n, e.signal, Scheduled(e.owner, e.attempt, e.sentAt))
             ELSE UNCHANGED <<deliveries, runtime>>
        /\ Offer(n, e.signal)
        /\ UNCHANGED <<now, sending, wire, faults>>

(* A client acknowledges the copy it was offered; one that was taken       *)
(* before is published again, since its event may have been lost.          *)
Acknowledge(n, s) ==
    LET d == deliveries[n][s]
    IN  /\ <<n, s>> \in offered
        /\ d # NoDelivery
        /\ d.acknowledged \/ ~HasExpiredAt(s, Clock(n))
        /\ Save(n, s, Acknowledged(d))
        /\ wire' = wire \cup {[signal |-> s, inTime |-> ~HasExpiredAt(s, Clock(n))]}
        /\ UNCHANGED <<now, sending, offered, faults>>

ReceiveAcknowledgement(n, e) ==
    LET d == deliveries[n][e.signal]
    IN  /\ e \in wire \cap Acknowledgement
        /\ d # NoDelivery /\ ~d.acknowledged /\ e.inTime
        /\ Save(n, e.signal, Acknowledged(d))
        /\ UNCHANGED <<now, sending, wire, offered, faults>>

-----------------------------------------------------------------------------
(* The timer fires; the maintenance takes the time and waits for the id.   *)
Wake(n) ==
    /\ runtime[n].timer # NoTimer
    /\ Clock(n) >= runtime[n].timer
    /\ runtime' = [runtime EXCEPT ![n].timer = NoTimer, ![n].running = TRUE, ![n].at = Clock(n)]
    /\ UNCHANGED <<now, deliveries, sending, wire, offered, faults>>

Retryable(n, t) ==
    {s \in Signals : /\ deliveries[n][s] # NoDelivery
                     /\ deliveries[n][s].owner = n
                     /\ IsRetryableAt(s, deliveries[n][s], t)}

Retried(d, t) == Scheduled(d.owner, d.attempt + 1, t)

(* Every delivery that is due is published again and what expired goes;    *)
(* nothing here waits, so it is one step.                                  *)
Maintain(n) ==
    LET t == runtime[n].at
        retried == [s \in Retryable(n, t) |-> Retried(deliveries[n][s], t)]
        kept == [s \in Signals |->
                   IF s \in Retryable(n, t) THEN retried[s]
                   ELSE IF HasExpiredAt(s, t) THEN NoDelivery ELSE deliveries[n][s]]
    IN  /\ runtime[n].running
        /\ deliveries' = [deliveries EXCEPT ![n] = kept]
        /\ wire' = wire \cup {[signal |-> s, owner |-> n, attempt |-> retried[s].attempt,
                               sentAt |-> t] : s \in Retryable(n, t)}
        /\ offered' = offered \cup
             {<<n, s>> : s \in {x \in Retryable(n, t) : n \in Homes /\ IsFresh(x, Clock(n))}}
        /\ runtime' = [runtime EXCEPT ![n] = Rescheduled(n, [@ EXCEPT !.running = FALSE], kept, 0)]
        /\ UNCHANGED <<now, sending, faults>>

(* Mutant of FailMaintenance: the failure schedules nothing.               *)
FailForGood(n) ==
    /\ runtime[n].running
    /\ faults < MaxFaults
    /\ faults' = faults + 1
    /\ runtime' = [runtime EXCEPT ![n].running = FALSE]
    /\ UNCHANGED <<now, deliveries, sending, wire, offered>>

(* The id of the node cannot be loaded.                                    *)
FailMaintenance(n) ==
    /\ runtime[n].running
    /\ faults < MaxFaults /\ now + Backoff <= MaxNow
    /\ faults' = faults + 1
    /\ runtime' = [runtime EXCEPT ![n] =
                     Rescheduled(n, [@ EXCEPT !.running = FALSE], deliveries[n], Backoff)]
    /\ UNCHANGED <<now, deliveries, sending, wire, offered>>

(* The process ends and starts; everything here was in memory.             *)
RestartNode(n) ==
    /\ faults < MaxFaults
    /\ faults' = faults + 1
    /\ deliveries' = [deliveries EXCEPT ![n] = [s \in Signals |-> NoDelivery]]
    /\ sending' = {x \in sending : x[1] # n}
    /\ runtime' = [runtime EXCEPT ![n] = NewRuntime]
    /\ UNCHANGED <<now, wire, offered>>

PassTime ==
    /\ now < MaxNow
    /\ now' = now + 1
    /\ UNCHANGED <<deliveries, sending, runtime, wire, offered, faults>>

SignalNext ==
    \/ PassTime
    \/ \E n \in Nodes :
         \/ RunMaintenance(n) \/ Wake(n) \/ Maintain(n) \/ FailMaintenance(n) \/ RestartNode(n)
         \/ \E s \in Signals : CheckSend(n, s) \/ CommitSend(n, s) \/ Acknowledge(n, s)
         \/ \E e \in wire : ReceiveSent(n, e) \/ ReceiveAcknowledgement(n, e)

(* The clock runs, the runtime is started, and a timer that is due and a   *)
(* maintenance that began go on.                                           *)
SignalFairness ==
    /\ WF_signalVars(PassTime)
    /\ \A n \in Nodes : /\ WF_signalVars(RunMaintenance(n))
                        /\ WF_signalVars(Wake(n))
                        /\ WF_signalVars(Maintain(n))

SignalSpec == SignalInit /\ [][SignalNext]_signalVars /\ SignalFairness
=============================================================================
