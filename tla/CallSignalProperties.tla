------------------------- MODULE CallSignalProperties -------------------------
(* What the delivery of call signals promises.                             *)
EXTENDS CallSignals

Held(n, s) == deliveries[n][s] # NoDelivery

SignalTypeOK ==
    /\ now \in Nat /\ faults \in 0..MaxFaults
    /\ deliveries \in [Nodes -> [Signals -> Delivery \cup {NoDelivery}]]
    /\ sending \subseteq Nodes \X Signals
    /\ runtime \in [Nodes -> Runtime]
    /\ wire \subseteq Sent \cup Acknowledgement
    /\ offered \subseteq Nodes \X Signals

IsSpaced(s, d) ==
    /\ d.sentAt + MaxSkew >= Created[s] + RetryOffsets[d.attempt]
    /\ d.nextRetryAt = d.sentAt + RetryDelay(d.attempt)

(* However sends, retries, failures and copies of other nodes interleave,  *)
(* no node stores an attempt that came before its turn: the retries of a   *)
(* signal keep the distances of RETRY_DELAYS_MS.                           *)
RetriesAreSpaced ==
    \A n \in Nodes, s \in Signals : Held(n, s) => IsSpaced(s, deliveries[n][s])

IsArmed(n, r, held, slack) ==
    (r.knowsNode /\ ~r.running /\ Unacknowledged(held) # {}) =>
        /\ r.timer # NoTimer
        /\ r.timer <= NextMaintenance(n, held) \/ r.timer <= Clock(n) + slack

Slack == IF faults = 0 THEN 0 ELSE Backoff

(* A runtime that is started and holds something unacknowledged is at work *)
(* or has a timer that fires when it has to look again, after a failure at *)
(* most one backoff late: no save, failure or start leaves the node asleep.*)
MaintenanceIsArmed ==
    \A n \in Nodes : IsArmed(n, runtime[n], deliveries[n], Slack)

KeepsOrExpires(n, s) ==
    \/ /\ Held(n, s)'
       /\ deliveries'[n][s].owner = deliveries[n][s].owner
       /\ deliveries[n][s].acknowledged => deliveries'[n][s].acknowledged
       /\ deliveries'[n][s].attempt >= deliveries[n][s].attempt
       /\ deliveries'[n][s].nextRetryAt >= deliveries[n][s].nextRetryAt
    \/ ~Held(n, s)' /\ (HasExpiredAt(s, Clock(n)) \/ runtime'[n] = NewRuntime)

(* A delivery that a node holds keeps its owner, never forgets that it was *)
(* acknowledged, never falls back to an earlier attempt, and goes only     *)
(* when it expired or with the process.                                    *)
DeliveriesOnlyAdvance ==
    [][\A n \in Nodes, s \in Signals : Held(n, s) => KeepsOrExpires(n, s)]_signalVars

(* A delivery that nobody acknowledges is given up in the end.             *)
UnacknowledgedGo ==
    \A n \in Nodes, s \in Signals :
        (s \in Unacknowledged(deliveries[n])) ~> (s \notin Unacknowledged(deliveries[n]))
=============================================================================
