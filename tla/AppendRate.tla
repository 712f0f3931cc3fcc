------------------------------ MODULE AppendRate -------------------------------
(***************************************************************************)
(* The append limit of one mailbox over time.  The bucket is stored with    *)
(* the mailbox, so restarts do not refill it, and a refused append leaves   *)
(* it alone.  An observer starts a window at any moment and counts what is  *)
(* accepted in it.                                                          *)
(***************************************************************************)
EXTENDS AppendBucket

CONSTANT MaxNow   \* bound on the clock

ASSUME ClockAssumption == MaxNow \in Nat

VARIABLES bucket, clock, since, accepted

rateVars == <<bucket, clock, since, accepted>>

RateInit ==
    /\ clock = 0
    /\ bucket = FullBucket(0)
    /\ since = 0 /\ accepted = 0

AcceptAppend ==
    /\ MayAppend(bucket, clock)
    /\ bucket' = ConsumeAppend(bucket, clock)
    /\ accepted' = accepted + 1
    /\ UNCHANGED <<clock, since>>

OpenWindow ==
    /\ since' = clock /\ accepted' = 0
    /\ UNCHANGED <<bucket, clock>>

RateTick ==
    /\ clock < MaxNow
    /\ clock' = clock + 1
    /\ UNCHANGED <<bucket, since, accepted>>

RateNext == AcceptAppend \/ OpenWindow \/ RateTick

RateSpec == RateInit /\ [][RateNext]_rateVars

RateTypeOK ==
    /\ bucket \in Bucket
    /\ bucket.appendRefilledAt <= clock
    /\ clock \in Nat /\ since \in Nat /\ accepted \in Nat
    /\ since <= clock

(* In any window, wherever it starts, a mailbox accepts at most one minute  *)
(* of appends at once and then no more than the rate refills (a rate of 0   *)
(* turns the limit off).                                                    *)
RateHeld ==
    AppendRate # 0 => accepted * Minute <= Capacity + (clock - since) * AppendRate

(* The inductive form counts what the bucket still holds.                   *)
NothingRefillsTwice ==
    AppendRate # 0 => accepted * Minute + Available(bucket, clock) <= Capacity + (clock - since) * AppendRate
=============================================================================
