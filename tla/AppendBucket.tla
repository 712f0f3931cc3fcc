---------------------------- MODULE AppendBucket ----------------------------
(***************************************************************************)
(* The token bucket that limits accepted appends to one mailbox            *)
(* (Mailbox.consumeAppend).  A bucket is [appendTokens, appendRefilledAt]. *)
(* The code counts tokens in fractions of an envelope; here one envelope   *)
(* costs Minute units and a clock tick refills AppendRate units, which is  *)
(* the same arithmetic without the fractions.                              *)
(***************************************************************************)
EXTENDS Integers

CONSTANTS AppendRate,   \* accepted appends per minute; 0 turns the limit off
          Minute        \* clock ticks in a minute

ASSUME AppendRateAssumption == AppendRate \in Nat /\ Minute \in Nat \ {0}

Capacity == AppendRate * Minute

Bucket == [appendTokens : 0 .. Capacity, appendRefilledAt : Nat]

(* A mailbox is created with one minute of appends in hand. *)
FullBucket(t) == [appendTokens |-> Capacity, appendRefilledAt |-> t]

Elapsed(b, t) == IF t >= b.appendRefilledAt THEN t - b.appendRefilledAt ELSE 0

Available(b, t) ==
    LET refilled == b.appendTokens + Elapsed(b, t) * AppendRate
    IN  IF refilled < Capacity THEN refilled ELSE Capacity

MayAppend(b, t) == AppendRate = 0 \/ Available(b, t) >= Minute

(* Mutant of ConsumeAppend: the refill is not dated. *)
ConsumeUndated(b, t) ==
    IF AppendRate = 0 THEN b ELSE [b EXCEPT !.appendTokens = Available(b, t) - Minute]

(* A disabled limit leaves the stored bucket alone. *)
ConsumeAppend(b, t) ==
    IF AppendRate = 0
      THEN b
      ELSE [appendTokens |-> Available(b, t) - Minute, appendRefilledAt |-> t]
=============================================================================
