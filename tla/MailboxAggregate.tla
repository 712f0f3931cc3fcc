-------------------------- MODULE MailboxAggregate --------------------------
(***************************************************************************)
(* The Mailbox aggregate: one receiving queue, known only by its           *)
(* capabilities.  A bearer token and the SHA-256 hash stored for it are    *)
(* one model value: BearerCapability.verify accepts a token exactly for    *)
(* its own hash.                                                           *)
(***************************************************************************)
EXTENDS AppendBucket, FiniteSets, FiniteSetsExt

CONSTANTS Readers,        \* read capabilities (one per device, one root)
          Posts,          \* post capabilities
          EnvelopeIds,    \* sender-chosen deduplication keys
          Sizes,          \* MailboxPolicy.SIZE_BUCKETS
          MaxEnvelopes, MaxBytes, MaxReaders,
          Retention,      \* ticks an envelope, or an unread mailbox, is kept
          EvictionIdle    \* ticks unread before an empty mailbox may be evicted

ASSUME PolicyAssumption ==
    /\ Readers # {} /\ IsFiniteSet(Readers)
    /\ Posts # {}
    /\ Sizes \subseteq Nat \ {0}
    /\ {MaxEnvelopes, MaxBytes, MaxReaders, Retention, EvictionIdle} \subseteq Nat
    /\ MaxReaders > 0

Mailbox == [ postTokenHash : Posts,
             readers       : SUBSET Readers,
             acked         : [Readers -> Nat],   \* 0 outside readers
             nextCursor    : Nat,
             envelopeCount : Int,
             lastReadAt    : Nat,
             bucket        : Bucket ]

Envelope == [ envelopeId : EnvelopeIds, cursor : Nat, size : Sizes, storedAt : Nat ]

NewMailbox(post, reader, firstCursor, t) ==
    [ postTokenHash |-> post,
      readers       |-> {reader},
      acked         |-> [r \in Readers |-> 0],
      nextCursor    |-> firstCursor,
      envelopeCount |-> 0,
      lastReadAt    |-> t,
      bucket        |-> FullBucket(t) ]

HighestCursor(box) == box.nextCursor - 1

AcceptsPost(box, token) == box.postTokenHash = token
AcceptsRead(box, token) == token \in box.readers

MarkRead(box, t) == [box EXCEPT !.lastReadAt = t]

(* Mutant of Acknowledged: an acknowledgement of the future is taken.       *)
AcknowledgedUnbounded(acked, upTo, highest) == IF acked < upTo THEN upTo ELSE acked

(* A cursor moves forward only, and never past the newest envelope. *)
Acknowledged(acked, upTo, highest) ==
    LET bounded == IF upTo > highest THEN highest ELSE upTo
    IN  IF acked < bounded THEN bounded ELSE acked

Acknowledge(box, reader, upTo) ==
    [box EXCEPT !.acked[reader] = Acknowledged(@, upTo, HighestCursor(box))]

(* A new reader has acknowledged nothing, so it receives the backlog. *)
HasRoomForReader(box) == Cardinality(box.readers) < MaxReaders
AddReader(box, reader) ==
    [box EXCEPT !.readers = @ \cup {reader}, !.acked[reader] = 0]

IsLastReader(box, reader) == box.readers = {reader}
RemoveReader(box, reader) ==
    [box EXCEPT !.readers = @ \ {reader}, !.acked[reader] = 0]

(* Whether every reader has acknowledged past the cursor. *)
IsSettled(box, cursor) ==
    /\ box.readers # {}
    /\ \A r \in box.readers : cursor <= box.acked[r]

HasRoomFor(box, bytes, size) ==
    /\ box.envelopeCount + 1 <= MaxEnvelopes
    /\ bytes + size <= MaxBytes

(* The byte total is kept apart from the other fields: see Mailboxes. *)
ReserveEnvelope(box) ==
    [box EXCEPT !.nextCursor = @ + 1, !.envelopeCount = @ + 1]

SizeOf(envelopes) == MapThenSumSet(LAMBDA e : e.size, envelopes)

ReleaseEnvelopes(box, removed) ==
    [box EXCEPT !.envelopeCount = @ - Cardinality(removed)]

(* Mutants of IsIdleAndEmpty and EnvelopeExpired: a full mailbox is evicted; *)
(* an envelope goes one tick early.                                        *)
IsIdle(box, t) == box.lastReadAt + EvictionIdle <= t
EnvelopeExpiredEarly(e, t) == e.storedAt + Retention <= t + 1

IsExpired(box, t) == box.lastReadAt + Retention <= t
IsIdleAndEmpty(box, t) == /\ box.envelopeCount = 0
                          /\ box.lastReadAt + EvictionIdle <= t
EnvelopeExpired(e, t) == e.storedAt + Retention <= t
=============================================================================
