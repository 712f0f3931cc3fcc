---------------------------- MODULE MailboxesProof -----------------------------
(***************************************************************************)
(* The mailbox service keeps its types, writes only from fresh snapshots,   *)
(* never gives a cursor out twice and lets no reader skip an envelope;      *)
(* its counters and rows agree, no mailbox goes without a reason, and it    *)
(* implements MailboxQueue: for every number of mailboxes,                  *)
(* readers, workers and envelopes and every policy.  Hints go to readers,   *)
(* for every number of sockets, where nothing is evicted.  The append limit *)
(* holds in every window for every rate, and the difficulty of a creation   *)
(* rises with the count for every capacity.                                 *)
(***************************************************************************)
EXTENDS MailboxProperties, MailboxHints, AppendRate, CreationDifficulty, SumsProof

(* A box whose cursors are in order: acknowledged before what is next.      *)
InOrder(b) == \A r \in Readers : b.acked[r] < b.nextCursor

-----------------------------------------------------------------------------
(* The aggregate's operations keep the type of a mailbox.                  *)

LEMMA ConsumeAppendType ==
    ASSUME NEW b \in Bucket, NEW t \in Nat, MayAppend(b, t)
    PROVE  ConsumeAppend(b, t) \in Bucket
<1>1. CASE AppendRate = 0
  BY <1>1 DEF ConsumeAppend
<1>2. CASE AppendRate # 0
  <2>1. Capacity \in Nat
    BY AppendRateAssumption, SMT DEF Capacity
  <2>2. Elapsed(b, t) \in Nat
    BY SMT DEF Elapsed, Bucket
  <2>3. Elapsed(b, t) * AppendRate \in Nat
    BY <2>2, AppendRateAssumption, SMT
  <2>4. b.appendTokens \in 0 .. Capacity
    BY DEF Bucket
  <2>5. Available(b, t) \in 0 .. Capacity
    BY <2>1, <2>3, <2>4, SMT DEF Available
  <2>6. Available(b, t) - Minute \in 0 .. Capacity
    BY <1>2, <2>1, <2>5, AppendRateAssumption, SMT DEF MayAppend
  <2> QED
    BY <1>2, <2>6 DEF ConsumeAppend, Bucket
<1> QED
  BY <1>1, <1>2

LEMMA NewMailboxType ==
    ASSUME NEW p \in Posts, NEW r \in Readers, NEW c \in Nat, c > 0, NEW t \in Nat
    PROVE  /\ NewMailbox(p, r, c, t) \in Mailbox
           /\ NewMailbox(p, r, c, t).nextCursor = c
           /\ InOrder(NewMailbox(p, r, c, t))
<1>1. FullBucket(t) \in Bucket
  BY AppendRateAssumption, SMT DEF FullBucket, Bucket, Capacity
<1>2. NewMailbox(p, r, c, t) \in Mailbox
  BY <1>1 DEF NewMailbox, Mailbox
<1>3. \A x \in Readers : NewMailbox(p, r, c, t).acked[x] = 0
  BY DEF NewMailbox
<1>4. NewMailbox(p, r, c, t).nextCursor = c
  BY DEF NewMailbox
<1> QED
  BY <1>2, <1>3, <1>4, SMT DEF InOrder

LEMMA BlankType == Blank \in Mailbox /\ InOrder(Blank)
<1>1. PICK p \in Posts : p = CHOOSE x \in Posts : TRUE
  BY PolicyAssumption
<1>2. PICK r \in Readers : r = CHOOSE x \in Readers : TRUE
  BY PolicyAssumption
<1>3. Blank = [NewMailbox(p, r, 1, 0) EXCEPT !.readers = {}]
  BY <1>1, <1>2 DEF Blank
<1>4. NewMailbox(p, r, 1, 0) \in Mailbox /\ InOrder(NewMailbox(p, r, 1, 0))
  BY NewMailboxType, SMT
<1> QED
  BY <1>3, <1>4 DEF Mailbox, InOrder

LEMMA MarkReadType ==
    ASSUME NEW b \in Mailbox, NEW t \in Nat
    PROVE  /\ MarkRead(b, t) \in Mailbox
           /\ MarkRead(b, t).nextCursor = b.nextCursor
           /\ MarkRead(b, t).acked = b.acked
BY DEF MarkRead, Mailbox

LEMMA AcknowledgeType ==
    ASSUME NEW b \in Mailbox, InOrder(b), NEW r \in Readers, NEW upTo \in Nat
    PROVE  /\ Acknowledge(b, r, upTo) \in Mailbox
           /\ Acknowledge(b, r, upTo).nextCursor = b.nextCursor
           /\ InOrder(Acknowledge(b, r, upTo))
<1> DEFINE a == Acknowledged(b.acked[r], upTo, HighestCursor(b))
<1>1. b.acked \in [Readers -> Nat] /\ b.nextCursor \in Nat
  BY DEF Mailbox
<1>2. a \in Nat /\ a < b.nextCursor
  BY <1>1, SMT DEF Acknowledged, HighestCursor, InOrder
<1>3. Acknowledge(b, r, upTo) = [b EXCEPT !.acked = [@ EXCEPT ![r] = a]]
  BY <1>1 DEF Acknowledge, Mailbox
<1> HIDE DEF a
<1>4. /\ Acknowledge(b, r, upTo) \in Mailbox
      /\ Acknowledge(b, r, upTo).nextCursor = b.nextCursor
      /\ Acknowledge(b, r, upTo).acked = [b.acked EXCEPT ![r] = a]
  BY <1>1, <1>2, <1>3 DEF Mailbox
<1> QED
  BY <1>1, <1>2, <1>4 DEF InOrder

LEMMA ReadersType ==
    ASSUME NEW b \in Mailbox, InOrder(b), NEW r \in Readers
    PROVE  /\ AddReader(b, r) \in Mailbox /\ RemoveReader(b, r) \in Mailbox
           /\ AddReader(b, r).nextCursor = b.nextCursor
           /\ RemoveReader(b, r).nextCursor = b.nextCursor
           /\ InOrder(AddReader(b, r)) /\ InOrder(RemoveReader(b, r))
<1>1. b.acked \in [Readers -> Nat] /\ b.nextCursor \in Nat /\ b.readers \subseteq Readers
  BY DEF Mailbox
<1>2. /\ AddReader(b, r) \in Mailbox
      /\ AddReader(b, r).nextCursor = b.nextCursor
      /\ AddReader(b, r).acked = [b.acked EXCEPT ![r] = 0]
  BY <1>1 DEF AddReader, Mailbox
<1>3. /\ RemoveReader(b, r) \in Mailbox
      /\ RemoveReader(b, r).nextCursor = b.nextCursor
      /\ RemoveReader(b, r).acked = [b.acked EXCEPT ![r] = 0]
  BY <1>1 DEF RemoveReader, Mailbox
<1>4. 0 < b.nextCursor
  BY <1>1, SMT DEF InOrder
<1> QED
  BY <1>1, <1>2, <1>3, <1>4 DEF InOrder

LEMMA ReleaseType ==
    ASSUME NEW b \in Mailbox, NEW S, IsFiniteSet(S)
    PROVE  /\ ReleaseEnvelopes(b, S) \in Mailbox
           /\ ReleaseEnvelopes(b, S).nextCursor = b.nextCursor
           /\ ReleaseEnvelopes(b, S).acked = b.acked
<1>1. Cardinality(S) \in Nat
  BY FS_CardinalityType
<1> QED
  BY <1>1 DEF ReleaseEnvelopes, Mailbox

-----------------------------------------------------------------------------
(* The database batches keep the database in order.                        *)

DatabaseOK ==
    /\ live \subseteq Ids
    /\ box \in [Ids -> Mailbox]
    /\ \A id \in Ids : InOrder(box[id])
    /\ envelopes \in [Ids -> SUBSET Envelope]
    /\ \A id \in Ids : IsFiniteSet(envelopes[id])
    /\ dedupe \in [Ids -> [EnvelopeIds -> Nat]]
    /\ mailboxCount \in Int
    /\ retiredCursor \in Nat
    /\ issued \in [Ids -> Nat]
    /\ FreshCursors

LEMMA PutKeepsOrder ==
    ASSUME DatabaseOK, NEW id \in live, NEW b \in Mailbox, NEW n,
           b.nextCursor = box[id].nextCursor, InOrder(b),
           PutMailbox(id, b, n), retiredCursor' = retiredCursor, issued' = issued
    PROVE  /\ live' = live
           /\ box' \in [Ids -> Mailbox]
           /\ (\A i \in Ids : InOrder(box[i]))'
           /\ FreshCursors'
<1> USE DEF DatabaseOK, PutMailbox
<1>1. live' = live /\ id \in Ids
  OBVIOUS
<1>2. box' = [box EXCEPT ![id] = b]
  OBVIOUS
<1>3. box' \in [Ids -> Mailbox]
  BY <1>2
<1>4. \A i \in Ids : box'[i].nextCursor = box[i].nextCursor /\ InOrder(box'[i])
  BY <1>1, <1>2
<1>5. FreshCursors'
  BY <1>1, <1>4 DEF FreshCursors
<1> QED
  BY <1>1, <1>3, <1>4, <1>5

LEMMA SaveKeepsDatabase ==
    ASSUME DatabaseOK, NEW id \in live, NEW b \in Mailbox, NEW n,
           b.nextCursor = box[id].nextCursor, InOrder(b),
           SaveMailbox(id, b, n), issued' = issued
    PROVE  DatabaseOK'
<1>1. PutMailbox(id, b, n) /\ UNCHANGED <<envelopes, dedupe, mailboxCount, retiredCursor>>
  BY DEF SaveMailbox
<1>2. retiredCursor' = retiredCursor
  BY <1>1
<1>3. /\ live' = live /\ box' \in [Ids -> Mailbox]
      /\ (\A i \in Ids : InOrder(box[i]))' /\ FreshCursors'
  BY <1>1, <1>2, PutKeepsOrder
<1> QED
  BY <1>1, <1>3 DEF DatabaseOK

LEMMA WithoutRowsType ==
    ASSUME NEW rows \in [EnvelopeIds -> Nat], NEW S
    PROVE  WithoutRows(rows, S) \in [EnvelopeIds -> Nat]
BY DEF WithoutRows

LEMMA CommitRemovalKeepsDatabase ==
    ASSUME DatabaseOK, NEW id \in live, NEW b \in Mailbox, NEW n,
           NEW S \in SUBSET envelopes[id],
           b.nextCursor = box[id].nextCursor, InOrder(b),
           CommitRemoval(id, b, n, S), issued' = issued
    PROVE  DatabaseOK'
<1> DEFINE c == ReleaseEnvelopes(b, S)
           m == n - SizeOf(S)
<1>1. id \in Ids /\ IsFiniteSet(envelopes[id]) /\ IsFiniteSet(S)
  BY FS_Subset DEF DatabaseOK
<1>2. c \in Mailbox /\ c.nextCursor = b.nextCursor /\ c.acked = b.acked
  BY <1>1, ReleaseType
<1>3. InOrder(c)
  BY <1>2 DEF InOrder
<1>4. /\ PutMailbox(id, c, m)
      /\ envelopes' = [envelopes EXCEPT ![id] = {e \in @ : \A x \in S : x.cursor # e.cursor}]
      /\ dedupe' = [dedupe EXCEPT ![id] = WithoutRows(@, S)]
      /\ mailboxCount' = mailboxCount /\ retiredCursor' = retiredCursor
  BY DEF CommitRemoval
<1> HIDE DEF c, m
<1>5. /\ live' = live /\ box' \in [Ids -> Mailbox]
      /\ (\A i \in Ids : InOrder(box[i]))' /\ FreshCursors'
  BY <1>2, <1>3, <1>4, PutKeepsOrder
<1>6. dedupe' \in [Ids -> [EnvelopeIds -> Nat]]
  BY <1>1, <1>4, WithoutRowsType DEF DatabaseOK
<1>7. \A i \in Ids : envelopes'[i] \subseteq envelopes[i]
  BY <1>4 DEF DatabaseOK
<1>8. envelopes' \in [Ids -> SUBSET Envelope]
  BY <1>4, <1>7 DEF DatabaseOK
<1>9. \A i \in Ids : IsFiniteSet(envelopes'[i])
  BY <1>7, FS_Subset DEF DatabaseOK
<1> QED
  BY <1>4, <1>5, <1>6, <1>8, <1>9 DEF DatabaseOK

LEMMA CommitAppendKeepsDatabase ==
    ASSUME DatabaseOK, NEW id \in live, NEW b \in Mailbox, NEW n, NEW e \in Envelope,
           b.nextCursor = box[id].nextCursor + 1, InOrder(b),
           e.cursor = box[id].nextCursor,
           CommitAppend(id, b, n, e),
           issued' = [issued EXCEPT ![id] = IF e.cursor > @ THEN e.cursor ELSE @]
    PROVE  DatabaseOK'
<1> USE DEF DatabaseOK
<1>1. id \in Ids /\ live' = live /\ box' = [box EXCEPT ![id] = b]
  BY DEF CommitAppend, PutMailbox
<1>2. /\ envelopes' = [envelopes EXCEPT ![id] = {x \in @ : x.cursor # e.cursor} \cup {e}]
      /\ dedupe' = [dedupe EXCEPT ![id][e.envelopeId] = e.cursor]
      /\ mailboxCount' = mailboxCount /\ retiredCursor' = retiredCursor
  BY DEF CommitAppend
<1>3. e.cursor \in Nat /\ e.envelopeId \in EnvelopeIds
  BY DEF Envelope
<1>4. box' \in [Ids -> Mailbox] /\ \A i \in Ids : InOrder(box'[i])
  BY <1>1
<1>5. envelopes' \in [Ids -> SUBSET Envelope]
  BY <1>1, <1>2
<1>6. \A i \in Ids : IsFiniteSet(envelopes'[i])
  <2>1. IsFiniteSet({x \in envelopes[id] : x.cursor # e.cursor})
    BY <1>1, FS_Subset
  <2>2. IsFiniteSet({x \in envelopes[id] : x.cursor # e.cursor} \cup {e})
    BY <2>1, FS_AddElement
  <2> QED
    BY <1>1, <1>2, <2>2
<1>7. dedupe' \in [Ids -> [EnvelopeIds -> Nat]]
  BY <1>1, <1>2, <1>3
<1>8. issued' \in [Ids -> Nat]
  BY <1>1, <1>3
<1>9. FreshCursors'
  <2>1. issued[id] < box[id].nextCursor /\ box[id].nextCursor \in Nat /\ issued[id] \in Nat
    BY <1>1 DEF FreshCursors, Mailbox
  <2>2. issued'[id] < box'[id].nextCursor
    BY <1>1, <2>1, SMT
  <2>3. \A i \in Ids \ {id} : issued'[i] = issued[i] /\ box'[i] = box[i]
    BY <1>1
  <2> QED
    BY <1>1, <1>2, <2>2, <2>3 DEF FreshCursors
<1> QED
  BY <1>1, <1>2, <1>4, <1>5, <1>6, <1>7, <1>8, <1>9

LEMMA CreateKeepsDatabase ==
    ASSUME DatabaseOK, NEW id \in Ids, id \notin live, NEW b \in Mailbox,
           b.nextCursor = FirstCursor, InOrder(b),
           CreateMailbox(id, b), issued' = issued
    PROVE  DatabaseOK'
<1> USE DEF DatabaseOK
<1>1. /\ live' = live \cup {id} /\ box' = [box EXCEPT ![id] = b]
      /\ mailboxCount' = mailboxCount + 1
      /\ envelopes' = envelopes /\ dedupe' = dedupe /\ retiredCursor' = retiredCursor
  BY DEF CreateMailbox, PutMailbox
<1>2. box' \in [Ids -> Mailbox] /\ \A i \in Ids : InOrder(box'[i])
  BY <1>1
<1>3. mailboxCount' \in Int
  BY <1>1, SMT
<1>4. FreshCursors'
  <2>1. issued[id] <= retiredCursor /\ issued[id] \in Nat
    BY DEF FreshCursors
  <2>2. issued'[id] < box'[id].nextCursor
    BY <1>1, <2>1, SMT DEF FirstCursor
  <2> QED
    BY <1>1, <2>2 DEF FreshCursors
<1> QED
  BY <1>1, <1>2, <1>3, <1>4

LEMMA RemoveKeepsDatabase ==
    ASSUME DatabaseOK, NEW id \in Ids, RemoveMailbox(id), issued' = issued
    PROVE  DatabaseOK'
<1> USE DEF DatabaseOK
<1>1. /\ live' = live \ {id} /\ box' = [box EXCEPT ![id] = Blank]
      /\ envelopes' = [envelopes EXCEPT ![id] = {}]
      /\ dedupe' = [dedupe EXCEPT ![id] = WithoutRows(@, envelopes[id])]
      /\ mailboxCount' = IF id \in live THEN mailboxCount - 1 ELSE mailboxCount
      /\ retiredCursor' = Floor(id)
  BY DEF RemoveMailbox
<1>2. box' \in [Ids -> Mailbox] /\ \A i \in Ids : InOrder(box'[i])
  BY <1>1, BlankType
<1>3. envelopes' \in [Ids -> SUBSET Envelope] /\ \A i \in Ids : IsFiniteSet(envelopes'[i])
  BY <1>1, FS_EmptySet
<1>4. dedupe' \in [Ids -> [EnvelopeIds -> Nat]]
  BY <1>1, WithoutRowsType
<1>5. mailboxCount' \in Int
  BY <1>1, SMT
<1>6. box[id].nextCursor \in Nat /\ issued[id] \in Nat
  BY DEF Mailbox
<1>7. /\ retiredCursor' \in Nat /\ retiredCursor <= retiredCursor'
      /\ issued[id] <= retiredCursor'
  BY <1>1, <1>6, SMT DEF Floor, HighestCursor, FreshCursors
<1>8. FreshCursors'
  <2> SUFFICES ASSUME NEW i \in Ids
               PROVE  IF i \in live' THEN issued[i] < box'[i].nextCursor
                                     ELSE issued[i] <= retiredCursor'
    BY DEF FreshCursors
  <2>1. CASE i = id
    BY <1>1, <1>7, <2>1
  <2>2. CASE i # id
    <3>1. issued[i] \in Nat /\ box'[i] = box[i] /\ (i \in live' <=> i \in live)
      BY <1>1, <2>2
    <3> QED
      BY <1>7, <3>1, SMT DEF FreshCursors
  <2> QED
    BY <2>1, <2>2
<1> QED
  BY <1>1, <1>2, <1>3, <1>4, <1>5, <1>7, <1>8

-----------------------------------------------------------------------------
(* The handlers in flight.                                                 *)

JobsOK ==
    /\ inflight = [w \in Workers |-> inflight[w]]
    /\ \A w \in Workers : JobOK(inflight[w])
    /\ OneHandlerAtATime

WorldOK ==
    /\ sweep \in [at : 0 .. now, left : SUBSET Ids]
    /\ maxMailboxes \in Limits
    /\ now \in 0 .. MaxTime
    /\ faults \in Nat
    /\ position \in [Readers -> [Ids -> Nat]]
    /\ delivered \in [Readers -> [Ids -> SUBSET Nat]]

Inv == DatabaseOK /\ JobsOK /\ WorldOK

LEMMA RequestTypes ==
    ASSUME NEW req \in Requests
    PROVE  /\ req.id \in Ids
           /\ req.op = "create" => req.post \in Posts /\ req.reader \in Readers
           /\ req.op = "append" => /\ req.post \in Posts
                                   /\ req.envelope \in EnvelopeIds /\ req.size \in Sizes
           /\ req.op = "read" => req.reader \in Readers
           /\ req.op = "acknowledge" => req.reader \in Readers /\ req.upTo \in Nat
           /\ req.op \in {"addReader", "revokeReader"} => req.target \in Readers
           /\ req.op = "expire" => req.at \in Nat
BY ServiceAssumption, SMT DEF Requests

LEMMA SnapshotFields ==
    ASSUME NEW id
    PROVE  /\ Snapshot(id).exists <=> id \in live
           /\ Snapshot(id).box = box[id] /\ Snapshot(id).envelopes = envelopes[id]
           /\ Snapshot(id).dedupe = dedupe[id] /\ Snapshot(id).bytes = bytes[id]
BY Zenon DEF Snapshot

LEMMA LoadedJob ==
    ASSUME NEW j, JobOK(j), j.phase = "loaded"
    PROVE  /\ j.req \in Requests /\ j.req.id \in Ids
           /\ j.snap = Snapshot(j.req.id)
<1>1. j.req \in Requests /\ j = [phase |-> "loaded", req |-> j.req, snap |-> Snapshot(j.req.id)]
  BY DEF JobOK, Idle, EvictingJobs, DoneJobs
<1> QED
  BY <1>1, RequestTypes

LEMMA EvictingJob ==
    ASSUME NEW j, JobOK(j), j.phase = "evicting"
    PROVE  /\ j \in EvictingJobs /\ j.req \in Requests
           /\ j.req.op = "create" /\ j.req.id \in Ids \ live
<1>1. j \in EvictingJobs /\ j.req.op = "create" /\ j.req.id \notin live
  BY DEF JobOK, Idle, EvictingJobs, DoneJobs
<1> QED
  BY <1>1, RequestTypes DEF EvictingJobs

LEMMA DoneJob ==
    ASSUME NEW j, JobOK(j), j.phase = "done"
    PROVE  /\ j \in DoneJobs /\ j.req \in Requests /\ j.req.id \in Ids
           /\ j.page # {} => j.req.op = "read" /\ j.req.reader \in Readers
<1>1. j \in DoneJobs /\ (j.page # {} => j.req.op = "read")
  BY DEF JobOK, Idle, EvictingJobs, DoneJobs
<1> QED
  BY <1>1, RequestTypes DEF DoneJobs

(* The running handler moves on; everybody else is idle.                    *)
LEMMA MovesOn ==
    ASSUME JobsOK, NEW w \in Workers, inflight[w] # Idle \/ CoordinatorFree,
           NEW j, inflight' = [inflight EXCEPT ![w] = j], JobOK(j)'
    PROVE  JobsOK'
<1>1. inflight'[w] = j /\ \A v \in Workers \ {w} : inflight[v] = Idle /\ inflight'[v] = Idle
  BY DEF JobsOK, OneHandlerAtATime, CoordinatorFree
<1>2. (inflight = [v \in Workers |-> inflight[v]])'
  BY DEF JobsOK
<1>3. (\A v \in Workers : JobOK(inflight[v]))'
  <2> SUFFICES ASSUME NEW v \in Workers PROVE JobOK(inflight[v])'
    OBVIOUS
  <2>1. CASE v = w
    BY <1>1, <2>1 DEF JobOK
  <2>2. CASE v # w
    BY <1>1, <2>2 DEF JobOK
  <2> QED
    BY <2>1, <2>2
<1>4. OneHandlerAtATime'
  BY <1>1 DEF OneHandlerAtATime
<1> QED
  BY <1>2, <1>3, <1>4 DEF JobsOK

LEMMA AnswerMovesOn ==
    ASSUME JobsOK, NEW w \in Workers, inflight[w] # Idle, inflight[w].req \in Requests,
           NEW o \in Outcomes, NEW page \in SUBSET Nat, Answer(w, o, page),
           page # {} => inflight[w].req.op = "read"
    PROVE  JobsOK'
<1>0. PICK j : j = [phase |-> "done", req |-> inflight[w].req, outcome |-> o, page |-> page]
  OBVIOUS
<1>1. inflight' = [inflight EXCEPT ![w] = j]
  BY <1>0 DEF Answer
<1>2. j \in DoneJobs /\ (j.page # {} => j.req.op = "read")
  BY <1>0 DEF DoneJobs
<1>3. JobOK(j)'
  BY <1>2 DEF JobOK
<1> QED
  BY <1>1, <1>3, MovesOn

-----------------------------------------------------------------------------
(* Every step keeps the invariant.                                         *)

LEMMA WorldStays ==
    ASSUME WorldOK, UNCHANGED <<maxMailboxes, now, faults, clients>>,
           \/ sweep' = sweep
           \/ \E w \in Workers : SweepDone(w)
    PROVE  WorldOK'
<1>1. sweep' \in [at : 0 .. now, left : SUBSET Ids]
  BY DEF WorldOK, SweepDone
<1> QED
  BY <1>1 DEF WorldOK, clients

LEMMA StartKeepsInv ==
    ASSUME Inv, NEW w \in Workers, NEW req \in Requests, Start(w, req)
    PROVE  Inv'
<1>0. PICK j : j = [phase |-> "loaded", req |-> req, snap |-> Snapshot(req.id)]
  OBVIOUS
<1>1. inflight' = [inflight EXCEPT ![w] = j] /\ CoordinatorFree
  BY <1>0 DEF Start
<1>2. UNCHANGED <<database, issued>> /\ UNCHANGED <<sweep, maxMailboxes, now, faults, clients>>
  BY DEF Start, world
<1>3. Snapshot(req.id)' = Snapshot(req.id)
  BY <1>2 DEF Snapshot, database
<1>4. JobOK(j)'
  BY <1>0, <1>3 DEF JobOK
<1>5. JobsOK'
  BY <1>1, <1>4, MovesOn DEF Inv
<1>6. WorldOK'
  BY <1>2, WorldStays DEF Inv
<1>7. DatabaseOK'
  BY <1>2 DEF Inv, DatabaseOK, database, FreshCursors
<1> QED
  BY <1>5, <1>6, <1>7 DEF Inv

LEMMA StartSweepKeepsInv ==
    ASSUME Inv, StartSweep
    PROVE  Inv'
<1>1. UNCHANGED <<database, inflight, maxMailboxes, now, faults, issued, clients>>
  BY DEF StartSweep, world
<1>2. sweep' = [at |-> now, left |-> live]
  BY DEF StartSweep
<1>3. sweep' \in [at : 0 .. now, left : SUBSET Ids]
  BY <1>2, ServiceAssumption, SMT DEF Inv, WorldOK, DatabaseOK
<1>4. WorldOK'
  BY <1>1, <1>3 DEF Inv, WorldOK, clients
<1>5. DatabaseOK' /\ JobsOK'
  BY <1>1 DEF Inv, DatabaseOK, database, FreshCursors, JobsOK, JobOK, Snapshot, OneHandlerAtATime
<1> QED
  BY <1>4, <1>5 DEF Inv

LEMMA SelectVictimsKeepsInv ==
    ASSUME Inv, NEW w \in Workers, SelectVictims(w)
    PROVE  Inv'
<1> USE DEF Inv
<1>1. /\ inflight[w].phase = "loaded" /\ inflight[w].req.op = "create"
      /\ ~inflight[w].snap.exists /\ inflight[w] # Idle
      /\ UNCHANGED <<database, issued>> /\ UNCHANGED <<sweep, maxMailboxes, now, faults, clients>>
  BY DEF SelectVictims, Loaded, world, Idle
<1>2. PICK V \in VictimSets(SlotsNeeded) : inflight' = [inflight EXCEPT ![w] =
              [phase |-> "evicting", req |-> inflight[w].req, victims |-> V, at |-> now]]
  BY DEF SelectVictims
<1>3. PICK j : j = [phase |-> "evicting", req |-> inflight[w].req, victims |-> V, at |-> now]
  OBVIOUS
<1>4. inflight[w].req \in Requests /\ inflight[w].snap = Snapshot(inflight[w].req.id)
  BY <1>1, LoadedJob DEF JobsOK
<1>5. inflight[w].req.id \notin live
  BY <1>1, <1>4, SnapshotFields, Zenon
<1>6. V \subseteq Ids /\ now \in Nat
  BY ServiceAssumption, SMT DEF VictimSets, EvictionCandidates, DatabaseOK, WorldOK
<1>7. j \in EvictingJobs /\ j.req.op = "create" /\ j.req.id \notin live'
  BY <1>1, <1>3, <1>4, <1>5, <1>6 DEF EvictingJobs, database
<1>8. JobOK(j)'
  BY <1>7 DEF JobOK
<1>9. JobsOK'
  BY <1>1, <1>2, <1>3, <1>8, MovesOn
<1>10. WorldOK'
  BY <1>1, WorldStays
<1>11. DatabaseOK'
  BY <1>1 DEF DatabaseOK, database, FreshCursors
<1> QED
  BY <1>9, <1>10, <1>11

LEMMA EvictKeepsInv ==
    ASSUME Inv, NEW w \in Workers, Evict(w)
    PROVE  Inv'
<1> USE DEF Inv
<1>1. /\ inflight[w].phase = "evicting" /\ inflight[w] # Idle
      /\ UNCHANGED <<sweep, maxMailboxes, now, faults, issued, clients>>
  BY DEF Evict, world, Idle
<1>2. PICK v \in inflight[w].victims :
          RemoveMailbox(v) /\ inflight' = [inflight EXCEPT ![w].victims = @ \ {v}]
  BY DEF Evict
<1>3. /\ inflight[w] \in EvictingJobs
      /\ inflight[w].req.op = "create" /\ inflight[w].req.id \notin live
  BY <1>1, EvictingJob DEF JobsOK
<1>4. v \in Ids
  BY <1>3 DEF EvictingJobs
<1>5. DatabaseOK'
  BY <1>1, <1>2, <1>4, RemoveKeepsDatabase
<1>6. PICK j : j = [inflight[w] EXCEPT !.victims = @ \ {v}]
  OBVIOUS
<1>7. inflight' = [inflight EXCEPT ![w] = j]
  BY <1>2, <1>6 DEF JobsOK
<1>8. j \in EvictingJobs /\ j.req = inflight[w].req
  BY <1>3, <1>6 DEF EvictingJobs
<1>9. live' \subseteq live
  BY <1>2 DEF RemoveMailbox
<1>10. JobOK(j)'
  BY <1>3, <1>8, <1>9 DEF JobOK
<1>11. JobsOK'
  BY <1>1, <1>7, <1>10, MovesOn
<1>12. WorldOK'
  BY <1>1, WorldStays
<1> QED
  BY <1>5, <1>11, <1>12

LEMMA CreateKeepsInv ==
    ASSUME Inv, NEW w \in Workers, Create(w)
    PROVE  Inv'
<1> USE DEF Inv
<1> DEFINE req == inflight[w].req
           b == NewMailbox(req.post, req.reader, FirstCursor, inflight[w].at)
<1>1. /\ inflight[w].phase = "evicting" /\ inflight[w] # Idle
      /\ CreateMailbox(req.id, b)
      /\ Answer(w, "created", {})
      /\ UNCHANGED <<sweep, maxMailboxes, now, faults, issued, clients>>
  BY DEF Create, world, Idle, Done
<1>2. /\ req \in Requests /\ req.op = "create"
      /\ req.id \in Ids /\ req.id \notin live /\ inflight[w].at \in Nat
  BY <1>1, EvictingJob DEF JobsOK, EvictingJobs
<1>3. FirstCursor \in Nat /\ FirstCursor > 0
  BY SMT DEF FirstCursor, DatabaseOK
<1>4. b \in Mailbox /\ b.nextCursor = FirstCursor /\ InOrder(b)
  BY <1>2, <1>3, RequestTypes, NewMailboxType
<1> HIDE DEF b
<1>5. DatabaseOK'
  BY <1>1, <1>2, <1>4, CreateKeepsDatabase
<1>6. JobsOK'
  BY <1>1, <1>2, AnswerMovesOn DEF Outcomes
<1>7. WorldOK'
  BY <1>1, WorldStays
<1> QED
  BY <1>5, <1>6, <1>7

(* What a loaded handler that finds its mailbox knows about it.             *)
LEMMA FoundMailbox ==
    ASSUME Inv, NEW w \in Workers, inflight[w].phase = "loaded"
    PROVE  /\ inflight[w] # Idle /\ inflight[w].req \in Requests
           /\ inflight[w].snap.box = box[inflight[w].req.id]
           /\ inflight[w].snap.envelopes = envelopes[inflight[w].req.id]
           /\ inflight[w].snap.exists <=> inflight[w].req.id \in live
           /\ inflight[w].req.id \in Ids
           /\ inflight[w].snap.box \in Mailbox /\ InOrder(inflight[w].snap.box)
<1>1. inflight[w].req \in Requests /\ inflight[w].snap = Snapshot(inflight[w].req.id)
  BY LoadedJob DEF Inv, JobsOK
<1>2. inflight[w].req.id \in Ids /\ inflight[w] # Idle
  BY <1>1, RequestTypes DEF Idle
<1>3. /\ inflight[w].snap.exists <=> inflight[w].req.id \in live
      /\ inflight[w].snap.box = box[inflight[w].req.id]
      /\ inflight[w].snap.envelopes = envelopes[inflight[w].req.id]
  BY <1>1, SnapshotFields, Zenon
<1>4. box[inflight[w].req.id] \in Mailbox /\ InOrder(box[inflight[w].req.id])
  BY <1>2 DEF Inv, DatabaseOK
<1> QED
  BY <1>1, <1>2, <1>3, <1>4, Zenon

(* The document that an append writes, whatever its bucket becomes.         *)
LEMMA ReservedType ==
    ASSUME NEW old \in Mailbox, NEW charged \in Bucket, InOrder(old)
    PROVE  LET b == [ReserveEnvelope(old) EXCEPT !.bucket = charged]
           IN  b \in Mailbox /\ b.nextCursor = old.nextCursor + 1 /\ InOrder(b)
<1> DEFINE b == [ReserveEnvelope(old) EXCEPT !.bucket = charged]
<1>1. old.nextCursor + 1 \in Nat /\ old.envelopeCount + 1 \in Int
  BY SMT DEF Mailbox
<1>2. b = [old EXCEPT !.nextCursor = @ + 1, !.envelopeCount = @ + 1, !.bucket = charged]
  BY DEF Mailbox, ReserveEnvelope
<1>3. b \in Mailbox /\ b.nextCursor = old.nextCursor + 1 /\ b.acked = old.acked
  BY <1>1, <1>2 DEF Mailbox
<1> HIDE DEF b
<1>4. \A r \in Readers : old.acked[r] \in Nat /\ old.acked[r] < old.nextCursor
  BY DEF Mailbox, InOrder
<1>5. old.nextCursor \in Nat
  BY DEF Mailbox
<1>6. InOrder(b)
  BY <1>3, <1>4, <1>5 DEF InOrder
<1> QED
  BY <1>3, <1>6 DEF b

LEMMA AppendKeepsInv ==
    ASSUME Inv, NEW w \in Workers, Append(w)
    PROVE  Inv'
<1> USE DEF Inv
<1> DEFINE req == inflight[w].req
           old == inflight[w].snap.box
           b == [ReserveEnvelope(old) EXCEPT !.bucket = ConsumeAppend(@, now)]
           e == [envelopeId |-> req.envelope, cursor |-> old.nextCursor,
                 size |-> req.size, storedAt |-> now]
           n == inflight[w].snap.bytes + req.size
<1>1. /\ inflight[w].phase = "loaded" /\ req.op = "append" /\ AppendAllowed(w)
      /\ CommitAppend(req.id, b, n, e)
      /\ issued' = [issued EXCEPT ![req.id] = IF e.cursor > @ THEN e.cursor ELSE @]
      /\ Answer(w, "appended", {})
      /\ UNCHANGED <<sweep, maxMailboxes, now, faults, clients>>
  BY DEF Append, Loaded, Done
<1>2. /\ req \in Requests /\ inflight[w] # Idle /\ req.id \in live /\ old = box[req.id]
      /\ old \in Mailbox /\ InOrder(old) /\ MayAppend(old.bucket, now)
  BY <1>1, FoundMailbox DEF AppendAllowed
<1>3. now \in Nat /\ old.bucket \in Bucket /\ old.nextCursor \in Nat /\ old.envelopeCount \in Int
  BY <1>2, ServiceAssumption, SMT DEF Mailbox, WorldOK
<1>4. ConsumeAppend(old.bucket, now) \in Bucket
  BY <1>2, <1>3, ConsumeAppendType
<1>5. b \in Mailbox /\ b.nextCursor = old.nextCursor + 1 /\ InOrder(b)
  <2> DEFINE charged == ConsumeAppend(old.bucket, now)
  <2>1. b = [ReserveEnvelope(old) EXCEPT !.bucket = charged]
    BY DEF ReserveEnvelope
  <2>2. old \in Mailbox /\ InOrder(old) /\ charged \in Bucket
    BY <1>2, <1>4
  <2> HIDE DEF charged, b, req, old, Inv
  <2> QED
    BY ONLY <2>1, <2>2, ReservedType, Zenon
<1>6. e \in Envelope /\ e.cursor = old.nextCursor
  <2>1. req.envelope \in EnvelopeIds /\ req.size \in Sizes
    BY <1>1, <1>2, RequestTypes
  <2> QED
    BY <1>3, <2>1, SMTT(40) DEF Envelope
<1> HIDE DEF b, e, n
<1>9. DatabaseOK'
  BY <1>1, <1>2, <1>5, <1>6, CommitAppendKeepsDatabase
<1>10. JobsOK'
  BY <1>1, <1>2, AnswerMovesOn DEF Outcomes
<1>11. WorldOK'
  BY <1>1, WorldStays
<1> QED
  BY <1>9, <1>10, <1>11

LEMMA ReadKeepsInv ==
    ASSUME Inv, NEW w \in Workers, Read(w)
    PROVE  Inv'
<1> USE DEF Inv
<1> DEFINE req == inflight[w].req
           old == inflight[w].snap.box
           page == Page(inflight[w].snap.envelopes, req.after, req.limit)
           cursors == {e.cursor : e \in page}
<1>1. /\ inflight[w].phase = "loaded" /\ req.op = "read" /\ Authorised(w)
      /\ SaveMailbox(req.id, MarkRead(old, now), inflight[w].snap.bytes)
      /\ Answer(w, "read", cursors)
      /\ UNCHANGED <<sweep, maxMailboxes, now, faults, issued, clients>>
  BY DEF Read, Loaded, world
<1>2. /\ req \in Requests /\ inflight[w] # Idle /\ req.id \in live /\ old = box[req.id]
      /\ old \in Mailbox /\ InOrder(old) /\ inflight[w].snap.envelopes = envelopes[req.id]
  BY <1>1, FoundMailbox DEF Authorised
<1>3. /\ MarkRead(old, now) \in Mailbox /\ MarkRead(old, now).nextCursor = old.nextCursor
      /\ InOrder(MarkRead(old, now))
  <2>1. now \in Nat
    BY ServiceAssumption, SMT DEF WorldOK
  <2> QED
    BY <1>2, <2>1, MarkReadType DEF InOrder
<1>4. cursors \in SUBSET Nat
  <2>1. page \subseteq Envelope
    BY <1>2 DEF Page, DatabaseOK
  <2> QED
    BY <2>1 DEF Envelope
<1> HIDE DEF cursors
<1>5. DatabaseOK'
  BY <1>1, <1>2, <1>3, SaveKeepsDatabase
<1>6. JobsOK'
  BY <1>1, <1>2, <1>4, AnswerMovesOn DEF Outcomes
<1>7. WorldOK'
  BY <1>1, WorldStays
<1> QED
  BY <1>5, <1>6, <1>7

LEMMA AcknowledgeKeepsInv ==
    ASSUME Inv, NEW w \in Workers, AcknowledgeUpTo(w)
    PROVE  Inv'
<1> USE DEF Inv
<1> DEFINE req == inflight[w].req
           snap == inflight[w].snap
           b == MarkRead(Acknowledge(snap.box, req.reader, req.upTo), now)
           S == Settled(b, snap.envelopes)
<1>1. /\ inflight[w].phase = "loaded" /\ req.op = "acknowledge" /\ Authorised(w)
      /\ CommitRemoval(req.id, b, snap.bytes, S)
      /\ Answer(w, "acknowledged", {})
      /\ UNCHANGED <<sweep, maxMailboxes, now, faults, issued, clients>>
  BY DEF AcknowledgeUpTo, Loaded, world, Done
<1>2. /\ req \in Requests /\ inflight[w] # Idle /\ req.id \in live /\ snap.box = box[req.id]
      /\ snap.box \in Mailbox /\ InOrder(snap.box) /\ snap.envelopes = envelopes[req.id]
  BY <1>1, FoundMailbox DEF Authorised
<1>3. b \in Mailbox /\ b.nextCursor = snap.box.nextCursor /\ InOrder(b)
  <2>1. now \in Nat
    BY ServiceAssumption, SMT DEF WorldOK
  <2>2. req.reader \in Readers /\ req.upTo \in Nat
    BY <1>1, <1>2, RequestTypes
  <2>3. PICK a : a = Acknowledge(snap.box, req.reader, req.upTo)
    OBVIOUS
  <2>4. a \in Mailbox /\ a.nextCursor = snap.box.nextCursor /\ InOrder(a)
    BY <1>2, <2>2, <2>3, AcknowledgeType
  <2> QED
    BY <2>1, <2>3, <2>4, MarkReadType DEF InOrder
<1>4. S \in SUBSET envelopes[req.id]
  BY <1>2 DEF Settled
<1> HIDE DEF b, S
<1>5. DatabaseOK'
  BY <1>1, <1>2, <1>3, <1>4, CommitRemovalKeepsDatabase
<1>6. JobsOK'
  BY <1>1, <1>2, AnswerMovesOn DEF Outcomes
<1>7. WorldOK'
  BY <1>1, WorldStays
<1> QED
  BY <1>5, <1>6, <1>7

LEMMA AddReaderKeepsInv ==
    ASSUME Inv, NEW w \in Workers, AddReaderTo(w)
    PROVE  Inv'
<1> USE DEF Inv
<1> DEFINE req == inflight[w].req
           snap == inflight[w].snap
           a == IF req.target \in snap.box.readers THEN snap.box
                                                   ELSE AddReader(snap.box, req.target)
           b == MarkRead(a, now)
<1>1. /\ inflight[w].phase = "loaded" /\ req.op = "addReader" /\ Authorised(w)
      /\ SaveMailbox(req.id, b, snap.bytes)
      /\ Answer(w, "added", {})
      /\ UNCHANGED <<sweep, maxMailboxes, now, faults, issued, clients>>
  BY DEF AddReaderTo, Loaded, world, Done
<1>2. /\ req \in Requests /\ inflight[w] # Idle /\ req.id \in live /\ snap.box = box[req.id]
      /\ snap.box \in Mailbox /\ InOrder(snap.box)
  BY <1>1, FoundMailbox DEF Authorised
<1>3. b \in Mailbox /\ b.nextCursor = snap.box.nextCursor /\ InOrder(b)
  <2>1. now \in Nat
    BY ServiceAssumption, SMT DEF WorldOK
  <2>2. req.target \in Readers
    BY <1>1, <1>2, RequestTypes
  <2>3. a \in Mailbox /\ a.nextCursor = snap.box.nextCursor /\ InOrder(a)
    BY <1>2, <2>2, ReadersType
  <2> HIDE DEF a
  <2> QED
    BY <2>1, <2>3, MarkReadType DEF InOrder
<1> HIDE DEF b
<1>4. DatabaseOK'
  BY <1>1, <1>2, <1>3, SaveKeepsDatabase
<1>5. JobsOK'
  BY <1>1, <1>2, AnswerMovesOn DEF Outcomes
<1>6. WorldOK'
  BY <1>1, WorldStays
<1> QED
  BY <1>4, <1>5, <1>6

LEMMA RevokeReaderKeepsInv ==
    ASSUME Inv, NEW w \in Workers, RevokeReader(w)
    PROVE  Inv'
<1> USE DEF Inv
<1> DEFINE req == inflight[w].req
           snap == inflight[w].snap
           b == RemoveReader(snap.box, req.target)
           S == Settled(b, snap.envelopes)
<1>1. /\ inflight[w].phase = "loaded" /\ req.op = "revokeReader" /\ Authorised(w)
      /\ CommitRemoval(req.id, b, snap.bytes, S)
      /\ Answer(w, "revoked", {})
      /\ UNCHANGED <<sweep, maxMailboxes, now, faults, issued, clients>>
  BY DEF RevokeReader, Loaded, world, Done
<1>2. /\ req \in Requests /\ inflight[w] # Idle /\ req.id \in live /\ snap.box = box[req.id]
      /\ snap.box \in Mailbox /\ InOrder(snap.box) /\ snap.envelopes = envelopes[req.id]
  BY <1>1, FoundMailbox DEF Authorised
<1>3. b \in Mailbox /\ b.nextCursor = snap.box.nextCursor /\ InOrder(b)
  BY <1>1, <1>2, RequestTypes, ReadersType
<1>4. S \in SUBSET envelopes[req.id]
  BY <1>2 DEF Settled
<1> HIDE DEF b, S
<1>5. DatabaseOK'
  BY <1>1, <1>2, <1>3, <1>4, CommitRemovalKeepsDatabase
<1>6. JobsOK'
  BY <1>1, <1>2, AnswerMovesOn DEF Outcomes
<1>7. WorldOK'
  BY <1>1, WorldStays
<1> QED
  BY <1>5, <1>6, <1>7

LEMMA RemovalsKeepInv ==
    ASSUME Inv, NEW w \in Workers, Remove(w) \/ ExpireMailbox(w)
    PROVE  Inv'
<1> USE DEF Inv
<1>1. /\ inflight[w].phase = "loaded" /\ RemoveMailbox(inflight[w].req.id)
      /\ Answer(w, "removed", {})
      /\ sweep' = sweep \/ SweepDone(w)
      /\ UNCHANGED <<maxMailboxes, now, faults, issued, clients>>
  BY DEF Remove, ExpireMailbox, Loaded, world, Done
<1>2. inflight[w].req \in Requests /\ inflight[w] # Idle /\ inflight[w].req.id \in Ids
  BY <1>1, FoundMailbox
<1>3. DatabaseOK'
  BY <1>1, <1>2, RemoveKeepsDatabase
<1>4. JobsOK'
  BY <1>1, <1>2, AnswerMovesOn DEF Outcomes
<1>5. WorldOK'
  BY <1>1, WorldStays
<1> QED
  BY <1>3, <1>4, <1>5

LEMMA ExpireEnvelopesKeepsInv ==
    ASSUME Inv, NEW w \in Workers, ExpireEnvelopes(w)
    PROVE  Inv'
<1> USE DEF Inv
<1> DEFINE req == inflight[w].req
           snap == inflight[w].snap
           S == {e \in snap.envelopes : EnvelopeExpired(e, req.at)}
<1>1. /\ inflight[w].phase = "loaded" /\ snap.exists
      /\ CommitRemoval(req.id, snap.box, snap.bytes, S)
      /\ Answer(w, "expired", {})
      /\ SweepDone(w)
      /\ UNCHANGED <<maxMailboxes, now, faults, issued, clients>>
  BY DEF ExpireEnvelopes, Loaded, world, Done
<1>2. /\ req \in Requests /\ inflight[w] # Idle /\ req.id \in live /\ snap.box = box[req.id]
      /\ snap.box \in Mailbox /\ InOrder(snap.box) /\ S \in SUBSET envelopes[req.id]
  BY <1>1, FoundMailbox
<1> HIDE DEF S
<1>3. DatabaseOK'
  BY <1>1, <1>2, CommitRemovalKeepsDatabase
<1>4. JobsOK'
  BY <1>1, <1>2, AnswerMovesOn DEF Outcomes
<1>5. WorldOK'
  BY <1>1, WorldStays
<1> QED
  BY <1>3, <1>4, <1>5

LEMMA RefusalsKeepInv ==
    ASSUME Inv, NEW w \in Workers, EndWithoutWrite(w) \/ Fail(w)
    PROVE  Inv'
<1> USE DEF Inv
<1>1. /\ inflight[w].phase \in {"loaded", "evicting"}
      /\ Answer(w, "nothing", {})
      /\ UNCHANGED <<database, issued>> /\ UNCHANGED <<maxMailboxes, now, clients>>
      /\ sweep' = sweep \/ SweepDone(w)
      /\ faults' \in {faults, faults + 1}
  BY DEF EndWithoutWrite, Fail, Done, world
<1>2. inflight[w].req \in Requests /\ inflight[w] # Idle
  BY <1>1, FoundMailbox, EvictingJob DEF JobsOK, Idle
<1>3. DatabaseOK'
  BY <1>1 DEF DatabaseOK, database, FreshCursors
<1>4. JobsOK'
  BY <1>1, <1>2, AnswerMovesOn DEF Outcomes
<1>5. sweep' \in [at : 0 .. now, left : SUBSET Ids]
  BY <1>1 DEF WorldOK, SweepDone
<1>6. faults' \in Nat
  BY <1>1, SMT DEF WorldOK
<1>7. WorldOK'
  BY <1>1, <1>5, <1>6 DEF WorldOK, clients
<1> QED
  BY <1>3, <1>4, <1>7

LEMMA RespondKeepsInv ==
    ASSUME Inv, NEW w \in Workers, Respond(w)
    PROVE  Inv'
<1> USE DEF Inv
<1>1. /\ inflight[w].phase = "done" /\ inflight' = [inflight EXCEPT ![w] = Idle]
      /\ UNCHANGED <<database, issued>> /\ UNCHANGED <<sweep, maxMailboxes, now, faults>>
  BY DEF Respond
<1>2. /\ inflight[w] # Idle /\ inflight[w].page \subseteq Nat /\ inflight[w].req.id \in Ids
      /\ inflight[w].page # {} => inflight[w].req.reader \in Readers
  BY <1>1, DoneJob DEF JobsOK, DoneJobs, Idle
<1>3. DatabaseOK'
  BY <1>1 DEF DatabaseOK, database, FreshCursors
<1>4. JobsOK'
  BY <1>1, <1>2, MovesOn DEF JobOK
<1>5. /\ position' \in [Readers -> [Ids -> Nat]]
      /\ delivered' \in [Readers -> [Ids -> SUBSET Nat]]
  <2>1. CASE UNCHANGED clients
    BY <2>1 DEF clients, WorldOK
  <2>2. ASSUME NEW r, NEW id, NEW page, NEW last \in page,
               r = inflight[w].req.reader, id = inflight[w].req.id, page = inflight[w].page,
               position' = [position EXCEPT ![r][id] = last],
               delivered' = [delivered EXCEPT ![r][id] = @ \cup page]
        PROVE  /\ position' \in [Readers -> [Ids -> Nat]]
               /\ delivered' \in [Readers -> [Ids -> SUBSET Nat]]
    <3>1. r \in Readers /\ id \in Ids /\ page \subseteq Nat /\ last \in Nat
      BY <1>2, <2>2
    <3>2. position' \in [Readers -> [Ids -> Nat]]
      BY <2>2, <3>1 DEF WorldOK
    <3>. delivered \in [Readers -> [Ids -> SUBSET Nat]]
      BY DEF WorldOK
    <3>3. delivered[r][id] \cup page \in SUBSET Nat
      <4>1. delivered[r][id] \in SUBSET Nat
        BY ONLY <3>1, delivered \in [Readers -> [Ids -> SUBSET Nat]]
      <4> QED
        BY ONLY <3>1, <4>1
    <3>4. delivered' \in [Readers -> [Ids -> SUBSET Nat]]
      <4>1. delivered' = [delivered EXCEPT ![r][id] = delivered[r][id] \cup page]
        BY <2>2, Zenon
      <4>2. delivered \in [Readers -> [Ids -> SUBSET Nat]]
        BY DEF WorldOK
      <4> QED
        BY ONLY <3>1, <3>3, <4>1, <4>2, SMTT(40)
    <3> QED
      BY <3>2, <3>4
  <2> QED
    BY <2>1, <2>2 DEF Respond
<1>6. WorldOK'
  BY <1>1, <1>5 DEF WorldOK
<1> QED
  BY <1>3, <1>4, <1>6

LEMMA CrashKeepsInv ==
    ASSUME Inv, Crash
    PROVE  Inv'
<1> USE DEF Inv
<1>1. /\ UNCHANGED <<database, issued>> /\ UNCHANGED <<now, clients>>
      /\ faults' = faults + 1 /\ inflight' = [w \in Workers |-> Idle]
      /\ sweep' = [at |-> 0, left |-> {}] /\ maxMailboxes' \in Limits
  BY DEF Crash
<1>2. DatabaseOK'
  BY <1>1 DEF DatabaseOK, database, FreshCursors
<1>3. JobsOK'
  BY <1>1 DEF JobsOK, JobOK, OneHandlerAtATime
<1>4. faults' \in Nat /\ sweep' \in [at : 0 .. now, left : SUBSET Ids]
  BY <1>1, ServiceAssumption, SMT DEF WorldOK
<1>5. WorldOK'
  BY <1>1, <1>4 DEF WorldOK, clients
<1> QED
  BY <1>2, <1>3, <1>5

LEMMA TickKeepsInv ==
    ASSUME Inv, Tick
    PROVE  Inv'
<1> USE DEF Inv
<1>1. /\ UNCHANGED <<database, issued>> /\ UNCHANGED <<faults, clients>>
      /\ inflight' = inflight /\ sweep' = sweep /\ maxMailboxes' = maxMailboxes
      /\ now < MaxTime /\ now' = now + 1
  BY DEF Tick, process
<1>2. DatabaseOK' /\ JobsOK'
  BY <1>1 DEF DatabaseOK, database, FreshCursors, JobsOK, JobOK, Snapshot, OneHandlerAtATime
<1>3. now' \in 0 .. MaxTime /\ 0 .. now \subseteq 0 .. now'
  BY <1>1, ServiceAssumption, SMT DEF WorldOK
<1>4. WorldOK'
  BY <1>1, <1>3 DEF WorldOK, clients
<1> QED
  BY <1>2, <1>4

LEMMA InitInv == Init => Inv
<1> SUFFICES ASSUME Init PROVE Inv
  OBVIOUS
<1> USE DEF Init
<1>1. DatabaseOK
  <2>1. \A id \in Ids : IsFiniteSet(envelopes[id])
    BY FS_EmptySet
  <2>2. FreshCursors
    BY SMT DEF FreshCursors
  <2> QED
    BY <2>1, <2>2, BlankType, SMT DEF DatabaseOK
<1>2. JobsOK
  BY DEF JobsOK, JobOK, OneHandlerAtATime
<1>3. WorldOK
  BY ServiceAssumption, SMT DEF WorldOK
<1> QED
  BY <1>1, <1>2, <1>3 DEF Inv

(* The inductive invariant: the database in order, one handler on a fresh   *)
(* snapshot, everything of its type.                                        *)
THEOREM InvariantTheorem == Spec => []Inv
<1>1. Inv /\ [Next]_vars => Inv'
  <2> SUFFICES ASSUME Inv, [Next]_vars PROVE Inv'
    OBVIOUS
  <2>1. ASSUME NEW w \in Workers, Request(w) \/ SweepOne(w) PROVE Inv'
    <3>1. CASE Request(w)
      BY <3>1, StartKeepsInv DEF Request
    <3>2. CASE SweepOne(w)
      <4>1. PICK id \in sweep.left : Start(w, [op |-> "expire", id |-> id, at |-> sweep.at])
        BY <3>2 DEF SweepOne
      <4>2. id \in Ids /\ sweep.at \in 0 .. MaxTime
        BY <4>1, ServiceAssumption, SMT DEF Inv, WorldOK
      <4>3. [op |-> "expire", id |-> id, at |-> sweep.at] \in Requests
        BY <4>2 DEF Requests
      <4> QED
        BY <4>1, <4>3, StartKeepsInv
    <3> QED
      BY <2>1, <3>1, <3>2
  <2>2. ASSUME NEW w \in Workers, Handle(w) PROVE Inv'
    BY <2>2, SelectVictimsKeepsInv, EvictKeepsInv, CreateKeepsInv, AppendKeepsInv,
       ReadKeepsInv, AcknowledgeKeepsInv, AddReaderKeepsInv, RevokeReaderKeepsInv,
       RemovalsKeepInv, ExpireEnvelopesKeepsInv, RefusalsKeepInv, RespondKeepsInv
       DEF Handle
  <2>3. CASE UNCHANGED vars
    BY <2>3 DEF vars, process, world, clients, database, Inv, DatabaseOK, FreshCursors,
                JobsOK, JobOK, Snapshot, OneHandlerAtATime, WorldOK
  <2> QED
    BY <2>1, <2>2, <2>3, StartSweepKeepsInv, CrashKeepsInv, TickKeepsInv DEF Next
<1> QED
  BY <1>1, InitInv, PTL DEF Spec

(* Every variable keeps its type, and a handler that has read still sees    *)
(* the database as it read it when it writes.                               *)
THEOREM TypeTheorem == Spec => []TypeOK
<1>1. Inv => TypeOK
  BY DEF Inv, DatabaseOK, JobsOK, WorldOK, TypeOK
<1> QED
  BY <1>1, InvariantTheorem, PTL

(* No cursor is given out twice for one mailbox id, across lifetimes.       *)
THEOREM FreshCursorsTheorem == Spec => []FreshCursors
<1>1. Inv => FreshCursors
  BY DEF Inv, DatabaseOK
<1> QED
  BY <1>1, InvariantTheorem, PTL

(* No acknowledgement reaches past what was stored when it was made.        *)
THEOREM AcksTheorem == Spec => []AcksCoverThePast
<1>1. Inv => AcksCoverThePast
  BY DEF Inv, DatabaseOK, InOrder, AcksCoverThePast
<1> QED
  BY <1>1, InvariantTheorem, PTL

-----------------------------------------------------------------------------
(* No reader that pages from its own position skips an envelope.  The       *)
(* argument follows the cursors: everything stored, and everything a reader *)
(* has reached, is at or below what was given out, so a new envelope lies   *)
(* ahead of every reader; and a page is a prefix of what lies ahead, that   *)
(* no other handler can change before it is answered.                       *)

CursorsKnown ==
    /\ \A r \in Readers, id \in Ids : position[r][id] <= issued[id]
    /\ \A id \in Ids : \A e \in envelopes[id] : e.cursor <= issued[id]

(* What a handler of a read holds: the reader's own position, and then a    *)
(* page without a gap.                                                      *)
AsksFromPosition(j) ==
    (j.phase = "loaded" /\ j.req.op = "read") =>
        j.req.after = position[j.req.reader][j.req.id]

HoldsPrefix(j) ==
    j.phase = "done" =>
        \A c \in j.page :
            /\ c <= issued[j.req.id]
            /\ \A e \in envelopes[j.req.id] :
                  (e.cursor > position[j.req.reader][j.req.id] /\ e.cursor <= c)
                      => e.cursor \in j.page

ReadOK(j) == AsksFromPosition(j) /\ HoldsPrefix(j)
ReadsOK == \A w \in Workers : ReadOK(inflight[w])

DeliveryInv == CursorsKnown /\ ReadersNeverSkip /\ ReadsOK

-----------------------------------------------------------------------------

LEMMA PageIsPrefix ==
    ASSUME NEW S \in SUBSET Envelope, IsFiniteSet(S), NEW after, NEW limit \in Nat,
           NEW d \in Page(S, after, limit), NEW e \in S,
           e.cursor > after, e.cursor <= d.cursor
    PROVE  e \in Page(S, after, limit)
<1> DEFINE Below(x) == {y \in S : y.cursor > after /\ y.cursor < x.cursor}
<1>1. d \in S /\ Cardinality(Below(d)) < limit
  BY DEF Page
<1>2. e.cursor \in Nat /\ d.cursor \in Nat /\ \A y \in S : y.cursor \in Nat
  BY <1>1 DEF Envelope
<1>3. Below(e) \subseteq Below(d)
  BY <1>2, SMT
<1>4. IsFiniteSet(Below(d)) /\ IsFiniteSet(Below(e))
  BY FS_Subset
<1>5. Cardinality(Below(e)) <= Cardinality(Below(d))
  BY <1>3, <1>4, FS_Subset
<1>6. Cardinality(Below(e)) \in Nat /\ Cardinality(Below(d)) \in Nat
  BY <1>4, FS_CardinalityType
<1>7. Cardinality(Below(e)) < limit
  BY <1>1, <1>5, <1>6, SMT
<1> QED
  BY <1>7 DEF Page

LEMMA OthersIdle ==
    ASSUME JobsOK, NEW w \in Workers, inflight[w] # Idle \/ CoordinatorFree,
           NEW j, inflight' = [inflight EXCEPT ![w] = j], ReadOK(j)'
    PROVE  ReadsOK'
<1>1. inflight'[w] = j /\ \A v \in Workers \ {w} : inflight'[v] = Idle
  BY DEF JobsOK, OneHandlerAtATime, CoordinatorFree
<1>2. ReadOK(Idle)'
  BY DEF ReadOK, AsksFromPosition, HoldsPrefix, Idle
<1> QED
  BY <1>1, <1>2 DEF ReadsOK, ReadOK, AsksFromPosition, HoldsPrefix

(* Taking envelopes away leaves the readers' promise.                       *)
LEMMA ShrinkKeepsDelivery ==
    ASSUME CursorsKnown, ReadersNeverSkip, UNCHANGED <<issued, clients>>,
           \A id \in Ids : envelopes'[id] \subseteq envelopes[id]
    PROVE  CursorsKnown' /\ ReadersNeverSkip'
BY DEF CursorsKnown, ReadersNeverSkip, clients

LEMMA AnswerWithoutPage ==
    ASSUME JobsOK, NEW w \in Workers, inflight[w] # Idle, NEW o, Answer(w, o, {})
    PROVE  ReadsOK'
<1>1. PICK j : j = [phase |-> "done", req |-> inflight[w].req, outcome |-> o, page |-> {}]
  OBVIOUS
<1>2. inflight' = [inflight EXCEPT ![w] = j]
  BY <1>1 DEF Answer
<1>3. ReadOK(j)'
  BY <1>1 DEF ReadOK, AsksFromPosition, HoldsPrefix
<1> QED
  BY <1>2, <1>3, OthersIdle

(* Every handler but an append, a read and the answer of a read only takes  *)
(* envelopes away and holds no page.                                        *)
LEMMA QuietHandlers ==
    ASSUME Inv, DeliveryInv, NEW w \in Workers,
           \/ Create(w) \/ AcknowledgeUpTo(w) \/ AddReaderTo(w) \/ RevokeReader(w)
           \/ Remove(w) \/ ExpireMailbox(w) \/ ExpireEnvelopes(w)
           \/ EndWithoutWrite(w) \/ Fail(w)
    PROVE  DeliveryInv'
<1>1. \E o : Answer(w, o, {})
  BY DEF Create, AcknowledgeUpTo, AddReaderTo, RevokeReader, Remove, ExpireMailbox,
         ExpireEnvelopes, EndWithoutWrite, Fail, Done
<1>2. UNCHANGED <<issued, clients>>
  BY DEF Create, AcknowledgeUpTo, AddReaderTo, RevokeReader, Remove, ExpireMailbox,
         ExpireEnvelopes, EndWithoutWrite, Fail, world
<1>3. inflight[w] # Idle
  BY DEF Create, AcknowledgeUpTo, AddReaderTo, RevokeReader, Remove, ExpireMailbox,
         ExpireEnvelopes, EndWithoutWrite, Fail, Loaded, Idle
<1>4. \A id \in Ids : envelopes'[id] \subseteq envelopes[id]
  <2>1. CASE Create(w) \/ AddReaderTo(w)
    BY <2>1 DEF Create, AddReaderTo, CreateMailbox, SaveMailbox
  <2>2. CASE EndWithoutWrite(w) \/ Fail(w)
    BY <2>2 DEF EndWithoutWrite, Fail, database
  <2>3. CASE Remove(w) \/ ExpireMailbox(w)
    BY <2>3 DEF Remove, ExpireMailbox, RemoveMailbox, Inv, DatabaseOK
  <2>4. CASE AcknowledgeUpTo(w) \/ RevokeReader(w) \/ ExpireEnvelopes(w)
    <3>1. \E id, b, n, S : CommitRemoval(id, b, n, S)
      BY <2>4 DEF AcknowledgeUpTo, RevokeReader, ExpireEnvelopes
    <3> QED
      BY <3>1 DEF CommitRemoval, Inv, DatabaseOK
  <2> QED
    BY <2>1, <2>2, <2>3, <2>4
<1>5. CursorsKnown' /\ ReadersNeverSkip'
  BY <1>2, <1>4, ShrinkKeepsDelivery DEF DeliveryInv
<1>6. ReadsOK'
  BY <1>1, <1>3, AnswerWithoutPage DEF Inv
<1> QED
  BY <1>5, <1>6 DEF DeliveryInv

LEMMA EvictionsKeepDelivery ==
    ASSUME Inv, DeliveryInv, NEW w \in Workers, SelectVictims(w) \/ Evict(w)
    PROVE  DeliveryInv'
<1>1. UNCHANGED <<issued, clients>> /\ inflight[w] # Idle
  BY DEF SelectVictims, Evict, world, Loaded, Idle
<1>2. \A id \in Ids : envelopes'[id] \subseteq envelopes[id]
  BY DEF SelectVictims, Evict, database, RemoveMailbox, Inv, DatabaseOK
<1>3. CursorsKnown' /\ ReadersNeverSkip'
  BY <1>1, <1>2, ShrinkKeepsDelivery DEF DeliveryInv
<1>4. \E j : inflight' = [inflight EXCEPT ![w] = j] /\ j.phase = "evicting"
  <2>1. CASE SelectVictims(w)
    <3>1. PICK V : inflight' = [inflight EXCEPT ![w] =
              [phase |-> "evicting", req |-> inflight[w].req, victims |-> V, at |-> now]]
      BY <2>1 DEF SelectVictims
    <3>2. PICK k : k = [phase |-> "evicting", req |-> inflight[w].req, victims |-> V, at |-> now]
      OBVIOUS
    <3>3. inflight' = [inflight EXCEPT ![w] = k] /\ k.phase = "evicting"
      BY <3>1, <3>2
    <3> QED
      BY <3>3
  <2>2. CASE Evict(w)
    <3>1. inflight[w] \in EvictingJobs
      BY <2>2, EvictingJob DEF Evict, Inv, JobsOK
    <3>2. PICK v : inflight' = [inflight EXCEPT ![w].victims = @ \ {v}]
      BY <2>2 DEF Evict
    <3>3. PICK k : k = [inflight[w] EXCEPT !.victims = @ \ {v}]
      OBVIOUS
    <3>4. inflight' = [inflight EXCEPT ![w] = k]
      BY <3>2, <3>3
    <3>5. k.phase = "evicting"
      BY <3>1, <3>3 DEF EvictingJobs
    <3> QED
      BY <3>4, <3>5
  <2> QED
    BY <2>1, <2>2
<1>5. PICK j : inflight' = [inflight EXCEPT ![w] = j] /\ j.phase = "evicting"
  BY <1>4
<1>6. ReadOK(j)'
  BY <1>5 DEF ReadOK, AsksFromPosition, HoldsPrefix
<1>7. ReadsOK'
  BY <1>1, <1>5, <1>6, OthersIdle DEF Inv
<1> QED
  BY <1>3, <1>7 DEF DeliveryInv

LEMMA AppendKeepsDelivery ==
    ASSUME Inv, DeliveryInv, NEW w \in Workers, Append(w)
    PROVE  DeliveryInv'
<1> DEFINE req == inflight[w].req
           old == inflight[w].snap.box
           e == [envelopeId |-> req.envelope, cursor |-> old.nextCursor,
                 size |-> req.size, storedAt |-> now]
<1>1. /\ inflight[w].phase = "loaded" /\ inflight[w] # Idle /\ AppendAllowed(w)
      /\ issued' = [issued EXCEPT ![req.id] = IF e.cursor > @ THEN e.cursor ELSE @]
      /\ Answer(w, "appended", {})
      /\ UNCHANGED clients
  BY DEF Append, Loaded, Done, Idle
<1>2. envelopes' = [envelopes EXCEPT ![req.id] = {x \in @ : x.cursor # e.cursor} \cup {e}]
  BY DEF Append, CommitAppend
<1>3. req.id \in Ids /\ req.id \in live /\ old = box[req.id] /\ old \in Mailbox
  BY <1>1, FoundMailbox DEF AppendAllowed
<1>4. /\ e.cursor \in Nat /\ issued \in [Ids -> Nat] /\ envelopes \in [Ids -> SUBSET Envelope]
      /\ position \in [Readers -> [Ids -> Nat]]
  BY <1>3 DEF Mailbox, Inv, DatabaseOK, WorldOK
<1>5. issued[req.id] < e.cursor
  BY <1>3 DEF Inv, DatabaseOK, FreshCursors
<1>6. \A i \in Ids : issued[i] <= issued'[i] /\ issued'[i] \in Nat
  BY <1>1, <1>3, <1>4, SMT
<1>7. issued'[req.id] = e.cursor
  BY <1>1, <1>3, <1>4, <1>5
<1>8. \A i \in Ids : \A x \in envelopes'[i] : x \in envelopes[i] \/ (i = req.id /\ x = e)
  BY <1>2, <1>3, <1>4
<1> HIDE DEF e
<1>9. CursorsKnown'
  <2>1. \A r \in Readers, i \in Ids : position'[r][i] <= issued'[i]
    BY <1>1, <1>4, <1>6, SMT DEF DeliveryInv, CursorsKnown, clients
  <2>2. ASSUME NEW i \in Ids, NEW x \in envelopes'[i] PROVE x.cursor <= issued'[i]
    <3>1. CASE x \in envelopes[i]
      BY <1>4, <1>6, <3>1, SMT DEF DeliveryInv, CursorsKnown, Envelope
    <3>2. CASE i = req.id /\ x = e
      BY <1>4, <1>7, <3>2, SMT
    <3> QED
      BY <1>8, <3>1, <3>2
  <2> QED
    BY <2>1, <2>2 DEF CursorsKnown
<1>10. ReadersNeverSkip'
  <2> SUFFICES ASSUME NEW r \in Readers, NEW i \in Ids, NEW x \in envelopes'[i],
                      x.cursor <= position[r][i]
               PROVE  x.cursor \in delivered[r][i]
    BY <1>1 DEF ReadersNeverSkip, clients
  <2>1. CASE x \in envelopes[i]
    BY <2>1 DEF DeliveryInv, ReadersNeverSkip
  <2>2. CASE i = req.id /\ x = e
    <3>1. position[r][i] <= issued[i] /\ position[r][i] \in Nat /\ issued[i] \in Nat
      BY <1>4 DEF DeliveryInv, CursorsKnown
    <3> QED
      BY <1>4, <1>5, <2>2, <3>1, SMT
  <2> QED
    BY <1>8, <2>1, <2>2
<1>11. ReadsOK'
  BY <1>1, AnswerWithoutPage DEF Inv
<1> QED
  BY <1>9, <1>10, <1>11 DEF DeliveryInv

(* A read answers with a prefix of what lies ahead of the reader.           *)
LEMMA ReadKeepsDelivery ==
    ASSUME Inv, DeliveryInv, NEW w \in Workers, Read(w)
    PROVE  DeliveryInv'
<1> DEFINE req == inflight[w].req
           page == Page(inflight[w].snap.envelopes, req.after, req.limit)
           cursors == {e.cursor : e \in page}
<1>1. /\ inflight[w].phase = "loaded" /\ req.op = "read" /\ inflight[w] # Idle
      /\ Authorised(w) /\ Answer(w, "read", cursors) /\ UNCHANGED <<issued, clients>>
      /\ envelopes' = envelopes
  BY DEF Read, Loaded, Idle, world, SaveMailbox
<1>2. /\ req \in Requests /\ req.id \in Ids
      /\ inflight[w].snap.envelopes = envelopes[req.id]
  BY <1>1, FoundMailbox DEF Authorised
<1>3. req.limit \in Nat /\ req.after = position[req.reader][req.id]
  <2>1. req.limit \in Nat
    BY <1>1, <1>2, ServiceAssumption, SMT DEF Requests
  <2>2. ReadOK(inflight[w])
    BY DEF DeliveryInv, ReadsOK
  <2> QED
    BY <1>1, <2>1, <2>2 DEF ReadOK, AsksFromPosition
<1>4. envelopes[req.id] \in SUBSET Envelope /\ IsFiniteSet(envelopes[req.id])
  BY <1>2 DEF Inv, DatabaseOK
<1>5. PICK j : j = [phase |-> "done", req |-> req, outcome |-> "read", page |-> cursors]
  OBVIOUS
<1>6. inflight' = [inflight EXCEPT ![w] = j]
  BY <1>1, <1>5 DEF Answer
<1>7. ASSUME NEW c \in cursors
      PROVE  /\ c <= issued[req.id]
             /\ \A e \in envelopes[req.id] :
                   (e.cursor > position[req.reader][req.id] /\ e.cursor <= c)
                       => e.cursor \in cursors
  <2>1. PICK d \in page : d.cursor = c
    OBVIOUS
  <2>2. d \in envelopes[req.id]
    BY <1>2, <2>1 DEF Page
  <2>3. c <= issued[req.id]
    BY <1>2, <2>1, <2>2 DEF DeliveryInv, CursorsKnown
  <2>4. ASSUME NEW e \in envelopes[req.id],
               e.cursor > position[req.reader][req.id], e.cursor <= c
        PROVE  e.cursor \in cursors
    <3>1. e \in page
      BY <1>2, <1>3, <1>4, <2>1, <2>4, PageIsPrefix
    <3> QED
      BY <3>1
  <2> QED
    BY <2>3, <2>4
<1> HIDE DEF cursors
<1>8. HoldsPrefix(j)'
  BY <1>1, <1>5, <1>7 DEF HoldsPrefix, clients
<1>9. ReadOK(j)'
  BY <1>5, <1>8 DEF ReadOK, AsksFromPosition
<1>10. CursorsKnown' /\ ReadersNeverSkip'
  BY <1>1, ShrinkKeepsDelivery DEF DeliveryInv
<1>11. ReadsOK'
  BY <1>1, <1>6, <1>9, OthersIdle DEF Inv
<1> QED
  BY <1>10, <1>11 DEF DeliveryInv

(* A page that arrives brings everything up to the reader's new position.   *)
LEMMA RespondKeepsDelivery ==
    ASSUME Inv, DeliveryInv, NEW w \in Workers, Respond(w)
    PROVE  DeliveryInv'
<1>1. /\ inflight[w].phase = "done" /\ inflight' = [inflight EXCEPT ![w] = Idle]
      /\ envelopes' = envelopes /\ issued' = issued /\ inflight[w] # Idle
  <2>1. inflight[w].phase = "done" => inflight[w] # Idle
    BY DEF Idle
  <2> QED
    BY <2>1, Zenon DEF Respond, database
<1>2. ReadOK(Idle)'
  BY DEF ReadOK, AsksFromPosition, HoldsPrefix, Idle
<1>3. ReadsOK'
  BY <1>1, <1>2, OthersIdle DEF Inv
<1>4. CASE UNCHANGED clients
  BY <1>1, <1>3, <1>4, ShrinkKeepsDelivery DEF DeliveryInv
<1>5. ASSUME NEW r, NEW id, NEW page, NEW last \in page,
             r = inflight[w].req.reader, id = inflight[w].req.id, page = inflight[w].page,
             \A c \in page : c <= last,
             position' = [position EXCEPT ![r][id] = last],
             delivered' = [delivered EXCEPT ![r][id] = @ \cup page]
      PROVE  CursorsKnown' /\ ReadersNeverSkip'
  <2>1. r \in Readers /\ id \in Ids /\ page \subseteq Nat
    BY <1>1, <1>5, DoneJob DEF Inv, JobsOK, DoneJobs
  <2>2. /\ position \in [Readers -> [Ids -> Nat]]
        /\ delivered \in [Readers -> [Ids -> SUBSET Nat]]
    BY DEF Inv, WorldOK
  <2>3. /\ last <= issued[id]
        /\ \A e \in envelopes[id] :
              (e.cursor > position[r][id] /\ e.cursor <= last) => e.cursor \in page
    <3>1. HoldsPrefix(inflight[w])
      BY DEF DeliveryInv, ReadsOK, ReadOK
    <3> QED
      BY <1>1, <1>5, <3>1 DEF HoldsPrefix
  <2>4. position'[r][id] = last /\ delivered'[r][id] = delivered[r][id] \cup page
    BY <1>5, <2>1, <2>2
  <2>5. \A q \in Readers, i \in Ids :
            q # r \/ i # id => /\ position'[q][i] = position[q][i]
                               /\ delivered'[q][i] = delivered[q][i]
    BY <1>5, <2>1, <2>2
  <2>6. CursorsKnown'
    BY <1>1, <2>3, <2>4, <2>5 DEF DeliveryInv, CursorsKnown
  <2>7. ASSUME NEW q \in Readers, NEW i \in Ids, NEW e \in envelopes[i],
               e.cursor <= position'[q][i]
        PROVE  e.cursor \in delivered'[q][i]
    <3>1. CASE q # r \/ i # id
      BY <2>5, <2>7, <3>1 DEF DeliveryInv, ReadersNeverSkip
    <3>2. CASE q = r /\ i = id
      <4>1. e.cursor \in Nat /\ position[r][id] \in Nat
        BY <2>1, <2>2 DEF Inv, DatabaseOK, Envelope
      <4>2. CASE e.cursor <= position[r][id]
        BY <2>4, <3>2, <4>2 DEF DeliveryInv, ReadersNeverSkip
      <4>3. CASE e.cursor > position[r][id]
        BY <2>3, <2>4, <2>7, <3>2, <4>3
      <4> QED
        BY <4>1, <4>2, <4>3, SMT
    <3> QED
      BY <3>1, <3>2
  <2> QED
    BY <1>1, <2>6, <2>7 DEF ReadersNeverSkip
<1> QED
  BY <1>3, <1>4, <1>5 DEF Respond, DeliveryInv

(* A request that starts asks from where its reader stands.                 *)
LEMMA StartKeepsDelivery ==
    ASSUME Inv, DeliveryInv, NEW w \in Workers, NEW req, Start(w, req),
           req.op = "read" => req.after = position[req.reader][req.id]
    PROVE  DeliveryInv'
<1>1. /\ UNCHANGED <<issued, clients>> /\ envelopes' = envelopes /\ CoordinatorFree
  BY DEF Start, world, database
<1>2. PICK j : j = [phase |-> "loaded", req |-> req, snap |-> Snapshot(req.id)]
  OBVIOUS
<1>3. inflight' = [inflight EXCEPT ![w] = j]
  BY <1>2 DEF Start
<1>4. ReadOK(j)'
  BY <1>1, <1>2 DEF ReadOK, AsksFromPosition, HoldsPrefix, clients
<1>5. ReadsOK'
  BY <1>1, <1>3, <1>4, OthersIdle DEF Inv
<1> QED
  BY <1>1, <1>5, ShrinkKeepsDelivery DEF DeliveryInv

LEMMA PassesKeepDelivery ==
    ASSUME Inv, DeliveryInv, StartSweep \/ Crash \/ Tick \/ UNCHANGED vars
    PROVE  DeliveryInv'
<1>1. UNCHANGED <<issued, clients>> /\ envelopes' = envelopes
  BY DEF StartSweep, Crash, Tick, vars, world, database
<1>2. inflight' = inflight \/ inflight' = [w \in Workers |-> Idle]
  BY DEF StartSweep, Crash, Tick, vars, process
<1>3. ReadOK(Idle)'
  BY DEF ReadOK, AsksFromPosition, HoldsPrefix, Idle
<1>4. ReadsOK'
  <2>1. CASE inflight' = inflight
    BY <1>1, <2>1 DEF DeliveryInv, ReadsOK, ReadOK, AsksFromPosition, HoldsPrefix, clients
  <2>2. CASE inflight' = [w \in Workers |-> Idle]
    BY <1>3, <2>2 DEF ReadsOK, ReadOK, AsksFromPosition, HoldsPrefix
  <2> QED
    BY <1>2, <2>1, <2>2
<1> QED
  BY <1>1, <1>4, ShrinkKeepsDelivery DEF DeliveryInv

LEMMA InitDelivery == Init => DeliveryInv
BY SMT DEF Init, DeliveryInv, CursorsKnown, ReadersNeverSkip, ReadsOK, ReadOK,
           AsksFromPosition, HoldsPrefix, Idle

LEMMA DeliveryStep == Inv /\ DeliveryInv /\ [Next]_vars => DeliveryInv'
<1> SUFFICES ASSUME Inv, DeliveryInv, [Next]_vars PROVE DeliveryInv'
  OBVIOUS
<1>1. ASSUME NEW w \in Workers, Request(w) PROVE DeliveryInv'
  BY <1>1, StartKeepsDelivery DEF Request
<1>2. ASSUME NEW w \in Workers, SweepOne(w) PROVE DeliveryInv'
  <2>1. PICK req : Start(w, req) /\ req.op = "expire"
    <3>1. PICK id \in sweep.left : Start(w, [op |-> "expire", id |-> id, at |-> sweep.at])
      BY <1>2 DEF SweepOne
    <3>2. PICK req : req = [op |-> "expire", id |-> id, at |-> sweep.at]
      OBVIOUS
    <3> QED
      BY <3>1, <3>2
  <2> QED
    BY <2>1, StartKeepsDelivery
<1>3. ASSUME NEW w \in Workers, Handle(w) PROVE DeliveryInv'
  BY <1>3, EvictionsKeepDelivery, QuietHandlers, AppendKeepsDelivery, ReadKeepsDelivery,
     RespondKeepsDelivery DEF Handle
<1> QED
  BY <1>1, <1>2, <1>3, PassesKeepDelivery DEF Next

(* No reader that pages from its own position ever skips an envelope, for   *)
(* any number of mailboxes, readers, handlers, failures and restarts        *)
(* (MailboxReader, with the cursors of MailboxAppender and                  *)
(* highestRetiredCursor).                                                   *)
THEOREM DeliveryTheorem == Spec => []ReadersNeverSkip
<1>1. DeliveryInv => ReadersNeverSkip
  BY DEF DeliveryInv
<1> QED
  BY <1>1, InitDelivery, DeliveryStep, InvariantTheorem, PTL DEF Spec

-----------------------------------------------------------------------------
(* The books and the refinement of MailboxQueue rest on what the rows and  *)
(* the documents say of each other, and on what a handler still holds.     *)

(* Nothing is acknowledged by who is no reader; the model's cursor bound.   *)
DocumentOK(b) ==
    /\ \A r \in Readers : r \notin b.readers => b.acked[r] = 0
    /\ b.nextCursor >= 1 /\ b.nextCursor <= MaxCursor + 1

(* The document of a mailbox counts its envelopes, each of them has a       *)
(* cursor and a deduplication row of its own, and an id without a document  *)
(* has no rows; its byte total is the size of its envelopes.                *)
RowOK(id) ==
    /\ DocumentOK(box[id])
    /\ box[id].envelopeCount = Cardinality(envelopes[id])
    /\ \A e, f \in envelopes[id] : e.cursor = f.cursor => e = f
    /\ \A e \in envelopes[id] : e.cursor >= 1 /\ dedupe[id][e.envelopeId] = e.cursor
    /\ \A d \in EnvelopeIds : dedupe[id][d] # 0 =>
         \E e \in envelopes[id] : e.envelopeId = d /\ e.cursor = dedupe[id][d]
    /\ id \notin live => box[id] = Blank /\ envelopes[id] = {}

RowsOK == \A id \in Ids : RowOK(id)
BytesOK == bytes = [id \in Ids |-> SizeOf(envelopes[id])]
BooksOK == RowsOK /\ BytesOK /\ mailboxCount = Cardinality(live) /\ retiredCursor <= MaxCursor

(* Whoever evicts v evicts every empty mailbox that was read before it.     *)
SparesNone(V, v) ==
    \A c \in live : envelopes[c] = {} /\ box[c].lastReadAt < box[v].lastReadAt => c \in V

(* What a handler holds at each stage: victims that are idle and empty, the *)
(* least recently read ones, as many as are too many; a sweep of the past; a page of stored envelopes    *)
(* ahead of a reader of the mailbox.                                        *)
JobHolds(j) ==
    /\ j.phase = "evicting" =>
         /\ j.at <= now /\ IsFiniteSet(j.victims)
         /\ \A v \in j.victims : v \in live /\ IsIdleAndEmpty(box[v], j.at)
         /\ \A v \in j.victims : SparesNone(j.victims, v)
         /\ j.victims # {} => Cardinality(live) = Cardinality(j.victims) + maxMailboxes - 1
    /\ j.phase = "loaded" =>
         /\ j.req.op = "expire" => j.req.at <= now
         /\ j.req.op = "append" => box[j.req.id].nextCursor <= MaxCursor
    /\ j.phase = "done" => \A c \in j.page :
         /\ j.req.reader \in box[j.req.id].readers /\ c > position[j.req.reader][j.req.id]
         /\ \E e \in envelopes[j.req.id] : e.cursor = c
JobsHold == \A w \in Workers : JobHolds(inflight[w])

QueueInv == BooksOK /\ JobsHold

-----------------------------------------------------------------------------
(* What the aggregate's operations leave of a document.                    *)

LEMMA MarkReadFields ==
    ASSUME NEW b \in Mailbox, NEW t \in Nat
    PROVE  /\ MarkRead(b, t).readers = b.readers /\ MarkRead(b, t).acked = b.acked
           /\ MarkRead(b, t).nextCursor = b.nextCursor
           /\ MarkRead(b, t).envelopeCount = b.envelopeCount
BY DEF MarkRead, Mailbox

(* A reader's acknowledgement moves forward, below what is next.            *)
Raised(b, c, r, a) == /\ b.acked[r] <= a /\ a < b.nextCursor
                      /\ c.acked = [b.acked EXCEPT ![r] = a]

LEMMA AcknowledgeFields ==
    ASSUME NEW b \in Mailbox, InOrder(b), NEW r \in Readers, NEW upTo \in Nat
    PROVE  /\ Acknowledge(b, r, upTo).readers = b.readers
           /\ Acknowledge(b, r, upTo).nextCursor = b.nextCursor
           /\ Acknowledge(b, r, upTo).envelopeCount = b.envelopeCount
           /\ \E a \in Nat : Raised(b, Acknowledge(b, r, upTo), r, a)
<1> DEFINE a == Acknowledged(b.acked[r], upTo, HighestCursor(b))
<1>1. b.acked \in [Readers -> Nat] /\ b.nextCursor \in Nat
  BY DEF Mailbox
<1>2. a \in Nat /\ b.acked[r] <= a /\ a < b.nextCursor
  BY <1>1, SMT DEF Acknowledged, HighestCursor, InOrder
<1>3. Acknowledge(b, r, upTo) = [b EXCEPT !.acked = [@ EXCEPT ![r] = a]]
  BY <1>1 DEF Acknowledge, Mailbox
<1> HIDE DEF a
<1>4. Raised(b, Acknowledge(b, r, upTo), r, a)
  BY <1>1, <1>2, <1>3 DEF Mailbox, Raised
<1> QED
  BY <1>1, <1>2, <1>3, <1>4 DEF Mailbox

LEMMA ReadersFields ==
    ASSUME NEW b \in Mailbox, NEW r \in Readers
    PROVE  /\ AddReader(b, r).readers = b.readers \cup {r}
           /\ AddReader(b, r).acked = [b.acked EXCEPT ![r] = 0]
           /\ AddReader(b, r).nextCursor = b.nextCursor
           /\ AddReader(b, r).envelopeCount = b.envelopeCount
           /\ RemoveReader(b, r).readers = b.readers \ {r}
           /\ RemoveReader(b, r).acked = [b.acked EXCEPT ![r] = 0]
           /\ RemoveReader(b, r).nextCursor = b.nextCursor
           /\ RemoveReader(b, r).envelopeCount = b.envelopeCount
BY DEF AddReader, RemoveReader, Mailbox

LEMMA ReservedFields ==
    ASSUME NEW b \in Mailbox, NEW charged
    PROVE  LET c == [ReserveEnvelope(b) EXCEPT !.bucket = charged]
           IN  /\ c.readers = b.readers /\ c.acked = b.acked
               /\ c.nextCursor = b.nextCursor + 1 /\ c.envelopeCount = b.envelopeCount + 1
BY DEF ReserveEnvelope, Mailbox

LEMMA ReleasedFields ==
    ASSUME NEW b \in Mailbox, NEW S
    PROVE  /\ ReleaseEnvelopes(b, S).readers = b.readers
           /\ ReleaseEnvelopes(b, S).acked = b.acked
           /\ ReleaseEnvelopes(b, S).nextCursor = b.nextCursor
           /\ ReleaseEnvelopes(b, S).envelopeCount = b.envelopeCount - Cardinality(S)
BY DEF ReleaseEnvelopes, Mailbox

LEMMA NewFields ==
    ASSUME NEW p, NEW r, NEW c, NEW t
    PROVE  /\ NewMailbox(p, r, c, t).readers = {r}
           /\ NewMailbox(p, r, c, t).acked = [x \in Readers |-> 0]
           /\ NewMailbox(p, r, c, t).nextCursor = c
           /\ NewMailbox(p, r, c, t).envelopeCount = 0
BY DEF NewMailbox

LEMMA BlankFields ==
    /\ Blank.readers = {} /\ Blank.acked = [x \in Readers |-> 0]
    /\ Blank.nextCursor = 1 /\ Blank.envelopeCount = 0 /\ DocumentOK(Blank)
<1>1. \E m : Blank = [m EXCEPT !.readers = {}] /\ m.acked = [x \in Readers |-> 0]
             /\ m.nextCursor = 1 /\ m.envelopeCount = 0 /\ m \in Mailbox
  <2>1. PICK p \in Posts : p = CHOOSE x \in Posts : TRUE
    BY PolicyAssumption
  <2>2. PICK r \in Readers : r = CHOOSE x \in Readers : TRUE
    BY PolicyAssumption
  <2>3. PICK m : m = NewMailbox(p, r, 1, 0)
    OBVIOUS
  <2>4. Blank = [m EXCEPT !.readers = {}]
    BY <2>1, <2>2, <2>3 DEF Blank
  <2>5. m \in Mailbox
    BY <2>3, NewMailboxType, SMT
  <2>6. m.acked = [x \in Readers |-> 0] /\ m.nextCursor = 1 /\ m.envelopeCount = 0
    BY <2>3, NewFields
  <2> QED
    BY <2>4, <2>5, <2>6
<1>2. /\ Blank.readers = {} /\ Blank.acked = [x \in Readers |-> 0]
      /\ Blank.nextCursor = 1 /\ Blank.envelopeCount = 0
  BY <1>1 DEF Mailbox
<1> QED
  BY <1>2, ServiceAssumption, SMT DEF DocumentOK

-----------------------------------------------------------------------------
(* The batches keep the books.                                             *)

Elsewhere(id) ==
    \A i \in Ids \ {id} : /\ box'[i] = box[i] /\ envelopes'[i] = envelopes[i]
                          /\ dedupe'[i] = dedupe[i] /\ (i \in live' <=> i \in live)

LEMMA RowsStay ==
    ASSUME RowsOK, NEW id \in Ids, Elsewhere(id), RowOK(id)'
    PROVE  RowsOK'
<1>1. ASSUME NEW i \in Ids, i # id PROVE RowOK(i)'
  BY <1>1 DEF RowsOK, RowOK, Elsewhere
<1> QED
  BY <1>1 DEF RowsOK

(* What envelopes weigh: their sizes, added up.                             *)
Weight == [e \in Envelope |-> e.size]

LEMMA SizeIsTotal ==
    ASSUME NEW S \in SUBSET Envelope, IsFiniteSet(S)
    PROVE  SizeOf(S) = Total(Weight, S) /\ Weighs(Weight, S)
<1>1. \A e \in Envelope : Weight[e] = e.size /\ e.size \in Nat
  BY PolicyAssumption DEF Weight, Envelope
<1>2. Weighs(Weight, S)
  BY <1>1 DEF Weighs
<1> DEFINE first(s) == CHOOSE x \in s : TRUE
           sums(s, h) == IF s = {} THEN 0 ELSE first(s).size + h[s \ {first(s)}]
<1>3. PICK g : IsSum(g, Weight, S)
  BY SumExists
<1>4. ASSUME NEW h
      PROVE  [s \in SUBSET S |-> IF s = {} THEN 0 ELSE Weight[Pick(s)] + h[Rest(s)]]
               = [s \in SUBSET S |-> sums(s, h)]
  <2> SUFFICES ASSUME NEW s \in SUBSET S
               PROVE  (IF s = {} THEN 0 ELSE Weight[Pick(s)] + h[Rest(s)]) = sums(s, h)
    OBVIOUS
  <2>1. Pick(s) = first(s) /\ (s # {} => first(s) \in Envelope)
    BY DEF Pick
  <2> HIDE DEF first
  <2> QED
    BY <1>1, <2>1 DEF Rest
<1>5. \A h : IsSum(h, Weight, S) <=> h = [s \in SUBSET S |-> sums(s, h)]
  BY <1>4 DEF IsSum
<1>6. \E h : h = [s \in SUBSET S |-> sums(s, h)] /\ SizeOf(S) = h[S]
  <2> DEFINE is(h) == h = [s \in SUBSET S |-> sums(s, h)]
  <2>1. is(g)
    <3> HIDE DEF sums
    <3> QED
      BY <1>3, <1>5
  <2>2. SizeOf(S) = (CHOOSE h : is(h))[S]
    BY DEF SizeOf, MapThenSumSet, MapThenFoldSet
  <2> HIDE DEF is
  <2>3. is(CHOOSE h : is(h))
    BY <2>1
  <2> QED
    BY <2>2, <2>3 DEF is
<1> HIDE DEF sums
<1>7. PICK h : IsSum(h, Weight, S) /\ SizeOf(S) = h[S]
  BY <1>5, <1>6
<1>8. Total(Weight, S) = h[S]
  BY <1>7, TotalIsSum
<1> QED
  BY <1>2, <1>7, <1>8

LEMMA SizeOfNone == SizeOf({}) = 0
BY FS_EmptySet, SizeIsTotal, TotalEmpty

LEMMA SizeGrows ==
    ASSUME NEW S \in SUBSET Envelope, IsFiniteSet(S), NEW e \in Envelope \ S
    PROVE  SizeOf(S \cup {e}) = SizeOf(S) + e.size
<1>1. S \cup {e} \in SUBSET Envelope /\ IsFiniteSet(S \cup {e})
  BY FS_AddElement
<1>2. Weight[e] = e.size
  BY DEF Weight
<1>3. /\ SizeOf(S) = Total(Weight, S)
      /\ SizeOf(S \cup {e}) = Total(Weight, S \cup {e}) /\ Weighs(Weight, S \cup {e})
  BY <1>1, SizeIsTotal
<1> QED
  BY <1>2, <1>3, TotalAdd

LEMMA SizeShrinks ==
    ASSUME NEW S \in SUBSET Envelope, IsFiniteSet(S), NEW R \in SUBSET S
    PROVE  SizeOf(S \ R) = SizeOf(S) - SizeOf(R)
<1> DEFINE T == S \ R
<1>1. /\ T \in SUBSET Envelope /\ IsFiniteSet(T) /\ R \in SUBSET Envelope /\ IsFiniteSet(R)
      /\ T \cap R = {} /\ T \cup R = S
  BY FS_Subset
<1> HIDE DEF T
<1>2. /\ SizeOf(S) = Total(Weight, T \cup R) /\ Weighs(Weight, T \cup R)
      /\ SizeOf(T) = Total(Weight, T) /\ SizeOf(R) = Total(Weight, R)
  BY <1>1, SizeIsTotal
<1>3. /\ Total(Weight, T \cup R) = Total(Weight, T) + Total(Weight, R)
      /\ Total(Weight, T) \in Nat /\ Total(Weight, R) \in Nat
  BY <1>1, <1>2, TotalUnion
<1> QED
  BY <1>2, <1>3 DEF T

LEMMA BytesStay ==
    ASSUME BytesOK, DatabaseOK, NEW id \in Ids, NEW n, NEW E, n = SizeOf(E),
           bytes' = [bytes EXCEPT ![id] = n], envelopes' = [envelopes EXCEPT ![id] = E]
    PROVE  BytesOK'
<1>1. envelopes'[id] = E /\ \A i \in Ids \ {id} : envelopes'[i] = envelopes[i]
  BY DEF DatabaseOK
<1>2. \A i \in Ids : [bytes EXCEPT ![id] = n][i] = SizeOf(envelopes'[i])
  BY <1>1 DEF BytesOK
<1> QED
  BY <1>2 DEF BytesOK

LEMMA SaveBooks ==
    ASSUME DatabaseOK, BooksOK, NEW id \in live, NEW b \in Mailbox, NEW n,
           b.envelopeCount = box[id].envelopeCount, DocumentOK(b),
           n = bytes[id], SaveMailbox(id, b, n)
    PROVE  /\ BooksOK' /\ live' = live /\ box' = [box EXCEPT ![id] = b]
           /\ envelopes' = envelopes
<1>1. id \in Ids /\ live' = live /\ box' = [box EXCEPT ![id] = b]
  BY DEF SaveMailbox, PutMailbox, DatabaseOK
<1>2. UNCHANGED <<envelopes, dedupe, mailboxCount, retiredCursor>>
  BY DEF SaveMailbox
<1>3. box'[id] = b /\ Elsewhere(id)
  BY <1>1, <1>2 DEF Elsewhere, DatabaseOK
<1>4. RowOK(id)
  BY <1>1 DEF BooksOK, RowsOK
<1>5. RowOK(id)'
  BY <1>1, <1>2, <1>3, <1>4 DEF RowOK, DocumentOK
<1>6. BytesOK'
  <2>1. bytes' = [bytes EXCEPT ![id] = n]
    BY DEF SaveMailbox, PutMailbox
  <2> QED
    BY <1>1, <1>2, <2>1 DEF BooksOK, BytesOK
<1> QED
  BY <1>1, <1>2, <1>3, <1>5, <1>6, RowsStay DEF BooksOK

LEMMA RemovalBooks ==
    ASSUME DatabaseOK, BooksOK, NEW id \in live, NEW b \in Mailbox, NEW n,
           NEW S \in SUBSET envelopes[id],
           b.envelopeCount = box[id].envelopeCount, DocumentOK(b),
           n = bytes[id], CommitRemoval(id, b, n, S)
    PROVE  /\ BooksOK' /\ live' = live /\ box' = [box EXCEPT ![id] = ReleaseEnvelopes(b, S)]
           /\ envelopes' = [envelopes EXCEPT ![id] = @ \ S]
<1> DEFINE c == ReleaseEnvelopes(b, S)
<1>1. id \in Ids /\ live' = live /\ box' = [box EXCEPT ![id] = c]
  BY DEF CommitRemoval, PutMailbox, DatabaseOK
<1>2. /\ envelopes' = [envelopes EXCEPT ![id] = {e \in @ : \A x \in S : x.cursor # e.cursor}]
      /\ dedupe' = [dedupe EXCEPT ![id] = WithoutRows(@, S)]
      /\ UNCHANGED <<mailboxCount, retiredCursor>>
  BY DEF CommitRemoval
<1>3. RowOK(id) /\ IsFiniteSet(envelopes[id])
  BY <1>1 DEF BooksOK, RowsOK, DatabaseOK
<1>4. {e \in envelopes[id] : \A x \in S : x.cursor # e.cursor} = envelopes[id] \ S
  BY <1>3 DEF RowOK
<1>5. envelopes' = [envelopes EXCEPT ![id] = @ \ S]
  BY <1>2, <1>4 DEF DatabaseOK
<1>6. /\ c.readers = b.readers /\ c.acked = b.acked /\ c.nextCursor = b.nextCursor
      /\ c.envelopeCount = b.envelopeCount - Cardinality(S)
  BY ReleasedFields
<1> HIDE DEF c
<1>7. box'[id] = c /\ envelopes'[id] = envelopes[id] \ S /\ Elsewhere(id)
  BY <1>1, <1>2, <1>5 DEF Elsewhere, DatabaseOK
<1>8. c.envelopeCount = Cardinality(envelopes[id] \ S)
  <2>1. Cardinality(envelopes[id] \ S) = Cardinality(envelopes[id]) - Cardinality(envelopes[id] \cap S)
    BY <1>3, FS_Difference
  <2>2. envelopes[id] \cap S = S
    OBVIOUS
  <2> QED
    BY <1>3, <1>6, <2>1, <2>2 DEF RowOK
<1>9. \A d \in EnvelopeIds :
         dedupe'[id][d] = IF \E x \in S : x.envelopeId = d THEN 0 ELSE dedupe[id][d]
  BY <1>1, <1>2 DEF WithoutRows, DatabaseOK
<1>10. \A e \in envelopes[id] : e.envelopeId \in EnvelopeIds
  BY <1>1 DEF DatabaseOK, Envelope
<1>11. \A e \in envelopes[id] \ S : dedupe'[id][e.envelopeId] = e.cursor
  BY <1>3, <1>9, <1>10 DEF RowOK
<1>12. \A d \in EnvelopeIds : dedupe'[id][d] # 0 =>
         \E e \in envelopes[id] \ S : e.envelopeId = d /\ e.cursor = dedupe'[id][d]
  BY <1>3, <1>9 DEF RowOK
<1>13. DocumentOK(c)
  BY <1>6 DEF DocumentOK
<1>14. RowOK(id)'
  BY <1>1, <1>3, <1>7, <1>8, <1>11, <1>12, <1>13 DEF RowOK, DocumentOK
<1>15. BytesOK'
  <2> DEFINE E == envelopes[id] \ S
             m == n - SizeOf(S)
  <2>1. bytes' = [bytes EXCEPT ![id] = m]
    BY DEF CommitRemoval, PutMailbox
  <2>2. n = SizeOf(envelopes[id]) /\ envelopes[id] \in SUBSET Envelope
    BY <1>1 DEF BooksOK, BytesOK, DatabaseOK
  <2>3. m = SizeOf(E)
    BY <1>3, <2>2, SizeShrinks
  <2>4. envelopes' = [envelopes EXCEPT ![id] = E]
    BY <1>5
  <2> HIDE DEF E, m
  <2> QED
    BY <1>1, <2>1, <2>3, <2>4, BytesStay DEF BooksOK
<1> QED
  BY <1>1, <1>2, <1>5, <1>7, <1>14, <1>15, RowsStay DEF BooksOK, c

LEMMA AppendBooks ==
    ASSUME DatabaseOK, BooksOK, CursorsKnown,
           NEW id \in live, NEW b \in Mailbox, NEW n, NEW e \in Envelope,
           b.envelopeCount = box[id].envelopeCount + 1, DocumentOK(b),
           e.cursor = box[id].nextCursor, dedupe[id][e.envelopeId] = 0,
           n = bytes[id] + e.size, CommitAppend(id, b, n, e)
    PROVE  /\ BooksOK' /\ live' = live /\ box' = [box EXCEPT ![id] = b]
           /\ envelopes' = [envelopes EXCEPT ![id] = @ \cup {e}]
           /\ \A x \in envelopes[id] : x.envelopeId # e.envelopeId
<1>1. id \in Ids /\ live' = live /\ box' = [box EXCEPT ![id] = b]
  BY DEF CommitAppend, PutMailbox, DatabaseOK
<1>2. /\ envelopes' = [envelopes EXCEPT ![id] = {x \in @ : x.cursor # e.cursor} \cup {e}]
      /\ dedupe' = [dedupe EXCEPT ![id][e.envelopeId] = e.cursor]
      /\ UNCHANGED <<mailboxCount, retiredCursor>>
  BY DEF CommitAppend
<1>3. RowOK(id) /\ IsFiniteSet(envelopes[id]) /\ envelopes[id] \subseteq Envelope
  BY <1>1 DEF BooksOK, RowsOK, DatabaseOK
<1>4. \A x \in envelopes[id] : x.cursor < e.cursor /\ x.cursor \in Nat
  <2>1. issued[id] < box[id].nextCursor /\ issued[id] \in Nat /\ box[id].nextCursor \in Nat
    BY <1>1 DEF DatabaseOK, FreshCursors, Mailbox
  <2>2. \A x \in envelopes[id] : x.cursor \in Nat /\ x.cursor <= issued[id]
    BY <1>1, <1>3 DEF CursorsKnown, Envelope
  <2> QED
    BY <2>1, <2>2, SMT
<1>5. {x \in envelopes[id] : x.cursor # e.cursor} = envelopes[id] /\ e \notin envelopes[id]
  BY <1>4, SMT
<1>6. envelopes' = [envelopes EXCEPT ![id] = @ \cup {e}]
  BY <1>2, <1>5 DEF DatabaseOK
<1>7. /\ box'[id] = b /\ envelopes'[id] = envelopes[id] \cup {e} /\ Elsewhere(id)
  BY <1>1, <1>2, <1>6 DEF Elsewhere, DatabaseOK
<1>8. e.envelopeId \in EnvelopeIds /\ e.cursor \in Nat /\ e.cursor >= 1
  BY <1>3 DEF Envelope, RowOK, DocumentOK
<1>9. \A x \in envelopes[id] : x.envelopeId # e.envelopeId
  BY <1>3, <1>4, SMT DEF RowOK
<1>10. b.envelopeCount = Cardinality(envelopes[id] \cup {e})
  <2>1. Cardinality(envelopes[id] \cup {e}) = Cardinality(envelopes[id]) + 1
    BY <1>3, <1>5, FS_AddElement
  <2> QED
    BY <1>3, <2>1 DEF RowOK
<1>11. /\ dedupe'[id][e.envelopeId] = e.cursor
       /\ \A d \in EnvelopeIds \ {e.envelopeId} : dedupe'[id][d] = dedupe[id][d]
  BY <1>1, <1>2, <1>8 DEF DatabaseOK
<1>12. \A x \in envelopes[id] \cup {e} : x.cursor >= 1 /\ dedupe'[id][x.envelopeId] = x.cursor
  <2>1. \A x \in envelopes[id] : x.envelopeId \in EnvelopeIds \ {e.envelopeId}
    BY <1>3, <1>9 DEF Envelope
  <2> QED
    BY <1>3, <1>8, <1>11, <2>1 DEF RowOK
<1>13. \A d \in EnvelopeIds : dedupe'[id][d] # 0 =>
         \E x \in envelopes[id] \cup {e} : x.envelopeId = d /\ x.cursor = dedupe'[id][d]
  BY <1>3, <1>11 DEF RowOK
<1>14. \A x, y \in envelopes[id] \cup {e} : x.cursor = y.cursor => x = y
  BY <1>3, <1>4, <1>8, SMT DEF RowOK
<1>15. RowOK(id)'
  BY <1>1, <1>7, <1>10, <1>12, <1>13, <1>14 DEF RowOK, DocumentOK
<1>16. BytesOK'
  <2> DEFINE E == envelopes[id] \cup {e}
  <2>1. bytes' = [bytes EXCEPT ![id] = n]
    BY DEF CommitAppend, PutMailbox
  <2>2. bytes[id] = SizeOf(envelopes[id])
    BY <1>1 DEF BooksOK, BytesOK
  <2>3. n = SizeOf(E)
    BY <1>3, <1>5, <2>2, SizeGrows
  <2>4. envelopes' = [envelopes EXCEPT ![id] = E]
    BY <1>6
  <2> HIDE DEF E
  <2> QED
    BY <1>1, <2>1, <2>3, <2>4, BytesStay DEF BooksOK
<1> QED
  BY <1>1, <1>2, <1>6, <1>7, <1>9, <1>15, <1>16, RowsStay DEF BooksOK

LEMMA LiveIsFinite ==
    ASSUME live \subseteq Ids
    PROVE  IsFiniteSet(live)
BY ServiceAssumption, FS_Subset

LEMMA CreateBooks ==
    ASSUME DatabaseOK, BooksOK, NEW id \in Ids, id \notin live, NEW b \in Mailbox,
           b.envelopeCount = 0, DocumentOK(b), CreateMailbox(id, b)
    PROVE  /\ BooksOK' /\ live' = live \cup {id} /\ box' = [box EXCEPT ![id] = b]
           /\ envelopes' = envelopes /\ box[id] = Blank
<1>1. live' = live \cup {id} /\ box' = [box EXCEPT ![id] = b] /\ mailboxCount' = mailboxCount + 1
  BY DEF CreateMailbox, PutMailbox
<1>2. UNCHANGED <<envelopes, dedupe, retiredCursor>>
  BY DEF CreateMailbox
<1>3. RowOK(id) /\ box[id] = Blank /\ envelopes[id] = {}
  BY DEF BooksOK, RowsOK, RowOK
<1>4. box'[id] = b /\ Elsewhere(id)
  BY <1>1, <1>2 DEF Elsewhere, DatabaseOK
<1>5. RowOK(id)'
  BY <1>1, <1>2, <1>3, <1>4, FS_EmptySet DEF RowOK, DocumentOK
<1>6. mailboxCount' = Cardinality(live')
  BY <1>1, LiveIsFinite, FS_AddElement DEF BooksOK, DatabaseOK
<1>7. BytesOK'
  <2>1. bytes' = [bytes EXCEPT ![id] = 0]
    BY DEF CreateMailbox, PutMailbox
  <2>2. bytes[id] = 0
    BY <1>3, SizeOfNone DEF BooksOK, BytesOK
  <2> QED
    BY <1>2, <2>1, <2>2 DEF BooksOK, BytesOK
<1> QED
  BY <1>1, <1>2, <1>3, <1>4, <1>5, <1>6, <1>7, RowsStay DEF BooksOK

LEMMA RemoveBooks ==
    ASSUME DatabaseOK, BooksOK, NEW id \in live, RemoveMailbox(id)
    PROVE  /\ BooksOK' /\ live' = live \ {id} /\ box' = [box EXCEPT ![id] = Blank]
           /\ envelopes' = [envelopes EXCEPT ![id] = {}]
           /\ Cardinality(live') = Cardinality(live) - 1
           /\ issued[id] <= retiredCursor'
<1>1. /\ id \in Ids /\ live' = live \ {id} /\ box' = [box EXCEPT ![id] = Blank]
      /\ envelopes' = [envelopes EXCEPT ![id] = {}]
      /\ dedupe' = [dedupe EXCEPT ![id] = WithoutRows(@, envelopes[id])]
      /\ mailboxCount' = mailboxCount - 1
      /\ retiredCursor' = Floor(id)
  BY DEF RemoveMailbox, DatabaseOK
<1>2. RowOK(id) /\ envelopes[id] \subseteq Envelope
  BY <1>1 DEF BooksOK, RowsOK, DatabaseOK
<1>3. \A d \in EnvelopeIds : dedupe'[id][d] = 0
  <2>1. \A d \in EnvelopeIds :
         dedupe'[id][d] = IF \E x \in envelopes[id] : x.envelopeId = d THEN 0 ELSE dedupe[id][d]
    BY <1>1 DEF WithoutRows, DatabaseOK
  <2> QED
    BY <1>2, <2>1 DEF RowOK
<1>4. box'[id] = Blank /\ envelopes'[id] = {} /\ Elsewhere(id)
  BY <1>1 DEF Elsewhere, DatabaseOK
<1>5. RowOK(id)'
  BY <1>1, <1>3, <1>4, BlankFields, FS_EmptySet DEF RowOK, DocumentOK
<1>6. Cardinality(live') = Cardinality(live) - 1 /\ mailboxCount' = Cardinality(live')
  BY <1>1, LiveIsFinite, FS_RemoveElement DEF BooksOK, DatabaseOK
<1>7. issued[id] <= retiredCursor' /\ retiredCursor' <= MaxCursor
  <2>1. issued[id] < box[id].nextCursor /\ issued[id] \in Nat /\ box[id].nextCursor \in Nat
    BY <1>1 DEF DatabaseOK, FreshCursors, Mailbox
  <2>2. box[id].nextCursor <= MaxCursor + 1 /\ MaxCursor \in Nat /\ retiredCursor \in Nat
        /\ retiredCursor <= MaxCursor
    BY <1>2, ServiceAssumption DEF RowOK, DocumentOK, DatabaseOK, BooksOK
  <2> QED
    BY <1>1, <2>1, <2>2, SMT DEF Floor, HighestCursor
<1>8. BytesOK'
  <2>1. bytes' = [bytes EXCEPT ![id] = 0]
    BY DEF RemoveMailbox
  <2> QED
    BY <1>1, <2>1, SizeOfNone, BytesStay DEF BooksOK
<1> QED
  BY <1>1, <1>4, <1>5, <1>6, <1>7, <1>8, RowsStay DEF BooksOK

-----------------------------------------------------------------------------
(* What the abstract queue sees of the service.                            *)

ReadersOf == [id \in Ids |-> box[id].readers]
AckedOf == [id \in Ids |-> box[id].acked]

QueueStep == [Queue!Next]_(Queue!vars)

LEMMA ViewChanges ==
    ASSUME box \in [Ids -> Mailbox], NEW id \in Ids, NEW b, box' = [box EXCEPT ![id] = b]
    PROVE  /\ ReadersOf' = [ReadersOf EXCEPT ![id] = b.readers]
           /\ AckedOf' = [AckedOf EXCEPT ![id] = b.acked]
BY DEF ReadersOf, AckedOf

LEMMA ViewStays ==
    ASSUME box \in [Ids -> Mailbox], NEW id \in Ids, NEW b, box' = [box EXCEPT ![id] = b],
           b.readers = box[id].readers, b.acked = box[id].acked
    PROVE  ReadersOf' = ReadersOf /\ AckedOf' = AckedOf
BY DEF ReadersOf, AckedOf

LEMMA QueueStutters ==
    ASSUME UNCHANGED <<live, ReadersOf, AckedOf, envelopes, issued, position, delivered, now>>
    PROVE  QueueStep
BY DEF QueueStep, Queue!vars, ReadersOf, AckedOf

LEMMA QueueActs ==
    ASSUME NEW id \in Ids
    PROVE  /\ Queue!Open(id) => QueueStep
           /\ Queue!Post(id) => QueueStep
           /\ Queue!Show(id) => QueueStep
           /\ Queue!Acknowledge(id) => QueueStep
           /\ Queue!Join(id) => QueueStep
           /\ Queue!Leave(id) => QueueStep
           /\ Queue!Age(id) => QueueStep
           /\ Queue!Close(id) => QueueStep
BY DEF QueueStep, Queue!Next

LEMMA NothingWritten ==
    ASSUME UNCHANGED database
    PROVE  /\ UNCHANGED <<live, ReadersOf, AckedOf, envelopes>>
           /\ BooksOK => BooksOK'
BY DEF database, ReadersOf, AckedOf, BooksOK, BytesOK, RowsOK, RowOK, DocumentOK

LEMMA JobMovesOn ==
    ASSUME JobsOK, NEW w \in Workers, inflight[w] # Idle \/ CoordinatorFree,
           NEW j, inflight' = [inflight EXCEPT ![w] = j], JobHolds(j)'
    PROVE  JobsHold'
<1>1. inflight'[w] = j /\ \A v \in Workers \ {w} : inflight'[v] = Idle
  BY DEF JobsOK, OneHandlerAtATime, CoordinatorFree
<1>2. JobHolds(Idle)'
  BY DEF JobHolds, Idle
<1>3. ASSUME NEW v \in Workers PROVE JobHolds(inflight[v])'
  <2>1. CASE v = w
    BY <1>1, <2>1 DEF JobHolds
  <2>2. CASE v # w
    BY <1>1, <1>2, <2>2 DEF JobHolds
  <2> QED
    BY <2>1, <2>2
<1> QED
  BY <1>3 DEF JobsHold

LEMMA AnswerHolds ==
    ASSUME JobsOK, NEW w \in Workers, inflight[w] # Idle, NEW o, Answer(w, o, {})
    PROVE  JobsHold'
<1>1. PICK j : j = [phase |-> "done", req |-> inflight[w].req, outcome |-> o, page |-> {}]
  OBVIOUS
<1>2. inflight' = [inflight EXCEPT ![w] = j]
  BY <1>1 DEF Answer
<1>3. JobHolds(j)'
  BY <1>1 DEF JobHolds
<1> QED
  BY <1>2, <1>3, JobMovesOn

-----------------------------------------------------------------------------
(* Every step keeps the books and is a step of the queue.                  *)

LEMMA StartImplements ==
    ASSUME Inv, QueueInv, NEW w \in Workers, NEW req, Start(w, req),
           req.op = "append" => box[req.id].nextCursor <= MaxCursor,
           req.op = "expire" => req.at <= now
    PROVE  QueueInv' /\ QueueStep
<1>1. UNCHANGED database /\ UNCHANGED <<now, issued, position, delivered>> /\ CoordinatorFree
  BY DEF Start, world, clients
<1>2. PICK j : j = [phase |-> "loaded", req |-> req, snap |-> Snapshot(req.id)]
  OBVIOUS
<1>3. inflight' = [inflight EXCEPT ![w] = j]
  BY <1>2 DEF Start
<1>4. JobHolds(j)'
  BY <1>1, <1>2 DEF JobHolds, database
<1>5. JobsHold'
  BY <1>1, <1>3, <1>4, JobMovesOn DEF Inv
<1> QED
  BY <1>1, <1>5, NothingWritten, QueueStutters DEF QueueInv

LEMMA RefusalsImplement ==
    ASSUME Inv, QueueInv, NEW w \in Workers, EndWithoutWrite(w) \/ Fail(w)
    PROVE  QueueInv' /\ QueueStep
<1>1. /\ UNCHANGED database /\ UNCHANGED <<now, issued, position, delivered>>
      /\ Answer(w, "nothing", {}) /\ inflight[w] # Idle
  BY DEF EndWithoutWrite, Fail, world, clients, Done, Idle
<1>2. JobsHold'
  BY <1>1, AnswerHolds DEF Inv
<1> QED
  BY <1>1, <1>2, NothingWritten, QueueStutters DEF QueueInv

LEMMA PassesImplement ==
    ASSUME Inv, QueueInv, StartSweep \/ Crash \/ UNCHANGED vars
    PROVE  QueueInv' /\ QueueStep
<1>1. UNCHANGED database /\ UNCHANGED <<now, issued, position, delivered>>
  BY DEF StartSweep, Crash, vars, world, clients
<1>2. JobHolds(Idle)'
  BY DEF JobHolds, Idle
<1>3. JobsHold'
  <2>1. CASE Crash
    BY <1>2, <2>1 DEF Crash, JobsHold, JobHolds
  <2>2. CASE StartSweep \/ UNCHANGED vars
    <3>1. UNCHANGED <<inflight, maxMailboxes, live, box, envelopes>>
      BY <1>1, <2>2 DEF StartSweep, vars, process, database
    <3> QED
      BY <1>1, <3>1 DEF QueueInv, JobsHold, JobHolds, SparesNone
  <2> QED
    BY <2>1, <2>2
<1> QED
  BY <1>1, <1>3, NothingWritten, QueueStutters DEF QueueInv

LEMMA TickImplements ==
    ASSUME Inv, QueueInv, Tick
    PROVE  QueueInv' /\ QueueStep
<1>1. /\ UNCHANGED database /\ UNCHANGED <<issued, position, delivered, inflight, maxMailboxes>>
      /\ now' = now + 1 /\ now \in Nat
  BY ServiceAssumption, SMT DEF Tick, process, clients, Inv, WorldOK
<1>2. ASSUME NEW w \in Workers PROVE JobHolds(inflight[w])'
  <2>1. JobHolds(inflight[w]) /\ JobOK(inflight[w])
    BY DEF QueueInv, JobsHold, Inv, JobsOK
  <2>2. inflight[w].phase = "evicting" => inflight[w].at \in Nat
    BY <2>1, EvictingJob DEF EvictingJobs
  <2>3. inflight[w].phase = "loaded" /\ inflight[w].req.op = "expire"
           => inflight[w].req.at \in Nat
    BY <2>1, LoadedJob, RequestTypes
  <2>4. /\ inflight[w].phase = "evicting" => inflight[w].at <= now'
        /\ inflight[w].phase = "loaded" /\ inflight[w].req.op = "expire"
              => inflight[w].req.at <= now'
    BY <1>1, <2>1, <2>2, <2>3, SMT DEF JobHolds
  <2> QED
    BY <1>1, <2>1, <2>4 DEF JobHolds, database, SparesNone
<1>3. JobsHold'
  BY <1>2 DEF JobsHold
<1>4. Queue!Pass
  BY <1>1 DEF Queue!Pass, database
<1> QED
  BY <1>1, <1>3, <1>4, NothingWritten DEF QueueInv, QueueStep, Queue!Next

LEMMA SelectVictimsImplements ==
    ASSUME Inv, QueueInv, NEW w \in Workers, SelectVictims(w)
    PROVE  QueueInv' /\ QueueStep
<1>1. /\ UNCHANGED database /\ UNCHANGED <<now, issued, position, delivered, maxMailboxes>>
      /\ inflight[w] # Idle
  BY DEF SelectVictims, Loaded, world, clients, Idle
<1>2. PICK V \in VictimSets(SlotsNeeded) : inflight' = [inflight EXCEPT ![w] =
              [phase |-> "evicting", req |-> inflight[w].req, victims |-> V, at |-> now]]
  BY DEF SelectVictims
<1>3. PICK j : j = [phase |-> "evicting", req |-> inflight[w].req, victims |-> V, at |-> now]
  OBVIOUS
<1>4. /\ V \subseteq live /\ \A v \in V : IsIdleAndEmpty(box[v], now)
      /\ Cardinality(V) = SlotsNeeded
  BY DEF VictimSets, EvictionCandidates
<1>5. IsFiniteSet(V) /\ IsFiniteSet(live)
  BY <1>4, LiveIsFinite, FS_Subset DEF Inv, DatabaseOK
<1>6. mailboxCount = Cardinality(live) /\ mailboxCount \in Nat /\ maxMailboxes \in Nat /\ now \in Nat
  BY <1>5, FS_CardinalityType, ServiceAssumption, SMT
     DEF QueueInv, BooksOK, Inv, WorldOK
<1>7. V # {} => Cardinality(live) = Cardinality(V) + maxMailboxes - 1
  <2>1. V # {} => Cardinality(V) # 0
    BY <1>5, FS_EmptySet
  <2> QED
    BY <1>4, <1>6, <2>1, SMT DEF SlotsNeeded
<1>8. ASSUME NEW v \in V, NEW c \in live, envelopes[c] = {}, box[c].lastReadAt < box[v].lastReadAt
      PROVE  c \in V
  <2>1. /\ c \in Ids /\ v \in Ids /\ box[c].envelopeCount = 0
        /\ box[c].lastReadAt \in Nat /\ box[v].lastReadAt \in Nat /\ EvictionIdle \in Nat
    BY <1>4, <1>8, FS_EmptySet, PolicyAssumption
       DEF Inv, DatabaseOK, Mailbox, QueueInv, BooksOK, RowsOK, RowOK
  <2>2. box[v].lastReadAt + EvictionIdle <= now
    BY <1>4 DEF IsIdleAndEmpty
  <2>3. IsIdleAndEmpty(box[c], now)
    BY <1>6, <1>8, <2>1, <2>2, SMT DEF IsIdleAndEmpty
  <2>4. c \in EvictionCandidates
    BY <2>3 DEF EvictionCandidates
  <2>5. c \notin V => box[v].lastReadAt <= box[c].lastReadAt
    BY <2>4 DEF VictimSets
  <2> QED
    BY <1>8, <2>1, <2>5, SMT
<1>9. \A v \in V : SparesNone(V, v)'
  BY <1>1, <1>8 DEF SparesNone, database
<1>10. JobHolds(j)'
  BY <1>1, <1>3, <1>4, <1>5, <1>6, <1>7, <1>9 DEF JobHolds, database
<1>11. JobsHold'
  BY <1>1, <1>2, <1>3, <1>10, JobMovesOn DEF Inv
<1> QED
  BY <1>1, <1>11, NothingWritten, QueueStutters DEF QueueInv

(* A mailbox that goes is closed.                                           *)
LEMMA RemovalCloses ==
    ASSUME Inv, QueueInv, NEW id \in live, RemoveMailbox(id),
           UNCHANGED <<now, issued, position, delivered>>
    PROVE  BooksOK' /\ QueueStep
<1>1. /\ BooksOK' /\ live' = live \ {id} /\ box' = [box EXCEPT ![id] = Blank]
      /\ envelopes' = [envelopes EXCEPT ![id] = {}] /\ id \in Ids
  BY RemoveBooks DEF Inv, DatabaseOK, QueueInv
<1>2. /\ ReadersOf' = [ReadersOf EXCEPT ![id] = {}]
      /\ AckedOf' = [AckedOf EXCEPT ![id] = [r \in Readers |-> 0]]
  <2>1. box \in [Ids -> Mailbox]
    BY DEF Inv, DatabaseOK
  <2>2. /\ ReadersOf' = [ReadersOf EXCEPT ![id] = Blank.readers]
        /\ AckedOf' = [AckedOf EXCEPT ![id] = Blank.acked]
    BY ONLY <1>1, <2>1, ViewChanges, Zenon
  <2> QED
    BY <2>2, BlankFields
<1>3. Queue!Close(id)
  BY <1>1, <1>2 DEF Queue!Close, ReadersOf, AckedOf
<1> QED
  BY <1>1, <1>3, QueueActs

LEMMA EvictImplements ==
    ASSUME Inv, QueueInv, NEW w \in Workers, Evict(w)
    PROVE  QueueInv' /\ QueueStep
<1>1. /\ inflight[w].phase = "evicting" /\ inflight[w] # Idle
      /\ UNCHANGED <<now, issued, position, delivered, maxMailboxes>>
  BY DEF Evict, world, clients, Idle
<1>2. PICK v \in inflight[w].victims :
          RemoveMailbox(v) /\ inflight' = [inflight EXCEPT ![w].victims = @ \ {v}]
  BY DEF Evict
<1>3. inflight[w] \in EvictingJobs /\ JobHolds(inflight[w])
  BY <1>1, EvictingJob DEF Inv, JobsOK, QueueInv, JobsHold
<1> DEFINE V == inflight[w].victims
<1>4. /\ inflight[w].at <= now /\ IsFiniteSet(V)
      /\ \A u \in V : u \in live /\ IsIdleAndEmpty(box[u], inflight[w].at)
      /\ Cardinality(live) = Cardinality(V) + maxMailboxes - 1
  BY <1>1, <1>2, <1>3 DEF JobHolds
<1>5. BooksOK' /\ QueueStep
  BY <1>1, <1>2, <1>4, RemovalCloses
<1>6. /\ live' = live \ {v} /\ box' = [box EXCEPT ![v] = Blank] /\ live \subseteq Ids
      /\ Cardinality(live') = Cardinality(live) - 1
  BY <1>2, <1>4, RemoveBooks DEF Inv, DatabaseOK, QueueInv
<1>7. Cardinality(V \ {v}) = Cardinality(V) - 1 /\ IsFiniteSet(V \ {v})
  BY <1>2, <1>4, FS_RemoveElement
<1>8. maxMailboxes \in Nat /\ Cardinality(V) \in Nat /\ Cardinality(live) \in Nat
  BY <1>4, <1>6, LiveIsFinite, FS_CardinalityType, ServiceAssumption DEF Inv, WorldOK
<1>9. PICK j : j = [inflight[w] EXCEPT !.victims = @ \ {v}]
  OBVIOUS
<1>10. inflight' = [inflight EXCEPT ![w] = j]
  BY <1>2, <1>9 DEF Inv, JobsOK
<1>11. j.phase = "evicting" /\ j.victims = V \ {v} /\ j.at = inflight[w].at
  BY <1>1, <1>3, <1>9 DEF EvictingJobs
<1>12. \A u \in V \ {v} : u \in live' /\ box'[u] = box[u]
  BY <1>4, <1>6 DEF Inv, DatabaseOK
<1>13. Cardinality(live') = Cardinality(V \ {v}) + maxMailboxes' - 1
  BY <1>1, <1>4, <1>6, <1>7, <1>8, SMT
<1>14. \A u \in j.victims : SparesNone(j.victims, u)'
  <2>1. \A c \in live' : c \in live /\ c # v /\ box'[c] = box[c] /\ envelopes'[c] = envelopes[c]
    BY <1>2, <1>6 DEF RemoveMailbox, Inv, DatabaseOK
  <2>2. \A u \in V : SparesNone(V, u)
    BY <1>1, <1>3 DEF JobHolds
  <2>3. j.victims = V \ {v} /\ \A u \in V \ {v} : box'[u] = box[u]
    BY <1>11, <1>12
  <2> HIDE DEF V
  <2> QED
    BY <2>1, <2>2, <2>3 DEF SparesNone
<1>15. JobHolds(j)'
  BY <1>1, <1>4, <1>7, <1>11, <1>12, <1>13, <1>14 DEF JobHolds, IsIdleAndEmpty
<1>16. JobsHold'
  BY <1>1, <1>10, <1>15, JobMovesOn DEF Inv
<1> QED
  BY <1>5, <1>16 DEF QueueInv

LEMMA RemovalsImplement ==
    ASSUME Inv, QueueInv, NEW w \in Workers, Remove(w) \/ ExpireMailbox(w)
    PROVE  QueueInv' /\ QueueStep
<1>1. /\ inflight[w].phase = "loaded" /\ inflight[w].snap.exists
      /\ RemoveMailbox(inflight[w].req.id) /\ Answer(w, "removed", {})
      /\ UNCHANGED <<now, issued, position, delivered>>
  BY DEF Remove, ExpireMailbox, Loaded, Authorised, world, clients, Done
<1>2. inflight[w].req.id \in live /\ inflight[w] # Idle
  BY <1>1, FoundMailbox
<1>3. BooksOK' /\ QueueStep
  BY <1>1, <1>2, RemovalCloses
<1>4. JobsHold'
  BY <1>1, <1>2, AnswerHolds DEF Inv
<1> QED
  BY <1>3, <1>4 DEF QueueInv

(* What a handler that found its mailbox holds.                             *)
LEMMA HeldMailbox ==
    ASSUME Inv, QueueInv, NEW w \in Workers, inflight[w].phase = "loaded",
           inflight[w].snap.exists
    PROVE  /\ inflight[w] # Idle /\ inflight[w].req \in Requests
           /\ inflight[w].req.id \in live /\ inflight[w].req.id \in Ids
           /\ inflight[w].snap.box = box[inflight[w].req.id]
           /\ inflight[w].snap.envelopes = envelopes[inflight[w].req.id]
           /\ inflight[w].snap.dedupe = dedupe[inflight[w].req.id]
           /\ inflight[w].snap.bytes = bytes[inflight[w].req.id]
           /\ inflight[w].snap.box \in Mailbox /\ InOrder(inflight[w].snap.box)
           /\ DocumentOK(inflight[w].snap.box)
           /\ now \in 0 .. MaxTime /\ now \in Nat
           /\ box \in [Ids -> Mailbox] /\ envelopes \in [Ids -> SUBSET Envelope]
<1>1. inflight[w].snap = Snapshot(inflight[w].req.id)
  BY LoadedJob DEF Inv, JobsOK
<1>2. /\ inflight[w].snap.dedupe = dedupe[inflight[w].req.id]
      /\ inflight[w].snap.bytes = bytes[inflight[w].req.id]
  <2>1. inflight[w].snap.dedupe = dedupe[inflight[w].req.id]
    BY ONLY <1>1, SnapshotFields, Zenon
  <2>2. inflight[w].snap.bytes = bytes[inflight[w].req.id]
    BY ONLY <1>1, SnapshotFields, Zenon
  <2> QED
    BY <2>1, <2>2
<1>3. /\ inflight[w] # Idle /\ inflight[w].req \in Requests
      /\ inflight[w].snap.box = box[inflight[w].req.id]
      /\ inflight[w].snap.envelopes = envelopes[inflight[w].req.id]
      /\ inflight[w].req.id \in live /\ inflight[w].req.id \in Ids
      /\ inflight[w].snap.box \in Mailbox /\ InOrder(inflight[w].snap.box)
  BY FoundMailbox
<1>4. DocumentOK(box[inflight[w].req.id])
  BY <1>3 DEF QueueInv, BooksOK, RowsOK, RowOK
<1>5. now \in 0 .. MaxTime /\ now \in Nat
  BY ServiceAssumption, SMT DEF Inv, WorldOK
<1>6. box \in [Ids -> Mailbox] /\ envelopes \in [Ids -> SUBSET Envelope]
  BY DEF Inv, DatabaseOK
<1>7. DocumentOK(inflight[w].snap.box)
  BY <1>3, <1>4
<1> QED
  BY <1>2, <1>3, <1>5, <1>6, <1>7, Zenon

LEMMA CreateImplements ==
    ASSUME Inv, QueueInv, NEW w \in Workers, Create(w)
    PROVE  QueueInv' /\ QueueStep
<1> DEFINE req == inflight[w].req
           b == NewMailbox(req.post, req.reader, FirstCursor, inflight[w].at)
<1>1. /\ inflight[w].phase = "evicting" /\ inflight[w] # Idle
      /\ CreateMailbox(req.id, b) /\ Answer(w, "created", {})
      /\ UNCHANGED <<now, issued, position, delivered>>
  BY DEF Create, world, clients, Idle, Done
<1>2. /\ req \in Requests /\ req.op = "create"
      /\ req.id \in Ids /\ req.id \notin live /\ inflight[w].at \in Nat
  BY <1>1, EvictingJob DEF Inv, JobsOK, EvictingJobs
<1>3. FirstCursor \in Nat /\ FirstCursor >= 1 /\ FirstCursor <= MaxCursor + 1
  BY ServiceAssumption, SMT DEF FirstCursor, Inv, DatabaseOK, QueueInv, BooksOK
<1>4. req.post \in Posts /\ req.reader \in Readers
  BY <1>2, RequestTypes
<1>5. b \in Mailbox
  BY <1>2, <1>3, <1>4, NewMailboxType
<1>6. /\ b.readers = {req.reader} /\ b.acked = [r \in Readers |-> 0]
      /\ b.nextCursor = FirstCursor /\ b.envelopeCount = 0
  BY NewFields
<1> HIDE DEF b, req
<1>7. DocumentOK(b)
  BY <1>3, <1>6 DEF DocumentOK
<1>8. /\ BooksOK' /\ live' = live \cup {req.id} /\ box' = [box EXCEPT ![req.id] = b]
      /\ envelopes' = envelopes /\ box[req.id] = Blank
  BY <1>1, <1>2, <1>5, <1>6, <1>7, CreateBooks DEF Inv, QueueInv
<1>9. ReadersOf' = [ReadersOf EXCEPT ![req.id] = {req.reader}] /\ AckedOf' = AckedOf
  <2>1. box \in [Ids -> Mailbox]
    BY DEF Inv, DatabaseOK
  <2>2. /\ ReadersOf' = [ReadersOf EXCEPT ![req.id] = b.readers]
        /\ AckedOf' = [AckedOf EXCEPT ![req.id] = b.acked]
    BY ONLY <1>2, <1>8, <2>1, ViewChanges, Zenon
  <2>3. AckedOf[req.id] = b.acked
    BY <1>2, <1>6, <1>8, BlankFields DEF AckedOf
  <2> QED
    BY <1>6, <2>2, <2>3 DEF AckedOf
<1>10a. PICK id \in Ids : id = req.id
  BY <1>2
<1>10. Queue!Open(id)
  BY <1>10a, <1>1, <1>2, <1>4, <1>8, <1>9 DEF Queue!Open, ReadersOf, AckedOf
<1>11. JobsHold'
  BY <1>1, AnswerHolds DEF Inv
<1>12. QueueStep
  BY <1>10, QueueActs
<1> QED
  BY <1>8, <1>11, <1>12 DEF QueueInv

LEMMA AppendImplements ==
    ASSUME Inv, DeliveryInv, QueueInv, NEW w \in Workers, Append(w)
    PROVE  QueueInv' /\ QueueStep
<1> DEFINE req == inflight[w].req
           old == inflight[w].snap.box
           charged == ConsumeAppend(old.bucket, now)
           b == [ReserveEnvelope(old) EXCEPT !.bucket = charged]
           e == [envelopeId |-> req.envelope, cursor |-> old.nextCursor,
                 size |-> req.size, storedAt |-> now]
           n == inflight[w].snap.bytes + req.size
<1>1. /\ inflight[w].phase = "loaded" /\ req.op = "append" /\ AppendAllowed(w)
      /\ CommitAppend(req.id, [ReserveEnvelope(old) EXCEPT !.bucket = ConsumeAppend(@, now)], n, e)
      /\ issued' = [issued EXCEPT ![req.id] = IF old.nextCursor > @ THEN old.nextCursor ELSE @]
      /\ Answer(w, "appended", {})
      /\ UNCHANGED <<now, position, delivered>>
  BY DEF Append, Loaded, Done, clients
<1>2. /\ inflight[w] # Idle /\ req \in Requests /\ req.id \in live /\ req.id \in Ids
      /\ old = box[req.id] /\ old \in Mailbox /\ InOrder(old) /\ DocumentOK(old)
      /\ inflight[w].snap.dedupe = dedupe[req.id] /\ inflight[w].snap.bytes = bytes[req.id]
      /\ now \in 0 .. MaxTime /\ now \in Nat
      /\ box \in [Ids -> Mailbox] /\ envelopes \in [Ids -> SUBSET Envelope]
  BY <1>1, HeldMailbox DEF AppendAllowed
<1>3. req.envelope \in EnvelopeIds /\ req.size \in Sizes
  BY <1>1, <1>2, RequestTypes
<1>4. /\ old.nextCursor \in Nat /\ old.nextCursor >= 1 /\ old.nextCursor <= MaxCursor
      /\ MaxCursor \in Nat /\ old.envelopeCount \in Int
  <2>1. JobHolds(inflight[w])
    BY DEF QueueInv, JobsHold
  <2> QED
    BY <1>1, <1>2, <2>1, ServiceAssumption DEF JobHolds, DocumentOK, Mailbox
<1>5. charged \in Bucket
  <2>1. old.bucket \in Bucket /\ MayAppend(old.bucket, now)
    BY <1>1, <1>2 DEF AppendAllowed, Mailbox
  <2> QED
    BY <1>2, <2>1, ConsumeAppendType
<1>6. CommitAppend(req.id, b, n, e)
  <2>1. [ReserveEnvelope(old) EXCEPT !.bucket = ConsumeAppend(@, now)] = b
    BY DEF ReserveEnvelope
  <2> QED
    BY <1>1, <2>1, Zenon
<1>7. /\ e.envelopeId = req.envelope /\ e.cursor = old.nextCursor
      /\ e.size = req.size /\ e.storedAt = now
      /\ n = bytes[req.id] + e.size
  BY <1>2
<1>8. e \in Envelope /\ e \in [envelopeId : EnvelopeIds, cursor : 1 .. MaxCursor,
                               size : Sizes, storedAt : 0 .. MaxTime]
  <2>1. old.nextCursor \in 1 .. MaxCursor /\ old.nextCursor \in Nat
    BY <1>4, SMT
  <2> QED
    BY <1>2, <1>3, <2>1 DEF Envelope
<1> HIDE DEF e, n, charged
<1>9. /\ b.readers = old.readers /\ b.acked = old.acked
      /\ b.nextCursor = old.nextCursor + 1 /\ b.envelopeCount = old.envelopeCount + 1
  BY <1>2, ReservedFields, Zenon
<1>10. b \in Mailbox
  BY <1>2, <1>5, ReservedType, Zenon
<1> HIDE DEF b, old, req
<1>11. DocumentOK(b)
  BY <1>2, <1>4, <1>9 DEF DocumentOK
<1>12. dedupe[req.id][e.envelopeId] = 0
  BY <1>1, <1>2, <1>7 DEF AppendAllowed, req
<1>13. b.envelopeCount = box[req.id].envelopeCount + 1 /\ e.cursor = box[req.id].nextCursor
  BY <1>2, <1>7, <1>9
<1>14. /\ BooksOK' /\ live' = live /\ box' = [box EXCEPT ![req.id] = b]
       /\ envelopes' = [envelopes EXCEPT ![req.id] = @ \cup {e}]
       /\ \A x \in envelopes[req.id] : x.envelopeId # e.envelopeId
  BY <1>2, <1>6, <1>7, <1>8, <1>10, <1>11, <1>12, <1>13, AppendBooks
     DEF Inv, QueueInv, DeliveryInv
<1>15. ReadersOf' = ReadersOf /\ AckedOf' = AckedOf
  BY ONLY <1>2, <1>9, <1>14, ViewStays, Zenon
<1>16. issued[req.id] < e.cursor /\ issued[req.id] \in Nat /\ e.cursor \in Nat
  BY <1>2, <1>4, <1>7 DEF Inv, DatabaseOK, FreshCursors
<1>17. issued' = [issued EXCEPT ![req.id] = e.cursor]
  BY <1>1, <1>7, <1>16 DEF req, old
<1>18. \A r \in Readers : e.cursor > AckedOf[req.id][r] /\ e.cursor > position[r][req.id]
  <2> SUFFICES ASSUME NEW r \in Readers
               PROVE  e.cursor > AckedOf[req.id][r] /\ e.cursor > position[r][req.id]
    OBVIOUS
  <2>1. AckedOf[req.id][r] = old.acked[r] /\ old.acked[r] < old.nextCursor /\ old.acked[r] \in Nat
    BY <1>2 DEF AckedOf, InOrder, Mailbox
  <2>2. position[r][req.id] <= issued[req.id] /\ position[r][req.id] \in Nat
    BY <1>2 DEF DeliveryInv, CursorsKnown, Inv, WorldOK
  <2> QED
    BY <1>4, <1>7, <1>16, <2>1, <2>2, SMT
<1>19. Queue!Post(req.id)
  BY <1>1, <1>2, <1>7, <1>8, <1>14, <1>15, <1>16, <1>17, <1>18
     DEF Queue!Post, ReadersOf, AckedOf
<1>20. JobsHold'
  BY <1>1, <1>2, AnswerHolds DEF Inv
<1>21. QueueStep
  BY <1>2, <1>19, QueueActs
<1> QED
  BY <1>14, <1>20, <1>21 DEF QueueInv

LEMMA ReadImplements ==
    ASSUME Inv, DeliveryInv, QueueInv, NEW w \in Workers, Read(w)
    PROVE  QueueInv' /\ QueueStep
<1> DEFINE req == inflight[w].req
           old == inflight[w].snap.box
           b == MarkRead(old, now)
           page == Page(inflight[w].snap.envelopes, req.after, req.limit)
           cursors == {e.cursor : e \in page}
<1>1. /\ inflight[w].phase = "loaded" /\ req.op = "read" /\ Authorised(w)
      /\ SaveMailbox(req.id, b, inflight[w].snap.bytes) /\ Answer(w, "read", cursors)
      /\ UNCHANGED <<now, issued, position, delivered>>
  BY DEF Read, Loaded, world, clients
<1>2. /\ inflight[w] # Idle /\ req.id \in live /\ req.id \in Ids
      /\ old = box[req.id] /\ old \in Mailbox /\ InOrder(old) /\ DocumentOK(old)
      /\ inflight[w].snap.envelopes = envelopes[req.id] /\ now \in Nat
      /\ inflight[w].snap.bytes = bytes[req.id]
      /\ box \in [Ids -> Mailbox]
  BY <1>1, HeldMailbox DEF Authorised
<1>3. /\ b \in Mailbox /\ b.readers = old.readers /\ b.acked = old.acked
      /\ b.nextCursor = old.nextCursor /\ b.envelopeCount = old.envelopeCount
  BY <1>2, MarkReadType, MarkReadFields
<1>4. req.reader \in old.readers /\ req.after = position[req.reader][req.id]
  BY <1>1 DEF Authorised, AcceptsRead, DeliveryInv, ReadsOK, ReadOK, AsksFromPosition
<1>5. ASSUME NEW c \in cursors
      PROVE  /\ c > position[req.reader][req.id]
             /\ \E e \in envelopes[req.id] : e.cursor = c
  BY <1>2, <1>4 DEF Page
<1> HIDE DEF b, old, cursors
<1>6. DocumentOK(b)
  BY <1>2, <1>3 DEF DocumentOK
<1>7. /\ BooksOK' /\ live' = live /\ box' = [box EXCEPT ![req.id] = b]
      /\ envelopes' = envelopes
  BY <1>1, <1>2, <1>3, <1>6, SaveBooks DEF Inv, QueueInv
<1>8. ReadersOf' = ReadersOf /\ AckedOf' = AckedOf
  BY ONLY <1>2, <1>3, <1>7, ViewStays, Zenon
<1>9. PICK j : j = [phase |-> "done", req |-> req, outcome |-> "read", page |-> cursors]
  OBVIOUS
<1>10. inflight' = [inflight EXCEPT ![w] = j]
  BY <1>1, <1>9 DEF Answer
<1>11. box'[req.id].readers = old.readers
  BY <1>2, <1>3, <1>7
<1>12. JobHolds(j)'
  BY <1>1, <1>4, <1>5, <1>7, <1>9, <1>11 DEF JobHolds
<1>13. JobsHold'
  BY <1>2, <1>10, <1>12, JobMovesOn DEF Inv
<1> QED
  BY <1>1, <1>7, <1>8, <1>13, QueueStutters DEF QueueInv

(* A page that arrives shows its reader all that is stored up to its end.   *)
LEMMA RespondImplements ==
    ASSUME Inv, DeliveryInv, QueueInv, NEW w \in Workers, Respond(w)
    PROVE  QueueInv' /\ QueueStep
<1>1. /\ inflight[w].phase = "done" /\ inflight' = [inflight EXCEPT ![w] = Idle]
      /\ UNCHANGED database /\ UNCHANGED <<now, issued>> /\ inflight[w] # Idle
  <2>1. inflight[w].phase = "done" => inflight[w] # Idle
    BY DEF Idle
  <2> QED
    BY <2>1, Zenon DEF Respond
<1>2. JobHolds(Idle)'
  BY DEF JobHolds, Idle
<1>3. BooksOK' /\ JobsHold' /\ UNCHANGED <<live, ReadersOf, AckedOf, envelopes>>
  BY <1>1, <1>2, JobMovesOn, NothingWritten DEF Inv, QueueInv
<1>4. CASE UNCHANGED clients
  BY <1>1, <1>3, <1>4, QueueStutters DEF QueueInv, clients
<1>5. ASSUME NEW r, NEW id, NEW page, NEW last \in page,
             r = inflight[w].req.reader, id = inflight[w].req.id, page = inflight[w].page,
             \A c \in page : c <= last,
             position' = [position EXCEPT ![r][id] = last],
             delivered' = [delivered EXCEPT ![r][id] = @ \cup page]
      PROVE  QueueStep
  <2>1. r \in Readers /\ id \in Ids /\ page \subseteq Nat
    BY <1>1, <1>5, DoneJob DEF Inv, JobsOK, DoneJobs
  <2>2. \A c \in page : /\ r \in box[id].readers /\ c > position[r][id]
                        /\ \E e \in envelopes[id] : e.cursor = c
    BY <1>1, <1>5 DEF QueueInv, JobsHold, JobHolds
  <2>3. \A e \in envelopes[id] :
              (e.cursor > position[r][id] /\ e.cursor <= last) => e.cursor \in page
    BY <1>1, <1>5 DEF DeliveryInv, ReadsOK, ReadOK, HoldsPrefix
  <2>4. PICK e \in envelopes[id] : e.cursor = last
    BY <2>2
  <2>5. PICK shown : shown = {x \in envelopes[id] : x.cursor > position[r][id] /\ x.cursor <= e.cursor}
    OBVIOUS
  <2>6. {x.cursor : x \in shown} = page
    <3>1. \A x \in shown : x.cursor \in page
      BY <2>3, <2>4, <2>5
    <3>2. ASSUME NEW c \in page PROVE \E x \in shown : x.cursor = c
      <4>1. PICK x \in envelopes[id] : x.cursor = c
        BY <2>2
      <4>2. c > position[r][id] /\ c <= e.cursor
        BY <1>5, <2>2, <2>4
      <4> QED
        BY <2>5, <4>1, <4>2
    <3> QED
      BY <3>1, <3>2
  <2>7. shown # {}
    BY <2>6
  <2>8. r \in ReadersOf[id]
    BY <2>1, <2>2 DEF ReadersOf
  <2>9. delivered' = [delivered EXCEPT ![r][id] = @ \cup {x.cursor : x \in shown}]
    BY <1>5, <2>6
  <2>10. Queue!Show(id)
    BY <1>1, <1>3, <1>5, <2>4, <2>5, <2>7, <2>8, <2>9 DEF Queue!Show, ReadersOf, AckedOf
  <2> QED
    BY <2>1, <2>10, QueueActs
<1> QED
  BY <1>3, <1>4, <1>5 DEF Respond, QueueInv

(* What every reader that is left has acknowledged is dropped.              *)
LEMMA SettlementDrops ==
    ASSUME NEW id \in Ids, envelopes \in [Ids -> SUBSET Envelope], NEW b,
           b.readers # {}, b.readers = box'[id].readers, b.acked = box'[id].acked,
           envelopes' = [envelopes EXCEPT ![id] = @ \ Settled(b, envelopes[id])]
    PROVE  Queue!DropSettled(id)
<1>1. \A e : IsSettled(b, e.cursor) <=> Queue!Settles(id, e)
  BY DEF IsSettled, Queue!Settles
<1>2. envelopes[id] \ Settled(b, envelopes[id]) = {e \in envelopes[id] : ~ Queue!Settles(id, e)}
  BY <1>1, Zenon DEF Settled
<1> QED
  BY <1>2, Zenon DEF Queue!DropSettled

LEMMA AcknowledgeImplements ==
    ASSUME Inv, QueueInv, NEW w \in Workers, AcknowledgeUpTo(w)
    PROVE  QueueInv' /\ QueueStep
<1> DEFINE req == inflight[w].req
           old == inflight[w].snap.box
           a == Acknowledge(old, req.reader, req.upTo)
           b == MarkRead(a, now)
           S == Settled(b, envelopes[req.id])
           c == ReleaseEnvelopes(b, S)
<1>1. /\ inflight[w].phase = "loaded" /\ req.op = "acknowledge" /\ Authorised(w)
      /\ CommitRemoval(req.id, b, inflight[w].snap.bytes, Settled(b, inflight[w].snap.envelopes))
      /\ Answer(w, "acknowledged", {})
      /\ UNCHANGED <<now, issued, position, delivered>>
  BY DEF AcknowledgeUpTo, Loaded, world, clients, Done
<1>2. /\ inflight[w] # Idle /\ req \in Requests /\ req.id \in live /\ req.id \in Ids
      /\ old = box[req.id] /\ old \in Mailbox /\ InOrder(old) /\ DocumentOK(old)
      /\ inflight[w].snap.envelopes = envelopes[req.id] /\ now \in Nat
      /\ box \in [Ids -> Mailbox] /\ envelopes \in [Ids -> SUBSET Envelope]
  BY <1>1, HeldMailbox DEF Authorised
<1>3. req.reader \in Readers /\ req.upTo \in Nat /\ req.reader \in old.readers
  BY <1>1, <1>2, RequestTypes DEF Authorised, AcceptsRead
<1>b. inflight[w].snap.bytes = bytes[req.id]
  BY <1>1, HeldMailbox DEF Authorised
<1> HIDE DEF req, old
<1>4. /\ a \in Mailbox /\ a.nextCursor = old.nextCursor /\ a.readers = old.readers
      /\ a.envelopeCount = old.envelopeCount
  BY <1>2, <1>3, AcknowledgeType, AcknowledgeFields
<1>5a. PICK upTo \in Nat : Raised(old, a, req.reader, upTo)
  BY <1>2, <1>3, AcknowledgeFields
<1>5. /\ old.acked[req.reader] <= upTo /\ upTo < old.nextCursor
      /\ a.acked = [old.acked EXCEPT ![req.reader] = upTo]
  BY <1>5a DEF Raised
<1> HIDE DEF a
<1>6. /\ b \in Mailbox /\ b.nextCursor = old.nextCursor /\ b.readers = old.readers
      /\ b.envelopeCount = old.envelopeCount /\ b.acked = a.acked
  BY <1>2, <1>4, MarkReadType, MarkReadFields
<1> HIDE DEF b
<1>7. old.acked \in [Readers -> Nat] /\ upTo \in 0 .. MaxCursor
  BY <1>2, <1>5, ServiceAssumption, SMT DEF Mailbox, DocumentOK
<1>8. DocumentOK(b)
  BY <1>2, <1>3, <1>5, <1>6, <1>7 DEF DocumentOK
<1>9. S \in SUBSET envelopes[req.id] /\ CommitRemoval(req.id, b, inflight[w].snap.bytes, S)
  BY <1>1, <1>2 DEF Settled
<1> HIDE DEF S
<1>10. /\ BooksOK' /\ live' = live /\ box' = [box EXCEPT ![req.id] = c]
       /\ envelopes' = [envelopes EXCEPT ![req.id] = @ \ S]
  <2>1. DatabaseOK /\ BooksOK
    BY DEF Inv, QueueInv
  <2> HIDE DEF c
  <2>2. ReleaseEnvelopes(b, S) = c
    BY DEF c
  <2> QED
    BY ONLY <1>b, <1>2, <1>6, <1>8, <1>9, <2>1, <2>2, RemovalBooks
<1>11. c.readers = old.readers /\ c.acked = b.acked
  BY <1>6, ReleasedFields
<1> HIDE DEF c
<1>12. ReadersOf' = ReadersOf /\ AckedOf' = [AckedOf EXCEPT ![req.id][req.reader] = upTo]
  <2>1. /\ ReadersOf' = [ReadersOf EXCEPT ![req.id] = c.readers]
        /\ AckedOf' = [AckedOf EXCEPT ![req.id] = c.acked]
    BY ONLY <1>2, <1>10, ViewChanges, Zenon
  <2>2. ReadersOf[req.id] = c.readers /\ AckedOf[req.id] = old.acked
    BY <1>2, <1>11 DEF ReadersOf, AckedOf
  <2> QED
    BY <1>5, <1>6, <1>11, <2>1, <2>2 DEF ReadersOf
<1>13. Queue!DropSettled(req.id)
  <2>1. box'[req.id] = c /\ b.readers # {}
    BY <1>2, <1>3, <1>6, <1>10
  <2> QED
    BY <1>2, <1>6, <1>10, <1>11, <2>1, SettlementDrops DEF S
<1>14. req.reader \in ReadersOf[req.id] /\ upTo >= AckedOf[req.id][req.reader]
  BY <1>2, <1>3, <1>5, <1>7 DEF ReadersOf, AckedOf
<1>15a. PICK id \in Ids : id = req.id
  BY <1>2
<1>15. Queue!Acknowledge(id)
  BY <1>15a, <1>1, <1>7, <1>10, <1>12, <1>13, <1>14 DEF Queue!Acknowledge, ReadersOf, AckedOf
<1>16. JobsHold'
  BY <1>1, <1>2, AnswerHolds DEF Inv
<1>17. QueueStep
  BY <1>15, QueueActs
<1> QED
  BY <1>10, <1>16, <1>17 DEF QueueInv

(* A read capability that is not known yet joins, with nothing acknowledged *)
(* before and after.                                                        *)
LEMMA AddReaderImplements ==
    ASSUME Inv, QueueInv, NEW w \in Workers, AddReaderTo(w)
    PROVE  QueueInv' /\ QueueStep
<1> DEFINE req == inflight[w].req
           old == inflight[w].snap.box
           known == req.target \in old.readers
           a == IF known THEN old ELSE AddReader(old, req.target)
           b == MarkRead(a, now)
<1>1. /\ inflight[w].phase = "loaded" /\ req.op = "addReader" /\ Authorised(w)
      /\ SaveMailbox(req.id, b, inflight[w].snap.bytes) /\ Answer(w, "added", {})
      /\ UNCHANGED <<now, issued, position, delivered>>
  BY DEF AddReaderTo, Loaded, world, clients, Done
<1>2. /\ inflight[w] # Idle /\ req \in Requests /\ req.id \in live /\ req.id \in Ids
      /\ old = box[req.id] /\ old \in Mailbox /\ InOrder(old) /\ DocumentOK(old)
      /\ now \in Nat /\ box \in [Ids -> Mailbox] /\ inflight[w].snap.bytes = bytes[req.id]
  BY <1>1, HeldMailbox DEF Authorised
<1>3. req.target \in Readers
  BY <1>1, <1>2, RequestTypes
<1> HIDE DEF req, old
<1>4. old.acked \in [Readers -> Nat] /\ (~known => old.acked[req.target] = 0)
  BY <1>2, <1>3 DEF Mailbox, DocumentOK
<1>5. /\ a \in Mailbox /\ a.nextCursor = old.nextCursor
      /\ a.envelopeCount = old.envelopeCount /\ a.acked = old.acked
      /\ a.readers = old.readers \cup {req.target}
  <2>1. CASE known
    BY <1>2, <2>1
  <2>2. CASE ~known
    <3>1. /\ AddReader(old, req.target) \in Mailbox
          /\ AddReader(old, req.target).nextCursor = old.nextCursor
          /\ AddReader(old, req.target).envelopeCount = old.envelopeCount
          /\ AddReader(old, req.target).readers = old.readers \cup {req.target}
          /\ AddReader(old, req.target).acked = [old.acked EXCEPT ![req.target] = 0]
      BY <1>2, <1>3, ReadersType, ReadersFields
    <3>2. [old.acked EXCEPT ![req.target] = 0] = old.acked
      BY <1>3, <1>4, <2>2
    <3> QED
      BY <2>2, <3>1, <3>2
  <2> QED
    BY <2>1, <2>2
<1> HIDE DEF a
<1>6. /\ b \in Mailbox /\ b.nextCursor = old.nextCursor /\ b.envelopeCount = old.envelopeCount
      /\ b.acked = old.acked /\ b.readers = old.readers \cup {req.target}
  BY <1>2, <1>5, MarkReadType, MarkReadFields
<1> HIDE DEF b
<1>7. DocumentOK(b)
  BY <1>2, <1>6 DEF DocumentOK
<1>8. /\ BooksOK' /\ live' = live /\ box' = [box EXCEPT ![req.id] = b]
      /\ envelopes' = envelopes
  BY <1>1, <1>2, <1>6, <1>7, SaveBooks DEF Inv, QueueInv
<1>9. /\ ReadersOf' = [ReadersOf EXCEPT ![req.id] = b.readers]
      /\ AckedOf' = [AckedOf EXCEPT ![req.id] = b.acked]
  BY ONLY <1>2, <1>8, ViewChanges, Zenon
<1>10. /\ ReadersOf[req.id] = old.readers /\ AckedOf[req.id] = old.acked
       /\ ReadersOf' = [ReadersOf EXCEPT ![req.id] = @ \cup {req.target}]
       /\ AckedOf' = AckedOf
  BY <1>2, <1>6, <1>9 DEF ReadersOf, AckedOf
<1>11. QueueStep
  <2>1. CASE known
    <3>1. ReadersOf[req.id] \cup {req.target} = ReadersOf[req.id]
      BY <1>10, <2>1
    <3>2. ReadersOf' = ReadersOf
      BY <1>10, <3>1, Zenon DEF ReadersOf
    <3> QED
      BY <1>1, <1>8, <1>10, <3>2, QueueStutters
  <2>2. CASE ~known
    <3>1. req.target \in Readers \ ReadersOf[req.id]
      BY <1>3, <1>10, <2>2
    <3>2a. PICK id \in Ids : id = req.id
      BY <1>2
    <3>2. Queue!Join(id)
      BY <3>2a, <1>1, <1>2, <1>8, <1>10, <3>1 DEF Queue!Join, ReadersOf, AckedOf
    <3> QED
      BY <3>2, QueueActs
  <2> QED
    BY <2>1, <2>2
<1>12. JobsHold'
  BY <1>1, <1>2, AnswerHolds DEF Inv
<1> QED
  BY <1>8, <1>11, <1>12 DEF QueueInv

LEMMA RevokeReaderImplements ==
    ASSUME Inv, QueueInv, NEW w \in Workers, RevokeReader(w)
    PROVE  QueueInv' /\ QueueStep
<1> DEFINE req == inflight[w].req
           old == inflight[w].snap.box
           b == RemoveReader(old, req.target)
           S == Settled(b, envelopes[req.id])
           c == ReleaseEnvelopes(b, S)
<1>1. /\ inflight[w].phase = "loaded" /\ req.op = "revokeReader" /\ Authorised(w)
      /\ req.target \in old.readers /\ ~IsLastReader(old, req.target)
      /\ CommitRemoval(req.id, b, inflight[w].snap.bytes, Settled(b, inflight[w].snap.envelopes))
      /\ Answer(w, "revoked", {})
      /\ UNCHANGED <<now, issued, position, delivered>>
  BY DEF RevokeReader, Loaded, world, clients, Done
<1>2. /\ inflight[w] # Idle /\ req \in Requests /\ req.id \in live /\ req.id \in Ids
      /\ old = box[req.id] /\ old \in Mailbox /\ InOrder(old) /\ DocumentOK(old)
      /\ inflight[w].snap.envelopes = envelopes[req.id]
      /\ box \in [Ids -> Mailbox] /\ envelopes \in [Ids -> SUBSET Envelope]
  BY <1>1, HeldMailbox DEF Authorised
<1>3. req.target \in Readers
  BY <1>1, <1>2, RequestTypes
<1>b. inflight[w].snap.bytes = bytes[req.id]
  BY <1>1, HeldMailbox DEF Authorised
<1> HIDE DEF req, old
<1>4. /\ b \in Mailbox /\ b.nextCursor = old.nextCursor
      /\ b.envelopeCount = old.envelopeCount /\ b.readers = old.readers \ {req.target}
      /\ b.acked = [old.acked EXCEPT ![req.target] = 0]
  BY <1>2, <1>3, ReadersType, ReadersFields
<1> HIDE DEF b
<1>5. old.acked \in [Readers -> Nat] /\ old.readers # {req.target}
  BY <1>1, <1>2 DEF Mailbox, IsLastReader
<1>6. DocumentOK(b)
  BY <1>2, <1>3, <1>4, <1>5 DEF DocumentOK
<1>7. S \in SUBSET envelopes[req.id] /\ CommitRemoval(req.id, b, inflight[w].snap.bytes, S)
  BY <1>1, <1>2 DEF Settled
<1> HIDE DEF S
<1>8. /\ BooksOK' /\ live' = live /\ box' = [box EXCEPT ![req.id] = c]
      /\ envelopes' = [envelopes EXCEPT ![req.id] = @ \ S]
  <2>1. DatabaseOK /\ BooksOK
    BY DEF Inv, QueueInv
  <2> HIDE DEF c
  <2>2. ReleaseEnvelopes(b, S) = c
    BY DEF c
  <2> QED
    BY ONLY <1>b, <1>2, <1>4, <1>6, <1>7, <2>1, <2>2, RemovalBooks
<1>9. c.readers = b.readers /\ c.acked = b.acked
  BY <1>4, ReleasedFields
<1> HIDE DEF c
<1>10. /\ ReadersOf[req.id] = old.readers /\ AckedOf[req.id] = old.acked
       /\ ReadersOf' = [ReadersOf EXCEPT ![req.id] = @ \ {req.target}]
       /\ AckedOf' = [AckedOf EXCEPT ![req.id][req.target] = 0]
  <2>1. /\ ReadersOf' = [ReadersOf EXCEPT ![req.id] = c.readers]
        /\ AckedOf' = [AckedOf EXCEPT ![req.id] = c.acked]
    BY ONLY <1>2, <1>8, ViewChanges, Zenon
  <2>2. ReadersOf[req.id] = old.readers /\ AckedOf[req.id] = old.acked
    BY <1>2 DEF ReadersOf, AckedOf
  <2> QED
    BY <1>4, <1>9, <2>1, <2>2
<1>11. Queue!DropSettled(req.id)
  <2>1. box'[req.id] = c /\ b.readers # {}
    BY <1>1, <1>2, <1>4, <1>5, <1>8
  <2> QED
    BY <1>2, <1>8, <1>9, <2>1, SettlementDrops DEF S
<1>12. req.target \in ReadersOf[req.id] /\ ReadersOf[req.id] # {req.target}
  BY <1>1, <1>5, <1>10
<1>13a. PICK id \in Ids : id = req.id
  BY <1>2
<1>13. Queue!Leave(id)
  BY <1>13a, <1>1, <1>8, <1>10, <1>11, <1>12 DEF Queue!Leave, ReadersOf, AckedOf
<1>14. QueueStep
  BY <1>13, QueueActs
<1>15. JobsHold'
  BY <1>1, <1>2, AnswerHolds DEF Inv
<1> QED
  BY <1>8, <1>14, <1>15 DEF QueueInv

LEMMA ExpireEnvelopesImplements ==
    ASSUME Inv, QueueInv, NEW w \in Workers, ExpireEnvelopes(w)
    PROVE  QueueInv' /\ QueueStep
<1> DEFINE req == inflight[w].req
           old == inflight[w].snap.box
           S == {e \in inflight[w].snap.envelopes : EnvelopeExpired(e, req.at)}
           c == ReleaseEnvelopes(old, S)
<1>1. /\ inflight[w].phase = "loaded" /\ req.op = "expire" /\ inflight[w].snap.exists
      /\ CommitRemoval(req.id, old, inflight[w].snap.bytes, S)
      /\ Answer(w, "expired", {})
      /\ UNCHANGED <<now, issued, position, delivered>>
  BY DEF ExpireEnvelopes, Loaded, world, clients, Done
<1>2. /\ inflight[w] # Idle /\ req \in Requests /\ req.id \in live /\ req.id \in Ids
      /\ old = box[req.id] /\ old \in Mailbox /\ DocumentOK(old)
      /\ inflight[w].snap.envelopes = envelopes[req.id] /\ now \in Nat
      /\ inflight[w].snap.bytes = bytes[req.id]
      /\ box \in [Ids -> Mailbox] /\ envelopes \in [Ids -> SUBSET Envelope]
  BY <1>1, HeldMailbox
<1>3. req.at \in Nat /\ req.at <= now
  BY <1>1, <1>2, RequestTypes DEF QueueInv, JobsHold, JobHolds
<1>4. S \in SUBSET {e \in envelopes[req.id] : e.storedAt + Retention <= now}
  <2>1. \A e \in envelopes[req.id] : e.storedAt \in Nat
    BY <1>2 DEF Envelope
  <2> QED
    BY <1>2, <1>3, <2>1, PolicyAssumption, SMT DEF EnvelopeExpired
<1> HIDE DEF S, req, old
<1>5. /\ BooksOK' /\ live' = live /\ box' = [box EXCEPT ![req.id] = c]
      /\ envelopes' = [envelopes EXCEPT ![req.id] = @ \ S]
  <2>1. S \in SUBSET envelopes[req.id] /\ old.envelopeCount = box[req.id].envelopeCount
    BY <1>2, <1>4
  <2> QED
    BY <1>1, <1>2, <2>1, RemovalBooks DEF Inv, QueueInv
<1>6. c.readers = box[req.id].readers /\ c.acked = box[req.id].acked
  BY <1>2, ReleasedFields
<1> HIDE DEF c
<1>7. ReadersOf' = ReadersOf /\ AckedOf' = AckedOf
  BY ONLY <1>2, <1>5, <1>6, ViewStays, Zenon
<1>8. Queue!Age(req.id)
  BY <1>1, <1>4, <1>5, <1>7 DEF Queue!Age, ReadersOf, AckedOf
<1>9. QueueStep
  BY <1>2, <1>8, QueueActs
<1>10. JobsHold'
  BY <1>1, <1>2, AnswerHolds DEF Inv
<1> QED
  BY <1>5, <1>9, <1>10 DEF QueueInv

LEMMA InitQueue == Init => QueueInv /\ Queue!Init
<1> SUFFICES ASSUME Init PROVE QueueInv /\ Queue!Init
  OBVIOUS
<1>1. /\ live = {} /\ box = [id \in Ids |-> Blank] /\ envelopes = [id \in Ids |-> {}]
      /\ dedupe = [id \in Ids |-> [e \in EnvelopeIds |-> 0]]
      /\ mailboxCount = 0 /\ retiredCursor = 0 /\ inflight = [w \in Workers |-> Idle]
  BY DEF Init
<1>2. RowsOK
  BY <1>1, BlankFields, FS_EmptySet DEF RowsOK, RowOK
<1>3. BooksOK
  <2>1. BytesOK
    BY <1>1, SizeOfNone DEF Init, BytesOK
  <2> QED
    BY <1>1, <1>2, <2>1, FS_EmptySet, ServiceAssumption, SMT DEF BooksOK
<1>4. JobsHold
  BY <1>1 DEF JobsHold, JobHolds, Idle
<1>5. Queue!Init
  <2>1. /\ [id \in Ids |-> box[id].readers] = [id \in Ids |-> {}]
        /\ [id \in Ids |-> box[id].acked] = [id \in Ids |-> [r \in Readers |-> 0]]
    BY <1>1, BlankFields
  <2> QED
    BY <2>1 DEF Queue!Init, Init
<1> QED
  BY <1>3, <1>4, <1>5 DEF QueueInv

LEMMA QueueHolds ==
    Inv /\ DeliveryInv /\ QueueInv /\ [Next]_vars => QueueInv' /\ QueueStep
<1> SUFFICES ASSUME Inv, DeliveryInv, QueueInv, [Next]_vars PROVE QueueInv' /\ QueueStep
  OBVIOUS
<1>1. ASSUME NEW w \in Workers, Request(w) PROVE QueueInv' /\ QueueStep
  BY <1>1, StartImplements DEF Request
<1>2. ASSUME NEW w \in Workers, SweepOne(w) PROVE QueueInv' /\ QueueStep
  <2>1. PICK req : Start(w, req) /\ req.op = "expire" /\ req.at = sweep.at
    <3>1. PICK id \in sweep.left : Start(w, [op |-> "expire", id |-> id, at |-> sweep.at])
      BY <1>2 DEF SweepOne
    <3>2. PICK req : req = [op |-> "expire", id |-> id, at |-> sweep.at]
      OBVIOUS
    <3> QED
      BY <3>1, <3>2
  <2>2. req.at <= now
    BY <2>1, ServiceAssumption, SMT DEF Inv, WorldOK
  <2> QED
    BY <2>1, <2>2, StartImplements
<1>3. ASSUME NEW w \in Workers, Handle(w) PROVE QueueInv' /\ QueueStep
  BY <1>3, SelectVictimsImplements, EvictImplements, CreateImplements, AppendImplements,
     ReadImplements, AcknowledgeImplements, AddReaderImplements, RevokeReaderImplements,
     RemovalsImplement, ExpireEnvelopesImplements, RefusalsImplement, RespondImplements
     DEF Handle
<1> QED
  BY <1>1, <1>2, <1>3, PassesImplement, TickImplements DEF Next

(* Handlers that read first and write later, counters, batches and crashes  *)
(* together do what the plain queue does in single steps: the mailbox       *)
(* service implements MailboxQueue.                                         *)
THEOREM QueueTheorem == Spec => ImplementsQueue
<1>1. Init => Queue!Init
  BY InitQueue
<1>2. Inv /\ DeliveryInv /\ QueueInv /\ [Next]_vars => [Queue!Next]_(Queue!vars)
  BY QueueHolds DEF QueueStep
<1> QED
  BY <1>1, <1>2, InitQueue, InitDelivery, DeliveryStep, QueueHolds, InvariantTheorem, PTL
     DEF Spec, ImplementsQueue, Queue!Spec

LEMMA EverythingHolds == Spec => [](Inv /\ DeliveryInv /\ QueueInv)
BY InitQueue, InitDelivery, DeliveryStep, QueueHolds, InvariantTheorem, PTL DEF Spec

(* Counters, byte totals, documents, envelope rows and deduplication rows   *)
(* agree at every step, however the handlers' batches are cut short.        *)
THEOREM CountersTheorem == Spec => []CountersAgree
<1>1. Inv /\ QueueInv => CountersAgree
  <2> SUFFICES ASSUME Inv, QueueInv PROVE CountersAgree
    OBVIOUS
  <2>1. ASSUME NEW id \in Ids, NEW d \in EnvelopeIds
        PROVE  {e.cursor : e \in {x \in envelopes[id] : x.envelopeId = d}}
                    = IF dedupe[id][d] = 0 THEN {} ELSE {dedupe[id][d]}
    <3>1. RowOK(id) /\ envelopes[id] \subseteq Envelope
      BY DEF QueueInv, BooksOK, RowsOK, Inv, DatabaseOK
    <3>2. \A e \in envelopes[id] : e.envelopeId = d => e.cursor = dedupe[id][d] /\ dedupe[id][d] # 0
      BY <3>1, SMT DEF RowOK, Envelope
    <3>3. dedupe[id][d] # 0 =>
            \E e \in envelopes[id] : e.envelopeId = d /\ e.cursor = dedupe[id][d]
      BY <3>1 DEF RowOK
    <3> QED
      BY <3>2, <3>3
  <2> QED
    BY <2>1 DEF CountersAgree, QueueInv, BooksOK, BytesOK, RowsOK, RowOK
<1> QED
  BY <1>1, EverythingHolds, PTL

-----------------------------------------------------------------------------
(* A mailbox goes for a reason.                                            *)

LeavesForAReason(id) ==
    /\ issued[id] <= retiredCursor'
    /\ \E w \in Workers : Asked(w, id) \/ Unread(w, id) \/ Evicted(w, id)

LEMMA VictimsLeave ==
    ASSUME Inv, QueueInv, NEW w \in Workers, Evict(w), NEW id \in live \ live'
    PROVE  LeavesForAReason(id)
<1>1. inflight[w].phase = "evicting"
  BY DEF Evict
<1>2. PICK v \in inflight[w].victims : RemoveMailbox(v)
  BY DEF Evict
<1>3. inflight[w] \in EvictingJobs /\ JobHolds(inflight[w])
  BY <1>1, EvictingJob DEF Inv, JobsOK, QueueInv, JobsHold
<1> DEFINE V == inflight[w].victims
           at == inflight[w].at
<1>4. /\ at <= now /\ at \in Nat /\ IsFiniteSet(V) /\ v \in live
      /\ IsIdleAndEmpty(box[v], at) /\ Cardinality(live) = Cardinality(V) + maxMailboxes - 1
  BY <1>1, <1>2, <1>3 DEF JobHolds, EvictingJobs
<1>5. id = v
  BY <1>2 DEF RemoveMailbox
<1>6. issued[v] <= retiredCursor'
  BY <1>2, <1>4, RemoveBooks DEF Inv, QueueInv
<1>7. /\ v \in Ids /\ box[v].lastReadAt \in Nat /\ now \in Nat /\ EvictionIdle \in Nat
      /\ maxMailboxes \in Nat
  BY <1>4, PolicyAssumption, ServiceAssumption, SMT DEF Inv, DatabaseOK, WorldOK, Mailbox
<1>8. SparesNone(V, v) /\ v # inflight[w].req.id
  BY <1>1, <1>2, <1>3, <1>4, EvictingJob DEF JobHolds, Inv, JobsOK
<1>9. envelopes[v] = {}
  <2>1. Cardinality(envelopes[v]) = 0 /\ IsFiniteSet(envelopes[v])
    BY <1>4, <1>7 DEF IsIdleAndEmpty, QueueInv, BooksOK, RowsOK, RowOK, Inv, DatabaseOK
  <2> QED
    BY <2>1, FS_EmptySet
<1>10. Cardinality(live) >= maxMailboxes
  <2>1. Cardinality(V) \in Nat /\ Cardinality(V) # 0
    BY <1>2, <1>4, FS_CardinalityType, FS_EmptySet
  <2> QED
    BY <1>4, <1>7, <2>1, SMT
<1> QED
  BY <1>1, <1>4, <1>5, <1>6, <1>8, <1>9, <1>10 DEF LeavesForAReason, Evicted, SparesNone

LEMMA RemovedLeave ==
    ASSUME Inv, QueueInv, NEW w \in Workers, Remove(w) \/ ExpireMailbox(w),
           NEW id \in live \ live'
    PROVE  LeavesForAReason(id)
<1> DEFINE req == inflight[w].req
<1>1. /\ inflight[w].phase = "loaded" /\ inflight[w].snap.exists /\ RemoveMailbox(req.id)
  BY DEF Remove, ExpireMailbox, Loaded, Authorised
<1>2. id = req.id
  BY <1>1 DEF RemoveMailbox
<1>3. inflight[w].snap.box = box[id] /\ box[id] \in Mailbox /\ req \in Requests /\ now \in Nat
  BY <1>1, <1>2, HeldMailbox
<1>4. issued[id] <= retiredCursor'
  BY <1>1, <1>2, RemoveBooks DEF Inv, QueueInv
<1>5. CASE Remove(w)
  <2>1. Loaded(w, "remove") /\ AcceptsRead(box[id], req.reader)
    BY <1>3, <1>5 DEF Remove, Authorised
  <2> QED
    BY <1>2, <1>4, <2>1 DEF LeavesForAReason, Asked
<1>6. CASE ExpireMailbox(w)
  <2>1. Loaded(w, "expire") /\ IsExpired(box[id], req.at)
    BY <1>3, <1>6 DEF ExpireMailbox
  <2> QED
    BY <1>2, <1>4, <2>1 DEF LeavesForAReason, Unread
<1> QED
  BY <1>5, <1>6

LEMMA OthersStay ==
    ASSUME [Next]_vars,
           ~ \E w \in Workers : Evict(w) \/ Remove(w) \/ ExpireMailbox(w)
    PROVE  live \subseteq live'
<1>1. ASSUME NEW w \in Workers, Request(w) \/ SweepOne(w) PROVE live' = live
  BY <1>1 DEF Request, SweepOne, Start, database
<1>2. ASSUME NEW w \in Workers, Handle(w) PROVE live \subseteq live'
  <2>1. CASE Create(w) \/ Append(w) \/ Read(w) \/ AddReaderTo(w)
    BY <2>1 DEF Create, Append, Read, AddReaderTo, CreateMailbox, CommitAppend,
                SaveMailbox, PutMailbox
  <2>2. CASE AcknowledgeUpTo(w) \/ RevokeReader(w) \/ ExpireEnvelopes(w)
    <3>1. \E id, b, n, S : CommitRemoval(id, b, n, S)
      BY <2>2 DEF AcknowledgeUpTo, RevokeReader, ExpireEnvelopes
    <3> QED
      BY <3>1 DEF CommitRemoval, PutMailbox
  <2>3. CASE SelectVictims(w) \/ EndWithoutWrite(w) \/ Fail(w) \/ Respond(w)
    BY <2>3 DEF SelectVictims, EndWithoutWrite, Fail, Respond, database
  <2> QED
    BY <1>2, <2>1, <2>2, <2>3 DEF Handle
<1>3. CASE StartSweep \/ Crash \/ Tick \/ UNCHANGED vars
  BY <1>3 DEF StartSweep, Crash, Tick, vars, database
<1> QED
  BY <1>1, <1>2, <1>3 DEF Next

(* A mailbox leaves only at the request of a reader; in a pass of the sweep *)
(* before which nobody had read it for the whole window; or evicted from a  *)
(* full node, empty, idle and least recently read.  It retires every cursor *)
(* that it gave out.                                                        *)
THEOREM LeaveTheorem == Spec => MailboxesLeaveForAReason
<1> DEFINE A == \A id \in live \ live' :
        /\ issued[id] <= retiredCursor'
        /\ \E w \in Workers : Asked(w, id) \/ Unread(w, id) \/ Evicted(w, id)
<1>1. Inv /\ QueueInv /\ [Next]_vars => A
  <2> SUFFICES ASSUME Inv, QueueInv, [Next]_vars, NEW id \in live \ live'
               PROVE  LeavesForAReason(id)
    BY DEF LeavesForAReason
  <2> QED
    BY OthersStay, VictimsLeave, RemovedLeave
<1> HIDE DEF A
<1>2. Inv /\ QueueInv /\ [Next]_vars => [A]_vars
  BY <1>1
<1>3. Spec => [][A]_vars
  BY <1>2, EverythingHolds, PTL DEF Spec
<1> QED
  BY <1>3 DEF A, MailboxesLeaveForAReason
-----------------------------------------------------------------------------
(* Hints go to readers, on a node that does not evict.                      *)

(* A subscription of a current reader; one whose own second check is still  *)
(* to come and will find the reader gone; one that a handler is about to    *)
(* drop.  A check that has found its mailbox and not yet loaded it ends     *)
(* without acting when the mailbox goes, so it counts only until then.      *)
Current(k) == k[2] \in live /\ k[3] \in box[k[2]].readers
Checks(p, k) ==
    /\ Key(p) = k /\ p.round = 2
    /\ \/ p.stage = "look"
       \/ p.stage = "load" /\ k[2] \in live
       \/ p.stage = "act" /\ ~p.authorized
Ends(w, k) == inflight[w].phase = "done" /\ k \in Dropped(w)

Accounted(k) ==
    \/ Current(k)
    \/ \E p \in pending : Checks(p, k)
    \/ \E w \in Workers : Ends(w, k)

HintTypes == /\ connected \subseteq Sockets /\ pending \subseteq Pending
             /\ subscriptions \subseteq Sockets \X Ids \X Readers

HintInv == HintTypes /\ \A k \in subscriptions : k[1] \in connected /\ Accounted(k)

LEMMA HintsServe == HintSpec => Spec
<1>1. HintInit => Init
  BY DEF HintInit
<1>2. ASSUME [HintNext]_hintVars PROVE [Next]_vars
  <2>1. CASE \E w \in Workers : Silent(w)
    BY <2>1 DEF Silent, Next, Handle
  <2>2. CASE \E w \in Workers : RespondAndNotify(w) \/ AppendAndHint(w)
    BY <2>2 DEF RespondAndNotify, AppendAndHint, Next, Handle
  <2>3. CASE StartSweep \/ Tick \/ Restart
    BY <2>3 DEF Next, Restart
  <2>4. CASE Connect \/ Disconnect \/ Subscribe \/ UNCHANGED hintVars
    BY <2>4 DEF Connect, Disconnect, Subscribe, hintVars
  <2>5. ASSUME NEW p \in pending, Look(p) \/ Load(p) \/ AddSubscription(p) \/ Confirm(p)
        PROVE  UNCHANGED vars
    BY <2>5 DEF Look, Load, AddSubscription, Confirm
  <2> QED
    BY <1>2, <2>1, <2>2, <2>3, <2>4, <2>5 DEF HintNext
<1> QED
  BY <1>1, <1>2, PTL DEF HintSpec, Spec

LEMMA HintsAccounted == HintInv => HintsGoToReaders
<1> SUFFICES ASSUME HintInv, NEW k \in subscriptions
             PROVE  /\ k[1] \in connected
                    /\ \/ k[2] \in live /\ k[3] \in box[k[2]].readers
                       \/ \E p \in pending : /\ Key(p) = k /\ p.round = 2
                                             /\ p.stage = "act" => ~p.authorized
                       \/ \E w \in Workers : inflight[w].phase = "done" /\ k \in Dropped(w)
  BY DEF HintsGoToReaders
<1> QED
  BY DEF HintInv, Accounted, Current, Checks, Ends

LEMMA InitHints == HintInit => HintInv
BY DEF HintInit, HintInv, HintTypes

-----------------------------------------------------------------------------
(* A message that is replaced counts for its own subscription alone.        *)

LEMMA KeyType ==
    ASSUME NEW p \in Pending
    PROVE  Key(p) \in Sockets \X Ids \X Readers /\ Key(p)[1] = p.socket
           /\ Key(p)[2] = p.id /\ Key(p)[3] = p.reader
BY DEF Key, Pending

(* The mailboxes stay and one message moves from p to q, or ends.           *)
Advances(p) ==
    \/ \E q \in Pending : /\ Replace(p, q) /\ Key(q) = Key(p)
                          /\ Checks(p, Key(p)) => Current(Key(p)) \/ Checks(q, Key(p))
    \/ Finish(p) /\ (Checks(p, Key(p)) => Current(Key(p)))

LEMMA AdvanceKeeps ==
    ASSUME HintInv, NEW p \in pending, Advances(p),
           UNCHANGED <<vars, connected, subscriptions>>
    PROVE  HintInv'
<1>1. HintTypes'
  BY DEF HintInv, HintTypes, Advances, Replace, Finish
<1>2. ASSUME NEW k \in subscriptions PROVE Accounted(k)'
  <2>1. Accounted(k)
    BY DEF HintInv
  <2>2. CASE Current(k)
    BY <2>2 DEF Accounted, Current, vars, database
  <2>3. CASE \E w \in Workers : Ends(w, k)
    BY <2>3 DEF Accounted, Ends, Dropped, vars, process
  <2>4. ASSUME NEW r \in pending, Checks(r, k) PROVE Accounted(k)'
    <3>1. CASE r \in pending'
      BY <2>4, <3>1 DEF Accounted, Checks, vars, database
    <3>2. CASE r \notin pending'
      <4>1. r = p /\ Key(p) = k
        BY <2>4, <3>2 DEF Advances, Replace, Finish, Checks
      <4>2. Current(k) \/ \E q \in pending' : Checks(q, k)
        BY <2>4, <4>1 DEF Advances, Replace
      <4> QED
        BY <4>2 DEF Accounted, Current, Checks, vars, database
    <3> QED BY <3>1, <3>2
  <2> QED
    BY <2>1, <2>2, <2>3, <2>4 DEF Accounted
<1> QED
  BY <1>1, <1>2 DEF HintInv

-----------------------------------------------------------------------------
(* What the steps of the subscribe messages do.                             *)

LEMMA LookHint ==
    ASSUME HintInv, NEW p \in pending, Look(p)
    PROVE  HintInv'
<1>1. p \in Pending /\ UNCHANGED <<vars, connected, subscriptions>>
  BY DEF HintInv, HintTypes, Look
<1>2. PICK q : /\ q = IF p.id \in live THEN [p EXCEPT !.stage = "load"]
                      ELSE [p EXCEPT !.stage = "act", !.authorized = FALSE]
               /\ Replace(p, q)
  BY DEF Look
<1>3. /\ q \in Pending /\ Key(q) = Key(p) /\ q.round = p.round
      /\ \/ q.stage = "load" /\ p.id \in live
         \/ q.stage = "act" /\ ~q.authorized
  BY <1>1, <1>2 DEF Pending, Key
<1>4. Checks(p, Key(p)) => Checks(q, Key(p))
  BY <1>1, <1>3, KeyType DEF Checks
<1>5. Advances(p)
  BY <1>2, <1>3, <1>4 DEF Advances
<1> QED
  BY <1>1, <1>5, AdvanceKeeps

LEMMA LoadHint ==
    ASSUME HintInv, NEW p \in pending, Load(p)
    PROVE  HintInv'
<1>1. p \in Pending /\ UNCHANGED <<vars, connected, subscriptions>> /\ p.stage = "load"
  BY DEF HintInv, HintTypes, Load
<1>2. CASE p.id \in live
  <2>1. PICK q : /\ q = [p EXCEPT !.stage = "act", !.authorized = AcceptsRead(box[p.id], p.reader)]
                 /\ Replace(p, q)
    BY <1>2 DEF Load
  <2>2. AcceptsRead(box[p.id], p.reader) \in BOOLEAN
    BY DEF AcceptsRead
  <2>3. /\ q \in Pending /\ Key(q) = Key(p) /\ q.round = p.round /\ q.stage = "act"
        /\ q.authorized <=> p.reader \in box[p.id].readers
    BY <1>1, <2>1, <2>2 DEF Pending, Key, AcceptsRead
  <2>4. Checks(p, Key(p)) => Current(Key(p)) \/ Checks(q, Key(p))
    BY <1>1, <1>2, <2>3, KeyType DEF Checks, Current
  <2>5. Advances(p)
    BY <2>1, <2>3, <2>4 DEF Advances
  <2> QED
    BY <1>1, <2>5, AdvanceKeeps
<1>3. CASE p.id \notin live
  <2>1. Finish(p) /\ ~Checks(p, Key(p))
    BY <1>1, <1>3, KeyType DEF Load, Checks
  <2>2. Advances(p)
    BY <2>1 DEF Advances
  <2> QED
    BY <1>1, <2>2, AdvanceKeeps
<1> QED
  BY <1>2, <1>3

(* What is still subscribed stays accounted for while its mailbox, its      *)
(* message and the handlers stay.                                           *)
LEMMA StaysAccounted ==
    ASSUME NEW k, Accounted(k), k \in subscriptions', UNCHANGED vars,
           \A r \in pending : Checks(r, k) => r \in pending'
    PROVE  Accounted(k)'
<1>1. CASE Current(k)
  BY <1>1 DEF Accounted, Current, vars, database
<1>2. ASSUME NEW p \in pending, Checks(p, k) PROVE Accounted(k)'
  BY <1>2 DEF Accounted, Checks, vars, database
<1>3. ASSUME NEW w \in Workers, Ends(w, k) PROVE Accounted(k)'
  <2>1. Ends(w, k)'
    BY <1>3 DEF Ends, Dropped, vars, process
  <2> QED BY <2>1 DEF Accounted
<1> QED
  BY <1>1, <1>2, <1>3 DEF Accounted

LEMMA AddHint ==
    ASSUME HintInv, NEW p \in pending, AddSubscription(p)
    PROVE  HintInv'
<1>1. /\ p \in Pending /\ UNCHANGED <<vars, connected>> /\ p.round = 1 /\ p.stage = "act"
      /\ Key(p) \in Sockets \X Ids \X Readers
  BY KeyType DEF HintInv, HintTypes, AddSubscription
<1>2. \A k : ~Checks(p, k)
  BY <1>1 DEF Checks
<1>3. CASE p.authorized /\ p.socket \in connected
  <2>1. PICK q : q = [p EXCEPT !.round = 2, !.stage = "look"] /\ Replace(p, q)
    BY <1>3 DEF AddSubscription
  <2>2. q \in Pending /\ Key(q) = Key(p) /\ q.round = 2 /\ q.stage = "look" /\ q \in pending'
    <3>1. /\ q \in Pending /\ q.round = 2 /\ q.stage = "look"
          /\ q.socket = p.socket /\ q.id = p.id /\ q.reader = p.reader
      <4>1. p \in Pending /\ q = [p EXCEPT !.round = 2, !.stage = "look"] /\ 2 \in 1 .. 2
        BY <1>1, <2>1
      <4>2. \A n : n \in 1 .. 2 => [p EXCEPT !.round = n, !.stage = "look"] \in Pending
        BY ONLY <4>1, Zenon DEF Pending
      <4>3. q \in Pending
        BY ONLY <4>1, <4>2, Zenon
      <4>4. q.round = 2 /\ q.stage = "look"
        BY ONLY <4>1 DEF Pending
      <4>5. q.socket = p.socket /\ q.id = p.id /\ q.reader = p.reader
        BY ONLY <4>1 DEF Pending
      <4> QED BY <4>3, <4>4, <4>5
    <3> QED
      BY <2>1, <3>1 DEF Key, Replace
  <2>3. subscriptions' \subseteq subscriptions \cup {Key(p)}
    BY <1>3 DEF AddSubscription
  <2>4. HintTypes'
    BY <1>1, <2>1, <2>2, <2>3 DEF HintInv, HintTypes, Replace
  <2>5. ASSUME NEW k \in subscriptions' PROVE k[1] \in connected' /\ Accounted(k)'
    <3>1. CASE k = Key(p)
      BY <1>1, <1>3, <2>2, <3>1, KeyType DEF Accounted, Checks
    <3>2. CASE k \in subscriptions
      <4>1. \A r \in pending : Checks(r, k) => r \in pending'
        BY <1>2, <2>1 DEF Replace
      <4> QED
        BY <1>1, <3>2, <4>1, StaysAccounted DEF HintInv
    <3> QED BY <2>3, <3>1, <3>2
  <2> QED
    BY <2>4, <2>5 DEF HintInv
<1>4. CASE ~(p.authorized /\ p.socket \in connected)
  <2>1. Finish(p) /\ UNCHANGED subscriptions
    BY <1>4 DEF AddSubscription
  <2>2. Advances(p)
    BY <1>2, <2>1 DEF Advances
  <2> QED
    BY <1>1, <2>1, <2>2, AdvanceKeeps
<1> QED
  BY <1>3, <1>4

LEMMA ConfirmHint ==
    ASSUME HintInv, NEW p \in pending, Confirm(p)
    PROVE  HintInv'
<1>1. /\ p.stage = "act" /\ Finish(p) /\ UNCHANGED <<vars, connected>>
      /\ subscriptions' = IF p.authorized THEN subscriptions ELSE subscriptions \ {Key(p)}
  BY DEF Confirm
<1>2. HintTypes'
  BY <1>1 DEF HintInv, HintTypes, Finish
<1>3. ASSUME NEW k \in subscriptions' PROVE k[1] \in connected' /\ Accounted(k)'
  <2>1. k \in subscriptions /\ Accounted(k) /\ k[1] \in connected
    BY <1>1 DEF HintInv
  <2>2. ~Checks(p, k)
    BY <1>1 DEF Checks
  <2>3. \A r \in pending : Checks(r, k) => r \in pending'
    BY <1>1, <2>2 DEF Finish
  <2> QED
    BY <1>1, <2>1, <2>3, StaysAccounted
<1> QED
  BY <1>2, <1>3 DEF HintInv

LEMMA SocketHint ==
    ASSUME HintInv, Connect \/ Disconnect \/ Subscribe
    PROVE  HintInv'
<1>1. UNCHANGED vars /\ subscriptions' \subseteq subscriptions
  BY DEF Connect, Disconnect, Subscribe
<1>2. HintTypes'
  <2>1. CASE Connect \/ Disconnect
    BY <2>1 DEF Connect, Disconnect, HintInv, HintTypes
  <2>2. CASE Subscribe
    <3>1. PICK s \in connected, id \in Ids, r \in Readers :
             pending' = pending \cup {[socket |-> s, id |-> id, reader |-> r, round |-> 1,
                                       stage |-> "look", authorized |-> FALSE]}
      BY <2>2 DEF Subscribe
    <3>2. pending' \subseteq Pending
      <4>1. s \in Sockets /\ pending \subseteq Pending
        BY DEF HintInv, HintTypes
      <4>2. [socket |-> s, id |-> id, reader |-> r, round |-> 1,
             stage |-> "look", authorized |-> FALSE] \in Pending
        BY ONLY <4>1, s \in Sockets, id \in Ids, r \in Readers DEF Pending
      <4> QED BY <3>1, <4>1, <4>2
    <3> QED
      BY <2>2, <3>2 DEF Subscribe, HintInv, HintTypes
  <2> QED BY <2>1, <2>2
<1>3. ASSUME NEW k \in subscriptions' PROVE k[1] \in connected' /\ Accounted(k)'
  <2>1. k \in subscriptions /\ Accounted(k) /\ k[1] \in connected
    BY <1>1 DEF HintInv
  <2>2. pending \subseteq pending' /\ k[1] \in connected'
    BY <2>1 DEF Connect, Disconnect, Subscribe
  <2> QED
    BY <1>1, <2>1, <2>2, StaysAccounted
<1> QED
  BY <1>2, <1>3 DEF HintInv
-----------------------------------------------------------------------------
(* What the handlers do to the readers: whoever was a reader of a mailbox   *)
(* is one after the step, or the handler that ended it is about to tell.    *)
Tells(w, id, r) ==
    /\ inflight'[w].phase = "done" /\ inflight'[w].req.id = id
    /\ \/ inflight'[w].outcome = "removed"
       \/ inflight'[w].outcome = "revoked" /\ inflight'[w].req.target = r

ReadersTold(w) ==
    \A id \in live :
        /\ id \in live' \/ \A r \in Readers : Tells(w, id, r)
        /\ \A r \in box[id].readers :
              (id \in live' /\ r \in box'[id].readers) \/ Tells(w, id, r)

(* One document is put, with the readers it had.                            *)
LEMMA PutTells ==
    ASSUME Inv, NEW w \in Workers, NEW id \in Ids, NEW b, NEW n, PutMailbox(id, b, n),
           id \in live => \A r \in box[id].readers : r \in b.readers \/ Tells(w, id, r)
    PROVE  ReadersTold(w)
<1>1. /\ live' = live \cup {id} /\ box' = [box EXCEPT ![id] = b]
      /\ box \in [Ids -> Mailbox] /\ live \subseteq Ids
  BY DEF PutMailbox, Inv, DatabaseOK
<1>2. ASSUME NEW i \in live, NEW r \in box[i].readers PROVE r \in box'[i].readers \/ Tells(w, i, r)
  <2>1. CASE i = id
    BY <1>1, <1>2, <2>1
  <2>2. CASE i # id
    BY <1>1, <1>2, <2>2
  <2> QED BY <2>1, <2>2
<1> QED
  BY <1>1, <1>2 DEF ReadersTold

LEMMA RemovalTells ==
    ASSUME Inv, NEW w \in Workers, Remove(w) \/ ExpireMailbox(w)
    PROVE  ReadersTold(w)
<1>1. /\ RemoveMailbox(inflight[w].req.id) /\ Answer(w, "removed", {}) /\ inflight[w] # Idle
  BY DEF Remove, ExpireMailbox, Done, Loaded, Idle
<1>2. /\ live' = live \ {inflight[w].req.id} /\ live \subseteq Ids
      /\ box' = [box EXCEPT ![inflight[w].req.id] = Blank] /\ box \in [Ids -> Mailbox]
  BY <1>1 DEF RemoveMailbox, Inv, DatabaseOK
<1>3. \A r : Tells(w, inflight[w].req.id, r)
  BY <1>1 DEF Answer, Tells, Inv, JobsOK
<1>4. \A id \in live : id # inflight[w].req.id => id \in live' /\ box'[id] = box[id]
  BY <1>2
<1> QED
  BY <1>3, <1>4 DEF ReadersTold

LEMMA RevokeTells ==
    ASSUME Inv, NEW w \in Workers, RevokeReader(w)
    PROVE  ReadersTold(w)
<1> DEFINE req == inflight[w].req
           snap == inflight[w].snap
           revoked == RemoveReader(snap.box, req.target)
<1>1. /\ inflight[w].phase = "loaded" /\ req.op = "revokeReader"
      /\ CommitRemoval(req.id, revoked, snap.bytes, Settled(revoked, snap.envelopes))
      /\ Answer(w, "revoked", {})
  BY DEF RevokeReader, Loaded, Done
<1>2. /\ snap.box = box[req.id] /\ snap.box \in Mailbox /\ req.id \in Ids /\ req \in Requests
      /\ InOrder(snap.box)
  BY <1>1, FoundMailbox
<1>3. req.target \in Readers
  BY <1>1, <1>2, RequestTypes
<1>4. Tells(w, req.id, req.target)
  BY <1>1 DEF Answer, Tells, Inv, JobsOK
<1>5. PICK b, n : PutMailbox(req.id, b, n) /\ b.readers = snap.box.readers \ {req.target}
  <2>1. revoked \in Mailbox /\ revoked.readers = snap.box.readers \ {req.target}
    BY <1>2, <1>3, ReadersFields, ReadersType
  <2>2. ReleaseEnvelopes(revoked, Settled(revoked, snap.envelopes)).readers = revoked.readers
    BY <2>1, ReleasedFields
  <2> QED
    BY <1>1, <2>1, <2>2 DEF CommitRemoval
<1> QED
  BY <1>2, <1>4, <1>5, PutTells

(* Every other batch puts a document with the readers it had, or a new one. *)
LEMMA SaveTells ==
    ASSUME Inv, NEW w \in Workers,
           Append(w) \/ Read(w) \/ AcknowledgeUpTo(w) \/ AddReaderTo(w) \/ ExpireEnvelopes(w)
    PROVE  ReadersTold(w)
<1> DEFINE req == inflight[w].req
           snap == inflight[w].snap
<1>1. inflight[w].phase = "loaded" /\ now \in Nat
  BY ServiceAssumption, SMT
     DEF Append, Read, AcknowledgeUpTo, AddReaderTo, ExpireEnvelopes, Loaded, Inv, WorldOK
<1>2. /\ snap.box = box[req.id] /\ snap.box \in Mailbox /\ req.id \in Ids /\ req \in Requests
      /\ InOrder(snap.box)
  BY <1>1, FoundMailbox
<1> SUFFICES \E b, n : PutMailbox(req.id, b, n) /\ snap.box.readers \subseteq b.readers
  BY <1>2, PutTells
<1>3. CASE Append(w)
  <2>1. PICK charged, n, e :
          CommitAppend(req.id, [ReserveEnvelope(snap.box) EXCEPT !.bucket = charged], n, e)
    BY <1>3 DEF Append
  <2> DEFINE c == [ReserveEnvelope(snap.box) EXCEPT !.bucket = charged]
  <2>2. c.readers = snap.box.readers
    BY <1>2, ReservedFields
  <2>3. PutMailbox(req.id, c, n)
    BY <2>1 DEF CommitAppend
  <2> QED
    BY <2>2, <2>3
<1>4. CASE Read(w)
  BY <1>1, <1>2, <1>4, MarkReadFields DEF Read, SaveMailbox
<1>5. CASE AcknowledgeUpTo(w)
  <2> DEFINE a == Acknowledge(snap.box, req.reader, req.upTo)
             m == MarkRead(a, now)
  <2>1. req.reader \in Readers /\ req.upTo \in Nat
    BY <1>2, <1>5, RequestTypes DEF AcknowledgeUpTo, Loaded
  <2>2. a \in Mailbox /\ a.readers = snap.box.readers
    BY <1>2, <2>1, AcknowledgeFields, AcknowledgeType
  <2>3. m \in Mailbox /\ m.readers = snap.box.readers
    BY <1>1, <2>2, MarkReadFields, MarkReadType
  <2>4. PICK n, S : CommitRemoval(req.id, m, n, S)
    BY <1>5 DEF AcknowledgeUpTo
  <2> HIDE DEF m
  <2> QED
    BY <2>3, <2>4, ReleasedFields DEF CommitRemoval
<1>6. CASE AddReaderTo(w)
  <2>1. req.target \in Readers
    BY <1>2, <1>6, RequestTypes DEF AddReaderTo, Loaded
  <2>2. PICK c \in {snap.box, AddReader(snap.box, req.target)} :
          SaveMailbox(req.id, MarkRead(c, now), snap.bytes)
    BY <1>6 DEF AddReaderTo
  <2>3. c \in Mailbox /\ snap.box.readers \subseteq c.readers
    <3>1. /\ AddReader(snap.box, req.target) \in Mailbox
          /\ AddReader(snap.box, req.target).readers = snap.box.readers \cup {req.target}
      BY <1>2, <2>1, ReadersFields, ReadersType
    <3> QED BY <1>2, <2>2, <3>1
  <2> QED
    BY <1>1, <2>2, <2>3, MarkReadFields DEF SaveMailbox
<1>7. CASE ExpireEnvelopes(w)
  <2>1. PICK n, S : CommitRemoval(req.id, snap.box, n, S)
    BY <1>7 DEF ExpireEnvelopes
  <2> QED
    BY <1>2, <2>1, ReleasedFields DEF CommitRemoval
<1> QED
  BY <1>3, <1>4, <1>5, <1>6, <1>7
(* So for every step of a handler but an eviction; a creation is of an id   *)
(* without a mailbox.                                                       *)
Works(w) == Append(w) \/ Silent(w)

LEMMA HandlersTell ==
    ASSUME Inv, NEW w \in Workers, Works(w), ~Evict(w)
    PROVE  ReadersTold(w)
<1>1. CASE Create(w)
  <2>1. inflight[w].req.id \in Ids \ live
    BY <1>1, EvictingJob DEF Create, Inv, JobsOK
  <2>2. \E b, n : PutMailbox(inflight[w].req.id, b, n)
    BY <1>1 DEF Create, CreateMailbox
  <2> QED
    BY <2>1, <2>2, PutTells
<1>2. CASE UNCHANGED database
  BY <1>2 DEF database, ReadersTold
<1>3. CASE Request(w) \/ SweepOne(w) \/ SelectVictims(w) \/ EndWithoutWrite(w) \/ Fail(w)
  BY <1>2, <1>3 DEF Request, SweepOne, Start, SelectVictims, EndWithoutWrite, Fail
<1> QED
  BY <1>1, <1>3, SaveTells, RevokeTells, RemovalTells DEF Works, Silent

(* Who works was not answering, and nobody else is: no one is about to tell *)
(* when a handler takes a step.                                             *)
LEMMA NobodyEnds ==
    ASSUME Inv, NEW w \in Workers, Works(w), NEW v \in Workers
    PROVE  inflight[v].phase # "done"
<1>1. CASE CoordinatorFree
  BY <1>1 DEF CoordinatorFree, Idle
<1>2. CASE ~CoordinatorFree
  <2>1. ~Request(w) /\ ~SweepOne(w)
    BY <1>2 DEF Request, SweepOne, Start
  <2>2. inflight[w].phase \in {"loaded", "evicting"}
    BY <2>1 DEF Works, Silent, SelectVictims, Evict, Create, Append, Read, AcknowledgeUpTo,
                AddReaderTo, RevokeReader, Remove, ExpireMailbox, ExpireEnvelopes,
                EndWithoutWrite, Fail, Loaded
  <2>3. inflight[w] # Idle /\ (inflight[v] # Idle => v = w)
    BY <2>2 DEF Idle, Inv, JobsOK, OneHandlerAtATime
  <2> QED
    BY <2>2, <2>3 DEF Idle
<1> QED
  BY <1>1, <1>2

LEMMA WorkHint ==
    ASSUME Inv, HintInv, NEW w \in Workers, Works(w), ~Evict(w), UNCHANGED hints
    PROVE  HintInv'
<1>1. UNCHANGED <<connected, subscriptions, pending>> /\ ReadersTold(w)
  BY HandlersTell DEF hints
<1>2. HintTypes'
  BY <1>1 DEF HintInv, HintTypes
<1>3. ASSUME NEW k \in subscriptions PROVE Accounted(k)'
  <2>1. k[2] \in Ids /\ k[3] \in Readers /\ (Current(k) \/ \E p \in pending : Checks(p, k))
    BY <1>3, NobodyEnds DEF HintInv, HintTypes, Accounted, Ends
  <2>2. Tells(w, k[2], k[3]) => Ends(w, k)'
    BY <1>1 DEF Tells, Ends, Dropped
  <2>3. CASE Current(k)
    <3>1. Current(k)' \/ Tells(w, k[2], k[3])
      BY <1>1, <2>3 DEF Current, ReadersTold
    <3> QED
      BY <2>2, <3>1 DEF Accounted
  <2>4. ASSUME NEW p \in pending, Checks(p, k) PROVE Accounted(k)'
    <3>1. CASE p.stage = "load"
      <4>1. k[2] \in live
        BY <2>4, <3>1 DEF Checks
      <4>2. Checks(p, k)' \/ Tells(w, k[2], k[3])
        BY <1>1, <2>1, <2>4, <3>1, <4>1 DEF Checks, ReadersTold
      <4> QED
        BY <1>1, <2>2, <4>2 DEF Accounted
    <3>2. CASE p.stage # "load"
      BY <1>1, <2>4, <3>2 DEF Accounted, Checks
    <3> QED BY <3>1, <3>2
  <2> QED
    BY <2>1, <2>3, <2>4
<1> QED
  BY <1>1, <1>2, <1>3 DEF HintInv

LEMMA RespondHint ==
    ASSUME Inv, HintInv, NEW w \in Workers, RespondAndNotify(w)
    PROVE  HintInv'
<1>1. /\ UNCHANGED <<connected, pending, live, box>> /\ inflight[w].phase = "done"
      /\ inflight' = [inflight EXCEPT ![w] = Idle] /\ subscriptions' = subscriptions \ Dropped(w)
  BY DEF RespondAndNotify, Respond, database
<1>2. HintTypes'
  BY <1>1 DEF HintInv, HintTypes
<1>3. ASSUME NEW k \in subscriptions' PROVE Accounted(k)' /\ k[1] \in connected'
  <2>1. k \in subscriptions /\ k \notin Dropped(w) /\ Accounted(k) /\ k[1] \in connected'
    BY <1>1, <1>3 DEF HintInv
  <2>2. \A v \in Workers : inflight[v].phase = "done" => v = w
    BY <1>1 DEF Inv, JobsOK, OneHandlerAtATime, Idle
  <2>3. Current(k) \/ \E p \in pending : Checks(p, k)
    BY <2>1, <2>2 DEF Accounted, Ends
  <2> QED
    BY <1>1, <2>1, <2>3 DEF Accounted, Current, Checks
<1> QED
  BY <1>2, <1>3 DEF HintInv

LEMMA PassHint ==
    ASSUME HintInv, StartSweep \/ Tick, UNCHANGED hints
    PROVE  HintInv'
<1>1. UNCHANGED <<connected, subscriptions, pending, live, box, inflight>>
  BY DEF StartSweep, Tick, hints, database, process
<1>2. ASSUME NEW k \in subscriptions, Accounted(k) PROVE Accounted(k)'
  BY <1>1, <1>2 DEF Accounted, Current, Checks, Ends, Dropped
<1> QED
  BY <1>1, <1>2 DEF HintInv, HintTypes

(* Every step of a node that does not evict.                                *)
LEMMA HintStep ==
    ASSUME Inv, HintInv, [HintNext]_hintVars, [\A w \in Workers : ~Evict(w)]_vars
    PROVE  HintInv'
<1>1. CASE UNCHANGED hintVars
  <2>1. UNCHANGED <<vars, connected, subscriptions, pending>>
    BY <1>1 DEF hintVars, hints
  <2>2. ASSUME NEW k \in subscriptions, Accounted(k) PROVE Accounted(k)'
    BY <2>1, <2>2, StaysAccounted
  <2> QED
    BY <2>1, <2>2 DEF HintInv, HintTypes
<1>2. ASSUME NEW w \in Workers, Works(w), UNCHANGED hints PROVE HintInv'
  <2>1. CASE Evict(w)
    <3>1. UNCHANGED vars
      BY <2>1
    <3> QED BY <1>1, <1>2, <3>1 DEF hintVars
  <2> QED
    BY <1>2, <2>1, WorkHint
<1>3. CASE Restart
  BY <1>3 DEF Restart, HintInv, HintTypes
<1>4. CASE (StartSweep \/ Tick) /\ UNCHANGED hints
  BY <1>4, PassHint
<1>5. ASSUME NEW w \in Workers, RespondAndNotify(w) PROVE HintInv'
  BY <1>5, RespondHint
<1>6. ASSUME NEW p \in pending, Look(p) \/ Load(p) \/ AddSubscription(p) \/ Confirm(p)
      PROVE  HintInv'
  BY <1>6, LookHint, LoadHint, AddHint, ConfirmHint
<1>7. CASE Connect \/ Disconnect \/ Subscribe
  BY <1>7, SocketHint
<1>8. CASE \E w \in Workers : AppendAndHint(w) \/ (Silent(w) /\ UNCHANGED hints)
  BY <1>2, <1>8 DEF Works, AppendAndHint
<1>9. HintNext => HintInv'
  <2> SUFFICES ASSUME HintNext PROVE HintInv'
    OBVIOUS
  <2>1. CASE \E p \in pending : Look(p) \/ Load(p) \/ AddSubscription(p) \/ Confirm(p)
    BY <1>6, <2>1
  <2>2. CASE \E w \in Workers :
             RespondAndNotify(w) \/ AppendAndHint(w) \/ (Silent(w) /\ UNCHANGED hints)
    BY <1>5, <1>8, <2>2
  <2>3. CASE (StartSweep \/ Tick) /\ UNCHANGED hints
    BY <1>4, <2>3
  <2> QED
    BY <1>3, <1>7, <2>1, <2>2, <2>3 DEF HintNext
<1> QED
  BY <1>1, <1>9

(* A node that never evicts.  One whose limit is above the number of ids is *)
(* such a node: a creation that evicts finds the limit reached by others.   *)
NeverEvicts == [][\A w \in Workers : ~Evict(w)]_vars

NodeHasRoom == \A n \in Limits : Cardinality(Ids) <= n

LEMMA EvictionsNeedAFullNode ==
    ASSUME Inv, QueueInv, NEW w \in Workers, Evict(w)
    PROVE  Cardinality(live) >= maxMailboxes /\ Cardinality(live) < Cardinality(Ids)
<1>1. PICK v \in inflight[w].victims : inflight[w].phase = "evicting"
  BY DEF Evict
<1>2. JobHolds(inflight[w]) /\ inflight[w].req.id \in Ids \ live
  BY <1>1, EvictingJob DEF Inv, JobsOK, QueueInv, JobsHold
<1> DEFINE V == inflight[w].victims
<1>3. IsFiniteSet(V) /\ Cardinality(live) = Cardinality(V) + maxMailboxes - 1
  BY <1>1, <1>2 DEF JobHolds
<1>4. Cardinality(V) \in Nat /\ Cardinality(V) # 0 /\ maxMailboxes \in Nat
  BY <1>1, <1>3, FS_CardinalityType, FS_EmptySet, ServiceAssumption DEF Inv, WorldOK
<1>5. live \subseteq Ids /\ live # Ids
  BY <1>2 DEF Inv, DatabaseOK
<1>6. Cardinality(live) < Cardinality(Ids)
  <2>1. Cardinality(live) <= Cardinality(Ids) /\ (Cardinality(live) = Cardinality(Ids) => live = Ids)
    BY <1>5, FS_Subset, ServiceAssumption
  <2>2. Cardinality(live) \in Nat /\ Cardinality(Ids) \in Nat
    BY <1>5, FS_Subset, FS_CardinalityType, ServiceAssumption
  <2> QED BY <1>5, <2>1, <2>2
<1> QED
  BY <1>3, <1>4, <1>6

LEMMA RoomForAll == NodeHasRoom => (Spec => NeverEvicts)
<1> SUFFICES ASSUME NodeHasRoom PROVE Spec => NeverEvicts
  OBVIOUS
<1>1. ASSUME Inv, QueueInv PROVE \A w \in Workers : ~Evict(w)
  <2> SUFFICES ASSUME NEW w \in Workers, Evict(w) PROVE FALSE
    OBVIOUS
  <2>1. Cardinality(live) >= maxMailboxes /\ Cardinality(live) < Cardinality(Ids)
    BY <1>1, EvictionsNeedAFullNode
  <2>2. /\ maxMailboxes \in Nat /\ Cardinality(Ids) <= maxMailboxes
        /\ Cardinality(live) \in Nat /\ Cardinality(Ids) \in Nat
    BY <1>1, FS_Subset, FS_CardinalityType, ServiceAssumption
       DEF NodeHasRoom, Inv, WorldOK, DatabaseOK
  <2> QED BY <2>1, <2>2
<1>2. Inv /\ QueueInv => [\A w \in Workers : ~Evict(w)]_vars
  BY <1>1
<1> QED
  BY <1>2, EverythingHolds, PTL DEF NeverEvicts

(* HintsGoToReaders holds on a node that never evicts, for any number of    *)
(* sockets and of subscribe messages in progress, although the server's two *)
(* checks and the handlers run in between one another.                      *)
THEOREM HintsTheorem == HintSpec /\ NeverEvicts => []HintsGoToReaders
<1>1. Inv /\ HintInv /\ [HintNext]_hintVars /\ [\A w \in Workers : ~Evict(w)]_vars => HintInv'
  BY HintStep
<1> QED
  BY <1>1, InitHints, HintsAccounted, HintsServe, InvariantTheorem, PTL
     DEF HintSpec, NeverEvicts

(* So it does on every node with room for all mailboxes.                    *)
THEOREM HintsWithRoomTheorem == NodeHasRoom => (HintSpec => []HintsGoToReaders)
BY HintsTheorem, RoomForAll, HintsServe

-----------------------------------------------------------------------------
(* The append limit of one mailbox over time (AppendRate).                  *)

(* The capacity of a bucket is a natural number.                            *)
LEMMA CapacityType == Capacity \in Nat
BY AppendRateAssumption, SMT DEF Capacity

(* What a bucket offers is a natural number within its capacity.            *)
LEMMA AvailableType ==
    ASSUME NEW b \in Bucket, NEW t \in Nat, b.appendRefilledAt <= t
    PROVE  /\ Available(b, t) \in 0 .. Capacity
           /\ Available(b, t) <= b.appendTokens + (t - b.appendRefilledAt) * AppendRate
<1> DEFINE gain == (t - b.appendRefilledAt) * AppendRate
<1>1. Elapsed(b, t) = t - b.appendRefilledAt
  BY SMT DEF Elapsed, Bucket
<1>2. gain \in Nat
  BY AppendRateAssumption, SMT DEF Bucket
<1>3. b.appendTokens \in 0 .. Capacity
  BY DEF Bucket
<1>4. Available(b, t) = IF b.appendTokens + gain < Capacity THEN b.appendTokens + gain
                                                          ELSE Capacity
  BY <1>1 DEF Available
<1> HIDE DEF gain
<1>5. /\ Available(b, t) \in 0 .. Capacity
      /\ Available(b, t) <= b.appendTokens + gain
  BY <1>2, <1>3, <1>4, CapacityType, SMT
<1> QED
  BY <1>5 DEF gain

(* One tick later a bucket offers at most one refill more.                  *)
LEMMA TickRefillsOnce ==
    ASSUME NEW b \in Bucket, NEW t \in Nat, b.appendRefilledAt <= t
    PROVE  Available(b, t + 1) <= Available(b, t) + AppendRate
<1> DEFINE gain == (t - b.appendRefilledAt) * AppendRate
<1>1. Elapsed(b, t) = t - b.appendRefilledAt /\ Elapsed(b, t + 1) = t + 1 - b.appendRefilledAt
  BY SMT DEF Elapsed, Bucket
<1>2. gain \in Nat /\ (t + 1 - b.appendRefilledAt) * AppendRate = gain + AppendRate
  BY AppendRateAssumption, SMT DEF Bucket
<1>3. b.appendTokens \in Nat
  BY CapacityType, SMT DEF Bucket
<1>4. Available(b, t) = IF b.appendTokens + gain < Capacity THEN b.appendTokens + gain
                                                          ELSE Capacity
  BY <1>1 DEF Available
<1>5. Available(b, t + 1) = IF b.appendTokens + (gain + AppendRate) < Capacity
                              THEN b.appendTokens + (gain + AppendRate)
                              ELSE Capacity
  BY <1>1, <1>2 DEF Available
<1> HIDE DEF gain
<1> QED
  BY <1>2, <1>3, <1>4, <1>5, CapacityType, AppendRateAssumption, SMT

(* A bucket that was just used offers what it kept.                         *)
LEMMA ConsumedAvailable ==
    ASSUME NEW b \in Bucket, NEW t \in Nat, b.appendRefilledAt <= t,
           AppendRate # 0, MayAppend(b, t)
    PROVE  /\ ConsumeAppend(b, t) \in Bucket
           /\ ConsumeAppend(b, t).appendRefilledAt = t
           /\ Available(ConsumeAppend(b, t), t) = Available(b, t) - Minute
<1> DEFINE rest == Available(b, t) - Minute
<1>1. Available(b, t) \in 0 .. Capacity
  BY AvailableType
<1>2. rest \in 0 .. Capacity
  BY <1>1, AppendRateAssumption, CapacityType, SMT DEF MayAppend
<1>3. ConsumeAppend(b, t) = [appendTokens |-> rest, appendRefilledAt |-> t]
  BY DEF ConsumeAppend
<1>4. Elapsed(ConsumeAppend(b, t), t) = 0
  BY <1>3, SMT DEF Elapsed
<1>5. Available(ConsumeAppend(b, t), t) = IF rest + 0 * AppendRate < Capacity
                                            THEN rest + 0 * AppendRate ELSE Capacity
  BY <1>3, <1>4 DEF Available
<1> HIDE DEF rest
<1>6. rest + 0 * AppendRate = rest /\ (~(rest < Capacity) => rest = Capacity)
  BY <1>2, CapacityType, AppendRateAssumption, SMT
<1>7. Available(ConsumeAppend(b, t), t) = rest
  BY <1>5, <1>6
<1>8. ConsumeAppend(b, t) \in Bucket
  BY <1>2, <1>3 DEF Bucket
<1> QED
  BY <1>3, <1>7, <1>8 DEF rest

(* What the append limit keeps at every step.                               *)
RateInv == RateTypeOK /\ NothingRefillsTwice

(* The bucket keeps its type and never refills a moment twice: what was     *)
(* accepted in the window and what is left never exceed a full bucket and   *)
(* the refill of the window.                                                *)
THEOREM RefillInvariant == RateSpec => []RateInv
<1> USE AppendRateAssumption, CapacityType
<1>1. RateInit => RateInv
  <2> SUFFICES ASSUME RateInit PROVE RateInv
    OBVIOUS
  <2>1. bucket \in Bucket /\ bucket.appendRefilledAt = 0 /\ clock = 0 /\ since = 0 /\ accepted = 0
    BY SMT DEF RateInit, FullBucket, Bucket
  <2>2. Available(bucket, clock) <= Capacity
    BY <2>1, AvailableType, SMT
  <2>3. Available(bucket, clock) \in Nat
    BY <2>1, AvailableType, SMT
  <2>4. accepted * Minute = 0 /\ (clock - since) * AppendRate = 0
    BY <2>1, SMT
  <2> QED
    BY <2>1, <2>2, <2>3, <2>4, SMT DEF RateInv, RateTypeOK, NothingRefillsTwice
<1>2. RateInv /\ [RateNext]_rateVars => RateInv'
  <2> SUFFICES ASSUME RateInv, [RateNext]_rateVars PROVE RateInv'
    OBVIOUS
  <2> USE DEF RateInv
  <2>0. Available(bucket, clock) \in Nat /\ Available(bucket, clock) <= Capacity
    BY AvailableType, SMT DEF RateTypeOK
  <2>1. CASE AcceptAppend
    <3>1. CASE AppendRate = 0
      BY <2>1, <3>1, SMT DEF AcceptAppend, RateTypeOK, NothingRefillsTwice, ConsumeAppend
    <3>2. CASE AppendRate # 0
      <4>1. /\ bucket' \in Bucket /\ bucket'.appendRefilledAt = clock
            /\ Available(bucket', clock) = Available(bucket, clock) - Minute
        BY <2>1, <3>2, ConsumedAvailable DEF AcceptAppend, RateTypeOK
      <4>2. RateTypeOK'
        BY <2>1, <4>1, SMT DEF AcceptAppend, RateTypeOK
      <4>3. (accepted + 1) * Minute = accepted * Minute + Minute
        BY SMT DEF RateTypeOK
      <4>4. accepted * Minute \in Nat /\ (clock - since) * AppendRate \in Nat
        BY SMT DEF RateTypeOK
      <4>5. (accepted + 1) * Minute + (Available(bucket, clock) - Minute)
              = accepted * Minute + Available(bucket, clock)
        BY <2>0, <4>3, <4>4, SMT
      <4>6. accepted' = accepted + 1 /\ clock' = clock /\ since' = since
        BY <2>1 DEF AcceptAppend
      <4>7. Available(bucket', clock') = Available(bucket, clock) - Minute
        BY <4>1, <4>6
      <4>8. NothingRefillsTwice'
        BY <3>2, <4>5, <4>6, <4>7 DEF NothingRefillsTwice
      <4> QED
        BY <4>2, <4>8
    <3> QED
      BY <3>1, <3>2
  <2>2. CASE OpenWindow
    <3>1. RateTypeOK'
      BY <2>2, SMT DEF OpenWindow, RateTypeOK
    <3>2. accepted' * Minute = 0 /\ (clock' - since') * AppendRate = 0
      BY <2>2, SMT DEF OpenWindow, RateTypeOK
    <3>3. Available(bucket', clock') = Available(bucket, clock)
      BY <2>2 DEF OpenWindow
    <3>4. NothingRefillsTwice'
      BY <2>0, <3>2, <3>3, SMT DEF NothingRefillsTwice
    <3> QED
      BY <3>1, <3>4
  <2>3. CASE RateTick
    <3>1. RateTypeOK'
      BY <2>3, SMT DEF RateTick, RateTypeOK, Bucket
    <3>2. Available(bucket, clock + 1) <= Available(bucket, clock) + AppendRate
      BY TickRefillsOnce DEF RateTypeOK
    <3>31. bucket \in Bucket /\ bucket.appendRefilledAt <= clock + 1 /\ clock + 1 \in Nat
      BY SMT DEF RateTypeOK, Bucket
    <3>3. Available(bucket, clock + 1) \in Nat
      BY <3>31, AvailableType, SMT
    <3>4. \A x \in Int : (x + 1) * AppendRate = x * AppendRate + AppendRate
      BY SMT
    <3>5. accepted * Minute \in Nat /\ (clock - since) * AppendRate \in Nat
      BY SMT DEF RateTypeOK
    <3>6. bucket' = bucket /\ clock' = clock + 1 /\ since' = since /\ accepted' = accepted
      BY <2>3 DEF RateTick
    <3>7. AppendRate # 0 =>
            accepted * Minute + Available(bucket, clock + 1)
              <= Capacity + ((clock - since) * AppendRate + AppendRate)
      BY <2>0, <3>2, <3>3, <3>5, SMT DEF NothingRefillsTwice
    <3>81. Available(bucket', clock') = Available(bucket, clock + 1)
      BY <3>6
    <3>82. clock - since \in Int /\ clock' - since' = (clock - since) + 1
      BY <3>6, SMT DEF RateTypeOK
    <3>83. (clock' - since') * AppendRate = (clock - since) * AppendRate + AppendRate
      BY <3>4, <3>82, Zenon
    <3>8. NothingRefillsTwice'
      BY <3>6, <3>7, <3>81, <3>83 DEF NothingRefillsTwice
    <3> QED
      BY <3>1, <3>8
  <2>4. CASE UNCHANGED rateVars
    <3>1. bucket' = bucket /\ clock' = clock /\ since' = since /\ accepted' = accepted
      BY <2>4, SMT DEF rateVars
    <3>2. Available(bucket', clock') = Available(bucket, clock)
      BY <3>1
    <3> QED
      BY <3>1, <3>2 DEF RateTypeOK, NothingRefillsTwice
  <2> QED
    BY <2>1, <2>2, <2>3, <2>4 DEF RateNext
<1> QED
  BY <1>1, <1>2, PTL DEF RateSpec

(* A mailbox accepts at most a minute of appends and the refill of a window *)
(* in every window, wherever it starts and whatever the configured rate is. *)
THEOREM RateTheorem == RateSpec => []RateHeld
<1> USE AppendRateAssumption, CapacityType
<1>1. RateInv => RateHeld
  <2> SUFFICES ASSUME RateInv, AppendRate # 0 PROVE accepted * Minute <= Capacity + (clock - since) * AppendRate
    BY DEF RateHeld
  <2>1. Available(bucket, clock) \in Nat
    BY AvailableType, SMT DEF RateInv, RateTypeOK
  <2>2. accepted * Minute \in Nat /\ (clock - since) * AppendRate \in Nat
    BY SMT DEF RateInv, RateTypeOK
  <2> QED
    BY <2>1, <2>2, SMT DEF RateInv, NothingRefillsTwice
<1> QED
  BY <1>1, RefillInvariant, PTL

-----------------------------------------------------------------------------
(* The difficulty of a creation, for every capacity and every count         *)
(* (CreationDifficulty).                                                    *)

(* A quotient rounded up reaches k just behind b * (k - 1).                *)
LEMMA CeilReaches ==
    ASSUME NEW a \in Int, NEW b \in Nat \ {0}, NEW k \in Int
    PROVE  /\ Ceil(a, b) \in Int
           /\ Ceil(a, b) >= k <=> a > b * (k - 1)
<1> DEFINE x == a + b - 1
           q == x \div b
           r == x % b
<1>1. q \in Int /\ r \in 0 .. b - 1 /\ x = b * q + r
  BY SMT
<1>2. Ceil(a, b) = q
  BY DEF Ceil
<1>3. a = b * q + r - b + 1
  BY <1>1
<1> HIDE DEF x, q, r
<1>4. b * (k - 1) = b * k - b
  BY SMT
<1>5. b * q \in Int /\ b * k \in Int
  BY <1>1
<1>6. CASE q >= k
  <2>1. b * (q - k) >= 0
    BY <1>1, <1>6, SMT
  <2>2. b * (q - k) = b * q - b * k
    BY <1>1, SMT
  <2> QED
    BY <1>1, <1>2, <1>3, <1>4, <1>5, <1>6, <2>1, <2>2
<1>7. CASE ~(q >= k)
  <2>1. b * (k - 1 - q) >= 0
    BY <1>1, <1>7, SMT
  <2>2. b * (k - 1 - q) = b * k - b - b * q
    BY <1>1, SMT
  <2> QED
    BY <1>1, <1>2, <1>3, <1>4, <1>5, <1>7, <2>1, <2>2
<1> QED
  BY <1>6, <1>7

(* The bits above the least pass k - 3 just behind k eighths.              *)
LEMMA BitsReach ==
    ASSUME NEW count \in Nat, NEW max \in Nat \ {0}
    PROVE  /\ BitsFor(count, max) \in MinBits .. MaxBits
           /\ \A k \in 4 .. 7 : BitsFor(count, max) >= MinBits + k - 3 <=> 8 * count > k * max
<1> DEFINE steps == Ceil((2 * count - max) * 4, max)
<1>1. CASE 2 * count <= max
  <2>1. BitsFor(count, max) = MinBits
    BY <1>1 DEF BitsFor
  <2>2. \A k \in 4 .. 7 : ~(8 * count > k * max)
    BY <1>1, SMT
  <2> QED
    BY <2>1, <2>2 DEF MinBits, MaxBits
<1>2. CASE ~(2 * count <= max)
  <2>1. \A k \in Int : steps \in Int /\ (steps >= k <=> (2 * count - max) * 4 > max * (k - 1))
    BY CeilReaches
  <2>2. BitsFor(count, max) = MinBits + IF steps < MaxBits - MinBits THEN steps
                                                                    ELSE MaxBits - MinBits
    BY <1>2 DEF BitsFor
  <2> HIDE DEF steps
  <2>3. steps \in Int /\ steps >= 1
    BY <1>2, <2>1, SMT
  <2>4. BitsFor(count, max) \in MinBits .. MaxBits
    BY <2>2, <2>3 DEF MinBits, MaxBits
  <2>5. ASSUME NEW k \in 4 .. 7
        PROVE  BitsFor(count, max) >= MinBits + k - 3 <=> 8 * count > k * max
    <3>1. steps >= k - 3 <=> (2 * count - max) * 4 > max * (k - 4)
      <4>1. k - 3 \in Int /\ (k - 3) - 1 = k - 4
        OBVIOUS
      <4> QED
        BY <2>1, <4>1
    <3>2. (2 * count - max) * 4 > max * (k - 4) <=> 8 * count > k * max
      BY SMT
    <3>3. BitsFor(count, max) >= MinBits + k - 3 <=> steps >= k - 3
      BY <2>2, <2>3 DEF MinBits, MaxBits
    <3> QED
      BY <3>1, <3>2, <3>3
  <2> QED
    BY <2>4, <2>5
<1> QED
  BY <1>1, <1>2

(* One bit is added at each eighth of the upper half of the capacity       *)
(* (MailboxCreationDifficulty.bitsFor).                                    *)
THEOREM EighthsTheorem ==
    \A max \in Nat \ {0}, count \in Nat : OneBitPerEighth(count, max)
<1> SUFFICES ASSUME NEW max \in Nat \ {0}, NEW count \in Nat
             PROVE  OneBitPerEighth(count, max)
  OBVIOUS
<1> DEFINE extra == BitsFor(count, max) - MinBits
<1>1. extra \in 0 .. 4 /\ BitsFor(count, max) = MinBits + extra
  BY BitsReach DEF MinBits, MaxBits
<1>2. \A k \in 4 .. 7 : 8 * count > k * max <=> extra >= k - 3
  BY BitsReach DEF MinBits, MaxBits
<1> HIDE DEF extra
<1>3. {k \in 4 .. 7 : 8 * count > k * max} = 4 .. (extra + 3)
  BY <1>1, <1>2
<1>4. Cardinality(4 .. (extra + 3)) = extra
  BY <1>1, FS_Interval
<1> QED
  BY <1>1, <1>3, <1>4 DEF OneBitPerEighth

(* A full node asks for the most, whatever its capacity                    *)
(* (MailboxCreationDifficulty.bitsFor).                                    *)
THEOREM FullTheorem == \A max \in Nat, count \in Nat : FullIsHardest(count, max)
<1> SUFFICES ASSUME NEW max \in Nat, NEW count \in Nat, count >= max
             PROVE  BitsFor(count, max) = MaxBits
  BY DEF FullIsHardest
<1>1. CASE max = 0
  BY <1>1 DEF BitsFor
<1>2. CASE max # 0
  <2>1. 8 * count > 7 * max
    BY <1>2
  <2>2. BitsFor(count, max) \in MinBits .. MaxBits /\ BitsFor(count, max) >= MinBits + 7 - 3
    BY <1>2, <2>1, BitsReach
  <2> QED
    BY <2>2 DEF MinBits, MaxBits
<1> QED
  BY <1>1, <1>2

(* A fuller node never asks for less (MailboxCreationDifficulty.bitsFor).  *)
THEOREM MonotoneTheorem ==
    \A max \in Nat \ {0}, count, more \in Nat : FullerIsNoEasier(count, more, max)
<1> SUFFICES ASSUME NEW max \in Nat \ {0}, NEW count \in Nat, NEW more \in Nat, count <= more
             PROVE  BitsFor(count, max) <= BitsFor(more, max)
  BY DEF FullerIsNoEasier
<1>1. /\ BitsFor(count, max) \in MinBits .. MaxBits /\ BitsFor(more, max) \in MinBits .. MaxBits
      /\ \A k \in 4 .. 7 : BitsFor(count, max) >= MinBits + k - 3 <=> 8 * count > k * max
      /\ \A k \in 4 .. 7 : BitsFor(more, max) >= MinBits + k - 3 <=> 8 * more > k * max
  BY BitsReach
<1>2. ASSUME NEW k \in 4 .. 7, BitsFor(count, max) >= MinBits + k - 3
      PROVE  BitsFor(more, max) >= MinBits + k - 3
  <2>1. k * max \in Nat /\ 8 * more >= 8 * count
    OBVIOUS
  <2> QED
    BY <1>1, <1>2, <2>1
<1>3. CASE BitsFor(count, max) = MinBits
  BY <1>1, <1>3 DEF MinBits, MaxBits
<1>4. CASE BitsFor(count, max) # MinBits
  <2>1. BitsFor(count, max) - MinBits + 3 \in 4 .. 7
    BY <1>1, <1>4 DEF MinBits, MaxBits
  <2> QED
    BY <1>1, <1>2, <2>1 DEF MinBits, MaxBits
<1> QED
  BY <1>3, <1>4
=============================================================================
