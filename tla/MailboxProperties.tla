-------------------------- MODULE MailboxProperties --------------------------
(***************************************************************************)
(* What the mailbox service promises: invariants over the database and     *)
(* the clients, and what no step may do to them.                           *)
(***************************************************************************)
EXTENDS Mailboxes

Outcomes == {"nothing", "created", "appended", "read", "acknowledged", "added",
             "revoked", "removed", "expired"}

EvictingJobs == [phase : {"evicting"}, req : Requests, victims : SUBSET Ids, at : Nat]
DoneJobs == [phase : {"done"}, req : Requests, outcome : Outcomes, page : SUBSET Nat]

(* A handler that has read holds what the database holds: nothing was       *)
(* written since.  A creation that evicts is for an id that is still free,   *)
(* and only reads answer with a page.                                       *)
JobOK(j) ==
    \/ j = Idle
    \/ /\ j.req \in Requests
       /\ j = [phase |-> "loaded", req |-> j.req, snap |-> Snapshot(j.req.id)]
    \/ j \in EvictingJobs /\ j.req.op = "create" /\ j.req.id \notin live
    \/ j \in DoneJobs /\ (j.page # {} => j.req.op = "read")

(* Every variable keeps its type, and no handler acts on a stale snapshot.  *)
(* The byte totals have their exact value in CountersAgree.                 *)
TypeOK ==
    /\ live \subseteq Ids
    /\ box \in [Ids -> Mailbox]
    /\ envelopes \in [Ids -> SUBSET Envelope]
    /\ \A id \in Ids : IsFiniteSet(envelopes[id])
    /\ dedupe \in [Ids -> [EnvelopeIds -> Nat]]
    /\ mailboxCount \in Int
    /\ retiredCursor \in Nat
    /\ inflight = [w \in Workers |-> inflight[w]]
    /\ \A w \in Workers : JobOK(inflight[w])
    /\ sweep \in [at : 0 .. now, left : SUBSET Ids]
    /\ maxMailboxes \in Limits
    /\ now \in 0 .. MaxTime
    /\ faults \in Nat
    /\ issued \in [Ids -> Nat]
    /\ position \in [Readers -> [Ids -> Nat]]
    /\ delivered \in [Readers -> [Ids -> SUBSET Nat]]

(* MailboxCoordinator runs one handler at a time.                           *)
OneHandlerAtATime ==
    \A w, v \in Workers : inflight[w] # Idle /\ inflight[v] # Idle => w = v

-----------------------------------------------------------------------------
(* The counters and index rows that batches keep next to the documents     *)
(* agree with what is stored: the mailbox counter with the documents, each *)
(* envelope count and byte total with the envelope rows, although every     *)
(* handler writes them from its snapshot, and the deduplication rows with   *)
(* the cursors of exactly the stored envelopes, whatever was interrupted    *)
(* (LocalMailboxRepository's batches under MailboxCoordinator,              *)
(* Mailbox.reserveEnvelope and releaseEnvelopes).                           *)
CountersAgree ==
    /\ mailboxCount = Cardinality(live)
    /\ \A id \in Ids :
          /\ box[id].envelopeCount = Cardinality(envelopes[id])
          /\ bytes[id] = SizeOf(envelopes[id])
          /\ \A d \in EnvelopeIds :
                {e.cursor : e \in {x \in envelopes[id] : x.envelopeId = d}}
                    = IF dedupe[id][d] = 0 THEN {} ELSE {dedupe[id][d]}

(* A cursor is never given out twice for one mailbox id, across every       *)
(* lifetime of the mailbox: what is next is above all that was ever given   *)
(* out, and a removed mailbox leaves the node-wide floor above its cursors  *)
(* (highestRetiredCursor).                                                  *)
FreshCursors ==
    \A id \in Ids : IF id \in live THEN issued[id] < box[id].nextCursor
                                   ELSE issued[id] <= retiredCursor

(* No reader that pages from its own position ever skips an envelope: what  *)
(* is stored at or below its position was delivered to it, although         *)
(* responses are lost, mailboxes are removed and created again under the    *)
(* same id, and readers are revoked and join again.                         *)
ReadersNeverSkip ==
    \A r \in Readers, id \in Ids : \A e \in envelopes[id] :
        e.cursor <= position[r][id] => e.cursor \in delivered[r][id]

(* An acknowledgement covers only envelopes that were already stored: no    *)
(* later envelope is deleted before its readers have seen it.               *)
AcksCoverThePast ==
    \A id \in live : \A r \in Readers : box[id].acked[r] < box[id].nextCursor

-----------------------------------------------------------------------------
(* A mailbox goes for one of three reasons, and every cursor it gave out is *)
(* retired.  A current reader asked for it; or a pass of the sweep handles  *)
(* it and no reader came to it in the whole window before the pass began,   *)
(* whatever happened since the pass listed it: then it goes with all that   *)
(* it holds, however new, as appends do not count (MailboxExpirer); or a    *)
(* creation evicts it, empty and idle, from a full node, and spares no      *)
(* empty mailbox that was read less recently (Mailbox.selectEvictions).     *)
Asked(w, id) ==
    /\ Loaded(w, "remove") /\ inflight[w].req.id = id
    /\ AcceptsRead(box[id], inflight[w].req.reader)
Unread(w, id) ==
    /\ Loaded(w, "expire") /\ inflight[w].req.id = id
    /\ IsExpired(box[id], inflight[w].req.at)
Evicted(w, id) ==
    /\ inflight[w].phase = "evicting" /\ id # inflight[w].req.id
    /\ IsIdleAndEmpty(box[id], inflight[w].at) /\ envelopes[id] = {}
    /\ Cardinality(live) >= maxMailboxes
    /\ \A c \in live :
          envelopes[c] = {} /\ box[c].lastReadAt < box[id].lastReadAt => c \in inflight[w].victims

MailboxesLeaveForAReason == [][
    \A id \in live \ live' :
        /\ issued[id] <= retiredCursor'
        /\ \E w \in Workers : Asked(w, id) \/ Unread(w, id) \/ Evicted(w, id)]_vars

-----------------------------------------------------------------------------
(* The scheduler keeps starting passes; the coordinator's promise chain is  *)
(* first in, first out, so a queued sweep handler is not overtaken forever; *)
(* a handler that runs gets its database answers.                           *)
Fairness ==
    /\ WF_vars(StartSweep)
    /\ SF_vars(\E w \in Workers : SweepOne(w))
    /\ \A w \in Workers : WF_vars(Handle(w))

FairSpec == Spec /\ Fairness

Holds(id, cursor) == \E e \in envelopes[id] : e.cursor = cursor
HoldsOld(id, cursor) ==
    \E e \in envelopes[id] : e.cursor = cursor /\ EnvelopeExpired(e, now)

(* No unbounded growth: an envelope whose retention is over is deleted in   *)
(* the end, however many requests keep the coordinator busy and whatever a  *)
(* failure or a restart interrupts.                                         *)
OldEnvelopesGo ==
    \A id \in Ids : \A c \in 1 .. MaxCursor : HoldsOld(id, c) ~> ~Holds(id, c)

(* A mailbox nobody reads for the retention window is removed in the end,   *)
(* or someone comes back to it.                                             *)
UnreadMailboxesGo ==
    \A id \in Ids :
        (id \in live /\ IsExpired(box[id], now)) ~> ~(id \in live /\ IsExpired(box[id], now))

(* Retention wins in the end, over envelopes and over mailboxes.            *)
RetentionWins == OldEnvelopesGo /\ UnreadMailboxesGo

-----------------------------------------------------------------------------
(* Handlers that read first and write later, counters, batches and crashes  *)
(* together do what the plain queue does in single steps: the service       *)
(* implements MailboxQueue.                                                 *)
Queue == INSTANCE MailboxQueue WITH
    Cursors   <- 0 .. MaxCursor,
    Envelopes <- [envelopeId : EnvelopeIds, cursor : 1 .. MaxCursor,
                  size : Sizes, storedAt : 0 .. MaxTime],
    Keep      <- Retention,
    open      <- live,
    readers   <- [id \in Ids |-> box[id].readers],
    acked     <- [id \in Ids |-> box[id].acked],
    stored    <- envelopes,
    top       <- issued,
    seen      <- position,
    shown     <- delivered,
    clock     <- now

ImplementsQueue == Queue!Spec
=============================================================================
