----------------------------- MODULE Mailboxes ------------------------------
(***************************************************************************)
(* The mailbox service of one node: requests and the retention sweep, run  *)
(* one at a time by MailboxCoordinator over a local database whose batches *)
(* are atomic.  A handler first reads (its snapshot) and later commits, so *)
(* what the coordinator prevents is visible here; the process may stop     *)
(* between any two steps and loses everything but the database.            *)
(***************************************************************************)
EXTENDS MailboxAggregate

CONSTANTS Ids,           \* mailbox ids
          Workers,       \* handlers that could run at once
          Limits,        \* values MAILBOX_MAX_COUNT may have at a start
          MaxPage,
          MaxTime, MaxCursor, MaxFaults   \* bounds of the model

ASSUME ServiceAssumption ==
    /\ IsFiniteSet(Ids)
    /\ Limits \subseteq Nat
    /\ {MaxPage, MaxTime, MaxCursor, MaxFaults} \subseteq Nat
    /\ MaxPage > 0

VARIABLES
    \* the database
    live,            \* ids with a mailbox document
    box,             \* the document of each id (Blank when not live)
    bytes,           \* its byte total
    envelopes,       \* stored envelope rows
    dedupe,          \* envelope id -> cursor rows; 0 is no row
    mailboxCount,    \* the counter documents
    retiredCursor,
    \* the process
    inflight,        \* what each worker is doing
    sweep,           \* the running expiration pass: [at, left]
    maxMailboxes,    \* the configured limit of this run of the process
    \* the world
    now, faults,
    issued,          \* highest cursor ever given out for an id
    position,        \* last cursor each reader has seen of an id
    delivered        \* cursors each reader was shown

database == <<live, box, bytes, envelopes, dedupe, mailboxCount, retiredCursor>>
process  == <<inflight, sweep, maxMailboxes>>
clients  == <<position, delivered>>
world    == <<now, faults, issued, clients>>
vars     == <<database, process, world>>

Blank == [NewMailbox(CHOOSE p \in Posts : TRUE, CHOOSE r \in Readers : TRUE, 1, 0)
             EXCEPT !.readers = {}]

Requests ==
         [op : {"create"}, id : Ids, post : Posts, reader : Readers]
    \cup [op : {"append"}, id : Ids, post : Posts, envelope : EnvelopeIds, size : Sizes]
    \cup [op : {"read"}, id : Ids, reader : Readers, after : 0 .. MaxCursor, limit : 1 .. MaxPage]
    \cup [op : {"acknowledge"}, id : Ids, reader : Readers, upTo : 0 .. MaxCursor + 1]
    \cup [op : {"addReader", "revokeReader"}, id : Ids, reader : Readers, target : Readers]
    \cup [op : {"remove"}, id : Ids, reader : Readers]
    \cup [op : {"expire"}, id : Ids, at : 0 .. MaxTime]

Idle == [phase |-> "idle"]

(* What a handler has read of its mailbox before it writes. *)
Snapshot(id) == [ exists    |-> id \in live,
                  box       |-> box[id],
                  bytes     |-> bytes[id],
                  envelopes |-> envelopes[id],
                  dedupe    |-> dedupe[id] ]

Init ==
    /\ live = {}
    /\ box = [id \in Ids |-> Blank]
    /\ bytes = [id \in Ids |-> 0]
    /\ envelopes = [id \in Ids |-> {}]
    /\ dedupe = [id \in Ids |-> [e \in EnvelopeIds |-> 0]]
    /\ mailboxCount = 0
    /\ retiredCursor = 0
    /\ inflight = [w \in Workers |-> Idle]
    /\ sweep = [at |-> 0, left |-> {}]
    /\ maxMailboxes \in Limits
    /\ now = 0
    /\ faults = 0
    /\ issued = [id \in Ids |-> 0]
    /\ position = [r \in Readers |-> [id \in Ids |-> 0]]
    /\ delivered = [r \in Readers |-> [id \in Ids |-> {}]]

-----------------------------------------------------------------------------
(* MailboxCoordinator: a handler starts only when no other one runs.       *)

(* Mutant of CoordinatorFree: handlers overlap.                            *)
NoCoordinator == TRUE

CoordinatorFree == \A w \in Workers : inflight[w] = Idle

Start(w, req) ==
    /\ CoordinatorFree
    /\ inflight[w] = Idle
    /\ inflight' = [inflight EXCEPT ![w] =
          [phase |-> "loaded", req |-> req, snap |-> Snapshot(req.id)]]
    /\ UNCHANGED <<database, sweep, maxMailboxes, world>>

(* A request arrives.  A reader asks for what follows its own position.    *)
(* MaxCursor bounds the cursors a run gives out.                           *)
Request(w) == \E req \in Requests :
    /\ req.op # "expire"
    /\ req.op = "read" => req.after = position[req.reader][req.id]
    /\ req.op = "append" => box[req.id].nextCursor <= MaxCursor
    /\ Start(w, req)

(* Mutant of StartSweep: only mailboxes that hold envelopes are listed. *)
StartSweepOfFull ==
    /\ sweep.left = {} /\ live # {}
    /\ sweep' = [at |-> now, left |-> {id \in live : envelopes[id] # {}}]
    /\ UNCHANGED <<database, inflight, maxMailboxes, world>>

(* The scheduler lists every mailbox, then handles them one by one. *)
StartSweep ==
    /\ sweep.left = {} /\ live # {}
    /\ sweep' = [at |-> now, left |-> live]
    /\ UNCHANGED <<database, inflight, maxMailboxes, world>>

SweepOne(w) == \E id \in sweep.left :
    Start(w, [op |-> "expire", id |-> id, at |-> sweep.at])

-----------------------------------------------------------------------------
(* The database batches.                                                   *)

(* Every handler writes the document it loaded and changed. *)
PutMailbox(id, newBox, newBytes) ==
    /\ live' = live \cup {id}
    /\ box' = [box EXCEPT ![id] = newBox]
    /\ bytes' = [bytes EXCEPT ![id] = newBytes]

SaveMailbox(id, newBox, newBytes) ==
    /\ PutMailbox(id, newBox, newBytes)
    /\ UNCHANGED <<envelopes, dedupe, mailboxCount, retiredCursor>>

WithoutRows(rows, removed) ==
    [d \in EnvelopeIds |-> IF \E x \in removed : x.envelopeId = d THEN 0 ELSE rows[d]]

CommitAppend(id, newBox, newBytes, envelope) ==
    /\ PutMailbox(id, newBox, newBytes)
    /\ envelopes' = [envelopes EXCEPT ![id] =
                        {e \in @ : e.cursor # envelope.cursor} \cup {envelope}]
    /\ dedupe' = [dedupe EXCEPT ![id][envelope.envelopeId] = envelope.cursor]
    /\ UNCHANGED <<mailboxCount, retiredCursor>>

CommitRemoval(id, newBox, newBytes, removed) ==
    /\ PutMailbox(id, ReleaseEnvelopes(newBox, removed), newBytes - SizeOf(removed))
    /\ envelopes' = [envelopes EXCEPT ![id] =
                        {e \in @ : \A x \in removed : x.cursor # e.cursor}]
    /\ dedupe' = [dedupe EXCEPT ![id] = WithoutRows(@, removed)]
    /\ UNCHANGED <<mailboxCount, retiredCursor>>

(* Mutant of FirstCursor: every mailbox starts at one. *)
FirstCursorIsOne == 1

(* The first cursor of a mailbox is above every cursor of a removed one. *)
FirstCursor == retiredCursor + 1

CreateMailbox(id, newBox) ==
    /\ PutMailbox(id, newBox, 0)
    /\ mailboxCount' = mailboxCount + 1
    /\ UNCHANGED <<envelopes, dedupe, retiredCursor>>

(* Mutants of Floor: the floor stays, or follows the last removal down. *)
FloorNeverRises(id) == retiredCursor
FloorOfTheLast(id) == IF id \in live THEN HighestCursor(box[id]) ELSE retiredCursor

Floor(id) ==
    IF id \in live /\ HighestCursor(box[id]) > retiredCursor
      THEN HighestCursor(box[id])
      ELSE retiredCursor

RemoveMailbox(id) ==
    /\ live' = live \ {id}
    /\ box' = [box EXCEPT ![id] = Blank]
    /\ bytes' = [bytes EXCEPT ![id] = 0]
    /\ envelopes' = [envelopes EXCEPT ![id] = {}]
    /\ dedupe' = [dedupe EXCEPT ![id] = WithoutRows(@, envelopes[id])]
    /\ mailboxCount' = IF id \in live THEN mailboxCount - 1 ELSE mailboxCount
    /\ retiredCursor' = Floor(id)

-----------------------------------------------------------------------------
(* The handlers.  Each acts on its snapshot and ends in phase "done".      *)

Loaded(w, op) == inflight[w].phase = "loaded" /\ inflight[w].req.op = op

Answer(w, outcome, page) ==
    inflight' = [inflight EXCEPT ![w] =
        [phase |-> "done", req |-> inflight[w].req, outcome |-> outcome, page |-> page]]
Done(w, outcome) == Answer(w, outcome, {})

(* The requester holds a read capability of an existing mailbox. *)
Authorised(w) == /\ inflight[w].snap.exists
                 /\ AcceptsRead(inflight[w].snap.box, inflight[w].req.reader)

EvictionCandidates == {id \in live : IsIdleAndEmpty(box[id], now)}

(* The least recently read candidates: the slots a creation frees. *)
VictimSets(n) ==
    {V \in SUBSET EvictionCandidates :
        /\ Cardinality(V) = n
        /\ \A v \in V, c \in EvictionCandidates \ V :
              box[v].lastReadAt <= box[c].lastReadAt}

SlotsNeeded ==
    IF mailboxCount >= maxMailboxes THEN mailboxCount - maxMailboxes + 1 ELSE 0

SelectVictims(w) ==
    /\ Loaded(w, "create")
    /\ ~inflight[w].snap.exists
    /\ \E V \in VictimSets(SlotsNeeded) :
          inflight' = [inflight EXCEPT ![w] =
              [phase |-> "evicting", req |-> inflight[w].req, victims |-> V, at |-> now]]
    /\ UNCHANGED <<database, sweep, maxMailboxes, world>>

(* One batch per victim: the process may stop between two of them. *)
Evict(w) ==
    /\ inflight[w].phase = "evicting"
    /\ \E v \in inflight[w].victims :
          /\ RemoveMailbox(v)
          /\ inflight' = [inflight EXCEPT ![w].victims = @ \ {v}]
    /\ UNCHANGED <<sweep, maxMailboxes, world>>

Create(w) ==
    LET job == inflight[w]
        req == job.req
    IN  /\ job.phase = "evicting" /\ job.victims = {}
        /\ CreateMailbox(req.id, NewMailbox(req.post, req.reader, FirstCursor, job.at))
        /\ Done(w, "created")
        /\ UNCHANGED <<sweep, maxMailboxes, world>>

AppendAllowed(w) ==
    LET snap == inflight[w].snap
        req  == inflight[w].req
    IN  /\ snap.exists /\ AcceptsPost(snap.box, req.post)
        /\ snap.dedupe[req.envelope] = 0
        /\ MayAppend(snap.box.bucket, now)
        /\ HasRoomFor(snap.box, snap.bytes, req.size)

Append(w) ==
    LET snap == inflight[w].snap
        req  == inflight[w].req
        cursor == snap.box.nextCursor
    IN  /\ Loaded(w, "append")
        /\ AppendAllowed(w)
        /\ CommitAppend(req.id,
              [ReserveEnvelope(snap.box) EXCEPT !.bucket = ConsumeAppend(@, now)],
              snap.bytes + req.size,
              [envelopeId |-> req.envelope, cursor |-> cursor,
               size |-> req.size, storedAt |-> now])
        /\ issued' = [issued EXCEPT ![req.id] = IF cursor > @ THEN cursor ELSE @]
        /\ Done(w, "appended")
        /\ UNCHANGED <<sweep, maxMailboxes, now, faults, clients>>

(* Pages come in cursor order and hold at most limit envelopes. *)
Page(stored, after, limit) ==
    {e \in stored : /\ e.cursor > after
                    /\ Cardinality({x \in stored : x.cursor > after /\ x.cursor < e.cursor}) < limit}

Read(w) ==
    LET snap == inflight[w].snap
        req  == inflight[w].req
    IN  /\ Loaded(w, "read")
        /\ Authorised(w)
        /\ SaveMailbox(req.id, MarkRead(snap.box, now), snap.bytes)
        /\ Answer(w, "read", {e.cursor : e \in Page(snap.envelopes, req.after, req.limit)})
        /\ UNCHANGED <<sweep, maxMailboxes, world>>

(* MailboxSettler.settle: what every reader has passed. *)
Settled(newBox, stored) == {e \in stored : IsSettled(newBox, e.cursor)}

AcknowledgeUpTo(w) ==
    LET snap == inflight[w].snap
        req  == inflight[w].req
        acknowledged == MarkRead(Acknowledge(snap.box, req.reader, req.upTo), now)
    IN  /\ Loaded(w, "acknowledge")
        /\ Authorised(w)
        /\ CommitRemoval(req.id, acknowledged, snap.bytes, Settled(acknowledged, snap.envelopes))
        /\ Done(w, "acknowledged")
        /\ UNCHANGED <<sweep, maxMailboxes, world>>

(* A hash that is already a reader only counts as a read. *)
AddReaderTo(w) ==
    LET snap == inflight[w].snap
        req  == inflight[w].req
        known == req.target \in snap.box.readers
    IN  /\ Loaded(w, "addReader")
        /\ Authorised(w)
        /\ known \/ HasRoomForReader(snap.box)
        /\ SaveMailbox(req.id,
              MarkRead(IF known THEN snap.box ELSE AddReader(snap.box, req.target), now),
              snap.bytes)
        /\ Done(w, "added")
        /\ UNCHANGED <<sweep, maxMailboxes, world>>

RevokeReader(w) ==
    LET snap == inflight[w].snap
        req  == inflight[w].req
        revoked == RemoveReader(snap.box, req.target)
    IN  /\ Loaded(w, "revokeReader")
        /\ Authorised(w)
        /\ req.target \in snap.box.readers
        /\ ~IsLastReader(snap.box, req.target)
        /\ CommitRemoval(req.id, revoked, snap.bytes, Settled(revoked, snap.envelopes))
        /\ Done(w, "revoked")
        /\ UNCHANGED <<sweep, maxMailboxes, world>>

Remove(w) ==
    /\ Loaded(w, "remove")
    /\ Authorised(w)
    /\ RemoveMailbox(inflight[w].req.id)
    /\ Done(w, "removed")
    /\ UNCHANGED <<sweep, maxMailboxes, world>>

SweepDone(w) == sweep' = [sweep EXCEPT !.left = @ \ {inflight[w].req.id}]

ExpireMailbox(w) ==
    LET req == inflight[w].req
    IN  /\ Loaded(w, "expire")
        /\ inflight[w].snap.exists
        /\ IsExpired(inflight[w].snap.box, req.at)
        /\ RemoveMailbox(req.id)
        /\ Done(w, "removed")
        /\ SweepDone(w)
        /\ UNCHANGED <<maxMailboxes, world>>

ExpireEnvelopes(w) ==
    LET snap == inflight[w].snap
        req  == inflight[w].req
        expired == {e \in snap.envelopes : EnvelopeExpired(e, req.at)}
    IN  /\ Loaded(w, "expire")
        /\ snap.exists
        /\ ~IsExpired(snap.box, req.at)
        /\ expired # {}
        /\ CommitRemoval(req.id, snap.box, snap.bytes, expired)
        /\ Done(w, "expired")
        /\ SweepDone(w)
        /\ UNCHANGED <<maxMailboxes, world>>

(* A refused request, a repeated creation, a repeated append and a mailbox  *)
(* with nothing to expire end without a write.                              *)
Accepted(w) ==
    LET snap == inflight[w].snap
        req  == inflight[w].req
    IN  CASE req.op = "create" -> ~snap.exists /\ VictimSets(SlotsNeeded) # {}
          [] req.op = "append" -> AppendAllowed(w)
          [] req.op \in {"read", "acknowledge", "remove"} -> Authorised(w)
          [] req.op = "addReader" ->
                /\ Authorised(w)
                /\ req.target \in snap.box.readers \/ HasRoomForReader(snap.box)
          [] req.op = "revokeReader" ->
                /\ Authorised(w)
                /\ req.target \in snap.box.readers
                /\ ~IsLastReader(snap.box, req.target)
          [] req.op = "expire" ->
                /\ snap.exists
                /\ \/ IsExpired(snap.box, req.at)
                   \/ \E e \in snap.envelopes : EnvelopeExpired(e, req.at)

EndWithoutWrite(w) ==
    /\ inflight[w].phase = "loaded"
    /\ ~Accepted(w)
    /\ Done(w, "nothing")
    /\ IF inflight[w].req.op = "expire" THEN SweepDone(w) ELSE UNCHANGED sweep
    /\ UNCHANGED <<database, maxMailboxes, world>>

(* A database call throws: the batch is not written, the request fails, and *)
(* the coordinator and the sweep go on with the next one.                   *)
Fail(w) ==
    /\ faults < MaxFaults
    /\ inflight[w].phase \in {"loaded", "evicting"}
    /\ faults' = faults + 1
    /\ Done(w, "nothing")
    /\ IF inflight[w].req.op = "expire" THEN SweepDone(w) ELSE UNCHANGED sweep
    /\ UNCHANGED <<database, maxMailboxes, now, issued, clients>>

(* The response leaves and the coordinator takes the next handler.  A page  *)
(* that arrives moves the reader; a lost one is asked for again.            *)
Respond(w) ==
    LET req  == inflight[w].req
        page == inflight[w].page
    IN  /\ inflight[w].phase = "done"
        /\ inflight' = [inflight EXCEPT ![w] = Idle]
        /\ \/ \E last \in page :
                 /\ \A c \in page : c <= last
                 /\ position' = [position EXCEPT ![req.reader][req.id] = last]
                 /\ delivered' = [delivered EXCEPT ![req.reader][req.id] = @ \cup page]
           \/ UNCHANGED clients
        /\ UNCHANGED <<database, sweep, maxMailboxes, now, faults, issued>>

(* The process stops and starts again: only the database survives. *)
Crash ==
    /\ faults < MaxFaults
    /\ faults' = faults + 1
    /\ inflight' = [w \in Workers |-> Idle]
    /\ sweep' = [at |-> 0, left |-> {}]
    /\ maxMailboxes' \in Limits
    /\ UNCHANGED <<database, now, issued, clients>>

Tick ==
    /\ now < MaxTime
    /\ now' = now + 1
    /\ UNCHANGED <<database, process, faults, issued, clients>>

Handle(w) ==
    \/ SelectVictims(w) \/ Evict(w) \/ Create(w)
    \/ Append(w)
    \/ Read(w)
    \/ AcknowledgeUpTo(w)
    \/ AddReaderTo(w)
    \/ RevokeReader(w)
    \/ Remove(w)
    \/ ExpireMailbox(w) \/ ExpireEnvelopes(w)
    \/ EndWithoutWrite(w) \/ Fail(w)
    \/ Respond(w)

Next ==
    \/ \E w \in Workers : Request(w) \/ SweepOne(w) \/ Handle(w)
    \/ StartSweep
    \/ Crash
    \/ Tick

Spec == Init /\ [][Next]_vars
=============================================================================
