# Pigeon swarm node: a verification project

A Pigeon swarm node is a TypeScript server that stores and replicates the data of a
decentralised messenger: signed records that replicate over OrbitDB and libp2p, and
node-local stores that no peer sees. This directory holds TLA+ modules translated from
its source, the TLC configurations that check them on small instances, and theorems that
TLAPS proves for every value of the constants. Paths are relative to `src/src/` unless
they start with `docs/`.

## 1. The system

### Components

Node-local services, where one process owns the state:

| component | state | operations | hard part | what makes it correct |
| --- | --- | --- | --- | --- |
| `contexts/mailboxes` | mailbox documents, envelope rows, deduplication rows, two counters in LevelDB | create, append, read, acknowledge, add and revoke a reader, remove; the retention sweep | read-then-write handlers, crashes between batches, cursors that must survive re-creation, retention racing everything | no reader skips an envelope; nothing goes without a reason; counters and indexes agree with the rows; old things go in the end |
| mailbox hints (`shared/infrastructure/websocket`) | subscriptions of sockets in memory | subscribe, close, drop a reader, drop a mailbox | two awaits around the check of a token; handlers that commit in between | a revoked reader or a deleted mailbox has no subscription |
| `contexts/private-blobs` | blob records in LevelDB, `.part` and `.blob` files, uploads in progress | reserve, upload, read, remove; the retention sweep | files and records change without a common lock | quotas, immutability of what is stored, retention, no orphan that stays |
| `contexts/private-authorization` | scopes with their accepted and waiting operations, receipts, replay markers, reservations, projections in LevelDB; challenges in memory | provision, challenge, accept | handlers that read long before they write, operations that wait for others, receipts that are compacted, children of one parent | an operation is accepted once and against the state it names; siblings freeze the scope |
| `contexts/nodes` | owner, registration codes, block lists, networks | claim, issue, revoke, block, refresh | several writers of the owner's settings | a code admits once, the owner is never lost |
| `contexts/presence`, `contexts/diagnostics` | heartbeats, a debug session, in memory | record, expire | timers | what is old goes |
| `contexts/push-notifications`, `contexts/notifications`, `contexts/notification-settings` | subscriptions, notices, settings | register, send, create, decide | events that arrive twice | at most one notice for an event |

Replicated state, where every node holds records signed by others:

| component | state | operations | hard part | what makes it correct |
| --- | --- | --- | --- | --- |
| `contexts/shared/infrastructure/orbitdb` | stores and heads of each network, held and rejected records | put, admit, hold, readmit, expire a hold | records that arrive before what they rest on; peers that plant heads | what is admissible is admitted in the end; a hold ends by itself |
| `contexts/public-mutations` | verdicts | admit, hold, refuse | parents that have not arrived | nothing unauthorised is admitted |
| `contexts/communities`, `contexts/conversations` | sets of signed operations | record, fold | concurrent conflicting operations, authority cuts | every node folds one set to one state |
| `contexts/identity-devices` | device authorization transitions | apply, replay, hand over, prune | several sources and recovery checkpoints | replay agrees on every node |
| `contexts/identities`, `contexts/keychains` | candidates, heads by content id | publish, register, find current | versions from several devices | one current version everywhere |
| `contexts/calls` | call records, leases, deliveries | start, join, leave, renew, signal, retry, time out | wall clocks, retries, late acknowledgements | a call ends; a signal is retried until it is acknowledged or expires |
| `shared/infrastructure/network/relay` | cached records, known publishers, since when a link is missed, dials under way; in memory | publish, request, hear, discover, dial, start, stop | the chosen dialer may be unable to dial; passes and handlers outlive their network; pubsub loses | a link that can be made is made in the end; who is gone is forgotten |
| `contexts/polls`, `contexts/stickers`, `contexts/content-replication` | documents per owner | vote, save, register | replicated last-writer documents | convergence |

Shared infrastructure: `local-db/EmbeddedLocalDatabase` (LevelDB with atomic batches),
`concurrency/KeyedSerialQueue` (one action at a time per key), `messageBus` (domain events over
gossip, with an idempotency store), `websocket`
(the hub), `apps` (HTTP routes, consumers, schedulers, initializers).

### How they interact

HTTP routes and WebSocket messages become application messages. Local services write to the
embedded database and call notifiers synchronously; schedulers call the sweeps every five
minutes. Replicated services put records through the OrbitDB registry, whose mutation gates ask
the policies of the context; admitted records become domain events on the message bus, which
consumers turn into notifications, call updates and WebSocket fan-out.

### The mailbox service in detail

A mailbox is a queue known only by capabilities: one post token, and a set of read tokens, each
with an acknowledged cursor. `MailboxCoordinator` is a promise chain: handlers run one at a time,
in order of arrival. Each handler loads the whole document, awaits, changes it and writes one
batch. Answers leave after the batch and may be lost. `MailboxExpirer` takes the time and the
list of mailboxes once and then handles each of them inside the coordinator. An append is not a read:
a mailbox that no reader came to for the retention goes with all it holds, an envelope of a moment
ago included, which is why `MailboxesLeaveForAReason` promises envelopes nothing there. A creation at the
limit of the node evicts the least recently read mailboxes that are empty and idle, one batch
each. Removing a mailbox raises a node-wide floor (`retired_cursor`) from which the next mailbox
starts, so that no cursor is given out twice for one id.

### The private blob store in detail

A blob is a record (`reserved` or `stored`, with a deadline and a retention) and up to two files,
`<id>.part` while it is uploaded and `<id>.blob` once whole. A reservation reads the quotas and saves
a record that lives for the upload window. A `PUT` looks the record up, streams into the part file,
renames it, and saves the copy of the record it has read, now `stored` and due one retention later.
A `DELETE` removes the files and then the record. The sweep raises retentions, removes what is
expired (bytes, then record) and then the files that have no record. Reservations are serialized
among themselves and uploads of one id exclude each other; nothing else does, so every `await` of
one of the four is a place where another may act on the same record and files.

### The delivery of call signals in detail

A WebRTC offer, answer or candidate is sent to one node, which owns its delivery. It saves a
schedule in memory and publishes the signal, and publishes it again 1, 2, 4 and 8 seconds later
until the recipient has acknowledged it or 20 seconds have passed. Every node that hears the event
keeps a copy of the schedule, so that a client of the recipient can acknowledge the signal wherever
it is connected; the acknowledgement is an event too. The topics lose, repeat and reorder, and the
clocks of two nodes may differ by 5 seconds, so a repository takes a delivery only if it supersedes
the one that it holds. One timer per node serves all deliveries: it is set anew whenever the
repository changes, is off while a maintenance runs, and waits at least a second after one that
failed.

### Readmission and held heads in detail

Records replicate in any order, so a document often arrives before the state that authorises it.
The gate then says *pending*, and `OrbitDBRecordReadmission` offers the document again: after 2, 10
and 60 seconds, and whenever new state is admitted. Such a wake is a timer of zero and a drain that
offers the active records one by one, each for 5 seconds at most; a wake that comes while a drain
runs is followed by another drain. A store has 256 slots and a queue of 256; what fits in neither is
dropped, reads of it wait, and once the store has drained it is scanned again.

Heads are the newest state of a key. A head that cannot be verified is *held* in its network, up to
8 copies of 512 keys, and while it is held a read of its key waits, unless another network has
verified the key. Since peers choose what they send, every hold ends after 15 minutes, a key
that has expired is not held again for as long, and not at all after the third time while the
node remembers its expiries (the 1024 it recorded last, of all networks). One interval
timer of a minute ends holds, starts rescans of the networks that dropped heads, and offers what
has no offer pending; it runs while there is anything to do. Heads of the node's own cache are held
in the same way after a start, and no peer may end their wait: a read would then answer from the
peer's state and lose the node's own.

### The control operations of a private community in detail

A protected scope has a *checkpoint*: a revision, the head of a control log, the devices admitted and
the ones revoked for good. Devices propose changes at a checkpoint, and a *commit* of an accepted
proposal, or the revocation of a device, carries a signed transition to the next one. A client asks for
a *challenge* first; for a transition this verifies the signed frame and reserves its head as the child of
the current one, in a record that survives a restart. Then it submits the operation with a proof of
the challenge. `PrivateOperationAcceptor` looks for a receipt, reads the scope, checks the proof, lets
the scope assess the operation, reads the projection and the MLS state, and hands the result to the
unit of work, which takes the lock of the scope, reads it again, and writes everything in one batch or
nothing. Operations of a later revision, or ones that depend on operations not yet accepted, wait
in the scope. With every acceptance the scope drops what can never become valid and keeps, of the
accepted operations, those of its revision, those that waiting ones need and a few others; receipts,
markers and outbox rows go with the rest. Two different transitions of one checkpoint, or two
operations with one identifier, freeze the scope.

### The mesh of relay publishers in detail

The publishers of a private network hold one link per pair. Each sends a record of its addresses over
public pubsub, again and again and when asked, and caches the records it hears. A discovery pass
dials, one after the other, the cached publishers it is not connected to; a handler of a record dials the
one it heard of. Of a pair the lower peer identifier dials. The higher one notes when it first looks and
misses the link, forgets it when it looks and finds the link, and dials when it has missed it for 45 seconds.
A record that expires takes with it that the publisher is known. There is one pass per network
identifier at a time. `stop` forgets everything about a network but ends neither the pass nor the
handlers, and the subscriptions keep the network object of the pass that made them.

The hazards of this code are listed in `PROJECT.json`, each at its line with the properties that
watch it.

## 2. Modules

| module | models | how |
| --- | --- | --- |
| `AppendBucket` | `Mailbox.consumeAppend` | the token bucket; the code's fractions of an envelope become integer units |
| `MailboxAggregate` | `Mailbox`, `MailboxReaderCursor`, `MailboxPolicy` | one operator per method, over records |
| `Mailboxes` | the handlers, the sweep, the coordinator and `LocalMailboxRepository` | one worker per handler in progress: `Start` loads a snapshot, the handler's action commits one batch computed from the snapshot, `Respond` sends the answer. `Evict` is one batch of several. `Fail` is a database error, `Crash` a stop and a start that keeps the database and may choose another `MAILBOX_MAX_COUNT` |
| `MailboxProperties` | | the invariants, action properties, fairness and the refinement mapping |
| `MailboxQueue` | what a mailbox promises | an abstract queue without handlers, snapshots, counters or crashes |
| `MailboxHints` | `WebSocketEventHub.subscribeToMailbox`, `MailboxEnvelopeSubscriptions` | composed with `Mailboxes`: the subscribe message is five steps (look up, load, add, look up, load and act), the drop happens with the answer of the handler, as no other handler starts in between |
| `AppendRate` | the bucket over time | an observer opens a window at any moment and counts |
| `CreationDifficulty` | `MailboxCreationDifficulty.bitsFor` | the formula, in integers; it is proved about and has no run |
| `PrivateBlobs` | `PrivateBlobReserver`, `PrivateBlobUploader`, `PrivateBlobRemover`, `PrivateBlobExpirer`, their repository and file store | one action per stretch of code between two awaits that matter: a file operation, a query or a save each. `uploads`, `removals`, `sweep` and `deleting` say where each handler stands and hold what it has read (`copy`, `copies`, `todo`). `Fail*` and `SkipInSweep`, `AbortSweep` are the error paths; `Restart` keeps the disk and may choose other retentions |
| `PrivateBlobProperties` | | invariants, fairness and liveness of the store |
| `PrivateBlobRange` | `PrivateBlobByteRange`, `PrivateBlobRangeHeader`, the answer of `GetPrivateBlobRoute` | the windows, and a reader that downloads a blob piece by piece until it is refused |
| `CallSignals` | `CallSignalSender`, the registrars of sent signals and acknowledgements, `CallSignalAcknowledger`, `CallSignalDeliveryRetrier`, the delivery and its schedule, `InMemoryCallSignalDeliveryRepository`, `CallSignalDeliveryMaintenanceRuntime` | one action per handler on each node. `wire` is every event that was ever published: a node may receive any of them, at any time, often or never. `CheckSend` and `CommitSend` are the two sides of the awaits of a send; `Wake` and `Maintain` those of a maintenance |
| `CallSignalProperties` | | invariants, the action property and liveness |
| `RecordReadmission` | `OrbitDBRecordReadmission`, `OrbitDBPendingRecordReadmission`, `offerDocument` and the rescan of a store in `OrbitDBReplicatedStateRegistry` | a copy is looked up (`Arrive`, `Delay`, `DrainOne`, `RescanOne`) and acted on later (`Judge`, `EndOffer`, `EndRescan`), so the verdict may have changed in between; `Deadline` lets the waiter go on while the lookup runs |
| `ReadmissionProperties` | `isDocumentPendingAdmission` | invariants, fairness and liveness |
| `HeldHeads` | the held heads of `OrbitDBReplicatedStateRegistry`: admission, holds, drops, expiry, retries, rescans, hydration | per network and head key. Time is counted down by `Pass`; `Retry` is `retryUnverifiedHeads` as a whole, by the timer or by a wake |
| `HeldHeadProperties` | `awaitsVerifiedHead`, `isUnsettledHere` | invariants, fairness and liveness |
| `PrivateScope` | `PrivateAuthorizationScope`, `PrivateAuthorizationCheckpoint`, `PrivateOperationDependencyGraph`, what `VerifiedPrivateControlTransitionProcessor` requires of a transition | one operator per method or check, over records; an operation is a record with an id, so that two of them may share one |
| `PrivateOperations` | `PrivateOperationAcceptor`, `PrivateOperationAuthorizer`, `InMemoryPrivateFreshnessGate`, `LocalPrivateOperationUnitOfWork` and its repository | a handler is a worker with a stage per await that matters and the scope it has read; a section under the lock is one step. `Provision`, `ReserveChild`, `CommitPending`, `CommitAcceptance`, `CommitConflict` and `Quarantine` are the locked sections; `Refuse` is every error that writes nothing; `Restart` keeps the database |
| `PrivateLedger` | what acceptance promises | a ledger that accepts one operation at a time, against the policy of that moment; no handlers, challenges, receipts or compaction |
| `PrivateOperationProperties` | | invariants, action properties and the refinement mapping |
| `RelayMesh` | `PrivateNetworkRelayRecordDirectory` as a publisher | a pass is `StartPass` (all of `getDiscoveryState`, undivided), `PassLooks` and `PassDials` for each cached record (the two sides of the await of the dial), and `PassEnds`. A handler is `Hear` up to the save, `JobLooks`, `JobDials`. `Stop` and `Start` give a new network object (`life`) in the same process; `Crash` ends the process. Times are ages that `Tick` advances |
| `RelayMeshProperties` | | invariants, the action properties, fairness and liveness |
| `MC*` | | model values, symmetry, and what an instance leaves out |
| `SumsProof`, `MailboxesProof`, `PrivateBlobsProof`, `CallSignalsProof`, `RecordReadmissionProof`, `HeldHeadsProof`, `PrivateOperationsProof`, `RelayMeshProof` | | the theorems |

What is abstracted. A token and the hash stored for it are one model value. Bodies are their
size. The clock is a number of ticks. The byte total is kept beside the document (`bytes`), since
it is the only field whose value is a sum. Validation of the message fields, the proof of work,
routes and error texts are left out: a refused request ends without a write (`EndWithoutWrite`).

Of the blob store: the owner and the size of a blob are functions of its id, since an id is
generated with its reservation. Contents are nothing, a part of the bytes, or all of them. A lookup
and the checks on its result are one step, since the code between the answer and the next await
runs undivided. Requests carry valid capabilities; a wrong one changes nothing. A part file is
opened before its source ends, and a write into an unlinked file leaves no name. One sweep runs at a
time: the scheduler is a library, and passes of a few files every five minutes are taken not to
overlap. The variables `generated` to `revived` only record what happened, for the properties.

Of the call signals: a signal and what it says are one value, the participants and the network are
left out, and so are the checks of the caller (they read the call, not the delivery). The clocks of
two nodes differ by a constant. `Maintain` is one step because `MessageBus.publish` and the
repository answer at once; only the lookup of the node id waits.

Of readmission: delays are not measured, so every timer may be late and any two may fire in
either order. A store holds what has arrived. The rescan looks the stored documents up one after
the other and then gives those it found accepted to the listeners; its own pending documents are
not queued again, as the rescan of the code only projects. Verdicts change once, from pending to
accepted or refused. Heads: the keys that one network expires in one retry are remembered in any order
(the code takes the order in which they came); the offers of held heads are `StartOffer` and `EndOffer` with a lookup between;
the first look at a head is one step. `headReadmissions` has bounds of its own (256 slots and a queue of
256), which the bounds on held heads imply up to stale chains, and they are left out. So are heads
without a digest, which are held on every receipt; the bound of 8192 on the verified keys
that a node remembers; networks that are left; and settling deferred heads, which merges them.

Of the relay mesh: a record is a publisher and one address, and whether it has expired; a reachable publisher
answers where it listens. What a network object shows and dials after it stopped is nothing, at once. `seen`
only records when a node last looked and found a link. A node has one public connection, made or not
made in each pass (`PassEnds`); leaves, provider records and the retries of publications are left out.

Of the control operations: digests, signatures, frames and MLS bytes are what they were checked to be; a
transition verifies by its parent, its change and the devices it leaves (`Verifies`). The projection is the
sequence of the transitions applied to it, since the question is which of them it shows. Limits are
numbers of operations; the limits in bytes beside them are of the same form. The authority keys do not
rotate, a device is its own identity, the 128 revoked keys that a checkpoint remembers are not reached,
and challenges have no capacity. The log and the claims only record what happened.

Definitions called "Mutant of ..." are not used by any specification: each is a plausible error in
the definition below it, listed in `PROJECT.json` with the property that it breaks.

## 3. What is checked

| run | instance | question |
| --- | --- | --- |
| `mailbox_queue` | 1 id, 2 readers, 2 envelope ids, 2 workers, 2 cursors, 1 tick, 1 fault | the service implements `MailboxQueue`; acknowledgements and deliveries are right |
| `mailbox_node` | 3 ids, 1 reader, 2 workers; room for 1 or 2, envelopes of 2 sizes, 1 fault; a retention of 2, 2 ticks, of which the second is bounded as below | what mailboxes share: the counter, the floor; indexes and byte totals that agree with the rows; a lowered limit; who goes and why: evictions, and a sweep that others overtake |
| `mailbox_liveness` | 1 id, 1 worker, 2 ticks, 1 fault; and a bucket of rate 3, minute of 4 ticks, 9 ticks | retention wins in the end; the append limit holds in every window |
| `mailbox_hints` | 2 readers, 2 subscribe messages at once, 1 fault | no subscription outlives its socket or its reader |
| `private_blobs` | 1 blob, 2 uploads, 1 removal, 2 settings, 3 ticks, 2 faults; or 3 blobs of 2 owners, 1 upload, 1 tick; or 9 sizes up to 55, 12 numbers | bytes, deadlines and uploads of a blob that everything works on at once; the sweep reclaims; concurrent reservations fit the quotas; requests get the bytes they name |
| `call_signals` | 2 nodes, clocks 1 apart; 1 signal on both or 2 on one; 3 attempts, 4 ticks, 1 fault | deliveries only advance, retries keep their distance, the timer is always armed, what nobody acknowledges is given up |
| `record_readmission` | 1 slot; 4 copies of 2 documents without a queue, or 3 of 2 with a queue of 1, one of which hangs and fails; 1 failed rescan | dropped documents are not read as missing, wakes are served, stores drain, what becomes acceptable arrives |
| `held_heads` | 2 networks, 2 keys, 3 heads; 1 copy and 1 key held, 2 holds of 2 units, 1 expiry remembered | holds end, dropped and restored keys wait, no read waits for ever unless expiries are forgotten for ever |
| `private_operations` | 2 handlers, 6 operations of 2 devices over 3 heads and a sibling, 1 operation per author and revision, 1 of the past retained, 1 challenge at once | the handlers implement `PrivateLedger`; siblings freeze; records, projection and waiting operations agree with what was accepted |
| `relay_mesh` | 2 publishers, of which only the higher identifier can be relied on to reach the other; 2 lives of the higher, or an outage with 1 fault; a window of 1 tick | links that can be made are made in the end and stay; the higher one dials only after a window without the link; who is gone is forgotten |
| `hints_at_capacity`, `late_sweep` | minimal | the divergences below |

`mailbox_liveness`, `private_blobs`, `call_signals`, `record_readmission`, `held_heads` and `relay_mesh` are
each several small instances in one run: a variable that is chosen at the start and never changes
(`metering`, `focus`, `outage`) says which one.

Bounds. Two handlers are enough to overlap, and the coordinator admits one at a time whatever
their number. Two readers are the least for which an envelope is settled by one and pending for
the other. Two cursors show a page that stops before the last envelope, two lifetimes of an id,
and a full mailbox. One tick with a retention of one lets an envelope expire inside a mailbox that
was read since and does not; a tick of idleness is enough for an eviction. One fault is enough for every point at
which the process can stop, since the state after a restart is a state of the database. Three ids
with room for one or two give an eviction of one and of two mailboxes and a creation that is
refused. In `mailbox_node` the clock reaches the retention, and the idle time is half of it: a
pass can begin before a mailbox is due and handle it after, find a listed mailbox read meanwhile, or
remove one that holds an envelope of now; and two empty mailboxes can be idle for different times
when a creation chooses between them. The second tick (`MCConstraint`) comes only to a node with room
for two that has met no fault, holds no larger envelope and has lost every page so far; from then on
only creations, appends, reads and the sweep are at work. `MaxTime`, `MaxCursor`, `MaxFaults` and
`MaxPending` bound the counters and appear in the guards that they bound; every other guard is the
code's.

For the blob store, records and files of different ids meet only in the quotas, so one blob with all
its visitors is the interesting case for everything else, and two uploads of it the least that
can collide. Three ticks with an upload window of one and retentions of one and three let a
reservation lapse, its upload land late, and a retention be raised before and after the
deadline. Two faults allow a failure and a restart. The quota instance has two blobs of one owner that do
not fit its quota together, and one of another owner that fits the node beside the one and not beside the other; one tick is enough for reservations to lapse and free
their bytes. It has no faults, as a failure only ends a reservation earlier.

For the call signals, two nodes are the least that can both own a signal and hold each other's copy,
with clocks that differ by the whole accepted skew; a signal meets another only in the timer of a
node, which is what the second instance is for. Three attempts are the least for which two of them can
arrive in the wrong order and a third be due. Events are received in any order and again and again,
so more ticks would only repeat them.

For readmission, one slot makes every second copy wait; without a queue it is dropped, and four copies
drop one before, one during and one after a rescan. With a queue, a hanging lookup holds the slot
that the others need. Copies arrive in a fixed order, as copies of one store are alike but for their
document. A store of two documents that remembers one shows the document it cannot remember.

For held heads, room for one key and one copy makes the second of each a drop. Two units of
hold and one of a chain order the events as the code's 15 minutes, 72 seconds and 60 seconds do, as
far as the properties tell them apart. Peers send twice in the first two instances and for ever in the third
(`flood`), where nothing they send proves out. The node remembers the expiry of one key, so two keys
that expire in turn are always new to it, as more than 1024 are to the code, and a single one is not:
both sides of `WaitsEndForGood` occur. In the third the node restores nothing and the gate decides
nothing, as what is decided has no need to end by itself.

For the control operations, two handlers are enough for one to write between another's reading and
writing. The six operations are a proposal to admit `b`, a proposal of the same revision that needs it, the
commit, a sibling of the commit that bears the second proposal's identifier, the revocation of `b` in the next
revision, which needs the first proposal still, and a proposal by `b` under the identifier of the first.
So an operation can wait for another revision and for an operation, `b` can be revoked while its proposal
is on the way, identifiers and children collide, and the log reaches four entries and two revisions.
One operation per author and one of the past make the quotas and the compaction bite. The constraint of
the run (`MCConstraint`) allows one challenge outstanding and one request beginning at a time, which
delays but does not exclude an overlap of what follows, and follows a frozen scope until its
handlers have ended.

For the relay mesh, links of different pairs share nothing but the order of dials in a pass, so two
publishers are enough. Both can reach each other, but only the dials of the higher one must ever succeed
(`Lasting`), so that the link depends on the fallback. Without an outage the higher one may restart once, in
its process or in another; in an outage each starts once, and one fault is a link that drops or a new public
connection. One unit of window tells "missed for the window" from "just missed". One message or handler is
under way at a time (`MCNext`), beside the passes of both, and records are refreshed before they
expire unless their publisher is gone or has moved (`Refresh`), as the publication interval is much shorter
than their time to live. Three publishers, two addresses and faults without an outage are beyond the time of a run.

Fairness (`MailboxProperties!Fairness`). The cron job keeps starting passes (`WF` of `StartSweep`).
The coordinator is first in, first out, so a queued handler of the pass is not overtaken for ever:
the model has no queue, and strong fairness of `SweepOne` says the same. A running handler gets
its answers from the database (`WF` of `Handle`). Faults are bounded: a node that stops for ever
keeps its old envelopes. For the blob store only the sweep is fair (`WF` of `SweepStep`: cron
starts it, files and database answer); uploads may hang for ever and clients may stay away.
Of the call signals, time passes, the runtime starts, and due timers and the lookup of the node id go
on (`SignalFairness`); failed lookups are bounded. Of readmission, timers fire and lookups resolve,
except those of the documents in `Hanging`; rescans are fair apart, each store for itself, since they
wait for their own lookups only. Of held heads, time passes, the timer and the chains fire, and rescans
go on (`HeadFairness`); peers, the gate and local writes owe nothing. The control operations are checked
without fairness: clients need not come back, and nothing in them happens by itself.

Of the relay mesh, time passes, passes are started by their interval, go on and end, and of the dials
that can reach a peer some do (`PrivateFairness`: a dial has a deadline, and each pass tries again).
`PublicFairness` adds what convergence from nothing needs: publications repeat, the public connection is
made now and then, and pubsub delivers now and then. In an outage (`outage`) nothing of this is assumed, and
convergence is promised to a pair of which the one that can dial keeps a true record of the other.

### Divergences from the documentation

- *Hints of an evicted mailbox.* `MailboxCreator.evictIdleEmpty` removes its victims and notifies
  nobody, so their subscriptions stay, while `docs/design/opaque-mailboxes.md` says that deleting a
  mailbox closes all of them (`hints_at_capacity`).
- *A sweep deletes a blob that has just been completed.* `PrivateBlobExpirer.expire` lists the expired
  records and later deletes each without a second look. An upload admitted just before the deadline
  and completed between the two is answered `204`, and its bytes and record go, while
  `docs/design/private-blob-store.md` says that completed blobs live for the retention (`late_sweep`).

Differences that need no search to be seen, and have no run:

- *Repeated appends.* The deduplication row goes with the envelope, so an append that is repeated
  after the first copy was acknowledged by all or has expired is stored again under a new cursor,
  while `docs/design/opaque-mailboxes.md` says that it returns the first cursor and stores nothing
  new. Readers deduplicate on message ids, so this costs space and no message.
- *An upload brings a swept record back.* `PrivateBlobUploader` saves the copy that it read at
  admission, also when the expirer has deleted the record since. The comment of
  `PrivateBlobExpirer.expire` and the document say that such an upload leaves only a file, which a
  sweep removes; in fact the blob lives for a whole retention. This is why
  `TimelyBlobsKeepTheirBytes` speaks of blobs that never passed a deadline, and why
  `ReservationsFitQuotas` does not count blobs that a late save brought back (`revived`).
- *Acknowledged deliveries stay.* An acknowledged delivery asks for no maintenance, so it stays in
  memory until a maintenance that another delivery asked for, while `docs/pubsub-sync-protocol.md` says
  that it is retained until it is acknowledged or expires.
- *A peer's copy of an own head.* `register` listens to a network before it has read its own
  persisted heads. A peer's identical copy that comes in between is held as the peer's, and
  the own one then finds it held: it is not marked as own. The instances, and `OrderlyHeadSpec`,
  let a peer's copy of an own head come only after the head was restored (`OwnHeadsFirst`).
- *Forgotten expiries.* A key is not held again after three expiries "while remembered", and the comment above
  `MAX_HELD_COPY_AGE_MS` and `docs/pubsub-sync-protocol.md` conclude that fresh copies cannot renew a hold.
  `rememberExpiredKey` forgets the oldest records once there are more than 1024, of all networks
  together. On a node on which more keys than that expire again and again, because peers send them
  or because a rescan finds them in its own store, a key is forgotten before its third expiry and held again, and its reads wait again. New keys
  without end can also keep a network from having room, so that its overflow does not clear and the keys
  that it dropped go on waiting. `HoldsEnd` holds all the same; `WaitsEndForGood` promises an end only
  to a node that stops forgetting.
- *The copies of a second network.* `offerIdleHeads` skips a key that has an offer pending in any network.
  The networks are asked in the order in which they came to hold something, and a chain (72 s) is
  longer than the time between two retries (60 s): while the first network holds a head, the second is
  not offered its copy again after the first chain. The comment above `holdUnverifiedHead` says
  that a copy is offered on every wake and every retry interval. The wait of the key still ends
  (`WaitsEndForGood`, with its exception), but the second network may verify it only after the first has let go.
- *An identifier that comes back.* `docs/private-operation-authorization.md` calls it a rule of the scope
  that one operation identifier has one immutable digest. The scope compares with the operations that it
  still retains; once an operation is compacted and its receipt retired, another one may be accepted
  under its identifier. The ledger therefore promises that no operation is accepted twice, and not
  that no identifier is.
- *A frozen scope answers.* A receipt is looked up before the status, so a repeated operation is
  answered `duplicate` also by a frozen scope. Nothing is written, and the ledger accepts nothing.
- *A rescan has no deadline.* Offers are given up after 5 seconds, the lookups of a rescan are not: one
  that never resolves keeps the overflow of its store, and the reads of what it dropped wait. The
  liveness properties promise nothing to such a store (`Hangs`).
- *Inbound links between two looks.* A link that the other side makes, and that drops again before
  a pass or a handler looks, does not reset the fallback window, while a comment of
  `PrivateNetworkRelayRecordDirectory` (line 652) and `docs/relay-recovery-acceptance.md` say that it does. Passes
  come every 60 seconds by default, so links of a minute may go unseen. What holds is `LosersWait`: the higher
  identifier has missed the link in every look of a whole window.
- *Public connections.* `configurePublicConnection` awaits the stop of the old connection before it replaces
  the promise, so two calls at once create two connections, of which one is never stopped; and a
  connection whose creation was rejected stays in `publicConnection`, so that every later pass awaits the same
  rejection. The model lets a pass find a connection or none, and `PublicFairness` assumes that it is made
  now and then, which does not hold after such a rejection.
- *Late records.* The relay cache takes whichever valid record of a publisher arrives last, also one that was sent
  before a newer one. With one address per publisher, as in the run, this changes nothing; with two, the
  next publication mends it.

## 4. What is proved

All theorems hold for any finite number of mailboxes, readers and handlers, any limits and
any bounds, from the named assumptions on the constants (`ServiceAssumption`,
`PolicyAssumption`, `AppendRateAssumption`, `ClockAssumption`, `BlobAssumption`,
`RangeAssumption`, `SignalConstants`, `ReadmissionAssumption`, `HeadAssumption`, `PrivateScopeConstants`, `PrivateOperationConstants`,
`MeshConstants`).

- `MailboxesProof`: `TypeTheorem`, `FreshCursorsTheorem`, `AcksTheorem`. The
  inductive invariant `Inv` has three parts. `DatabaseOK`: types, the order of cursors inside every
  document (acknowledged below next), and the floor above every retired cursor. `JobsOK`: at most
  one handler is busy, and one that has read holds exactly what the database holds; without this
  a commit from a snapshot could put back anything. `WorldOK`: the rest. Each action has its own
  lemma; the batches have lemmas of their own, shared by the handlers that use them.
- `DeliveryTheorem` of `MailboxesProof`: that no reader skips an envelope. It strengthens the
  property with `CursorsKnown` (every stored envelope and every reader's position is at or below
  the highest cursor given out, so that a new envelope lies ahead of all readers) and `ReadsOK`
  (a page in flight is a prefix of what lies ahead of its reader). `PageIsPrefix` is the fact about
  `listEnvelopes` it rests on, proved from cardinalities.
- `CountersTheorem`, `LeaveTheorem` and `QueueTheorem` of `MailboxesProof`: the books, the departures
  and the refinement of `MailboxQueue`. They share `QueueInv`. `RowOK` relates a document to its rows: cursors of
  one mailbox are distinct, so a batch that deletes by cursor deletes what the handler chose, and each
  envelope has one deduplication row, so an append that found none brings a new envelope. `JobHolds` says
  what a handler still holds at each stage: victims that are idle and empty, the least recently
  read ones, as many as are too many, so that an eviction on a full node never goes below the limit; a sweep of the past, so that what it calls
  old is old by now; a page of stored envelopes ahead of a reader of the mailbox, so that a page
  that arrives is a step `Show` of the queue. The byte total is kept up by differences (`SizeGrows`, `SizeShrinks`), each
  from the snapshot, which is why it needs `JobsOK`. Each batch has a lemma about the books, and each handler one
  that gives `QueueInv` and its step of the queue.
- `HintsTheorem` of `MailboxesProof`. `HintInv` says of every subscription that its reader is current; or that its
  subscribe message has a second check to come, which will find the reader gone (a check that found its
  mailbox and has not loaded it yet counts only while the mailbox lives, because `requireById` throws
  then); or that the handler that ended the reader has committed and is about to tell the hub. While a
  handler works nobody else is about to tell, as one handler runs at a time. An eviction tells nobody
  (`hints_at_capacity`), so the theorem is about nodes that never evict (`NeverEvicts`). `HintsWithRoomTheorem`
  derives that from limits that have room for all mailboxes, since a creation that evicts finds the limit
  reached by others (`EvictionsNeedAFullNode`).
- The arithmetic of mailboxes, in `MailboxesProof` too: `RateTheorem`, from `NothingRefillsTwice`, which counts
  what the bucket still holds; `EighthsTheorem`, `FullTheorem`, `MonotoneTheorem`, from the lemma that a
  quotient rounded up reaches `k` just behind `k - 1` divisors.
- `PrivateBlobsProof`: `BlobTypeTheorem`, `OneWriterTheorem`, `TimelyTheorem`, `StoreTimeTheorem`. That
  nobody takes the bytes of a timely blob is not inductive: it needs that no removal, deletion or
  list of the sweep names such a blob (`Spared`), that every file and every upload of one has a record
  (`Whole`, so that the search for orphans passes it by), that what is expired has been seen to lapse
  (`Deadlines`), that ids are new (`Fresh`), and that the stale copies of uploads and of
  `alignRetention` agree with the promise made at the store time (`Copies`). `*Cases` lemmas sort the
  actions by what they do to uploads, records, files and the sweep, so that each part is proved
  against a handful of cases.
- `QuotaTheorem` of `PrivateBlobsProof`: `QuotaOK` bounds the bytes of what counts, which is what is live and
  was never brought back, and what a reservation in progress is about to save. Nothing begins to count but
  by a reservation (`CountedShrinks`), and a reservation finds no other one in progress, so the live bytes
  that it reads are all that counts (`AdmittedFits`): without the queue of reservations the read is stale.
- `RangeTheorem` and `DownloadTheorem` of `PrivateBlobsProof`, for every size of a blob and every header.
- `SumsProof`: what a sum over a finite set is, for the byte totals and the quotas. The order in which
  `MapThenSumSet` takes the elements is its own choice, so that the sums of disjoint sets add up
  (`TotalUnion`) is an induction on the number of elements. The induction theorems of the library take a
  predicate as a parameter, which the provers cannot instantiate; `LeastSet` (a family of finite sets has one of
  least size, from the well-foundedness of the naturals) does instead: each proof looks at a least counterexample.
  `LeastNatural` does the same for the fold of `PrivateOperationsProof`.
- `CallSignalsProof`: `SignalTypeTheorem`, `SpacingTheorem`, `ArmedTheorem`, `AdvanceTheorem`. The inductive
  invariant adds to the properties that every event on the wire was spaced when it was published, since
  a node takes over what it hears (`WireIsSpaced`), that a send that waits passed its checks
  (`SendsAreFresh`), and that the time a maintenance works with is past (`MaintenanceIsPast`). `SaveStep` is
  shared by the handlers: whatever is saved advances, and the timer is set for the earliest of what is
  held then. `RescheduledIsArmed` is its heart, from facts about minima of finite sets.
- `RecordReadmissionProof`: `WakeTheorem` and `DroppedTheorem`, for any number of copies, documents, stores and
  slots. A wake in the middle of a drain is safe because a copy that was not looked at since is idle,
  and on the list of the drain or of one that follows, or done for good: a queued copy that takes a slot
  was not woken before (`Heard`, `Unseen`), a queue lists queued copies of its own store, each once
  (`Queues`), and a timer and a drain never run at once (`Apart`). An overflow is cleared safely because a
  rescan that saw no drop has every missed document of its store still to do (`RescansCover`), and what is
  missed is remembered while there is room (`MissedAreRemembered`). `SettleShape` says once what settling a
  copy does to the others; offers, deadlines and verdicts reduce to it or to a step that keeps the
  copies (`QuietStep`).
- `CountTheorem` of `RecordReadmissionProof`, with the types. The count is kept by differences at a dozen places, so
  `CountInv` says for each document that it is the number of its waiting copies, and `Paces` that an armed timer
  has an attempt left and that the backoff of a queued copy has not begun. Each step lets at most one
  copy begin or cease to wait (`Enters`, `Leaves`), and `CountStep` turns that into cardinalities.
- `HeldHeadsProof`: `HoldsTheorem`, `DroppedKeysTheorem`, `RestoredKeysTheorem`. Holds end because the timer runs
  while anything is held, and a copy is overdue by less than the timer has run (`InTime`): a timer that
  is started anew would break it. Dropped keys wait because a rescan that saw no drop has every key still to do of
  which a head was dropped and not looked at since (`Remembers`), and other drops are remembered while there is room.
  Restored keys wait because a waiting own head has its copy held as own, or its key among the dropped own
  keys (`Waits`): then `settleHead` keeps the key for the own head alone (`WaitingIsKept`), and no other own head
  has that key, since `HeadAssumption` says that a persisted cache has one head per key. `AdmitCases` sorts a look at
  a head into quiet, dropped and held, and both invariants are proved over these cases. The last theorem is about
  `OrderlyHeadSpec`, the steps in which a peer's copy of an own head comes after the head was restored: without
  `OwnHeadsFirst` it is false (see the divergences above).
- `PrivateOperationsProof`: `LedgerTheorem`, that the handlers implement `PrivateLedger`, and `RecordsTheorem`,
  `NeededTheorem`, `WaitingTheorem`, `PrivateTypeTheorem`. The inductive invariant `Inv` adds to
  `PrivateTypeOK` and `RecordsAgree` what a handler holds at each stage (`HandlersHold`), that a
  checkpoint it read is the present one or has an older revision (`HandlersAreBehind`; this makes
  the comparison under the lock decide the case), that every accepted operation of the present revision is
  still retained (`LogIsRetained`, so that an acceptance judged by the retained operations is one judged by
  the log), and that places in the log are within it (`OrderIsBounded`, so that the newest is well
  defined). `StoredCases` sorts every step by what it does to the scope (stays or freezes, is pinned,
  queues, accepts); each case has a lemma, and the refinement is one more walk over the cases.
  `SiblingsTheorem`: as long as the scope is not frozen, whoever was verified at a head made the claim that is
  reserved there, and a head has one such claim (`ClaimsAreReserved`); two rival claims therefore leave no
  state but a frozen one, and a frozen scope stays frozen. `FollowTheorem`: a handler about to commit at the
  revision of now holds the projection of now (`ProjectionsAreCurrent`), because only an acceptance that
  moves the revision changes it; that one more operation extends the fold `Transitions` by at most itself
  (`TransitionsAppend`) is proved by a least counterexample.
- `ReservedTheorem` of `PrivateOperationsProof`: a challenge for a child of its own revision was issued with a
  reservation of that claim (`ChallengesAreReserved`), a claim reserved at a head stays reserved there
  (`ReservationsStep`), and a handler that proved a challenge and found its operation ready works at
  the revision of that challenge (`HandlersAreReserved`). That the reservation was made under the very
  checkpoint of the acceptance, and not under an earlier one with the same head, needs that a head names the
  revision of its checkpoint (`HeadsNameRevisions`). The head of a control transition is the digest of a
  record that has its revision and its parent head (see `VerifiedPrivateControlTransitionProcessor.spec.ts`); the
  theorem takes that as its hypothesis, and TLC checks it of the heads of the run.
- `RelayMeshProof`: `LosersTheorem`. The inductive invariant is the types and `IsNoOlder`: a missing link that a
  directory remembers was first noted no earlier than the last look that found the link. Passes and
  handlers dial long after they looked, but only a look starts a dial (`DialsStartWithALook`), and a look
  by the higher identifier does so only when its own note is a whole window old.

Only model-checked: liveness, which needs fairness and `ENABLED`, both outside the prover (`RetentionWins`,
`SpaceIsReclaimed`, `UnacknowledgedGo`, `StoresDrain`, `AcceptableArrive`, `WaitsEndForGood`, `MeshConverges`, and
`DepartedAreForgotten`). The two runs that expect a violation show a behaviour, which needs no proof.

## 5. Plan

1. Done: the mailbox service, its hints and its limits (above).
2. Done: the private blob store (above), except the salt of the owner keys and files restored
   without their records. `KeyedSerialQueue` comes with the component that uses it first.
3. Done: the delivery of call signals. To come: `CallParticipantLease` (heartbeats, timeouts), over the
   folded projection.
4. Done: readmission of documents and held heads of the OrbitDB registry. To come: deferred heads and
   their mergers, the warmth of the head cache, and the verdicts of the gates.
5. Done: the control operations of private communities. To come: the lock between a scope and the
   public storage (`PrivateAuthorizationStorageCoordinator`), several devices of one identity, and the
   idempotency of the message bus.
6. Convergence of the operation folds (`CommunityStateFold`) against an abstract "state is a function
   of the set"; device authorization replay.
7. Done: the mesh of relay publishers. To come: the creation and replacement of the public connection,
   the retries of publications, and leaves that listen through a relay.
8. Proofs. Done: the records of the control operations and their refinement of `PrivateLedger`; the dial
   order of the relay mesh; wakes and drops of readmission; held heads; the refinement of `MailboxQueue`
   and the books of the mailbox service; the quotas of the blob store; the hints; the reservations of the control operations.

## 6. Not modelled

The components listed with status `not_modelled` in `PROJECT.json`, with the reason there.
LevelDB's batches are taken as atomic, and libraries (OrbitDB, libp2p, Helia) only through the way the
code uses them. The wall clock never goes back in these models, and cursors never reach the twelve
digits that `LocalMailboxRepository` pads them to.
