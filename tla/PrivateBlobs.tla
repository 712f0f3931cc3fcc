---------------------------- MODULE PrivateBlobs ----------------------------
(***************************************************************************)
(* The private blob store of one node.  A blob is a record in LevelDB and  *)
(* two possible files, <id>.part while it is uploaded and <id>.blob once   *)
(* whole.  Reservations, uploads, removals and the expiration sweep touch  *)
(* both in separate steps and share no lock: every await between two of    *)
(* those steps is a place where another of them can run.                   *)
(*                                                                         *)
(* A blob id stands for the reservation it is generated for, so its owner  *)
(* and its size are functions of it.  Requests carry a valid capability:   *)
(* one that does not verify is answered without any state change.          *)
(***************************************************************************)
EXTENDS Naturals, FiniteSets, FiniteSetsExt

CONSTANTS Blobs,              \* ids the reserver may generate
          Uploads, Removals,  \* PUT and DELETE requests that may run at once
          SizeOf, OwnerOf,    \* bytes and owner key of each reservation
          TotalQuota, OwnerQuota,
          UploadWindow,
          Settings,           \* retention settings a start may choose
          MaxTime, MaxFaults  \* bounds of the model

ASSUME BlobAssumption ==
    /\ IsFiniteSet(Blobs)
    /\ SizeOf \in [Blobs -> Nat \ {0}]
    /\ DOMAIN OwnerOf = Blobs
    /\ {TotalQuota, OwnerQuota, UploadWindow, MaxTime, MaxFaults} \subseteq Nat
    /\ Settings \subseteq [blob : Nat, mailbox : Nat]

VARIABLES
    records, parts, files,      \* what a restart finds: records, .part and .blob
    reserving,                  \* reservations being saved
    uploads, inProgress, removals,
    sweep, deleting,            \* the running sweep and its bytes.delete
    limits,                     \* the configured retentions
    now, faults,
    generated,                  \* ids already given out
    promise,                    \* what the 204 of an upload stands for
    lapsed,                     \* ids whose deadline has passed while recorded
    withdrawn,                  \* ids with an admitted DELETE
    revived                     \* ids that became live by a save after their reservation

disk    == <<records, parts, files>>
process == <<reserving, uploads, inProgress, removals, sweep, deleting, limits>>
history == <<generated, promise, lapsed, withdrawn, revived>>
vars    == <<disk, process, now, faults, history>>

Record  == [status : {"none", "reserved", "stored"}, expiresAt : Nat, retention : Nat]
Absent  == [status |-> "none", expiresAt |-> 0, retention |-> 0]
Content == {"none", "partial", "whole"}
Idle    == [step |-> "idle"]
Phase(step, todo) == [step |-> step, at |-> 0, todo |-> todo, orphans |-> {},
                      copies |-> [b \in Blobs |-> Absent]]
Resting == Phase("idle", {})
Never   == [stored |-> FALSE, at |-> 0, retention |-> 0]

(* PrivateBlobPolicy.retention: a blob outlives every envelope that may    *)
(* reference it.                                                           *)
Retention == IF limits.blob > limits.mailbox THEN limits.blob ELSE limits.mailbox

(* PrivateBlob.                                                            *)
IsExpired(record, at) == record.expiresAt <= at
IsStoredBelow(record, retention) ==
    record.status = "stored" /\ record.retention < retention
MarkStored(record, at) ==
    [status |-> "stored", expiresAt |-> at + record.retention, retention |-> record.retention]
(* Mutant of Extended: the new retention is counted from the sweep.        *)
ExtendedFromNow(record, retention) ==
    IF IsStoredBelow(record, retention)
    THEN [status |-> "stored", retention |-> retention, expiresAt |-> now + retention]
    ELSE record
Extended(record, retention) ==
    IF IsStoredBelow(record, retention)
    THEN [status |-> "stored", retention |-> retention,
          expiresAt |-> record.expiresAt + (retention - record.retention)]
    ELSE record

Recorded(b) == records[b].status # "none"
Live(b)     == Recorded(b) /\ ~IsExpired(records[b], now)

(* LocalPrivateBlobRepository.reservedBytes.                               *)
ReservedBytes(S) == MapThenSumSet(LAMBDA b : SizeOf[b], {b \in S : Live(b)})
OwnedWith(b)     == {c \in Blobs : OwnerOf[c] = OwnerOf[b]}
QuotaAllows(b) ==
    /\ ReservedBytes(Blobs) + SizeOf[b] <= TotalQuota
    /\ ReservedBytes(OwnedWith(b)) + SizeOf[b] <= OwnerQuota

(* LocalPrivateBlobRepository.save: an unconditional put.                  *)
Save(b, record) ==
    /\ records' = [records EXCEPT ![b] = record]
    /\ lapsed' = IF IsExpired(record, now) THEN lapsed \cup {b} ELSE lapsed
Resave(b, record) ==
    /\ Save(b, record)
    /\ revived' = IF Live(b) \/ IsExpired(record, now) THEN revived ELSE revived \cup {b}

Init ==
    /\ records = [b \in Blobs |-> Absent]
    /\ parts = [b \in Blobs |-> "none"]
    /\ files = [b \in Blobs |-> "none"]
    /\ reserving = {}
    /\ uploads = [u \in Uploads |-> Idle]
    /\ inProgress = {}
    /\ removals = [r \in Removals |-> Idle]
    /\ sweep = Resting
    /\ deleting = Idle
    /\ limits \in Settings
    /\ now = 0 /\ faults = 0
    /\ generated = {}
    /\ promise = [b \in Blobs |-> Never]
    /\ lapsed = {} /\ withdrawn = {} /\ revived = {}

-----------------------------------------------------------------------------
(* PrivateBlobReserver: its queue admits one reservation at a time; the    *)
(* quota is read first and the record saved later.  A refusal changes      *)
(* nothing.                                                                *)

(* Mutant of QueueIsFree: reservations run as they come.                   *)
QueueIsIgnored == TRUE
QueueIsFree == reserving = {}

Reserve(b) ==
    /\ QueueIsFree
    /\ b \notin generated
    /\ QuotaAllows(b)
    /\ generated' = generated \cup {b}
    /\ reserving' = reserving \cup
           {[blob |-> b, record |-> [status    |-> "reserved",
                                     expiresAt |-> now + UploadWindow,
                                     retention |-> Retention]]}
    /\ UNCHANGED <<disk, uploads, inProgress, removals, sweep, deleting, limits, now,
                   faults, promise, lapsed, withdrawn, revived>>

SaveReservation(reservation) ==
    /\ Save(reservation.blob, reservation.record)
    /\ reserving' = reserving \ {reservation}
    /\ UNCHANGED <<parts, files, uploads, inProgress, removals, sweep, deleting, limits,
                   now, faults, generated, promise, withdrawn, revived>>

FailReservation(reservation) ==
    /\ faults < MaxFaults /\ faults' = faults + 1
    /\ reserving' = reserving \ {reservation}
    /\ UNCHANGED <<disk, uploads, inProgress, removals, sweep, deleting, limits, now, history>>

-----------------------------------------------------------------------------
(* PrivateBlobUploader.upload and FilePrivateBlobBytesStore.write.         *)

Uploading(u, step) == uploads[u].step = step
Advance(u, step)   == uploads' = [uploads EXCEPT ![u].step = step]
Release(u) ==
    /\ uploads' = [uploads EXCEPT ![u] = Idle]
    /\ inProgress' = inProgress \ {uploads[u].blob}

UploadIsAdmitted(b) ==
    /\ Live(b)
    /\ records[b].status # "stored"
    /\ b \notin inProgress

(* The lookup, its checks and the entry into inProgress.                   *)
AdmitUpload(u, b) ==
    /\ Uploading(u, "idle")
    /\ UploadIsAdmitted(b)
    /\ inProgress' = inProgress \cup {b}
    /\ uploads' = [uploads EXCEPT ![u] = [step |-> "admitted", blob |-> b, copy |-> records[b]]]
    /\ UNCHANGED <<disk, reserving, removals, sweep, deleting, limits, now, faults, history>>

(* The write stream opens with flag w: the file is created or emptied.     *)
OpenPart(u) ==
    /\ Uploading(u, "admitted")
    /\ parts' = [parts EXCEPT ![uploads[u].blob] = "partial"]
    /\ Advance(u, "streaming")
    /\ UNCHANGED <<records, files, reserving, inProgress, removals, sweep, deleting, limits,
                   now, faults, history>>

(* The source ends.  A part file unlinked meanwhile stays unlinked.        *)
SourceEnds(u, exact) ==
    LET b == uploads[u].blob IN
    /\ Uploading(u, "streaming")
    /\ parts' = [parts EXCEPT ![b] = IF @ # "none" /\ exact THEN "whole" ELSE @]
    /\ Advance(u, IF exact THEN "streamed" ELSE "failed")
    /\ UNCHANGED <<records, files, reserving, inProgress, removals, sweep, deleting, limits,
                   now, faults, history>>

(* rename(2), or ENOENT when the part file is gone.                        *)
RenamePart(u) ==
    LET b == uploads[u].blob IN
    /\ Uploading(u, "streamed")
    /\ IF parts[b] = "none"
       THEN Advance(u, "failed") /\ UNCHANGED <<parts, files>>
       ELSE /\ files' = [files EXCEPT ![b] = parts[b]]
            /\ parts' = [parts EXCEPT ![b] = "none"]
            /\ Advance(u, "renamed")
    /\ UNCHANGED <<records, reserving, inProgress, removals, sweep, deleting, limits, now,
                   faults, history>>

(* A failed write removes the part file and leaves inProgress.             *)
AbandonPart(u) ==
    /\ Uploading(u, "failed")
    /\ parts' = [parts EXCEPT ![uploads[u].blob] = "none"]
    /\ Release(u)
    /\ UNCHANGED <<records, files, reserving, removals, sweep, deleting, limits, now, faults,
                   history>>

(* markStored on the copy read at admission, save, answer 204.             *)
CompleteUpload(u) ==
    LET b      == uploads[u].blob
        stored == MarkStored(uploads[u].copy, now)
    IN
    /\ Uploading(u, "renamed")
    /\ Resave(b, stored)
    /\ promise' = [promise EXCEPT ![b] = [stored |-> TRUE, at |-> now,
                                          retention |-> stored.retention]]
    /\ Release(u)
    /\ UNCHANGED <<parts, files, reserving, removals, sweep, deleting, limits, now, faults,
                   generated, withdrawn>>

(* The part file cannot be opened, or not be renamed.                      *)
FailStream(u) ==
    /\ Uploading(u, "admitted") \/ Uploading(u, "streamed")
    /\ faults < MaxFaults /\ faults' = faults + 1
    /\ Advance(u, "failed")
    /\ UNCHANGED <<disk, reserving, inProgress, removals, sweep, deleting, limits, now, history>>

(* The upload ends where it stands: no directory to write to, a part file  *)
(* that cannot be removed, or a record that cannot be saved.               *)
FailUpload(u) ==
    /\ uploads[u].step \in {"admitted", "failed", "renamed"}
    /\ faults < MaxFaults /\ faults' = faults + 1
    /\ Release(u)
    /\ UNCHANGED <<disk, reserving, removals, sweep, deleting, limits, now, history>>

-----------------------------------------------------------------------------
(* PrivateBlobRemover.remove: .blob, then .part, then the record.          *)

UnlinkBlob(b)   == files' = [files EXCEPT ![b] = "none"]
UnlinkPart(b)   == parts' = [parts EXCEPT ![b] = "none"]
DeleteRecord(b) == records' = [records EXCEPT ![b] = Absent]

AdmitRemoval(r, b) ==
    /\ removals[r].step = "idle"
    /\ Recorded(b)
    /\ removals' = [removals EXCEPT ![r] = [step |-> "blob", blob |-> b]]
    /\ withdrawn' = withdrawn \cup {b}
    /\ UNCHANGED <<disk, reserving, uploads, inProgress, sweep, deleting, limits, now, faults,
                   generated, promise, lapsed, revived>>

RemovalStep(r) ==
    LET b == removals[r].blob IN
    /\ \/ /\ removals[r].step = "blob"
          /\ UnlinkBlob(b) /\ UNCHANGED <<records, parts>>
          /\ removals' = [removals EXCEPT ![r].step = "part"]
       \/ /\ removals[r].step = "part"
          /\ UnlinkPart(b) /\ UNCHANGED <<records, files>>
          /\ removals' = [removals EXCEPT ![r].step = "record"]
       \/ /\ removals[r].step = "record"
          /\ DeleteRecord(b) /\ UNCHANGED <<parts, files>>
          /\ removals' = [removals EXCEPT ![r] = Idle]
    /\ UNCHANGED <<reserving, uploads, inProgress, sweep, deleting, limits, now, faults, history>>

FailRemoval(r) ==
    /\ removals[r].step # "idle"
    /\ faults < MaxFaults /\ faults' = faults + 1
    /\ removals' = [removals EXCEPT ![r] = Idle]
    /\ UNCHANGED <<disk, reserving, uploads, inProgress, sweep, deleting, limits, now, history>>

-----------------------------------------------------------------------------
(* PrivateBlobExpirer.expire.  A sweep is a list of blobs still to visit   *)
(* in its current phase; deleting is the bytes.delete in progress.         *)

Sweeping(step) == sweep.step = step
Unswept == <<disk, reserving, uploads, inProgress, removals, limits, now, faults, history>>

(* alignRetention reads the copies it will save.                           *)
StartSweep ==
    /\ Sweeping("idle")
    /\ LET stale == {b \in Blobs : IsStoredBelow(records[b], Retention)}
       IN sweep' = [step |-> "align", at |-> now, todo |-> stale, orphans |-> {},
                    copies |-> [b \in Blobs |-> IF b \in stale THEN records[b] ELSE Absent]]
    /\ UNCHANGED <<Unswept, deleting>>

Align(b) ==
    /\ Sweeping("align") /\ b \in sweep.todo
    /\ Resave(b, Extended(sweep.copies[b], Retention))
    /\ sweep' = [sweep EXCEPT !.todo = @ \ {b}]
    /\ UNCHANGED <<parts, files, reserving, uploads, inProgress, removals, deleting, limits,
                   now, faults, generated, promise, withdrawn>>

ExpiredAt(at) == {b \in Blobs : Recorded(b) /\ IsExpired(records[b], at)}

FindExpired ==
    /\ Sweeping("align") /\ sweep.todo = {}
    /\ sweep' = Phase("expire", ExpiredAt(sweep.at))
    /\ UNCHANGED <<Unswept, deleting>>

(* bytes.delete of the next blob of the list, expired or orphaned.         *)
DeleteBytes(b) ==
    /\ Sweeping("expire") \/ Sweeping("orphans")
    /\ deleting.step = "idle" /\ b \in sweep.todo
    /\ UnlinkBlob(b)
    /\ deleting' = [step |-> "part", blob |-> b]
    /\ sweep' = [sweep EXCEPT !.todo = @ \ {b}]
    /\ UNCHANGED <<records, parts, reserving, uploads, inProgress, removals, limits, now,
                   faults, history>>

DeletePart ==
    /\ deleting.step = "part"
    /\ UnlinkPart(deleting.blob)
    /\ deleting' = IF Sweeping("expire") THEN [deleting EXCEPT !.step = "record"] ELSE Idle
    /\ UNCHANGED <<records, files, reserving, uploads, inProgress, removals, sweep, limits,
                   now, faults, history>>

DeleteExpired ==
    /\ deleting.step = "record"
    /\ DeleteRecord(deleting.blob)
    /\ deleting' = Idle
    /\ UNCHANGED <<parts, files, reserving, uploads, inProgress, removals, sweep, limits, now,
                   faults, history>>

(* findOrphanIds: the listing first, then one lookup per id.               *)
(* Mutant of ListedIds: part files are not listed.                         *)
ListedBlobFiles == {b \in Blobs : files[b] # "none"}
ListedIds == {b \in Blobs : parts[b] # "none" \/ files[b] # "none"}

ListIds ==
    /\ Sweeping("expire") /\ sweep.todo = {} /\ deleting.step = "idle"
    /\ sweep' = Phase("scan", ListedIds)
    /\ UNCHANGED <<Unswept, deleting>>

(* Mutant of IsOrphan: only stored blobs own their files.                  *)
IsNotStored(b) == records[b].status # "stored"
IsOrphan(b) == ~Recorded(b)

LookUp(b) ==
    /\ Sweeping("scan") /\ b \in sweep.todo
    /\ sweep' = [sweep EXCEPT !.todo = @ \ {b},
                              !.orphans = IF IsOrphan(b) THEN @ \cup {b} ELSE @]
    /\ UNCHANGED <<Unswept, deleting>>

FindOrphans ==
    /\ Sweeping("scan") /\ sweep.todo = {}
    /\ sweep' = Phase("orphans", sweep.orphans)
    /\ UNCHANGED <<Unswept, deleting>>

EndSweep ==
    /\ Sweeping("orphans") /\ sweep.todo = {} /\ deleting.step = "idle"
    /\ sweep' = Resting
    /\ UNCHANGED <<Unswept, deleting>>

(* One failing blob never stops the sweep: it is left to the next one.     *)
SkipInSweep ==
    /\ faults < MaxFaults /\ faults' = faults + 1
    /\ \/ deleting.step # "idle" /\ deleting' = Idle /\ UNCHANGED sweep
       \/ /\ sweep.step \in {"align", "expire", "orphans"} /\ deleting.step = "idle"
          /\ \E b \in sweep.todo : sweep' = [sweep EXCEPT !.todo = @ \ {b}]
          /\ UNCHANGED deleting
    /\ UNCHANGED <<disk, reserving, uploads, inProgress, removals, limits, now, history>>

(* A failing query or directory listing ends the sweep.                    *)
AbortSweep ==
    /\ faults < MaxFaults /\ faults' = faults + 1
    /\ \/ sweep.step \in {"align", "expire"} /\ sweep.todo = {} /\ deleting.step = "idle"
       \/ Sweeping("scan")
    /\ sweep' = Resting
    /\ UNCHANGED <<disk, reserving, uploads, inProgress, removals, deleting, limits, now, history>>

SweepStep ==
    \/ StartSweep \/ FindExpired \/ DeletePart \/ DeleteExpired
    \/ ListIds \/ FindOrphans \/ EndSweep
    \/ \E b \in Blobs : Align(b) \/ DeleteBytes(b) \/ LookUp(b)

-----------------------------------------------------------------------------
(* A stop and a start, possibly with other settings.                       *)
Restart ==
    /\ faults < MaxFaults /\ faults' = faults + 1
    /\ reserving' = {}
    /\ uploads' = [u \in Uploads |-> Idle]
    /\ inProgress' = {}
    /\ removals' = [r \in Removals |-> Idle]
    /\ sweep' = Resting /\ deleting' = Idle
    /\ limits' \in Settings
    /\ UNCHANGED <<disk, now, history>>

Tick ==
    /\ now < MaxTime
    /\ now' = now + 1
    /\ lapsed' = lapsed \cup {b \in Blobs : Recorded(b) /\ IsExpired(records[b], now + 1)}
    /\ UNCHANGED <<disk, process, faults, generated, promise, withdrawn, revived>>

Next ==
    \/ \E b \in Blobs : Reserve(b)
    \/ \E reservation \in reserving :
          SaveReservation(reservation) \/ FailReservation(reservation)
    \/ \E u \in Uploads :
          \/ \E b \in Blobs : AdmitUpload(u, b)
          \/ OpenPart(u)
          \/ \E exact \in BOOLEAN : SourceEnds(u, exact)
          \/ RenamePart(u) \/ AbandonPart(u) \/ CompleteUpload(u)
          \/ FailStream(u) \/ FailUpload(u)
    \/ \E r \in Removals :
          \/ \E b \in Blobs : AdmitRemoval(r, b)
          \/ RemovalStep(r) \/ FailRemoval(r)
    \/ SweepStep \/ SkipInSweep \/ AbortSweep
    \/ Restart
    \/ Tick

Spec == Init /\ [][Next]_vars
=============================================================================
