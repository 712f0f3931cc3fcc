----------------------- MODULE PrivateBlobProperties ------------------------
(***************************************************************************)
(* What the private blob store promises, and what its documents claim.     *)
(***************************************************************************)
EXTENDS PrivateBlobs

UploadState ==
    {Idle} \cup [step : {"admitted", "streaming", "streamed", "renamed", "failed"},
                 blob : Blobs, copy : Record]
RemovalState  == {Idle} \cup [step : {"blob", "part", "record"}, blob : Blobs]
DeletionState == {Idle} \cup [step : {"part", "record"}, blob : Blobs]
SweepState ==
    [step : {"idle", "align", "expire", "scan", "orphans"}, at : Nat,
     todo : SUBSET Blobs, orphans : SUBSET Blobs, copies : [Blobs -> Record]]

(* Every variable stays in its set (PrivateBlobState.ts, and the files     *)
(* FilePrivateBlobBytesStore.ts can leave).                                *)
TypeOK ==
    /\ records \in [Blobs -> Record]
    /\ parts \in [Blobs -> Content] /\ files \in [Blobs -> Content]
    /\ reserving \subseteq [blob : Blobs, record : Record]
    /\ uploads \in [Uploads -> UploadState] /\ inProgress \subseteq Blobs
    /\ removals \in [Removals -> RemovalState] /\ deleting \in DeletionState
    /\ sweep \in SweepState
    /\ limits \in Settings /\ now \in Nat /\ faults \in Nat
    /\ promise \in [Blobs -> [stored : BOOLEAN, at : Nat, retention : Nat]]
    /\ generated \cup lapsed \cup withdrawn \cup revived \subseteq Blobs

Active == {u \in Uploads : uploads[u].step # "idle"}

(* At most one upload of a blob is past its checks, and exactly those are  *)
(* in inProgress: two streams never write one part file                    *)
(* (PrivateBlobUploader.ts:33-45).                                         *)
OneWriter ==
    /\ inProgress = {uploads[u].blob : u \in Active}
    /\ \A u, v \in Active : uploads[u].blob = uploads[v].blob => u = v

(* A stored blob that never passed a deadline and that nobody withdrew has *)
(* its whole file, whatever uploads, removals, sweeps, failures and        *)
(* restarts ran meanwhile: neither the sweep's lists nor its search for    *)
(* orphans ever takes it (PrivateBlobExpirer.ts:16-26, 59-83).             *)
TimelyBlobsKeepTheirBytes ==
    \A b \in Blobs \ (lapsed \cup withdrawn) :
        records[b].status = "stored" => files[b] = "whole"

Kept(made, record) ==
    /\ made.stored
    /\ record.expiresAt = made.at + record.retention
    /\ record.retention >= made.retention

(* The deadline of a stored blob is its store time plus the retention its  *)
(* record names, however often a sweep raised it and whichever copy it     *)
(* saved (PrivateBlob.ts:119-138).                                         *)
StoreTimeKept ==
    \A b \in Blobs : records[b].status = "stored" => Kept(promise[b], records[b])

(* Concurrent reservations never overshoot a quota: the live bytes exceed  *)
(* it only by blobs that a late upload or a late extension brought back    *)
(* (PrivateBlobReserver.ts:60-71).                                         *)
ReservationsFitQuotas ==
    /\ ReservedBytes(Blobs \ revived) <= TotalQuota
    /\ \A b \in Blobs : ReservedBytes(OwnedWith(b) \ revived) <= OwnerQuota

-----------------------------------------------------------------------------
(* Sweeps keep running; nothing is assumed of clients or of time.          *)
FairSpec == Spec /\ WF_vars(SweepStep)

(* A record past its deadline is removed or extended in the end, whatever  *)
(* failed or stopped in between (PrivateBlobExpirer.ts:50-54).             *)
ExpiredAreReclaimed ==
    \A b \in Blobs : (Recorded(b) /\ ~Live(b)) ~> (~Recorded(b) \/ Live(b))

(* A file without a record goes in the end, or gets a record back          *)
(* (PrivateBlobExpirer.ts:55-58).                                          *)
Orphaned(b) == ~Recorded(b) /\ (parts[b] # "none" \/ files[b] # "none")
OrphansAreReclaimed == \A b \in Blobs : Orphaned(b) ~> ~Orphaned(b)

(* Neither records nor files use space for ever that nobody may use.       *)
SpaceIsReclaimed == ExpiredAreReclaimed /\ OrphansAreReclaimed

-----------------------------------------------------------------------------
(* docs/design/private-blob-store.md:29 says completed blobs live for the  *)
(* retention: after the 204 of an upload nobody withdrew, the blob is      *)
(* readable until the deadline it then got.                                *)
CompletedBlobsLive ==
    \A b \in Blobs \ withdrawn :
        promise[b].stored /\ now < promise[b].at + promise[b].retention =>
            Live(b) /\ records[b].status = "stored" /\ files[b] = "whole"
=============================================================================
