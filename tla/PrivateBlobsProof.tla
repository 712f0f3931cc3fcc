------------------------- MODULE PrivateBlobsProof --------------------------
(***************************************************************************)
(* A blob stored in time keeps its bytes and its store time, has one writer*)
(* at most, and the live blobs fit the quotas, for every number of blobs,  *)
(* requests and failures, every quota and every retention.  Byte windows   *)
(* and resumed downloads are exact for every size and every request.       *)
(***************************************************************************)
EXTENDS PrivateBlobProperties, PrivateBlobRange, SumsProof

(* Ids whose reservation is saved, or was lost before it was.              *)
Established(b) == b \in generated /\ \A x \in reserving : x.blob # b

KnownToUploads == \A u \in Active : Established(uploads[u].blob)

(* Nothing but the reserver knows an id before its reservation is saved.   *)
Fresh ==
    /\ \A x, y \in reserving : x = y
    /\ \A x \in reserving : x.record.status = "reserved" /\ x.blob \in generated
    /\ \A b \in Blobs : Recorded(b) \/ promise[b].stored => Established(b)
    /\ KnownToUploads

(* A blob is completed once; the copies an upload or the sweep will save   *)
(* are still what they were read as.                                       *)
OpenUploads ==
    \A u \in Active : ~promise[uploads[u].blob].stored /\ uploads[u].copy.status = "reserved"
Closed == \A b \in Blobs : promise[b].stored => records[b].status # "reserved"
CopiesKept ==
    Sweeping("align") => \A b \in sweep.todo :
        sweep.copies[b].status = "stored" /\ Kept(promise[b], sweep.copies[b])
Copies == OpenUploads /\ Closed /\ CopiesKept /\ StoreTimeKept

(* Every record past its deadline is known to have passed it.              *)
Deadlines ==
    /\ sweep.at <= now
    /\ \A b \in Blobs : Recorded(b) /\ IsExpired(records[b], now) => b \in lapsed

Timely(b) == b \in Blobs /\ b \notin lapsed /\ b \notin withdrawn

(* Removals and sweeps delete nothing of a timely blob.                    *)
SparedByRemovals ==
    \A r \in Removals : removals[r].step # "idle" => ~Timely(removals[r].blob)
SparedByDeletions == deleting.step # "idle" => ~Timely(deleting.blob)
SparedByLists ==
    /\ sweep.step \in {"expire", "orphans"} => \A b \in sweep.todo : ~Timely(b)
    /\ \A b \in sweep.orphans : ~Timely(b)
    /\ Sweeping("scan") => \A b \in sweep.todo : Timely(b) => Recorded(b)
    /\ Sweeping("align") => \A b \in sweep.todo : Timely(b) => records[b].status = "stored"
Spared == SparedByRemovals /\ SparedByDeletions /\ SparedByLists

(* The files of a timely blob have a record, and what its upload has       *)
(* finished is whole.                                                      *)
OwnedFiles   == \A b \in ListedIds : Timely(b) => Recorded(b)
OwnedUploads == \A u \in Active : Timely(uploads[u].blob) => Recorded(uploads[u].blob)
WholeUploads ==
    \A u \in Uploads :
        /\ Uploading(u, "streamed") => parts[uploads[u].blob] \in {"none", "whole"}
        /\ Uploading(u, "renamed") /\ Timely(uploads[u].blob) =>
               files[uploads[u].blob] = "whole"
Whole == OwnedFiles /\ OwnedUploads /\ WholeUploads /\ TimelyBlobsKeepTheirBytes

IInv == TypeOK /\ OneWriter /\ Fresh /\ Copies /\ Deadlines /\ Spared /\ Whole

-----------------------------------------------------------------------------
(* What the helpers return.                                                *)

LEMMA RetentionType ==
    ASSUME TypeOK
    PROVE  Retention \in Nat /\ Retention >= limits.mailbox
BY BlobAssumption DEF TypeOK, Retention

LEMMA RecordTypes ==
    ASSUME NEW record \in Record, NEW at \in Nat, NEW retention \in Nat
    PROVE  /\ MarkStored(record, at) \in Record
           /\ Extended(record, retention) \in Record
           /\ Absent \in Record
<1>1. MarkStored(record, at) \in Record
  BY DEF Record, MarkStored
<1>2. CASE IsStoredBelow(record, retention)
  <2>1. retention - record.retention \in Nat
    BY <1>2 DEF IsStoredBelow, Record
  <2> QED
    BY <1>1, <1>2, <2>1 DEF Record, Extended, Absent
<1>3. CASE ~IsStoredBelow(record, retention)
  BY <1>1, <1>3 DEF Record, Extended, Absent
<1> QED
  BY <1>2, <1>3

LEMMA PhaseType ==
    /\ Resting \in SweepState
    /\ \A step \in {"idle", "align", "expire", "scan", "orphans"} :
          \A todo \in SUBSET Blobs : Phase(step, todo) \in SweepState
BY DEF Resting, Phase, SweepState, Absent, Record

LEMMA InitType == Init => TypeOK
BY PhaseType DEF Init, TypeOK, UploadState, RemovalState, DeletionState, Idle, Record,
   Absent, Content, Never

(* An upload that has begun names a blob and a record.                     *)
LEMMA ActiveType ==
    ASSUME TypeOK, NEW u \in Uploads, uploads[u].step # "idle"
    PROVE  /\ uploads[u].blob \in Blobs /\ uploads[u].copy \in Record
           /\ \A step \in {"streaming", "streamed", "renamed", "failed"} :
                 [uploads[u] EXCEPT !.step = step] \in UploadState
BY DEF TypeOK, UploadState, Idle

LEMMA StepType ==
    ASSUME TypeOK, [Next]_vars
    PROVE  TypeOK'
<1> USE DEF TypeOK
<1>1. ASSUME NEW b \in Blobs, Reserve(b) PROVE TypeOK'
  <2>1. [status |-> "reserved", expiresAt |-> now + UploadWindow, retention |-> Retention]
          \in Record
    BY RetentionType, BlobAssumption DEF Record
  <2> QED
    BY <1>1, <2>1 DEF Reserve, disk
<1>2. ASSUME NEW x \in reserving, SaveReservation(x) PROVE TypeOK'
  BY <1>2 DEF SaveReservation, Save
<1>3. ASSUME NEW u \in Uploads, NEW b \in Blobs, AdmitUpload(u, b) PROVE TypeOK'
  <2>1. [step |-> "admitted", blob |-> b, copy |-> records[b]] \in UploadState
    BY DEF UploadState
  <2>2. uploads' \in [Uploads -> UploadState]
    BY <1>3, <2>1 DEF AdmitUpload
  <2> QED
    BY <1>3, <2>2 DEF AdmitUpload, disk, history
<1>4. ASSUME NEW u \in Uploads, OpenPart(u) PROVE TypeOK'
  BY <1>4, ActiveType DEF OpenPart, Advance, Uploading, Content, history
<1>5. ASSUME NEW u \in Uploads, NEW exact \in BOOLEAN, SourceEnds(u, exact) PROVE TypeOK'
  BY <1>5, ActiveType DEF SourceEnds, Advance, Uploading, Content, history
<1>6. ASSUME NEW u \in Uploads, RenamePart(u) PROVE TypeOK'
  <2>1. /\ uploads[u].blob \in Blobs
        /\ \A step \in {"renamed", "failed"} : [uploads[u] EXCEPT !.step = step] \in UploadState
    BY <1>6, ActiveType DEF RenamePart, Uploading
  <2>2. uploads' \in [Uploads -> UploadState]
    <3>1. \E step \in {"renamed", "failed"} :
            uploads' = [uploads EXCEPT ![u] = [uploads[u] EXCEPT !.step = step]]
      BY <1>6 DEF RenamePart, Advance
    <3>2. uploads \in [Uploads -> UploadState]
      OBVIOUS
    <3> QED
      BY <2>1, <3>1, <3>2
  <2>3. parts' \in [Blobs -> Content] /\ files' \in [Blobs -> Content]
    BY <1>6, <2>1 DEF RenamePart, Content
  <2> QED
    BY <1>6, <2>2, <2>3 DEF RenamePart, history
<1>7. ASSUME NEW u \in Uploads, AbandonPart(u) PROVE TypeOK'
  BY <1>7, ActiveType DEF AbandonPart, Release, Uploading, Content, history, UploadState
<1>8. ASSUME NEW u \in Uploads, CompleteUpload(u) PROVE TypeOK'
  <2> DEFINE b == uploads[u].blob
             stored == MarkStored(uploads[u].copy, now)
  <2>1. b \in Blobs /\ stored \in Record
    BY <1>8, ActiveType, RecordTypes DEF CompleteUpload, Uploading
  <2>2. stored.retention \in Nat
    BY <2>1 DEF Record
  <2> HIDE DEF b, stored
  <2>3. /\ records' = [records EXCEPT ![b] = stored]
        /\ lapsed' \subseteq lapsed \cup {b} /\ revived' \subseteq revived \cup {b}
        /\ promise' = [promise EXCEPT ![b] = [stored |-> TRUE, at |-> now,
                                              retention |-> stored.retention]]
        /\ uploads' = [uploads EXCEPT ![u] = Idle]
        /\ inProgress' \subseteq inProgress
        /\ UNCHANGED <<parts, files, reserving, removals, sweep, deleting, limits, now,
                       faults, generated, withdrawn>>
    BY <1>8 DEF CompleteUpload, Resave, Save, Release, b, stored
  <2> QED
    BY <2>1, <2>2, <2>3 DEF UploadState
<1>9. ASSUME NEW u \in Uploads, FailUpload(u) PROVE TypeOK'
  BY <1>9 DEF FailUpload, Release, disk, history, UploadState
<1>10. ASSUME NEW r \in Removals, NEW b \in Blobs, AdmitRemoval(r, b) PROVE TypeOK'
  BY <1>10 DEF AdmitRemoval, disk, RemovalState
<1>11. ASSUME NEW r \in Removals, RemovalStep(r) PROVE TypeOK'
  <2>1. removals[r].step # "idle"
    BY <1>11 DEF RemovalStep
  <2>2. /\ removals[r].blob \in Blobs
        /\ \A step \in {"part", "record"} :
              [removals[r] EXCEPT !.step = step] \in RemovalState
    BY <2>1 DEF RemovalState, Idle
  <2>3. Absent \in Record /\ Idle \in RemovalState
    BY DEF Absent, Record, RemovalState
  <2>4. removals' \in [Removals -> RemovalState]
    BY <1>11, <2>2, <2>3 DEF RemovalStep
  <2>5. /\ records' \in [Blobs -> Record]
        /\ parts' \in [Blobs -> Content] /\ files' \in [Blobs -> Content]
    BY <1>11, <2>2, <2>3 DEF RemovalStep, UnlinkBlob, UnlinkPart, DeleteRecord, Content
  <2> QED
    BY <1>11, <2>4, <2>5 DEF RemovalStep, history
<1>12. ASSUME NEW r \in Removals, FailRemoval(r) PROVE TypeOK'
  BY <1>12 DEF FailRemoval, disk, history, RemovalState
<1>13. CASE StartSweep
  <2> DEFINE stale == {b \in Blobs : IsStoredBelow(records[b], Retention)}
  <2>1. [b \in Blobs |-> IF b \in stale THEN records[b] ELSE Absent] \in [Blobs -> Record]
    BY DEF Absent, Record
  <2> QED
    BY <1>13, <2>1 DEF StartSweep, Unswept, disk, history, SweepState
<1>14. ASSUME NEW b \in Blobs, Align(b) PROVE TypeOK'
  <2>1. Extended(sweep.copies[b], Retention) \in Record
    BY RetentionType, RecordTypes DEF SweepState
  <2> QED
    BY <1>14, <2>1 DEF Align, Resave, Save, SweepState
<1>15. CASE FindExpired
  BY <1>15, PhaseType DEF FindExpired, ExpiredAt, Unswept, disk, history, SweepState
<1>16. ASSUME NEW b \in Blobs, DeleteBytes(b) PROVE TypeOK'
  BY <1>16 DEF DeleteBytes, UnlinkBlob, Content, history, SweepState, DeletionState
<1>17. CASE DeletePart
  <2>1. deleting.blob \in Blobs /\ [deleting EXCEPT !.step = "record"] \in DeletionState
    BY <1>17 DEF DeletePart, DeletionState, Idle
  <2> QED
    BY <1>17, <2>1 DEF DeletePart, UnlinkPart, Content, history, DeletionState
<1>18. CASE DeleteExpired
  <2>1. deleting.blob \in Blobs /\ Absent \in Record
    BY <1>18 DEF DeleteExpired, DeletionState, Idle, Absent, Record
  <2>2. records' \in [Blobs -> Record]
    BY <1>18, <2>1 DEF DeleteExpired, DeleteRecord
  <2>3. deleting' \in DeletionState
    BY <1>18, <2>1 DEF DeleteExpired, DeletionState
  <2>4. UNCHANGED <<uploads, sweep, reserving>>
    BY <1>18 DEF DeleteExpired, DeleteRecord
  <2> QED
    BY <1>18, <2>2, <2>3 DEF DeleteExpired, DeleteRecord, history
<1>19. CASE ListIds
  BY <1>19, PhaseType DEF ListIds, ListedIds, Unswept, disk, history, SweepState
<1>20. ASSUME NEW b \in Blobs, LookUp(b) PROVE TypeOK'
  BY <1>20 DEF LookUp, Unswept, disk, history, SweepState
<1>21. CASE FindOrphans
  BY <1>21, PhaseType DEF FindOrphans, Unswept, disk, history, SweepState
<1>22. CASE EndSweep
  BY <1>22, PhaseType DEF EndSweep, Unswept, disk, history
<1>23. CASE SkipInSweep
  <2>1. sweep' \in SweepState /\ deleting' \in DeletionState
    BY <1>23 DEF SkipInSweep, SweepState, DeletionState
  <2> QED
    BY <1>23, <2>1 DEF SkipInSweep, disk, history
<1>24. CASE AbortSweep
  BY <1>24, PhaseType DEF AbortSweep, disk, history
<1>25. CASE Restart
  BY <1>25, PhaseType DEF Restart, disk, history, UploadState, RemovalState, DeletionState
<1>26. CASE Tick
  BY <1>26 DEF Tick, disk, process
<1>27. CASE UNCHANGED vars
  BY <1>27 DEF vars, disk, process, history
<1>28. ASSUME NEW x \in reserving, FailReservation(x) PROVE TypeOK'
  BY <1>28 DEF FailReservation, disk, history
<1>29. ASSUME NEW u \in Uploads, FailStream(u) PROVE TypeOK'
  <2>1. [uploads[u] EXCEPT !.step = "failed"] \in UploadState
    BY <1>29, ActiveType DEF FailStream, Uploading
  <2> QED
    BY <1>29, <2>1 DEF FailStream, Advance, disk, history
<1> QED
  BY <1>1, <1>2, <1>3, <1>4, <1>5, <1>6, <1>7, <1>8, <1>9, <1>10, <1>11, <1>12, <1>13,
     <1>14, <1>15, <1>16, <1>17, <1>18, <1>19, <1>20, <1>21, <1>22, <1>23, <1>24, <1>25,
     <1>26, <1>27, <1>28, <1>29 DEF Next, SweepStep

-----------------------------------------------------------------------------
(* How uploads change: one is admitted, or moves on with its blob and its  *)
(* copy, or ends.                                                          *)

LEMMA Advancing ==
    ASSUME TypeOK, NEW u \in Active, NEW step, step # "idle", Advance(u, step)
    PROVE  /\ Active' = Active
           /\ \A v \in Active : /\ uploads'[v].blob = uploads[v].blob
                                /\ uploads'[v].copy = uploads[v].copy
           /\ \A v \in Uploads : v # u => uploads'[v] = uploads[v]
           /\ uploads'[u].step = step
<1>1. uploads[u] \in [step : {"admitted", "streaming", "streamed", "renamed", "failed"},
                      blob : Blobs, copy : Record]
  BY DEF Active, TypeOK, UploadState, Idle
<1>2. /\ uploads'[u].step = step
      /\ uploads'[u].blob = uploads[u].blob
      /\ uploads'[u].copy = uploads[u].copy
  BY <1>1 DEF Advance, Active, TypeOK
<1>3. \A v \in Uploads : v # u => uploads'[v] = uploads[v]
  BY DEF Advance, TypeOK
<1> QED
  BY <1>2, <1>3 DEF Active

LEMMA Releasing ==
    ASSUME TypeOK, NEW u \in Active, Release(u)
    PROVE  /\ Active' = Active \ {u}
           /\ \A v \in Uploads : v # u => uploads'[v] = uploads[v]
           /\ uploads'[u] = Idle
BY DEF Release, Active, TypeOK, Idle

LEMMA Moving ==
    ASSUME TypeOK, NEW u \in Uploads,
           \/ OpenPart(u) \/ RenamePart(u) \/ FailStream(u)
           \/ \E exact \in BOOLEAN : SourceEnds(u, exact)
    PROVE  u \in Active /\ inProgress' = inProgress
           /\ \E step \in {"streaming", "streamed", "renamed", "failed"} : Advance(u, step)
BY DEF OpenPart, RenamePart, SourceEnds, FailStream, Uploading, Active

LEMMA Ending ==
    ASSUME TypeOK, NEW u \in Uploads,
           AbandonPart(u) \/ CompleteUpload(u) \/ FailUpload(u)
    PROVE  u \in Active /\ Release(u)
BY DEF AbandonPart, CompleteUpload, FailUpload, Uploading, Active

(* Every step is one of these with respect to uploads.                     *)
UploadsRest == UNCHANGED <<uploads, inProgress>>
LEMMA UploadCases ==
    ASSUME TypeOK, [Next]_vars
    PROVE  \/ UploadsRest
           \/ \E u \in Uploads, b \in Blobs : AdmitUpload(u, b)
           \/ \E u \in Active : /\ inProgress' = inProgress
                                /\ \E step \in {"streaming", "streamed", "renamed", "failed"} :
                                      Advance(u, step)
           \/ \E u \in Active : Release(u)
           \/ uploads' = [u \in Uploads |-> Idle] /\ inProgress' = {}
<1>1. CASE \E u \in Uploads : \/ OpenPart(u) \/ RenamePart(u) \/ FailStream(u)
                              \/ \E exact \in BOOLEAN : SourceEnds(u, exact)
  BY <1>1, Moving
<1>2. CASE \E u \in Uploads : AbandonPart(u) \/ CompleteUpload(u) \/ FailUpload(u)
  BY <1>2, Ending
<1>3. CASE Restart
  BY <1>3 DEF Restart
<1>4. CASE SweepStep \/ SkipInSweep \/ AbortSweep \/ Tick
  BY <1>4 DEF SweepStep, StartSweep, FindExpired, DeletePart, DeleteExpired, ListIds,
     FindOrphans, EndSweep, Align, DeleteBytes, LookUp, SkipInSweep, AbortSweep, Tick,
     Unswept, process, UploadsRest
<1>5. CASE \/ \E b \in Blobs : Reserve(b)
           \/ \E x \in reserving : SaveReservation(x) \/ FailReservation(x)
           \/ \E r \in Removals : \/ \E b \in Blobs : AdmitRemoval(r, b)
                                  \/ RemovalStep(r) \/ FailRemoval(r)
  BY <1>5 DEF Reserve, SaveReservation, FailReservation, AdmitRemoval, RemovalStep,
     FailRemoval, UploadsRest
<1>6. CASE UNCHANGED vars
  BY <1>6 DEF vars, process, UploadsRest
<1> QED
  BY <1>1, <1>2, <1>3, <1>4, <1>5, <1>6 DEF Next

LEMMA StepOneWriter ==
    ASSUME TypeOK, OneWriter, [Next]_vars
    PROVE  OneWriter'
<1>1. CASE UploadsRest
  BY <1>1 DEF UploadsRest, OneWriter, Active
<1>2. ASSUME NEW u \in Uploads, NEW b \in Blobs, AdmitUpload(u, b) PROVE OneWriter'
  <2>1. /\ b \notin inProgress /\ inProgress' = inProgress \cup {b} /\ u \notin Active
        /\ uploads' = [uploads EXCEPT ![u] = [step |-> "admitted", blob |-> b,
                                              copy |-> records[b]]]
    BY <1>2 DEF AdmitUpload, UploadIsAdmitted, Uploading, Active
  <2>2. /\ Active' = Active \cup {u}
        /\ uploads'[u].blob = b
        /\ \A v \in Active : uploads'[v] = uploads[v]
    BY <2>1 DEF Active, TypeOK
  <2> QED
    BY <2>1, <2>2 DEF OneWriter
<1>3. ASSUME NEW u \in Active, NEW step \in {"streaming", "streamed", "renamed", "failed"},
             Advance(u, step), inProgress' = inProgress
      PROVE  OneWriter'
  <2>1. Active' = Active /\ \A v \in Active : uploads'[v].blob = uploads[v].blob
    BY <1>3, Advancing
  <2> QED
    BY <1>3, <2>1 DEF OneWriter
<1>4. ASSUME NEW u \in Active, Release(u) PROVE OneWriter'
  <2>1. /\ Active' = Active \ {u}
        /\ \A v \in Active' : uploads'[v] = uploads[v]
        /\ inProgress' = inProgress \ {uploads[u].blob}
    BY <1>4, Releasing DEF Release, Active
  <2> QED
    BY <2>1 DEF OneWriter
<1>5. CASE uploads' = [u \in Uploads |-> Idle] /\ inProgress' = {}
  <2>1. Active' = {}
    BY <1>5 DEF Active, Idle
  <2> QED
    BY <1>5, <2>1 DEF OneWriter
<1> QED
  BY <1>1, <1>2, <1>3, <1>4, <1>5, UploadCases

-----------------------------------------------------------------------------
(* How records change: nothing, one is saved or one is deleted.            *)

LEMMA RecordCases ==
    ASSUME TypeOK, [Next]_vars
    PROVE  \/ UNCHANGED records
           \/ \E x \in reserving : SaveReservation(x)
           \/ \E u \in Uploads : CompleteUpload(u)
           \/ \E b \in Blobs : Align(b)
           \/ \E r \in Removals : /\ removals[r].step = "record" /\ RemovalStep(r)
                                  /\ records' = [records EXCEPT ![removals[r].blob] = Absent]
           \/ /\ DeleteExpired
              /\ records' = [records EXCEPT ![deleting.blob] = Absent]
<1>1. CASE (\E b \in Blobs : Reserve(b)) \/ \E x \in reserving : FailReservation(x)
  BY <1>1 DEF Reserve, FailReservation, disk
<1>2. CASE \E u \in Uploads : \/ \E b \in Blobs : AdmitUpload(u, b)
                              \/ OpenPart(u)
                              \/ \E exact \in BOOLEAN : SourceEnds(u, exact)
                              \/ RenamePart(u) \/ AbandonPart(u) \/ FailStream(u) \/ FailUpload(u)
  BY <1>2 DEF AdmitUpload, OpenPart, SourceEnds, RenamePart, AbandonPart, FailStream,
     FailUpload, disk
<1>3. CASE \E r \in Removals : \/ \E b \in Blobs : AdmitRemoval(r, b)
                               \/ RemovalStep(r) \/ FailRemoval(r)
  BY <1>3 DEF AdmitRemoval, RemovalStep, FailRemoval, DeleteRecord, disk
<1>4. CASE StartSweep \/ FindExpired \/ DeletePart \/ ListIds \/ FindOrphans \/ EndSweep
  BY <1>4 DEF StartSweep, FindExpired, DeletePart, ListIds, FindOrphans, EndSweep, Unswept,
     disk
<1>5. CASE \E b \in Blobs : DeleteBytes(b) \/ LookUp(b)
  BY <1>5 DEF DeleteBytes, LookUp, Unswept, disk
<1>6. CASE SkipInSweep \/ AbortSweep \/ Restart \/ Tick \/ UNCHANGED vars
  BY <1>6 DEF SkipInSweep, AbortSweep, Restart, Tick, vars, disk
<1>7. CASE DeleteExpired
  BY <1>7 DEF DeleteExpired, DeleteRecord
<1> QED
  BY <1>1, <1>2, <1>3, <1>4, <1>5, <1>6, <1>7 DEF Next, SweepStep

(* History only grows and time only passes.                                *)
LEMMA Monotone ==
    ASSUME TypeOK, [Next]_vars
    PROVE  /\ generated \subseteq generated' /\ lapsed \subseteq lapsed'
           /\ withdrawn \subseteq withdrawn' /\ revived \subseteq revived' /\ now <= now'
<1>1. CASE \E b \in Blobs : Reserve(b)
  BY <1>1 DEF Reserve, TypeOK
<1>2. CASE \E x \in reserving : SaveReservation(x) \/ FailReservation(x)
  BY <1>2 DEF SaveReservation, FailReservation, Save, history, TypeOK
<1>3. CASE \E u \in Uploads : \/ \E b \in Blobs : AdmitUpload(u, b)
                              \/ OpenPart(u)
                              \/ \E exact \in BOOLEAN : SourceEnds(u, exact)
                              \/ RenamePart(u) \/ AbandonPart(u) \/ FailStream(u) \/ FailUpload(u)
  BY <1>3 DEF AdmitUpload, OpenPart, SourceEnds, RenamePart, AbandonPart, FailStream,
     FailUpload, history, TypeOK
<1>4. CASE \E u \in Uploads : CompleteUpload(u)
  BY <1>4 DEF CompleteUpload, Resave, Save, TypeOK
<1>5. CASE \E r \in Removals : \/ \E b \in Blobs : AdmitRemoval(r, b)
                               \/ RemovalStep(r) \/ FailRemoval(r)
  BY <1>5 DEF AdmitRemoval, RemovalStep, FailRemoval, history, TypeOK
<1>6. CASE \/ StartSweep \/ FindExpired \/ DeletePart \/ DeleteExpired \/ ListIds
           \/ FindOrphans \/ EndSweep \/ SkipInSweep \/ AbortSweep
  BY <1>6 DEF StartSweep, FindExpired, DeletePart, DeleteExpired, ListIds, FindOrphans,
     EndSweep, SkipInSweep, AbortSweep, Unswept, history, TypeOK
<1>7. CASE \E b \in Blobs : Align(b) \/ DeleteBytes(b) \/ LookUp(b)
  BY <1>7 DEF Align, Resave, Save, DeleteBytes, LookUp, Unswept, history, TypeOK
<1>8. CASE Restart \/ Tick \/ UNCHANGED vars
  BY <1>8 DEF Restart, Tick, vars, history, TypeOK
<1> QED
  BY <1>1, <1>2, <1>3, <1>4, <1>5, <1>6, <1>7, <1>8 DEF Next, SweepStep

-----------------------------------------------------------------------------
(* Reservations and promises change in three actions and at a restart.     *)

LEMMA EstablishedCases ==
    ASSUME TypeOK, [Next]_vars
    PROVE  \/ \E b \in Blobs : Reserve(b)
           \/ \E x \in reserving : SaveReservation(x)
           \/ \E u \in Uploads : CompleteUpload(u)
           \/ UNCHANGED <<promise, generated>> /\ reserving' \subseteq reserving
<1>1. CASE \E u \in Uploads : \/ \E b \in Blobs : AdmitUpload(u, b)
                              \/ OpenPart(u)
                              \/ \E exact \in BOOLEAN : SourceEnds(u, exact)
                              \/ RenamePart(u) \/ AbandonPart(u) \/ FailStream(u) \/ FailUpload(u)
  BY <1>1 DEF AdmitUpload, OpenPart, SourceEnds, RenamePart, AbandonPart, FailStream,
     FailUpload, history
<1>2. CASE \E r \in Removals : \/ \E b \in Blobs : AdmitRemoval(r, b)
                               \/ RemovalStep(r) \/ FailRemoval(r)
  BY <1>2 DEF AdmitRemoval, RemovalStep, FailRemoval, history
<1>3. CASE SweepStep \/ SkipInSweep \/ AbortSweep
  BY <1>3 DEF SweepStep, StartSweep, FindExpired, DeletePart, DeleteExpired, ListIds,
     FindOrphans, EndSweep, SkipInSweep, AbortSweep, Align, DeleteBytes, LookUp, Unswept, history
<1>4. CASE Restart \/ Tick \/ UNCHANGED vars
  BY <1>4 DEF Restart, Tick, vars, process, history
<1>5. CASE \E x \in reserving : FailReservation(x)
  BY <1>5 DEF FailReservation, history
<1> QED
  BY <1>1, <1>2, <1>3, <1>4, <1>5 DEF Next

LEMMA StepFresh ==
    ASSUME TypeOK, OneWriter, Fresh, Copies, [Next]_vars
    PROVE  Fresh'
<1>1. \A b \in Blobs : Established(b) => Established(b)'
  <2>1. CASE \E x \in reserving : SaveReservation(x)
    BY <2>1 DEF SaveReservation, Established
  <2>2. CASE \E u \in Uploads : CompleteUpload(u)
    BY <2>2 DEF CompleteUpload, Established
  <2>3. CASE \E b \in Blobs : Reserve(b)
    BY <2>3 DEF Reserve, Established
  <2> QED
    BY <2>1, <2>2, <2>3, EstablishedCases DEF Established
<1>2. /\ \A x, y \in reserving' : x = y
      /\ \A x \in reserving' : x.record.status = "reserved" /\ x.blob \in generated'
  <2>1. CASE \E x \in reserving : SaveReservation(x)
    BY <2>1 DEF SaveReservation, Fresh
  <2>2. CASE \E u \in Uploads : CompleteUpload(u)
    BY <2>2 DEF CompleteUpload, Fresh
  <2>3. CASE \E b \in Blobs : Reserve(b)
    BY <2>3 DEF Reserve, QueueIsFree, Fresh
  <2> QED
    BY <2>1, <2>2, <2>3, EstablishedCases DEF Fresh
<1>3. \A b \in Blobs : promise'[b].stored => Established(b)'
  <2>1. CASE UNCHANGED promise
    BY <1>1, <2>1 DEF Fresh
  <2>2. ASSUME NEW u \in Uploads, CompleteUpload(u)
        PROVE  \A b \in Blobs : promise'[b].stored => Established(b)'
    <3>1. u \in Active
      BY <2>2, Ending
    <3>2. \A b \in Blobs : promise'[b].stored => promise[b].stored \/ b = uploads[u].blob
      BY <2>2 DEF CompleteUpload, TypeOK
    <3> QED
      BY <1>1, <3>1, <3>2 DEF Fresh, KnownToUploads
  <2>3. CASE \E b \in Blobs : Reserve(b)
    BY <2>1, <2>3 DEF Reserve
  <2>4. CASE \E x \in reserving : SaveReservation(x)
    BY <2>1, <2>4 DEF SaveReservation
  <2> QED
    BY <2>1, <2>2, <2>3, <2>4, EstablishedCases
<1>4. \A b \in Blobs : Recorded(b)' => Established(b)'
  <2>1. CASE UNCHANGED records
    BY <1>1, <2>1 DEF Fresh, Recorded
  <2>2. ASSUME NEW x \in reserving, SaveReservation(x)
        PROVE  \A b \in Blobs : Recorded(b)' => Established(b)'
    <3>1. /\ reserving' = {} /\ generated' = generated
          /\ \A b \in Blobs : Recorded(b)' => Recorded(b) \/ b = x.blob
      BY <2>2 DEF SaveReservation, Save, Fresh, Recorded, TypeOK
    <3> QED
      BY <3>1 DEF Fresh, Established
  <2>3. ASSUME NEW u \in Uploads, CompleteUpload(u)
        PROVE  \A b \in Blobs : Recorded(b)' => Established(b)'
    <3>1. u \in Active
      BY <2>3, Ending
    <3>2. \A b \in Blobs : Recorded(b)' => Recorded(b) \/ b = uploads[u].blob
      BY <2>3 DEF CompleteUpload, Resave, Save, Recorded, TypeOK
    <3> QED
      BY <1>1, <3>1, <3>2 DEF Fresh, KnownToUploads
  <2>4. ASSUME NEW c \in Blobs, Align(c)
        PROVE  \A b \in Blobs : Recorded(b)' => Established(b)'
    <3>1. promise[c].stored
      BY <2>4 DEF Align, Copies, CopiesKept, Kept
    <3>2. \A b \in Blobs : Recorded(b)' => Recorded(b) \/ b = c
      BY <2>4 DEF Align, Resave, Save, Recorded, TypeOK
    <3> QED
      BY <1>1, <3>1, <3>2 DEF Fresh
  <2>5. ASSUME NEW c, records' = [records EXCEPT ![c] = Absent]
        PROVE  \A b \in Blobs : Recorded(b)' => Established(b)'
    <3>1. \A b \in Blobs : Recorded(b)' => Recorded(b)
      BY <2>5 DEF Recorded, Absent, TypeOK
    <3> QED
      BY <1>1, <3>1 DEF Fresh
  <2> QED
    BY <2>1, <2>2, <2>3, <2>4, <2>5, RecordCases
<1>5. KnownToUploads'
  <2>1. \A u \in Active : uploads[u].blob \in Blobs /\ Established(uploads[u].blob)
    BY ActiveType DEF Fresh, KnownToUploads, Active
  <2>2. CASE UploadsRest
    <3>1. Active' = Active /\ uploads' = uploads
      BY <2>2 DEF UploadsRest, Active
    <3> QED
      BY <1>1, <2>1, <3>1 DEF KnownToUploads
  <2>3. ASSUME NEW u \in Uploads, NEW b \in Blobs, AdmitUpload(u, b) PROVE KnownToUploads'
    <3>1. Established(b)
      BY <2>3 DEF AdmitUpload, UploadIsAdmitted, Live, Fresh
    <3>2. uploads' = [uploads EXCEPT ![u] = [step |-> "admitted", blob |-> b,
                                             copy |-> records[b]]]
      BY <2>3 DEF AdmitUpload
    <3>3. uploads'[u].blob = b /\ \A v \in Uploads : v # u => uploads'[v] = uploads[v]
      BY <3>2 DEF TypeOK
    <3>4. \A v \in Active' : v # u => v \in Active /\ uploads'[v] = uploads[v]
      <4>1. ASSUME NEW v \in Active', v # u PROVE v \in Active /\ uploads'[v] = uploads[v]
        BY <3>3, <4>1 DEF Active
      <4> QED
        BY <4>1
    <3> QED
      BY <1>1, <2>1, <3>1, <3>3, <3>4 DEF KnownToUploads
  <2>4. ASSUME NEW u \in Active, NEW step \in {"streaming", "streamed", "renamed", "failed"},
               Advance(u, step)
        PROVE  KnownToUploads'
    <3>1. Active' = Active /\ \A v \in Active : uploads'[v].blob = uploads[v].blob
      BY <2>4, Advancing
    <3> QED
      BY <1>1, <2>1, <3>1 DEF KnownToUploads
  <2>5. ASSUME NEW u \in Active, Release(u) PROVE KnownToUploads'
    <3>1. Active' = Active \ {u} /\ \A v \in Active' : uploads'[v] = uploads[v]
      BY <2>5, Releasing DEF Active
    <3> QED
      BY <1>1, <2>1, <3>1 DEF KnownToUploads
  <2>6. CASE uploads' = [u \in Uploads |-> Idle]
    BY <2>6 DEF KnownToUploads, Active, Idle
  <2> QED
    BY <2>2, <2>3, <2>4, <2>5, <2>6, UploadCases
<1> QED
  BY <1>2, <1>3, <1>4, <1>5 DEF Fresh

LEMMA StepDeadlines ==
    ASSUME TypeOK, Deadlines, [Next]_vars
    PROVE  Deadlines'
<1>1. sweep'.at <= now'
  <2>0. now \in Nat /\ now' \in Nat /\ now <= now' /\ sweep.at \in Nat /\ sweep.at <= now
    BY StepType, Monotone DEF TypeOK, SweepState, Deadlines
  <2>1. CASE UNCHANGED sweep
    BY <2>0, <2>1
  <2>2. CASE StartSweep
    BY <2>2 DEF StartSweep, Unswept, TypeOK
  <2>3. ASSUME NEW step, NEW todo, sweep' = Phase(step, todo) PROVE sweep'.at <= now'
    BY <2>0, <2>3 DEF Phase
  <2>4. ASSUME sweep'.at = sweep.at PROVE sweep'.at <= now'
    BY <2>0, <2>4
  <2>5. CASE FindExpired \/ ListIds \/ FindOrphans \/ EndSweep \/ AbortSweep \/ Restart
    BY <2>3, <2>5 DEF FindExpired, ListIds, FindOrphans, EndSweep, AbortSweep, Restart, Resting
  <2>6. CASE SkipInSweep \/ \E b \in Blobs : Align(b) \/ DeleteBytes(b) \/ LookUp(b)
    <3>1. sweep'.at = sweep.at
      BY <2>6 DEF SkipInSweep, Align, DeleteBytes, LookUp, TypeOK, SweepState
    <3> QED
      BY <2>4, <3>1
  <2>7. CASE DeletePart \/ DeleteExpired \/ Tick \/ UNCHANGED vars
    BY <2>1, <2>7 DEF DeletePart, DeleteExpired, Tick, vars, process
  <2>8. CASE \E u \in Uploads : \/ \E b \in Blobs : AdmitUpload(u, b)
                                \/ OpenPart(u)
                                \/ \E exact \in BOOLEAN : SourceEnds(u, exact)
                                \/ RenamePart(u) \/ AbandonPart(u) \/ FailStream(u) \/ FailUpload(u)
                                \/ CompleteUpload(u)
    BY <2>1, <2>8 DEF AdmitUpload, OpenPart, SourceEnds, RenamePart, AbandonPart,
       FailStream, FailUpload, CompleteUpload
  <2>9. CASE \/ \E b \in Blobs : Reserve(b)
             \/ \E x \in reserving : SaveReservation(x) \/ FailReservation(x)
             \/ \E r \in Removals : \/ \E b \in Blobs : AdmitRemoval(r, b)
                                    \/ RemovalStep(r) \/ FailRemoval(r)
    BY <2>1, <2>9 DEF Reserve, SaveReservation, FailReservation, AdmitRemoval, RemovalStep,
       FailRemoval
  <2> QED
    BY <2>2, <2>5, <2>6, <2>7, <2>8, <2>9 DEF Next, SweepStep
<1>2. \A b \in Blobs : Recorded(b)' /\ IsExpired(records'[b], now') => b \in lapsed'
  <2>1. CASE Tick
    BY <2>1 DEF Tick, disk, Recorded
  <2>2. ASSUME now' = now, NEW c, NEW record, Save(c, record)
        PROVE  \A b \in Blobs : Recorded(b)' /\ IsExpired(records'[b], now') => b \in lapsed'
    <3>1. \A b \in Blobs : b # c => records'[b] = records[b]
      BY <2>2 DEF Save, TypeOK
    <3>2. c \in Blobs => records'[c] = record
      BY <2>2 DEF Save, TypeOK
    <3>3. IsExpired(record, now) => c \in lapsed'
      BY <2>2 DEF Save
    <3> QED
      BY <2>2, <3>1, <3>2, <3>3, Monotone DEF Deadlines, Recorded
  <2>3. ASSUME now' = now, UNCHANGED records
        PROVE  \A b \in Blobs : Recorded(b)' /\ IsExpired(records'[b], now') => b \in lapsed'
    BY <2>3, Monotone DEF Deadlines, Recorded
  <2>4. ASSUME now' = now, NEW c, records' = [records EXCEPT ![c] = Absent]
        PROVE  \A b \in Blobs : Recorded(b)' /\ IsExpired(records'[b], now') => b \in lapsed'
    <3>1. \A b \in Blobs : Recorded(b)' => records'[b] = records[b] /\ Recorded(b)
      BY <2>4 DEF Recorded, Absent, TypeOK
    <3> QED
      BY <2>4, <3>1, Monotone DEF Deadlines
  <2>5. ~Tick => now' = now
    BY DEF Next, SweepStep, Reserve, SaveReservation, FailReservation, AdmitUpload,
       OpenPart, SourceEnds, RenamePart, AbandonPart, CompleteUpload, FailStream, FailUpload,
       AdmitRemoval, RemovalStep, FailRemoval, StartSweep, FindExpired, DeletePart,
       DeleteExpired, ListIds, FindOrphans, EndSweep, Align, DeleteBytes, LookUp, SkipInSweep, AbortSweep, Restart, Unswept, vars
  <2>6. (\E x \in reserving : SaveReservation(x)) => \E c, record : Save(c, record)
    BY DEF SaveReservation
  <2>7. (\E u \in Uploads : CompleteUpload(u)) => \E c, record : Save(c, record)
    BY DEF CompleteUpload, Resave
  <2>8. (\E b \in Blobs : Align(b)) => \E c, record : Save(c, record)
    BY DEF Align, Resave
  <2> QED
    BY <2>1, <2>2, <2>3, <2>4, <2>5, <2>6, <2>7, <2>8, RecordCases
<1> QED
  BY <1>1, <1>2 DEF Deadlines

-----------------------------------------------------------------------------
(* How the sweep moves: it starts, goes to its next phase, looks a file    *)
(* up, ends, or takes a blob off its list.                                 *)

LEMMA SweepCases ==
    ASSUME TypeOK, [Next]_vars
    PROVE  \/ StartSweep \/ FindExpired \/ ListIds \/ FindOrphans
           \/ \E b \in Blobs : LookUp(b)
           \/ sweep' = Resting
           \/ /\ sweep'.step = sweep.step /\ sweep'.todo \subseteq sweep.todo
              /\ sweep'.copies = sweep.copies /\ sweep'.orphans = sweep.orphans
<1>1. CASE UNCHANGED sweep
  BY <1>1
<1>2. CASE EndSweep \/ AbortSweep \/ Restart
  BY <1>2 DEF EndSweep, AbortSweep, Restart
<1>3. CASE SkipInSweep \/ \E b \in Blobs : Align(b) \/ DeleteBytes(b)
  <2>1. \/ UNCHANGED sweep
        \/ \E b \in Blobs : sweep' = [sweep EXCEPT !.todo = @ \ {b}]
    BY <1>3 DEF SkipInSweep, Align, DeleteBytes, TypeOK, SweepState
  <2> QED
    BY <2>1 DEF TypeOK, SweepState
<1>4. CASE DeletePart \/ DeleteExpired \/ Tick \/ UNCHANGED vars
  BY <1>1, <1>4 DEF DeletePart, DeleteExpired, Tick, vars, process
<1>5. CASE \E u \in Uploads : \/ \E b \in Blobs : AdmitUpload(u, b)
                              \/ OpenPart(u)
                              \/ \E exact \in BOOLEAN : SourceEnds(u, exact)
                              \/ RenamePart(u) \/ AbandonPart(u) \/ FailStream(u) \/ FailUpload(u)
                              \/ CompleteUpload(u)
  BY <1>1, <1>5 DEF AdmitUpload, OpenPart, SourceEnds, RenamePart, AbandonPart, FailStream,
     FailUpload, CompleteUpload
<1>6. CASE \/ \E b \in Blobs : Reserve(b)
           \/ \E x \in reserving : SaveReservation(x) \/ FailReservation(x)
           \/ \E r \in Removals : \/ \E b \in Blobs : AdmitRemoval(r, b)
                                  \/ RemovalStep(r) \/ FailRemoval(r)
  BY <1>1, <1>6 DEF Reserve, SaveReservation, FailReservation, AdmitRemoval, RemovalStep,
     FailRemoval
<1> QED
  BY <1>2, <1>3, <1>4, <1>5, <1>6 DEF Next, SweepStep

(* A sweep that aligns has just started or was aligning, with its copies.  *)
LEMMA AlignCases ==
    ASSUME TypeOK, [Next]_vars, Sweeping("align")'
    PROVE  \/ StartSweep
           \/ /\ Sweeping("align") /\ sweep'.todo \subseteq sweep.todo
              /\ sweep'.copies = sweep.copies
<1>1. ~(FindExpired \/ ListIds \/ FindOrphans)
  BY DEF FindExpired, ListIds, FindOrphans, Phase, Sweeping
<1>2. sweep' # Resting
  BY DEF Resting, Phase, Sweeping
<1>3. ASSUME NEW b \in Blobs, LookUp(b) PROVE FALSE
  BY <1>3 DEF LookUp, Sweeping, TypeOK, SweepState
<1> QED
  BY <1>1, <1>2, <1>3, SweepCases DEF Sweeping

LEMMA PromiseCases ==
    ASSUME TypeOK, [Next]_vars
    PROVE  UNCHANGED promise \/ \E u \in Uploads : CompleteUpload(u)
BY EstablishedCases DEF Reserve, SaveReservation

(* What an upload leaves when it completes.                                *)
LEMMA Completing ==
    ASSUME TypeOK, OneWriter, Copies, NEW u \in Uploads, CompleteUpload(u)
    PROVE  LET b == uploads[u].blob IN
           /\ b \in Blobs /\ u \in Active /\ Release(u)
           /\ \A v \in Active : v # u => uploads[v].blob # b
           /\ ~promise[b].stored
           /\ \A c \in Blobs : c # b => promise'[c] = promise[c] /\ records'[c] = records[c]
           /\ records'[b] = MarkStored(uploads[u].copy, now)
           /\ records'[b].status = "stored"
           /\ Kept(promise'[b], records'[b])
           /\ UNCHANGED <<files, parts, sweep, deleting, removals, now, withdrawn>>
<1>1. u \in Active /\ Release(u) /\ uploads[u].blob \in Blobs /\ uploads[u].copy \in Record
  BY Ending, ActiveType DEF Active
<1>2. /\ \A v \in Active : v # u => uploads[v].blob # uploads[u].blob
      /\ ~promise[uploads[u].blob].stored
  BY <1>1 DEF OneWriter, Copies, OpenUploads
<1> DEFINE b == uploads[u].blob
           stored == MarkStored(uploads[u].copy, now)
<1>3. /\ records' = [records EXCEPT ![b] = stored]
      /\ promise' = [promise EXCEPT ![b] = [stored |-> TRUE, at |-> now,
                                            retention |-> stored.retention]]
      /\ UNCHANGED <<files, parts, sweep, deleting, removals, now, withdrawn>>
  BY DEF CompleteUpload, Resave, Save
<1>4. /\ stored.status = "stored" /\ stored.retention \in Nat
      /\ stored.expiresAt = now + stored.retention
  BY <1>1 DEF MarkStored, Record
<1> HIDE DEF stored
<1>5. /\ \A c \in Blobs : c # b => promise'[c] = promise[c] /\ records'[c] = records[c]
      /\ records'[b] = stored
      /\ promise'[b] = [stored |-> TRUE, at |-> now, retention |-> stored.retention]
  BY <1>1, <1>3 DEF TypeOK
<1>6. Kept(promise'[b], records'[b])
  BY <1>4, <1>5 DEF Kept
<1> QED
  BY <1>1, <1>2, <1>3, <1>4, <1>5, <1>6 DEF stored

LEMMA StepCopies ==
    ASSUME TypeOK, OneWriter, Fresh, Copies, [Next]_vars
    PROVE  Copies'
<1> DEFINE Completes == \E u \in Uploads : CompleteUpload(u)
<1>1. Completes \/ UNCHANGED promise
  BY PromiseCases
<1>2. \A u \in Active : /\ uploads[u].blob \in Blobs /\ ~promise[uploads[u].blob].stored
                        /\ uploads[u].copy.status = "reserved"
  BY ActiveType DEF Active, Copies, OpenUploads
<1>3. OpenUploads'
  <2>1. CASE UNCHANGED promise /\ UploadsRest
    BY <1>2, <2>1 DEF UploadsRest, OpenUploads, Active
  <2>2. ASSUME UNCHANGED promise, NEW u \in Uploads, NEW b \in Blobs, AdmitUpload(u, b)
        PROVE  OpenUploads'
    <3>1. records[b].status = "reserved"
      BY <2>2 DEF AdmitUpload, UploadIsAdmitted, Live, Recorded, TypeOK, Record
    <3>2. ~promise[b].stored
      <4>1. CASE promise[b].stored
        BY <3>1, <4>1 DEF Copies, StoreTimeKept, Closed
      <4> QED
        BY <4>1
    <3>3. uploads' = [uploads EXCEPT ![u] = [step |-> "admitted", blob |-> b,
                                             copy |-> records[b]]]
      BY <2>2 DEF AdmitUpload
    <3>4. /\ uploads'[u].blob = b /\ uploads'[u].copy = records[b]
          /\ \A v \in Uploads : v # u => uploads'[v] = uploads[v]
      BY <3>3 DEF TypeOK
    <3>5. ASSUME NEW v \in Active', v # u PROVE v \in Active /\ uploads'[v] = uploads[v]
      BY <3>4, <3>5 DEF Active
    <3> QED
      BY <1>2, <2>2, <3>1, <3>2, <3>4, <3>5 DEF OpenUploads
  <2>3. ASSUME UNCHANGED promise, NEW u \in Active,
               NEW step \in {"streaming", "streamed", "renamed", "failed"}, Advance(u, step)
        PROVE  OpenUploads'
    <3>1. Active' = Active /\ \A v \in Active : /\ uploads'[v].blob = uploads[v].blob
                                                /\ uploads'[v].copy = uploads[v].copy
      BY <2>3, Advancing
    <3> QED
      BY <1>2, <2>3, <3>1 DEF OpenUploads
  <2>4. ASSUME UNCHANGED promise, NEW u \in Active, Release(u) PROVE OpenUploads'
    <3>1. Active' = Active \ {u} /\ \A v \in Active' : uploads'[v] = uploads[v]
      BY <2>4, Releasing DEF Active
    <3> QED
      BY <1>2, <2>4, <3>1 DEF OpenUploads
  <2>5. CASE uploads' = [u \in Uploads |-> Idle]
    BY <2>5 DEF OpenUploads, Active, Idle
  <2>6. ASSUME NEW u \in Uploads, CompleteUpload(u) PROVE OpenUploads'
    <3>1. /\ u \in Active /\ Release(u)
          /\ \A v \in Active : v # u => uploads[v].blob # uploads[u].blob
          /\ \A c \in Blobs : c # uploads[u].blob => promise'[c] = promise[c]
      BY <2>6, Completing
    <3>2. Active' = Active \ {u} /\ \A v \in Active' : uploads'[v] = uploads[v]
      BY <3>1, Releasing DEF Active
    <3> QED
      BY <1>2, <3>1, <3>2 DEF OpenUploads
  <2> QED
    BY <1>1, <2>1, <2>2, <2>3, <2>4, <2>5, <2>6, UploadCases
<1>4. Closed' /\ StoreTimeKept'
  <2>1. ASSUME NEW u \in Uploads, CompleteUpload(u) PROVE Closed' /\ StoreTimeKept'
    <3>1. LET b == uploads[u].blob IN
          /\ b \in Blobs
          /\ \A c \in Blobs : c # b => promise'[c] = promise[c] /\ records'[c] = records[c]
          /\ records'[b].status = "stored"
          /\ Kept(promise'[b], records'[b])
      BY <2>1, Completing
    <3> QED
      BY <3>1 DEF Copies, Closed, StoreTimeKept
  <2>2. CASE UNCHANGED <<promise, records>>
    BY <2>2 DEF Copies, Closed, StoreTimeKept
  <2>3. ASSUME UNCHANGED promise, NEW x \in reserving, SaveReservation(x)
        PROVE  Closed' /\ StoreTimeKept'
    <3>1. x.blob \in Blobs /\ ~promise[x.blob].stored
      BY DEF Fresh, Established, TypeOK
    <3>2. records' = [records EXCEPT ![x.blob] = x.record] /\ x.record.status = "reserved"
      BY <2>3 DEF SaveReservation, Save, Fresh
    <3>3. /\ \A c \in Blobs : c # x.blob => records'[c] = records[c]
          /\ records'[x.blob].status = "reserved"
      BY <3>1, <3>2 DEF TypeOK
    <3> QED
      BY <2>3, <3>1, <3>3 DEF Copies, Closed, StoreTimeKept
  <2>4. ASSUME UNCHANGED promise, NEW b \in Blobs, Align(b)
        PROVE  Closed' /\ StoreTimeKept'
    <3> DEFINE copy == sweep.copies[b]
    <3>1. /\ copy.status = "stored" /\ Kept(promise[b], copy) /\ copy \in Record
          /\ Retention \in Nat /\ promise[b].at \in Nat /\ promise[b].retention \in Nat
      BY <2>4, RetentionType DEF Align, Copies, CopiesKept, TypeOK, SweepState
    <3>2. records' = [records EXCEPT ![b] = Extended(copy, Retention)]
      BY <2>4 DEF Align, Resave, Save
    <3> HIDE DEF copy
    <3>3. /\ Extended(copy, Retention).status = "stored"
          /\ Kept(promise[b], Extended(copy, Retention))
      BY <3>1 DEF Extended, IsStoredBelow, Kept, Record
    <3>4. /\ \A c \in Blobs : c # b => records'[c] = records[c]
          /\ records'[b] = Extended(copy, Retention)
      BY <3>2 DEF TypeOK
    <3> QED
      BY <2>4, <3>3, <3>4 DEF Copies, Closed, StoreTimeKept
  <2>5. ASSUME UNCHANGED promise, NEW c, records' = [records EXCEPT ![c] = Absent]
        PROVE  Closed' /\ StoreTimeKept'
    <3>1. \A b \in Blobs : records'[b] = records[b] \/ records'[b].status = "none"
      BY <2>5 DEF Absent, TypeOK
    <3> QED
      BY <2>5, <3>1 DEF Copies, Closed, StoreTimeKept
  <2> QED
    BY <1>1, <2>1, <2>2, <2>3, <2>4, <2>5, RecordCases
<1>5. CopiesKept'
  <2> SUFFICES ASSUME Sweeping("align")'
               PROVE  \A b \in sweep'.todo : /\ sweep'.copies[b].status = "stored"
                                             /\ Kept(promise'[b], sweep'.copies[b])
    BY DEF CopiesKept
  <2>1. CASE StartSweep
    <3>1. /\ UNCHANGED promise
          /\ \A b \in sweep'.todo : /\ b \in Blobs /\ records[b].status = "stored"
                                    /\ sweep'.copies[b] = records[b]
      BY <2>1 DEF StartSweep, Unswept, history, IsStoredBelow
    <3> QED
      BY <3>1 DEF Copies, StoreTimeKept
  <2>2. CASE /\ Sweeping("align") /\ sweep'.todo \subseteq sweep.todo
             /\ sweep'.copies = sweep.copies
    <3>1. \A b \in sweep.todo : b \in Blobs /\ promise[b].stored
      BY <2>2 DEF Copies, CopiesKept, Kept, TypeOK, SweepState
    <3>2. \A b \in sweep.todo : promise'[b] = promise[b]
      <4>1. CASE UNCHANGED promise
        BY <4>1
      <4>2. ASSUME NEW u \in Uploads, CompleteUpload(u)
            PROVE  \A b \in sweep.todo : promise'[b] = promise[b]
        BY <3>1, <4>2, Completing
      <4> QED
        BY <1>1, <4>1, <4>2
    <3> QED
      BY <2>2, <3>2 DEF Copies, CopiesKept
  <2> QED
    BY <2>1, <2>2, AlignCases
<1> QED
  BY <1>3, <1>4, <1>5 DEF Copies

-----------------------------------------------------------------------------
(* A timely blob keeps its record, and stays stored.                       *)

LEMMA TimelyStays ==
    ASSUME TypeOK, [Next]_vars, NEW b \in Blobs, Timely(b)'
    PROVE  Timely(b)
BY Monotone DEF Timely

LEMMA RecordsStay ==
    ASSUME TypeOK, OneWriter, Fresh, Copies, Spared, [Next]_vars, NEW b \in Blobs, Timely(b)'
    PROVE  /\ Recorded(b) => Recorded(b)'
           /\ records[b].status = "stored" => records'[b].status = "stored"
<1>1. Timely(b)
  BY TimelyStays
<1>2. CASE UNCHANGED records
  BY <1>2 DEF Recorded
<1>3. ASSUME NEW x \in reserving, SaveReservation(x)
      PROVE  /\ Recorded(b) => Recorded(b)'
             /\ records[b].status = "stored" => records'[b].status = "stored"
  <2>1. Recorded(b) => b # x.blob
    BY DEF Fresh, Established
  <2>2. b # x.blob => records'[b] = records[b]
    BY <1>3 DEF SaveReservation, Save, TypeOK
  <2> QED
    BY <2>1, <2>2 DEF Recorded
<1>4. ASSUME NEW u \in Uploads, CompleteUpload(u)
      PROVE  /\ Recorded(b) => Recorded(b)'
             /\ records[b].status = "stored" => records'[b].status = "stored"
  BY <1>4, Completing DEF Recorded
<1>5. ASSUME NEW c \in Blobs, Align(c)
      PROVE  /\ Recorded(b) => Recorded(b)'
             /\ records[b].status = "stored" => records'[b].status = "stored"
  <2>1. Extended(sweep.copies[c], Retention).status = "stored"
    BY <1>5 DEF Align, Copies, CopiesKept, Extended
  <2>2. records'[b] = IF b = c THEN Extended(sweep.copies[c], Retention) ELSE records[b]
    BY <1>5 DEF Align, Resave, Save, TypeOK
  <2> QED
    BY <2>1, <2>2 DEF Recorded
<1>6. ASSUME NEW r \in Removals, removals[r].step = "record",
             records' = [records EXCEPT ![removals[r].blob] = Absent]
      PROVE  records'[b] = records[b]
  BY <1>1, <1>6 DEF Spared, SparedByRemovals, TypeOK
<1>7. ASSUME DeleteExpired, records' = [records EXCEPT ![deleting.blob] = Absent]
      PROVE  records'[b] = records[b]
  BY <1>1, <1>7 DEF DeleteExpired, Spared, SparedByDeletions, TypeOK
<1> QED
  BY <1>2, <1>3, <1>4, <1>5, <1>6, <1>7, RecordCases DEF Recorded

LEMMA StepSparedByRemovals ==
    ASSUME TypeOK, Spared, [Next]_vars
    PROVE  SparedByRemovals'
<1> DEFINE Kin == \A r \in Removals : removals'[r].step # "idle" =>
                      removals[r].step # "idle" /\ removals'[r].blob = removals[r].blob
<1>1. ASSUME Kin PROVE SparedByRemovals'
  BY <1>1, Monotone DEF Spared, SparedByRemovals, Timely
<1>2. CASE UNCHANGED removals
  BY <1>1, <1>2
<1>3. ASSUME NEW r \in Removals, NEW b \in Blobs, AdmitRemoval(r, b) PROVE SparedByRemovals'
  <2>1. /\ removals' = [removals EXCEPT ![r] = [step |-> "blob", blob |-> b]]
        /\ b \in withdrawn'
    BY <1>3 DEF AdmitRemoval
  <2>2. /\ removals'[r].blob = b
        /\ \A q \in Removals : q # r => removals'[q] = removals[q]
    BY <2>1 DEF TypeOK
  <2> QED
    BY <2>1, <2>2, Monotone DEF Spared, SparedByRemovals, Timely
<1>4. ASSUME NEW r \in Removals, RemovalStep(r) PROVE Kin
  <2>1. removals[r] \in [step : {"blob", "part", "record"}, blob : Blobs]
    BY <1>4 DEF RemovalStep, TypeOK, RemovalState, Idle
  <2>2. \/ removals' = [removals EXCEPT ![r] = Idle]
        \/ \E step \in {"part", "record"} : removals' = [removals EXCEPT ![r].step = step]
    BY <1>4 DEF RemovalStep
  <2>3. \A q \in Removals : q # r => removals'[q] = removals[q]
    BY <2>2 DEF TypeOK
  <2>4. removals'[r].step = "idle" \/ removals'[r].blob = removals[r].blob
    BY <2>1, <2>2 DEF TypeOK, Idle
  <2> QED
    BY <2>1, <2>3, <2>4
<1>5. ASSUME NEW r \in Removals, FailRemoval(r) PROVE Kin
  BY <1>5 DEF FailRemoval, TypeOK, Idle
<1>6. CASE Restart
  BY <1>6 DEF Restart, SparedByRemovals, Idle
<1>7. CASE SweepStep \/ SkipInSweep \/ AbortSweep \/ Tick \/ UNCHANGED vars
  BY <1>2, <1>7 DEF SweepStep, StartSweep, FindExpired, DeletePart, DeleteExpired, ListIds,
     FindOrphans, EndSweep, SkipInSweep, AbortSweep, Align, DeleteBytes, LookUp, Unswept,
     Tick, vars, process
<1>8. CASE \E u \in Uploads : \/ \E b \in Blobs : AdmitUpload(u, b)
                              \/ OpenPart(u)
                              \/ \E exact \in BOOLEAN : SourceEnds(u, exact)
                              \/ RenamePart(u) \/ AbandonPart(u) \/ FailStream(u) \/ FailUpload(u)
                              \/ CompleteUpload(u)
  BY <1>2, <1>8 DEF AdmitUpload, OpenPart, SourceEnds, RenamePart, AbandonPart, FailStream,
     FailUpload, CompleteUpload
<1>9. CASE \/ \E b \in Blobs : Reserve(b)
           \/ \E x \in reserving : SaveReservation(x) \/ FailReservation(x)
  BY <1>2, <1>9 DEF Reserve, SaveReservation, FailReservation
<1> QED
  BY <1>1, <1>3, <1>4, <1>5, <1>6, <1>7, <1>8, <1>9 DEF Next

LEMMA StepSparedByDeletions ==
    ASSUME TypeOK, Spared, [Next]_vars
    PROVE  SparedByDeletions'
<1>1. CASE UNCHANGED deleting
  BY <1>1, Monotone DEF Spared, SparedByDeletions, Timely
<1>2. CASE deleting' = Idle
  BY <1>2 DEF SparedByDeletions, Idle
<1>3. ASSUME NEW b \in Blobs, DeleteBytes(b) PROVE SparedByDeletions'
  BY <1>3, Monotone DEF DeleteBytes, Sweeping, Spared, SparedByLists, SparedByDeletions, Timely
<1>4. CASE DeletePart
  <2>1. deleting \in [step : {"part", "record"}, blob : Blobs]
    BY <1>4 DEF DeletePart, TypeOK, DeletionState, Idle
  <2>2. deleting' = Idle \/ deleting'.blob = deleting.blob
    BY <1>4, <2>1 DEF DeletePart
  <2> QED
    BY <1>2, <2>1, <2>2, Monotone DEF Spared, SparedByDeletions, Timely
<1>5. CASE DeleteExpired \/ SkipInSweep \/ Restart
  BY <1>1, <1>2, <1>5 DEF DeleteExpired, SkipInSweep, Restart
<1>6. CASE \/ StartSweep \/ FindExpired \/ ListIds \/ FindOrphans \/ EndSweep \/ AbortSweep
           \/ \E b \in Blobs : Align(b) \/ LookUp(b)
  BY <1>1, <1>6 DEF StartSweep, FindExpired, ListIds, FindOrphans, EndSweep, AbortSweep, Align,
     LookUp
<1>7. CASE \E u \in Uploads : \/ \E b \in Blobs : AdmitUpload(u, b)
                              \/ OpenPart(u)
                              \/ \E exact \in BOOLEAN : SourceEnds(u, exact)
                              \/ RenamePart(u) \/ AbandonPart(u) \/ FailStream(u) \/ FailUpload(u)
                              \/ CompleteUpload(u)
  BY <1>1, <1>7 DEF AdmitUpload, OpenPart, SourceEnds, RenamePart, AbandonPart, FailStream,
     FailUpload, CompleteUpload
<1>8. CASE \/ \E b \in Blobs : Reserve(b)
           \/ \E x \in reserving : SaveReservation(x) \/ FailReservation(x)
           \/ \E r \in Removals : \/ \E b \in Blobs : AdmitRemoval(r, b)
                                  \/ RemovalStep(r) \/ FailRemoval(r)
           \/ Tick \/ UNCHANGED vars
  BY <1>1, <1>8 DEF Reserve, SaveReservation, FailReservation, AdmitRemoval, RemovalStep,
     FailRemoval, Tick, vars, process
<1> QED
  BY <1>3, <1>4, <1>5, <1>6, <1>7, <1>8 DEF Next, SweepStep

LEMMA StepSparedByLists ==
    ASSUME TypeOK, OneWriter, Fresh, Copies, Deadlines, Spared, Whole, [Next]_vars
    PROVE  SparedByLists'
<1>1. \A b \in Blobs : Timely(b)' => Timely(b)
  BY TimelyStays
<1>2. CASE StartSweep
  <2>1. /\ sweep'.step = "align" /\ sweep'.orphans = {} /\ records' = records
        /\ \A b \in sweep'.todo : records[b].status = "stored"
    BY <1>2 DEF StartSweep, Unswept, disk, IsStoredBelow
  <2> QED
    BY <2>1 DEF SparedByLists, Sweeping
<1>3. CASE FindExpired
  <2>1. /\ sweep'.step = "expire" /\ sweep'.orphans = {} /\ UNCHANGED <<lapsed, withdrawn>>
        /\ \A b \in sweep'.todo : b \in Blobs /\ Recorded(b) /\ IsExpired(records[b], sweep.at)
    BY <1>3 DEF FindExpired, Phase, ExpiredAt, Unswept, history
  <2>2. \A b \in sweep'.todo : b \in lapsed
    BY <2>1 DEF Deadlines, IsExpired, TypeOK, SweepState, Record
  <2> QED
    BY <2>1, <2>2 DEF SparedByLists, Sweeping, Timely
<1>4. CASE ListIds
  <2>1. /\ sweep'.step = "scan" /\ sweep'.orphans = {} /\ sweep'.todo = ListedIds
        /\ UNCHANGED <<lapsed, withdrawn, records>>
    BY <1>4 DEF ListIds, Phase, Unswept, history, disk
  <2> QED
    BY <2>1 DEF SparedByLists, Sweeping, Timely, Whole, OwnedFiles, Recorded
<1>5. CASE FindOrphans
  <2>1. /\ sweep'.step = "orphans" /\ sweep'.orphans = {} /\ sweep'.todo = sweep.orphans
        /\ UNCHANGED <<lapsed, withdrawn>>
    BY <1>5 DEF FindOrphans, Phase, Unswept, history
  <2> QED
    BY <2>1 DEF SparedByLists, Sweeping, Timely, Spared
<1>6. ASSUME NEW b \in Blobs, LookUp(b) PROVE SparedByLists'
  <2>1. /\ b \in sweep.todo /\ sweep.step = "scan"
        /\ sweep'.step = "scan" /\ sweep'.todo \subseteq sweep.todo
        /\ sweep'.orphans \subseteq sweep.orphans \cup (IF IsOrphan(b) THEN {b} ELSE {})
        /\ UNCHANGED <<lapsed, withdrawn, records>>
    BY <1>6 DEF LookUp, Sweeping, Unswept, history, disk, TypeOK, SweepState
  <2>2. IsOrphan(b) => ~Timely(b)
    BY <2>1 DEF IsOrphan, Spared, SparedByLists, Sweeping
  <2> QED
    BY <2>1, <2>2 DEF SparedByLists, Sweeping, Timely, Spared, Recorded
<1>7. CASE sweep' = Resting
  BY <1>7 DEF Resting, Phase, SparedByLists, Sweeping
<1>8. CASE /\ sweep'.step = sweep.step /\ sweep'.todo \subseteq sweep.todo
           /\ sweep'.copies = sweep.copies /\ sweep'.orphans = sweep.orphans
  <2>1. sweep.todo \subseteq Blobs /\ sweep.orphans \subseteq Blobs
    BY DEF TypeOK, SweepState
  <2>2. \A b \in Blobs : Timely(b)' =>
            /\ Recorded(b) => Recorded(b)'
            /\ records[b].status = "stored" => records'[b].status = "stored"
    BY RecordsStay
  <2> QED
    BY <1>1, <1>8, <2>1, <2>2 DEF SparedByLists, Sweeping, Spared
<1> QED
  BY <1>2, <1>3, <1>4, <1>5, <1>6, <1>7, <1>8, SweepCases

-----------------------------------------------------------------------------
(* How the files change: an upload writes its own, or those of a blob that *)
(* is not timely are unlinked.                                             *)

LEMMA FileCases ==
    ASSUME TypeOK, Spared, [Next]_vars
    PROVE  \/ UNCHANGED <<parts, files>>
           \/ \E u \in Uploads : \/ OpenPart(u) \/ RenamePart(u) \/ AbandonPart(u)
                                 \/ \E exact \in BOOLEAN : SourceEnds(u, exact)
           \/ \E b : ~Timely(b) /\ UnlinkBlob(b) /\ UNCHANGED parts
           \/ \E b : ~Timely(b) /\ UnlinkPart(b) /\ UNCHANGED files
<1>1. CASE \E b \in Blobs : DeleteBytes(b)
  BY <1>1 DEF DeleteBytes, Sweeping, Spared, SparedByLists
<1>2. CASE DeletePart
  BY <1>2 DEF DeletePart, Spared, SparedByDeletions
<1>3. CASE \E r \in Removals : RemovalStep(r)
  BY <1>3 DEF RemovalStep, Spared, SparedByRemovals
<1>4. CASE \E u \in Uploads : \/ \E b \in Blobs : AdmitUpload(u, b)
                              \/ FailStream(u) \/ FailUpload(u) \/ CompleteUpload(u)
  BY <1>4 DEF AdmitUpload, FailStream, FailUpload, CompleteUpload, disk
<1>5. CASE \/ StartSweep \/ FindExpired \/ DeleteExpired \/ ListIds \/ FindOrphans \/ EndSweep
           \/ SkipInSweep \/ AbortSweep
           \/ \E b \in Blobs : Align(b) \/ LookUp(b)
  BY <1>5 DEF StartSweep, FindExpired, DeleteExpired, ListIds, FindOrphans, EndSweep,
     SkipInSweep, AbortSweep, Align, LookUp, Unswept, disk
<1>6. CASE \/ \E b \in Blobs : Reserve(b)
           \/ \E x \in reserving : SaveReservation(x) \/ FailReservation(x)
           \/ \E r \in Removals : FailRemoval(r) \/ \E b \in Blobs : AdmitRemoval(r, b)
           \/ Restart \/ Tick \/ UNCHANGED vars
  BY <1>6 DEF Reserve, SaveReservation, FailReservation, AdmitRemoval, FailRemoval, Restart,
     Tick, vars, disk
<1> QED
  BY <1>1, <1>2, <1>3, <1>4, <1>5, <1>6 DEF Next, SweepStep

(* An upload that has finished its stream has just done so or stood there. *)
LEMMA FinishCases ==
    ASSUME TypeOK, [Next]_vars, NEW u \in Uploads, uploads'[u].step \in {"streamed", "renamed"}
    PROVE  \/ uploads'[u] = uploads[u]
           \/ SourceEnds(u, TRUE) \/ RenamePart(u)
<1>1. CASE UploadsRest
  BY <1>1 DEF UploadsRest
<1>2. ASSUME NEW v \in Uploads, v # u,
             \/ OpenPart(v) \/ RenamePart(v) \/ FailStream(v)
             \/ \E exact \in BOOLEAN : SourceEnds(v, exact)
             \/ AbandonPart(v) \/ CompleteUpload(v) \/ FailUpload(v)
             \/ \E b \in Blobs : AdmitUpload(v, b)
      PROVE  uploads'[u] = uploads[u]
  BY <1>2 DEF OpenPart, RenamePart, SourceEnds, AbandonPart, CompleteUpload, FailStream,
     FailUpload, AdmitUpload, Advance, Release, TypeOK
<1>3. ASSUME \/ AbandonPart(u) \/ CompleteUpload(u) \/ FailUpload(u)
             \/ \E b \in Blobs : AdmitUpload(u, b)
      PROVE  FALSE
  BY <1>3 DEF AbandonPart, CompleteUpload, FailUpload, AdmitUpload, Release, Idle, TypeOK
<1>4. ASSUME OpenPart(u) PROVE FALSE
  <2>1. u \in Active /\ Advance(u, "streaming")
    BY <1>4 DEF OpenPart, Uploading, Active
  <2> QED
    BY <2>1, Advancing
<1>5. ASSUME SourceEnds(u, FALSE) \/ FailStream(u) PROVE FALSE
  <2>1. u \in Active /\ Advance(u, "failed")
    BY <1>5 DEF SourceEnds, FailStream, Uploading, Active
  <2> QED
    BY <2>1, Advancing
<1>6. CASE Restart
  BY <1>6 DEF Restart, Idle
<1>7. CASE SweepStep \/ SkipInSweep \/ AbortSweep \/ Tick \/ UNCHANGED vars
  BY <1>1, <1>7 DEF SweepStep, StartSweep, FindExpired, DeletePart, DeleteExpired, ListIds,
     FindOrphans, EndSweep, Align, DeleteBytes, LookUp, SkipInSweep, AbortSweep, Tick, vars,
     Unswept, process, UploadsRest
<1>8. CASE \/ \E b \in Blobs : Reserve(b)
           \/ \E x \in reserving : SaveReservation(x) \/ FailReservation(x)
           \/ \E r \in Removals : \/ \E b \in Blobs : AdmitRemoval(r, b)
                                  \/ RemovalStep(r) \/ FailRemoval(r)
  BY <1>1, <1>8 DEF Reserve, SaveReservation, FailReservation, AdmitRemoval, RemovalStep,
     FailRemoval, UploadsRest
<1> QED
  BY <1>2, <1>3, <1>4, <1>5, <1>6, <1>7, <1>8 DEF Next

(* An upload writes only the files of its blob, and no other upload's.     *)
LEMMA WritingCases ==
    ASSUME TypeOK, OneWriter, NEW u \in Uploads,
           \/ OpenPart(u) \/ RenamePart(u) \/ AbandonPart(u)
           \/ \E exact \in BOOLEAN : SourceEnds(u, exact)
    PROVE  /\ u \in Active /\ uploads[u].blob \in Blobs
           /\ UNCHANGED <<records, lapsed, withdrawn>>
           /\ \A c \in Blobs : c # uploads[u].blob =>
                  parts'[c] = parts[c] /\ files'[c] = files[c]
           /\ \A v \in Active : v # u => uploads[v].blob # uploads[u].blob
<1>1. u \in Active
  BY DEF OpenPart, RenamePart, AbandonPart, SourceEnds, Uploading, Active
<1>2. uploads[u].blob \in Blobs
  BY <1>1, ActiveType DEF Active
<1>3. UNCHANGED <<records, lapsed, withdrawn>>
  BY DEF OpenPart, RenamePart, AbandonPart, SourceEnds, history
<1>4. \A c \in Blobs : c # uploads[u].blob => parts'[c] = parts[c] /\ files'[c] = files[c]
  BY <1>2 DEF OpenPart, RenamePart, AbandonPart, SourceEnds, TypeOK
<1> QED
  BY <1>1, <1>2, <1>3, <1>4 DEF OneWriter

LEMMA StepOwned ==
    ASSUME TypeOK, OneWriter, Fresh, Copies, Spared, Whole, [Next]_vars
    PROVE  OwnedFiles' /\ OwnedUploads'
<1>1. \A b \in Blobs : Timely(b)' => Timely(b) /\ (Recorded(b) => Recorded(b)')
  BY TimelyStays, RecordsStay
<1>2. OwnedFiles'
  <2>1. ASSUME \A b \in Blobs : Timely(b) /\ ~Recorded(b) =>
                   parts'[b] = "none" /\ files'[b] = "none"
        PROVE  OwnedFiles'
    BY <1>1, <2>1 DEF OwnedFiles, ListedIds
  <2>2. \A b \in Blobs : Timely(b) /\ ~Recorded(b) => parts[b] = "none" /\ files[b] = "none"
    BY DEF Whole, OwnedFiles, ListedIds
  <2>3. CASE UNCHANGED <<parts, files>>
    BY <2>1, <2>2, <2>3
  <2>4. ASSUME NEW u \in Uploads,
               \/ OpenPart(u) \/ RenamePart(u) \/ AbandonPart(u)
               \/ \E exact \in BOOLEAN : SourceEnds(u, exact)
        PROVE  OwnedFiles'
    <3>1. Timely(uploads[u].blob) => Recorded(uploads[u].blob)
      BY <2>4, WritingCases DEF Whole, OwnedUploads
    <3>2. \A c \in Blobs : c # uploads[u].blob =>
              parts'[c] = parts[c] /\ files'[c] = files[c]
      BY <2>4, WritingCases
    <3> QED
      BY <2>1, <2>2, <3>1, <3>2
  <2>5. ASSUME NEW b, UnlinkBlob(b), UNCHANGED parts PROVE OwnedFiles'
    <3>1. \A c \in Blobs : files'[c] = files[c] \/ files'[c] = "none"
      BY <2>5 DEF UnlinkBlob, TypeOK
    <3> QED
      BY <2>1, <2>2, <2>5, <3>1
  <2>6. ASSUME NEW b, UnlinkPart(b), UNCHANGED files PROVE OwnedFiles'
    <3>1. \A c \in Blobs : parts'[c] = parts[c] \/ parts'[c] = "none"
      BY <2>6 DEF UnlinkPart, TypeOK
    <3> QED
      BY <2>1, <2>2, <2>6, <3>1
  <2> QED
    BY <2>3, <2>4, <2>5, <2>6, FileCases
<1>3. OwnedUploads'
  <2>1. \A u \in Active : /\ uploads[u].blob \in Blobs
                          /\ Timely(uploads[u].blob) => Recorded(uploads[u].blob)
    BY ActiveType DEF Active, Whole, OwnedUploads
  <2>2. CASE UploadsRest
    <3>1. Active' = Active /\ uploads' = uploads
      BY <2>2 DEF UploadsRest, Active
    <3> QED
      BY <1>1, <2>1, <3>1 DEF OwnedUploads
  <2>3. ASSUME NEW u \in Uploads, NEW b \in Blobs, AdmitUpload(u, b) PROVE OwnedUploads'
    <3>1. Recorded(b)
      BY <2>3 DEF AdmitUpload, UploadIsAdmitted, Live
    <3>2. uploads' = [uploads EXCEPT ![u] = [step |-> "admitted", blob |-> b,
                                             copy |-> records[b]]]
      BY <2>3 DEF AdmitUpload
    <3>3. uploads'[u].blob = b /\ \A v \in Uploads : v # u => uploads'[v] = uploads[v]
      BY <3>2 DEF TypeOK
    <3>4. ASSUME NEW v \in Active', v # u PROVE v \in Active /\ uploads'[v] = uploads[v]
      BY <3>3, <3>4 DEF Active
    <3> QED
      BY <1>1, <2>1, <3>1, <3>3, <3>4 DEF OwnedUploads
  <2>4. ASSUME NEW u \in Active, NEW step \in {"streaming", "streamed", "renamed", "failed"},
               Advance(u, step)
        PROVE  OwnedUploads'
    <3>1. Active' = Active /\ \A v \in Active : uploads'[v].blob = uploads[v].blob
      BY <2>4, Advancing
    <3> QED
      BY <1>1, <2>1, <3>1 DEF OwnedUploads
  <2>5. ASSUME NEW u \in Active, Release(u) PROVE OwnedUploads'
    <3>1. Active' = Active \ {u} /\ \A v \in Active' : uploads'[v] = uploads[v]
      BY <2>5, Releasing DEF Active
    <3> QED
      BY <1>1, <2>1, <3>1 DEF OwnedUploads
  <2>6. CASE uploads' = [u \in Uploads |-> Idle]
    BY <2>6 DEF OwnedUploads, Active, Idle
  <2> QED
    BY <2>2, <2>3, <2>4, <2>5, <2>6, UploadCases
<1> QED
  BY <1>2, <1>3

(* A whole part or blob file stays while its upload stands where it is.    *)
LEMMA StepWholeUploads ==
    ASSUME TypeOK, OneWriter, Fresh, Copies, Spared, Whole, [Next]_vars
    PROVE  WholeUploads'
<1> SUFFICES ASSUME NEW u \in Uploads
             PROVE  /\ uploads'[u].step = "streamed" =>
                           parts'[uploads'[u].blob] \in {"none", "whole"}
                    /\ (/\ uploads'[u].step = "renamed"
                        /\ uploads'[u].blob \in Blobs \ (lapsed' \cup withdrawn')) =>
                           files'[uploads'[u].blob] = "whole"
  BY DEF WholeUploads, Uploading, Timely
<1>1. CASE uploads'[u].step \notin {"streamed", "renamed"}
  BY <1>1
<1>2. CASE SourceEnds(u, TRUE)
  <2>1. u \in Active /\ Advance(u, "streamed")
    BY <1>2 DEF SourceEnds, Uploading, Active
  <2>2. uploads'[u].step = "streamed" /\ uploads'[u].blob = uploads[u].blob
    BY <2>1, Advancing
  <2>3. parts'[uploads[u].blob] \in {"none", "whole"}
    BY <1>2, <2>1, ActiveType DEF SourceEnds, Active, TypeOK
  <2> QED
    BY <2>2, <2>3
<1>3. CASE RenamePart(u)
  <2>1. u \in Active /\ uploads[u].blob \in Blobs /\ uploads[u].step = "streamed"
    BY <1>3, ActiveType DEF RenamePart, Uploading, Active
  <2>2. CASE parts[uploads[u].blob] = "none"
    <3>1. Advance(u, "failed")
      BY <1>3, <2>2 DEF RenamePart
    <3> QED
      BY <2>1, <3>1, Advancing
  <2>3. CASE parts[uploads[u].blob] # "none"
    <3>1. Advance(u, "renamed") /\ files'[uploads[u].blob] = parts[uploads[u].blob]
      BY <1>3, <2>1, <2>3 DEF RenamePart, TypeOK
    <3>2. uploads'[u].step = "renamed" /\ uploads'[u].blob = uploads[u].blob
      BY <2>1, <3>1, Advancing
    <3>3. parts[uploads[u].blob] = "whole"
      BY <2>1, <2>3 DEF Whole, WholeUploads, Uploading
    <3> QED
      BY <3>1, <3>2, <3>3
  <2> QED
    BY <2>2, <2>3
<1>4. CASE uploads'[u] = uploads[u] /\ uploads[u].step \in {"streamed", "renamed"}
  <2> DEFINE b == uploads[u].blob
  <2>1. u \in Active /\ b \in Blobs
    BY <1>4, ActiveType DEF Active
  <2>2. /\ uploads[u].step = "streamed" => parts[b] \in {"none", "whole"}
        /\ uploads[u].step = "renamed" /\ Timely(b) => files[b] = "whole"
    BY DEF Whole, WholeUploads, Uploading
  <2>3. uploads'[u].blob \in Blobs \ (lapsed' \cup withdrawn') => Timely(b)
    BY <1>4, <2>1, Monotone DEF Timely
  <2>4. /\ parts'[b] \in {parts[b], "none"}
        /\ Timely(b) => files'[b] = files[b]
    <3>1. CASE UNCHANGED <<parts, files>>
      BY <3>1
    <3>2. ASSUME NEW v \in Uploads,
                 \/ OpenPart(v) \/ RenamePart(v) \/ AbandonPart(v)
                 \/ \E exact \in BOOLEAN : SourceEnds(v, exact)
          PROVE  parts'[b] = parts[b] /\ files'[b] = files[b]
      <4>1. v # u
        <5>1. ~(OpenPart(u) \/ \E exact \in BOOLEAN : SourceEnds(u, exact))
          BY <1>4 DEF OpenPart, SourceEnds, Uploading
        <5>2. ~AbandonPart(u)
          BY <1>4 DEF AbandonPart, Uploading
        <5>3. ~RenamePart(u)
          <6>1. CASE RenamePart(u)
            <7>1. Advance(u, "failed") \/ Advance(u, "renamed")
              BY <6>1 DEF RenamePart
            <7>2. uploads'[u].step # uploads[u].step
              BY <2>1, <6>1, <7>1, Advancing DEF RenamePart, Uploading
            <7> QED
              BY <1>4, <7>2
          <6> QED
            BY <6>1
        <5> QED
          BY <3>2, <5>1, <5>2, <5>3
      <4>2. uploads[v].blob # b
        BY <2>1, <3>2, <4>1, WritingCases
      <4> QED
        BY <2>1, <3>2, <4>2, WritingCases
    <3>3. ASSUME NEW c, ~Timely(c), UnlinkBlob(c), UNCHANGED parts
          PROVE  parts'[b] = parts[b] /\ (Timely(b) => files'[b] = files[b])
      BY <2>1, <3>3 DEF UnlinkBlob, TypeOK
    <3>4. ASSUME NEW c, UnlinkPart(c), UNCHANGED files
          PROVE  parts'[b] \in {parts[b], "none"} /\ files'[b] = files[b]
      BY <2>1, <3>4 DEF UnlinkPart, TypeOK
    <3> QED
      BY <3>1, <3>2, <3>3, <3>4, FileCases
  <2> QED
    BY <1>4, <2>2, <2>3, <2>4
<1> QED
  BY <1>1, <1>2, <1>3, <1>4, FinishCases

LEMMA StepTimely ==
    ASSUME TypeOK, OneWriter, Fresh, Copies, Spared, Whole, [Next]_vars
    PROVE  TimelyBlobsKeepTheirBytes'
<1> SUFFICES ASSUME NEW b \in Blobs, Timely(b)', records'[b].status = "stored"
             PROVE  files'[b] = "whole"
  BY DEF TimelyBlobsKeepTheirBytes, Timely
<1>1. Timely(b)
  BY TimelyStays
<1>2. files[b] = "whole" \/ \E u \in Uploads : RenamePart(u) /\ uploads[u].blob = b
  <2>1. CASE records[b].status = "stored"
    BY <1>1, <2>1 DEF Whole, TimelyBlobsKeepTheirBytes, Timely
  <2>2. ASSUME records[b].status # "stored", NEW u \in Uploads, CompleteUpload(u)
        PROVE  files[b] = "whole"
    <3>1. uploads[u].blob = b /\ uploads[u].step = "renamed"
      BY <2>2, Completing DEF CompleteUpload, Uploading
    <3> QED
      BY <1>1, <3>1 DEF Whole, WholeUploads, Uploading
  <2>3. ASSUME records[b].status # "stored", NEW x \in reserving, SaveReservation(x)
        PROVE  FALSE
    BY <2>3 DEF SaveReservation, Save, Fresh, TypeOK
  <2>4. ASSUME records[b].status # "stored", NEW c \in Blobs, Align(c) PROVE FALSE
    <3>1. c = b
      BY <2>4 DEF Align, Resave, Save, TypeOK
    <3> QED
      BY <1>1, <2>4, <3>1 DEF Align, Spared, SparedByLists
  <2>5. ASSUME records[b].status # "stored", NEW c, records' = [records EXCEPT ![c] = Absent]
        PROVE  FALSE
    BY <2>5 DEF Absent, TypeOK
  <2> QED
    BY <2>1, <2>2, <2>3, <2>4, <2>5, RecordCases
<1>3. CASE \E u \in Uploads : RenamePart(u) /\ uploads[u].blob = b
  <2>1. PICK u \in Uploads : RenamePart(u) /\ uploads[u].blob = b
    BY <1>3
  <2>2. u \in Active /\ uploads[u].step = "streamed"
    BY <2>1 DEF RenamePart, Uploading, Active
  <2>3. records[b].status # "stored"
    BY <2>1, <2>2 DEF Copies, OpenUploads, StoreTimeKept, Kept
  <2>4. records' = records
    BY <2>1 DEF RenamePart
  <2> QED
    BY <2>3, <2>4
<1>4. CASE files[b] = "whole" /\ ~\E u \in Uploads : RenamePart(u) /\ uploads[u].blob = b
  <2>1. CASE UNCHANGED <<parts, files>>
    BY <1>4, <2>1
  <2>2. ASSUME NEW u \in Uploads,
               \/ OpenPart(u) \/ RenamePart(u) \/ AbandonPart(u)
               \/ \E exact \in BOOLEAN : SourceEnds(u, exact)
        PROVE  files'[b] = files[b]
    <3>1. CASE uploads[u].blob # b
      BY <2>2, <3>1, WritingCases
    <3>2. CASE uploads[u].blob = b
      BY <1>4, <2>2, <3>2 DEF OpenPart, AbandonPart, SourceEnds
    <3> QED
      BY <3>1, <3>2
  <2>3. ASSUME NEW c, ~Timely(c), UnlinkBlob(c) PROVE files'[b] = files[b]
    BY <1>1, <2>3 DEF UnlinkBlob, TypeOK
  <2> QED
    BY <1>4, <2>1, <2>2, <2>3, FileCases
<1> QED
  BY <1>2, <1>3, <1>4

-----------------------------------------------------------------------------
LEMMA InitInv == Init => IInv
<1> SUFFICES ASSUME Init PROVE IInv
  OBVIOUS
<1>1. Active = {} /\ reserving = {} /\ \A b \in Blobs : records[b] = Absent
  BY DEF Init, Active, Idle
<1>2. OneWriter
  BY <1>1 DEF Init, OneWriter
<1>3. Fresh
  BY <1>1 DEF Init, Fresh, KnownToUploads, Recorded, Absent, Never
<1>4. Copies
  BY <1>1 DEF Init, Copies, OpenUploads, Closed, CopiesKept, StoreTimeKept, Absent, Never,
     Sweeping, Resting, Phase
<1>5. Deadlines
  BY <1>1 DEF Init, Deadlines, Resting, Phase, Recorded, Absent
<1>6. Spared
  BY DEF Init, Spared, SparedByRemovals, SparedByDeletions, SparedByLists, Sweeping, Idle,
     Resting, Phase
<1>7. Whole
  BY <1>1 DEF Init, Whole, OwnedFiles, OwnedUploads, WholeUploads, TimelyBlobsKeepTheirBytes,
     ListedIds, Uploading, Absent, Idle
<1> QED
  BY <1>2, <1>3, <1>4, <1>5, <1>6, <1>7, InitType DEF IInv

LEMMA StepInv == IInv /\ [Next]_vars => IInv'
BY StepType, StepOneWriter, StepFresh, StepCopies, StepDeadlines, StepSparedByRemovals,
   StepSparedByDeletions, StepSparedByLists, StepOwned, StepWholeUploads, StepTimely
   DEF IInv, Spared, Whole

LEMMA Invariance == Spec => []IInv
BY InitInv, StepInv, PTL DEF Spec

(* Every variable of the blob store keeps its type.                        *)
THEOREM BlobTypeTheorem == Spec => []TypeOK
<1>1. IInv => TypeOK
  BY DEF IInv
<1> QED
  BY <1>1, Invariance, PTL

(* No two uploads of one blob ever write at once                           *)
(* (PrivateBlobUploader.ts).                                               *)
THEOREM OneWriterTheorem == Spec => []OneWriter
<1>1. IInv => OneWriter
  BY DEF IInv
<1> QED
  BY <1>1, Invariance, PTL

(* A blob stored before its window closed, not past its deadline and not   *)
(* withdrawn, has its whole file at every moment, whatever removals,       *)
(* sweeps, failures and restarts do (PrivateBlobExpirer.ts).               *)
THEOREM TimelyTheorem == Spec => []TimelyBlobsKeepTheirBytes
<1>1. IInv => TimelyBlobsKeepTheirBytes
  BY DEF IInv, Whole
<1> QED
  BY <1>1, Invariance, PTL

(* The deadline of a stored blob is its store time plus its retention,     *)
(* after any number of extensions (PrivateBlob.ts).                        *)
THEOREM StoreTimeTheorem == Spec => []StoreTimeKept
<1>1. IInv => StoreTimeKept
  BY DEF IInv, Copies
<1> QED
  BY <1>1, Invariance, PTL

-----------------------------------------------------------------------------
(* The quotas.                                                             *)

(* What counts against a quota: live blobs that were never brought back,    *)
(* and the reservation that is being saved, which its lookup could not see. *)
Counts(b) == \/ Live(b) /\ b \notin revived
             \/ \E x \in reserving : x.blob = b
Counted(S) == {b \in S : Counts(b)}
QuotaOK ==
    /\ Total(SizeOf, Counted(Blobs)) <= TotalQuota
    /\ \A b \in Blobs : Total(SizeOf, Counted(OwnedWith(b))) <= OwnerQuota

(* A part of what counts counts no more than the whole.                     *)
LEMMA PartsCountLess ==
    ASSUME NEW S \in SUBSET Blobs, NEW T \in SUBSET S
    PROVE  /\ Total(SizeOf, T) <= Total(SizeOf, S)
           /\ Total(SizeOf, T) \in Nat /\ Total(SizeOf, S) \in Nat
           /\ IsFiniteSet(T) /\ Weighs(SizeOf, S)
<1> DEFINE R == S \ T
<1>1. IsFiniteSet(T) /\ IsFiniteSet(R)
  <2>1. IsFiniteSet(Blobs) /\ T \in SUBSET Blobs /\ R \in SUBSET Blobs
    BY BlobAssumption
  <2> HIDE DEF R
  <2> QED
    BY <2>1, FS_Subset
<1>2a. T \cap R = {} /\ T \cup R = S
  OBVIOUS
<1>2. Weighs(SizeOf, S) /\ Weighs(SizeOf, T \cup R)
  BY BlobAssumption DEF Weighs
<1> HIDE DEF R
<1>3. /\ Total(SizeOf, T \cup R) = Total(SizeOf, T) + Total(SizeOf, R)
      /\ Total(SizeOf, T) \in Nat /\ Total(SizeOf, R) \in Nat
  BY <1>1, <1>2a, <1>2, TotalUnion
<1>4. Total(SizeOf, S) = Total(SizeOf, T) + Total(SizeOf, R)
  BY <1>2a, <1>3, Zenon
<1>5. Total(SizeOf, T) <= Total(SizeOf, S) /\ Total(SizeOf, S) \in Nat
  BY ONLY <1>3, <1>4
<1> QED
  BY <1>1, <1>2, <1>3, <1>5

LEMMA LiveTypes ==
    ASSUME TypeOK, NEW b \in Blobs
    PROVE  now \in Nat /\ records[b].expiresAt \in Nat
BY DEF TypeOK, Record

(* Nothing begins to count but what a reservation was admitted for.         *)
LEMMA CountedShrinks ==
    ASSUME TypeOK, [Next]_vars, NEW b \in Blobs, Counts(b)', ~Counts(b)
    PROVE  Reserve(b)
<1>1. /\ now \in Nat /\ now' \in Nat /\ now <= now' /\ revived \subseteq revived'
  BY StepType, Monotone DEF TypeOK
<1>2. CASE UNCHANGED records
  <2>1. Live(b)' => Live(b)
    BY <1>1, <1>2, LiveTypes DEF Live, Recorded, IsExpired
  <2>2. \E x \in reserving' : x.blob = b /\ x \notin reserving
    BY <1>1, <2>1 DEF Counts
  <2>3. ~ reserving' \subseteq reserving
    BY <2>2
  <2>4. CASE \E c \in Blobs : Reserve(c)
    <3>1. PICK c \in Blobs : Reserve(c)
      BY <2>4
    <3>2. c = b
      BY <2>2, <3>1 DEF Reserve
    <3> QED
      BY <3>1, <3>2
  <2>5. ~ \E x \in reserving : SaveReservation(x)
    BY <2>3 DEF SaveReservation
  <2>6. ~ \E u \in Uploads : CompleteUpload(u)
    BY <2>3 DEF CompleteUpload
  <2> QED
    BY <2>3, <2>4, <2>5, <2>6, EstablishedCases
<1>3. ASSUME NEW x \in reserving, SaveReservation(x) PROVE FALSE
  <2>1. x.blob # b
    BY DEF Counts
  <2>2. /\ records'[b] = records[b] /\ now' = now /\ revived' = revived
        /\ reserving' \subseteq reserving
    BY <1>3, <2>1 DEF SaveReservation, Save, TypeOK
  <2> QED
    BY <2>2 DEF Counts, Live, Recorded
<1>4. ASSUME NEW c \in Blobs, NEW record, Resave(c, record), reserving' = reserving, now' = now
      PROVE  FALSE
  <2>1. Live(b)' /\ b \notin revived' /\ ~Live(b)
    BY <1>1, <1>4 DEF Counts
  <2>2. CASE b = c
    <3>1. records'[b] = record
      BY <1>4, <2>2 DEF Resave, Save, TypeOK
    <3>2. ~IsExpired(record, now)
      BY <1>4, <2>1, <3>1 DEF Live
    <3> QED
      BY <1>4, <2>1, <2>2, <3>2 DEF Resave
  <2>3. CASE b # c
    <3>1. records'[b] = records[b]
      BY <1>4, <2>3 DEF Resave, Save, TypeOK
    <3> QED
      BY <1>4, <2>1, <3>1 DEF Live, Recorded
  <2> QED
    BY <2>2, <2>3
<1>5. ASSUME NEW u \in Uploads, CompleteUpload(u) PROVE FALSE
  <2>1. uploads[u].blob \in Blobs
    BY <1>5, ActiveType DEF CompleteUpload, Uploading
  <2> QED
    BY <1>4, <1>5, <2>1 DEF CompleteUpload
<1>6. ASSUME NEW c \in Blobs, Align(c) PROVE FALSE
  BY <1>4, <1>6 DEF Align
<1>7. ASSUME NEW c, records' = [records EXCEPT ![c] = Absent],
             reserving' = reserving, now' = now
      PROVE  FALSE
  <2>1. Live(b)' /\ b \notin revived' /\ ~Live(b)
    BY <1>1, <1>7 DEF Counts
  <2>2. records'[b] \in {records[b], Absent}
    BY <1>7 DEF TypeOK
  <2> QED
    BY <1>7, <2>1, <2>2 DEF Live, Recorded, Absent
<1>8. ASSUME NEW r \in Removals, RemovalStep(r),
             records' = [records EXCEPT ![removals[r].blob] = Absent]
      PROVE  FALSE
  BY <1>7, <1>8 DEF RemovalStep
<1>9. ~ (DeleteExpired /\ records' = [records EXCEPT ![deleting.blob] = Absent])
  BY <1>7 DEF DeleteExpired
<1> QED
  BY <1>2, <1>3, <1>5, <1>6, <1>8, <1>9, RecordCases

(* Every quota's set is bounded by what it held before, but for a           *)
(* reservation, which the quota admitted.                                   *)
LEMMA AdmittedFits ==
    ASSUME TypeOK, [Next]_vars, NEW S \in SUBSET Blobs, NEW quota \in Nat,
           Total(SizeOf, Counted(S)) <= quota,
           \A b \in S : Reserve(b) => ReservedBytes(S) + SizeOf[b] <= quota
    PROVE  Total(SizeOf, Counted(S)') <= quota
<1> DEFINE before == Counted(S)
           after == Counted(S)'
<1>1. before \in SUBSET S /\ after \in SUBSET S /\ before \in SUBSET Blobs
      /\ after \in SUBSET Blobs
  BY DEF Counted
<1>2. CASE after \subseteq before
  <2>1. Total(SizeOf, after) <= Total(SizeOf, before)
        /\ Total(SizeOf, after) \in Nat /\ Total(SizeOf, before) \in Nat
    <3> HIDE DEF before, after
    <3> QED
      BY <1>1, <1>2, PartsCountLess
  <2> QED
    BY <2>1
<1>3. CASE ~(after \subseteq before)
  <2>1. PICK b \in S : Counts(b)' /\ ~Counts(b)
    BY <1>3 DEF Counted
  <2>2. Reserve(b)
    BY <2>1, CountedShrinks
  <2> DEFINE rest == {c \in S : Live(c) /\ c \notin revived} \ {b}
             seen == {c \in S : Live(c)}
  <2>3. after = rest \cup {b}
    <3>1. reserving = {} /\ b \in Blobs
      BY <2>2 DEF Reserve, QueueIsFree
    <3>2. /\ \A c \in Blobs : Live(c)' <=> Live(c)
          /\ revived' = revived
      BY <2>2 DEF Reserve, disk, Live, Recorded
    <3>3. \A c : (\E x \in reserving' : x.blob = c) <=> c = b
      BY <2>2, <3>1 DEF Reserve
    <3>4. \A c \in S : Counts(c)' <=> (Live(c) /\ c \notin revived) \/ c = b
      BY <3>2, <3>3 DEF Counts
    <3> QED
      BY <3>4 DEF Counted
  <2>4. rest \in SUBSET seen /\ seen \in SUBSET Blobs /\ b \notin rest /\ b \in Blobs
    OBVIOUS
  <2>5. ReservedBytes(S) = Total(SizeOf, seen)
    BY DEF ReservedBytes, Total
  <2>6. ReservedBytes(S) + SizeOf[b] <= quota
    BY <2>2
  <2> HIDE DEF rest, seen, before, after
  <2>7. /\ Total(SizeOf, rest) <= Total(SizeOf, seen) /\ Total(SizeOf, rest) \in Nat
        /\ Total(SizeOf, seen) \in Nat /\ IsFiniteSet(rest)
    BY <2>4, PartsCountLess
  <2>8. Weighs(SizeOf, rest \cup {b}) /\ SizeOf[b] \in Nat
    BY <2>4, BlobAssumption DEF Weighs
  <2>9. Total(SizeOf, rest \cup {b}) = Total(SizeOf, rest) + SizeOf[b]
    BY <2>4, <2>7, <2>8, TotalAdd
  <2>10. Total(SizeOf, seen) + SizeOf[b] <= quota
    BY <2>5, <2>6, Zenon
  <2>11. Total(SizeOf, after) = Total(SizeOf, rest) + SizeOf[b]
    BY <2>3, <2>9, Zenon
  <2>12. quota \in Nat
    OBVIOUS
  <2>13. Total(SizeOf, after) <= quota
    BY ONLY <2>7, <2>8, <2>10, <2>11, <2>12
  <2> QED
    BY <2>13, Zenon DEF after
<1> QED
  BY <1>2, <1>3

LEMMA InitQuota == Init => QuotaOK
<1> SUFFICES ASSUME Init PROVE QuotaOK
  OBVIOUS
<1>1. \A b \in Blobs : ~Counts(b)
  BY DEF Init, Counts, Live, Recorded, Absent
<1>2. Counted(Blobs) = {} /\ \A b \in Blobs : Counted(OwnedWith(b)) = {}
  BY <1>1 DEF Counted, OwnedWith
<1> QED
  BY <1>2, TotalEmpty, BlobAssumption DEF QuotaOK

LEMMA StepQuota ==
    ASSUME TypeOK, QuotaOK, [Next]_vars
    PROVE  QuotaOK'
<1>1. TotalQuota \in Nat /\ OwnerQuota \in Nat
  BY BlobAssumption
<1>2. Total(SizeOf, Counted(Blobs)') <= TotalQuota
  <2>1. \A b \in Blobs : Reserve(b) => ReservedBytes(Blobs) + SizeOf[b] <= TotalQuota
    BY DEF Reserve, QuotaAllows
  <2> QED
    BY <1>1, <2>1, AdmittedFits DEF QuotaOK
<1>3. ASSUME NEW b \in Blobs PROVE Total(SizeOf, Counted(OwnedWith(b))') <= OwnerQuota
  <2>1. OwnedWith(b) \in SUBSET Blobs
    BY DEF OwnedWith
  <2>2. ASSUME NEW c \in OwnedWith(b), Reserve(c)
        PROVE  ReservedBytes(OwnedWith(b)) + SizeOf[c] <= OwnerQuota
    <3>1. OwnedWith(c) = OwnedWith(b)
      BY <2>2 DEF OwnedWith
    <3> QED
      BY <2>2, <3>1 DEF Reserve, QuotaAllows
  <2>3. Total(SizeOf, Counted(OwnedWith(b))) <= OwnerQuota
    BY DEF QuotaOK
  <2> QED
    BY <1>1, <2>1, <2>2, <2>3, AdmittedFits
<1> QED
  BY <1>2, <1>3 DEF QuotaOK

(* The bytes of the blobs that are live and were never brought back fit     *)
(* the quotas, of the node and of each owner, whatever runs at once         *)
(* (PrivateBlobReserver.ts).                                                *)
THEOREM QuotaTheorem == Spec => []ReservationsFitQuotas
<1>1. TypeOK /\ QuotaOK => ReservationsFitQuotas
  <2> SUFFICES ASSUME TypeOK, QuotaOK PROVE ReservationsFitQuotas
    OBVIOUS
  <2>1. ASSUME NEW S \in SUBSET Blobs, NEW quota \in Nat,
               Total(SizeOf, Counted(S)) <= quota
        PROVE  ReservedBytes(S \ revived) <= quota
    <3> DEFINE seen == {b \in S \ revived : Live(b)}
    <3>1. seen \in SUBSET Counted(S) /\ Counted(S) \in SUBSET Blobs
      BY DEF Counted, Counts
    <3>2. ReservedBytes(S \ revived) = Total(SizeOf, seen)
      BY DEF ReservedBytes, Total
    <3> HIDE DEF seen
    <3>3. /\ Total(SizeOf, seen) <= Total(SizeOf, Counted(S))
          /\ Total(SizeOf, seen) \in Nat /\ Total(SizeOf, Counted(S)) \in Nat
      BY <3>1, PartsCountLess
    <3> QED
      BY <2>1, <3>2, <3>3
  <2>2. ReservedBytes(Blobs \ revived) <= TotalQuota
    BY <2>1, BlobAssumption DEF QuotaOK
  <2>3. ASSUME NEW b \in Blobs PROVE ReservedBytes(OwnedWith(b) \ revived) <= OwnerQuota
    <3>1. OwnedWith(b) \in SUBSET Blobs
      BY DEF OwnedWith
    <3> QED
      BY <2>1, <3>1, BlobAssumption DEF QuotaOK
  <2> QED
    BY <2>2, <2>3 DEF ReservationsFitQuotas
<1>2. Spec => [](TypeOK /\ QuotaOK)
  <2>1. IInv => TypeOK
    BY DEF IInv
  <2> QED
    BY <2>1, InitQuota, StepQuota, InitInv, Invariance, PTL DEF Spec
<1> QED
  BY <1>1, <1>2, PTL
-----------------------------------------------------------------------------
(* Byte windows and resumed downloads (PrivateBlobRange).                  *)

SizeInv == size \in Sizes
HaveInv == SizeInv /\ have \in Nat /\ have <= size
DownloadInv    == HaveInv /\ (complete => have = size)

(* An answer is a window inside the blob, or a refusal.                    *)
LEMMA OfType ==
    ASSUME NEW start \in Int, NEW end \in Int, NEW n \in Nat \ {0}
    PROVE  \/ /\ 0 <= start /\ start <= end /\ end < n
              /\ Of(start, end, n) = [start |-> start, end |-> end]
           \/ /\ ~(0 <= start /\ start <= end /\ end < n)
              /\ Of(start, end, n) = Refused
BY DEF Of

(* The answer to each kind of request is the window it names.              *)
LEMMA Answer ==
    ASSUME NEW request \in Requests, NEW n \in Nat \ {0}
    PROVE  LET answer == Resolve(request, n) IN
           /\ answer.start .. answer.end = Named(request, n)
           /\ answer = Refused <=> Named(request, n) = {}
<1> DEFINE Correct(answer) == /\ answer.start .. answer.end = Named(request, n)
                              /\ answer = Refused <=> Named(request, n) = {}
<1>1. ASSUME NEW start \in Int, NEW end \in Int,
             Named(request, n) = {i \in 0 .. n - 1 : start <= i /\ i <= end},
             0 <= start, end < n
      PROVE  Correct(Of(start, end, n))
  <2>1. CASE start <= end
    <3>1. Of(start, end, n) = [start |-> start, end |-> end] /\ Of(start, end, n) # Refused
      BY <1>1, <2>1 DEF Of, Refused
    <3>2. start \in Named(request, n) /\ start .. end = Named(request, n)
      BY <1>1, <2>1
    <3> QED
      BY <3>1, <3>2
  <2>2. CASE ~(start <= end)
    <3>1. Of(start, end, n) = Refused /\ Refused.start .. Refused.end = {}
      BY <2>2 DEF Of, Refused
    <3>2. Named(request, n) = {}
      BY <1>1, <2>2
    <3> QED
      BY <3>1, <3>2
  <2> QED
    BY <2>1, <2>2
<1> HIDE DEF Correct
<1>2. CASE request.kind = "suffix"
  <2>1. request.length \in Nat
    BY <1>2, RangeAssumption DEF Requests
  <2> DEFINE start == IF n > request.length THEN n - request.length ELSE 0
  <2>2. start \in Int /\ 0 <= start
    BY <2>1
  <2>3. Named(request, n) = {i \in 0 .. n - 1 : start <= i /\ i <= n - 1}
    BY <1>2, <2>1 DEF Named
  <2>4. Resolve(request, n) = Of(start, n - 1, n)
    BY <1>2 DEF Resolve, OfSuffix
  <2> HIDE DEF start
  <2> QED
    BY <1>1, <2>2, <2>3, <2>4 DEF Correct
<1>3. CASE request.kind = "window"
  <2>1. request.first \in Nat /\ request.last \in Nat
    BY <1>3, RangeAssumption DEF Requests
  <2> DEFINE end == IF request.last < n - 1 THEN request.last ELSE n - 1
  <2>2. end \in Int /\ end < n
    BY <2>1
  <2>3. Named(request, n) = {i \in 0 .. n - 1 : request.first <= i /\ i <= end}
    BY <1>3, <2>1 DEF Named
  <2>4. Resolve(request, n) = Of(request.first, end, n)
    BY <1>3 DEF Resolve, OfWindow
  <2> HIDE DEF end
  <2> QED
    BY <1>1, <2>1, <2>2, <2>3, <2>4 DEF Correct
<1>4. CASE request.kind = "from"
  <2>1. request.first \in Nat
    BY <1>4, RangeAssumption DEF Requests
  <2> DEFINE end == n - 1
  <2>2. end \in Int /\ end < n
    OBVIOUS
  <2>3. Named(request, n) = {i \in 0 .. n - 1 : request.first <= i /\ i <= end}
    BY <1>4, <2>1 DEF Named
  <2>4. Resolve(request, n) = Of(request.first, end, n)
    BY <1>4 DEF Resolve
  <2> HIDE DEF end
  <2> QED
    BY <1>1, <2>1, <2>2, <2>3, <2>4 DEF Correct
<1>5. CASE request.kind = "invalid"
  <2>1. Resolve(request, n) = Refused /\ Named(request, n) = {}
    BY <1>5 DEF Resolve, Named
  <2> QED
    BY <2>1 DEF Refused
<1> QED
  BY <1>2, <1>3, <1>4, <1>5 DEF Requests, Correct

(* Every request is answered with exactly the bytes it names, for every    *)
(* size and every number a header may carry (PrivateBlobByteRange.resolve).*)
THEOREM RangeTheorem == RangeSpec => []AnswersAreTheBytesNamed
<1>1. RangeInit => SizeInv
  BY DEF RangeInit, SizeInv
<1>2. SizeInv /\ [RangeNext]_rangeVars => SizeInv'
  BY DEF RangeNext, Fetch, rangeVars, SizeInv
<1>3. SizeInv => AnswersAreTheBytesNamed
  BY Answer, RangeAssumption DEF AnswersAreTheBytesNamed, SizeInv
<1> QED
  BY <1>1, <1>2, <1>3, PTL DEF RangeSpec

(* A download in pieces ends exactly with the blob, whatever the sizes of  *)
(* its pieces (PrivateBlobByteRange.resolve, GetPrivateBlobRoute).         *)
THEOREM DownloadTheorem == RangeSpec => []RefusedOnlyAtTheEnd
<1>1. RangeInit => DownloadInv
  <2>1. RangeInit => HaveInv
    BY RangeAssumption DEF RangeInit, HaveInv, SizeInv
  <2>2. RangeInit => ~complete
    BY DEF RangeInit
  <2> QED
    BY <2>1, <2>2 DEF DownloadInv
<1>2. ASSUME DownloadInv, NEW n \in Numbers \ {0}, Fetch(n) PROVE DownloadInv'
  <2> DEFINE end == IF have + n - 1 < size - 1 THEN have + n - 1 ELSE size - 1
  <2>1. size \in Nat \ {0} /\ have \in Nat /\ have <= size /\ n \in Nat \ {0}
    BY <1>2, RangeAssumption DEF DownloadInv, HaveInv, SizeInv
  <2>2. Piece(n) = Of(have, end, size) /\ end \in Int
    BY <2>1 DEF Piece, Resolve, OfWindow
  <2>3. /\ size' = size /\ have' = have + Length(Piece(n))
        /\ complete' <=> Piece(n) = Refused
    BY <1>2 DEF Fetch
  <2>4. CASE have < size
    <3>1. have <= end /\ end < size
      BY <2>1, <2>4
    <3>2. Piece(n) = [start |-> have, end |-> end] /\ Piece(n) # Refused
      BY <2>1, <2>2, <3>1 DEF Of, Refused
    <3>3. Length(Piece(n)) = end - have + 1
      BY <3>2 DEF Length
    <3> HIDE DEF end
    <3>4. have' = end + 1
      BY <2>1, <2>2, <2>3, <3>3
    <3>5. HaveInv'
      BY <1>2, <2>1, <2>2, <2>3, <3>1, <3>4 DEF DownloadInv, HaveInv, SizeInv
    <3> QED
      BY <2>3, <3>2, <3>5 DEF DownloadInv
  <2>5. CASE have = size
    <3>1. Piece(n) = Refused
      BY <2>1, <2>2, <2>5 DEF Of
    <3>2. Length(Piece(n)) = 0
      BY <3>1 DEF Length, Refused
    <3>3. have' = have
      BY <2>1, <2>3, <3>2
    <3> QED
      BY <1>2, <2>3, <2>5, <3>3 DEF DownloadInv, HaveInv, SizeInv
  <2> QED
    BY <2>1, <2>4, <2>5
<1>3. DownloadInv /\ [RangeNext]_rangeVars => DownloadInv'
  <2>1. DownloadInv /\ UNCHANGED rangeVars => DownloadInv'
    BY DEF rangeVars, DownloadInv, HaveInv, SizeInv
  <2> QED
    BY <1>2, <2>1 DEF RangeNext
<1>4. DownloadInv => RefusedOnlyAtTheEnd
  BY DEF DownloadInv, HaveInv, RefusedOnlyAtTheEnd
<1> QED
  BY <1>1, <1>3, <1>4, PTL DEF RangeSpec
=============================================================================
