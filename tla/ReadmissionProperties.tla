----------------------- MODULE ReadmissionProperties -----------------------
(***************************************************************************)
(* What the readmission of documents promises.  Timers fire and lookups    *)
(* resolve, except lookups of the documents in Hanging, which may not.     *)
(* Offers have a deadline and a rescan has none: one lookup that hangs     *)
(* keeps the rescan of its store.  So what rests on offers is promised     *)
(* next to hanging documents, and what rests on a rescan is promised to    *)
(* the stores without one.                                                 *)
(***************************************************************************)
EXTENDS RecordReadmission

CONSTANT Hanging   \* documents whose lookups may never resolve
ASSUME HangingAssumption == Hanging \subseteq Documents

Timers ==
    \/ \E r \in Records : Delay(r) \/ Deadline(r) \/ DrainOne(r)
    \/ StartDrain \/ EndDrain
Lookups ==
    \E r \in {c \in Records : DocumentOf[c] \notin Hanging} : Judge(r) \/ EndOffer(r)
RescanSteps(s) ==
    EndRescan(s) \/ RetryRescan(s) \/ \E d \in Documents \ Hanging : RescanOne(s, d)

ReadmissionFairness ==
    /\ WF_readmissionVars(Timers) /\ WF_readmissionVars(Lookups)
    /\ \A s \in Stores : WF_readmissionVars(RescanSteps(s))

Hangs(s) == \E d \in Hanging : StoreOf[d] = s

-----------------------------------------------------------------------------
(* Types, and that the count by which a read is told that a document is    *)
(* still waiting is the number of its waiting copies, whatever settles     *)
(* them and however late an offer ends                                     *)
(* (OrbitDBRecordReadmission.countSubject, settle, isPending).             *)
PendingCopies(d) == {r \in Records : DocumentOf[r] = d /\ Waiting(r)}
ReadmissionTypeOK ==
    /\ verdict \in [Documents -> Verdicts]
    /\ entry \in [Records -> Entry]
    /\ \A s \in Stores :
         /\ store[s].registered \in BOOLEAN /\ store[s].overflowed \in BOOLEAN
         /\ store[s].fresh \in BOOLEAN /\ store[s].rescan \in {"no", "running", "retry"}
         /\ store[s].subjects \in SUBSET Documents
         /\ store[s].todo \in SUBSET Documents /\ store[s].found \in SUBSET Documents
         /\ \A i \in DOMAIN store[s].queue : store[s].queue[i] \in Records
    /\ waking \in Waking
    /\ \A d \in Documents : pending[d] = Cardinality(PendingCopies(d))

(* isDocumentPendingAdmission, the answer a read waits on.                 *)
PendingAdmission(d) == pending[d] > 0 \/ d \in store[StoreOf[d]].subjects

(* A document that was dropped and that nothing has looked at since makes  *)
(* its reads wait, unless its store could not remember it: the overflow is *)
(* not cleared by a rescan that was past the document when it was dropped  *)
(* (OrbitDBRecordReadmission.rescan; "a read of the document must wait     *)
(* rather than answer missing", isDocumentPendingAdmission).               *)
DroppedReadsWait ==
    \A d \in missed : \/ PendingAdmission(d)
                      \/ Cardinality(store[StoreOf[d]].subjects) = MaxSubjects
                      \/ ~store[StoreOf[d]].registered

(* Every copy that was idle at a wake and is still active has been looked  *)
(* at since, or a drain that will reach it is under way or to come, also   *)
(* when the wake came in the middle of a drain                             *)
(* (OrbitDBRecordReadmission.wake, drain, rewake).                         *)
NoWakeIsLost ==
    \A r \in unheard \cap Active :
        \/ waking.timer \/ waking.rewake
        \/ waking.draining /\ r \in waking.left

(* Once copies stop coming (a model's copies come once), every copy is     *)
(* settled and every overflow ends: no lookup that hangs keeps its slot or *)
(* keeps others from theirs, and a rescan that failed, or that dropped     *)
(* copies meanwhile, is repeated (OrbitDBPendingRecordReadmission.arm,     *)
(* offer; OrbitDBRecordReadmission.settle, checkDrained, retryRescan).     *)
StoresDrain ==
    <>[](/\ \A r \in Records : ~Waiting(r)
         /\ \A s \in Stores : Hangs(s) \/ ~store[s].overflowed)

(* A document that is acceptable while a copy of it is queued, or idle     *)
(* with a delay to come, or dropped and not looked at, reaches the         *)
(* listeners, whatever hangs, fails or is dropped around it ("it is        *)
(* offered again a few times with backoff", "the rescan offers the drops   *)
(* again", OrbitDBRecordReadmission.ts:8-18).                              *)
HasChance(d) ==
    \/ d \in missed /\ ~Hangs(StoreOf[d])
    \/ \E r \in Records : /\ DocumentOf[r] = d
                          /\ \/ entry[r].stage = "queued"
                             \/ entry[r].stage = "active" /\ entry[r].armed
                                /\ entry[r].seen = Nothing
AcceptableArrive ==
    \A d \in Documents \ (Hanging \cup Failing) :
        verdict[d] = "accepted" /\ HasChance(d)
            ~> d \in delivered \/ ~store[StoreOf[d]].registered
=============================================================================
