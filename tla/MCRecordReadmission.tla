------------------------ MODULE MCRecordReadmission ------------------------
(***************************************************************************)
(* Two stores with one slot each, of which one receives copies.  "small"   *)
(* has no queue, so four copies of two documents overflow it, also in the  *)
(* middle of a rescan.  "queued" has a queue of one, and its documents may *)
(* also be refused and its network left.  Lookups of d3 may hang.          *)
(***************************************************************************)
EXTENDS ReadmissionProperties, TLC

CONSTANTS c1, c2, c3, c4, q1, q2, q3
VARIABLE focus

MCDocumentOf == (c1 :> "d1" @@ c2 :> "d2" @@ c3 :> "d2" @@ c4 :> "d2")
             @@ (q1 :> "d3" @@ q2 :> "d4" @@ q3 :> "d4")
MCStoreOf == [d \in Documents |-> IF d \in {"d1", "d2"} THEN "small" ELSE "queued"]
MCMaxQueued == "small" :> 0 @@ "queued" :> 1

(* Copies come in this order, each after the verdict on the one before.    *)
Before == (c1 :> {} @@ c2 :> {c1} @@ c3 :> {c1, c2} @@ c4 :> {c1, c2, c3})
       @@ (q1 :> {} @@ q2 :> {q1} @@ q3 :> {q1, q2})

MCInit == ReadmissionInit /\ focus \in Stores

(* Only offers of Hanging documents outlive their copy; "small" is neither *)
(* left nor are its documents refused.                                     *)
MCNext ==
    /\ ReadmissionNext
    /\ UNCHANGED focus
    /\ \A r \in Records :
         entry'[r].stage # "new" =>
           StoreFor(r) = focus /\ \A p \in Before[r] : entry'[p].stage \notin {"new", "judging"}
    /\ \A r \in Records :
         entry'[r].stage = "done" /\ entry'[r].seen # Nothing => DocumentOf[r] \in Hanging
    /\ \A d \in Documents : verdict'[d] = "pending" \/ StoreOf[d] = focus
    /\ \A d \in Documents : verdict'[d] = "refused" => focus = "queued"
    /\ \A s \in Stores : store'[s].registered \/ (s = focus /\ focus = "queued")

MCSpec == MCInit /\ [][MCNext]_<<readmissionVars, focus>> /\ ReadmissionFairness
=============================================================================
