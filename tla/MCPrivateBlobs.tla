--------------------------- MODULE MCPrivateBlobs ---------------------------
(***************************************************************************)
(* One blob with two uploads, a removal, faults and the sweep ("blob");    *)
(* three reservations of two owners beside one upload and the sweep        *)
(* ("quotas"); or, while the store rests, downloads of blobs of many sizes *)
(* ("downloads").                                                          *)
(***************************************************************************)
EXTENDS PrivateBlobProperties, PrivateBlobRange, TLC

CONSTANTS b1, b2, b3, u1
VARIABLE focus

(* With two bytes per owner and three per node, alice's two do not fit the *)
(* owner, b2 and b3 do not fit the node, and b1 and b3 do.                 *)
MCSizeOf == b1 :> 1 @@ b2 :> 2 @@ b3 :> 2
MCOwnerOf == b1 :> "alice" @@ b2 :> "alice" @@ b3 :> "bob"

(* The mailbox retention of the one blob is raised, and lowered again,     *)
(* between starts; that of the quotas is fixed.                            *)
MCFixed == [blob |-> 2, mailbox |-> 1]
MCSettings == {[blob |-> 1, mailbox |-> 1], [blob |-> 1, mailbox |-> 3], MCFixed}

MCInit ==
    /\ Init /\ RangeInit
    /\ focus \in {"blob", "quotas", "downloads"}
    /\ size # 1 => focus = "downloads"
    /\ focus = "blob" <=> limits # MCFixed

MCNext ==
    /\ UNCHANGED focus
    /\ IF focus = "downloads" THEN RangeNext /\ UNCHANGED vars
                             ELSE Next /\ UNCHANGED rangeVars
    /\ focus = "blob" => generated' \subseteq {b1} /\ limits' # MCFixed
    /\ focus = "quotas" => /\ limits' = MCFixed /\ now' <= 1 /\ faults' = 0
                          /\ \A u \in Uploads \ {u1} : uploads'[u] = Idle
                          /\ \A r \in Removals : removals'[r] = Idle

MCSpec == MCInit /\ [][MCNext]_<<vars, rangeVars, focus>> /\ WF_vars(SweepStep)
=============================================================================
