------------------------- MODULE HeldHeadProperties ------------------------
(***************************************************************************)
(* What the node promises about heads it cannot verify yet.                *)
(***************************************************************************)
EXTENDS HeldHeads

(* Whether a read of the key must wait (awaitsVerifiedHead).               *)
IsUnsettledHere(n, k) ==
    /\ k \notin verified[n]
    /\ k \in HeldKeys(held, n) \cup overflow[n].keys \cup overflow[n].ownKeys
Awaits(k) ==
    \E n \in Networks :
        /\ IsUnsettledHere(n, k)
        /\ k \in restored[n] \/ \A other \in Networks : k \notin verified[other]

(* No copy is held longer than its age and one retry interval, whenever    *)
(* the timer was started and stopped ("a hold must end by itself",         *)
(* OrbitDBReplicatedStateRegistry.ts:73-75, expireHeldCopies).             *)
HoldsEnd ==
    \A n \in Networks, h \in Heads :
        held[n][h] # NotHeld => held[n][h].rest >= -RetryEvery

(* A key of which a head was dropped and not looked at since is not read   *)
(* as missing: it waits, unless the network verified it or could not       *)
(* remember it.  A rescan that was past the key when it was dropped does   *)
(* not clear the overflow (rescanOverflowedHeads, recordHeadDrop).         *)
DroppedKeysWait ==
    \A n \in Networks : \A k \in unseen[n] :
        \/ k \in verified[n]
        \/ IsUnsettledHere(n, k)
        \/ Cardinality(overflow[n].keys) = MaxDroppedKeys

(* A key restored from the node's own cache waits until its own copy is    *)
(* admitted, refused or expired, a rescan of its network looked at it      *)
(* after it was dropped, or the node wrote the key: nothing a peer offers  *)
(* in any network ends the wait (settleHead, hasPendingOwnCopy,            *)
(* awaitsVerifiedHead; docs/pubsub-sync-protocol.md, "A key restored from  *)
(* the node's own head cache ends its wait only when").                    *)
RestoredKeysWait ==
    \A n \in Networks : \A h \in ownWaits[n] : Awaits(KeyOf[h])

(* More keys expired than the node remembers: an expiry is forgotten, of a *)
(* key that was remembered or of one that expires in the same retry.       *)
RememberedKeys == {e.key : e \in ToSet(expired)}
Forgets ==
    /\ Tick \/ WakeHeads
    /\ Len(expired') < Cardinality(RememberedKeys \cup ExpiredPairs)

(* While expiries are remembered, fresh copies do not renew a hold for     *)
(* good and overflows clear, however often peers send: only a node that    *)
(* forgets expiries again and again, as more than                          *)
(* MAX_EXPIRED_KEYS_REMEMBERED keys go on expiring, may have a read wait   *)
(* again and again, or for ever, on a key that never proves out            *)
(* (MAX_HOLDS_PER_HEAD_KEY, isCoolingDown, rememberExpiredKey,             *)
(* settleHeadOverflows).                                                   *)
WaitsEndForGood == []<><<Forgets>>_headVars \/ \A k \in Keys : <>[]~Awaits(k)

Clock == Pass \/ Tick \/ \E n \in Networks, h \in Heads : EndChain(n, h)
Rescans(n) == EndHeadRescan(n) \/ \E k \in Keys : RescanHead(n, k)

HeadFairness == WF_headVars(Clock) /\ \A n \in Networks : WF_headVars(Rescans(n))
=============================================================================
