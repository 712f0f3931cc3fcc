----------------------------- MODULE HeldHeads -----------------------------
(***************************************************************************)
(* Replicated heads whose records cannot be verified yet                   *)
(* (OrbitDBReplicatedStateRegistry).  A node hosts several networks.  It   *)
(* holds the copies of a head that peers send, per network and head key,   *)
(* offers them to the gate again, and lets reads of a key wait while no    *)
(* head of it is verified.  Peers choose what they send, so every hold     *)
(* ends, keys that expired are not held again at once, and heads that have *)
(* no room are dropped and looked up again by a rescan of their network.   *)
(*                                                                         *)
(* Time is counted down: a copy, a cool-down, an offer chain and the retry *)
(* timer each have a rest, and Pass takes one unit from all of them.       *)
(***************************************************************************)
EXTENDS Integers, SequencesExt

CONSTANTS
    Networks, Keys, Heads,
    KeyOf,           \* [Heads -> Keys]
    Version,         \* [Heads -> Nat], the updatedAt of a head
    Proving,         \* heads with gated records to verify their key by
    Own,             \* [Networks -> SUBSET Heads], the persisted head cache
    MaxCopies,       \* held copies per key (8)
    MaxKeys,         \* held keys per network, active and queued (512)
    RoomKeys,        \* held keys below which a network has room (256)
    MaxDroppedKeys,  \* dropped keys a network remembers (1024)
    MaxExpiredKeys,  \* keys of any network whose expiry is remembered (1024)
    MaxHolds,        \* expiries after which a key is not held again (3)
    HoldAge,         \* units a copy is held (15 min)
    ChainAge,        \* units until an offer chain has retired (72 s)
    RetryEvery,      \* units between two retries (60 s)
    MaxRescanFailures

None == "none"

(* A persisted head cache has one head per key.                            *)
ASSUME HeadAssumption ==
    /\ None \notin Heads
    /\ KeyOf \in [Heads -> Keys] /\ Version \in [Heads -> Nat]
    /\ Proving \subseteq Heads /\ Own \in [Networks -> SUBSET Heads]
    /\ \A n \in Networks : \A g, h \in Own[n] : KeyOf[g] = KeyOf[h] => g = h
    /\ {MaxCopies, MaxKeys, RoomKeys, HoldAge, ChainAge, RetryEvery} \subseteq Nat \ {0}
    /\ {MaxDroppedKeys, MaxExpiredKeys, MaxHolds, MaxRescanFailures} \subseteq Nat

VARIABLES
    gate,        \* the verdict on each head now
    held,        \* unverifiedHeads: the held copies
    order,       \* unverifiedHeads lists the first of each pair of networks before the second
    chain,       \* the entries of headReadmissions
    offering,    \* what a running offer has read
    overflow,    \* overflowedHeadNetworks, the dropped keys and the rescans
    verified, restored,    \* verifiedHeadKeys, restoredHeadKeys
    expired,     \* expiredHeadKeys, the record of the latest expiry last
    retryTimer,  \* units until the next retry; -1 while stopped
    headStore,   \* the heads store of each network
    hydrated,    \* persisted heads that were restored
    rescanFailures,
    unseen,      \* history: dropped keys whose stored head was not looked at since
    ownWaits     \* history: own heads that were restored and not decided yet

headVars == <<gate, held, order, chain, offering, overflow, verified, restored, expired,
              retryTimer, headStore, hydrated, rescanFailures, unseen, ownWaits>>

GateVerdicts == {"pending", "accepted", "refused"}
Overdue == -(RetryEvery + 1)   \* where the count of an overdue copy stops

Copy == [rest : Overdue .. HoldAge, own : BOOLEAN]
NotHeld == [rest |-> Overdue - 1, own |-> FALSE]
Chain == [rest : 0 .. ChainAge, stale : BOOLEAN]
NoChain == [rest |-> -1, stale |-> FALSE]
Expiry == [key : Networks \X Keys, cool : 0 .. HoldAge, expiries : 0 .. MaxHolds]
HeadOverflow == [on : BOOLEAN, fresh : BOOLEAN, keys : SUBSET Keys, ownKeys : SUBSET Keys,
                 rescan : BOOLEAN, todo : SUBSET Keys]

PerHead(x) == [n \in Networks |-> [h \in Heads |-> x]]

HeadInit ==
    /\ gate = [h \in Heads |-> "pending"]
    /\ held = PerHead(NotHeld) /\ chain = PerHead(NoChain) /\ offering = PerHead(None)
    /\ order = {} /\ retryTimer = -1 /\ rescanFailures = 0
    /\ overflow = [n \in Networks |->
                     [on |-> FALSE, fresh |-> FALSE, keys |-> {}, ownKeys |-> {},
                      rescan |-> FALSE, todo |-> {}]]
    /\ verified = [n \in Networks |-> {}] /\ restored = [n \in Networks |-> {}]
    /\ expired = <<>>
    /\ headStore = [n \in Networks |-> [k \in Keys |-> None]]
    /\ hydrated = [n \in Networks |-> {}]
    /\ unseen = [n \in Networks |-> {}] /\ ownWaits = [n \in Networks |-> {}]

-----------------------------------------------------------------------------
HeldCopies(hd, n, k) == {h \in Heads : KeyOf[h] = k /\ hd[n][h] # NotHeld}
Copies(n, k) == HeldCopies(held, n, k)
HeldKeys(hd, n) == {KeyOf[h] : h \in {g \in Heads : hd[n][g] # NotHeld}}

(* hasHeadRoom *)
HasRoom(hd, n) ==
    /\ Cardinality(HeldKeys(hd, n)) < RoomKeys
    /\ \A k \in Keys : Cardinality(HeldCopies(hd, n, k)) < MaxCopies

(* isPending: a key with an offer chain, in whatever network.              *)
IsPending(k) == \E n \in Networks, h \in Heads : KeyOf[h] = k /\ chain[n][h] # NoChain

IsCoolingDown(n, k) ==
    \E e \in ToSet(expired) : e.key = <<n, k>> /\ (e.expiries >= MaxHolds \/ e.cool > 0)

(* settleHeadOverflows: every overflowed network with room is rescanned.   *)
Rescanning(ov, hd) ==
    [n \in Networks |->
        IF ov[n].on /\ ~ov[n].rescan /\ HasRoom(hd, n)
          THEN [ov[n] EXCEPT !.rescan = TRUE, !.fresh = FALSE,
                             !.todo = {k \in Keys : headStore[n][k] # None}]
          ELSE ov[n]]

(* The chain of a copy that is gone settles at its next offer, also when   *)
(* the same copy is held again before.                                     *)
Stale(ch, hd) ==
    [n \in Networks |-> [h \in Heads |->
        IF ch[n][h] # NoChain /\ hd[n][h] = NotHeld THEN [ch[n][h] EXCEPT !.stale = TRUE]
                                              ELSE ch[n][h]]]

StillHolding(hd) == {n \in Networks : HeldKeys(hd, n) # {}}
OrderIn(hd) == order \cap (StillHolding(hd) \X StillHolding(hd))

(* Copies leave; a network that is emptied looks for rescans to start.     *)
Release(hd, ch, ov) ==
    /\ held' = hd
    /\ order' = OrderIn(hd)
    /\ chain' = Stale(ch, hd)
    /\ overflow' = IF StillHolding(hd) # StillHolding(held) THEN Rescanning(ov, hd) ELSE ov

(* hasPendingOwnCopy *)
HasPendingOwnCopy(hd, n, k) ==
    /\ k \notin verified[n]
    /\ k \in overflow[n].ownKeys \/ \E h \in HeldCopies(hd, n, k) : hd[n][h].own

(* Mutant of IsKept: what a peer offers settles a restored key.            *)
NeverKept(hd, n, k, own) == FALSE

(* A key whose own copy still waits is settled by that copy alone.         *)
IsKept(hd, n, k, own) == ~own /\ HasPendingOwnCopy(hd, n, k)

(* settleHead: an accepted head verifies its key and supersedes the copies *)
(* that are not newer.                                                     *)
SettleHead(n, h, own, hd, ch, ov) ==
    LET k == KeyOf[h]
        rest == [hd EXCEPT ![n] =
                   [g \in Heads |-> IF KeyOf[g] = k /\ Version[g] <= Version[h]
                                      THEN NotHeld ELSE hd[n][g]]]
    IN  IF IsKept(hd, n, k, own)
          THEN Release(hd, ch, ov) /\ UNCHANGED verified
          ELSE /\ Release(rest, ch, ov)
               /\ verified' = [verified EXCEPT ![n] = IF h \in Proving THEN @ \cup {k} ELSE @]

(* Mutant of RetriesStarted: a running timer is started anew.              *)
RetriesRestarted == RetryEvery

(* startHeadRetries *)
RetriesStarted == IF retryTimer = -1 THEN RetryEvery ELSE retryTimer

(* recordHeadDrop: own keys are always remembered, others up to a bound.   *)
DropRecorded(n, k, ov) ==
    LET own == k \in restored'[n] IN
    [ov EXCEPT ![n].on = TRUE, ![n].fresh = TRUE,
               ![n].ownKeys = IF own THEN @ \cup {k} ELSE @,
               ![n].keys = IF ~own /\ Cardinality(@) < MaxDroppedKeys THEN @ \cup {k} ELSE @]

(* canHoldHead, and the bound on the copies of a key.                      *)
CanHold(n, k) ==
    /\ Copies(n, k) # {} \/ Cardinality(HeldKeys(held, n)) < MaxKeys
    /\ Cardinality(Copies(n, k)) < MaxCopies

(* holdUnverifiedHead: a copy that is held already waits once.             *)
Hold(n, h, own, ov) ==
    LET k == KeyOf[h] IN
    \/ /\ held[n][h] # NotHeld \/ IsCoolingDown(n, k)
       /\ overflow' = ov
       /\ UNCHANGED <<held, order, chain, retryTimer>>
    \/ /\ held[n][h] = NotHeld /\ ~IsCoolingDown(n, k) /\ ~CanHold(n, k)
       /\ overflow' = DropRecorded(n, k, ov)
       /\ retryTimer' = RetriesStarted
       /\ UNCHANGED <<held, order, chain>>
    \/ /\ held[n][h] = NotHeld /\ ~IsCoolingDown(n, k) /\ CanHold(n, k)
       /\ held' = [held EXCEPT ![n][h] = [rest |-> HoldAge, own |-> own]]
       /\ order' = IF n \in StillHolding(held) THEN order
                   ELSE order \cup (StillHolding(held) \X {n})
       /\ chain' = IF chain[n][h] # NoChain THEN chain
                   ELSE [chain EXCEPT ![n][h] = [rest |-> ChainAge, stale |-> FALSE]]
       /\ overflow' = ov
       /\ retryTimer' = RetriesStarted

IsDropped(n, h) ==
    /\ gate[h] = "pending" /\ held[n][h] = NotHeld
    /\ ~IsCoolingDown(n, KeyOf[h]) /\ ~CanHold(n, KeyOf[h])

(* admitHead: the gate decides what becomes of a head that is looked at.   *)
AdmitHead(n, h, own, ov) ==
    \/ /\ gate[h] = "pending"
       /\ Hold(n, h, own, ov)
       /\ UNCHANGED verified
    \/ /\ gate[h] = "accepted"
       /\ SettleHead(n, h, own, held, chain, ov)
       /\ UNCHANGED retryTimer
    \/ /\ gate[h] = "refused"
       /\ overflow' = ov
       /\ UNCHANGED <<held, order, chain, verified, retryTimer>>

(* What the histories keep of a look at the stored head.                   *)
Looked(n, h) ==
    unseen' = [unseen EXCEPT ![n] = IF IsDropped(n, h) THEN @ \cup {KeyOf[h]} ELSE @ \ {KeyOf[h]}]

-----------------------------------------------------------------------------
(* A head reaches the heads store of a network and is looked at.           *)
Receive(n, h) ==
    /\ headStore' = [headStore EXCEPT ![n][KeyOf[h]] = h]
    /\ restored' = restored
    /\ AdmitHead(n, h, FALSE, overflow)
    /\ Looked(n, h)
    /\ UNCHANGED <<gate, offering, expired, hydrated, rescanFailures, ownWaits>>

(* hydratePersistedHeadCache restores one persisted head of a network.     *)
Hydrate(n, h) ==
    /\ h \in Own[n] \ hydrated[n]
    /\ hydrated' = [hydrated EXCEPT ![n] = @ \cup {h}]
    /\ restored' = [restored EXCEPT ![n] = @ \cup {KeyOf[h]}]
    /\ AdmitHead(n, h, TRUE, overflow)
    /\ ownWaits' = IF gate[h] = "pending" /\ KeyOf[h] \notin verified[n] /\ ~IsCoolingDown(n, KeyOf[h])
                     THEN [ownWaits EXCEPT ![n] = @ \cup {h}] ELSE ownWaits
    /\ UNCHANGED <<gate, offering, expired, headStore, rescanFailures, unseen>>

(* cacheHeadLocally: the node writes the key itself.                       *)
WriteLocally(k) ==
    /\ verified' = [n \in Networks |-> verified[n] \cup {k}]
    /\ ownWaits' = [n \in Networks |-> {h \in ownWaits[n] : KeyOf[h] # k}]
    /\ UNCHANGED <<gate, held, order, chain, offering, overflow, restored, expired,
                   retryTimer, headStore, hydrated, rescanFailures, unseen>>

(* offerUnverifiedCopy starts.                                             *)
StartOffer(n, h) ==
    /\ chain[n][h] # NoChain /\ offering[n][h] = None
    /\ IF chain[n][h].stale
         THEN chain' = [chain EXCEPT ![n][h] = NoChain] /\ UNCHANGED offering
         ELSE offering' = [offering EXCEPT ![n][h] = gate[h]] /\ UNCHANGED chain
    /\ UNCHANGED <<gate, held, order, overflow, verified, restored, expired, retryTimer,
                   headStore, hydrated, rescanFailures, unseen, ownWaits>>

(* finishOffer, or the copy stays pending.  The copy may have expired, been *)
(* superseded or been held again since the offer started.                   *)
EndOffer(n, h) ==
    LET gone == [held EXCEPT ![n][h] = NotHeld]
        ended == [chain EXCEPT ![n][h] = NoChain]
        own == held[n][h].own
    IN  /\ offering[n][h] # None
        /\ offering' = [offering EXCEPT ![n][h] = None]
        /\ \/ /\ offering[n][h] = "pending"
              /\ UNCHANGED <<held, order, chain, overflow, verified, ownWaits>>
           \/ /\ offering[n][h] = "accepted"
              /\ SettleHead(n, h, own, gone, ended, overflow)
              /\ ownWaits' = [ownWaits EXCEPT ![n] = @ \ {h}]
           \/ /\ offering[n][h] = "refused"
              /\ Release(gone, ended, overflow)
              /\ ownWaits' = [ownWaits EXCEPT ![n] = @ \ {h}]
              /\ UNCHANGED verified
        /\ UNCHANGED <<gate, restored, expired, retryTimer, headStore, hydrated,
                       rescanFailures, unseen>>

(* The last delay of a chain passes.                                       *)
EndChain(n, h) ==
    /\ chain[n][h] # NoChain /\ chain[n][h].rest = 0
    /\ chain' = [chain EXCEPT ![n][h] = NoChain]
    /\ UNCHANGED <<gate, held, order, offering, overflow, verified, restored, expired,
                   retryTimer, headStore, hydrated, rescanFailures, unseen, ownWaits>>

-----------------------------------------------------------------------------
(* expireHeldCopies *)
Kept(n) == [h \in Heads |-> IF held[n][h] # NotHeld /\ held[n][h].rest <= 0 THEN NotHeld ELSE held[n][h]]
ExpiredKeys(n) == {KeyOf[h] : h \in {g \in Heads : held[n][g] # Kept(n)[g]}}

(* The key becomes the newest of the list; beyond the bound the oldest key  *)
(* is forgotten, with its count.                                           *)
Renewed(list, key, times) ==
    LET others == SelectSeq(list, LAMBDA e : e.key # key)
        all == Append(others, [key |-> key, cool |-> HoldAge, expiries |-> times])
    IN  IF Len(all) > MaxExpiredKeys THEN Tail(all) ELSE all

(* Mutant of Expire: only the cool-down is remembered, not the expiry.     *)
ExpireUncounted(list, key) == Renewed(list, key, 0)

(* rememberExpiredKey                                                      *)
Expire(list, key) ==
    LET before == {e.expiries : e \in {x \in ToSet(list) : x.key = key}}
        times == Max(before \cup {0})
    IN  Renewed(list, key, IF times < MaxHolds THEN times + 1 ELSE MaxHolds)

(* The keys whose copies expire now, network by network; the keys of one   *)
(* network in any order, as the order in which they came is not kept.      *)
ExpiredPairs == UNION {{n} \X ExpiredKeys(n) : n \in Networks}
Expirations ==
    {s \in SetToSeqs(ExpiredPairs) : \A i, j \in DOMAIN s :
        i < j => s[i][1] = s[j][1] \/ <<s[i][1], s[j][1]>> \in order}

(* offerIdleHeads, network by network: the chains that one network starts  *)
(* make the key pending for the networks after it.                         *)
IsFirstHolder(hd, n, k) ==
    \A m \in Networks \ {n} : k \in HeldKeys(hd, m) => <<n, m>> \in order
Offered(hd, n, h) ==
    hd[n][h] # NotHeld /\ ~IsPending(KeyOf[h]) /\ IsFirstHolder(hd, n, KeyOf[h])

NothingToRetry(hd) ==
    StillHolding(hd) = {} /\ \A n \in Networks : ~overflow[n].on

(* retryUnverifiedHeads, on a wake and on each retry.                      *)
Retry(timer) ==
    LET kept == [n \in Networks |-> Kept(n)] IN
    /\ held' = kept
    /\ order' = OrderIn(kept)
    /\ \E keys \in Expirations : expired' = FoldLeft(Expire, expired, keys)
    /\ overflow' = Rescanning(overflow, kept)
    /\ retryTimer' = IF NothingToRetry(kept) THEN -1 ELSE timer
    /\ chain' = [n \in Networks |-> [h \in Heads |->
                   IF Offered(kept, n, h) THEN [rest |-> ChainAge, stale |-> FALSE]
                                          ELSE Stale(chain, kept)[n][h]]]
    /\ ownWaits' = [n \in Networks |-> {h \in ownWaits[n] : held[n][h] = Kept(n)[h]}]
    /\ UNCHANGED <<gate, offering, verified, restored, headStore, hydrated, rescanFailures,
                   unseen>>

(* The interval timer fires.                                               *)
Tick == retryTimer = 0 /\ Retry(RetryEvery)

(* The node admits new state: wakeReadmissions.                            *)
Decide(h, v) ==
    /\ gate[h] = "pending" /\ v # "pending"
    /\ gate' = [gate EXCEPT ![h] = v]
    /\ UNCHANGED <<held, order, chain, offering, overflow, verified, restored, expired,
                   retryTimer, headStore, hydrated, rescanFailures, unseen, ownWaits>>
WakeHeads == retryTimer # 0 /\ Retry(retryTimer)

-----------------------------------------------------------------------------
(* reconcileHeadCache looks at every stored head of the network.           *)
RescanHead(n, k) ==
    LET h == headStore[n][k] IN
    /\ overflow[n].rescan /\ k \in overflow[n].todo
    /\ restored' = restored
    /\ AdmitHead(n, h, FALSE, [overflow EXCEPT ![n].todo = @ \ {k}])
    /\ Looked(n, h)
    /\ UNCHANGED <<gate, offering, expired, headStore, hydrated, rescanFailures, ownWaits>>

(* Mutant of HeadsRescanned: drops during the rescan are forgotten.             *)
ClearedAnyway(o) == [o EXCEPT !.rescan = FALSE, !.on = FALSE, !.keys = {}, !.ownKeys = {}]

(* clearHeadOverflow, if nothing was dropped meanwhile.                    *)
HeadsRescanned(o) ==
    IF o.fresh THEN [o EXCEPT !.rescan = FALSE]
    ELSE [o EXCEPT !.rescan = FALSE, !.on = FALSE, !.keys = {}, !.ownKeys = {}]

(* rescanOverflowedHeads *)
EndHeadRescan(n) ==
    /\ overflow[n].rescan /\ overflow[n].todo = {}
    /\ overflow' = [overflow EXCEPT ![n] = HeadsRescanned(@)]
    /\ ownWaits' = IF overflow[n].fresh THEN ownWaits
                   ELSE [ownWaits EXCEPT ![n] = {h \in @ : KeyOf[h] \notin overflow[n].ownKeys
                                                          \/ held[n][h].own}]
    /\ UNCHANGED <<gate, held, order, chain, offering, verified, restored, expired, retryTimer,
                   headStore, hydrated, rescanFailures, unseen>>

FailHeadRescan(n) ==
    /\ rescanFailures < MaxRescanFailures /\ overflow[n].rescan
    /\ rescanFailures' = rescanFailures + 1
    /\ overflow' = [overflow EXCEPT ![n].rescan = FALSE, ![n].todo = {}]
    /\ UNCHANGED <<gate, held, order, chain, offering, verified, restored, expired, retryTimer,
                   headStore, hydrated, unseen, ownWaits>>

(* One unit of time, once everything that is due has happened.             *)
Pass ==
    /\ retryTimer # 0
    /\ \A n \in Networks, h \in Heads : chain[n][h] = NoChain \/ chain[n][h].rest > 0
    /\ retryTimer' = IF retryTimer = -1 THEN -1 ELSE retryTimer - 1
    /\ held' = [n \in Networks |-> [h \in Heads |->
                  IF held[n][h] = NotHeld \/ held[n][h].rest = Overdue THEN held[n][h]
                  ELSE [held[n][h] EXCEPT !.rest = @ - 1]]]
    /\ chain' = [n \in Networks |-> [h \in Heads |->
                   IF chain[n][h] = NoChain THEN NoChain ELSE [chain[n][h] EXCEPT !.rest = @ - 1]]]
    /\ expired' = [i \in DOMAIN expired |->
                     [expired[i] EXCEPT !.cool = IF @ = 0 THEN 0 ELSE @ - 1]]
    /\ UNCHANGED <<gate, order, offering, overflow, verified, restored, headStore, hydrated,
                   rescanFailures, unseen, ownWaits>>

Peers == \E n \in Networks, h \in Heads : Receive(n, h)

Node ==
    \/ \E n \in Networks, h \in Heads :
         Hydrate(n, h) \/ StartOffer(n, h) \/ EndOffer(n, h) \/ EndChain(n, h)
    \/ \E k \in Keys : WriteLocally(k) \/ \E n \in Networks : RescanHead(n, k)
    \/ \E n \in Networks : EndHeadRescan(n) \/ FailHeadRescan(n)
    \/ \E h \in Heads, v \in GateVerdicts : Decide(h, v)
    \/ Tick \/ WakeHeads

HeadNext == Peers \/ Node \/ Pass

HeadSpec == HeadInit /\ [][HeadNext]_headVars

(* A peer's copy of an own head comes after the head was restored.         *)
OwnHeadsFirst ==
    \A n \in Networks, k \in Keys :
        headStore'[n][k] \in Own[n] => headStore'[n][k] \in hydrated'[n]

OrderlyHeadSpec == HeadInit /\ [][HeadNext /\ OwnHeadsFirst]_headVars
=============================================================================
