--------------------------- MODULE HeldHeadsProof ----------------------------
(***************************************************************************)
(* Holds end, dropped keys wait and restored keys wait, for any number of  *)
(* networks, keys, heads and copies and any bounds.                        *)
(***************************************************************************)
EXTENDS HeldHeadProperties, FiniteSetTheorems, TLAPS

HeldType == [Networks -> [Heads -> Copy \cup {NotHeld}]]
OverflowType == [Networks -> HeadOverflow]
KeySets == [Networks -> SUBSET Keys]

HeadTypes ==
    /\ held \in HeldType
    /\ overflow \in OverflowType
    /\ verified \in KeySets /\ restored \in KeySets /\ unseen \in KeySets
    /\ headStore \in [Networks -> [Keys -> Heads \cup {None}]]
    /\ \A n \in Networks, k \in Keys :
         headStore[n][k] # None => KeyOf[headStore[n][k]] = k
    /\ hydrated \in [Networks -> SUBSET Heads] /\ ownWaits \in [Networks -> SUBSET Heads]
    /\ retryTimer \in -1 .. RetryEvery

(* The retry timer runs while a copy is held, and a copy is overdue by     *)
(* less than what the timer has run.                                       *)
InTime(hd, t) ==
    \A n \in Networks, h \in Heads :
        hd[n][h] # NotHeld => t >= 0 /\ hd[n][h].rest >= t + 1 - RetryEvery

(* What an overflow o remembers of the keys us that were dropped and not   *)
(* looked at since, with stored heads st and verified keys ver.  A rescan  *)
(* that saw no drop has all of them still to do.                           *)
Remembers(o, us, st, ver) ==
    /\ us \subseteq st /\ o.todo \subseteq st
    /\ IsFiniteSet(o.keys) /\ Cardinality(o.keys) <= MaxDroppedKeys
    /\ o.rescan /\ ~o.fresh => us \subseteq o.todo
    /\ \A k \in us : \/ k \in ver \/ k \in o.keys \/ k \in o.ownKeys
                     \/ Cardinality(o.keys) = MaxDroppedKeys
StoredKeys(n) == {k \in Keys : headStore[n][k] # None}
DropsRemembered ==
    \A n \in Networks : Remembers(overflow[n], unseen[n], StoredKeys(n), verified[n])

HeadInv == HeadTypes /\ InTime(held, retryTimer) /\ DropsRemembered

-----------------------------------------------------------------------------
LEMMA HeadNumbers ==
    /\ HoldAge \in Nat \ {0} /\ RetryEvery \in Nat \ {0} /\ MaxDroppedKeys \in Nat
    /\ KeyOf \in [Heads -> Keys] /\ Overdue \in Int
BY HeadAssumption DEF Overdue

LEMMA NotHeldIsNoCopy ==
    /\ \A c \in Copy : c # NotHeld /\ c.rest \in Int /\ c.rest <= HoldAge /\ c.rest >= Overdue
                       /\ c.own \in BOOLEAN
    /\ NotHeld.own = FALSE /\ NotHeld.rest \in Int
BY HeadNumbers DEF Copy, NotHeld, Overdue

(* What may become of an overflow that settles: nothing, or a rescan.      *)
Settled(o, p, st) ==
    /\ p.keys = o.keys /\ p.ownKeys = o.ownKeys
    /\ \/ p.rescan = o.rescan /\ p.fresh = o.fresh /\ p.todo = o.todo
       \/ p.todo = st
AllSettled(ov) == \A m \in Networks : Settled(ov[m], overflow'[m], StoredKeys(m))

LEMMA RescanningShape ==
    ASSUME NEW ov \in OverflowType, NEW hd
    PROVE  /\ Rescanning(ov, hd) \in OverflowType
           /\ \A m \in Networks : Settled(ov[m], Rescanning(ov, hd)[m], StoredKeys(m))
<1> SUFFICES ASSUME NEW m \in Networks
             PROVE  /\ Rescanning(ov, hd)[m] \in HeadOverflow
                    /\ Settled(ov[m], Rescanning(ov, hd)[m], StoredKeys(m))
  BY DEF OverflowType, Rescanning
<1> DEFINE o == ov[m]
           p == [o EXCEPT !.rescan = TRUE, !.fresh = FALSE, !.todo = StoredKeys(m)]
<1>1. o \in HeadOverflow
  BY DEF OverflowType
<1>2. Rescanning(ov, hd)[m] = p \/ Rescanning(ov, hd)[m] = o
  BY DEF Rescanning, StoredKeys
<1> HIDE DEF o
<1>3. p \in HeadOverflow /\ Settled(o, p, StoredKeys(m))
  BY <1>1 DEF HeadOverflow, Settled, StoredKeys
<1>4. Settled(o, o, StoredKeys(m))
  BY DEF Settled
<1> QED
  BY <1>1, <1>2, <1>3, <1>4 DEF o

LEMMA ReleaseShape ==
    ASSUME NEW hd, NEW ch, NEW ov \in OverflowType, Release(hd, ch, ov)
    PROVE  held' = hd /\ overflow' \in OverflowType /\ AllSettled(ov)
<1>1. held' = hd /\ (overflow' = Rescanning(ov, hd) \/ overflow' = ov)
  BY DEF Release
<1>2. \A m \in Networks : Settled(ov[m], ov[m], StoredKeys(m))
  BY DEF Settled
<1> QED
  BY <1>1, <1>2, RescanningShape DEF AllSettled

(* Which copies leave and which keys are verified when a head settles.     *)
Leaves(hd, n, k, own) ==
    /\ held' \in HeldType
    /\ \A m \in Networks, g \in Heads :
         \/ held'[m][g] = hd[m][g]
         \/ held'[m][g] = NotHeld /\ m = n /\ KeyOf[g] = k /\ ~IsKept(hd, n, k, own)
    /\ verified' \in KeySets
    /\ \A m \in Networks :
         /\ verified[m] \subseteq verified'[m]
         /\ \A x \in verified'[m] \ verified[m] : m = n /\ x = k /\ ~IsKept(hd, n, k, own)

LEMMA SettleHeadShape ==
    ASSUME HeadTypes, NEW n \in Networks, NEW h \in Heads, NEW own \in BOOLEAN,
           NEW hd \in HeldType, NEW ch, NEW ov \in OverflowType,
           SettleHead(n, h, own, hd, ch, ov)
    PROVE  /\ Leaves(hd, n, KeyOf[h], own)
           /\ overflow' \in OverflowType /\ AllSettled(ov)
<1> DEFINE k == KeyOf[h]
           rest == [hd EXCEPT ![n] =
                      [g \in Heads |-> IF KeyOf[g] = k /\ Version[g] <= Version[h]
                                         THEN NotHeld ELSE hd[n][g]]]
<1>0. k \in Keys /\ verified \in KeySets
  BY HeadNumbers DEF HeadTypes
<1>1. CASE IsKept(hd, n, k, own)
  <2>1. Release(hd, ch, ov) /\ verified' = verified
    BY <1>1 DEF SettleHead
  <2> QED
    BY <1>0, <2>1, ReleaseShape DEF Leaves
<1>2. CASE ~IsKept(hd, n, k, own)
  <2>1. /\ Release(rest, ch, ov)
        /\ verified' = [verified EXCEPT ![n] = IF h \in Proving THEN @ \cup {k} ELSE @]
    BY <1>2 DEF SettleHead
  <2>2. rest \in HeldType
    BY DEF HeldType
  <2>3. \A m \in Networks, g \in Heads :
           rest[m][g] = hd[m][g] \/ (rest[m][g] = NotHeld /\ m = n /\ KeyOf[g] = k)
    BY DEF HeldType
  <2> HIDE DEF rest
  <2>4. held' = rest /\ overflow' \in OverflowType /\ AllSettled(ov)
    BY <2>1, ReleaseShape
  <2> HIDE DEF k
  <2>5. verified' \in KeySets
    BY <1>0, <2>1 DEF KeySets
  <2>6. \A m \in Networks : /\ verified[m] \subseteq verified'[m]
                            /\ \A x \in verified'[m] \ verified[m] : m = n /\ x = k
    BY <1>0, <2>1 DEF KeySets
  <2>7. Leaves(hd, n, k, own)
    BY <1>2, <2>2, <2>3, <2>4, <2>5, <2>6 DEF Leaves
  <2> QED
    BY <2>4, <2>7 DEF k
<1> QED
  BY <1>1, <1>2

(* What a look at a head does, by what becomes of the head.                *)
LookIsQuiet(n, h, own, ov) ==
    /\ ~IsDropped(n, h)
    /\ Leaves(held, n, KeyOf[h], own)
    /\ retryTimer' = retryTimer
    /\ overflow' \in OverflowType /\ AllSettled(ov)
    /\ gate[h] = "pending" => /\ held' = held /\ verified' = verified /\ overflow' = ov
                              /\ held[n][h] # NotHeld \/ IsCoolingDown(n, KeyOf[h])
LookDrops(n, h, ov) ==
    /\ IsDropped(n, h)
    /\ held' = held /\ verified' = verified /\ retryTimer' = RetriesStarted
    /\ overflow' = DropRecorded(n, KeyOf[h], ov)
LookHolds(n, h, own, ov) ==
    /\ ~IsDropped(n, h)
    /\ held[n][h] = NotHeld /\ verified' = verified /\ retryTimer' = RetriesStarted
    /\ held' = [held EXCEPT ![n][h] = [rest |-> HoldAge, own |-> own]]
    /\ overflow' = ov

LEMMA AdmitCases ==
    ASSUME HeadTypes, NEW n \in Networks, NEW h \in Heads, NEW own \in BOOLEAN,
           NEW ov \in OverflowType, AdmitHead(n, h, own, ov)
    PROVE  LookIsQuiet(n, h, own, ov) \/ LookDrops(n, h, ov) \/ LookHolds(n, h, own, ov)
<1>0. held \in HeldType /\ verified \in KeySets
  BY DEF HeadTypes
<1>1. \A m \in Networks : Settled(ov[m], ov[m], StoredKeys(m))
  BY DEF Settled
<1>2. held' = held /\ verified' = verified => Leaves(held, n, KeyOf[h], own)
  BY <1>0 DEF Leaves
<1>3. CASE gate[h] = "pending" /\ Hold(n, h, own, ov) /\ verified' = verified
  <2>1. CASE /\ held[n][h] # NotHeld \/ IsCoolingDown(n, KeyOf[h])
             /\ overflow' = ov /\ held' = held /\ retryTimer' = retryTimer
    BY <1>1, <1>2, <1>3, <2>1 DEF LookIsQuiet, IsDropped, AllSettled
  <2>2. CASE /\ held[n][h] = NotHeld /\ ~IsCoolingDown(n, KeyOf[h]) /\ ~CanHold(n, KeyOf[h])
             /\ overflow' = DropRecorded(n, KeyOf[h], ov) /\ retryTimer' = RetriesStarted
             /\ held' = held
    BY <1>3, <2>2 DEF LookDrops, IsDropped
  <2>3. CASE /\ held[n][h] = NotHeld /\ CanHold(n, KeyOf[h])
             /\ held' = [held EXCEPT ![n][h] = [rest |-> HoldAge, own |-> own]]
             /\ overflow' = ov /\ retryTimer' = RetriesStarted
    BY <1>3, <2>3 DEF LookHolds, IsDropped
  <2> QED
    BY <1>3, <2>1, <2>2, <2>3 DEF Hold
<1>4. CASE gate[h] = "accepted" /\ SettleHead(n, h, own, held, chain, ov) /\ retryTimer' = retryTimer
  BY <1>0, <1>4, SettleHeadShape DEF LookIsQuiet, IsDropped
<1>5. CASE gate[h] = "refused" /\ overflow' = ov /\ UNCHANGED <<held, verified, retryTimer>>
  BY <1>1, <1>2, <1>5 DEF LookIsQuiet, IsDropped, AllSettled
<1> QED
  BY <1>3, <1>4, <1>5 DEF AdmitHead

-----------------------------------------------------------------------------
(* Copies that stay or leave keep in time.                                 *)
LEMMA InTimeShrinks ==
    ASSUME NEW hd, NEW t, InTime(hd, t), NEW new,
           \A n \in Networks, h \in Heads : new[n][h] = hd[n][h] \/ new[n][h] = NotHeld
    PROVE  InTime(new, t)
BY DEF InTime

(* What an overflow remembers when it settles.                             *)
LEMMA SettledRemembers ==
    ASSUME NEW o, NEW p, NEW us, NEW st, NEW ver, Remembers(o, us, st, ver), Settled(o, p, st),
           NEW us2, us2 \subseteq us, NEW st2, st \subseteq st2, NEW ver2, ver \subseteq ver2
    PROVE  Remembers(p, us2, st2, ver2)
BY DEF Remembers, Settled

(* A drop is remembered, while the overflow has room for it.               *)
Drop(o, own, k) ==
    [o EXCEPT !.on = TRUE, !.fresh = TRUE,
              !.ownKeys = IF own THEN o.ownKeys \cup {k} ELSE o.ownKeys,
              !.keys = IF ~own /\ Cardinality(o.keys) < MaxDroppedKeys THEN o.keys \cup {k}
                                                                       ELSE o.keys]

LEMMA DropShape ==
    ASSUME NEW n \in Networks, NEW k \in Keys, NEW ov \in OverflowType
    PROVE  /\ DropRecorded(n, k, ov) \in OverflowType
           /\ DropRecorded(n, k, ov)[n] = Drop(ov[n], k \in restored'[n], k)
           /\ \A m \in Networks \ {n} : DropRecorded(n, k, ov)[m] = ov[m]
<1> DEFINE p == Drop(ov[n], k \in restored'[n], k)
<1>1. ov[n] \in HeadOverflow
  BY DEF OverflowType
<1>2. p \in HeadOverflow
  BY <1>1 DEF Drop, HeadOverflow
<1>3. DropRecorded(n, k, ov) = [ov EXCEPT ![n] = p]
  BY <1>1 DEF DropRecorded, Drop, OverflowType
<1> HIDE DEF p
<1> QED
  BY <1>2, <1>3 DEF OverflowType, p

LEMMA DropRemembers ==
    ASSUME NEW o \in HeadOverflow, NEW us, NEW st, NEW ver, Remembers(o, us, st, ver),
           NEW own \in BOOLEAN, NEW k \in Keys,
           NEW us2, us2 \subseteq us \cup {k},
           NEW st2, st \subseteq st2, us2 \subseteq st2
    PROVE  Remembers(Drop(o, own, k), us2, st2, ver)
<1> DEFINE p == Drop(o, own, k)
           c == Cardinality(o.keys)
<1>1. /\ p.fresh = TRUE /\ p.todo = o.todo
      /\ p.ownKeys = IF own THEN o.ownKeys \cup {k} ELSE o.ownKeys
      /\ p.keys = IF ~own /\ c < MaxDroppedKeys THEN o.keys \cup {k} ELSE o.keys
  BY DEF Drop, HeadOverflow
<1>2. IsFiniteSet(o.keys) /\ c \in Nat /\ c <= MaxDroppedKeys
  BY FS_CardinalityType DEF Remembers
<1>3. /\ IsFiniteSet(o.keys \cup {k})
      /\ Cardinality(o.keys \cup {k}) = IF k \in o.keys THEN c ELSE c + 1
  BY <1>2, FS_AddElement
<1> HIDE DEF p, c
<1>4. IsFiniteSet(p.keys) /\ Cardinality(p.keys) <= MaxDroppedKeys
  BY <1>1, <1>2, <1>3, HeadNumbers DEF c
<1>5. /\ o.keys \subseteq p.keys /\ o.ownKeys \subseteq p.ownKeys
      /\ \/ k \in p.keys \/ k \in p.ownKeys \/ Cardinality(p.keys) = MaxDroppedKeys
  BY <1>1, <1>2, HeadNumbers DEF c
<1>6. Cardinality(o.keys) = MaxDroppedKeys => Cardinality(p.keys) = MaxDroppedKeys
  BY <1>1, <1>2, HeadNumbers DEF c
<1>7. \A x \in us2 : \/ x \in ver \/ x \in p.keys \/ x \in p.ownKeys
                     \/ Cardinality(p.keys) = MaxDroppedKeys
  BY <1>5, <1>6 DEF Remembers
<1> QED
  BY <1>1, <1>4, <1>7 DEF Remembers, p

(* A look at a head keeps all parts of the invariant that it touches.      *)
LEMMA LookStep ==
    ASSUME HeadInv, NEW n \in Networks, NEW h \in Heads, NEW own \in BOOLEAN,
           NEW ov \in OverflowType, \A m \in Networks \ {n} : ov[m] = overflow[m],
           NEW us, Remembers(ov[n], us, StoredKeys(n), verified[n]),
           AdmitHead(n, h, own, ov),
           \A m \in Networks : StoredKeys(m) \subseteq StoredKeys(m)',
           \A m \in Networks : unseen'[m] \subseteq StoredKeys(m)',
           \A m \in Networks \ {n} : unseen'[m] \subseteq unseen[m],
           unseen'[n] \subseteq us \cup (IF IsDropped(n, h) THEN {KeyOf[h]} ELSE {})
    PROVE  /\ held' \in HeldType /\ overflow' \in OverflowType /\ verified' \in KeySets
           /\ retryTimer' \in -1 .. RetryEvery
           /\ InTime(held, retryTimer)' /\ DropsRemembered'
<1> DEFINE k == KeyOf[h]
<1>1. HeadTypes /\ InTime(held, retryTimer) /\ DropsRemembered
  BY DEF HeadInv
<1>2. k \in Keys
  BY HeadNumbers
<1>3. held \in HeldType /\ verified \in KeySets /\ retryTimer \in -1 .. RetryEvery
  BY <1>1 DEF HeadTypes
<1>4. RetriesStarted \in 0 .. RetryEvery
      /\ (retryTimer # -1 => RetriesStarted = retryTimer)
  BY <1>3, HeadNumbers DEF RetriesStarted
<1>5. \A m \in Networks :
         Remembers(ov[m], IF m = n THEN us ELSE unseen[m], StoredKeys(m), verified[m])
  BY <1>1 DEF DropsRemembered
<1>6. CASE LookIsQuiet(n, h, own, ov)
  <2>1. /\ held' \in HeldType /\ overflow' \in OverflowType /\ verified' \in KeySets
        /\ retryTimer' = retryTimer /\ AllSettled(ov) /\ ~IsDropped(n, h)
        /\ \A m \in Networks : verified[m] \subseteq verified'[m]
    BY <1>6 DEF LookIsQuiet, Leaves
  <2>2. InTime(held', retryTimer)
    <3>1. \A m \in Networks, g \in Heads : held'[m][g] = held[m][g] \/ held'[m][g] = NotHeld
      BY <1>6 DEF LookIsQuiet, Leaves
    <3> QED
      BY <1>1, <3>1, InTimeShrinks
  <2>3. ASSUME NEW m \in Networks
        PROVE  Remembers(overflow'[m], unseen'[m], StoredKeys(m)', verified'[m])
    <3>1. unseen'[m] \subseteq IF m = n THEN us ELSE unseen[m]
      BY <2>1
    <3>2. Settled(ov[m], overflow'[m], StoredKeys(m))
      BY <2>1 DEF AllSettled
    <3>3. Remembers(ov[m], IF m = n THEN us ELSE unseen[m], StoredKeys(m), verified[m])
      BY <1>5
    <3> QED
      BY <2>1, <3>1, <3>2, <3>3, SettledRemembers
  <2>4. DropsRemembered'
    BY <2>3 DEF DropsRemembered
  <2> QED
    BY <1>3, <2>1, <2>2, <2>4 DEF InTime
<1>7. CASE LookDrops(n, h, ov)
  <2>1. /\ held' = held /\ verified' = verified /\ retryTimer' = RetriesStarted
        /\ overflow' = DropRecorded(n, k, ov)
    BY <1>7 DEF LookDrops
  <2>2. InTime(held', retryTimer')
    BY <1>1, <1>4, <2>1 DEF InTime
  <2>3. /\ overflow' \in OverflowType
        /\ overflow'[n] = Drop(ov[n], k \in restored'[n], k)
        /\ \A m \in Networks \ {n} : overflow'[m] = ov[m]
    BY <1>2, <2>1, DropShape
  <2>4. Remembers(overflow'[n], unseen'[n], StoredKeys(n)', verified'[n])
    <3>1. ov[n] \in HeadOverflow
      BY DEF OverflowType
    <3>2. unseen'[n] \subseteq us \cup {k}
      OBVIOUS
    <3>3. (k \in restored'[n]) \in BOOLEAN
      OBVIOUS
    <3> DEFINE mine == k \in restored'[n]
    <3> HIDE DEF mine, k
    <3>4. Remembers(Drop(ov[n], mine, k), unseen'[n], StoredKeys(n)', verified[n])
      BY <1>2, <3>1, <3>2, <3>3, DropRemembers DEF mine
    <3> QED
      BY <2>1, <2>3, <3>4 DEF mine
  <2>5. ASSUME NEW m \in Networks \ {n}
        PROVE  Remembers(overflow'[m], unseen'[m], StoredKeys(m)', verified'[m])
    <3>1. Remembers(ov[m], unseen[m], StoredKeys(m), verified[m])
      BY <1>5
    <3>2. Settled(ov[m], ov[m], StoredKeys(m))
      BY DEF Settled
    <3> QED
      BY <2>1, <2>3, <3>1, <3>2, SettledRemembers
  <2>6. DropsRemembered'
    BY <2>4, <2>5 DEF DropsRemembered
  <2> QED
    BY <1>3, <1>4, <2>1, <2>2, <2>3, <2>6 DEF InTime
<1>8. CASE LookHolds(n, h, own, ov)
  <2> DEFINE c == [rest |-> HoldAge, own |-> own]
  <2>1. /\ held[n][h] = NotHeld /\ verified' = verified /\ retryTimer' = RetriesStarted
        /\ held' = [held EXCEPT ![n][h] = c] /\ overflow' = ov /\ ~IsDropped(n, h)
    BY <1>8 DEF LookHolds
  <2>2. c \in Copy /\ c.rest = HoldAge
    BY HeadNumbers DEF Copy, Overdue
  <2> HIDE DEF c
  <2>3. held' \in HeldType
    BY <1>3, <2>1, <2>2 DEF HeldType
  <2>4. \A m \in Networks, g \in Heads : held'[m][g] = held[m][g] \/ held'[m][g] = c
    BY <1>3, <2>1 DEF HeldType
  <2>5. InTime(held', retryTimer')
    <3> SUFFICES ASSUME NEW m \in Networks, NEW g \in Heads, held'[m][g] # NotHeld
                 PROVE  retryTimer' >= 0 /\ held'[m][g].rest >= retryTimer' + 1 - RetryEvery
      BY DEF InTime
    <3>1. CASE held'[m][g] = held[m][g]
      BY <1>1, <1>4, <2>1, <3>1 DEF InTime
    <3>2. CASE held'[m][g] = c
      BY <1>4, <2>1, <2>2, <3>2, HeadNumbers
    <3> QED
      BY <2>4, <3>1, <3>2
  <2>6. ASSUME NEW m \in Networks
        PROVE  Remembers(overflow'[m], unseen'[m], StoredKeys(m)', verified'[m])
    <3>1. Remembers(ov[m], IF m = n THEN us ELSE unseen[m], StoredKeys(m), verified[m])
      BY <1>5
    <3>2. Settled(ov[m], ov[m], StoredKeys(m))
      BY DEF Settled
    <3>3. unseen'[m] \subseteq IF m = n THEN us ELSE unseen[m]
      BY <2>1
    <3> QED
      BY <2>1, <3>1, <3>2, <3>3, SettledRemembers
  <2>7. DropsRemembered'
    BY <2>6 DEF DropsRemembered
  <2> QED
    BY <1>4, <2>1, <2>3, <2>5, <2>7, <1>3 DEF InTime
<1> QED
  BY <1>1, <1>6, <1>7, <1>8, AdmitCases

-----------------------------------------------------------------------------
LEMMA HeadInvInit == HeadInit => HeadInv
<1> SUFFICES ASSUME HeadInit PROVE HeadInv
  OBVIOUS
<1>1. HeadTypes
  BY HeadNumbers DEF HeadInit, HeadTypes, HeldType, OverflowType, KeySets, PerHead, HeadOverflow
<1>2. InTime(held, retryTimer)
  BY DEF HeadInit, InTime, PerHead
<1>3. IsFiniteSet({}) /\ Cardinality({}) = 0
  BY FS_EmptySet
<1>4. DropsRemembered
  <2>1. ASSUME NEW n \in Networks
        PROVE  /\ overflow[n].keys = {} /\ overflow[n].todo = {} /\ overflow[n].rescan = FALSE
               /\ unseen[n] = {}
    BY DEF HeadInit
  <2>2. ASSUME NEW n \in Networks
        PROVE  Remembers(overflow[n], unseen[n], StoredKeys(n), verified[n])
    <3> DEFINE keys == overflow[n].keys
               todo == overflow[n].todo
               us == unseen[n]
    <3>1. keys = {} /\ todo = {} /\ us = {} /\ ~overflow[n].rescan
      BY <2>1
    <3> HIDE DEF keys, todo, us
    <3>2. IsFiniteSet(keys) /\ Cardinality(keys) <= MaxDroppedKeys
      BY <1>3, <3>1, HeadNumbers
    <3> QED
      BY <3>1, <3>2 DEF Remembers, keys, todo, us
  <2> QED
    BY <2>2 DEF DropsRemembered
<1> QED
  BY <1>1, <1>2, <1>4 DEF HeadInv

(* A step that takes copies away, drops nothing and looks at nothing.      *)
LEMMA LosesStep ==
    ASSUME HeadInv, held' \in HeldType,
           \A m \in Networks, g \in Heads : held'[m][g] = held[m][g] \/ held'[m][g] = NotHeld,
           overflow' \in OverflowType,
           \A m \in Networks : Settled(overflow[m], overflow'[m], StoredKeys(m)),
           verified' \in KeySets, \A m \in Networks : verified[m] \subseteq verified'[m],
           ownWaits' \in [Networks -> SUBSET Heads],
           UNCHANGED <<restored, unseen, headStore, hydrated, retryTimer>>
    PROVE  HeadInv'
<1>1. HeadTypes'
  BY DEF HeadInv, HeadTypes
<1>2. InTime(held', retryTimer')
  BY InTimeShrinks DEF HeadInv
<1>3. ASSUME NEW m \in Networks
      PROVE  Remembers(overflow'[m], unseen'[m], StoredKeys(m)', verified'[m])
  <2>1. Remembers(overflow[m], unseen[m], StoredKeys(m), verified[m])
    BY DEF HeadInv, DropsRemembered
  <2>2. unseen'[m] = unseen[m] /\ StoredKeys(m)' = StoredKeys(m)
    BY DEF StoredKeys
  <2> QED
    BY <2>1, <2>2, SettledRemembers
<1> QED
  BY <1>1, <1>2, <1>3 DEF HeadInv, DropsRemembered, InTime

LEMMA SettledSame == \A o, st : Settled(o, o, st)
BY DEF Settled

LEMMA ReceiveStep ==
    ASSUME HeadInv, NEW n \in Networks, NEW h \in Heads, Receive(n, h)
    PROVE  HeadInv'
<1> DEFINE k == KeyOf[h]
<1>1. HeadTypes /\ DropsRemembered
  BY DEF HeadInv
<1>2. k \in Keys /\ h # None
  BY HeadNumbers, HeadAssumption
<1>3. /\ overflow \in OverflowType /\ unseen \in KeySets
      /\ headStore \in [Networks -> [Keys -> Heads \cup {None}]]
  BY <1>1 DEF HeadTypes
<1>4. /\ headStore' = [headStore EXCEPT ![n][k] = h] /\ AdmitHead(n, h, FALSE, overflow)
      /\ unseen' = [unseen EXCEPT ![n] = IF IsDropped(n, h) THEN @ \cup {k} ELSE @ \ {k}]
      /\ restored' = restored /\ hydrated' = hydrated /\ ownWaits' = ownWaits
  BY DEF Receive, Looked
<1> HIDE DEF k
<1>5. /\ headStore' \in [Networks -> [Keys -> Heads \cup {None}]]
      /\ \A m \in Networks, x \in Keys : headStore'[m][x] = IF m = n /\ x = k THEN h ELSE headStore[m][x]
  BY <1>2, <1>3, <1>4
<1>6. \A m \in Networks, x \in Keys : headStore'[m][x] # None => KeyOf[headStore'[m][x]] = x
  BY <1>1, <1>5 DEF HeadTypes, k
<1>7. \A m \in Networks : StoredKeys(m) \subseteq StoredKeys(m)'
  BY <1>2, <1>5 DEF StoredKeys
<1>8. k \in StoredKeys(n)'
  BY <1>2, <1>5 DEF StoredKeys
<1>9. \A m \in Networks : unseen[m] \subseteq StoredKeys(m)
  BY <1>1 DEF DropsRemembered, Remembers
<1>10. /\ unseen' \in KeySets
       /\ \A m \in Networks \ {n} : unseen'[m] = unseen[m]
       /\ unseen'[n] = IF IsDropped(n, h) THEN unseen[n] \cup {k} ELSE unseen[n] \ {k}
  BY <1>2, <1>3, <1>4 DEF KeySets
<1>11. \A m \in Networks : unseen'[m] \subseteq StoredKeys(m)'
  BY <1>7, <1>8, <1>9, <1>10
<1>12. unseen'[n] \subseteq unseen[n] \cup (IF IsDropped(n, h) THEN {k} ELSE {})
  BY <1>10
<1>13. Remembers(overflow[n], unseen[n], StoredKeys(n), verified[n])
  BY <1>1 DEF DropsRemembered
<1>14. /\ held' \in HeldType /\ overflow' \in OverflowType /\ verified' \in KeySets
       /\ retryTimer' \in -1 .. RetryEvery
       /\ InTime(held, retryTimer)' /\ DropsRemembered'
  BY <1>3, <1>4, <1>7, <1>10, <1>11, <1>12, <1>13, LookStep DEF k
<1>15. HeadTypes'
  BY <1>1, <1>4, <1>5, <1>6, <1>10, <1>14 DEF HeadTypes
<1> QED
  BY <1>14, <1>15 DEF HeadInv

LEMMA HydrateStep ==
    ASSUME HeadInv, NEW n \in Networks, NEW h \in Heads, Hydrate(n, h)
    PROVE  HeadInv'
<1>1. HeadTypes /\ DropsRemembered
  BY DEF HeadInv
<1>2. KeyOf[h] \in Keys
  BY HeadNumbers
<1>3. /\ hydrated' = [hydrated EXCEPT ![n] = @ \cup {h}]
      /\ restored' = [restored EXCEPT ![n] = @ \cup {KeyOf[h]}]
      /\ AdmitHead(n, h, TRUE, overflow)
      /\ headStore' = headStore /\ unseen' = unseen
      /\ ownWaits' = [ownWaits EXCEPT ![n] = @ \cup {h}] \/ ownWaits' = ownWaits
  BY DEF Hydrate
<1>4. /\ restored' \in KeySets /\ hydrated' \in [Networks -> SUBSET Heads]
      /\ ownWaits' \in [Networks -> SUBSET Heads]
  BY <1>1, <1>2, <1>3 DEF HeadTypes, KeySets
<1>5. overflow \in OverflowType
  BY <1>1 DEF HeadTypes
<1>6. \A m \in Networks : unseen'[m] = unseen[m] /\ StoredKeys(m)' = StoredKeys(m)
  BY <1>3 DEF StoredKeys
<1>7. \A m \in Networks : Remembers(overflow[m], unseen[m], StoredKeys(m), verified[m])
  BY <1>1 DEF DropsRemembered
<1>8. \A m \in Networks : unseen'[m] \subseteq StoredKeys(m)'
  BY <1>6, <1>7 DEF Remembers
<1>9. /\ held' \in HeldType /\ overflow' \in OverflowType /\ verified' \in KeySets
      /\ retryTimer' \in -1 .. RetryEvery
      /\ InTime(held, retryTimer)' /\ DropsRemembered'
  BY <1>3, <1>5, <1>6, <1>7, <1>8, LookStep
<1>10. HeadTypes'
  BY <1>1, <1>3, <1>4, <1>9 DEF HeadTypes
<1> QED
  BY <1>9, <1>10 DEF HeadInv

LEMMA RescanHeadStep ==
    ASSUME HeadInv, NEW n \in Networks, NEW k \in Keys, RescanHead(n, k)
    PROVE  HeadInv'
<1> DEFINE h == headStore[n][k]
           o == [overflow[n] EXCEPT !.todo = @ \ {k}]
           ov == [overflow EXCEPT ![n].todo = @ \ {k}]
           us == unseen[n] \ {k}
<1>1. HeadTypes /\ DropsRemembered
  BY DEF HeadInv
<1>2. /\ overflow \in OverflowType /\ unseen \in KeySets /\ overflow[n] \in HeadOverflow
      /\ headStore \in [Networks -> [Keys -> Heads \cup {None}]]
  BY <1>1 DEF HeadTypes, OverflowType
<1>3. Remembers(overflow[n], unseen[n], StoredKeys(n), verified[n])
  BY <1>1 DEF DropsRemembered
<1>4. /\ k \in overflow[n].todo /\ AdmitHead(n, h, FALSE, ov)
      /\ unseen' = [unseen EXCEPT ![n] = IF IsDropped(n, h) THEN @ \cup {KeyOf[h]}
                                                            ELSE @ \ {KeyOf[h]}]
      /\ UNCHANGED <<restored, headStore, hydrated, ownWaits>>
  BY DEF RescanHead, Looked
<1>5. k \in StoredKeys(n) /\ h \in Heads /\ KeyOf[h] = k
  BY <1>1, <1>2, <1>3, <1>4 DEF HeadTypes, Remembers, StoredKeys
<1>6. /\ unseen' \in KeySets
      /\ \A m \in Networks \ {n} : unseen'[m] = unseen[m]
      /\ unseen'[n] \subseteq us \cup (IF IsDropped(n, h) THEN {k} ELSE {})
  BY <1>2, <1>4, <1>5 DEF KeySets
<1>7. /\ ov = [overflow EXCEPT ![n] = o] /\ o \in HeadOverflow
      /\ o.keys = overflow[n].keys /\ o.ownKeys = overflow[n].ownKeys
      /\ o.rescan = overflow[n].rescan /\ o.fresh = overflow[n].fresh
      /\ o.todo = overflow[n].todo \ {k}
  BY <1>2 DEF OverflowType, HeadOverflow
<1> HIDE DEF o, ov
<1>8. ov \in OverflowType /\ ov[n] = o /\ \A m \in Networks \ {n} : ov[m] = overflow[m]
  BY <1>2, <1>7 DEF OverflowType
<1>9. Remembers(o, us, StoredKeys(n), verified[n])
  BY <1>3, <1>7 DEF Remembers
<1>10. \A m \in Networks : StoredKeys(m)' = StoredKeys(m) /\ unseen[m] \subseteq StoredKeys(m)
  BY <1>1, <1>4 DEF StoredKeys, DropsRemembered, Remembers
<1>11. \A m \in Networks : unseen'[m] \subseteq StoredKeys(m)'
  BY <1>5, <1>6, <1>10
<1> HIDE DEF h, us
<1>12. /\ held' \in HeldType /\ overflow' \in OverflowType /\ verified' \in KeySets
       /\ retryTimer' \in -1 .. RetryEvery
       /\ InTime(held, retryTimer)' /\ DropsRemembered'
  BY <1>4, <1>5, <1>6, <1>8, <1>9, <1>10, <1>11, LookStep
<1>13. HeadTypes'
  BY <1>1, <1>4, <1>6, <1>12 DEF HeadTypes
<1> QED
  BY <1>12, <1>13 DEF HeadInv

LEMMA EndOfferStep ==
    ASSUME HeadInv, NEW n \in Networks, NEW h \in Heads, EndOffer(n, h)
    PROVE  HeadInv'
<1> DEFINE gone == [held EXCEPT ![n][h] = NotHeld]
           ended == [chain EXCEPT ![n][h] = NoChain]
<1>1. HeadTypes
  BY DEF HeadInv
<1>2. /\ held \in HeldType /\ overflow \in OverflowType /\ verified \in KeySets
      /\ ownWaits \in [Networks -> SUBSET Heads]
  BY <1>1 DEF HeadTypes
<1>3. /\ gone \in HeldType
      /\ \A m \in Networks, g \in Heads : gone[m][g] = held[m][g] \/ gone[m][g] = NotHeld
  BY <1>2 DEF HeldType
<1>4. /\ UNCHANGED <<restored, unseen, headStore, hydrated, retryTimer>>
      /\ ownWaits' = [ownWaits EXCEPT ![n] = @ \ {h}] \/ ownWaits' = ownWaits
      /\ \/ UNCHANGED <<held, overflow, verified>>
         \/ SettleHead(n, h, held[n][h].own, gone, ended, overflow)
         \/ Release(gone, ended, overflow) /\ UNCHANGED verified
  BY DEF EndOffer
<1>5. ownWaits' \in [Networks -> SUBSET Heads]
  BY <1>2, <1>4
<1>6. held[n][h].own \in BOOLEAN
  <2>1. held[n][h] \in Copy \cup {NotHeld}
    BY <1>2 DEF HeldType
  <2> QED
    BY <2>1, NotHeldIsNoCopy
<1> HIDE DEF gone, ended
<1>7. CASE UNCHANGED <<held, overflow, verified>>
  BY <1>2, <1>4, <1>5, <1>7, LosesStep, SettledSame
<1>8. CASE SettleHead(n, h, held[n][h].own, gone, ended, overflow)
  <2>1. Leaves(gone, n, KeyOf[h], held[n][h].own) /\ overflow' \in OverflowType /\ AllSettled(overflow)
    BY <1>1, <1>2, <1>3, <1>6, <1>8, SettleHeadShape
  <2>2. /\ held' \in HeldType /\ verified' \in KeySets
        /\ \A m \in Networks : verified[m] \subseteq verified'[m]
        /\ \A m \in Networks, g \in Heads : held'[m][g] = gone[m][g] \/ held'[m][g] = NotHeld
    BY <2>1 DEF Leaves
  <2>3. \A m \in Networks, g \in Heads : held'[m][g] = held[m][g] \/ held'[m][g] = NotHeld
    BY <1>3, <2>2
  <2> QED
    BY <1>4, <1>5, <2>1, <2>2, <2>3, LosesStep DEF AllSettled
<1>9. CASE Release(gone, ended, overflow) /\ UNCHANGED verified
  <2>1. held' = gone /\ overflow' \in OverflowType /\ AllSettled(overflow)
    BY <1>2, <1>9, ReleaseShape
  <2> QED
    BY <1>2, <1>3, <1>4, <1>5, <1>9, <2>1, LosesStep DEF AllSettled
<1> QED
  BY <1>4, <1>7, <1>8, <1>9

(* Writes, offers that begin, ends of chains and decisions of the gate.    *)
LEMMA QuietHeadStep ==
    ASSUME HeadInv,
           UNCHANGED <<held, overflow, restored, unseen, headStore, hydrated, retryTimer>>,
           \/ UNCHANGED <<verified, ownWaits>>
           \/ \E k \in Keys : WriteLocally(k)
    PROVE  HeadInv'
<1>1. HeadTypes
  BY DEF HeadInv
<1>2. /\ held \in HeldType /\ overflow \in OverflowType /\ verified \in KeySets
      /\ ownWaits \in [Networks -> SUBSET Heads]
  BY <1>1 DEF HeadTypes
<1>3. /\ verified' \in KeySets /\ ownWaits' \in [Networks -> SUBSET Heads]
      /\ \A m \in Networks : verified[m] \subseteq verified'[m]
  <2>1. CASE UNCHANGED <<verified, ownWaits>>
    BY <1>2, <2>1
  <2>2. ASSUME NEW k \in Keys, WriteLocally(k)
        PROVE  /\ verified' \in KeySets /\ ownWaits' \in [Networks -> SUBSET Heads]
               /\ \A m \in Networks : verified[m] \subseteq verified'[m]
    BY <1>2, <2>2 DEF WriteLocally, KeySets
  <2> QED
    BY <2>1, <2>2
<1> QED
  BY <1>2, <1>3, LosesStep, SettledSame

LEMMA EndRescanStep ==
    ASSUME HeadInv, NEW n \in Networks, EndHeadRescan(n) \/ FailHeadRescan(n)
    PROVE  HeadInv'
<1> DEFINE o == overflow[n]
           failed == [o EXCEPT !.rescan = FALSE, !.todo = {}]
<1>1. HeadTypes /\ DropsRemembered
  BY DEF HeadInv
<1>2. /\ overflow \in OverflowType /\ o \in HeadOverflow /\ ownWaits \in [Networks -> SUBSET Heads]
  BY <1>1 DEF HeadTypes, OverflowType
<1>3. UNCHANGED <<held, verified, restored, unseen, headStore, hydrated, retryTimer>>
  BY DEF EndHeadRescan, FailHeadRescan
<1>4. Remembers(o, unseen[n], StoredKeys(n), verified[n])
  BY <1>1 DEF DropsRemembered
<1>5. \E p \in HeadOverflow :
         overflow' = [overflow EXCEPT ![n] = p] /\ Remembers(p, unseen[n], StoredKeys(n), verified[n])
  <2>1. CASE EndHeadRescan(n)
    <3>1. overflow' = [overflow EXCEPT ![n] = HeadsRescanned(o)] /\ o.rescan /\ o.todo = {}
      BY <2>1 DEF EndHeadRescan
    <3> HIDE DEF o
    <3>2. HeadsRescanned(o) \in HeadOverflow
      BY <1>2 DEF HeadsRescanned, HeadOverflow
    <3>3. CASE o.fresh
      <4>1. HeadsRescanned(o) = [o EXCEPT !.rescan = FALSE]
        BY <3>3 DEF HeadsRescanned
      <4>2. Remembers(HeadsRescanned(o), unseen[n], StoredKeys(n), verified[n])
        BY <1>2, <1>4, <4>1 DEF Remembers, HeadOverflow
      <4> QED
        BY <3>1, <3>2, <4>2
    <3>4. CASE ~o.fresh
      <4>1. HeadsRescanned(o) = [o EXCEPT !.rescan = FALSE, !.on = FALSE, !.keys = {}, !.ownKeys = {}]
        BY <3>4 DEF HeadsRescanned
      <4>2. unseen[n] = {}
        BY <1>4, <3>1, <3>4 DEF Remembers
      <4>3. IsFiniteSet({}) /\ Cardinality({}) = 0
        BY FS_EmptySet
      <4>4. Remembers(HeadsRescanned(o), unseen[n], StoredKeys(n), verified[n])
        BY <1>2, <1>4, <3>1, <4>1, <4>2, <4>3, HeadNumbers DEF Remembers, HeadOverflow
      <4> QED
        BY <3>1, <3>2, <4>4
    <3> QED
      BY <3>3, <3>4
  <2>2. CASE FailHeadRescan(n)
    <3>1. overflow' = [overflow EXCEPT ![n] = failed]
      BY <1>2, <2>2 DEF FailHeadRescan, OverflowType
    <3> HIDE DEF o
    <3>2. failed \in HeadOverflow /\ Remembers(failed, unseen[n], StoredKeys(n), verified[n])
      BY <1>2, <1>4 DEF Remembers, HeadOverflow
    <3> QED
      BY <3>1, <3>2
  <2> QED
    BY <2>1, <2>2
<1>6. ownWaits' \in [Networks -> SUBSET Heads]
  <2>1. CASE ownWaits' = ownWaits
    BY <1>2, <2>1
  <2>2. CASE ownWaits' # ownWaits
    <3>1. ownWaits' = [ownWaits EXCEPT ![n] = {h \in ownWaits[n] : KeyOf[h] \notin o.ownKeys
                                                                  \/ held[n][h].own}]
      BY <2>2 DEF EndHeadRescan, FailHeadRescan
    <3>2. {h \in ownWaits[n] : KeyOf[h] \notin o.ownKeys \/ held[n][h].own} \in SUBSET Heads
      BY <1>2
    <3> QED
      BY <1>2, <3>1, <3>2
  <2> QED
    BY <2>1, <2>2
<1> HIDE DEF o
<1>7. PICK p \in HeadOverflow : /\ overflow' = [overflow EXCEPT ![n] = p]
                                /\ Remembers(p, unseen[n], StoredKeys(n), verified[n])
  BY <1>5
<1>8. overflow' \in OverflowType
  BY <1>2, <1>7 DEF OverflowType
<1>9. HeadTypes'
  BY <1>1, <1>3, <1>6, <1>8 DEF HeadTypes
<1>10. ASSUME NEW m \in Networks
       PROVE  Remembers(overflow[m], unseen[m], StoredKeys(m), verified[m])'
  <2>1. Remembers(overflow[m], unseen[m], StoredKeys(m), verified[m])
    BY <1>1 DEF DropsRemembered
  <2>2. overflow'[m] = IF m = n THEN p ELSE overflow[m]
    BY <1>2, <1>7 DEF OverflowType
  <2>3. StoredKeys(m)' = StoredKeys(m)
    BY <1>3 DEF StoredKeys
  <2> QED
    BY <1>3, <1>7, <2>1, <2>2, <2>3
<1>11. DropsRemembered'
  BY <1>10 DEF DropsRemembered
<1> QED
  BY <1>3, <1>9, <1>11 DEF HeadInv, InTime

(* A retry takes all overdue copies away, and stops the timer only if      *)
(* nothing is held then.                                                   *)
LEMMA RetryStep ==
    ASSUME HeadInv, NEW t, Retry(t), t = retryTimer \/ t = RetryEvery
    PROVE  HeadInv'
<1> DEFINE kept == [n \in Networks |-> Kept(n)]
<1>1. HeadTypes /\ InTime(held, retryTimer) /\ DropsRemembered
  BY DEF HeadInv
<1>2. /\ held \in HeldType /\ overflow \in OverflowType /\ retryTimer \in -1 .. RetryEvery
      /\ ownWaits \in [Networks -> SUBSET Heads]
  BY <1>1 DEF HeadTypes
<1>3. /\ held' = kept /\ overflow' = Rescanning(overflow, kept)
      /\ retryTimer' = IF NothingToRetry(kept) THEN -1 ELSE t
      /\ ownWaits' = [n \in Networks |-> {h \in ownWaits[n] : held[n][h] = Kept(n)[h]}]
      /\ UNCHANGED <<verified, restored, unseen, headStore, hydrated>>
  BY DEF Retry
<1>4. \A n \in Networks, h \in Heads :
         kept[n][h] = IF held[n][h] # NotHeld /\ held[n][h].rest <= 0 THEN NotHeld ELSE held[n][h]
  BY DEF Kept
<1>5. kept \in HeldType
  BY <1>2 DEF HeldType, Kept
<1> HIDE DEF kept
<1>6. overflow' \in OverflowType /\ AllSettled(overflow)
  BY <1>2, <1>3, RescanningShape DEF AllSettled
<1>7. ownWaits' \in [Networks -> SUBSET Heads]
  BY <1>2, <1>3
<1>8. retryTimer' \in -1 .. RetryEvery
  BY <1>2, <1>3, HeadNumbers
<1>9. InTime(kept, retryTimer')
  <2> SUFFICES ASSUME NEW n \in Networks, NEW h \in Heads, kept[n][h] # NotHeld
               PROVE  retryTimer' >= 0 /\ kept[n][h].rest >= retryTimer' + 1 - RetryEvery
    BY DEF InTime
  <2>1. kept[n][h] = held[n][h] /\ ~(held[n][h].rest <= 0) /\ held[n][h] # NotHeld
    BY <1>4
  <2>2. held[n][h] \in Copy
    BY <1>2, <2>1 DEF HeldType
  <2>3. held[n][h].rest \in Int /\ held[n][h].rest >= 1
    BY <2>1, <2>2, NotHeldIsNoCopy
  <2>4. ~NothingToRetry(kept)
    BY HeadNumbers DEF NothingToRetry, StillHolding, HeldKeys
  <2>5. retryTimer >= 0
    BY <1>1, <2>1 DEF InTime
  <2> QED
    BY <1>2, <1>3, <2>1, <2>3, <2>4, <2>5, HeadNumbers
<1>10. ASSUME NEW m \in Networks
       PROVE  Remembers(overflow'[m], unseen'[m], StoredKeys(m)', verified'[m])
  <2>1. Remembers(overflow[m], unseen[m], StoredKeys(m), verified[m])
    BY <1>1 DEF DropsRemembered
  <2>2. unseen' = unseen /\ verified' = verified /\ StoredKeys(m)' = StoredKeys(m)
    BY <1>3 DEF StoredKeys
  <2> QED
    BY <1>6, <2>1, <2>2, SettledRemembers DEF AllSettled
<1>11. HeadTypes'
  BY <1>1, <1>3, <1>5, <1>6, <1>7, <1>8 DEF HeadTypes
<1>12. DropsRemembered' /\ InTime(held, retryTimer)'
  BY <1>3, <1>9, <1>10 DEF DropsRemembered, InTime
<1> QED
  BY <1>11, <1>12 DEF HeadInv

LEMMA PassStep ==
    ASSUME HeadInv, Pass
    PROVE  HeadInv'
<1> DEFINE older(n, h) == IF held[n][h] = NotHeld \/ held[n][h].rest = Overdue THEN held[n][h]
                          ELSE [held[n][h] EXCEPT !.rest = @ - 1]
<1>1. HeadTypes /\ InTime(held, retryTimer) /\ DropsRemembered
  BY DEF HeadInv
<1>2. held \in HeldType /\ retryTimer \in -1 .. RetryEvery
  BY <1>1 DEF HeadTypes
<1>3. /\ retryTimer # 0
      /\ retryTimer' = IF retryTimer = -1 THEN -1 ELSE retryTimer - 1
      /\ held' = [n \in Networks |-> [h \in Heads |-> older(n, h)]]
      /\ UNCHANGED <<overflow, verified, restored, unseen, headStore, hydrated, ownWaits>>
  BY DEF Pass
<1>4. ASSUME NEW n \in Networks, NEW h \in Heads
      PROVE  /\ older(n, h) \in Copy \cup {NotHeld}
             /\ older(n, h) # NotHeld => /\ held[n][h] # NotHeld
                                         /\ \/ older(n, h).rest = held[n][h].rest - 1
                                            \/ held[n][h].rest = Overdue
  <2>1. held[n][h] \in Copy \cup {NotHeld}
    BY <1>2 DEF HeldType
  <2> DEFINE c == held[n][h]
  <2> HIDE DEF c
  <2>2. CASE c # NotHeld /\ c.rest # Overdue
    <3>1. c \in Copy /\ [c EXCEPT !.rest = c.rest - 1] \in Copy
      BY <2>1, <2>2, HeadNumbers DEF c, Copy
    <3>2. older(n, h) = [c EXCEPT !.rest = c.rest - 1] /\ [c EXCEPT !.rest = c.rest - 1].rest = c.rest - 1
      BY <2>2, <3>1 DEF c, Copy
    <3> QED
      BY <2>2, <3>1, <3>2 DEF c
  <2>3. CASE ~(c # NotHeld /\ c.rest # Overdue)
    BY <2>1, <2>3 DEF c
  <2> QED
    BY <2>2, <2>3
<1> HIDE DEF older
<1>5. held' \in HeldType
  BY <1>3, <1>4 DEF HeldType
<1>6. retryTimer' \in -1 .. RetryEvery
  BY <1>2, <1>3, HeadNumbers
<1>7. InTime(held', retryTimer')
  <2> SUFFICES ASSUME NEW n \in Networks, NEW h \in Heads, held'[n][h] # NotHeld
               PROVE  retryTimer' >= 0 /\ held'[n][h].rest >= retryTimer' + 1 - RetryEvery
    BY DEF InTime
  <2>1. held'[n][h] = older(n, h)
    BY <1>3
  <2>2. /\ held[n][h] # NotHeld
        /\ older(n, h).rest = held[n][h].rest - 1 \/ held[n][h].rest = Overdue
    BY <1>4, <2>1
  <2>3. retryTimer >= 0 /\ held[n][h].rest >= retryTimer + 1 - RetryEvery
    BY <1>1, <2>2 DEF InTime
  <2>4. held[n][h].rest \in Int
    BY <1>2, <2>2, NotHeldIsNoCopy DEF HeldType
  <2>5. older(n, h).rest = held[n][h].rest - 1
    BY <1>2, <2>2, <2>3, HeadNumbers DEF Overdue
  <2> QED
    BY <1>2, <1>3, <2>1, <2>3, <2>4, <2>5, HeadNumbers
<1>8. HeadTypes'
  BY <1>1, <1>3, <1>5, <1>6 DEF HeadTypes
<1>9. DropsRemembered'
  BY <1>1, <1>3 DEF DropsRemembered, StoredKeys
<1> QED
  BY <1>7, <1>8, <1>9 DEF HeadInv, InTime

LEMMA HeadInvStep == HeadInv /\ [HeadNext]_headVars => HeadInv'
<1> SUFFICES ASSUME HeadInv, [HeadNext]_headVars PROVE HeadInv'
  OBVIOUS
<1>1. ASSUME NEW n \in Networks, NEW h \in Heads,
             Receive(n, h) \/ Hydrate(n, h) \/ EndOffer(n, h)
      PROVE  HeadInv'
  BY <1>1, ReceiveStep, HydrateStep, EndOfferStep
<1>2. ASSUME NEW n \in Networks, NEW h \in Heads, StartOffer(n, h) \/ EndChain(n, h)
      PROVE  HeadInv'
  BY <1>2, QuietHeadStep DEF StartOffer, EndChain
<1>3. ASSUME NEW k \in Keys, WriteLocally(k) PROVE HeadInv'
  BY <1>3, QuietHeadStep DEF WriteLocally
<1>4. ASSUME NEW n \in Networks, NEW k \in Keys, RescanHead(n, k) PROVE HeadInv'
  BY <1>4, RescanHeadStep
<1>5. ASSUME NEW n \in Networks, EndHeadRescan(n) \/ FailHeadRescan(n) PROVE HeadInv'
  BY <1>5, EndRescanStep
<1>6. ASSUME NEW h \in Heads, NEW v \in GateVerdicts, Decide(h, v) PROVE HeadInv'
  BY <1>6, QuietHeadStep DEF Decide
<1>7. CASE Tick \/ WakeHeads
  BY <1>7, RetryStep DEF Tick, WakeHeads
<1>8. CASE Pass
  BY <1>8, PassStep
<1>9. CASE UNCHANGED headVars
  BY <1>9, QuietHeadStep DEF headVars
<1> QED
  BY <1>1, <1>2, <1>3, <1>4, <1>5, <1>6, <1>7, <1>8, <1>9 DEF HeadNext, Peers, Node

-----------------------------------------------------------------------------
(* An own head that waits was restored, its key is not verified, and its   *)
(* copy is held or its key was dropped as an own key.                      *)
Waits(n, h) ==
    /\ h \in Own[n] /\ h \in hydrated[n]
    /\ KeyOf[h] \in restored[n] /\ KeyOf[h] \notin verified[n]
    /\ KeyOf[h] \in overflow[n].ownKeys \/ held[n][h].own

(* Own copies are restored heads, and the own heads a network holds or has *)
(* stored were restored first.                                             *)
OwnInv ==
    /\ \A n \in Networks, h \in Heads :
         /\ held[n][h].own => h \in Own[n] /\ h \in hydrated[n]
         /\ h \in Own[n] /\ h \notin hydrated[n] => held[n][h] = NotHeld
    /\ \A n \in Networks, k \in Keys : headStore[n][k] \in Own[n] => headStore[n][k] \in hydrated[n]
    /\ \A n \in Networks : \A h \in ownWaits[n] : Waits(n, h)

LEMMA OwnInvInit == HeadInit => OwnInv
<1> SUFFICES ASSUME HeadInit PROVE OwnInv
  OBVIOUS
<1>1. ASSUME NEW n \in Networks
      PROVE  /\ ownWaits[n] = {} /\ \A h \in Heads : held[n][h] = NotHeld
             /\ \A k \in Keys : headStore[n][k] = None
  BY DEF HeadInit, PerHead
<1>2. \A n \in Networks : None \notin Own[n]
  BY HeadAssumption
<1> QED
  BY <1>1, <1>2, NotHeldIsNoCopy DEF OwnInv

(* What a step owes: it holds own heads only once they were restored, and  *)
(* what still waits after it waits as Waits says.                          *)
LEMMA OwnStep ==
    ASSUME OwnInv, OwnHeadsFirst,
           \A m \in Networks : hydrated[m] \subseteq hydrated'[m],
           \A m \in Networks, g \in Heads :
             /\ held'[m][g].own => held[m][g].own \/ (g \in Own[m] /\ g \in hydrated'[m])
             /\ \/ held'[m][g] = NotHeld
                \/ held'[m][g] # NotHeld /\ held[m][g] # NotHeld
                \/ g \in Own[m] => g \in hydrated'[m],
           \A m \in Networks : \A g \in ownWaits'[m] : Waits(m, g)'
    PROVE  OwnInv'
<1>1. ASSUME NEW m \in Networks, NEW g \in Heads
      PROVE  /\ held'[m][g].own => g \in Own[m] /\ g \in hydrated'[m]
             /\ g \in Own[m] /\ g \notin hydrated'[m] => held'[m][g] = NotHeld
  BY DEF OwnInv
<1>2. \A m \in Networks, k \in Keys : headStore'[m][k] \in Own[m] => headStore'[m][k] \in hydrated'[m]
  BY DEF OwnHeadsFirst
<1> QED
  BY <1>1, <1>2 DEF OwnInv

(* A waiting own copy keeps its key from being settled by any other head.  *)
LEMMA WaitingIsKept ==
    ASSUME OwnInv, NEW n \in Networks, NEW g \in ownWaits[n], g \in Heads, NEW hd,
           hd[n][g] = held[n][g]
    PROVE  IsKept(hd, n, KeyOf[g], FALSE)
<1>1. Waits(n, g)
  BY DEF OwnInv
<1>2. held[n][g].own => g \in HeldCopies(hd, n, KeyOf[g]) /\ hd[n][g].own
  BY NotHeldIsNoCopy DEF HeldCopies
<1> QED
  BY <1>1, <1>2 DEF IsKept, HasPendingOwnCopy, Waits

LEMMA LeavesWaiting ==
    ASSUME OwnInv, NEW n \in Networks, NEW h \in Heads, NEW own \in BOOLEAN, NEW hd,
           Leaves(hd, n, KeyOf[h], own),
           NEW m \in Networks, NEW g \in ownWaits[m], g \in Heads, hd[m][g] = held[m][g],
           ~(own /\ m = n /\ KeyOf[g] = KeyOf[h])
    PROVE  KeyOf[g] \notin verified'[m] /\ held'[m][g] = held[m][g]
<1>1. Waits(m, g)
  BY DEF OwnInv
<1>2. IsKept(hd, m, KeyOf[g], FALSE)
  BY WaitingIsKept
<1>3. IsKept(hd, m, KeyOf[g], FALSE) => own \/ IsKept(hd, m, KeyOf[g], own)
  BY DEF IsKept
<1>4. ~(m = n /\ KeyOf[g] = KeyOf[h] /\ ~IsKept(hd, n, KeyOf[h], own))
  BY <1>2, <1>3
<1> QED
  BY <1>1, <1>4 DEF Leaves, Waits

(* A look at a head ends no wait, and holds an own copy only for a head    *)
(* that is restored.                                                       *)
LookKeeps(n, h, own) ==
    /\ \A m \in Networks : \A g \in ownWaits[m] :
         /\ KeyOf[g] \notin verified'[m]
         /\ KeyOf[g] \in overflow'[m].ownKeys \/ held'[m][g].own
    /\ \A m \in Networks, g \in Heads :
         /\ held'[m][g].own => held[m][g].own \/ (own /\ m = n /\ g = h)
         /\ held'[m][g] = NotHeld \/ held'[m][g] = held[m][g] \/ (m = n /\ g = h)
    /\ gate[h] = "pending" /\ held[n][h] = NotHeld /\ ~IsCoolingDown(n, KeyOf[h])
         /\ KeyOf[h] \in restored'[n] /\ own
       => /\ verified' = verified
          /\ KeyOf[h] \in overflow'[n].ownKeys \/ held'[n][h].own

LEMMA LookWaits ==
    ASSUME HeadTypes, OwnInv, NEW n \in Networks, NEW h \in Heads, NEW own \in BOOLEAN,
           NEW ov \in OverflowType, \A m \in Networks : ov[m].ownKeys = overflow[m].ownKeys,
           AdmitHead(n, h, own, ov), own => h \in Own[n] /\ h \notin hydrated[n]
    PROVE  LookKeeps(n, h, own)
<1>1. /\ held \in HeldType /\ ownWaits \in [Networks -> SUBSET Heads] /\ KeyOf[h] \in Keys
  BY HeadNumbers DEF HeadTypes
<1>2. \A m \in Networks : \A g \in ownWaits[m] : g \in Heads /\ Waits(m, g)
  BY <1>1 DEF OwnInv
<1>3. CASE LookIsQuiet(n, h, own, ov)
  <2>1. /\ Leaves(held, n, KeyOf[h], own)
        /\ \A m \in Networks : overflow'[m].ownKeys = overflow[m].ownKeys
        /\ gate[h] = "pending" => held[n][h] # NotHeld \/ IsCoolingDown(n, KeyOf[h])
    BY <1>3 DEF LookIsQuiet, AllSettled, Settled
  <2>2. ASSUME NEW m \in Networks, NEW g \in ownWaits[m]
        PROVE  KeyOf[g] \notin verified'[m] /\ held'[m][g] = held[m][g]
    <3>1. ~(own /\ m = n /\ KeyOf[g] = KeyOf[h])
      BY <1>2, HeadAssumption DEF Waits
    <3>2. g \in Heads /\ Leaves(held, n, KeyOf[h], own)
      BY <1>2, <2>1
    <3> QED
      BY <3>1, <3>2, LeavesWaiting
  <2>3. \A m \in Networks, g \in Heads : held'[m][g] = held[m][g] \/ held'[m][g] = NotHeld
    BY <2>1 DEF Leaves
  <2>4. ASSUME NEW m \in Networks, NEW g \in ownWaits[m]
        PROVE  /\ KeyOf[g] \notin verified'[m]
               /\ KeyOf[g] \in overflow'[m].ownKeys \/ held'[m][g].own
    BY <1>2, <2>1, <2>2 DEF Waits
  <2>5. ASSUME NEW m \in Networks, NEW g \in Heads
        PROVE  /\ held'[m][g].own => held[m][g].own
               /\ held'[m][g] = NotHeld \/ held'[m][g] = held[m][g]
    BY <2>3, NotHeldIsNoCopy
  <2> QED
    BY <2>1, <2>4, <2>5 DEF LookKeeps
<1>4. CASE LookDrops(n, h, ov)
  <2>1. held' = held /\ verified' = verified /\ overflow' = DropRecorded(n, KeyOf[h], ov)
    BY <1>4 DEF LookDrops
  <2>2. /\ overflow'[n] = Drop(ov[n], KeyOf[h] \in restored'[n], KeyOf[h])
        /\ \A m \in Networks \ {n} : overflow'[m] = ov[m]
    BY <1>1, <2>1, DropShape
  <2>3. ov[n] \in HeadOverflow
    BY DEF OverflowType
  <2>4. /\ ov[n].ownKeys \subseteq overflow'[n].ownKeys
        /\ KeyOf[h] \in restored'[n] => KeyOf[h] \in overflow'[n].ownKeys
    BY <2>2, <2>3 DEF Drop, HeadOverflow
  <2>5. \A m \in Networks : overflow[m].ownKeys \subseteq overflow'[m].ownKeys
    BY <2>2, <2>4
  <2> QED
    BY <1>2, <2>1, <2>4, <2>5 DEF Waits, LookKeeps
<1>5. CASE LookHolds(n, h, own, ov)
  <2> DEFINE c == [rest |-> HoldAge, own |-> own]
  <2>1. /\ held[n][h] = NotHeld /\ verified' = verified
        /\ held' = [held EXCEPT ![n][h] = c] /\ overflow' = ov
    BY <1>5 DEF LookHolds
  <2>2. c.own = own
    OBVIOUS
  <2> HIDE DEF c
  <2>3. \A m \in Networks, g \in Heads : held'[m][g] = IF m = n /\ g = h THEN c ELSE held[m][g]
    BY <1>1, <2>1 DEF HeldType
  <2> QED
    BY <1>2, <2>1, <2>2, <2>3, NotHeldIsNoCopy DEF Waits, LookKeeps
<1> QED
  BY <1>3, <1>4, <1>5, AdmitCases


LEMMA OwnReceiveStep ==
    ASSUME HeadInv, OwnInv, OwnHeadsFirst, NEW n \in Networks, NEW h \in Heads, Receive(n, h)
    PROVE  OwnInv'
<1>1. /\ HeadTypes /\ overflow \in OverflowType /\ ownWaits \in [Networks -> SUBSET Heads]
      /\ headStore \in [Networks -> [Keys -> Heads \cup {None}]] /\ KeyOf[h] \in Keys
  BY HeadNumbers DEF HeadInv, HeadTypes
<1>2. /\ headStore' = [headStore EXCEPT ![n][KeyOf[h]] = h] /\ AdmitHead(n, h, FALSE, overflow)
      /\ UNCHANGED <<restored, hydrated, ownWaits>>
  BY DEF Receive
<1>3. headStore'[n][KeyOf[h]] = h
  BY <1>1, <1>2
<1>4. h \in Own[n] => h \in hydrated'[n]
  BY <1>1, <1>3 DEF OwnHeadsFirst
<1>5. /\ \A m \in Networks : \A g \in ownWaits[m] :
            /\ KeyOf[g] \notin verified'[m]
            /\ KeyOf[g] \in overflow'[m].ownKeys \/ held'[m][g].own
      /\ \A m \in Networks, g \in Heads :
            /\ held'[m][g].own => held[m][g].own
            /\ held'[m][g] = NotHeld \/ held'[m][g] = held[m][g] \/ (m = n /\ g = h)
  <2>1. LookKeeps(n, h, FALSE)
    BY <1>1, <1>2, LookWaits
  <2> QED
    BY <2>1 DEF LookKeeps
<1>6. \A m \in Networks : \A g \in ownWaits'[m] : Waits(m, g)'
  BY <1>2, <1>5 DEF OwnInv, Waits
<1> QED
  BY <1>2, <1>4, <1>5, <1>6, OwnStep

LEMMA OwnRescanStep ==
    ASSUME HeadInv, OwnInv, OwnHeadsFirst, NEW n \in Networks, NEW k \in Keys, RescanHead(n, k)
    PROVE  OwnInv'
<1> DEFINE h == headStore[n][k]
           ov == [overflow EXCEPT ![n].todo = @ \ {k}]
<1>1. /\ HeadTypes /\ DropsRemembered /\ overflow \in OverflowType
      /\ headStore \in [Networks -> [Keys -> Heads \cup {None}]]
  BY DEF HeadInv, HeadTypes
<1>2. /\ k \in overflow[n].todo /\ AdmitHead(n, h, FALSE, ov)
      /\ UNCHANGED <<restored, hydrated, ownWaits, headStore>>
  BY DEF RescanHead
<1>3. h \in Heads
  BY <1>1, <1>2 DEF DropsRemembered, Remembers, StoredKeys
<1>4. overflow[n] \in HeadOverflow
  BY <1>1 DEF OverflowType
<1>5. ov \in OverflowType /\ \A m \in Networks : ov[m].ownKeys = overflow[m].ownKeys
  <2> DEFINE o == [overflow[n] EXCEPT !.todo = @ \ {k}]
  <2>1. ov = [overflow EXCEPT ![n] = o] /\ o \in HeadOverflow /\ o.ownKeys = overflow[n].ownKeys
    BY <1>1, <1>4 DEF OverflowType, HeadOverflow
  <2> HIDE DEF o, ov
  <2> QED
    BY <1>1, <2>1 DEF OverflowType
<1>6. h \in Own[n] => h \in hydrated'[n]
  BY <1>2 DEF OwnInv
<1> HIDE DEF h, ov
<1>7. /\ \A m \in Networks : \A g \in ownWaits[m] :
            /\ KeyOf[g] \notin verified'[m]
            /\ KeyOf[g] \in overflow'[m].ownKeys \/ held'[m][g].own
      /\ \A m \in Networks, g \in Heads :
            /\ held'[m][g].own => held[m][g].own
            /\ held'[m][g] = NotHeld \/ held'[m][g] = held[m][g] \/ (m = n /\ g = h)
  <2>1. LookKeeps(n, h, FALSE)
    BY <1>1, <1>2, <1>3, <1>5, LookWaits
  <2> QED
    BY <2>1 DEF LookKeeps
<1>8. \A m \in Networks : \A g \in ownWaits'[m] : Waits(m, g)'
  BY <1>2, <1>7 DEF OwnInv, Waits
<1> QED
  BY <1>2, <1>6, <1>7, <1>8, OwnStep

LEMMA OwnHydrateStep ==
    ASSUME HeadInv, OwnInv, OwnHeadsFirst, NEW n \in Networks, NEW h \in Heads, Hydrate(n, h)
    PROVE  OwnInv'
<1> DEFINE starts == /\ gate[h] = "pending" /\ KeyOf[h] \notin verified[n]
                     /\ ~IsCoolingDown(n, KeyOf[h])
<1>1. /\ HeadTypes /\ overflow \in OverflowType /\ KeyOf[h] \in Keys
      /\ ownWaits \in [Networks -> SUBSET Heads] /\ hydrated \in [Networks -> SUBSET Heads]
      /\ restored \in [Networks -> SUBSET Keys]
  BY HeadNumbers DEF HeadInv, HeadTypes, KeySets
<1>2. /\ h \in Own[n] /\ h \notin hydrated[n] /\ AdmitHead(n, h, TRUE, overflow)
      /\ hydrated' = [hydrated EXCEPT ![n] = @ \cup {h}]
      /\ restored' = [restored EXCEPT ![n] = @ \cup {KeyOf[h]}]
      /\ ownWaits' = IF starts THEN [ownWaits EXCEPT ![n] = @ \cup {h}] ELSE ownWaits
  BY DEF Hydrate
<1> HIDE DEF starts
<1>3. /\ \A m \in Networks : hydrated[m] \subseteq hydrated'[m] /\ restored[m] \subseteq restored'[m]
      /\ h \in hydrated'[n] /\ KeyOf[h] \in restored'[n]
  BY <1>1, <1>2
<1>4. \A m \in Networks : \A g \in ownWaits'[m] : g \in ownWaits[m] \/ (starts /\ m = n /\ g = h)
  BY <1>1, <1>2
<1>5. held[n][h] = NotHeld
  BY <1>2 DEF OwnInv
<1>6. /\ \A m \in Networks : \A g \in ownWaits[m] :
            /\ KeyOf[g] \notin verified'[m]
            /\ KeyOf[g] \in overflow'[m].ownKeys \/ held'[m][g].own
      /\ \A m \in Networks, g \in Heads :
            /\ held'[m][g].own => held[m][g].own \/ (m = n /\ g = h)
            /\ held'[m][g] = NotHeld \/ held'[m][g] = held[m][g] \/ (m = n /\ g = h)
      /\ starts => /\ KeyOf[h] \notin verified'[n]
                   /\ KeyOf[h] \in overflow'[n].ownKeys \/ held'[n][h].own
  <2>1. LookKeeps(n, h, TRUE)
    BY <1>1, <1>2, LookWaits
  <2>2. starts => gate[h] = "pending" /\ ~IsCoolingDown(n, KeyOf[h]) /\ KeyOf[h] \notin verified[n]
    BY DEF starts
  <2> QED
    BY <1>3, <1>5, <2>1, <2>2 DEF LookKeeps
<1>7. ASSUME NEW m \in Networks, NEW g \in ownWaits'[m]
      PROVE  Waits(m, g)'
  <2>1. CASE g \in ownWaits[m]
    <3>1. Waits(m, g)
      BY <2>1 DEF OwnInv
    <3> QED
      BY <1>3, <1>6, <2>1, <3>1 DEF Waits
  <2>2. CASE starts /\ m = n /\ g = h
    BY <1>2, <1>3, <1>6, <2>2 DEF Waits
  <2> QED
    BY <1>4, <2>1, <2>2
<1> QED
  BY <1>2, <1>3, <1>6, <1>7, OwnStep

LEMMA OwnEndOfferStep ==
    ASSUME HeadInv, OwnInv, OwnHeadsFirst, NEW n \in Networks, NEW h \in Heads, EndOffer(n, h)
    PROVE  OwnInv'
<1> DEFINE gone == [held EXCEPT ![n][h] = NotHeld]
           ended == [chain EXCEPT ![n][h] = NoChain]
           own == held[n][h].own
           left == [ownWaits EXCEPT ![n] = @ \ {h}]
<1>1. /\ HeadTypes /\ held \in HeldType /\ overflow \in OverflowType
      /\ ownWaits \in [Networks -> SUBSET Heads]
  BY DEF HeadInv, HeadTypes
<1>2. /\ gone \in HeldType
      /\ \A m \in Networks, g \in Heads : gone[m][g] = IF m = n /\ g = h THEN NotHeld ELSE held[m][g]
  BY <1>1 DEF HeldType
<1>3. /\ UNCHANGED <<restored, hydrated>>
      /\ \/ UNCHANGED <<held, overflow, verified, ownWaits>>
         \/ SettleHead(n, h, own, gone, ended, overflow) /\ ownWaits' = left
         \/ Release(gone, ended, overflow) /\ verified' = verified /\ ownWaits' = left
  BY DEF EndOffer
<1>4. \A m \in Networks : \A g \in left[m] : g \in ownWaits[m] /\ g \in Heads /\ ~(m = n /\ g = h)
  BY <1>1
<1>5. own \in BOOLEAN
  <2>1. held[n][h] \in Copy \cup {NotHeld}
    BY <1>1 DEF HeldType
  <2> QED
    BY <2>1, NotHeldIsNoCopy
<1>6. own => h \in Own[n]
  BY DEF OwnInv
<1> HIDE DEF gone, ended, own, left
<1>7. CASE UNCHANGED <<held, overflow, verified, ownWaits>>
  <2>1. \A m \in Networks : \A g \in ownWaits'[m] : Waits(m, g)'
    BY <1>3, <1>7 DEF OwnInv, Waits
  <2> QED
    BY <1>3, <1>7, <2>1, OwnStep
<1>8. CASE SettleHead(n, h, own, gone, ended, overflow) /\ ownWaits' = left
  <2>1. Leaves(gone, n, KeyOf[h], own) /\ AllSettled(overflow)
    BY <1>1, <1>2, <1>5, <1>8, SettleHeadShape
  <2>2. ASSUME NEW m \in Networks, NEW g \in left[m]
        PROVE  KeyOf[g] \notin verified'[m] /\ held'[m][g] = held[m][g]
    <3>1. g \in ownWaits[m] /\ g \in Heads /\ gone[m][g] = held[m][g]
      BY <1>2, <1>4
    <3>2. ~(own /\ m = n /\ KeyOf[g] = KeyOf[h])
      <4>1. g \in Own[m]
        BY <3>1 DEF OwnInv, Waits
      <4> QED
        BY <1>4, <1>5, <1>6, <4>1, HeadAssumption
    <3> QED
      BY <1>5, <2>1, <3>1, <3>2, LeavesWaiting
  <2>3. ASSUME NEW m \in Networks, NEW g \in Heads
        PROVE  held'[m][g] = NotHeld \/ held'[m][g] = held[m][g]
    BY <1>2, <2>1 DEF Leaves
  <2>4. ASSUME NEW m \in Networks, NEW g \in ownWaits'[m]
        PROVE  Waits(m, g)'
    <3>1. g \in left[m] /\ g \in ownWaits[m]
      BY <1>4, <1>8
    <3>2. Waits(m, g) /\ overflow'[m].ownKeys = overflow[m].ownKeys
      BY <2>1, <3>1 DEF OwnInv, AllSettled, Settled
    <3> QED
      BY <1>3, <2>2, <3>1, <3>2 DEF Waits
  <2> QED
    BY <1>3, <2>3, <2>4, OwnStep, NotHeldIsNoCopy
<1>9. CASE Release(gone, ended, overflow) /\ verified' = verified /\ ownWaits' = left
  <2>1. held' = gone /\ AllSettled(overflow)
    BY <1>1, <1>9, ReleaseShape
  <2>2. ASSUME NEW m \in Networks, NEW g \in ownWaits'[m]
        PROVE  Waits(m, g)'
    <3>1. g \in ownWaits[m] /\ held'[m][g] = held[m][g]
      BY <1>2, <1>4, <1>9, <2>1
    <3>2. Waits(m, g) /\ overflow'[m].ownKeys = overflow[m].ownKeys
      BY <2>1, <3>1 DEF OwnInv, AllSettled, Settled
    <3> QED
      BY <1>3, <1>9, <3>1, <3>2 DEF Waits
  <2> QED
    BY <1>2, <1>3, <2>1, <2>2, OwnStep, NotHeldIsNoCopy
<1> QED
  BY <1>3, <1>7, <1>8, <1>9

LEMMA OwnQuietStep ==
    ASSUME OwnInv, OwnHeadsFirst, UNCHANGED <<held, overflow, restored, hydrated>>,
           UNCHANGED <<verified, ownWaits>> \/ \E k \in Keys : WriteLocally(k)
    PROVE  OwnInv'
<1>1. ASSUME NEW m \in Networks, NEW g \in ownWaits'[m]
      PROVE  Waits(m, g)'
  <2>1. CASE UNCHANGED <<verified, ownWaits>>
    BY <2>1 DEF OwnInv, Waits
  <2>2. ASSUME NEW k \in Keys, WriteLocally(k)
        PROVE  Waits(m, g)'
    <3>1. /\ verified' = [n \in Networks |-> verified[n] \cup {k}]
          /\ ownWaits' = [n \in Networks |-> {h \in ownWaits[n] : KeyOf[h] # k}]
      BY <2>2 DEF WriteLocally
    <3>2. g \in ownWaits[m] /\ KeyOf[g] # k /\ verified'[m] = verified[m] \cup {k}
      BY <3>1
    <3> QED
      BY <3>2 DEF OwnInv, Waits
  <2> QED
    BY <2>1, <2>2
<1> QED
  BY <1>1, OwnStep

(* A rescan that saw no drop forgets the dropped own keys, and with them   *)
(* the waits that no held copy carries.                                    *)
LEMMA OwnEndRescanStep ==
    ASSUME HeadInv, OwnInv, OwnHeadsFirst, NEW n \in Networks, EndHeadRescan(n) \/ FailHeadRescan(n)
    PROVE  OwnInv'
<1>1. /\ overflow \in OverflowType /\ overflow[n] \in HeadOverflow
      /\ ownWaits \in [Networks -> SUBSET Heads]
  BY DEF HeadInv, HeadTypes, OverflowType
<1>2. UNCHANGED <<held, verified, restored, hydrated>>
  BY DEF EndHeadRescan, FailHeadRescan
<1>3. ASSUME NEW m \in Networks, NEW g \in ownWaits'[m]
      PROVE  g \in ownWaits[m] /\ (KeyOf[g] \in overflow[m].ownKeys
                                     => KeyOf[g] \in overflow'[m].ownKeys \/ held[m][g].own)
  <2>1. CASE EndHeadRescan(n) /\ ~overflow[n].fresh
    <3>1. /\ overflow' = [overflow EXCEPT ![n] = HeadsRescanned(overflow[n])]
          /\ ownWaits' = [ownWaits EXCEPT ![n] = {h \in ownWaits[n] :
                                                    \/ KeyOf[h] \notin overflow[n].ownKeys
                                                    \/ held[n][h].own}]
      BY <2>1 DEF EndHeadRescan
    <3>2. CASE m = n
      <4>1. g \in {h \in ownWaits[n] : KeyOf[h] \notin overflow[n].ownKeys \/ held[n][h].own}
        BY <1>1, <3>1, <3>2
      <4> QED
        BY <3>2, <4>1
    <3>3. CASE m # n
      BY <1>1, <3>1, <3>3 DEF OverflowType
    <3> QED
      BY <3>2, <3>3
  <2>2. CASE EndHeadRescan(n) /\ overflow[n].fresh
    <3>1. /\ overflow' = [overflow EXCEPT ![n] = HeadsRescanned(overflow[n])]
          /\ ownWaits' = ownWaits
      BY <2>2 DEF EndHeadRescan
    <3>2. HeadsRescanned(overflow[n]).ownKeys = overflow[n].ownKeys
      BY <1>1, <2>2 DEF HeadsRescanned, HeadOverflow
    <3> QED
      BY <1>1, <3>1, <3>2 DEF OverflowType
  <2>3. CASE FailHeadRescan(n)
    <3>1. /\ overflow' = [overflow EXCEPT ![n] = [overflow[n] EXCEPT !.rescan = FALSE, !.todo = {}]]
          /\ ownWaits' = ownWaits
      BY <1>1, <2>3 DEF FailHeadRescan, OverflowType
    <3>2. [overflow[n] EXCEPT !.rescan = FALSE, !.todo = {}].ownKeys = overflow[n].ownKeys
      BY <1>1 DEF HeadOverflow
    <3> QED
      BY <1>1, <3>1, <3>2 DEF OverflowType
  <2> QED
    BY <2>1, <2>2, <2>3
<1>4. \A m \in Networks : \A g \in ownWaits'[m] : Waits(m, g)'
  BY <1>2, <1>3 DEF OwnInv, Waits
<1> QED
  BY <1>2, <1>4, OwnStep

LEMMA OwnRetryStep ==
    ASSUME HeadInv, OwnInv, OwnHeadsFirst, NEW t, Retry(t)
    PROVE  OwnInv'
<1> DEFINE kept == [n \in Networks |-> Kept(n)]
<1>1. overflow \in OverflowType
  BY DEF HeadInv, HeadTypes
<1>2. /\ held' = kept /\ overflow' = Rescanning(overflow, kept)
      /\ ownWaits' = [n \in Networks |-> {h \in ownWaits[n] : held[n][h] = Kept(n)[h]}]
      /\ UNCHANGED <<verified, restored, hydrated>>
  BY DEF Retry
<1>3. \A m \in Networks, g \in Heads : kept[m][g] = NotHeld \/ kept[m][g] = held[m][g]
  BY DEF Kept
<1>4. \A m \in Networks : \A g \in ownWaits'[m] : g \in ownWaits[m] /\ kept[m][g] = held[m][g]
  BY <1>2
<1> HIDE DEF kept
<1>5. \A m \in Networks : overflow'[m].ownKeys = overflow[m].ownKeys
  BY <1>1, <1>2, RescanningShape DEF Settled
<1>6. \A m \in Networks : \A g \in ownWaits'[m] : Waits(m, g)'
  BY <1>2, <1>4, <1>5 DEF OwnInv, Waits
<1> QED
  BY <1>2, <1>3, <1>6, OwnStep, NotHeldIsNoCopy

LEMMA OwnPassStep ==
    ASSUME HeadInv, OwnInv, OwnHeadsFirst, Pass
    PROVE  OwnInv'
<1> DEFINE older(n, h) == IF held[n][h] = NotHeld \/ held[n][h].rest = Overdue THEN held[n][h]
                          ELSE [held[n][h] EXCEPT !.rest = @ - 1]
<1>1. held \in HeldType /\ ownWaits \in [Networks -> SUBSET Heads]
  BY DEF HeadInv, HeadTypes
<1>2. /\ held' = [n \in Networks |-> [h \in Heads |-> older(n, h)]]
      /\ UNCHANGED <<overflow, verified, restored, hydrated, ownWaits>>
  BY DEF Pass
<1>3. ASSUME NEW n \in Networks, NEW h \in Heads
      PROVE  held'[n][h].own = held[n][h].own /\ (held[n][h] = NotHeld => held'[n][h] = NotHeld)
  <2>1. held[n][h] \in Copy \cup {NotHeld}
    BY <1>1 DEF HeldType
  <2>2. held'[n][h] = older(n, h)
    BY <1>2
  <2> QED
    BY <2>1, <2>2 DEF Copy
<1>4. \A m \in Networks : \A g \in ownWaits'[m] : Waits(m, g)'
  BY <1>1, <1>2, <1>3 DEF OwnInv, Waits
<1> HIDE DEF older
<1> QED
  BY <1>2, <1>3, <1>4, OwnStep

LEMMA OwnInvStep == HeadInv /\ OwnInv /\ [HeadNext /\ OwnHeadsFirst]_headVars => OwnInv'
<1> SUFFICES ASSUME HeadInv, OwnInv, [HeadNext /\ OwnHeadsFirst]_headVars PROVE OwnInv'
  OBVIOUS
<1>1. CASE UNCHANGED headVars
  <2>1. OwnHeadsFirst /\ UNCHANGED <<held, overflow, restored, hydrated, verified, ownWaits>>
    BY <1>1 DEF headVars, OwnInv, OwnHeadsFirst
  <2> QED
    BY <2>1, OwnQuietStep
<1>2. CASE HeadNext /\ OwnHeadsFirst
  <2>1. ASSUME NEW n \in Networks, NEW h \in Heads,
               Receive(n, h) \/ Hydrate(n, h) \/ EndOffer(n, h)
        PROVE  OwnInv'
    BY <1>2, <2>1, OwnReceiveStep, OwnHydrateStep, OwnEndOfferStep
  <2>2. ASSUME NEW n \in Networks, NEW h \in Heads, StartOffer(n, h) \/ EndChain(n, h)
        PROVE  OwnInv'
    BY <1>2, <2>2, OwnQuietStep DEF StartOffer, EndChain
  <2>3. ASSUME NEW k \in Keys, WriteLocally(k) PROVE OwnInv'
    BY <1>2, <2>3, OwnQuietStep DEF WriteLocally
  <2>4. ASSUME NEW n \in Networks, NEW k \in Keys, RescanHead(n, k) PROVE OwnInv'
    BY <1>2, <2>4, OwnRescanStep
  <2>5. ASSUME NEW n \in Networks, EndHeadRescan(n) \/ FailHeadRescan(n) PROVE OwnInv'
    BY <1>2, <2>5, OwnEndRescanStep
  <2>6. ASSUME NEW h \in Heads, NEW v \in GateVerdicts, Decide(h, v) PROVE OwnInv'
    BY <1>2, <2>6, OwnQuietStep DEF Decide
  <2>7. CASE Tick \/ WakeHeads
    BY <1>2, <2>7, OwnRetryStep DEF Tick, WakeHeads
  <2>8. CASE Pass
    BY <1>2, <2>8, OwnPassStep
  <2> QED
    BY <1>2, <2>1, <2>2, <2>3, <2>4, <2>5, <2>6, <2>7, <2>8 DEF HeadNext, Peers, Node
<1> QED
  BY <1>1, <1>2

(* The node keeps its types, holds within their time and what it dropped   *)
(* (OrbitDBReplicatedStateRegistry.holdUnverifiedHead, recordHeadDrop).    *)
THEOREM HeadInvariant == HeadSpec => []HeadInv
  BY HeadInvInit, HeadInvStep, PTL DEF HeadSpec

(* No copy is held longer than its age and one retry interval              *)
(* (OrbitDBReplicatedStateRegistry.expireHeldCopies, startHeadRetries).    *)
THEOREM HoldsTheorem == HeadSpec => []HoldsEnd
<1>1. HeadInv => HoldsEnd
  <2> SUFFICES ASSUME HeadInv, NEW n \in Networks, NEW h \in Heads, held[n][h] # NotHeld
               PROVE  held[n][h].rest >= -RetryEvery
    BY DEF HoldsEnd
  <2>1. retryTimer >= 0 /\ held[n][h].rest >= retryTimer + 1 - RetryEvery
    BY DEF HeadInv, InTime
  <2>2. held[n][h].rest \in Int /\ retryTimer \in Int
    BY NotHeldIsNoCopy, HeadNumbers DEF HeadInv, HeadTypes, HeldType
  <2> QED
    BY <2>1, <2>2, HeadNumbers
<1> QED
  BY <1>1, HeadInvariant, PTL

(* A dropped key that nothing looked at since waits, unless the network    *)
(* verified it or could not remember it                                    *)
(* (OrbitDBReplicatedStateRegistry.rescanOverflowedHeads, recordHeadDrop). *)
THEOREM DroppedKeysTheorem == HeadSpec => []DroppedKeysWait
<1>1. HeadInv => DroppedKeysWait
  BY DEF HeadInv, DropsRemembered, Remembers, DroppedKeysWait, IsUnsettledHere
<1> QED
  BY <1>1, HeadInvariant, PTL

(* A key restored from the node's own cache waits until its own copy is    *)
(* decided or expires, a rescan looked at it after it was dropped, or the  *)
(* node wrote the key: no peer ends the wait                               *)
(* (OrbitDBReplicatedStateRegistry.settleHead, hasPendingOwnCopy).         *)
THEOREM RestoredKeysTheorem == OrderlyHeadSpec => []RestoredKeysWait
<1>1. OwnInv => RestoredKeysWait
  <2> SUFFICES ASSUME OwnInv, NEW n \in Networks, NEW h \in ownWaits[n]
               PROVE  Awaits(KeyOf[h])
    BY DEF RestoredKeysWait
  <2>1. Waits(n, h)
    BY DEF OwnInv
  <2>2. h \in Heads
    BY <2>1, HeadAssumption DEF Waits
  <2>3. held[n][h].own => KeyOf[h] \in HeldKeys(held, n)
    BY <2>2, NotHeldIsNoCopy DEF HeldKeys
  <2>4. IsUnsettledHere(n, KeyOf[h]) /\ KeyOf[h] \in restored[n]
    BY <2>1, <2>3 DEF Waits, IsUnsettledHere
  <2> QED
    BY <2>4 DEF Awaits
<1>2. HeadInit => HeadInv /\ OwnInv
  BY HeadInvInit, OwnInvInit
<1>3. HeadInv /\ OwnInv /\ [HeadNext /\ OwnHeadsFirst]_headVars => HeadInv' /\ OwnInv'
  BY HeadInvStep, OwnInvStep
<1> QED
  BY <1>1, <1>2, <1>3, PTL DEF OrderlyHeadSpec
=============================================================================
