----------------------- MODULE RecordReadmissionProof -----------------------
(***************************************************************************)
(* A wake is never lost, a dropped document that nothing has looked at     *)
(* since makes its reads wait, and the count by which reads are told that  *)
(* a document waits is the number of its waiting copies, for any number of *)
(* copies, documents, stores and slots.                                    *)
(*                                                                         *)
(* A wake in the middle of a drain is safe because a copy that has not     *)
(* been looked at since is idle, and then the drain has it left or is      *)
(* followed by another, or is done for good: a queued copy that takes a    *)
(* slot was not woken before.  An overflow is cleared safely because a     *)
(* rescan that has seen no drop has every missed document of its store     *)
(* still to do.                                                            *)
(***************************************************************************)
EXTENDS ReadmissionProperties, FiniteSetTheorems, TLAPS

Stages == {"new", "judging", "active", "queued", "dropped", "done"}
EntryType == [stage : Stages, attempt : Nat, armed : BOOLEAN, timed : BOOLEAN,
              seen : Verdicts \cup {Nothing}]
StoreType == [registered : BOOLEAN, queue : Seq(Records), overflowed : BOOLEAN,
              fresh : BOOLEAN, subjects : SUBSET Documents,
              rescan : {"no", "running", "retry"},
              todo : SUBSET Documents, found : SUBSET Documents]

Types ==
    /\ verdict \in [Documents -> Verdicts]
    /\ entry \in [Records -> EntryType]
    /\ store \in [Stores -> StoreType]
    /\ waking \in Waking
    /\ missed \subseteq Documents /\ unheard \subseteq Records

(* The queue of a store lists queued copies of that store, each once.      *)
QueueOf(s) ==
    \A i \in 1 .. Len(store[s].queue) :
        /\ entry[store[s].queue[i]].stage = "queued"
        /\ StoreFor(store[s].queue[i]) = s
        /\ \A j \in 1 .. Len(store[s].queue) :
             store[s].queue[i] = store[s].queue[j] => i = j
Queues == \A s \in Stores : QueueOf(s)

(* No offer looks at a copy before it was active, and the backoff waits    *)
(* for the offers of active copies only.                                   *)
Unseen == \A r \in Records :
    /\ entry[r].stage \in {"new", "queued", "dropped"} => entry[r].seen = Nothing
    /\ entry[r].timed => entry[r].stage = "active"

(* A copy that has not been looked at since a wake is idle, or done.       *)
Idle(r) == entry[r].stage = "active" /\ entry[r].seen = Nothing
Heard == \A r \in unheard : Idle(r) \/ entry[r].stage = "done"

(* What is missed has a copy that was dropped, and stays dropped.          *)
MissedWereDropped ==
    \A d \in missed : \E r \in Records : DocumentOf[r] = d /\ entry[r].stage = "dropped"
SubjectsFit ==
    \A s \in Stores : IsFiniteSet(store[s].subjects) /\ Cardinality(store[s].subjects) <= MaxSubjects
MissedAreRemembered ==
    \A d \in missed : \/ d \in store[StoreOf[d]].subjects
                      \/ Cardinality(store[StoreOf[d]].subjects) = MaxSubjects
                      \/ ~store[StoreOf[d]].registered

(* A rescan that has seen no drop has what is missed still to do.          *)
Covers(s) ==
    store[s].rescan = "running" /\ ~store[s].fresh /\ store[s].registered
        => \A d \in missed : StoreOf[d] = s => d \in store[s].todo
RescansCover == \A s \in Stores : Covers(s)

(* One timer or drain at a time.                                           *)
Apart == ~(waking.timer /\ waking.draining)

Overflows == MissedWereDropped /\ SubjectsFit /\ MissedAreRemembered /\ RescansCover
Inv == Types /\ Queues /\ Unseen /\ Heard /\ Apart /\ NoWakeIsLost /\ Overflows

-----------------------------------------------------------------------------
(* What a step may do to the copies but r: queued ones take a slot.        *)
Promoting(r) ==
    /\ entry' \in [Records -> EntryType]
    /\ \A q \in Records \ {r} :
         /\ entry'[q].seen = entry[q].seen /\ entry'[q].timed = entry[q].timed
         /\ \/ entry'[q].stage = entry[q].stage
            \/ entry[q].stage = "queued" /\ entry'[q].stage = "active"

(* A step that settles or keeps a copy starts at most the rescan of a      *)
(* store, and then with everything that the store holds to do.             *)
StoreKept ==
    /\ store' \in [Stores -> StoreType]
    /\ \A s \in Stores :
         /\ store'[s].subjects = store[s].subjects
         /\ store'[s].registered = store[s].registered
         /\ \/ /\ store'[s].rescan = store[s].rescan /\ store'[s].fresh = store[s].fresh
               /\ store'[s].todo = store[s].todo
            \/ store[s].registered => store'[s].todo = Stored(s)

(* A queue that loses its head is still a queue of other copies.           *)
LEMMA TailOfQueue ==
    ASSUME NEW q \in Seq(Records), q # <<>>
    PROVE  /\ Head(q) \in Records /\ Head(q) = q[1] /\ 1 \in 1 .. Len(q)
           /\ Tail(q) \in Seq(Records)
           /\ Len(Tail(q)) = Len(q) - 1
           /\ \A i \in 1 .. Len(Tail(q)) : Tail(q)[i] = q[i + 1] /\ i + 1 \in 1 .. Len(q)
  OBVIOUS

LEMMA StoreForType == \A r \in Records : StoreFor(r) \in Stores /\ DocumentOf[r] \in Documents
  BY ReadmissionAssumption DEF StoreFor

LEMMA StoredType == \A s \in Stores : Stored(s) \subseteq Documents
  BY StoreForType DEF Stored

LEMMA CheckDrainedShape ==
    ASSUME NEW s \in Stores, NEW st \in StoreType, NEW drained \in BOOLEAN
    PROVE  /\ CheckDrained(s, st, drained) \in StoreType
           /\ CheckDrained(s, st, drained).queue = st.queue
           /\ CheckDrained(s, st, drained).subjects = st.subjects
           /\ CheckDrained(s, st, drained).registered = st.registered
           /\ \/ CheckDrained(s, st, drained) = st
              \/ st.registered => CheckDrained(s, st, drained).todo = Stored(s)
<1>1. Stored(s) \subseteq Documents
  BY StoredType
<1> QED
  BY <1>1 DEF CheckDrained, Rescanned, StoreType

(* Settling a copy that is active.                                         *)
LEMMA SettleShape ==
    ASSUME Types, Queues, NEW r \in Records, entry[r].stage = "active",
           NEW e \in EntryType, Settle(r, e)
    PROVE  /\ Promoting(r) /\ StoreKept /\ Queues'
           /\ entry'[r].stage = "done" /\ entry'[r].seen = e.seen /\ ~entry'[r].timed
<1> DEFINE s == StoreFor(r)
           next == Successor(s)
<1>s. s \in Stores /\ store[s] \in StoreType /\ store[s].queue \in Seq(Records)
  BY StoreForType DEF Types, StoreType
<1>n. /\ next \subseteq Records
      /\ \A q \in next : entry[q].stage = "queued" /\ store[s].queue # <<>> /\ q = store[s].queue[1]
      /\ r \notin next
  <2>1. CASE store[s].queue = <<>>
    BY <2>1 DEF Successor
  <2>2. CASE store[s].queue # <<>>
    <3>1. next = {store[s].queue[1]} /\ store[s].queue[1] \in Records /\ 1 \in 1 .. Len(store[s].queue)
      BY <1>s, <2>2, TailOfQueue DEF Successor
    <3>2. entry[store[s].queue[1]].stage = "queued"
      BY <1>s, <3>1 DEF Queues, QueueOf
    <3> QED
      BY <2>2, <3>1, <3>2
  <2> QED
    BY <2>1, <2>2
<1>e. /\ entry' = [q \in Records |->
                     IF q = r THEN [e EXCEPT !.stage = "done", !.armed = FALSE, !.timed = FALSE]
                     ELSE IF q \in next THEN Started(entry[q]) ELSE entry[q]]
      /\ store' = [store EXCEPT ![s] =
                     IF next # {} THEN Dequeued(@)
                                  ELSE CheckDrained(s, @, ActiveIn(s) = {r})]
  BY DEF Settle
<1>1. Promoting(r) /\ entry'[r].stage = "done" /\ entry'[r].seen = e.seen /\ ~entry'[r].timed
  <2>1. \A q \in Records : entry[q] \in EntryType
    BY DEF Types
  <2>2. \A q \in Records : Started(entry[q]) \in EntryType
                            /\ Started(entry[q]).seen = entry[q].seen
                            /\ Started(entry[q]).timed = entry[q].timed
                            /\ Started(entry[q]).stage = "active"
    BY <2>1 DEF Started, EntryType, Stages
  <2>3. [e EXCEPT !.stage = "done", !.armed = FALSE, !.timed = FALSE] \in EntryType
    BY DEF EntryType, Stages
  <2>4. entry'[r].stage = "done" /\ entry'[r].seen = e.seen /\ ~entry'[r].timed
    BY <1>e DEF EntryType
  <2>5. entry' \in [Records -> EntryType]
    BY <1>e, <2>1, <2>2, <2>3
  <2> QED
    BY <1>e, <1>n, <2>1, <2>2, <2>4, <2>5 DEF Promoting
<1>2. /\ store'[s] \in StoreType
      /\ store'[s].subjects = store[s].subjects /\ store'[s].registered = store[s].registered
      /\ \/ /\ store'[s].rescan = store[s].rescan /\ store'[s].fresh = store[s].fresh
            /\ store'[s].todo = store[s].todo
         \/ store[s].registered => store'[s].todo = Stored(s)
      /\ IF next # {} THEN store'[s].queue = Tail(store[s].queue) ELSE store'[s].queue = store[s].queue
  <2>1. CASE next = {}
    <3> DEFINE drained == ActiveIn(s) = {r}
    <3>1. store'[s] = CheckDrained(s, store[s], drained)
      BY <1>e, <1>s, <2>1 DEF Types
    <3>2. drained \in BOOLEAN
      OBVIOUS
    <3> HIDE DEF drained
    <3>3. LET st == CheckDrained(s, store[s], drained) IN
          /\ st \in StoreType /\ st.queue = store[s].queue
          /\ st.subjects = store[s].subjects /\ st.registered = store[s].registered
          /\ st = store[s] \/ (store[s].registered => st.todo = Stored(s))
      BY <1>s, <3>2, CheckDrainedShape
    <3> QED
      BY <2>1, <3>1, <3>3
  <2>2. CASE next # {}
    <3>1. store[s].queue # <<>>
      BY <1>n, <2>2
    <3>2. Tail(store[s].queue) \in Seq(Records)
      BY <1>s, <3>1, TailOfQueue
    <3>3. store'[s] = Dequeued(store[s])
      BY <1>e, <1>s, <2>2 DEF Types
    <3>4. /\ store'[s] \in StoreType /\ store'[s].queue = Tail(store[s].queue)
          /\ store'[s].subjects = store[s].subjects /\ store'[s].registered = store[s].registered
      BY <1>s, <3>2, <3>3 DEF StoreType, Dequeued
    <3>5. /\ store'[s].rescan = store[s].rescan /\ store'[s].fresh = store[s].fresh
          /\ store'[s].todo = store[s].todo
      BY <1>s, <3>3 DEF StoreType, Dequeued
    <3> QED
      BY <2>2, <3>4, <3>5
  <2> QED
    BY <2>1, <2>2
<1>3. \A t \in Stores \ {s} : store'[t] = store[t]
  BY <1>e DEF Types
<1>4. StoreKept
  <2>1. store' \in [Stores -> StoreType]
    BY <1>e, <1>2, <1>3 DEF Types
  <2> QED
    BY <1>2, <1>3, <2>1 DEF StoreKept
<1>5. Queues'
  <2> SUFFICES ASSUME NEW t \in Stores PROVE QueueOf(t)'
    BY DEF Queues
  <2>0. store[t].queue \in Seq(Records) /\ QueueOf(t)
    BY DEF Types, StoreType, Queues
  <2>1. CASE store'[t].queue = store[t].queue /\ (t # s \/ next = {})
    <3>1. \A i \in 1 .. Len(store[t].queue) : entry'[store[t].queue[i]].stage = "queued"
      <4> SUFFICES ASSUME NEW i \in 1 .. Len(store[t].queue)
                   PROVE entry'[store[t].queue[i]].stage = "queued"
        OBVIOUS
      <4>1. store[t].queue[i] \in Records
        BY <2>0
      <4>2. entry[store[t].queue[i]].stage = "queued" /\ StoreFor(store[t].queue[i]) = t
        BY <2>0 DEF QueueOf
      <4>3. store[t].queue[i] \notin next
        <5>1. CASE next = {}
          BY <5>1
        <5>2. CASE t # s
          <6>1. \A q \in next : StoreFor(q) = s
            BY <1>n, <1>s, TailOfQueue DEF Queues, QueueOf
          <6> QED
            BY <4>2, <5>2, <6>1
        <5> QED
          BY <2>1, <5>1, <5>2
      <4>4. store[t].queue[i] # r
        BY <4>2
      <4> HIDE DEF next, s
      <4>5. entry'[store[t].queue[i]] = entry[store[t].queue[i]]
        BY <1>e, <4>1, <4>3, <4>4
      <4> QED
        BY <4>2, <4>5
    <3> QED
      BY <2>0, <2>1, <3>1 DEF QueueOf, StoreFor
  <2>2. CASE t = s /\ next # {}
    <3> DEFINE q == store[s].queue
    <3>1. /\ q # <<>> /\ q \in Seq(Records) /\ store'[t].queue = Tail(q)
          /\ next = {q[1]}
      BY <1>n, <1>s, <1>2, <2>2
    <3>2. /\ Len(Tail(q)) = Len(q) - 1 /\ 1 \in 1 .. Len(q)
          /\ \A i \in 1 .. Len(Tail(q)) : Tail(q)[i] = q[i + 1] /\ i + 1 \in 1 .. Len(q)
      BY <3>1, TailOfQueue
    <3>3. \A i \in 1 .. Len(q) :
             /\ q[i] \in Records /\ entry[q[i]].stage = "queued" /\ StoreFor(q[i]) = s
             /\ \A j \in 1 .. Len(q) : q[i] = q[j] => i = j
      BY <2>0, <2>2 DEF QueueOf
    <3>4. \A i \in 1 .. Len(Tail(q)) :
             /\ entry'[Tail(q)[i]].stage = "queued" /\ StoreFor(Tail(q)[i]) = s
             /\ \A j \in 1 .. Len(Tail(q)) : Tail(q)[i] = Tail(q)[j] => i = j
      <4> SUFFICES ASSUME NEW i \in 1 .. Len(Tail(q))
                   PROVE  /\ entry'[Tail(q)[i]].stage = "queued" /\ StoreFor(Tail(q)[i]) = s
                          /\ \A j \in 1 .. Len(Tail(q)) : Tail(q)[i] = Tail(q)[j] => i = j
        OBVIOUS
      <4>1. Tail(q)[i] = q[i + 1] /\ i + 1 \in 1 .. Len(q) /\ i + 1 # 1
        BY <3>2
      <4>2. q[i + 1] # q[1]
        BY <3>2, <3>3, <4>1
      <4>3. entry'[q[i + 1]] = entry[q[i + 1]]
        BY <1>e, <3>1, <3>3, <4>1, <4>2
      <4>4. \A j \in 1 .. Len(Tail(q)) : Tail(q)[i] = Tail(q)[j] => i = j
        <5> SUFFICES ASSUME NEW j \in 1 .. Len(Tail(q)), Tail(q)[i] = Tail(q)[j] PROVE i = j
          OBVIOUS
        <5>1. q[i + 1] = q[j + 1] /\ j + 1 \in 1 .. Len(q)
          BY <3>2, <4>1
        <5>2. i + 1 = j + 1
          BY <3>3, <4>1, <5>1
        <5> QED
          BY <5>2
      <4> QED
        BY <3>3, <4>1, <4>3, <4>4
    <3>5. \A i \in 1 .. Len(store'[t].queue) :
             /\ entry'[store'[t].queue[i]].stage = "queued" /\ StoreFor(store'[t].queue[i]) = t
             /\ \A j \in 1 .. Len(store'[t].queue) : store'[t].queue[i] = store'[t].queue[j] => i = j
      <4> HIDE DEF q
      <4> QED
        BY <2>2, <3>1, <3>4
    <3> QED
      BY <3>5 DEF QueueOf, StoreFor
  <2>3. t # s => store'[t].queue = store[t].queue
    BY <1>3
  <2> QED
    BY <1>2, <2>1, <2>2, <2>3
<1> QED
  BY <1>1, <1>4, <1>5

(* Queues that stay, of copies that stay queued.                           *)
LEMMA SameQueues ==
    ASSUME Queues, \A t \in Stores : store'[t].queue = store[t].queue,
           \A t \in Stores : \A i \in 1 .. Len(store[t].queue) :
               entry'[store[t].queue[i]].stage = "queued"
    PROVE  Queues'
BY DEF Queues, QueueOf, StoreFor

(* Keeping a copy that is not queued.                                      *)
LEMMA KeepShape ==
    ASSUME Types, Queues, NEW r \in Records, entry[r].stage # "queued",
           NEW e \in EntryType, entry' = [entry EXCEPT ![r] = e], store' = store
    PROVE  Promoting(r) /\ StoreKept /\ Queues' /\ entry'[r] = e
<1>1. entry'[r] = e /\ entry' \in [Records -> EntryType]
      /\ \A q \in Records \ {r} : entry'[q] = entry[q]
  BY DEF Types
<1>2. Promoting(r)
  BY <1>1 DEF Promoting
<1>3. StoreKept
  BY DEF StoreKept, Types
<1>4. Queues'
  <2>1. ASSUME NEW t \in Stores, NEW i \in 1 .. Len(store[t].queue)
        PROVE  entry'[store[t].queue[i]].stage = "queued"
    <3>1. store[t].queue[i] \in Records /\ entry[store[t].queue[i]].stage = "queued"
      BY DEF Queues, QueueOf, Types, StoreType
    <3> QED
      BY <1>1, <3>1
  <2> QED
    BY <2>1, SameQueues
<1> QED
  BY <1>1, <1>2, <1>3, <1>4

-----------------------------------------------------------------------------
(* An offer settles its copy or keeps it: what both have in common.        *)
OfferStep(r) ==
    /\ Promoting(r) /\ StoreKept /\ Queues'
    /\ entry'[r].stage \in {"active", "done"}
    /\ entry'[r].stage = "active" => entry[r].stage = "active"
    /\ entry'[r].timed => entry'[r].stage = "active"

LEMMA ArmShape ==
    ASSUME Types, Queues, NEW r \in Records, entry[r].stage = "active",
           NEW e \in EntryType, e.stage = "active", Arm(r, e)
    PROVE  OfferStep(r)
<1>1. CASE Settle(r, e)
  BY <1>1, SettleShape DEF OfferStep
<1>2. CASE Keep(r, [e EXCEPT !.armed = TRUE, !.timed = FALSE])
  <2> DEFINE k == [e EXCEPT !.armed = TRUE, !.timed = FALSE]
  <2>1. k \in EntryType /\ k.stage = "active"
    BY DEF EntryType
  <2>2. entry' = [entry EXCEPT ![r] = k] /\ store' = store
    BY <1>2 DEF Keep
  <2> HIDE DEF k
  <2> QED
    BY <2>1, <2>2, KeepShape DEF OfferStep
<1> QED
  BY <1>1, <1>2 DEF Arm

LEMMA KeepStep ==
    ASSUME Types, Queues, NEW r \in Records, NEW e \in EntryType, Keep(r, e),
           entry[r].stage \in {"active", "done"}, e.stage = entry[r].stage,
           e.timed => e.stage = "active"
    PROVE  OfferStep(r)
BY KeepShape DEF Keep, OfferStep

LEMMA SettleOnceShape ==
    ASSUME Types, Queues, NEW r \in Records, entry[r].stage \in {"active", "done"},
           NEW e \in EntryType, e.stage = entry[r].stage, e.timed => e.stage = "active",
           SettleOnce(r, e)
    PROVE  OfferStep(r)
<1>1. CASE Settle(r, e) /\ entry[r].stage = "active"
  BY <1>1, SettleShape DEF OfferStep
<1>2. CASE Keep(r, e)
  BY <1>2, KeepStep
<1> QED
  BY <1>1, <1>2 DEF SettleOnce, Waiting

(* The rest of an offer's step: the copies that nothing has looked at and  *)
(* what was dropped stay as they were.                                     *)
LEMMA UnseenStep ==
    ASSUME Types, Unseen, NEW r \in Records, Promoting(r),
           entry'[r].stage \in {"new", "queued", "dropped"} => entry'[r].seen = Nothing,
           entry'[r].timed => entry'[r].stage = "active"
    PROVE  Unseen'
BY DEF Unseen, Promoting

LEMMA HeardStep ==
    ASSUME Types, Heard, Unseen, NEW r \in Records, Promoting(r), unheard' \subseteq Records,
           \A q \in unheard' : q \in unheard \/ Idle(q),
           r \in unheard' => Idle(r)' \/ entry'[r].stage = "done"
    PROVE  Heard'
BY DEF Heard, Promoting, Idle

(* Whoever is active without having been looked at was so before.          *)
LEMMA UnheardBefore ==
    ASSUME Heard, NEW r \in Records, Promoting(r), NEW q \in Records \ {r},
           q \in unheard, entry'[q].stage = "active"
    PROVE  q \in unheard \cap Active
BY DEF Heard, Promoting, Active, Idle

LEMMA NoWakeKept ==
    ASSUME Heard, NoWakeIsLost, NEW r \in Records, Promoting(r),
           unheard' \subseteq unheard, unheard \subseteq Records,
           waking'.timer = waking.timer, waking'.rewake = waking.rewake,
           waking'.draining = waking.draining, waking.left \ {r} \subseteq waking'.left,
           r \in unheard' => entry'[r].stage # "active"
    PROVE  NoWakeIsLost'
<1> SUFFICES ASSUME NEW q \in unheard', entry'[q].stage = "active"
             PROVE  \/ waking'.timer \/ waking'.rewake
                    \/ waking'.draining /\ q \in waking'.left
  BY DEF NoWakeIsLost, Active
<1>1. q \in Records \ {r} /\ q \in unheard
  OBVIOUS
<1>2. q \in unheard \cap Active
  BY <1>1, UnheardBefore
<1> QED
  BY <1>1, <1>2 DEF NoWakeIsLost

(* After a wake every idle copy has a drain to come.                       *)
LEMMA WokenShape ==
    ASSUME NEW w \in Waking
    PROVE  /\ Woken(w) \in Waking
           /\ Woken(w).timer \/ Woken(w).rewake \/ Active = {}
           /\ ~(w.timer /\ w.draining) => ~(Woken(w).timer /\ Woken(w).draining)
<1>1. Scopes = {} => Active = {}
  BY StoreForType DEF Scopes, ActiveIn, Active
<1> QED
  BY <1>1 DEF Woken, Waking

LEMMA NoWakeAfterWake ==
    ASSUME Types, Heard, NEW r \in Records, Promoting(r), NEW w \in Waking, Wake(w),
           entry'[r].stage = "active" => entry[r].stage = "active"
    PROVE  NoWakeIsLost' /\ waking' \in Waking
<1>1. waking' \in Waking /\ (waking'.timer \/ waking'.rewake \/ Active = {})
  BY WokenShape DEF Wake
<1>2. ASSUME Active = {}, NEW q \in unheard', entry'[q].stage = "active"
      PROVE  FALSE
  <2>1. q \in unheard /\ q \in Records
    BY <1>2 DEF Wake, Active, Types
  <2>2. q # r
    BY <1>2, <2>1 DEF Active
  <2> QED
    BY <1>2, <2>1, <2>2, UnheardBefore
<1> QED
  BY <1>1, <1>2 DEF NoWakeIsLost, Active

LEMMA OverflowsStep ==
    ASSUME Types, Overflows, NEW r \in Records, Promoting(r), StoreKept,
           missed' \subseteq missed, entry[r].stage # "dropped"
    PROVE  Overflows'
<1>1. MissedWereDropped'
  BY DEF Overflows, MissedWereDropped, Promoting
<1>2. SubjectsFit'
  BY DEF Overflows, SubjectsFit, StoreKept
<1>3. MissedAreRemembered'
  <2> SUFFICES ASSUME NEW d \in missed'
               PROVE  \/ d \in store'[StoreOf[d]].subjects
                      \/ Cardinality(store'[StoreOf[d]].subjects) = MaxSubjects
                      \/ ~store'[StoreOf[d]].registered
    BY DEF MissedAreRemembered
  <2>1. d \in missed /\ d \in Documents /\ StoreOf[d] \in Stores
    BY ReadmissionAssumption DEF Types
  <2>2. /\ store'[StoreOf[d]].subjects = store[StoreOf[d]].subjects
        /\ store'[StoreOf[d]].registered = store[StoreOf[d]].registered
    BY <2>1 DEF StoreKept
  <2> QED
    BY <2>1, <2>2 DEF Overflows, MissedAreRemembered
<1>4. RescansCover'
  <2> SUFFICES ASSUME NEW s \in Stores, NEW d \in missed', StoreOf[d] = s,
                      store'[s].rescan = "running", ~store'[s].fresh, store'[s].registered
               PROVE  d \in store'[s].todo
    BY DEF RescansCover, Covers
  <2>1. d \in missed /\ store'[s].registered = store[s].registered
    BY DEF StoreKept
  <2>2. d \in Stored(s)
    BY <2>1, ReadmissionAssumption DEF Overflows, MissedWereDropped, Stored, StoreFor
  <2>3. CASE /\ store'[s].rescan = store[s].rescan /\ store'[s].fresh = store[s].fresh
             /\ store'[s].todo = store[s].todo
    BY <2>1, <2>3 DEF Overflows, RescansCover, Covers
  <2>4. CASE store[s].registered => store'[s].todo = Stored(s)
    BY <2>1, <2>2, <2>4
  <2> QED
    BY <2>3, <2>4 DEF StoreKept
<1> QED
  BY <1>1, <1>2, <1>3, <1>4 DEF Overflows

-----------------------------------------------------------------------------
(* Steps of offers leave the types, and what lies around them, right.      *)
LEMMA OfferTypes ==
    ASSUME Types, NEW r \in Records, Promoting(r), StoreKept,
           verdict' = verdict, waking' \in Waking, missed' \subseteq missed,
           unheard' \subseteq Records
    PROVE  Types'
BY DEF Types, Promoting, StoreKept

LEMMA LookingType ==
    ASSUME Types, NEW r \in Records, NEW e \in EntryType
    PROVE  Looking(r, e) \in EntryType /\ Looking(r, e).stage = e.stage
<1>1. verdict[DocumentOf[r]] \in Verdicts
  BY StoreForType DEF Types
<1> QED
  BY <1>1 DEF Looking, EntryType

(* A step of a copy that wakes nobody.                                     *)
LEMMA QuietStep ==
    ASSUME Inv, NEW r \in Records, Promoting(r), StoreKept, Queues', entry[r].stage # "dropped",
           entry'[r].stage \in {"new", "queued", "dropped"} => entry'[r].seen = Nothing,
           entry'[r].timed => entry'[r].stage = "active",
           verdict' = verdict, missed' \subseteq missed, unheard' \subseteq unheard,
           r \in unheard' => entry'[r].stage = "done",
           waking' \in Waking, waking'.timer = waking.timer, waking'.rewake = waking.rewake,
           waking'.draining = waking.draining, waking.left \ {r} \subseteq waking'.left
    PROVE  Inv'
<1>1. /\ Types /\ Unseen /\ Heard /\ Apart /\ NoWakeIsLost /\ Overflows
      /\ unheard \subseteq Records
  BY DEF Inv, Types
<1>2. Types'
  BY <1>1, OfferTypes
<1>3. Unseen'
  BY <1>1, UnseenStep
<1>4. Heard'
  BY <1>1, HeardStep
<1>5. NoWakeIsLost' /\ Apart'
  BY <1>1, NoWakeKept DEF Apart
<1>6. Overflows'
  BY <1>1, OverflowsStep
<1> QED
  BY <1>2, <1>3, <1>4, <1>5, <1>6 DEF Inv

(* A step of an offer that wakes nobody.                                   *)
LEMMA QuietOffer ==
    ASSUME Inv, NEW r \in Records, OfferStep(r), entry[r].stage # "dropped",
           verdict' = verdict, missed' \subseteq missed, unheard' \subseteq unheard,
           r \in unheard' => entry'[r].stage = "done",
           waking' \in Waking, waking'.timer = waking.timer, waking'.rewake = waking.rewake,
           waking'.draining = waking.draining, waking.left \ {r} \subseteq waking'.left
    PROVE  Inv'
<1>1. /\ Promoting(r) /\ StoreKept /\ Queues'
      /\ entry'[r].stage \in {"active", "done"}
      /\ entry'[r].timed => entry'[r].stage = "active"
  BY DEF OfferStep
<1> QED
  BY <1>1, QuietStep

(* One that wakes.                                                         *)
LEMMA WakingOffer ==
    ASSUME Inv, NEW r \in Records, OfferStep(r), entry[r].stage # "dropped",
           verdict' = verdict, missed' \subseteq missed, NEW w \in Waking, Wake(w), ~Idle(r),
           ~(w.timer /\ w.draining)
    PROVE  Inv'
<1>1. /\ Types /\ Queues /\ Unseen /\ Heard /\ NoWakeIsLost /\ Overflows
      /\ Promoting(r) /\ StoreKept /\ Queues'
      /\ entry'[r].stage \in {"active", "done"}
      /\ entry'[r].timed => entry'[r].stage = "active"
      /\ entry'[r].stage = "active" => entry[r].stage = "active"
  BY DEF Inv, OfferStep
<1>2. /\ unheard' \subseteq Records
      /\ \A q \in unheard' : q \in unheard \/ Idle(q)
  BY <1>1 DEF Wake, Types, Active, Idle
<1>3. r \in unheard' => entry'[r].stage = "done"
  BY <1>1, <1>2 DEF Heard, Idle
<1>4. NoWakeIsLost' /\ waking' \in Waking
  BY <1>1, NoWakeAfterWake
<1>5. Apart'
  BY WokenShape DEF Wake, Apart
<1>6. Types'
  BY <1>1, <1>2, <1>4, OfferTypes
<1>7. Unseen'
  BY <1>1, UnseenStep
<1>8. Heard'
  BY <1>1, <1>2, <1>3, HeardStep
<1>9. Overflows'
  BY <1>1, OverflowsStep
<1> QED
  BY <1>1, <1>4, <1>5, <1>6, <1>7, <1>8, <1>9 DEF Inv

LEMMA ResumedShape ==
    ASSUME waking \in Waking, NEW r
    PROVE  /\ Resumed(r) \in Waking
           /\ Resumed(r).timer = waking.timer /\ Resumed(r).rewake = waking.rewake
           /\ Resumed(r).draining = waking.draining /\ Resumed(r).left = waking.left
BY DEF Resumed, Waking

(* A copy with an offer under way is active, or done.                      *)
LEMMA OfferedShape ==
    ASSUME Inv, NEW r \in Records, entry[r].stage # "judging", entry[r].seen # Nothing
    PROVE  entry[r].stage \in {"active", "done"} /\ ~Idle(r)
BY DEF Inv, Types, EntryType, Stages, Unseen, Idle

-----------------------------------------------------------------------------
LEMMA DelayStep ==
    ASSUME Inv, NEW r \in Records, Delay(r)
    PROVE  Inv'
<1> DEFINE e == [entry[r] EXCEPT !.attempt = @ + 1, !.armed = FALSE]
           f == [e EXCEPT !.timed = TRUE]
<1>1. /\ Types /\ Queues /\ entry[r] \in EntryType /\ waking \in Waking
      /\ entry[r].stage = "active"
  BY DEF Inv, Types, Delay
<1>2. /\ e \in EntryType /\ e.stage = "active" /\ f \in EntryType /\ f.stage = "active"
  <2>1. entry[r].attempt + 1 \in Nat
    BY <1>1 DEF EntryType
  <2>2. e \in EntryType /\ e.stage = "active"
    BY <1>1, <2>1 DEF EntryType
  <2> HIDE DEF e
  <2> QED
    BY <2>2 DEF EntryType
<1>3. /\ verdict' = verdict /\ waking' = waking
      /\ \/ entry[r].seen # Nothing /\ Arm(r, e) /\ UNCHANGED <<missed, unheard>>
         \/ Keep(r, Looking(r, f)) /\ Look(r) /\ unheard' = unheard \ {r}
         \/ Settle(r, e) /\ UNCHANGED <<missed, unheard>>
  BY DEF Delay
<1> HIDE DEF e, f
<1>4. CASE entry[r].seen # Nothing /\ Arm(r, e) /\ UNCHANGED <<missed, unheard>>
  <2>1. OfferStep(r)
    BY <1>1, <1>2, <1>4, ArmShape
  <2>2. r \notin unheard
    BY <1>1, <1>4 DEF Inv, Heard, Idle
  <2> QED
    BY <1>1, <1>3, <1>4, <2>1, <2>2, QuietOffer
<1>5. CASE Keep(r, Looking(r, f)) /\ Look(r) /\ unheard' = unheard \ {r}
  <2>1. Looking(r, f) \in EntryType /\ Looking(r, f).stage = "active"
    BY <1>1, <1>2, LookingType
  <2>2. OfferStep(r)
    BY <1>1, <1>5, <2>1, KeepStep
  <2>3. missed' \subseteq missed /\ unheard' \subseteq unheard /\ r \notin unheard'
    BY <1>5 DEF Look
  <2> QED
    BY <1>1, <1>3, <2>2, <2>3, QuietOffer
<1>6. CASE Settle(r, e) /\ UNCHANGED <<missed, unheard>>
  <2>1. OfferStep(r) /\ entry'[r].stage = "done"
    BY <1>1, <1>2, <1>6, SettleShape DEF OfferStep
  <2> QED
    BY <1>1, <1>3, <1>6, <2>1, QuietOffer
<1> QED
  BY <1>3, <1>4, <1>5, <1>6

(* An offer that ends and wakes nobody.                                    *)
LEMMA QuietResumed ==
    ASSUME Inv, NEW r \in Records, OfferStep(r), entry[r].stage \in {"active", "done"}, ~Idle(r),
           verdict' = verdict, missed' = missed, unheard' = unheard, waking' = Resumed(r)
    PROVE  Inv'
<1>1. waking \in Waking
  BY DEF Inv, Types
<1>2. r \in unheard => entry[r].stage = "done"
  BY DEF Inv, Heard
<1>3. r \in unheard' => entry'[r].stage = "done"
  BY <1>2 DEF OfferStep
<1>4. /\ waking' \in Waking
      /\ waking'.timer = waking.timer /\ waking'.rewake = waking.rewake
      /\ waking'.draining = waking.draining /\ waking'.left = waking.left
  BY <1>1, ResumedShape
<1> QED
  BY <1>3, <1>4, QuietOffer

LEMMA EndOfferStep ==
    ASSUME Inv, NEW r \in Records, EndOffer(r)
    PROVE  Inv'
<1> DEFINE e == [entry[r] EXCEPT !.seen = Nothing]
<1>1. /\ Types /\ Queues /\ entry[r] \in EntryType /\ waking \in Waking
      /\ entry[r].timed => entry[r].stage = "active"
  BY DEF Inv, Types, Unseen
<1>2. /\ e \in EntryType /\ e.stage = entry[r].stage /\ e.timed = entry[r].timed
  BY <1>1 DEF EntryType
<1>3. entry[r].stage \in {"active", "done"} /\ ~Idle(r)
  BY OfferedShape DEF EndOffer
<1>4. /\ verdict' = verdict /\ missed' = missed
      /\ \/ SettleOnce(r, e) /\ Wake(Resumed(r))
         \/ SettleOnce(r, e) /\ waking' = Resumed(r) /\ unheard' = unheard
         \/ /\ IF e.timed THEN Arm(r, e) ELSE Keep(r, e)
            /\ waking' = Resumed(r) /\ unheard' = unheard
  BY DEF EndOffer
<1> HIDE DEF e
<1>5. SettleOnce(r, e) => OfferStep(r)
  BY <1>1, <1>2, <1>3, SettleOnceShape
<1>6. (IF e.timed THEN Arm(r, e) ELSE Keep(r, e)) => OfferStep(r)
  <2>1. CASE e.timed
    BY <1>1, <1>2, <2>1, ArmShape
  <2>2. CASE ~e.timed
    BY <1>1, <1>2, <1>3, <2>2, KeepStep
  <2> QED
    BY <2>1, <2>2
<1>7. CASE SettleOnce(r, e) /\ Wake(Resumed(r))
  <2>1. Resumed(r) \in Waking /\ ~(Resumed(r).timer /\ Resumed(r).draining)
    BY <1>1, ResumedShape DEF Inv, Apart
  <2> QED
    BY <1>3, <1>4, <1>5, <1>7, <2>1, WakingOffer
<1>8. CASE OfferStep(r) /\ waking' = Resumed(r) /\ unheard' = unheard
  BY <1>3, <1>4, <1>8, QuietResumed
<1> QED
  BY <1>4, <1>5, <1>6, <1>7, <1>8

LEMMA FailOfferStep ==
    ASSUME Inv, NEW r \in Records, FailOffer(r)
    PROVE  Inv'
<1> DEFINE e == [entry[r] EXCEPT !.seen = Nothing]
<1>1. /\ Types /\ Queues /\ entry[r] \in EntryType
      /\ entry[r].timed => entry[r].stage = "active"
  BY DEF Inv, Types, Unseen
<1>2. /\ e \in EntryType /\ e.stage = entry[r].stage /\ e.timed = entry[r].timed
  BY <1>1 DEF EntryType
<1>3. entry[r].stage \in {"active", "done"} /\ ~Idle(r)
  BY OfferedShape DEF FailOffer
<1>4. /\ SettleOnce(r, e) /\ waking' = Resumed(r)
      /\ verdict' = verdict /\ missed' = missed /\ unheard' = unheard
  BY DEF FailOffer
<1> HIDE DEF e
<1>5. OfferStep(r)
  BY <1>1, <1>2, <1>3, <1>4, SettleOnceShape
<1> QED
  BY <1>3, <1>4, <1>5, QuietResumed

(* A step of the drain that changes no copy and no store.                  *)
LEMMA DrainOnly ==
    ASSUME Inv, UNCHANGED <<verdict, entry, store, missed, unheard>>,
           waking' \in Waking, Apart', NoWakeIsLost'
    PROVE  Inv'
<1>1. Types' /\ Queues' /\ Unseen' /\ Heard'
  BY DEF Inv, Types, Queues, QueueOf, StoreFor, Unseen, Heard, Idle
<1>2. Overflows'
  BY DEF Inv, Overflows, MissedWereDropped, SubjectsFit, MissedAreRemembered, RescansCover, Covers
<1> QED
  BY <1>1, <1>2 DEF Inv

LEMMA DeadlineStep ==
    ASSUME Inv, NEW r \in Records, Deadline(r)
    PROVE  Inv'
<1>1. /\ Types /\ Queues /\ entry[r] \in EntryType /\ waking \in Waking /\ Apart /\ NoWakeIsLost
      /\ entry[r].timed => entry[r].stage = "active"
      /\ entry[r].seen # Nothing
  BY DEF Inv, Types, Unseen, Deadline
<1>2. waking' = Resumed(r) /\ UNCHANGED <<verdict, missed, unheard>>
  BY DEF Deadline
<1>3. CASE entry[r].timed /\ Arm(r, entry[r])
  <2>1. OfferStep(r)
    BY <1>1, <1>3, ArmShape
  <2> QED
    BY <1>1, <1>2, <1>3, <2>1, QuietResumed DEF Idle
<1>4. CASE UNCHANGED <<entry, store>>
  <2>1. /\ waking' \in Waking
        /\ waking'.timer = waking.timer /\ waking'.rewake = waking.rewake
        /\ waking'.draining = waking.draining /\ waking'.left = waking.left
    BY <1>1, <1>2, ResumedShape
  <2>2. NoWakeIsLost' /\ Apart'
    BY <1>1, <1>2, <1>4, <2>1 DEF NoWakeIsLost, Active, Apart
  <2> QED
    BY <1>2, <1>4, <2>1, <2>2, DrainOnly
<1> QED
  BY <1>3, <1>4 DEF Deadline

LEMMA StartDrainStep ==
    ASSUME Inv, StartDrain
    PROVE  Inv'
<1>1. waking' \in Waking /\ waking'.draining /\ ~waking'.timer /\ waking'.left = Active
  BY DEF Inv, Types, Waking, StartDrain, Active
<1>2. NoWakeIsLost' /\ Apart'
  BY <1>1 DEF StartDrain, NoWakeIsLost, Active, Apart
<1> QED
  BY <1>1, <1>2, DrainOnly DEF StartDrain

(* A drain that ends is followed by another one if a wake came meanwhile.  *)
LEMMA EndDrainStep ==
    ASSUME Inv, EndDrain
    PROVE  Inv'
<1>1. waking' \in Waking /\ ~waking'.draining /\ waking'.timer = (waking.rewake /\ Scopes # {})
  BY DEF Inv, Types, Waking, EndDrain
<1>2. Active # {} => Scopes # {}
  BY StoreForType DEF Scopes, ActiveIn, Active
<1>3. NoWakeIsLost'
  <2> SUFFICES ASSUME NEW r \in unheard \cap Active PROVE waking'.timer
    BY DEF NoWakeIsLost, EndDrain, Active
  <2>1. waking.rewake
    BY DEF Inv, NoWakeIsLost, Apart, EndDrain
  <2> QED
    BY <1>1, <1>2, <2>1
<1> QED
  BY <1>1, <1>3, DrainOnly DEF EndDrain, Apart

LEMMA DrainOneStep ==
    ASSUME Inv, NEW r \in Records, DrainOne(r)
    PROVE  Inv'
<1> DEFINE w == [waking EXCEPT !.left = @ \ {r}]
<1>1. /\ Types /\ Queues /\ entry[r] \in EntryType /\ waking \in Waking
      /\ Heard /\ Apart /\ NoWakeIsLost
  BY DEF Inv, Types
<1>2. /\ w \in Waking /\ [w EXCEPT !.on = r] \in Waking
      /\ \A v \in {w, [w EXCEPT !.on = r]} :
           /\ v.timer = waking.timer /\ v.rewake = waking.rewake
           /\ v.draining = waking.draining /\ v.left = waking.left \ {r}
  BY <1>1 DEF Waking
<1>3. /\ verdict' = verdict
      /\ \/ /\ entry[r].stage # "active" \/ entry[r].seen # Nothing
            /\ waking' = w /\ UNCHANGED <<entry, store, missed, unheard>>
         \/ /\ entry[r].stage = "active" /\ Keep(r, Looking(r, entry[r])) /\ Look(r)
            /\ waking' = [w EXCEPT !.on = r] /\ unheard' = unheard \ {r}
         \/ /\ entry[r].stage = "active" /\ Settle(r, entry[r])
            /\ waking' = w /\ UNCHANGED <<missed, unheard>>
  BY DEF DrainOne
<1> HIDE DEF w
<1>4. CASE /\ entry[r].stage # "active" \/ entry[r].seen # Nothing
           /\ waking' = w /\ UNCHANGED <<entry, store, missed, unheard>>
  <2>1. r \notin unheard \cap Active
    BY <1>1, <1>4 DEF Heard, Idle, Active
  <2>2. NoWakeIsLost'
    BY <1>1, <1>2, <1>4, <2>1 DEF NoWakeIsLost, Active
  <2>3. Apart'
    BY <1>1, <1>2, <1>4 DEF Apart
  <2> QED
    BY <1>2, <1>3, <1>4, <2>2, <2>3, DrainOnly
<1>5. CASE /\ entry[r].stage = "active" /\ Keep(r, Looking(r, entry[r])) /\ Look(r)
           /\ waking' = [w EXCEPT !.on = r] /\ unheard' = unheard \ {r}
  <2>1. Looking(r, entry[r]) \in EntryType /\ Looking(r, entry[r]).stage = "active"
    BY <1>1, <1>5, LookingType
  <2>2. OfferStep(r)
    BY <1>1, <1>5, <2>1, KeepStep
  <2>3. missed' \subseteq missed /\ unheard' \subseteq unheard /\ r \notin unheard'
    BY <1>5 DEF Look
  <2>4. /\ waking' \in Waking
        /\ waking'.timer = waking.timer /\ waking'.rewake = waking.rewake
        /\ waking'.draining = waking.draining /\ waking.left \ {r} \subseteq waking'.left
    BY <1>2, <1>5
  <2> QED
    BY <1>3, <1>5, <2>2, <2>3, <2>4, QuietOffer
<1>6. CASE /\ entry[r].stage = "active" /\ Settle(r, entry[r])
           /\ waking' = w /\ UNCHANGED <<missed, unheard>>
  <2>1. OfferStep(r) /\ entry'[r].stage = "done"
    BY <1>1, <1>6, SettleShape DEF OfferStep
  <2>2. /\ waking' \in Waking
        /\ waking'.timer = waking.timer /\ waking'.rewake = waking.rewake
        /\ waking'.draining = waking.draining /\ waking.left \ {r} \subseteq waking'.left
    BY <1>2, <1>6
  <2> QED
    BY <1>3, <1>6, <2>1, <2>2, QuietOffer
<1> QED
  BY <1>3, <1>4, <1>5, <1>6

-----------------------------------------------------------------------------
LEMMA ArriveStep ==
    ASSUME Inv, NEW r \in Records, Arrive(r)
    PROVE  Inv'
<1> DEFINE e == [entry[r] EXCEPT !.stage = "judging"]
<1>1. /\ Types /\ Queues /\ entry[r] \in EntryType /\ waking \in Waking
      /\ entry[r].stage = "new" /\ ~entry[r].timed /\ r \notin unheard
  BY DEF Inv, Types, Unseen, Heard, Idle, Arrive
<1>2. e \in EntryType /\ e.stage = "judging" /\ ~e.timed
  BY <1>1 DEF EntryType, Stages
<1>3. /\ Keep(r, Looking(r, e)) /\ Look(r)
      /\ UNCHANGED <<verdict, waking, unheard>>
  BY DEF Arrive
<1> HIDE DEF e
<1>4. /\ Looking(r, e) \in EntryType /\ Looking(r, e).stage = "judging"
      /\ ~Looking(r, e).timed
  BY <1>1, <1>2, LookingType DEF Looking, EntryType
<1>5. /\ Promoting(r) /\ StoreKept /\ Queues' /\ entry'[r] = Looking(r, e)
  BY <1>1, <1>3, <1>4, KeepShape DEF Keep
<1>6. missed' \subseteq missed
  BY <1>3 DEF Look
<1> QED
  BY <1>1, <1>3, <1>4, <1>5, <1>6, QuietStep

(* A copy that takes a slot, or whose verdict is final.                    *)
LEMMA JudgedStep ==
    ASSUME Inv, NEW r \in Records, entry[r].stage = "judging", NEW e \in EntryType,
           e.stage \in {"active", "done"}, ~e.timed, e.seen = Nothing,
           entry' = [entry EXCEPT ![r] = e],
           UNCHANGED <<verdict, store, waking, missed, unheard>>
    PROVE  Inv'
<1>1. /\ Types /\ Queues /\ waking \in Waking /\ r \notin unheard
  BY DEF Inv, Types, Heard, Idle
<1>2. /\ Promoting(r) /\ StoreKept /\ Queues' /\ entry'[r] = e
  BY <1>1, KeepShape
<1> QED
  BY <1>1, <1>2, QuietStep

LEMMA AcceptedStep ==
    ASSUME Inv, NEW r \in Records, entry[r].stage = "judging", NEW e \in EntryType,
           e.stage = "done", ~e.timed, entry' = [entry EXCEPT ![r] = e],
           UNCHANGED <<verdict, store, missed>>, Wake(waking)
    PROVE  Inv'
<1>1. /\ Types /\ Queues /\ waking \in Waking /\ ~Idle(r) /\ ~(waking.timer /\ waking.draining)
  BY DEF Inv, Types, Idle, Apart
<1>2. /\ Promoting(r) /\ StoreKept /\ Queues' /\ entry'[r] = e
  BY <1>1, KeepShape
<1>3. OfferStep(r)
  BY <1>2 DEF OfferStep
<1> QED
  BY <1>1, <1>3, WakingOffer

(* The queue of a store, told by its elements.                             *)
LEMMA QueueByElement ==
    ASSUME NEW t \in Stores, NEW x, store'[t].queue = x,
           \A i \in 1 .. Len(x) :
              /\ entry'[x[i]].stage = "queued" /\ StoreFor(x[i]) = t
              /\ \A j \in 1 .. Len(x) : x[i] = x[j] => i = j
    PROVE  QueueOf(t)'
BY DEF QueueOf, StoreFor

(* A copy that is put behind the queue of its store.                       *)
LEMMA QueuedStep ==
    ASSUME Inv, NEW r \in Records, entry[r].stage = "judging", NEW e \in EntryType,
           e.stage = "queued", ~e.timed, e.seen = Nothing,
           entry' = [entry EXCEPT ![r] = e],
           store' = [store EXCEPT ![StoreFor(r)].queue = Append(@, r)],
           UNCHANGED <<verdict, waking, missed, unheard>>
    PROVE  Inv'
<1> DEFINE s == StoreFor(r)
           q == store[s].queue
<1>1. /\ Types /\ Queues /\ waking \in Waking /\ r \notin unheard
      /\ s \in Stores /\ store[s] \in StoreType /\ q \in Seq(Records)
      /\ \A t \in Stores : store[t] \in StoreType /\ store[t].queue \in Seq(Records)
  BY StoreForType DEF Inv, Types, StoreType, Heard, Idle
<1>2. entry'[r] = e /\ \A c \in Records \ {r} : entry'[c] = entry[c]
  BY <1>1 DEF Types
<1>3. Promoting(r)
  BY <1>2, <1>1 DEF Promoting, Types
<1>4. /\ store'[s] = [store[s] EXCEPT !.queue = Append(q, r)]
      /\ \A t \in Stores \ {s} : store'[t] = store[t]
      /\ DOMAIN store' = Stores
  BY <1>1 DEF Types
<1>5. Append(q, r) \in Seq(Records)
  BY <1>1
<1>6. /\ store'[s] \in StoreType /\ store'[s].queue = Append(q, r)
      /\ store'[s].subjects = store[s].subjects /\ store'[s].registered = store[s].registered
      /\ store'[s].rescan = store[s].rescan /\ store'[s].fresh = store[s].fresh
      /\ store'[s].todo = store[s].todo
  BY <1>1, <1>4, <1>5 DEF StoreType
<1>7. StoreKept
  <2>1. store' \in [Stores -> StoreType]
    BY <1>1, <1>4, <1>6 DEF Types
  <2> QED
    BY <1>4, <1>6, <2>1 DEF StoreKept
<1>8. Queues'
  <2> SUFFICES ASSUME NEW t \in Stores PROVE QueueOf(t)'
    BY DEF Queues
  <2>1. \A i \in 1 .. Len(store[t].queue) :
           /\ store[t].queue[i] \in Records \ {r}
           /\ entry'[store[t].queue[i]].stage = "queued" /\ StoreFor(store[t].queue[i]) = t
           /\ \A j \in 1 .. Len(store[t].queue) : store[t].queue[i] = store[t].queue[j] => i = j
    <3> SUFFICES ASSUME NEW i \in 1 .. Len(store[t].queue)
                 PROVE  /\ store[t].queue[i] \in Records \ {r}
                        /\ entry'[store[t].queue[i]].stage = "queued" /\ StoreFor(store[t].queue[i]) = t
                        /\ \A j \in 1 .. Len(store[t].queue) : store[t].queue[i] = store[t].queue[j] => i = j
      OBVIOUS
    <3>1. store[t].queue[i] \in Records
      BY <1>1
    <3>2. /\ entry[store[t].queue[i]].stage = "queued" /\ StoreFor(store[t].queue[i]) = t
          /\ \A j \in 1 .. Len(store[t].queue) : store[t].queue[i] = store[t].queue[j] => i = j
      BY <1>1 DEF Queues, QueueOf
    <3> QED
      BY <1>2, <3>1, <3>2
  <2>2. CASE t # s
    BY <1>4, <2>1, <2>2 DEF QueueOf, StoreFor
  <2>3. CASE t = s
    <3>1. /\ Len(Append(q, r)) = Len(q) + 1 /\ Append(q, r)[Len(q) + 1] = r /\ Len(q) \in Nat
          /\ \A i \in 1 .. Len(q) : Append(q, r)[i] = q[i]
      BY <1>1
    <3>2. \A i \in 1 .. Len(q) :
             /\ q[i] # r /\ entry'[q[i]].stage = "queued" /\ StoreFor(q[i]) = s
             /\ \A j \in 1 .. Len(q) : q[i] = q[j] => i = j
      BY <2>1, <2>3
    <3>3. entry'[r].stage = "queued" /\ StoreFor(r) = s
      BY <1>2
    <3> HIDE DEF q, s
    <3>4. ASSUME NEW i \in 1 .. Len(Append(q, r))
          PROVE  /\ entry'[Append(q, r)[i]].stage = "queued" /\ StoreFor(Append(q, r)[i]) = s
                 /\ \A j \in 1 .. Len(Append(q, r)) : Append(q, r)[i] = Append(q, r)[j] => i = j
      <4> DEFINE x == Append(q, r)
      <4> HIDE DEF x
      <4>0. /\ Len(x) = Len(q) + 1 /\ x[Len(q) + 1] = r /\ Len(q) \in Nat
            /\ \A k \in 1 .. Len(q) : x[k] = q[k]
            /\ i \in 1 .. Len(x)
        BY <3>1 DEF x
      <4>1. \A k \in 1 .. Len(x) : k \in 1 .. Len(q) \/ k = Len(q) + 1
        BY <4>0
      <4>2. entry'[x[i]].stage = "queued" /\ StoreFor(x[i]) = s
        BY <3>2, <3>3, <4>0, <4>1
      <4>3. \A j \in 1 .. Len(x) : x[i] = x[j] => i = j
        BY <3>2, <4>0, <4>1
      <4> QED
        BY <4>2, <4>3 DEF x
    <3>5. store'[t].queue = Append(q, r)
      BY <1>6, <2>3
    <3> DEFINE x == Append(q, r)
    <3>6. \A i \in 1 .. Len(x) :
             /\ entry'[x[i]].stage = "queued" /\ StoreFor(x[i]) = t
             /\ \A j \in 1 .. Len(x) : x[i] = x[j] => i = j
      BY <2>3, <3>4, Zenon
    <3> HIDE DEF x
    <3> QED
      BY <3>5, <3>6, QueueByElement, Zenon DEF x
  <2> QED
    BY <2>2, <2>3
<1> QED
  BY <1>1, <1>2, <1>3, <1>7, <1>8, QuietStep

(* A copy that finds no place.  The rescan that may be running has to be   *)
(* repeated, and the store remembers the document if it can.               *)
LEMMA DroppedStep ==
    ASSUME Inv, NEW r \in Records, entry[r].stage = "judging", NEW e \in EntryType,
           e.stage = "dropped", ~e.timed, e.seen = Nothing,
           entry' = [entry EXCEPT ![r] = e],
           NEW s, s = StoreFor(r), NEW d, d = DocumentOf[r],
           store' = [store EXCEPT ![s].overflowed = TRUE, ![s].fresh = TRUE,
                                  ![s].subjects = Remembered(store[s], d)],
           missed' = missed \cup {d}, UNCHANGED <<verdict, waking, unheard>>
    PROVE  Inv'
<1> DEFINE x == [store[s] EXCEPT !.overflowed = TRUE, !.fresh = TRUE,
                                 !.subjects = Remembered(store[s], d)]
<1>1. /\ Types /\ Queues /\ Unseen /\ Heard /\ Apart /\ NoWakeIsLost /\ Overflows
      /\ waking \in Waking /\ r \notin unheard /\ unheard \subseteq Records
      /\ s \in Stores /\ d \in Documents /\ StoreOf[d] = s
      /\ \A t \in Stores : store[t] \in StoreType
  BY StoreForType DEF Inv, Types, Heard, Idle, StoreFor
<1>2. entry'[r] = e /\ \A c \in Records \ {r} : entry'[c] = entry[c]
  BY <1>1 DEF Types
<1>3. Promoting(r)
  BY <1>2, <1>1 DEF Promoting, Types
<1>4. /\ IsFiniteSet(store[s].subjects) /\ Cardinality(store[s].subjects) \in Nat
      /\ Cardinality(store[s].subjects) <= MaxSubjects /\ store[s].subjects \subseteq Documents
  BY <1>1, FS_CardinalityType DEF Overflows, SubjectsFit, StoreType
<1>5. LET m == Remembered(store[s], d) IN
      /\ m \subseteq Documents /\ IsFiniteSet(m) /\ Cardinality(m) <= MaxSubjects
      /\ store[s].subjects \subseteq m
      /\ d \in m \/ Cardinality(m) = MaxSubjects
      /\ Cardinality(store[s].subjects) = MaxSubjects => m = store[s].subjects
  <2>1. CASE Cardinality(store[s].subjects) < MaxSubjects
    <3>1. /\ IsFiniteSet(store[s].subjects \cup {d})
          /\ Cardinality(store[s].subjects \cup {d}) <= Cardinality(store[s].subjects) + 1
          /\ Cardinality(store[s].subjects \cup {d}) \in Nat
      <4> DEFINE S == store[s].subjects
      <4>1. IsFiniteSet(S) /\ Cardinality(S) \in Nat
        BY <1>4
      <4> HIDE DEF S
      <4>2. /\ IsFiniteSet(S \cup {d})
            /\ Cardinality(S \cup {d}) = IF d \in S THEN Cardinality(S) ELSE Cardinality(S) + 1
        BY <4>1, FS_AddElement
      <4>3. Cardinality(S \cup {d}) <= Cardinality(S) + 1 /\ Cardinality(S \cup {d}) \in Nat
        BY <4>1, <4>2
      <4> QED
        BY <4>2, <4>3 DEF S
    <3>2. Remembered(store[s], d) = store[s].subjects \cup {d}
      BY <2>1 DEF Remembered
    <3> QED
      BY <1>1, <1>4, <2>1, <3>1, <3>2, ReadmissionAssumption
  <2>2. CASE ~(Cardinality(store[s].subjects) < MaxSubjects)
    BY <1>1, <1>4, <2>2, ReadmissionAssumption DEF Remembered
  <2> QED
    BY <2>1, <2>2
<1>6. /\ store'[s] = x /\ \A t \in Stores \ {s} : store'[t] = store[t]
      /\ DOMAIN store' = Stores
  BY <1>1 DEF Types
<1>7. /\ x \in StoreType /\ x.queue = store[s].queue /\ x.fresh
      /\ x.subjects = Remembered(store[s], d) /\ x.registered = store[s].registered
  BY <1>1, <1>5 DEF StoreType
<1> HIDE DEF x
<1>8. Types'
  <2>1. store' \in [Stores -> StoreType]
    BY <1>1, <1>6, <1>7 DEF Types
  <2> QED
    BY <1>1, <1>3, <2>1 DEF Types, Promoting
<1>9. Queues'
  <2>1. \A t \in Stores : store'[t].queue = store[t].queue
    BY <1>6, <1>7
  <2>2. ASSUME NEW t \in Stores, NEW i \in 1 .. Len(store[t].queue)
        PROVE  entry'[store[t].queue[i]].stage = "queued"
    <3>1. store[t].queue[i] \in Records /\ entry[store[t].queue[i]].stage = "queued"
      BY <1>1 DEF StoreType, Queues, QueueOf
    <3> QED
      BY <1>2, <3>1
  <2> QED
    BY <1>1, <2>1, <2>2, SameQueues
<1>10. Unseen'
  BY <1>1, <1>2, <1>3, UnseenStep
<1>11. Heard'
  BY <1>1, <1>3, HeardStep
<1>12. NoWakeIsLost' /\ Apart'
  BY <1>1, <1>3, NoWakeKept DEF Apart
<1>13. MissedWereDropped'
  BY <1>1, <1>2 DEF Overflows, MissedWereDropped
<1>14. SubjectsFit'
  BY <1>1, <1>5, <1>6, <1>7 DEF Overflows, SubjectsFit
<1>15. MissedAreRemembered'
  <2> SUFFICES ASSUME NEW m \in missed'
               PROVE  \/ m \in store'[StoreOf[m]].subjects
                      \/ Cardinality(store'[StoreOf[m]].subjects) = MaxSubjects
                      \/ ~store'[StoreOf[m]].registered
    BY DEF MissedAreRemembered
  <2>1. StoreOf[m] \in Stores
    BY <1>1, ReadmissionAssumption DEF Types
  <2>2. CASE m = d
    BY <1>1, <1>5, <1>6, <1>7, <2>2
  <2>3. CASE m \in missed
    <3>1. \/ m \in store[StoreOf[m]].subjects
          \/ Cardinality(store[StoreOf[m]].subjects) = MaxSubjects
          \/ ~store[StoreOf[m]].registered
      BY <1>1, <2>3 DEF Overflows, MissedAreRemembered
    <3>2. CASE StoreOf[m] # s
      BY <1>6, <2>1, <3>1, <3>2
    <3>3. CASE StoreOf[m] = s
      BY <1>5, <1>6, <1>7, <3>1, <3>3
    <3> QED
      BY <3>2, <3>3
  <2> QED
    BY <2>2, <2>3
<1>16. RescansCover'
  BY <1>1, <1>6, <1>7 DEF Overflows, RescansCover, Covers
<1> QED
  BY <1>8, <1>9, <1>10, <1>11, <1>12, <1>13, <1>14, <1>15, <1>16 DEF Inv, Overflows

LEMMA JudgeStep ==
    ASSUME Inv, NEW r \in Records, Judge(r)
    PROVE  Inv'
<1> DEFINE e == [entry[r] EXCEPT !.seen = Nothing]
           f == [entry[r] EXCEPT !.seen = Nothing, !.stage = "done"]
           g == [e EXCEPT !.stage = "queued"]
           h == [e EXCEPT !.stage = "dropped"]
<1>1. entry[r] \in EntryType /\ entry[r].stage = "judging" /\ ~entry[r].timed
  BY DEF Inv, Types, Unseen, Judge
<1>2. /\ e \in EntryType /\ e.seen = Nothing /\ ~e.timed
      /\ f \in EntryType /\ f.stage = "done" /\ ~f.timed /\ f.seen = Nothing
      /\ g \in EntryType /\ g.stage = "queued" /\ ~g.timed /\ g.seen = Nothing
      /\ h \in EntryType /\ h.stage = "dropped" /\ ~h.timed /\ h.seen = Nothing
  BY <1>1 DEF EntryType, Stages
<1>3. /\ Started(e) \in EntryType /\ Started(e).stage = "active"
      /\ ~Started(e).timed /\ Started(e).seen = Nothing
  BY <1>1 DEF EntryType, Stages, Started
<1>4. CASE Keep(r, f) /\ Wake(waking) /\ UNCHANGED <<verdict, missed>>
  BY <1>1, <1>2, <1>4, AcceptedStep DEF Keep
<1>5. CASE Keep(r, f) /\ NoWake /\ UNCHANGED <<verdict, missed>>
  BY <1>1, <1>2, <1>5, JudgedStep DEF Keep, NoWake
<1>6. CASE /\ entry' = [entry EXCEPT ![r] = Started(e)]
           /\ NoWake /\ UNCHANGED <<verdict, store, missed>>
  BY <1>1, <1>3, <1>6, JudgedStep DEF NoWake
<1>7. CASE /\ entry' = [entry EXCEPT ![r] = g]
           /\ store' = [store EXCEPT ![StoreFor(r)].queue = Append(@, r)]
           /\ NoWake /\ UNCHANGED <<verdict, missed>>
  BY <1>1, <1>2, <1>7, QueuedStep DEF NoWake
<1>8. CASE /\ entry' = [entry EXCEPT ![r] = h]
           /\ store' = [store EXCEPT ![StoreFor(r)].overflowed = TRUE, ![StoreFor(r)].fresh = TRUE,
                          ![StoreFor(r)].subjects = Remembered(store[StoreFor(r)], DocumentOf[r])]
           /\ missed' = missed \cup {DocumentOf[r]} /\ NoWake /\ UNCHANGED verdict
  BY <1>1, <1>2, <1>8, DroppedStep DEF NoWake
<1>9. Schedule(r) /\ NoWake /\ UNCHANGED verdict => Inv'
  BY <1>6, <1>7, <1>8 DEF Schedule
<1> QED
  BY <1>4, <1>5, <1>9 DEF Judge

-----------------------------------------------------------------------------
(* A step of a store that keeps its queue.                                 *)
LEMMA StoreStep ==
    ASSUME Inv, NEW s \in Stores, NEW x \in StoreType, store' = [store EXCEPT ![s] = x],
           UNCHANGED <<verdict, entry, waking, unheard>>, missed' \subseteq missed,
           x.queue = store[s].queue, x.registered => store[s].registered,
           \/ x.subjects = store[s].subjects
           \/ x.subjects = {} /\ (x.registered => \A d \in missed : StoreOf[d] # s),
           x.rescan = "running" /\ ~x.fresh /\ x.registered
             => \A d \in missed' : StoreOf[d] = s => d \in x.todo
    PROVE  Inv'
<1>1. /\ Types /\ Queues /\ Unseen /\ Heard /\ Apart /\ NoWakeIsLost /\ Overflows
      /\ store \in [Stores -> StoreType]
  BY DEF Inv, Types
<1>2. store'[s] = x /\ \A t \in Stores \ {s} : store'[t] = store[t]
  BY <1>1
<1>3. Types'
  <2>1. store' \in [Stores -> StoreType]
    BY <1>1
  <2> QED
    BY <1>1, <2>1 DEF Types
<1>4. Queues'
  BY <1>1, <1>2, SameQueues DEF Queues, QueueOf
<1>5. Unseen' /\ Heard' /\ Apart' /\ NoWakeIsLost'
  BY <1>1 DEF Unseen, Heard, Idle, Apart, NoWakeIsLost, Active
<1>6. MissedWereDropped'
  BY <1>1 DEF Overflows, MissedWereDropped
<1>7. SubjectsFit'
  <2>1. IsFiniteSet({}) /\ Cardinality({}) <= MaxSubjects
    BY FS_EmptySet, ReadmissionAssumption
  <2> QED
    BY <1>1, <1>2, <2>1 DEF Overflows, SubjectsFit
<1>8. MissedAreRemembered'
  <2> SUFFICES ASSUME NEW m \in missed'
               PROVE  \/ m \in store'[StoreOf[m]].subjects
                      \/ Cardinality(store'[StoreOf[m]].subjects) = MaxSubjects
                      \/ ~store'[StoreOf[m]].registered
    BY DEF MissedAreRemembered
  <2>1. StoreOf[m] \in Stores /\ m \in missed
    BY <1>1, ReadmissionAssumption DEF Types
  <2>2. \/ m \in store[StoreOf[m]].subjects
        \/ Cardinality(store[StoreOf[m]].subjects) = MaxSubjects
        \/ ~store[StoreOf[m]].registered
    BY <1>1, <2>1 DEF Overflows, MissedAreRemembered
  <2>3. CASE StoreOf[m] # s
    BY <1>2, <2>1, <2>2, <2>3
  <2>4. CASE StoreOf[m] = s
    BY <1>1, <1>2, <2>1, <2>2, <2>4 DEF StoreType
  <2> QED
    BY <2>3, <2>4
<1>9. RescansCover'
  BY <1>1, <1>2 DEF Overflows, RescansCover, Covers
<1> QED
  BY <1>3, <1>4, <1>5, <1>6, <1>7, <1>8, <1>9 DEF Inv, Overflows

LEMMA RescanOneStep ==
    ASSUME Inv, NEW s \in Stores, NEW d \in Documents, RescanOne(s, d)
    PROVE  Inv'
<1> DEFINE x == [store[s] EXCEPT !.todo = @ \ {d},
                                 !.found = IF verdict[d] = "accepted" THEN @ \cup {d} ELSE @]
<1>1. store[s] \in StoreType /\ RescansCover
  BY DEF Inv, Types, Overflows
<1>2. /\ x \in StoreType /\ x.queue = store[s].queue /\ x.registered = store[s].registered
      /\ x.subjects = store[s].subjects /\ x.rescan = store[s].rescan
      /\ x.fresh = store[s].fresh /\ x.todo = store[s].todo \ {d}
  BY <1>1 DEF StoreType
<1>3. /\ store' = [store EXCEPT ![s] = x] /\ missed' = missed \ {d}
      /\ UNCHANGED <<verdict, entry, waking, unheard>>
  BY DEF RescanOne
<1> HIDE DEF x
<1>4. x.rescan = "running" /\ ~x.fresh /\ x.registered
        => \A m \in missed' : StoreOf[m] = s => m \in x.todo
  BY <1>1, <1>2, <1>3 DEF RescansCover, Covers
<1> QED
  BY <1>2, <1>3, <1>4, StoreStep

LEMMA UnfinishedShape ==
    ASSUME NEW s \in Stores, store[s] \in StoreType
    PROVE  /\ Unfinished(s) \in StoreType /\ Unfinished(s).queue = store[s].queue
           /\ Unfinished(s).registered = store[s].registered
           /\ Unfinished(s).subjects = store[s].subjects
           /\ Unfinished(s).rescan # "running"
BY DEF Unfinished, StoreType

(* A rescan that ends complete has seen every missed document.             *)
LEMMA EndRescanStep ==
    ASSUME Inv, NEW s \in Stores, EndRescan(s)
    PROVE  Inv'
<1> DEFINE x == [store[s] EXCEPT !.rescan = "no", !.found = {}, !.overflowed = FALSE,
                                 !.fresh = FALSE, !.subjects = {}]
<1>1. /\ store[s] \in StoreType /\ RescansCover /\ store \in [Stores -> StoreType]
      /\ store[s].rescan = "running" /\ store[s].todo = {}
  BY DEF Inv, Types, Overflows, EndRescan
<1>2. UNCHANGED <<verdict, entry, waking, missed, unheard>>
  BY DEF EndRescan
<1>3. CASE Complete(store[s]) /\ store' = [store EXCEPT ![s] = x]
  <2>1. /\ x \in StoreType /\ x.queue = store[s].queue /\ x.registered = store[s].registered
        /\ x.subjects = {} /\ x.rescan = "no"
    BY <1>1 DEF StoreType
  <2>2. store[s].registered => \A d \in missed : StoreOf[d] # s
    BY <1>1, <1>3 DEF RescansCover, Covers, Complete
  <2> HIDE DEF x
  <2> QED
    BY <1>2, <1>3, <2>1, <2>2, StoreStep
<1>4. CASE store' = [store EXCEPT ![s] = Unfinished(s)]
  BY <1>1, <1>2, <1>4, UnfinishedShape, StoreStep
<1> QED
  BY <1>3, <1>4 DEF EndRescan

LEMMA FailRescanStep ==
    ASSUME Inv, NEW s \in Stores, FailRescan(s)
    PROVE  Inv'
<1>1. store[s] \in StoreType
  BY DEF Inv, Types
<1>2. /\ store' = [store EXCEPT ![s] = Unfinished(s)]
      /\ UNCHANGED <<verdict, entry, waking, missed, unheard>>
  BY DEF FailRescan
<1> QED
  BY <1>1, <1>2, UnfinishedShape, StoreStep

LEMMA RetryRescanStep ==
    ASSUME Inv, NEW s \in Stores, RetryRescan(s)
    PROVE  Inv'
<1> DEFINE y == [store[s] EXCEPT !.rescan = "no"]
           drained == ActiveIn(s) = {}
           x == CheckDrained(s, y, drained)
<1>1. store[s] \in StoreType /\ MissedWereDropped
  BY DEF Inv, Types, Overflows
<1>2. /\ y \in StoreType /\ y.queue = store[s].queue /\ y.registered = store[s].registered
      /\ y.subjects = store[s].subjects /\ y.rescan = "no" /\ drained \in BOOLEAN
  BY <1>1 DEF StoreType
<1>3. store' = [store EXCEPT ![s] = x] /\ UNCHANGED <<verdict, entry, waking, missed, unheard>>
  BY DEF RetryRescan
<1> HIDE DEF y, drained
<1>4. /\ x \in StoreType /\ x.queue = y.queue /\ x.subjects = y.subjects
      /\ x.registered = y.registered
      /\ x = y \/ (y.registered => x.todo = Stored(s))
  BY <1>2, CheckDrainedShape
<1> HIDE DEF x
<1>5. \A d \in missed : StoreOf[d] = s => d \in Stored(s)
  BY <1>1, ReadmissionAssumption DEF MissedWereDropped, Stored, StoreFor
<1>6. x.rescan = "running" /\ ~x.fresh /\ x.registered
        => \A d \in missed' : StoreOf[d] = s => d \in x.todo
  BY <1>2, <1>3, <1>4, <1>5
<1> QED
  BY <1>2, <1>3, <1>4, <1>6, StoreStep

LEMMA UnregisterStep ==
    ASSUME Inv, NEW s \in Stores, Unregister(s)
    PROVE  Inv'
<1> DEFINE x == [store[s] EXCEPT !.registered = FALSE]
<1>1. store[s] \in StoreType
  BY DEF Inv, Types
<1>2. /\ x \in StoreType /\ x.queue = store[s].queue /\ ~x.registered
      /\ x.subjects = store[s].subjects
  BY <1>1 DEF StoreType
<1>3. store' = [store EXCEPT ![s] = x] /\ UNCHANGED <<verdict, entry, waking, missed, unheard>>
  BY DEF Unregister
<1> HIDE DEF x
<1> QED
  BY <1>2, <1>3, StoreStep

LEMMA AdmitStep ==
    ASSUME Inv, NEW d \in Documents, NEW v \in Verdicts, Admit(d, v)
    PROVE  Inv'
<1>1. /\ Types /\ Queues /\ Unseen /\ Heard /\ Apart /\ Overflows /\ waking \in Waking
  BY DEF Inv, Types
<1>2. /\ Wake(waking) /\ UNCHANGED <<entry, store, missed>>
      /\ verdict' = [verdict EXCEPT ![d] = v]
  BY DEF Admit
<1>3. /\ waking' \in Waking /\ (waking'.timer \/ waking'.rewake \/ Active = {})
      /\ ~(waking'.timer /\ waking'.draining)
  BY <1>1, <1>2, WokenShape DEF Wake, Apart
<1>4. unheard' \subseteq Records /\ \A r \in unheard' : r \in unheard \/ Idle(r)
  BY <1>1, <1>2 DEF Wake, Types, Active, Idle
<1>5. Types'
  BY <1>1, <1>2, <1>3, <1>4 DEF Types
<1>6. Queues' /\ Unseen' /\ Overflows'
  BY <1>1, <1>2 DEF Queues, QueueOf, StoreFor, Unseen, Overflows, MissedWereDropped,
                    SubjectsFit, MissedAreRemembered, RescansCover, Covers
<1>7. Heard'
  BY <1>1, <1>2, <1>4 DEF Heard, Idle
<1>8. NoWakeIsLost' /\ Apart'
  BY <1>2, <1>3 DEF NoWakeIsLost, Active, Apart
<1> QED
  BY <1>5, <1>6, <1>7, <1>8 DEF Inv

-----------------------------------------------------------------------------
LEMMA InvInit == ReadmissionInit => Inv
<1> SUFFICES ASSUME ReadmissionInit PROVE Inv
  OBVIOUS
<1>1. Types
  <2>1. <<>> \in Seq(Records)
    OBVIOUS
  <2>2. verdict \in [Documents -> Verdicts] /\ missed \subseteq Documents /\ unheard \subseteq Records
    BY DEF ReadmissionInit, Verdicts
  <2>3. entry \in [Records -> EntryType]
    BY DEF ReadmissionInit, EntryType, Stages
  <2>4. store \in [Stores -> StoreType]
    BY <2>1 DEF ReadmissionInit, StoreType
  <2>5. waking \in Waking
    BY DEF ReadmissionInit, Waking
  <2> QED
    BY <2>2, <2>3, <2>4, <2>5 DEF Types
<1>2. Queues
  <2>1. \A s \in Stores : store[s].queue = <<>>
    BY DEF ReadmissionInit
  <2>2. Len(<<>>) = 0
    OBVIOUS
  <2> QED
    BY <2>1, <2>2 DEF Queues, QueueOf
<1>3. Unseen /\ Heard /\ Apart /\ NoWakeIsLost
  BY DEF ReadmissionInit, Unseen, Heard, Apart, NoWakeIsLost
<1>4. Overflows
  <2>1. IsFiniteSet({}) /\ Cardinality({}) = 0
    BY FS_EmptySet
  <2>2. \A s \in Stores : store[s].subjects = {}
    BY DEF ReadmissionInit
  <2>3. missed = {}
    BY DEF ReadmissionInit
  <2>4. SubjectsFit
    <3>1. 0 <= MaxSubjects
      BY ReadmissionAssumption
    <3>2. \A s \in Stores : IsFiniteSet(store[s].subjects) /\ Cardinality(store[s].subjects) = 0
      BY <2>1, <2>2
    <3> QED
      BY <3>1, <3>2 DEF SubjectsFit
  <2>5. MissedWereDropped /\ MissedAreRemembered /\ RescansCover
    BY <2>3 DEF MissedWereDropped, MissedAreRemembered, RescansCover, Covers
  <2> QED
    BY <2>4, <2>5 DEF Overflows
<1> QED
  BY <1>1, <1>2, <1>3, <1>4 DEF Inv

LEMMA InvStep == Inv /\ [ReadmissionNext]_readmissionVars => Inv'
<1> SUFFICES ASSUME Inv, [ReadmissionNext]_readmissionVars PROVE Inv'
  OBVIOUS
<1>1. CASE \E r \in Records : \/ Arrive(r) \/ Judge(r) \/ Delay(r) \/ EndOffer(r)
                              \/ FailOffer(r) \/ Deadline(r) \/ DrainOne(r)
  BY <1>1, ArriveStep, JudgeStep, DelayStep, EndOfferStep, FailOfferStep, DeadlineStep, DrainOneStep
<1>2. CASE StartDrain \/ EndDrain
  BY <1>2, StartDrainStep, EndDrainStep
<1>3. CASE \E s \in Stores : \/ EndRescan(s) \/ FailRescan(s) \/ RetryRescan(s) \/ Unregister(s)
                             \/ \E d \in Documents : RescanOne(s, d)
  BY <1>3, EndRescanStep, FailRescanStep, RetryRescanStep, UnregisterStep, RescanOneStep
<1>4. CASE \E d \in Documents, v \in Verdicts : Admit(d, v)
  BY <1>4, AdmitStep
<1>5. CASE UNCHANGED readmissionVars
  <2>1. /\ UNCHANGED <<verdict, entry, store, missed, unheard>> /\ waking' = waking
    BY <1>5 DEF readmissionVars
  <2>2. waking' \in Waking /\ Apart' /\ NoWakeIsLost'
    BY <2>1 DEF Inv, Types, Apart, NoWakeIsLost, Active
  <2> QED
    BY <2>1, <2>2, DrainOnly
<1> QED
  BY <1>1, <1>2, <1>3, <1>4, <1>5 DEF ReadmissionNext

(* The readmission keeps its types and the parts of Inv at every step      *)
(* (OrbitDBRecordReadmission, OrbitDBPendingRecordReadmission).            *)
THEOREM ReadmissionInvariant == ReadmissionSpec => []Inv
  BY InvInit, InvStep, PTL DEF ReadmissionSpec

(* No wake is lost, also when it comes in the middle of a drain            *)
(* (OrbitDBRecordReadmission.wake, drain, rewake).                         *)
THEOREM WakeTheorem == ReadmissionSpec => []NoWakeIsLost
<1>1. Inv => NoWakeIsLost
  BY DEF Inv
<1> QED
  BY <1>1, ReadmissionInvariant, PTL

(* Reads of a dropped document wait until something looked at it, as far   *)
(* as the store remembers what it dropped (OrbitDBRecordReadmission.rescan,*)
(* isDocumentPendingAdmission).                                            *)
THEOREM DroppedTheorem == ReadmissionSpec => []DroppedReadsWait
<1>1. Inv => DroppedReadsWait
  BY DEF Inv, Overflows, MissedAreRemembered, DroppedReadsWait, PendingAdmission
<1> QED
  BY <1>1, ReadmissionInvariant, PTL

-----------------------------------------------------------------------------
(* The number of waiting copies, and the attempts of the backoff.           *)

(* A timer that runs has a delay of the backoff left, and the backoff of a  *)
(* copy starts with its slot.                                               *)
PaceOK(e) ==
    /\ e.attempt \in 0 .. Attempts
    /\ e.armed => e.attempt < Attempts
    /\ e.stage \in {"new", "judging", "queued"} => e.attempt = 0
Paces == \A r \in Records : PaceOK(entry[r])

Counted(d) == IsFiniteSet(PendingCopies(d)) /\ pending[d] = Cardinality(PendingCopies(d))
CountOK == /\ pending = [d \in Documents |-> pending[d]]
           /\ \A d \in Documents : Counted(d)

CountInv == Paces /\ CountOK

(* Of all copies only r may begin to wait or cease to.                      *)
OthersWait(r) == \A q \in Records \ {r} : Waiting(q)' <=> Waiting(q)
Stays(r) == (Waiting(r)' <=> Waiting(r)) /\ pending' = pending
Leaves(r) == /\ Waiting(r) /\ ~Waiting(r)'
             /\ pending' = [pending EXCEPT ![DocumentOf[r]] = @ - 1]
Enters(r) == /\ ~Waiting(r) /\ Waiting(r)'
             /\ pending' = [pending EXCEPT ![DocumentOf[r]] = @ + 1]

LEMMA CountStep ==
    ASSUME CountOK, NEW r \in Records, OthersWait(r), Stays(r) \/ Leaves(r) \/ Enters(r)
    PROVE  CountOK'
<1>1. DocumentOf[r] \in Documents
  BY StoreForType
<1>2. ASSUME NEW d \in Documents, d # DocumentOf[r] PROVE Counted(d)'
  <2>1. PendingCopies(d)' = PendingCopies(d)
    BY <1>2 DEF PendingCopies, OthersWait
  <2>2. pending'[d] = pending[d]
    BY <1>2 DEF Stays, Leaves, Enters, CountOK
  <2> QED
    BY <2>1, <2>2 DEF CountOK, Counted
<1>3. Counted(DocumentOf[r])'
  <2> DEFINE d == DocumentOf[r]
  <2>1. IsFiniteSet(PendingCopies(d)) /\ pending[d] = Cardinality(PendingCopies(d))
    BY <1>1 DEF CountOK, Counted
  <2>2. CASE Stays(r)
    <3>1. PendingCopies(d)' = PendingCopies(d)
      BY <2>2 DEF PendingCopies, OthersWait, Stays
    <3> QED
      BY <2>1, <2>2, <3>1 DEF Stays, Counted
  <2>3. CASE Leaves(r)
    <3>1. PendingCopies(d)' = PendingCopies(d) \ {r} /\ r \in PendingCopies(d)
      BY <2>3 DEF PendingCopies, OthersWait, Leaves
    <3>2. pending'[d] = pending[d] - 1
      BY <1>1, <2>3 DEF Leaves, CountOK
    <3> QED
      BY <2>1, <3>1, <3>2, FS_RemoveElement DEF Counted
  <2>4. CASE Enters(r)
    <3>1. PendingCopies(d)' = PendingCopies(d) \cup {r} /\ r \notin PendingCopies(d)
      BY <2>4 DEF PendingCopies, OthersWait, Enters
    <3>2. pending'[d] = pending[d] + 1
      BY <1>1, <2>4 DEF Enters, CountOK
    <3> QED
      BY <2>1, <3>1, <3>2, FS_AddElement DEF Counted
  <2> QED
    BY <2>2, <2>3, <2>4
<1>4. (pending = [d \in Documents |-> pending[d]])'
  BY DEF CountOK, Stays, Leaves, Enters
<1> QED
  BY <1>2, <1>3, <1>4 DEF CountOK

(* A copy changes alone.                                                    *)
LEMMA EntryStep ==
    ASSUME Types, CountInv, NEW r \in Records, NEW e \in EntryType, PaceOK(e),
           entry' = [entry EXCEPT ![r] = e],
           \/ /\ e.stage \in {"active", "queued"} <=> Waiting(r)
              /\ pending' = pending
           \/ /\ e.stage \in {"active", "queued"} /\ ~Waiting(r)
              /\ pending' = [pending EXCEPT ![DocumentOf[r]] = @ + 1]
    PROVE  CountInv'
<1>1. entry'[r] = e /\ \A q \in Records \ {r} : entry'[q] = entry[q]
  BY DEF Types
<1>2. Paces'
  BY <1>1 DEF CountInv, Paces, PaceOK
<1>3. OthersWait(r) /\ (Waiting(r)' <=> e.stage \in {"active", "queued"})
  BY <1>1 DEF OthersWait, Waiting
<1>4. Stays(r) \/ Enters(r)
  BY <1>3 DEF Stays, Enters
<1> QED
  BY <1>2, <1>3, <1>4, CountStep DEF CountInv

LEMMA KeepCounts ==
    ASSUME Types, CountInv, NEW r \in Records, NEW e \in EntryType, PaceOK(e), Keep(r, e),
           e.stage \in {"active", "queued"} <=> Waiting(r)
    PROVE  CountInv'
BY EntryStep DEF Keep

(* An active copy leaves, and the queued one that takes its slot still      *)
(* waits.                                                                   *)
LEMMA SettleCounts ==
    ASSUME Types, Queues, CountInv, NEW r \in Records, entry[r].stage = "active",
           NEW e \in EntryType, e.attempt \in 0 .. Attempts, Settle(r, e)
    PROVE  CountInv'
<1> DEFINE s == StoreFor(r)
           f == [e EXCEPT !.stage = "done", !.armed = FALSE, !.timed = FALSE]
<1>1. /\ entry' = [q \in Records |->
                     IF q = r THEN f
                     ELSE IF q \in Successor(s) THEN Started(entry[q]) ELSE entry[q]]
      /\ pending' = [pending EXCEPT ![DocumentOf[r]] = @ - 1]
  BY DEF Settle
<1>2. f.stage = "done" /\ PaceOK(f)
  <2>1. f.stage = "done" /\ f.armed = FALSE /\ f.attempt = e.attempt
    BY DEF EntryType
  <2> QED
    BY <2>1 DEF PaceOK
<1>3. \A q \in Successor(s) : entry[q].stage = "queued"
  <2>1. s \in Stores /\ store[s].queue \in Seq(Records) /\ QueueOf(s)
    BY StoreForType DEF Types, StoreType, Queues
  <2>2. CASE store[s].queue = <<>>
    BY <2>2 DEF Successor
  <2>3. CASE store[s].queue # <<>>
    <3>1. Head(store[s].queue) = store[s].queue[1] /\ 1 \in 1 .. Len(store[s].queue)
      BY <2>1, <2>3, TailOfQueue
    <3> QED
      BY <2>1, <2>3, <3>1 DEF Successor, QueueOf
  <2> QED
    BY <2>2, <2>3
<1>4. ASSUME NEW q \in Successor(s) \cap Records
      PROVE  Started(entry[q]).stage = "active" /\ PaceOK(Started(entry[q]))
  <2>1. entry[q].attempt = 0 /\ entry[q] \in EntryType
    BY <1>3, <1>4 DEF CountInv, Paces, PaceOK, Types
  <2>2. Started(entry[q]).stage = "active" /\ Started(entry[q]).attempt = 0
    BY <2>1 DEF Started, EntryType
  <2> QED
    BY <2>2, ReadmissionAssumption DEF PaceOK
<1> HIDE DEF f
<1>5. Paces'
  <2> SUFFICES ASSUME NEW q \in Records PROVE PaceOK(entry'[q])
    BY DEF Paces, PaceOK
  <2> QED
    BY <1>1, <1>2, <1>4 DEF CountInv, Paces
<1>6. OthersWait(r)
  BY <1>1, <1>3, <1>4 DEF OthersWait, Waiting
<1>7. Leaves(r)
  BY <1>1, <1>2 DEF Leaves, Waiting
<1> QED
  BY <1>5, <1>6, <1>7, CountStep DEF CountInv

(* The end of a delay, with its attempt counted.                            *)
LEMMA ArmCounts ==
    ASSUME Types, Queues, CountInv, NEW r \in Records, entry[r].stage = "active",
           NEW e \in EntryType, e.stage = "active", e.attempt \in 0 .. Attempts, Arm(r, e)
    PROVE  CountInv'
<1>1. CASE Settle(r, e)
  BY <1>1, SettleCounts
<1>2. CASE e.attempt # Attempts /\ Keep(r, [e EXCEPT !.armed = TRUE, !.timed = FALSE])
  <2> DEFINE k == [e EXCEPT !.armed = TRUE, !.timed = FALSE]
  <2>1. k \in EntryType /\ k.stage = "active" /\ k.attempt = e.attempt
    BY DEF EntryType
  <2>2. PaceOK(k)
    BY <1>2, <2>1, ReadmissionAssumption DEF PaceOK
  <2>3. Keep(r, k) /\ Waiting(r)
    BY <1>2 DEF Waiting
  <2> HIDE DEF k
  <2> QED
    BY <2>1, <2>2, <2>3, KeepCounts
<1> QED
  BY <1>1, <1>2 DEF Arm

LEMMA SettleOnceCounts ==
    ASSUME Types, Queues, CountInv, NEW r \in Records, entry[r].stage \in {"active", "done"},
           NEW e \in EntryType, e.stage = entry[r].stage, PaceOK(e), SettleOnce(r, e)
    PROVE  CountInv'
<1>1. e.attempt \in 0 .. Attempts
  BY DEF PaceOK
<1> QED
  BY <1>1, SettleCounts, KeepCounts DEF SettleOnce, Waiting
-----------------------------------------------------------------------------
(* Every step keeps the count.                                              *)

LEMMA LookingPace ==
    ASSUME NEW r \in Records, NEW e \in EntryType, PaceOK(e)
    PROVE  PaceOK(Looking(r, e))
BY DEF Looking, PaceOK, EntryType

LEMMA DelayCounts ==
    ASSUME Inv, CountInv, NEW r \in Records, Delay(r)
    PROVE  CountInv'
<1> DEFINE e == [entry[r] EXCEPT !.attempt = @ + 1, !.armed = FALSE]
           f == [e EXCEPT !.timed = TRUE]
<1>1. /\ Types /\ Queues /\ entry[r] \in EntryType /\ PaceOK(entry[r])
      /\ entry[r].stage = "active" /\ entry[r].armed
  BY DEF Inv, Types, CountInv, Paces, Delay
<1>2. /\ e \in EntryType /\ e.stage = "active" /\ e.attempt \in 0 .. Attempts /\ ~e.armed
  <2>1. entry[r].attempt \in Nat /\ entry[r].attempt < Attempts
    BY <1>1 DEF PaceOK
  <2>2. e.attempt = entry[r].attempt + 1 /\ e \in EntryType /\ e.stage = "active" /\ ~e.armed
    <3>1. PICK n \in Nat : n = entry[r].attempt + 1
      BY <2>1
    <3>2. e = [entry[r] EXCEPT !.attempt = n, !.armed = FALSE]
      BY <3>1
    <3> HIDE DEF e
    <3>3. e \in EntryType /\ e.attempt = n /\ e.stage = "active" /\ ~e.armed
      BY <1>1, <3>2 DEF EntryType
    <3> QED
      BY <3>1, <3>3
  <2> HIDE DEF e
  <2>3. entry[r].attempt + 1 \in 0 .. Attempts
    BY <2>1, ReadmissionAssumption
  <2> QED
    BY <2>2, <2>3
<1>3. f \in EntryType /\ f.stage = "active" /\ PaceOK(f)
  <2> HIDE DEF e
  <2>1. f \in EntryType /\ f.stage = "active" /\ f.attempt = e.attempt /\ f.armed = e.armed
    BY <1>2 DEF EntryType
  <2> QED
    BY <1>2, <2>1 DEF PaceOK
<1>4. Arm(r, e) \/ Keep(r, Looking(r, f)) \/ Settle(r, e)
  BY DEF Delay
<1>5. Looking(r, f) \in EntryType /\ Looking(r, f).stage = "active" /\ PaceOK(Looking(r, f))
  BY <1>1, <1>3, LookingType, LookingPace
<1> HIDE DEF e, f
<1>6. CASE Keep(r, Looking(r, f))
  BY <1>1, <1>5, <1>6, KeepCounts DEF Waiting
<1> QED
  BY <1>1, <1>2, <1>4, <1>6, ArmCounts, SettleCounts

(* What an offer that ends reads leaves the pace of its copy.               *)
LEMMA OfferPace ==
    ASSUME Inv, CountInv, NEW r \in Records
    PROVE  LET e == [entry[r] EXCEPT !.seen = Nothing]
           IN  /\ e \in EntryType /\ PaceOK(e) /\ e.attempt \in 0 .. Attempts
               /\ e.stage = entry[r].stage /\ e.timed = entry[r].timed
               /\ entry[r].timed => entry[r].stage = "active"
<1>1. entry[r] \in EntryType /\ PaceOK(entry[r]) /\ (entry[r].timed => entry[r].stage = "active")
  BY DEF Inv, Types, CountInv, Paces, Unseen
<1> QED
  BY <1>1 DEF EntryType, PaceOK

LEMMA EndOfferCounts ==
    ASSUME Inv, CountInv, NEW r \in Records, EndOffer(r) \/ FailOffer(r)
    PROVE  CountInv'
<1> DEFINE e == [entry[r] EXCEPT !.seen = Nothing]
<1>1. /\ e \in EntryType /\ PaceOK(e) /\ e.attempt \in 0 .. Attempts
      /\ e.stage = entry[r].stage /\ (e.timed => entry[r].stage = "active")
  BY OfferPace
<1>2. Types /\ Queues /\ entry[r].stage \in {"active", "done"}
  BY OfferedShape DEF Inv, EndOffer, FailOffer
<1>3. SettleOnce(r, e) \/ (e.timed /\ Arm(r, e)) \/ Keep(r, e)
  BY DEF EndOffer, FailOffer
<1> HIDE DEF e
<1>4. CASE SettleOnce(r, e)
  BY <1>1, <1>2, <1>4, SettleOnceCounts
<1>5. CASE e.timed /\ Arm(r, e)
  BY <1>1, <1>2, <1>5, ArmCounts
<1>6. CASE Keep(r, e)
  BY <1>1, <1>2, <1>6, KeepCounts DEF Waiting
<1> QED
  BY <1>3, <1>4, <1>5, <1>6

(* A step that changes no copy.                                             *)
LEMMA CountsStay ==
    ASSUME CountInv, entry' = entry, pending' = pending
    PROVE  CountInv'
BY DEF CountInv, Paces, CountOK, Counted, PendingCopies, Waiting

LEMMA DeadlineCounts ==
    ASSUME Inv, CountInv, NEW r \in Records, Deadline(r)
    PROVE  CountInv'
<1>1. /\ Types /\ Queues /\ entry[r] \in EntryType /\ entry[r].attempt \in 0 .. Attempts
      /\ entry[r].timed => entry[r].stage = "active"
  BY DEF Inv, Types, Unseen, CountInv, Paces, PaceOK
<1>2. CASE entry[r].timed /\ Arm(r, entry[r])
  BY <1>1, <1>2, ArmCounts
<1>3. CASE UNCHANGED <<entry, pending, store>>
  BY <1>3, CountsStay
<1> QED
  BY <1>2, <1>3 DEF Deadline

LEMMA DrainOneCounts ==
    ASSUME Inv, CountInv, NEW r \in Records, DrainOne(r)
    PROVE  CountInv'
<1>1. Types /\ Queues /\ entry[r] \in EntryType /\ PaceOK(entry[r])
  BY DEF Inv, Types, CountInv, Paces
<1>2. \/ UNCHANGED <<entry, store, pending, missed, unheard>>
      \/ entry[r].stage = "active" /\ Keep(r, Looking(r, entry[r]))
      \/ entry[r].stage = "active" /\ Settle(r, entry[r])
  BY DEF DrainOne
<1>3. CASE UNCHANGED <<entry, store, pending, missed, unheard>>
  BY <1>3, CountsStay
<1>4. CASE entry[r].stage = "active" /\ Keep(r, Looking(r, entry[r]))
  <2>1. /\ Looking(r, entry[r]) \in EntryType /\ Looking(r, entry[r]).stage = "active"
        /\ PaceOK(Looking(r, entry[r]))
    BY <1>1, <1>4, LookingType, LookingPace
  <2> QED
    BY <1>1, <1>4, <2>1, KeepCounts DEF Waiting
<1>5. CASE entry[r].stage = "active" /\ Settle(r, entry[r])
  BY <1>1, <1>5, SettleCounts DEF PaceOK
<1> QED
  BY <1>2, <1>3, <1>4, <1>5

LEMMA ArriveCounts ==
    ASSUME Inv, CountInv, NEW r \in Records, Arrive(r)
    PROVE  CountInv'
<1> DEFINE e == [entry[r] EXCEPT !.stage = "judging"]
<1>1. Types /\ entry[r] \in EntryType /\ PaceOK(entry[r]) /\ entry[r].stage = "new"
  BY DEF Inv, Types, CountInv, Paces, Arrive
<1>2. e \in EntryType /\ e.stage = "judging" /\ PaceOK(e)
  BY <1>1 DEF EntryType, Stages, PaceOK
<1>3. Keep(r, Looking(r, e))
  BY DEF Arrive
<1> HIDE DEF e
<1>4. /\ Looking(r, e) \in EntryType /\ Looking(r, e).stage = "judging" /\ PaceOK(Looking(r, e))
  BY <1>1, <1>2, LookingType, LookingPace
<1> QED
  BY <1>1, <1>3, <1>4, KeepCounts DEF Waiting

LEMMA JudgeCounts ==
    ASSUME Inv, CountInv, NEW r \in Records, Judge(r)
    PROVE  CountInv'
<1> DEFINE e == [entry[r] EXCEPT !.seen = Nothing]
           f == [entry[r] EXCEPT !.seen = Nothing, !.stage = "done"]
           g == [e EXCEPT !.stage = "queued"]
           h == [e EXCEPT !.stage = "dropped"]
           more == [pending EXCEPT ![DocumentOf[r]] = @ + 1]
<1>1. Types /\ entry[r] \in EntryType /\ PaceOK(entry[r]) /\ entry[r].stage = "judging"
  BY DEF Inv, Types, CountInv, Paces, Judge
<1>2. /\ f \in EntryType /\ f.stage = "done" /\ PaceOK(f)
      /\ g \in EntryType /\ g.stage = "queued" /\ PaceOK(g)
      /\ h \in EntryType /\ h.stage = "dropped" /\ PaceOK(h)
  BY <1>1 DEF EntryType, Stages, PaceOK
<1>3. Started(e) \in EntryType /\ Started(e).stage = "active" /\ PaceOK(Started(e))
  <2>1. Started(e) \in EntryType /\ Started(e).stage = "active" /\ Started(e).attempt = 0
    BY <1>1 DEF EntryType, Stages, Started, PaceOK
  <2> QED
    BY <2>1, ReadmissionAssumption DEF PaceOK
<1>4. \/ entry' = [entry EXCEPT ![r] = f] /\ pending' = pending
      \/ entry' = [entry EXCEPT ![r] = h] /\ pending' = pending
      \/ entry' = [entry EXCEPT ![r] = g] /\ pending' = more
      \/ entry' = [entry EXCEPT ![r] = Started(e)] /\ pending' = more
  BY DEF Judge, Schedule, Keep
<1>5. ~Waiting(r)
  BY <1>1 DEF Waiting
<1> HIDE DEF e, f, g, h
<1>6. CASE entry' = [entry EXCEPT ![r] = f] /\ pending' = pending
  BY <1>1, <1>2, <1>5, <1>6, EntryStep
<1>7. CASE entry' = [entry EXCEPT ![r] = h] /\ pending' = pending
  BY <1>1, <1>2, <1>5, <1>7, EntryStep
<1>8. CASE entry' = [entry EXCEPT ![r] = g] /\ pending' = more
  BY <1>1, <1>2, <1>5, <1>8, EntryStep
<1>9. CASE entry' = [entry EXCEPT ![r] = Started(e)] /\ pending' = more
  BY <1>1, <1>3, <1>5, <1>9, EntryStep
<1> QED
  BY <1>4, <1>6, <1>7, <1>8, <1>9

LEMMA CountsHold == Inv /\ CountInv /\ [ReadmissionNext]_readmissionVars => CountInv'
<1> SUFFICES ASSUME Inv, CountInv, [ReadmissionNext]_readmissionVars PROVE CountInv'
  OBVIOUS
<1>1. CASE \E r \in Records : \/ Arrive(r) \/ Judge(r) \/ Delay(r) \/ EndOffer(r)
                              \/ FailOffer(r) \/ Deadline(r) \/ DrainOne(r)
  BY <1>1, ArriveCounts, JudgeCounts, DelayCounts, EndOfferCounts, DeadlineCounts, DrainOneCounts
<1>2. CASE StartDrain \/ EndDrain
  BY <1>2, CountsStay DEF StartDrain, EndDrain
<1>3. CASE \E s \in Stores : \/ EndRescan(s) \/ FailRescan(s) \/ RetryRescan(s) \/ Unregister(s)
                             \/ \E d \in Documents : RescanOne(s, d)
  BY <1>3, CountsStay DEF EndRescan, FailRescan, RetryRescan, Unregister, RescanOne
<1>4. CASE \E d \in Documents, v \in Verdicts : Admit(d, v)
  BY <1>4, CountsStay DEF Admit
<1>5. CASE UNCHANGED readmissionVars
  BY <1>5, CountsStay DEF readmissionVars
<1> QED
  BY <1>1, <1>2, <1>3, <1>4, <1>5 DEF ReadmissionNext

LEMMA CountsInit == ReadmissionInit => CountInv
<1> SUFFICES ASSUME ReadmissionInit PROVE CountInv
  OBVIOUS
<1>1. Paces
  BY ReadmissionAssumption DEF ReadmissionInit, Paces, PaceOK
<1>2. ASSUME NEW d \in Documents PROVE PendingCopies(d) = {} /\ pending[d] = 0
  BY DEF ReadmissionInit, PendingCopies, Waiting
<1> QED
  BY <1>1, <1>2, FS_EmptySet DEF CountInv, CountOK, Counted, ReadmissionInit

(* ReadmissionTypeOK: types, and that the count which makes the reads of a  *)
(* document wait is the number of its waiting copies, however late an offer *)
(* ends and whoever settles a copy (countSubject, settle, isPending).       *)
THEOREM CountTheorem == ReadmissionSpec => []ReadmissionTypeOK
<1>1. Inv /\ CountInv => ReadmissionTypeOK
  <2> SUFFICES ASSUME Inv, CountInv PROVE ReadmissionTypeOK
    OBVIOUS
  <2>1. ASSUME NEW r \in Records PROVE entry[r] \in Entry
    <3>1. entry[r] \in EntryType /\ entry[r].attempt \in 0 .. Attempts
      BY DEF Inv, Types, CountInv, Paces, PaceOK
    <3> QED
      BY <3>1 DEF EntryType, Entry, Stages
  <2>2. entry \in [Records -> Entry]
    BY <2>1 DEF Inv, Types
  <2>3. ASSUME NEW s \in Stores
        PROVE  /\ store[s].registered \in BOOLEAN /\ store[s].overflowed \in BOOLEAN
               /\ store[s].fresh \in BOOLEAN /\ store[s].rescan \in {"no", "running", "retry"}
               /\ store[s].subjects \in SUBSET Documents
               /\ store[s].todo \in SUBSET Documents /\ store[s].found \in SUBSET Documents
               /\ \A i \in DOMAIN store[s].queue : store[s].queue[i] \in Records
    BY DEF Inv, Types, StoreType
  <2>4. verdict \in [Documents -> Verdicts] /\ waking \in Waking
    BY DEF Inv, Types
  <2> QED
    BY <2>2, <2>3, <2>4 DEF ReadmissionTypeOK, CountInv, CountOK, Counted
<1> QED
  BY <1>1, CountsInit, CountsHold, InvInit, InvStep, PTL DEF ReadmissionSpec
=============================================================================
