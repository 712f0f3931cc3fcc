------------------------- MODULE RecordReadmission -------------------------
(***************************************************************************)
(* Documents that replicate before the state that authorises them          *)
(* (OrbitDBRecordReadmission and OrbitDBPendingRecordReadmission, with the *)
(* document stores of OrbitDBReplicatedStateRegistry as their user).  A    *)
(* copy of a document that the gate leaves pending is offered again after  *)
(* each delay of a short backoff, and on every wake: one wake runs at a    *)
(* time and offers the active copies one after the other.  Each store has  *)
(* bounded slots and a bounded queue behind them; what fits in neither is  *)
(* dropped, and the store is scanned again once its offers have drained.   *)
(*                                                                         *)
(* Delays are not measured: a timer that is armed may fire.  The gate is   *)
(* the variable verdict, which an offer reads when it starts and acts on   *)
(* when it ends.                                                           *)
(***************************************************************************)
EXTENDS Naturals, Sequences, FiniteSets

CONSTANTS
    Records,         \* received copies; each waits under a key of its own
    Documents,       \* what the copies are of: an id in one store
    Stores,
    DocumentOf,      \* [Records -> Documents]
    StoreOf,         \* [Documents -> Stores]
    Attempts,        \* delays of the backoff (3)
    MaxActive,       \* active copies per store (256)
    MaxQueued,       \* queued copies of each store (256 for every store)
    MaxSubjects,     \* dropped documents a store remembers (1024)
    Failing,         \* documents whose offers may throw
    MaxFailures      \* bound on rescans that fail

ASSUME ReadmissionAssumption ==
    /\ DocumentOf \in [Records -> Documents] /\ StoreOf \in [Documents -> Stores]
    /\ Attempts \in Nat \ {0} /\ MaxActive \in Nat \ {0}
    /\ MaxQueued \in [Stores -> Nat] /\ MaxSubjects \in Nat /\ MaxFailures \in Nat
    /\ Failing \subseteq Documents

Nothing == "nothing"
ASSUME NothingIsNoRecord == Nothing \notin Records

VARIABLES
    verdict,     \* what the gate says of each document now
    entry,       \* the readmission of each copy
    store,       \* the readmissions of each store
    pending,     \* pendingCountBySubject
    waking,      \* the wake timer and the drain
    delivered,   \* documents the listeners were given
    failures,
    missed,      \* history: documents dropped, and not looked at since
    unheard      \* history: copies that no offer has looked at since the last wake

readmissionVars ==
    <<verdict, entry, store, pending, waking, delivered, failures, missed, unheard>>

Verdicts == {"pending", "accepted", "refused"}

(* seen is the verdict that the running offer has read, timed says that    *)
(* the backoff waits on that offer, armed that its timer runs.             *)
Entry == [stage : {"new", "judging", "active", "queued", "dropped", "done"},
          attempt : 0 .. Attempts, armed : BOOLEAN, timed : BOOLEAN,
          seen : Verdicts \cup {Nothing}]

ScopeReadmissions ==
    [registered : BOOLEAN, queue : Seq(Records), overflowed : BOOLEAN,
     fresh : BOOLEAN,                      \* dropped # droppedBefore
     subjects : SUBSET Documents,          \* droppedSubjects
     rescan : {"no", "running", "retry"},
     todo : SUBSET Documents, found : SUBSET Documents]

Waking == [timer : BOOLEAN, draining : BOOLEAN, rewake : BOOLEAN,
           left : SUBSET Records, on : Records \cup {Nothing}]

ReadmissionInit ==
    /\ verdict = [d \in Documents |-> "pending"]
    /\ entry = [r \in Records |-> [stage |-> "new", attempt |-> 0, armed |-> FALSE,
                                   timed |-> FALSE, seen |-> Nothing]]
    /\ store = [s \in Stores |->
                 [registered |-> TRUE, queue |-> <<>>, overflowed |-> FALSE,
                  fresh |-> FALSE, subjects |-> {}, rescan |-> "no",
                  todo |-> {}, found |-> {}]]
    /\ pending = [d \in Documents |-> 0]
    /\ waking = [timer |-> FALSE, draining |-> FALSE, rewake |-> FALSE,
                 left |-> {}, on |-> Nothing]
    /\ delivered = {} /\ failures = 0 /\ missed = {} /\ unheard = {}

-----------------------------------------------------------------------------
StoreFor(r) == StoreOf[DocumentOf[r]]
Registered(r) == store[StoreFor(r)].registered
Active == {r \in Records : entry[r].stage = "active"}
ActiveIn(s) == {r \in Active : StoreFor(r) = s}
Waiting(r) == entry[r].stage \in {"active", "queued"}

(* A store has readmission state while it holds copies or is overflowed.   *)
Scopes == {s \in Stores : ActiveIn(s) # {} \/ store[s].overflowed \/ store[s].rescan # "no"}

(* What a rescan reads: every document that the store holds.               *)
Stored(s) == {DocumentOf[r] : r \in {q \in Records : StoreFor(q) = s /\ entry[q].stage # "new"}}

(* Mutant of Woken: a wake during a drain is taken as served by it.        *)
WokenOnce(w) ==
    IF w.draining \/ w.timer \/ Scopes = {} THEN w ELSE [w EXCEPT !.timer = TRUE]

(* wake: a drain is followed by another one, and a timer is armed once.    *)
Woken(w) ==
    IF w.draining THEN [w EXCEPT !.rewake = TRUE]
    ELSE IF w.timer \/ Scopes = {} THEN w ELSE [w EXCEPT !.timer = TRUE]

(* New state was admitted: everything idle has a wake to hear.             *)
Wake(w) ==
    /\ waking' = Woken(w)
    /\ unheard' = unheard \cup {r \in Active : entry[r].seen = Nothing}
NoWake == UNCHANGED <<waking, unheard>>

Started(e) == [e EXCEPT !.stage = "active", !.armed = TRUE]

(* checkDrained: an overflowed store that has nothing left is scanned.     *)
Rescanned(s, st) ==
    [st EXCEPT !.rescan = "running", !.fresh = FALSE, !.found = {},
               !.todo = IF st.registered THEN Stored(s) ELSE {}]
CheckDrained(s, st, drained) ==
    IF drained /\ st.queue = <<>> /\ st.rescan = "no" /\ st.overflowed
      THEN Rescanned(s, st) ELSE st

(* Mutant of Successor: a slot that frees is left to later arrivals.       *)
NoSuccessor(s) == {}

(* The queued copy that takes a freed slot.                                *)
Successor(s) == IF store[s].queue = <<>> THEN {} ELSE {Head(store[s].queue)}
Dequeued(st) == [st EXCEPT !.queue = Tail(@)]

(* settle: the copy leaves, and the oldest queued copy takes its slot.     *)
Settle(r, e) ==
    LET s == StoreFor(r)
        next == Successor(s)
    IN  /\ entry' = [q \in Records |->
                       IF q = r THEN [e EXCEPT !.stage = "done", !.armed = FALSE, !.timed = FALSE]
                       ELSE IF q \in next THEN Started(entry[q]) ELSE entry[q]]
        /\ pending' = [pending EXCEPT ![DocumentOf[r]] = @ - 1]
        /\ store' = [store EXCEPT ![s] =
                       IF next # {} THEN Dequeued(@)
                                    ELSE CheckDrained(s, @, ActiveIn(s) = {r})]

Keep(r, e) == entry' = [entry EXCEPT ![r] = e] /\ UNCHANGED <<pending, store>>

(* Mutant of SettleOnce: a late end settles its copy a second time.        *)
SettleAgain(r, e) == Settle(r, e)

(* Settles a copy once: an offer may end after its copy was retired.       *)
SettleOnce(r, e) == IF Waiting(r) THEN Settle(r, e) ELSE Keep(r, e)

(* arm: the next delay of the backoff, or the end of it.                   *)
Arm(r, e) ==
    IF e.attempt = Attempts
      THEN Settle(r, e)
      ELSE Keep(r, [e EXCEPT !.armed = TRUE, !.timed = FALSE])

(* A lookup reads the verdict of the moment.                               *)
Look(r) == missed' = missed \ {DocumentOf[r]}
Looking(r, e) == [e EXCEPT !.seen = verdict[DocumentOf[r]]]

-----------------------------------------------------------------------------
(* offerDocument: a copy arrives and its verdict is looked up.             *)
Arrive(r) ==
    /\ entry[r].stage = "new" /\ Registered(r)
    /\ Keep(r, Looking(r, [entry[r] EXCEPT !.stage = "judging"]))
    /\ Look(r)
    /\ UNCHANGED <<verdict, waking, delivered, failures, unheard>>

(* overflow: the store remembers what it dropped up to a bound.            *)
Remembered(st, d) ==
    IF Cardinality(st.subjects) < MaxSubjects THEN st.subjects \cup {d} ELSE st.subjects

(* schedule: a slot, else a place in the queue, else the copy is dropped.  *)
Schedule(r) ==
    LET s == StoreFor(r)
        d == DocumentOf[r]
        e == [entry[r] EXCEPT !.seen = Nothing]
        counted == [pending EXCEPT ![d] = @ + 1]
    IN  \/ /\ Cardinality(ActiveIn(s)) < MaxActive
           /\ entry' = [entry EXCEPT ![r] = Started(e)]
           /\ pending' = counted
           /\ UNCHANGED <<store, missed>>
        \/ /\ Cardinality(ActiveIn(s)) >= MaxActive /\ Len(store[s].queue) < MaxQueued[s]
           /\ entry' = [entry EXCEPT ![r] = [e EXCEPT !.stage = "queued"]]
           /\ store' = [store EXCEPT ![s].queue = Append(@, r)]
           /\ pending' = counted
           /\ UNCHANGED missed
        \/ /\ Cardinality(ActiveIn(s)) >= MaxActive /\ Len(store[s].queue) >= MaxQueued[s]
           /\ entry' = [entry EXCEPT ![r] = [e EXCEPT !.stage = "dropped"]]
           /\ store' = [store EXCEPT ![s].overflowed = TRUE, ![s].fresh = TRUE,
                                     ![s].subjects = Remembered(store[s], d)]
           /\ missed' = missed \cup {d}
           /\ UNCHANGED pending

(* The first verdict on a copy.                                            *)
Judge(r) ==
    LET e == [entry[r] EXCEPT !.seen = Nothing, !.stage = "done"] IN
    /\ entry[r].stage = "judging"
    /\ \/ /\ entry[r].seen = "accepted"
          /\ delivered' = delivered \cup {DocumentOf[r]}
          /\ Keep(r, e) /\ Wake(waking) /\ UNCHANGED missed
       \/ /\ entry[r].seen = "refused"
          /\ Keep(r, e) /\ NoWake /\ UNCHANGED <<delivered, missed>>
       \/ /\ entry[r].seen = "pending"
          /\ Schedule(r) /\ NoWake /\ UNCHANGED delivered
    /\ UNCHANGED <<verdict, failures>>

(* A delay of the backoff passes.  An offer that a wake has started counts *)
(* for it; a copy whose store is gone settles.                             *)
Delay(r) ==
    LET e == [entry[r] EXCEPT !.attempt = @ + 1, !.armed = FALSE] IN
    /\ entry[r].stage = "active" /\ entry[r].armed
    /\ IF entry[r].seen # Nothing
         THEN Arm(r, e) /\ UNCHANGED <<missed, unheard>>
         ELSE IF Registered(r)
           THEN /\ Keep(r, Looking(r, [e EXCEPT !.timed = TRUE]))
                /\ Look(r) /\ unheard' = unheard \ {r}
           ELSE Settle(r, e) /\ UNCHANGED <<missed, unheard>>
    /\ UNCHANGED <<verdict, waking, delivered, failures>>

Resumed(r) == [waking EXCEPT !.on = IF @ = r THEN Nothing ELSE @]

(* An offer ends.  What it read decides: it delivers also when the copy    *)
(* was retired meanwhile.                                                  *)
EndOffer(r) ==
    LET e == [entry[r] EXCEPT !.seen = Nothing] IN
    /\ entry[r].stage # "judging" /\ entry[r].seen # Nothing
    /\ \/ /\ entry[r].seen = "accepted"
          /\ delivered' = delivered \cup {DocumentOf[r]}
          /\ SettleOnce(r, e) /\ Wake(Resumed(r))
       \/ /\ entry[r].seen = "refused"
          /\ SettleOnce(r, e)
          /\ waking' = Resumed(r) /\ UNCHANGED <<delivered, unheard>>
       \/ /\ entry[r].seen = "pending"
          /\ IF e.timed THEN Arm(r, e) ELSE Keep(r, e)
          /\ waking' = Resumed(r) /\ UNCHANGED <<delivered, unheard>>
    /\ UNCHANGED <<verdict, failures, missed>>

(* An offer throws, which settles its copy.                                *)
FailOffer(r) ==
    /\ DocumentOf[r] \in Failing
    /\ entry[r].stage # "judging" /\ entry[r].seen # Nothing
    /\ SettleOnce(r, [entry[r] EXCEPT !.seen = Nothing])
    /\ waking' = Resumed(r)
    /\ UNCHANGED <<verdict, delivered, failures, missed, unheard>>

(* Mutant of Deadline: nothing waits less than the offer takes.            *)
NoDeadline(r) == FALSE /\ UNCHANGED readmissionVars

(* OFFER_WAIT_MS passes: who waits goes on, and the offer runs on.         *)
Deadline(r) ==
    /\ entry[r].seen # Nothing /\ (entry[r].timed \/ waking.on = r)
    /\ IF entry[r].timed THEN Arm(r, entry[r]) ELSE UNCHANGED <<entry, pending, store>>
    /\ waking' = Resumed(r)
    /\ UNCHANGED <<verdict, delivered, failures, missed, unheard>>

-----------------------------------------------------------------------------
(* The wake timer fires: the active copies of every store, one by one.     *)
StartDrain ==
    /\ waking.timer
    /\ waking' = [waking EXCEPT !.timer = FALSE, !.draining = TRUE, !.left = Active]
    /\ UNCHANGED <<verdict, entry, store, pending, delivered, failures, missed, unheard>>

DrainOne(r) ==
    LET w == [waking EXCEPT !.left = @ \ {r}] IN
    /\ waking.draining /\ waking.on = Nothing /\ r \in waking.left
    /\ IF entry[r].stage # "active" \/ entry[r].seen # Nothing
         THEN waking' = w /\ UNCHANGED <<entry, store, pending, missed, unheard>>
         ELSE IF Registered(r)
           THEN /\ Keep(r, Looking(r, entry[r])) /\ Look(r)
                /\ waking' = [w EXCEPT !.on = r] /\ unheard' = unheard \ {r}
           ELSE Settle(r, entry[r]) /\ waking' = w /\ UNCHANGED <<missed, unheard>>
    /\ UNCHANGED <<verdict, delivered, failures>>

EndDrain ==
    /\ waking.draining /\ waking.on = Nothing /\ waking.left = {}
    /\ waking' = [waking EXCEPT !.draining = FALSE, !.rewake = FALSE,
                                !.timer = waking.rewake /\ Scopes # {}]
    /\ UNCHANGED <<verdict, entry, store, pending, delivered, failures, missed, unheard>>

-----------------------------------------------------------------------------
(* projectCanonicalDocuments looks every stored document up, and then      *)
(* delivers those it found accepted.                                       *)
RescanOne(s, d) ==
    /\ store[s].rescan = "running" /\ d \in store[s].todo
    /\ store' = [store EXCEPT ![s].todo = @ \ {d},
                              ![s].found = IF verdict[d] = "accepted" THEN @ \cup {d} ELSE @]
    /\ missed' = missed \ {d}
    /\ UNCHANGED <<verdict, entry, pending, waking, delivered, failures, unheard>>

(* Mutant of Complete: any rescan that ends clears the overflow.           *)
CompleteAnyway(st) == TRUE

(* A rescan is complete if the store dropped nothing while it ran.         *)
Complete(st) == ~st.fresh

(* A rescan that is not complete is repeated: after the copies that came   *)
(* meanwhile have drained, or after a delay if there are none.             *)
Unfinished(s) ==
    [store[s] EXCEPT !.todo = {}, !.found = {},
                     !.rescan = IF ActiveIn(s) = {} THEN "retry" ELSE "no"]

EndRescan(s) ==
    /\ store[s].rescan = "running" /\ store[s].todo = {}
    /\ delivered' = delivered \cup store[s].found
    /\ store' = [store EXCEPT ![s] =
                   IF Complete(@)
                     THEN [@ EXCEPT !.rescan = "no", !.found = {}, !.overflowed = FALSE,
                                    !.fresh = FALSE, !.subjects = {}]
                     ELSE Unfinished(s)]
    /\ UNCHANGED <<verdict, entry, pending, waking, failures, missed, unheard>>

FailRescan(s) ==
    /\ failures < MaxFailures /\ store[s].rescan = "running" /\ store[s].registered
    /\ failures' = failures + 1
    /\ store' = [store EXCEPT ![s] = Unfinished(s)]
    /\ UNCHANGED <<verdict, entry, pending, waking, delivered, missed, unheard>>

(* RESCAN_RETRY_MS passes.                                                 *)
RetryRescan(s) ==
    /\ store[s].rescan = "retry"
    /\ store' = [store EXCEPT ![s] =
                   CheckDrained(s, [@ EXCEPT !.rescan = "no"], ActiveIn(s) = {})]
    /\ UNCHANGED <<verdict, entry, pending, waking, delivered, failures, missed, unheard>>

-----------------------------------------------------------------------------
(* The state that a document rests on is admitted, which wakes.            *)
Admit(d, v) ==
    /\ verdict[d] = "pending" /\ v \in {"accepted", "refused"}
    /\ verdict' = [verdict EXCEPT ![d] = v]
    /\ Wake(waking)
    /\ UNCHANGED <<entry, store, pending, delivered, failures, missed>>

Unregister(s) ==
    /\ store[s].registered
    /\ store' = [store EXCEPT ![s].registered = FALSE]
    /\ UNCHANGED <<verdict, entry, pending, waking, delivered, failures, missed, unheard>>

ReadmissionNext ==
    \/ \E r \in Records : \/ Arrive(r) \/ Judge(r) \/ Delay(r) \/ EndOffer(r)
                          \/ FailOffer(r) \/ Deadline(r) \/ DrainOne(r)
    \/ StartDrain \/ EndDrain
    \/ \E s \in Stores : \/ EndRescan(s) \/ FailRescan(s) \/ RetryRescan(s) \/ Unregister(s)
                         \/ \E d \in Documents : RescanOne(s, d)
    \/ \E d \in Documents, v \in Verdicts : Admit(d, v)

ReadmissionSpec == ReadmissionInit /\ [][ReadmissionNext]_readmissionVars
=============================================================================
