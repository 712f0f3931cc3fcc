----------------------- MODULE PrivateOperationsProof -----------------------
(* The handlers of any number of requests implement the ledger, the        *)
(* records of a scope agree, siblings freeze it, and what is accepted was  *)
(* reserved, for any operations, devices and limits.                       *)
EXTENDS PrivateOperationProperties, SumsProof

USE PrivateScopeConstants, PrivateOperationConstants

(* A bounded set of numbers has a greatest element: among the segments     *)
(* between its members and the bound one contains no other.                *)
LEMMA MaxOf ==
    ASSUME NEW n \in Nat, NEW S \in SUBSET (0..n), S # {}
    PROVE  Max(S) \in S /\ \A k \in S : Max(S) >= k
<1> DEFINE Gaps == {0..(n - k) : k \in S}
<1>1. Gaps \subseteq FiniteSubsetsOf(Nat)
  <2> SUFFICES ASSUME NEW k \in S PROVE 0..(n - k) \in FiniteSubsetsOf(Nat)
    OBVIOUS
  <2>1. n - k \in Nat
    OBVIOUS
  <2> QED BY <2>1, FS_Interval DEF FiniteSubsetsOf
<1>2. Gaps # {}
  OBVIOUS
<1>3. PICK u \in Gaps : \A v \in Gaps : ~(<<v, u>> \in StrictSubsetOrdering(Nat))
  <2> HIDE DEF Gaps
  <2> QED BY <1>1, <1>2, FS_StrictSubsetOrderingWellFounded, WFMin, Zenon
<1>4. PICK m \in S : u = 0..(n - m)
  OBVIOUS
<1>5. \A k \in S : m >= k
  <2> SUFFICES ASSUME NEW k \in S, m < k PROVE FALSE
    OBVIOUS
  <2>1. 0..(n - k) \subseteq u /\ 0..(n - k) # u /\ u \subseteq Nat
    BY <1>4
  <2> QED BY <1>3, <2>1 DEF StrictSubsetOrdering
<1> HIDE DEF Gaps
<1> QED BY <1>5 DEF Max

LEMMA RangeAppend ==
    ASSUME NEW S, NEW s \in Seq(S), NEW e \in S
    PROVE  /\ Append(s, e) \in Seq(S) /\ Len(Append(s, e)) = Len(s) + 1
           /\ Range(Append(s, e)) = Range(s) \cup {e}
           /\ LastOf(Append(s, e)) = e
<1> DEFINE t == Append(s, e)
<1>1. /\ t \in Seq(S) /\ Len(t) = Len(s) + 1 /\ Len(s) \in Nat /\ t # <<>>
      /\ DOMAIN s = 1..Len(s) /\ DOMAIN t = 1..(Len(s) + 1)
      /\ \A i \in 1..Len(s) : t[i] = s[i]
      /\ t[Len(s) + 1] = e
  OBVIOUS
<1> HIDE DEF t
<1>2. Range(t) = Range(s) \cup {e}
  <2>1. \A x \in Range(t) : x \in Range(s) \cup {e}
    BY <1>1 DEF Range
  <2>2. \A x \in Range(s) \cup {e} : x \in Range(t)
    BY <1>1 DEF Range
  <2> QED BY <2>1, <2>2
<1> QED BY <1>1, <1>2 DEF t, LastOf

-----------------------------------------------------------------------------
(* What a handler at each stage has read, and which scope it may write.    *)
Reading == {"asking", "comparing", "proving", "queueing", "projecting", "committing"}

HandlersHold ==
    \A w \in Workers :
        /\ handlers[w].stage # "idle" => handlers[w].op \in Operations
        /\ handlers[w].stage \in Reading => handlers[w].scope # NoScope
        /\ handlers[w].stage \notin {"idle", "routing", "authorizing"} => scope # NoScope

(* A checkpoint that was read is the one of now, or has an older revision. *)
HandlersAreBehind ==
    \A w \in Workers : handlers[w].scope # NoScope =>
        /\ scope # NoScope
        /\ handlers[w].scope.checkpoint.revision <= scope.checkpoint.revision
        /\ handlers[w].scope.checkpoint.revision = scope.checkpoint.revision
               => handlers[w].scope.checkpoint = scope.checkpoint

(* The operations of the revision of now are retained, all of them.        *)
LogIsRetained ==
    /\ scope = NoScope => log = <<>>
    /\ scope # NoScope => \A o \in Logged :
           /\ o.revision <= scope.checkpoint.revision
           /\ o.revision = scope.checkpoint.revision => o \in Accepted(scope)

OrderIsBounded == scope # NoScope => \A e \in scope.accepted : e.at <= Len(log)

Inv == /\ PrivateTypeOK /\ RecordsAgree /\ HandlersHold
       /\ HandlersAreBehind /\ LogIsRetained /\ OrderIsBounded
-----------------------------------------------------------------------------
(* The operators on scopes and checkpoints.                                *)
LEMMA CandidateType ==
    ASSUME NEW c \in Checkpoint, NEW o \in Operations
    PROVE  /\ Candidate(c, o) \in Checkpoint
           /\ IsProposal(o) => Candidate(c, o) = c
           /\ ~IsProposal(o) => Candidate(c, o).revision = c.revision + 1
<1>1. o \in Operation
  OBVIOUS
<1>2. AdmittedAfter(c, o) \in SUBSET Devices
  <2>1. o.change \in Changes
    BY <1>1 DEF Operation
  <2>2. o.change.type \in {"admit", "remove", "roles"} /\ o.change.device \in Devices
    BY <2>1 DEF Changes
  <2>3. c.admitted \in SUBSET Devices
    BY DEF Checkpoint
  <2> QED BY <2>2, <2>3 DEF AdmittedAfter
<1>3. Successor(c, o) \in Checkpoint /\ Successor(c, o).revision = c.revision + 1
  <2>1. o.child \in Heads
    BY <1>1 DEF Operation
  <2> QED BY <1>2, <2>1 DEF Successor, Checkpoint
<1> QED BY <1>3 DEF Candidate

LEMMA GenesisType ==
    /\ GenesisCheckpoint \in Checkpoint
    /\ \A g \in Geneses : PinnedScope(g) \in Scope
<1>1. GenesisCheckpoint \in Checkpoint
  BY DEF GenesisCheckpoint, Checkpoint
<1> QED BY <1>1 DEF PinnedScope, Scope

LEMMA FrozenScope ==
    ASSUME NEW s \in Scope
    PROVE  /\ Frozen(s) \in Scope /\ Frozen(s).status = "frozen"
           /\ Frozen(s).checkpoint = s.checkpoint /\ Frozen(s).accepted = s.accepted
           /\ Frozen(s).pending = s.pending /\ Frozen(s).genesis = s.genesis
           /\ Accepted(Frozen(s)) = Accepted(s)
BY DEF Frozen, Scope, Accepted

(* Nothing is pruned where nothing is ruled out.                           *)
LEMMA PrunedScope ==
    ASSUME NEW s \in Scope,
           \A p \in s.pending : ~IsPermanentlyInvalid(s.checkpoint, p)
    PROVE  Pruned(s) = s
<1>1. StillPossible(s.checkpoint, s.pending) = s.pending
  BY DEF StillPossible
<1> QED BY <1>1 DEF Pruned, Scope

(* What is ready or may wait is new, of this revision or a later one, and  *)
(* not ruled out.                                                          *)
LEMMA VerdictFacts ==
    ASSUME NEW s \in Scope, NEW o \in Operations, Verdict(s, o) \in {"ready", "pending"}
    PROVE  /\ o \notin Accepted(s) /\ s.status = "active" /\ IsValid(s, o)
           /\ \A p \in Accepted(s) \cup s.pending : p.id = o.id => p = o
           /\ ~IsPermanentlyInvalid(s.checkpoint, o)
           /\ Verdict(s, o) = "ready" => ~MustWait(s, o)
<1>1. /\ o \notin Accepted(s) /\ s.status = "active" /\ IsValid(s, o)
      /\ ~IsIdReused(s, o)
      /\ Verdict(s, o) = "ready" => ~MustWait(s, o)
  BY DEF Verdict
<1>2. \A p \in Accepted(s) \cup s.pending : p.id = o.id => p = o
  BY <1>1 DEF IsIdReused
<1>3. o.revision \in Nat /\ s.checkpoint.revision \in Nat
  <2>1. o \in Operation /\ s.checkpoint \in Checkpoint
    BY DEF Scope
  <2> QED BY <2>1 DEF Operation, Checkpoint
<1>4. ~IsPermanentlyInvalid(s.checkpoint, o)
  BY <1>1, <1>3 DEF IsValid, IsPermanentlyInvalid
<1> QED BY <1>1, <1>2, <1>4

LEMMA QueuedScope ==
    ASSUME NEW s \in Scope, NEW o \in Operations,
           \A p \in s.pending : ~IsPermanentlyInvalid(s.checkpoint, p)
    PROVE  /\ Queued(s, o) \in Scope /\ Queued(s, o).status = s.status
           /\ Queued(s, o).checkpoint = s.checkpoint /\ Queued(s, o).accepted = s.accepted
           /\ Queued(s, o).pending = s.pending \cup {o} /\ Queued(s, o).genesis = s.genesis
           /\ Accepted(Queued(s, o)) = Accepted(s)
<1>1. Queued(s, o) = [s EXCEPT !.pending = @ \cup {o}]
  BY PrunedScope DEF Queued
<1> QED BY <1>1 DEF Scope, Accepted

LEMMA WithEntryType ==
    ASSUME NEW s \in Scope, NEW o \in Operations, NEW n \in Nat,
           \A e \in s.accepted : e.at <= n
    PROVE  /\ WithEntry(s, o) \in SUBSET Entry /\ s.accepted \subseteq WithEntry(s, o)
           /\ {e.op : e \in WithEntry(s, o)} = Accepted(s) \cup {o}
           /\ \A e \in WithEntry(s, o) : e.at <= n + 1
<1> DEFINE S == {e.at : e \in s.accepted} \cup {0}
           new == [op |-> o, at |-> Max(S) + 1]
<1>1. \A e \in s.accepted : e \in Entry /\ e.at \in Nat
  BY DEF Scope, Entry
<1>2. S \in SUBSET (0..n) /\ S # {}
  BY <1>1
<1>3. Max(S) \in 0..n
  <2> HIDE DEF S
  <2> QED BY <1>2, MaxOf
<1>4. WithEntry(s, o) = s.accepted \cup {new}
  BY DEF WithEntry
<1>5. new \in Entry /\ new.op = o /\ new.at <= n + 1
  <2> HIDE DEF S
  <2> QED BY <1>3 DEF Entry
<1> HIDE DEF new
<1> QED BY <1>1, <1>4, <1>5 DEF Accepted

(* The scope t after the acceptance of o in s, which leads to c.           *)
IsAfter(t, s, o, c, n) ==
    /\ t \in Scope /\ t.checkpoint = c /\ t.status = s.status
    /\ t.pending = StillPossible(c, s.pending \ {o})
    /\ Accepted(t) \subseteq Accepted(s) \cup {o}
    /\ \A a \in Accepted(s) \cup {o} :
           a.revision = c.revision \/ a.id \in DependencyIds(t.pending)
               => a \in Accepted(t)
    /\ \A e \in t.accepted : e.at <= n + 1

LEMMA AfterAcceptance ==
    ASSUME NEW s \in Scope, NEW o \in Operations, NEW c \in Checkpoint, NEW n \in Nat,
           \A e \in s.accepted : e.at <= n
    PROVE  IsAfter(WithAccepted(s, o, c), s, o, c, n)
<1> DEFINE t == WithAccepted(s, o, c)
           pending == StillPossible(c, s.pending \ {o})
           entries == WithEntry(s, o)
           kept == Retained(entries, pending, c)
<1>1. /\ entries \in SUBSET Entry /\ {e.op : e \in entries} = Accepted(s) \cup {o}
      /\ \A e \in entries : e.at <= n + 1
  BY WithEntryType
<1>2. pending \in SUBSET Operations
  BY DEF StillPossible, Scope
<1>3. kept \subseteq entries /\ Required(entries, pending, c) \subseteq kept
  BY DEF Retained, Required
<1>4. t = [s EXCEPT !.checkpoint = c, !.pending = pending, !.accepted = kept]
  BY DEF WithAccepted
<1> HIDE DEF t, pending, entries, kept
<1>5. /\ t \in Scope /\ t.checkpoint = c /\ t.status = s.status
      /\ t.pending = pending /\ t.accepted = kept
  BY <1>1, <1>2, <1>3, <1>4 DEF Scope
<1>6. Accepted(t) \subseteq Accepted(s) \cup {o}
  BY <1>1, <1>3, <1>5 DEF Accepted
<1>7. \A a \in Accepted(s) \cup {o} :
          a.revision = c.revision \/ a.id \in DependencyIds(pending) => a \in Accepted(t)
  <2> SUFFICES ASSUME NEW a \in Accepted(s) \cup {o},
                      a.revision = c.revision \/ a.id \in DependencyIds(pending)
               PROVE  a \in Accepted(t)
    OBVIOUS
  <2>1. PICK e \in entries : e.op = a
    BY <1>1
  <2>2. e \in Required(entries, pending, c)
    BY <2>1 DEF Required
  <2> QED BY <1>3, <1>5, <2>1, <2>2 DEF Accepted
<1>8. \A e \in t.accepted : e.at <= n + 1
  BY <1>1, <1>3, <1>5
<1> QED BY <1>5, <1>6, <1>7, <1>8 DEF t, pending, IsAfter
-----------------------------------------------------------------------------
(* What a step does to the scope, its receipts and the log.                *)
RecordsStay == UNCHANGED <<receipts, delivered, log>>

StaysOrFreezes ==
    /\ \/ scope' = scope
       \/ scope # NoScope /\ scope' = Frozen(scope)
    /\ RecordsStay

Pins == /\ scope = NoScope /\ RecordsStay
        /\ \E g \in Geneses : scope' = PinnedScope(g)

Queues(o) ==
    /\ o \in Operations /\ scope \in Scope
    /\ Verdict(scope, o) = "pending"
    /\ scope' = Queued(scope, o) /\ RecordsStay

(* An acceptance is one of the stored scope, at its own checkpoint.        *)
Accepts(o) ==
    LET c == Candidate(scope.checkpoint, o) IN
    /\ o \in Operations /\ scope \in Scope
    /\ Verdict(scope, o) = "ready" /\ MayAccept(scope, o, c)
    /\ scope' = WithAccepted(scope, o, c)
    /\ receipts' = Kept(receipts, scope, scope', o)
    /\ delivered' = Kept(delivered, scope, scope', o)
    /\ log' = Append(log, o)

LEMMA CommitAccepts ==
    ASSUME Inv, NEW w \in Workers, CommitAcceptance(w)
    PROVE  Accepts(handlers[w].op)
<1> DEFINE o == handlers[w].op
           c == handlers[w].scope.checkpoint
<1>1. HandlerAt(w, "committing") /\ IsExpected(c)
  BY DEF CommitAcceptance
<1>2. o \in Operations /\ handlers[w].scope # NoScope
  BY <1>1 DEF Inv, HandlersHold, HandlerAt, Reading
<1>3. scope # NoScope /\ c.revision = scope.checkpoint.revision
  BY <1>1 DEF IsExpected
<1>4. c = scope.checkpoint
  BY <1>2, <1>3 DEF Inv, HandlersAreBehind
<1>5. scope \in Scope /\ Pruned(scope) = scope
  <2>1. scope \in Scope
    BY <1>3 DEF Inv, PrivateTypeOK
  <2>2. \A p \in scope.pending : ~IsPermanentlyInvalid(scope.checkpoint, p)
    BY <1>3 DEF Inv, PrivateTypeOK, PendingNow
  <2> QED BY <2>1, <2>2, PrunedScope
<1> QED BY <1>2, <1>4, <1>5 DEF CommitAcceptance, Accepts, Base

LEMMA CommitQueues ==
    ASSUME Inv, NEW w \in Workers, CommitPending(w)
    PROVE  StaysOrFreezes \/ Queues(handlers[w].op)
<1> DEFINE o == handlers[w].op
           c == handlers[w].scope.checkpoint
<1>1. HandlerAt(w, "queueing") /\ RecordsStay
  BY DEF CommitPending, RecordsStay
<1>2. o \in Operations
  BY <1>1 DEF Inv, HandlersHold, HandlerAt
<1>3. CASE ~IsExpected(c)
  BY <1>1, <1>3 DEF CommitPending, StaysOrFreezes
<1>4. CASE IsExpected(c)
  <2>1. scope # NoScope /\ scope \in Scope
    BY <1>4 DEF IsExpected, Inv, PrivateTypeOK
  <2>2. CASE Verdict(scope, o) = "pending"
    <3>1. scope' = Queued(scope, o)
      BY <1>4, <2>2 DEF CommitPending
    <3> QED BY <1>1, <1>2, <2>1, <2>2, <3>1 DEF Queues
  <2>3. CASE Verdict(scope, o) = "conflict"
    <3>1. scope' = Frozen(scope)
      BY <1>4, <2>3 DEF CommitPending
    <3> QED BY <1>1, <2>1, <3>1 DEF StaysOrFreezes
  <2>4. CASE Verdict(scope, o) \notin {"pending", "conflict"}
    <3>1. scope' = scope
      BY <1>4, <2>4 DEF CommitPending
    <3> QED BY <1>1, <3>1 DEF StaysOrFreezes
  <2> QED BY <2>2, <2>3, <2>4
<1> QED BY <1>3, <1>4

LEMMA ProvisionPins ==
    ASSUME Inv, NEW g \in Geneses, Provision(g)
    PROVE  StaysOrFreezes \/ Pins
<1>1. RecordsStay
  BY DEF Provision, RecordsStay
<1>2. CASE scope = NoScope
  BY <1>1, <1>2 DEF Provision, Pins
<1>3. CASE scope # NoScope
  BY <1>1, <1>3 DEF Provision, StaysOrFreezes
<1> QED BY <1>2, <1>3

LEMMA StoredCases ==
    ASSUME Inv, [Next]_vars
    PROVE  \/ StaysOrFreezes \/ Pins
           \/ \E o \in Operations : Queues(o) \/ Accepts(o)
<1>1. ASSUME NEW g \in Geneses, Provision(g) PROVE StaysOrFreezes \/ Pins
  BY <1>1, ProvisionPins
<1>2. ASSUME NEW w \in Workers, NEW o \in Operations,
             AskChallenge(w, o) \/ Submit(w, o) \/ SubmitReused(w, o)
      PROVE  StaysOrFreezes
  BY <1>2 DEF AskChallenge, Submit, SubmitReused, stored, StaysOrFreezes, RecordsStay
<1>3. ASSUME NEW w \in Workers, ReserveChild(w) PROVE StaysOrFreezes
  <2>1. scope # NoScope
    BY <1>3 DEF ReserveChild, Inv, HandlersHold, HandlerAt
  <2> QED BY <1>3, <2>1 DEF ReserveChild, StaysOrFreezes, RecordsStay
<1>4. ASSUME NEW w \in Workers,
             \/ IssueWithoutChild(w) \/ Route(w) \/ RouteSibling(w) \/ Authorize(w)
             \/ Compare(w) \/ Prove(w) \/ Project(w) \/ Refuse(w)
      PROVE  StaysOrFreezes
  BY <1>4 DEF IssueWithoutChild, Route, RouteSibling, Authorize, Compare, Prove, Project,
              Refuse, stored, StaysOrFreezes, RecordsStay
<1>5. ASSUME NEW w \in Workers, CommitPending(w)
      PROVE  StaysOrFreezes \/ \E o \in Operations : Queues(o)
  BY <1>5, CommitQueues DEF Queues
<1>6. ASSUME NEW w \in Workers, CommitAcceptance(w)
      PROVE  \E o \in Operations : Accepts(o)
  BY <1>6, CommitAccepts DEF Accepts
<1>7. ASSUME NEW w \in Workers, CommitConflict(w) PROVE StaysOrFreezes
  BY <1>7 DEF CommitConflict, StaysOrFreezes, RecordsStay
<1>8. ASSUME NEW w \in Workers, Quarantine(w) PROVE StaysOrFreezes
  <2>1. scope # NoScope
    BY <1>8 DEF Quarantine, Inv, HandlersHold
  <2> QED BY <1>8, <2>1 DEF Quarantine, StaysOrFreezes, RecordsStay
<1>9. ASSUME NEW x \in challenges, ExpireChallenge(x) PROVE StaysOrFreezes
  BY <1>9 DEF ExpireChallenge, stored, StaysOrFreezes, RecordsStay
<1>10. CASE Restart
  BY <1>10 DEF Restart, stored, StaysOrFreezes, RecordsStay
<1>11. CASE UNCHANGED vars
  BY <1>11 DEF vars, stored, StaysOrFreezes, RecordsStay
<1> QED BY <1>1, <1>2, <1>3, <1>4, <1>5, <1>6, <1>7, <1>8, <1>9, <1>10, <1>11
        DEF Next, Handle

-----------------------------------------------------------------------------
(* What each of the four does to the parts of the invariant.               *)
StoredOK ==
    /\ scope \in Scope \cup {NoScope}
    /\ \A p \in PendingNow : ~IsPermanentlyInvalid(scope.checkpoint, p)
    /\ receipts \subseteq Operations /\ delivered \subseteq Operations
    /\ log \in Seq(Operations)
    /\ RecordsAgree /\ LogIsRetained /\ OrderIsBounded

(* The checkpoint moves by a whole revision or not at all.                 *)
CheckpointAdvances ==
    scope # NoScope =>
        /\ scope' # NoScope
        /\ \/ scope'.checkpoint = scope.checkpoint
           \/ scope'.checkpoint.revision > scope.checkpoint.revision

LEMMA StayStep ==
    ASSUME Inv, StaysOrFreezes
    PROVE  StoredOK' /\ CheckpointAdvances
<1>1. /\ receipts' = receipts /\ delivered' = delivered /\ log' = log
  BY DEF StaysOrFreezes, RecordsStay
<1>2. CASE scope' = scope
  BY <1>1, <1>2 DEF Inv, PrivateTypeOK, StoredOK, RecordsAgree, LogIsRetained,
     OrderIsBounded, PendingNow, AcceptedNow, Logged, CheckpointAdvances
<1>3. CASE scope # NoScope /\ scope' = Frozen(scope)
  <2>1. scope \in Scope
    BY <1>3 DEF Inv, PrivateTypeOK
  <2>2. /\ scope' \in Scope /\ scope' # NoScope
        /\ scope'.checkpoint = scope.checkpoint /\ scope'.accepted = scope.accepted
        /\ scope'.pending = scope.pending /\ Accepted(scope)' = Accepted(scope)
    BY <1>3, <2>1, FrozenScope DEF Accepted
  <2>3. PendingNow' = PendingNow /\ AcceptedNow' = AcceptedNow /\ Logged' = Logged
    BY <1>1, <1>3, <2>2 DEF PendingNow, AcceptedNow, Logged
  <2> QED BY <1>1, <1>3, <2>2, <2>3 DEF Inv, PrivateTypeOK, StoredOK, RecordsAgree,
             LogIsRetained, OrderIsBounded, CheckpointAdvances
<1> QED BY <1>2, <1>3 DEF StaysOrFreezes

LEMMA PinStep ==
    ASSUME Inv, Pins
    PROVE  StoredOK' /\ CheckpointAdvances
<1>1. PICK g \in Geneses : scope' = PinnedScope(g)
  BY DEF Pins
<1>2. /\ receipts' = receipts /\ delivered' = delivered /\ log' = log /\ scope = NoScope
  BY DEF Pins, RecordsStay
<1>3. scope' \in Scope /\ scope' # NoScope /\ scope'.pending = {} /\ scope'.accepted = {}
  BY <1>1, GenesisType DEF PinnedScope
<1>4. log = <<>> /\ receipts = {} /\ delivered = {}
  BY <1>2 DEF Inv, RecordsAgree, LogIsRetained, AcceptedNow
<1>5. Logged' = {} /\ AcceptedNow' = {} /\ PendingNow' = {}
  BY <1>2, <1>3, <1>4 DEF Logged, Range, AcceptedNow, Accepted, PendingNow
<1> QED BY <1>2, <1>3, <1>4, <1>5 DEF Inv, PrivateTypeOK, StoredOK, RecordsAgree,
           LogIsRetained, OrderIsBounded, CheckpointAdvances, IdsOf

LEMMA QueueStep ==
    ASSUME Inv, NEW o \in Operations, Queues(o)
    PROVE  StoredOK' /\ CheckpointAdvances
<1>1. scope \in Scope /\ scope # NoScope /\ scope' = Queued(scope, o)
  BY DEF Queues
<1>2. /\ receipts' = receipts /\ delivered' = delivered /\ log' = log
  BY DEF Queues, RecordsStay
<1>3. \A p \in scope.pending : ~IsPermanentlyInvalid(scope.checkpoint, p)
  BY <1>1 DEF Inv, PrivateTypeOK, PendingNow
<1>4. /\ scope' \in Scope /\ scope' # NoScope
      /\ scope'.checkpoint = scope.checkpoint /\ scope'.accepted = scope.accepted
      /\ scope'.pending = scope.pending \cup {o} /\ Accepted(scope)' = Accepted(scope)
  BY <1>1, <1>3, QueuedScope DEF Accepted
<1>5. /\ o \notin Accepted(scope) /\ ~IsPermanentlyInvalid(scope.checkpoint, o)
      /\ \A a \in Accepted(scope) : a.id = o.id => a = o
  BY <1>1, VerdictFacts DEF Queues
<1>6. /\ PendingNow' = PendingNow \cup {o} /\ AcceptedNow' = AcceptedNow /\ Logged' = Logged
      /\ PendingNow = scope.pending /\ AcceptedNow = Accepted(scope)
  BY <1>1, <1>2, <1>4 DEF PendingNow, AcceptedNow, Logged
<1>7. IdsOf(PendingNow') \cap IdsOf(AcceptedNow') = {}
  <2>1. IdsOf(PendingNow) \cap IdsOf(AcceptedNow) = {}
    BY DEF Inv, RecordsAgree
  <2> QED BY <1>5, <1>6, <2>1 DEF IdsOf
<1>8. \A p \in PendingNow' : ~IsPermanentlyInvalid(scope'.checkpoint, p)
  BY <1>3, <1>4, <1>5, <1>6
<1>9. RecordsAgree'
  BY <1>2, <1>6, <1>7 DEF Inv, RecordsAgree
<1> QED BY <1>1, <1>2, <1>4, <1>6, <1>8, <1>9 DEF Inv, PrivateTypeOK, StoredOK,
           LogIsRetained, OrderIsBounded, CheckpointAdvances

(* An acceptance, taken apart: what the scope was, and what it becomes.    *)
LEMMA AcceptFacts ==
    ASSUME Inv, NEW o \in Operations, Accepts(o)
    PROVE  LET c == Candidate(scope.checkpoint, o)
           IN  /\ scope \in Scope /\ scope # NoScope /\ c \in Checkpoint
               /\ scope' \in Scope /\ scope' # NoScope
               /\ scope'.checkpoint = c /\ scope'.status = scope.status
               /\ scope.status = "active" /\ IsValid(scope, o) /\ ~MustWait(scope, o)
               /\ o.revision = scope.checkpoint.revision
               /\ scope'.pending = StillPossible(c, scope.pending \ {o})
               /\ PendingNow = scope.pending /\ PendingNow' = scope'.pending
               /\ AcceptedNow = Accepted(scope) /\ AcceptedNow' = Accepted(scope)'
               /\ AcceptedNow' \subseteq AcceptedNow \cup {o}
               /\ \A a \in AcceptedNow \cup {o} :
                      a.revision = c.revision \/ a.id \in DependencyIds(PendingNow')
                          => a \in AcceptedNow'
               /\ o \notin AcceptedNow
               /\ \A p \in AcceptedNow \cup PendingNow : p.id = o.id => p = o
               /\ log' \in Seq(Operations) /\ Len(log') = Len(log) + 1
               /\ Logged' = Logged \cup {o} /\ LastOf(log') = o
               /\ \A e \in scope'.accepted : e.at <= Len(log')
<1> DEFINE c == Candidate(scope.checkpoint, o)
<1>1. scope \in Scope /\ scope # NoScope /\ scope.checkpoint \in Checkpoint
  BY DEF Accepts, Scope
<1>2. c \in Checkpoint
  BY <1>1, CandidateType
<1>3. log \in Seq(Operations) /\ Len(log) \in Nat
  BY DEF Inv, PrivateTypeOK
<1>4. \A e \in scope.accepted : e.at <= Len(log)
  BY <1>1 DEF Inv, OrderIsBounded
<1>5. scope' = WithAccepted(scope, o, c)
  BY DEF Accepts
<1> HIDE DEF c
<1>6. /\ scope' \in Scope /\ scope' # NoScope
      /\ scope'.checkpoint = c /\ scope'.status = scope.status
      /\ scope'.pending = StillPossible(c, scope.pending \ {o})
      /\ Accepted(scope') \subseteq Accepted(scope) \cup {o}
      /\ \A a \in Accepted(scope) \cup {o} :
             a.revision = c.revision \/ a.id \in DependencyIds(scope'.pending)
                 => a \in Accepted(scope')
      /\ \A e \in scope'.accepted : e.at <= Len(log) + 1
  <2> DEFINE n == Len(log)
  <2>1. n \in Nat /\ \A e \in scope.accepted : e.at <= n
    BY <1>3, <1>4
  <2> HIDE DEF n
  <2>2. IsAfter(scope', scope, o, c, n)
    BY <1>1, <1>2, <1>5, <2>1, AfterAcceptance
  <2> QED BY <2>2 DEF n, IsAfter
<1>7. /\ o \notin Accepted(scope) /\ scope.status = "active" /\ IsValid(scope, o)
      /\ \A p \in Accepted(scope) \cup scope.pending : p.id = o.id => p = o
      /\ ~MustWait(scope, o)
  BY <1>1, VerdictFacts DEF Accepts
<1>8. o.revision = scope.checkpoint.revision
  <2>1. o \in Operation
    OBVIOUS
  <2>2. o.revision \in Nat /\ scope.checkpoint.revision \in Nat
    BY <1>1, <2>1 DEF Operation, Checkpoint
  <2> QED BY <1>7, <2>2 DEF IsValid, MustWait
<1>9. /\ PendingNow = scope.pending /\ PendingNow' = scope'.pending
      /\ AcceptedNow = Accepted(scope) /\ AcceptedNow' = Accepted(scope')
      /\ Accepted(scope)' = Accepted(scope')
  BY <1>1, <1>6 DEF PendingNow, AcceptedNow, Accepted
<1>10. /\ log' \in Seq(Operations) /\ Len(log') = Len(log) + 1
       /\ Logged' = Logged \cup {o} /\ LastOf(log') = o
  <2>1. log' = Append(log, o)
    BY DEF Accepts
  <2> QED BY <1>3, <2>1, RangeAppend DEF Logged
<1> QED BY <1>1, <1>2, <1>6, <1>7, <1>8, <1>9, <1>10 DEF c

LEMMA AcceptStep ==
    ASSUME Inv, NEW o \in Operations, Accepts(o)
    PROVE  StoredOK' /\ CheckpointAdvances
<1> DEFINE c == Candidate(scope.checkpoint, o)
<1>1. /\ scope \in Scope /\ scope # NoScope /\ scope' \in Scope /\ scope' # NoScope
      /\ scope'.checkpoint = c /\ c \in Checkpoint /\ scope.checkpoint \in Checkpoint
      /\ o.revision = scope.checkpoint.revision
  BY AcceptFacts DEF Scope
<1>2. /\ AcceptedNow' \subseteq AcceptedNow \cup {o}
      /\ \A a \in AcceptedNow \cup {o} : a.revision = c.revision => a \in AcceptedNow'
      /\ log' \in Seq(Operations) /\ Logged' = Logged \cup {o}
      /\ \A p \in AcceptedNow \cup PendingNow : p.id = o.id => p = o
  BY AcceptFacts
<1>3. /\ PendingNow' \subseteq PendingNow \ {o}
      /\ \A p \in PendingNow' : ~IsPermanentlyInvalid(scope'.checkpoint, p)
  <2>1. PendingNow = scope.pending /\ PendingNow' = StillPossible(c, scope.pending \ {o})
    BY AcceptFacts
  <2> QED BY <1>1, <2>1 DEF StillPossible
<1>4. /\ receipts = AcceptedNow /\ delivered = AcceptedNow /\ AcceptedNow \subseteq Logged
      /\ IdsOf(PendingNow) \cap IdsOf(AcceptedNow) = {}
  BY DEF Inv, RecordsAgree
<1>5. receipts' = AcceptedNow' /\ delivered' = AcceptedNow'
  <2>1. /\ receipts' = (receipts \cup {o}) \ ((Accepted(scope) \cup {o}) \ Accepted(scope'))
        /\ delivered' = (delivered \cup {o}) \ ((Accepted(scope) \cup {o}) \ Accepted(scope'))
    BY DEF Accepts, Kept
  <2>2. AcceptedNow = Accepted(scope) /\ AcceptedNow' = Accepted(scope')
    BY <1>1 DEF AcceptedNow, Accepted
  <2> QED BY <1>2, <1>4, <2>1, <2>2
<1>6. IdsOf(PendingNow') \cap IdsOf(AcceptedNow') = {}
  BY <1>2, <1>3, <1>4 DEF IdsOf
<1>7. RecordsAgree'
  BY <1>2, <1>4, <1>5, <1>6 DEF RecordsAgree
<1>8. receipts' \subseteq Operations /\ delivered' \subseteq Operations
  BY <1>2, <1>4, <1>5 DEF Inv, PrivateTypeOK
<1>9. /\ IsProposal(o) => c = scope.checkpoint
      /\ ~IsProposal(o) => c.revision = scope.checkpoint.revision + 1
      /\ c.revision \in Nat /\ scope.checkpoint.revision \in Nat
  BY <1>1, CandidateType DEF Checkpoint
<1>10. LogIsRetained'
  <2>1. \A a \in Logged : /\ a.revision <= scope.checkpoint.revision
                          /\ a.revision = scope.checkpoint.revision => a \in AcceptedNow
    BY <1>1 DEF Inv, LogIsRetained, AcceptedNow
  <2>2. \A a \in Logged : a.revision \in Nat
    <3>1. Logged \subseteq Operation
      <4>1. log \in Seq(Operations)
        BY DEF Inv, PrivateTypeOK
      <4> QED BY <4>1 DEF Logged, Range
    <3> QED BY <3>1 DEF Operation
  <2>3. scope.checkpoint.revision <= c.revision
    BY <1>9
  <2>4. \A a \in Logged : a.revision = c.revision => a \in AcceptedNow
    BY ONLY <1>9, <2>1, <2>2, <2>3
  <2>5. \A a \in Logged : a.revision <= c.revision
    BY ONLY <1>9, <2>1, <2>2, <2>3
  <2>6. o.revision <= c.revision
    BY ONLY <1>1, <2>3
  <2>7. \A a \in Logged' : a.revision <= c.revision
    BY <1>2, <2>5, <2>6
  <2>8. \A a \in Logged' : a.revision = c.revision => a \in AcceptedNow'
    BY <1>2, <2>4
  <2> QED BY <1>1, <2>7, <2>8 DEF LogIsRetained, AcceptedNow
<1>11. OrderIsBounded'
  BY AcceptFacts DEF OrderIsBounded
<1>12. CheckpointAdvances
  BY <1>1, <1>9 DEF CheckpointAdvances
<1> QED BY <1>1, <1>2, <1>3, <1>7, <1>8, <1>10, <1>11, <1>12 DEF StoredOK

LEMMA StoredStep ==
    ASSUME Inv, [Next]_vars
    PROVE  StoredOK' /\ CheckpointAdvances
BY StoredCases, StayStep, PinStep, QueueStep, AcceptStep

-----------------------------------------------------------------------------
(* What a step does to the handlers: each keeps the scope that it has read,*)
(* drops it, or reads the one of now.                                      *)
HandlerKeeps(v) ==
    \/ handlers'[v].scope \in {handlers[v].scope, NoScope}
    \/ handlers'[v].scope = scope /\ scope' = scope

HandlersMove ==
    /\ handlers' \in [Workers -> Handler]
    /\ HandlersHold'
    /\ \A v \in Workers : HandlerKeeps(v)

(* One handler moves; the others are as they were.                         *)
LEMMA OneHandlerMoves ==
    ASSUME Inv, CheckpointAdvances, NEW w \in Workers, NEW h \in Handler,
           handlers' = [handlers EXCEPT ![w] = h],
           h.stage # "idle" => h.op \in Operations,
           h.stage \in Reading => h.scope # NoScope,
           h.stage \notin {"idle", "routing", "authorizing"} => scope # NoScope,
           \/ h.scope \in {handlers[w].scope, NoScope}
           \/ h.scope = scope /\ scope' = scope
    PROVE  HandlersMove
<1>1. handlers \in [Workers -> Handler]
  BY DEF Inv, PrivateTypeOK
<1>2. /\ handlers' \in [Workers -> Handler] /\ handlers'[w] = h
      /\ \A v \in Workers \ {w} : handlers'[v] = handlers[v]
  BY <1>1
<1>3. scope # NoScope => scope' # NoScope
  BY DEF CheckpointAdvances
<1>4. HandlersHold'
  BY <1>2, <1>3 DEF Inv, HandlersHold
<1>5. \A v \in Workers : HandlerKeeps(v)
  BY <1>2 DEF HandlerKeeps
<1> QED BY <1>2, <1>4, <1>5 DEF HandlersMove

LEMMA HandlersStay ==
    ASSUME Inv, CheckpointAdvances, handlers' = handlers
    PROVE  HandlersMove
BY DEF Inv, PrivateTypeOK, HandlersHold, HandlersMove, HandlerKeeps, CheckpointAdvances

LEMMA HandlerEnds ==
    ASSUME Inv, CheckpointAdvances, NEW w \in Workers, Ends(w)
    PROVE  HandlersMove
<1>1. Idle \in Handler /\ Idle.stage = "idle" /\ Idle.scope = NoScope
  BY DEF Idle, Handler, Stages
<1> QED BY <1>1, OneHandlerMoves DEF Ends, Reading

(* A handler that goes on to a stage, with what it has read so far.        *)
LEMMA HandlerGoes ==
    ASSUME Inv, CheckpointAdvances, NEW w \in Workers, NEW stage \in Stages \ {"idle"},
           handlers[w].stage # "idle", Goes(w, stage),
           stage \in Reading => handlers[w].scope # NoScope,
           stage \notin {"routing", "authorizing"} => scope # NoScope
    PROVE  HandlersMove
<1> DEFINE h == [handlers[w] EXCEPT !.stage = stage]
<1>1. handlers \in [Workers -> Handler]
  BY DEF Inv, PrivateTypeOK
<1>2. handlers[w] \in Handler
  BY <1>1
<1>3. /\ h \in Handler /\ h.stage = stage
      /\ h.op = handlers[w].op /\ h.scope = handlers[w].scope
  BY <1>2 DEF Handler
<1>4. handlers[w].op \in Operations
  BY DEF Inv, HandlersHold
<1>5. handlers' = [handlers EXCEPT ![w] = h]
  BY <1>1 DEF Goes
<1> HIDE DEF h
<1> QED BY <1>3, <1>4, <1>5, OneHandlerMoves

LEMMA HandlerQuarantines ==
    ASSUME Inv, CheckpointAdvances, NEW w \in Workers,
           handlers[w].stage # "idle", QuarantinesOrEnds(w, handlers[w].op)
    PROVE  HandlersMove
<1>1. CASE ReusesReceiptOf(handlers[w].op)
  <2>1. scope # NoScope
    <3>1. receipts # {}
      BY <1>1 DEF ReusesReceiptOf
    <3>2. receipts = AcceptedNow
      BY DEF Inv, RecordsAgree
    <3> QED BY <3>1, <3>2 DEF AcceptedNow
  <2>2. Goes(w, "quarantining")
    BY <1>1 DEF QuarantinesOrEnds
  <2> QED BY <2>1, <2>2, HandlerGoes DEF Stages, Reading
<1>2. CASE ~ReusesReceiptOf(handlers[w].op)
  BY <1>2, HandlerEnds DEF QuarantinesOrEnds
<1> QED BY <1>1, <1>2

(* A handler that begins with an operation, and reads the scope or not.    *)
LEMMA HandlerBegins ==
    ASSUME Inv, CheckpointAdvances, NEW w \in Workers, NEW o \in Operations,
           NEW stage \in Stages, NEW s \in {NoScope, scope}, scope' = scope,
           handlers' = [handlers EXCEPT ![w] =
                            [Idle EXCEPT !.stage = stage, !.op = o, !.scope = s]],
           stage \in Reading => s # NoScope,
           stage \notin {"routing", "authorizing"} => scope # NoScope
    PROVE  HandlersMove
<1> DEFINE h == [Idle EXCEPT !.stage = stage, !.op = o, !.scope = s]
<1>1. s \in Scope \cup {NoScope}
  BY DEF Inv, PrivateTypeOK
<1>2. h \in Handler /\ h.stage = stage /\ h.op = o /\ h.scope = s
  <2>1. Idle \in Handler
    BY DEF Idle, Handler, Stages
  <2> HIDE DEF Idle
  <2> QED BY <1>1, <2>1 DEF Handler
<1>3. handlers' = [handlers EXCEPT ![w] = h]
  OBVIOUS
<1> HIDE DEF h
<1> QED BY <1>2, <1>3, OneHandlerMoves

LEMMA HandlersStep ==
    ASSUME Inv, [Next]_vars
    PROVE  HandlersMove
<1>0. CheckpointAdvances
  BY StoredStep
<1>1. ASSUME NEW w \in Workers, NEW o \in Operations, AskChallenge(w, o)
      PROVE  HandlersMove
  <2>1. /\ scope # NoScope /\ scope' = scope
        /\ handlers' = [handlers EXCEPT ![w] =
                            [Idle EXCEPT !.stage = "asking", !.op = o, !.scope = scope]]
    BY <1>1 DEF AskChallenge, stored
  <2> QED BY <1>0, <2>1, HandlerBegins DEF Stages, Reading
<1>2. ASSUME NEW w \in Workers, NEW o \in Operations, NEW stage \in {"routing", "quarantining"},
             Begins(w, stage, o), scope' = scope, stage = "quarantining" => scope # NoScope
      PROVE  HandlersMove
  <2>1. handlers' = [handlers EXCEPT ![w] =
                         [Idle EXCEPT !.stage = stage, !.op = o, !.scope = NoScope]]
    <3>1. Idle \in Handler /\ Idle.scope = NoScope
      BY DEF Idle, Handler, Stages
    <3>2. [Idle EXCEPT !.stage = stage, !.op = o]
             = [Idle EXCEPT !.stage = stage, !.op = o, !.scope = NoScope]
      BY <3>1 DEF Handler
    <3> QED BY <1>2, <3>2 DEF Begins
  <2> QED BY <1>0, <1>2, <2>1, HandlerBegins DEF Stages, Reading
<1>3. ASSUME NEW w \in Workers, NEW o \in Operations, Submit(w, o) \/ SubmitReused(w, o)
      PROVE  HandlersMove
  BY <1>2, <1>3 DEF Submit, SubmitReused, stored
<1>4. ASSUME NEW w \in Workers,
             \/ ReserveChild(w) \/ IssueWithoutChild(w) \/ CommitPending(w)
             \/ CommitAcceptance(w) \/ CommitConflict(w) \/ Quarantine(w) \/ Refuse(w)
      PROVE  HandlersMove
  BY <1>0, <1>4, HandlerEnds DEF ReserveChild, IssueWithoutChild, CommitPending,
     CommitAcceptance, CommitConflict, Quarantine, Refuse
<1>5. ASSUME NEW w \in Workers, Route(w) PROVE HandlersMove
  BY <1>0, <1>5, HandlerGoes DEF Route, HandlerAt, Stages, Reading
<1>6. ASSUME NEW w \in Workers, RouteSibling(w) PROVE HandlersMove
  <2>1. scope # NoScope
    BY <1>6 DEF RouteSibling, LeftBehind
  <2>2. handlers[w].stage = "routing" /\ (Goes(w, "isolating") \/ Ends(w))
    BY <1>6 DEF RouteSibling, HandlerAt
  <2> QED BY <1>0, <2>1, <2>2, HandlerGoes, HandlerEnds DEF Stages, Reading
<1>7. ASSUME NEW w \in Workers, Authorize(w) PROVE HandlersMove
  <2>1. handlers[w].stage = "authorizing" /\ scope' = scope
    BY <1>7 DEF Authorize, HandlerAt, stored
  <2>2. CASE QuarantinesOrEnds(w, handlers[w].op)
    BY <1>0, <2>1, <2>2, HandlerQuarantines
  <2>3. CASE /\ scope # NoScope
             /\ handlers' = [handlers EXCEPT ![w].stage = "comparing", ![w].scope = scope]
    <3> DEFINE h == [handlers[w] EXCEPT !.stage = "comparing", !.scope = scope]
    <3>1. handlers \in [Workers -> Handler] /\ scope \in Scope
      BY <2>3 DEF Inv, PrivateTypeOK
    <3>2. handlers[w] \in Handler /\ handlers[w].op \in Operations
      BY <2>1, <3>1 DEF Inv, HandlersHold
    <3>3. h \in Handler /\ h.op = handlers[w].op /\ h.scope = scope /\ h.stage = "comparing"
      BY <3>1, <3>2 DEF Handler, Stages
    <3>4. handlers' = [handlers EXCEPT ![w] = h]
      BY <2>3, <3>1
    <3> HIDE DEF h
    <3> QED BY <1>0, <2>1, <2>3, <3>2, <3>3, <3>4, OneHandlerMoves
  <2> QED BY <1>7, <2>2, <2>3 DEF Authorize
<1>8. ASSUME NEW w \in Workers, Compare(w) PROVE HandlersMove
  <2>1. /\ handlers[w].stage = "comparing" /\ scope # NoScope /\ handlers[w].scope # NoScope
    BY <1>8 DEF Compare, HandlerAt, Inv, HandlersHold, Reading
  <2>2. QuarantinesOrEnds(w, handlers[w].op) \/ Goes(w, "proving")
    BY <1>8 DEF Compare
  <2> QED BY <1>0, <2>1, <2>2, HandlerQuarantines, HandlerGoes DEF Stages
<1>9. ASSUME NEW w \in Workers, Prove(w) PROVE HandlersMove
  <2>1. /\ handlers[w].stage = "proving" /\ scope # NoScope /\ handlers[w].scope # NoScope
    BY <1>9 DEF Prove, HandlerAt, Inv, HandlersHold, Reading
  <2>2. \/ Goes(w, "projecting") \/ Goes(w, "queueing")
        \/ Goes(w, "quarantining") \/ Ends(w)
    BY <1>9 DEF Prove
  <2> QED BY <1>0, <2>1, <2>2, HandlerGoes, HandlerEnds DEF Stages
<1>10. ASSUME NEW w \in Workers, Project(w) PROVE HandlersMove
  <2>1. /\ handlers[w].stage = "projecting" /\ scope # NoScope /\ handlers[w].scope # NoScope
    BY <1>10 DEF Project, HandlerAt, Inv, HandlersHold, Reading
  <2>2. handlers' = [handlers EXCEPT ![w].stage = "committing",
                                     ![w].projection = projection]
    BY <1>10 DEF Project
  <2> DEFINE h == [handlers[w] EXCEPT !.stage = "committing", !.projection = projection]
  <2>3. handlers \in [Workers -> Handler] /\ projection \in Seq(Operations)
    BY DEF Inv, PrivateTypeOK
  <2>4. handlers[w] \in Handler /\ handlers[w].op \in Operations
    BY <2>1, <2>3 DEF Inv, HandlersHold
  <2>5. /\ h \in Handler /\ h.op = handlers[w].op /\ h.scope = handlers[w].scope
        /\ h.stage = "committing"
    BY <2>3, <2>4 DEF Handler, Stages
  <2>6. handlers' = [handlers EXCEPT ![w] = h]
    BY <2>2, <2>3
  <2> HIDE DEF h
  <2> QED BY <1>0, <2>1, <2>4, <2>5, <2>6, OneHandlerMoves
<1>11. CASE Restart
  <2>1. handlers' = [w \in Workers |-> Idle]
    BY <1>11 DEF Restart
  <2>2. Idle \in Handler /\ Idle.stage = "idle" /\ Idle.scope = NoScope
    BY DEF Idle, Handler, Stages
  <2> QED BY <2>1, <2>2 DEF HandlersMove, HandlersHold, HandlerKeeps, Reading
<1>12. CASE \/ \E g \in Geneses : Provision(g)
            \/ \E x \in challenges : ExpireChallenge(x)
            \/ UNCHANGED vars
  BY <1>0, <1>12, HandlersStay DEF Provision, ExpireChallenge, vars
<1> QED BY <1>1, <1>3, <1>4, <1>5, <1>6, <1>7, <1>8, <1>9, <1>10, <1>11, <1>12
        DEF Next, Handle

(* What is left: the records beside the scope, and the challenges.         *)
OthersOK ==
    /\ reservations \subseteq [op : Operations, after : Checkpoint]
    /\ projection \in Seq(Operations) /\ mls \in Operations \cup {NoOne}
    /\ challenges \subseteq [op : Operations, head : Heads, revision : Nat]
    /\ claims \subseteq Operations

LEMMA ReadScope ==
    ASSUME Inv, NEW w \in Workers, handlers[w].stage \in Reading
    PROVE  /\ handlers[w].op \in Operations /\ handlers[w].scope \in Scope
           /\ handlers[w].scope.checkpoint \in Checkpoint
           /\ handlers[w].scope.checkpoint.head \in Heads
           /\ handlers[w].scope.checkpoint.revision \in Nat
           /\ handlers[w].projection \in Seq(Operations)
<1>1. handlers[w] \in Handler
  BY DEF Inv, PrivateTypeOK
<1>2. handlers[w].stage # "idle" /\ handlers[w].scope # NoScope
  BY DEF Inv, HandlersHold, Reading
<1>3. handlers[w].op \in Operations /\ handlers[w].scope \in Scope
  BY <1>1, <1>2 DEF Inv, HandlersHold, Handler
<1> QED BY <1>1, <1>3 DEF Handler, Scope, Checkpoint

LEMMA OthersStep ==
    ASSUME Inv, [Next]_vars
    PROVE  OthersOK'
<1> USE DEF OthersOK
<1>0. OthersOK
  BY DEF Inv, PrivateTypeOK
<1>1. ASSUME NEW g \in Geneses, Provision(g) PROVE OthersOK'
  BY <1>0, <1>1 DEF Provision
<1>2. ASSUME NEW w \in Workers, NEW o \in Operations,
             AskChallenge(w, o) \/ Submit(w, o) \/ SubmitReused(w, o)
      PROVE  OthersOK'
  BY <1>0, <1>2 DEF AskChallenge, Submit, SubmitReused, stored
<1>3. ASSUME NEW w \in Workers, ReserveChild(w) PROVE OthersOK'
  <2>1. handlers[w].stage \in Reading
    BY <1>3 DEF ReserveChild, HandlerAt, Reading
  <2> QED BY <1>0, <1>3, <2>1, ReadScope DEF ReserveChild, Issued
<1>4. ASSUME NEW w \in Workers, IssueWithoutChild(w) PROVE OthersOK'
  <2>1. handlers[w].stage \in Reading
    BY <1>4 DEF IssueWithoutChild, HandlerAt, Reading
  <2> QED BY <1>0, <1>4, <2>1, ReadScope DEF IssueWithoutChild, Issued, stored
<1>5. ASSUME NEW w \in Workers,
             \/ Route(w) \/ RouteSibling(w) \/ Authorize(w) \/ Compare(w)
             \/ Prove(w) \/ Project(w) \/ Refuse(w)
      PROVE  OthersOK'
  BY <1>0, <1>5 DEF Route, RouteSibling, Authorize, Compare, Prove, Project, Refuse, stored
<1>6. ASSUME NEW w \in Workers, CommitPending(w) PROVE OthersOK'
  BY <1>0, <1>6 DEF CommitPending
<1>7. ASSUME NEW w \in Workers, CommitAcceptance(w) PROVE OthersOK'
  <2> DEFINE o == handlers[w].op
             c == handlers[w].scope.checkpoint
  <2>1. handlers[w].stage \in Reading
    BY <1>7 DEF CommitAcceptance, HandlerAt, Reading
  <2>2. o \in Operations /\ c \in Checkpoint /\ handlers[w].projection \in Seq(Operations)
    BY <2>1, ReadScope
  <2>3. projection' \in Seq(Operations)
    <3>1. projection' = Shown(o, handlers[w].projection)
      BY <1>7 DEF CommitAcceptance
    <3> QED BY <2>2, <3>1, RangeAppend DEF Shown
  <2>4. challenges' = challenges
    BY <1>7 DEF CommitAcceptance
  <2>5. CASE IsProposal(o)
    <3>1. UNCHANGED <<mls, reservations, claims>>
      BY <1>7, <2>5 DEF CommitAcceptance
    <3> QED BY <1>0, <2>3, <2>4, <3>1
  <2>6. CASE ~IsProposal(o)
    <3>1. /\ mls' = o /\ claims' = claims \cup {o}
          /\ reservations' = (reservations \ ReservationsOf(c.head))
                                \cup {[op |-> o, after |-> c]}
      BY <1>7, <2>6 DEF CommitAcceptance
    <3> QED BY <1>0, <2>2, <2>3, <2>4, <3>1
  <2> QED BY <2>5, <2>6
<1>8. ASSUME NEW w \in Workers, CommitConflict(w) PROVE OthersOK'
  <2>1. handlers[w].stage \in Reading
    BY <1>8 DEF CommitConflict, HandlerAt, Reading
  <2> QED BY <1>0, <1>8, <2>1, ReadScope DEF CommitConflict
<1>9. ASSUME NEW w \in Workers, Quarantine(w) PROVE OthersOK'
  <2>1. handlers[w].op \in Operations
    BY <1>9 DEF Quarantine, Inv, HandlersHold
  <2> QED BY <1>0, <1>9, <2>1 DEF Quarantine
<1>10. ASSUME NEW x \in challenges, ExpireChallenge(x) PROVE OthersOK'
  BY <1>0, <1>10 DEF ExpireChallenge, stored
<1>11. CASE Restart
  BY <1>0, <1>11 DEF Restart, stored
<1>12. CASE UNCHANGED vars
  BY <1>0, <1>12 DEF vars, stored
<1> QED BY <1>1, <1>2, <1>3, <1>4, <1>5, <1>6, <1>7, <1>8, <1>9, <1>10, <1>11, <1>12
        DEF Next, Handle

-----------------------------------------------------------------------------
LEMMA InvInit == Init => Inv
<1> SUFFICES ASSUME Init PROVE Inv
  OBVIOUS
<1>1. /\ scope = NoScope /\ receipts = {} /\ delivered = {} /\ log = <<>>
      /\ handlers = [w \in Workers |-> Idle]
  BY DEF Init
<1>2. Idle \in Handler /\ Idle.stage = "idle" /\ Idle.scope = NoScope
  BY DEF Idle, Handler, Stages
<1>3. handlers \in [Workers -> Handler] /\ HandlersHold /\ HandlersAreBehind
  BY <1>1, <1>2 DEF HandlersHold, HandlersAreBehind, Reading
<1>4. PendingNow = {} /\ AcceptedNow = {} /\ Logged = {} /\ log \in Seq(Operations)
  BY <1>1 DEF PendingNow, AcceptedNow, Logged, Range
<1>5. RecordsAgree /\ LogIsRetained /\ OrderIsBounded
  BY <1>1, <1>4 DEF RecordsAgree, LogIsRetained, OrderIsBounded, IdsOf
<1>6. PrivateTypeOK
  BY <1>1, <1>3, <1>4 DEF PrivateTypeOK, Init
<1> QED BY <1>3, <1>5, <1>6 DEF Inv

(* A checkpoint that was read stays behind, as the one of now advances.    *)
LEMMA BehindStep ==
    ASSUME Inv, StoredOK', CheckpointAdvances, HandlersMove
    PROVE  HandlersAreBehind'
<1> SUFFICES ASSUME NEW w \in Workers, handlers'[w].scope # NoScope
             PROVE  /\ scope' # NoScope
                    /\ handlers'[w].scope.checkpoint.revision <= scope'.checkpoint.revision
                    /\ handlers'[w].scope.checkpoint.revision = scope'.checkpoint.revision
                           => handlers'[w].scope.checkpoint = scope'.checkpoint
  BY DEF HandlersAreBehind
<1> DEFINE c == handlers'[w].scope.checkpoint
<1>0. handlers'[w].scope \in Scope /\ c.revision \in Nat
  <2>1. handlers'[w] \in Handler
    BY DEF HandlersMove
  <2>2. handlers'[w].scope \in Scope
    BY <2>1 DEF Handler
  <2> QED BY <2>2 DEF Scope, Checkpoint
<1>1. CASE handlers'[w].scope = scope /\ scope' = scope
  BY <1>0, <1>1
<1>2. CASE handlers'[w].scope = handlers[w].scope
  <2>1. /\ scope # NoScope /\ c.revision <= scope.checkpoint.revision
        /\ c.revision = scope.checkpoint.revision => c = scope.checkpoint
    BY <1>2 DEF Inv, HandlersAreBehind
  <2>2. scope' # NoScope /\ \/ scope'.checkpoint = scope.checkpoint
                            \/ scope'.checkpoint.revision > scope.checkpoint.revision
    BY <2>1 DEF CheckpointAdvances
  <2>3. scope.checkpoint.revision \in Nat /\ scope'.checkpoint.revision \in Nat
    <3>1. scope \in Scope /\ scope' \in Scope
      BY <2>1, <2>2 DEF Inv, PrivateTypeOK, StoredOK
    <3> QED BY <3>1 DEF Scope, Checkpoint
  <2> QED BY <1>0, <2>1, <2>2, <2>3
<1> QED BY <1>1, <1>2 DEF HandlersMove, HandlerKeeps

LEMMA InvStep == Inv /\ [Next]_vars => Inv'
<1> SUFFICES ASSUME Inv, [Next]_vars PROVE Inv'
  OBVIOUS
<1>1. StoredOK' /\ CheckpointAdvances /\ HandlersMove /\ OthersOK'
  BY StoredStep, HandlersStep, OthersStep
<1>2. HandlersAreBehind'
  BY <1>1, BehindStep
<1>3. PrivateTypeOK'
  BY <1>1 DEF PrivateTypeOK, StoredOK, OthersOK, HandlersMove
<1> QED BY <1>1, <1>2, <1>3 DEF Inv, StoredOK, HandlersMove

(* Inv holds of every behaviour: the locked sections of the unit of work   *)
(* are what keeps the records of a scope and the handlers' reads together. *)
THEOREM InvTheorem == Spec => []Inv
BY InvInit, InvStep, PTL DEF Spec

(* PrivateTypeOK holds of every behaviour: types of the records, and       *)
(* nothing waits that the checkpoint rules out (prunePending).             *)
THEOREM PrivateTypeTheorem == Spec => []PrivateTypeOK
<1>1. Inv => PrivateTypeOK
  BY DEF Inv
<1> QED BY <1>1, InvTheorem, PTL

(* RecordsAgree: the retained operations are the ones with a receipt, a    *)
(* marker and an outbox row (acceptanceOperations, retiredRecordOperations).*)
THEOREM RecordsTheorem == Spec => []RecordsAgree
<1>1. Inv => RecordsAgree
  BY DEF Inv
<1> QED BY <1>1, InvTheorem, PTL

(* NeededAreKept: what a waiting operation needs is not compacted          *)
(* (retainedAccepted).                                                     *)
THEOREM NeededTheorem == Spec => NeededAreKept
<1> DEFINE Step == \A a \in AcceptedNow \ AcceptedNow' : a.id \notin DependencyIds(PendingNow')
<1>1. Inv /\ [Next]_vars => [Step]_vars
  <2> SUFFICES ASSUME Inv, [Next]_vars PROVE Step
    OBVIOUS
  <2>1. ASSUME StaysOrFreezes PROVE Step
    <3>1. CASE scope' = scope
      BY <3>1 DEF AcceptedNow
    <3>2. CASE scope # NoScope /\ scope' = Frozen(scope)
      <4>1. scope \in Scope
        BY <3>2 DEF Inv, PrivateTypeOK
      <4> QED BY <3>2, <4>1, FrozenScope DEF AcceptedNow, Accepted
    <3> QED BY <2>1, <3>1, <3>2 DEF StaysOrFreezes
  <2>2. ASSUME Pins PROVE Step
    BY <2>2 DEF Pins, AcceptedNow
  <2>3. ASSUME NEW o \in Operations, Queues(o) PROVE Step
    <3>1. scope \in Scope /\ scope # NoScope /\ scope' = Queued(scope, o)
      BY <2>3 DEF Queues
    <3>2. \A p \in scope.pending : ~IsPermanentlyInvalid(scope.checkpoint, p)
      BY <3>1 DEF Inv, PrivateTypeOK, PendingNow
    <3> QED BY <3>1, <3>2, QueuedScope DEF AcceptedNow, Accepted
  <2>4. ASSUME NEW o \in Operations, Accepts(o) PROVE Step
    BY <2>4, AcceptFacts
  <2> QED BY <2>1, <2>2, <2>3, <2>4, StoredCases
<1> QED BY <1>1, InvTheorem, PTL DEF Spec, NeededAreKept

(* WaitingLeaveForAReason: only an acceptance takes waiting operations out,*)
(* its own or ones it rules out for good (compactAccepted, prunePending).  *)
THEOREM WaitingTheorem == Spec => WaitingLeaveForAReason
<1> DEFINE Step == \A p \in PendingNow \ PendingNow' :
                       \/ p \in Logged'
                       \/ IsPermanentlyInvalid(scope'.checkpoint, p)
<1>1. Inv /\ [Next]_vars => [Step]_vars
  <2> SUFFICES ASSUME Inv, [Next]_vars PROVE Step
    OBVIOUS
  <2>1. ASSUME StaysOrFreezes PROVE Step
    <3>1. CASE scope' = scope
      BY <3>1 DEF PendingNow
    <3>2. CASE scope # NoScope /\ scope' = Frozen(scope)
      <4>1. scope \in Scope
        BY <3>2 DEF Inv, PrivateTypeOK
      <4>2. scope' # NoScope /\ scope'.pending = scope.pending
        BY <3>2, <4>1, FrozenScope
      <4> QED BY <3>2, <4>2 DEF PendingNow
    <3> QED BY <2>1, <3>1, <3>2 DEF StaysOrFreezes
  <2>2. ASSUME Pins PROVE Step
    BY <2>2 DEF Pins, PendingNow
  <2>3. ASSUME NEW o \in Operations, Queues(o) PROVE Step
    <3>1. scope \in Scope /\ scope # NoScope /\ scope' = Queued(scope, o)
      BY <2>3 DEF Queues
    <3>2. \A p \in scope.pending : ~IsPermanentlyInvalid(scope.checkpoint, p)
      BY <3>1 DEF Inv, PrivateTypeOK, PendingNow
    <3>3. scope' # NoScope /\ scope.pending \subseteq scope'.pending
      BY <3>1, <3>2, QueuedScope
    <3> QED BY <3>1, <3>3 DEF PendingNow
  <2>4. ASSUME NEW o \in Operations, Accepts(o) PROVE Step
    <3> DEFINE c == Candidate(scope.checkpoint, o)
    <3>1. /\ scope'.checkpoint = c /\ PendingNow' = StillPossible(c, PendingNow \ {o})
          /\ Logged' = Logged \cup {o}
      BY <2>4, AcceptFacts
    <3> HIDE DEF c
    <3> QED BY <3>1 DEF StillPossible
  <2> QED BY <2>1, <2>2, <2>3, <2>4, StoredCases
<1> QED BY <1>1, InvTheorem, PTL DEF Spec, WaitingLeaveForAReason

-----------------------------------------------------------------------------
(* The refinement: pinning, freezing and acceptance are the ledger's       *)
(* steps, everything else leaves the ledger as it is.                      *)
LEMMA SameCandidate ==
    \A c, o : Ledger!Candidate(c, o) = Candidate(c, o)
BY DEF Ledger!Candidate, Candidate, Ledger!IsProposal, IsProposal, Ledger!Successor,
       Successor, Ledger!AdmittedAfter, AdmittedAfter

LEMMA SameIds == \A ops : Ledger!IdsOf(ops) = IdsOf(ops)
BY DEF Ledger!IdsOf, IdsOf

Status == IF scope = NoScope THEN "absent" ELSE scope.status
Policy == IF scope = NoScope THEN GenesisCheckpoint ELSE scope.checkpoint

LedgerStays == Status' = Status /\ Policy' = Policy /\ Logged' = Logged

LEMMA LedgerAccepts ==
    ASSUME Inv, NEW o \in Operations, Accepts(o)
    PROVE  Ledger!Accept(o)
<1> DEFINE c == Candidate(scope.checkpoint, o)
<1>1. /\ scope \in Scope /\ scope # NoScope /\ scope' # NoScope
      /\ scope'.checkpoint = c /\ scope'.status = scope.status /\ scope.status = "active"
      /\ IsValid(scope, o) /\ ~MustWait(scope, o)
      /\ o.revision = scope.checkpoint.revision
      /\ AcceptedNow = Accepted(scope) /\ Logged' = Logged \cup {o}
      /\ o \notin AcceptedNow /\ \A p \in AcceptedNow : p.id = o.id => p = o
  BY AcceptFacts
<1>2. MayAccept(scope, o, c)
  BY DEF Accepts
<1> HIDE DEF c
<1>3. AcceptedNow \subseteq Logged
  BY DEF Inv, RecordsAgree
<1>4. \A a \in Logged : a.revision = o.revision => a.id # o.id
  <2>1. \A a \in Logged : a.revision = scope.checkpoint.revision => a \in AcceptedNow
    BY <1>1 DEF Inv, LogIsRetained
  <2> QED BY <1>1, <2>1
<1>5. o.parent = scope.checkpoint.head
  <2>1. o.revision \in Nat
    <3>1. o \in Operation
      OBVIOUS
    <3> QED BY <3>1 DEF Operation
  <2>2. CASE IsProposal(o)
    BY <1>1, <2>1, <2>2 DEF IsValid
  <2>3. CASE ~IsProposal(o)
    BY <1>2, <2>3 DEF MayAccept, IsSuccessor
  <2> QED BY <2>2, <2>3
<1>6. o.author \in scope.checkpoint.admitted \ scope.checkpoint.revoked
  BY <1>1 DEF IsValid
<1>7. o.previous \subseteq IdsOf(Logged)
  BY <1>1, <1>3 DEF MustWait, IdsOf
<1>8. o.kind = "commit" =>
          \E p \in Logged : /\ Ledger!IsProposal(p) /\ p.change = o.change
                            /\ o.proposal = {p.id} /\ p.id \in o.previous
  BY <1>1, <1>2, <1>3 DEF MayAccept, CommitsProposal, Ledger!IsProposal, IsProposal
<1>9. /\ Status = "active" /\ Status' = Status
      /\ Policy = scope.checkpoint /\ Policy' = Ledger!Candidate(Policy, o)
  BY <1>1, SameCandidate DEF Status, Policy, c
<1> QED BY <1>1, <1>4, <1>5, <1>6, <1>7, <1>8, <1>9, SameIds DEF Ledger!Accept, Status, Policy

LEMMA LedgerStep ==
    ASSUME Inv, [Next]_vars
    PROVE  [Ledger!LedgerNext]_(Ledger!ledgerVars)
<1>1. ASSUME StaysOrFreezes PROVE LedgerStays \/ Ledger!Freeze
  <2>1. Logged' = Logged
    BY <1>1 DEF StaysOrFreezes, RecordsStay, Logged
  <2>2. CASE scope' = scope
    BY <2>1, <2>2 DEF LedgerStays, Status, Policy
  <2>3. CASE scope # NoScope /\ scope' = Frozen(scope)
    <3>1. scope \in Scope /\ scope.status \in {"active", "frozen"}
      BY <2>3 DEF Inv, PrivateTypeOK, Scope
    <3>2. scope' # NoScope /\ scope'.checkpoint = scope.checkpoint /\ scope'.status = "frozen"
      BY <2>3, <3>1, FrozenScope
    <3>3. CASE scope.status = "frozen"
      BY <2>1, <2>3, <3>2, <3>3 DEF LedgerStays, Status, Policy
    <3>4. CASE scope.status = "active"
      BY <2>1, <2>3, <3>2, <3>4 DEF Ledger!Freeze
    <3> QED BY <3>1, <3>3, <3>4
  <2> QED BY <1>1, <2>2, <2>3 DEF StaysOrFreezes
<1>2. ASSUME Pins PROVE Ledger!Pin
  <2>1. PICK g \in Geneses : scope' = PinnedScope(g)
    BY <1>2 DEF Pins
  <2>2. scope = NoScope /\ Logged' = Logged
    BY <1>2 DEF Pins, RecordsStay, Logged
  <2>3. /\ scope' # NoScope /\ scope'.status = "active"
        /\ scope'.checkpoint = GenesisCheckpoint
    BY <2>1, GenesisType DEF PinnedScope
  <2>4. GenesisCheckpoint' = GenesisCheckpoint
    BY DEF GenesisCheckpoint
  <2> QED BY <2>2, <2>3, <2>4 DEF Ledger!Pin
<1>3. ASSUME NEW o \in Operations, Queues(o) PROVE LedgerStays
  <2>1. scope \in Scope /\ scope # NoScope /\ scope' = Queued(scope, o)
    BY <1>3 DEF Queues
  <2>2. \A p \in scope.pending : ~IsPermanentlyInvalid(scope.checkpoint, p)
    BY <2>1 DEF Inv, PrivateTypeOK, PendingNow
  <2>3. /\ scope' # NoScope /\ scope'.checkpoint = scope.checkpoint
        /\ scope'.status = scope.status
    BY <2>1, <2>2, QueuedScope
  <2>4. Logged' = Logged
    BY <1>3 DEF Queues, RecordsStay, Logged
  <2> QED BY <2>1, <2>3, <2>4 DEF LedgerStays, Status, Policy
<1>4. ASSUME NEW o \in Operations, Accepts(o) PROVE Ledger!Accept(o)
  BY <1>4, LedgerAccepts
<1>5. LedgerStays => UNCHANGED Ledger!ledgerVars
  BY DEF LedgerStays, Status, Policy, Ledger!ledgerVars
<1> QED BY <1>1, <1>2, <1>3, <1>4, <1>5, StoredCases DEF Ledger!LedgerNext

(* ImplementsLedger: handlers that read long before they write accept what *)
(* a ledger accepts that handles one operation at a time (rebaseAcceptance,*)
(* matchesExpected).                                                       *)
THEOREM LedgerTheorem == Spec => ImplementsLedger
<1>1. Init => Ledger!LedgerInit
  BY DEF Init, Ledger!LedgerInit, Logged, Range
<1>2. Inv /\ [Next]_vars => [Ledger!LedgerNext]_(Ledger!ledgerVars)
  BY LedgerStep
<1> QED BY <1>1, <1>2, InvTheorem, PTL DEF Spec, ImplementsLedger, Ledger!LedgerSpec
-----------------------------------------------------------------------------
(* Reservations and claims: as long as the scope is not frozen, whoever    *)
(* was verified at a head made the claim that is reserved there.           *)
ReservedAs(x) ==
    /\ \E r \in reservations : r.after.head = x.parent
    /\ \A r \in reservations : r.after.head = x.parent => IsSameClaim(r.op, x)

ClaimsAreReserved ==
    IF scope = NoScope THEN claims = {}
    ELSE scope.status # "frozen" => \A x \in claims : ReservedAs(x)

(* A scope stays, and a frozen one stays frozen.                           *)
LEMMA StatusStep ==
    ASSUME Inv, [Next]_vars, scope # NoScope
    PROVE  /\ scope' # NoScope
           /\ scope.status = "frozen" => scope'.status = "frozen"
<1>1. scope \in Scope
  BY DEF Inv, PrivateTypeOK
<1>2. scope' # NoScope
  BY StoredStep DEF CheckpointAdvances
<1>3. ASSUME StaysOrFreezes PROVE scope.status = "frozen" => scope'.status = "frozen"
  BY <1>1, <1>3, FrozenScope DEF StaysOrFreezes
<1>4. ASSUME NEW o \in Operations, Queues(o) PROVE scope'.status = scope.status
  <2>1. \A p \in scope.pending : ~IsPermanentlyInvalid(scope.checkpoint, p)
    BY DEF Inv, PrivateTypeOK, PendingNow
  <2> QED BY <1>1, <1>4, <2>1, QueuedScope DEF Queues
<1>5. ASSUME NEW o \in Operations, Accepts(o) PROVE scope'.status = scope.status
  BY <1>5, AcceptFacts
<1>6. ~Pins
  BY DEF Pins
<1> QED BY <1>2, <1>3, <1>4, <1>5, <1>6, StoredCases

LEMMA ClaimsStay ==
    ASSUME Inv, ClaimsAreReserved, [Next]_vars,
           claims' = claims, reservations' = reservations
    PROVE  ClaimsAreReserved'
<1>1. CASE scope = NoScope
  BY <1>1 DEF ClaimsAreReserved
<1>2. CASE scope # NoScope
  BY <1>2, StatusStep DEF ClaimsAreReserved, ReservedAs
<1> QED BY <1>1, <1>2

(* A new claim of a frozen scope says nothing.                             *)
LEMMA ClaimsFreeze ==
    ASSUME Inv, scope # NoScope, scope' = Frozen(scope)
    PROVE  ClaimsAreReserved'
<1>1. scope \in Scope
  BY DEF Inv, PrivateTypeOK
<1>2. scope' \in Scope /\ scope'.status = "frozen"
  BY <1>1, FrozenScope
<1> QED BY <1>2 DEF ClaimsAreReserved

(* A claim that agrees with what is reserved, or finds nothing reserved.   *)
LEMMA ClaimReserves ==
    ASSUME ClaimsAreReserved, scope # NoScope, scope.status # "frozen",
           NEW o, NEW c, o.parent = c.head,
           \A r \in ReservationsOf(c.head) : IsSameClaim(r.op, o),
           claims' = claims \cup {o},
           \/ reservations' = reservations /\ ReservationsOf(c.head) # {}
           \/ reservations' = (reservations \ ReservationsOf(c.head))
                                 \cup {[op |-> o, after |-> c]}
    PROVE  \A x \in claims' : ReservedAs(x)'
<1> DEFINE new == [op |-> o, after |-> c]
<1>1. \A x \in claims : ReservedAs(x)
  BY DEF ClaimsAreReserved
<1>2. new.op = o /\ new.after.head = o.parent
  OBVIOUS
<1> HIDE DEF new
<1>3. IsSameClaim(o, o)
  BY DEF IsSameClaim
<1>4. CASE reservations' = reservations /\ ReservationsOf(c.head) # {}
  <2>1. ReservedAs(o)
    BY <1>4 DEF ReservedAs, ReservationsOf
  <2> QED BY <1>1, <1>4, <2>1 DEF ReservedAs
<1>5. CASE reservations' = (reservations \ ReservationsOf(c.head)) \cup {new}
  <2>1. \A r \in reservations' : r.after.head = o.parent <=> r = new
    BY <1>2, <1>5 DEF ReservationsOf
  <2>2. ReservedAs(o)'
    BY <1>2, <1>3, <1>5, <2>1 DEF ReservedAs
  <2>3. ASSUME NEW x \in claims PROVE ReservedAs(x)'
    <3>1. CASE x.parent = o.parent
      <4>1. PICK r \in reservations : r.after.head = x.parent
        BY <1>1 DEF ReservedAs
      <4>2. IsSameClaim(r.op, x) /\ IsSameClaim(r.op, o)
        BY <1>1, <3>1, <4>1 DEF ReservedAs, ReservationsOf
      <4>3. IsSameClaim(o, x)
        BY <4>2 DEF IsSameClaim
      <4> QED BY <1>2, <1>5, <2>1, <3>1, <4>3 DEF ReservedAs
    <3>2. CASE x.parent # o.parent
      <4>1. PICK r \in reservations : r.after.head = x.parent
        BY <1>1 DEF ReservedAs
      <4>2. r \in reservations'
        BY <1>5, <3>2, <4>1 DEF ReservationsOf
      <4>3. \A q \in reservations' : q.after.head = x.parent => q \in reservations
        BY <1>2, <1>5, <3>2
      <4> QED BY <1>1, <4>1, <4>2, <4>3 DEF ReservedAs
    <3> QED BY <3>1, <3>2
  <2> QED BY <2>2, <2>3
<1> QED BY <1>4, <1>5 DEF new

LEMMA ClaimsStep ==
    ASSUME Inv, ClaimsAreReserved, [Next]_vars
    PROVE  ClaimsAreReserved'
<1>1. ASSUME NEW w \in Workers, ReserveChild(w) PROVE ClaimsAreReserved'
  <2> DEFINE o == handlers[w].op
             c == handlers[w].scope.checkpoint
             same == \A r \in ReservationsOf(c.head) : IsSameClaim(r.op, o)
  <2>1. scope # NoScope
    BY <1>1 DEF ReserveChild, Inv, HandlersHold, HandlerAt
  <2>2. o.parent = c.head /\ claims' = claims \cup {o}
    BY <1>1 DEF ReserveChild, Verifies
  <2>3. CASE ~same
    <3>1. scope' = Frozen(scope)
      BY <1>1, <2>3 DEF ReserveChild
    <3> QED BY <2>1, <3>1, ClaimsFreeze
  <2>4. CASE same
    <3>1. /\ scope' = scope
          /\ reservations' = IF ReservationsOf(c.head) = {}
                             THEN reservations \cup {[op |-> o, after |-> c]} ELSE reservations
      BY <1>1, <2>4 DEF ReserveChild
    <3>2. \/ reservations' = reservations /\ ReservationsOf(c.head) # {}
          \/ reservations' = (reservations \ ReservationsOf(c.head))
                                \cup {[op |-> o, after |-> c]}
      BY <3>1
    <3>3. CASE scope.status = "frozen"
      BY <2>1, <3>1, <3>3 DEF ClaimsAreReserved
    <3>4. CASE scope.status # "frozen"
      <4> HIDE DEF o, c
      <4>1. \A x \in claims' : ReservedAs(x)'
        BY <2>1, <2>2, <2>4, <3>2, <3>4, ClaimReserves
      <4> QED BY <2>1, <3>1, <4>1 DEF ClaimsAreReserved
    <3> QED BY <3>3, <3>4
  <2> QED BY <2>3, <2>4
<1>2. ASSUME NEW w \in Workers, CommitAcceptance(w) PROVE ClaimsAreReserved'
  <2> DEFINE o == handlers[w].op
             c == handlers[w].scope.checkpoint
  <2>1. o \in Operations /\ Accepts(o)
    BY <1>2, CommitAccepts DEF Accepts
  <2>2. scope # NoScope /\ scope.status = "active" /\ scope' # NoScope
    BY <2>1, AcceptFacts
  <2>3. CASE IsProposal(o)
    <3>1. claims' = claims /\ reservations' = reservations
      BY <1>2, <2>3 DEF CommitAcceptance
    <3> QED BY <3>1, ClaimsStay
  <2>4. CASE ~IsProposal(o)
    <3>1. /\ reservations' = (reservations \ ReservationsOf(c.head))
                                \cup {[op |-> o, after |-> c]}
          /\ claims' = claims \cup {o}
          /\ \A r \in ReservationsOf(c.head) : IsSameClaim(r.op, o)
          /\ c.head = scope.checkpoint.head
      BY <1>2, <2>4 DEF CommitAcceptance, IsExpected
    <3>2. o.parent = c.head
      BY <2>1, <2>4, <3>1 DEF Accepts, MayAccept, IsSuccessor
    <3> HIDE DEF o, c
    <3>3. \A x \in claims' : ReservedAs(x)'
      BY <2>2, <3>1, <3>2, ClaimReserves
    <3> QED BY <2>2, <3>3 DEF ClaimsAreReserved
  <2> QED BY <2>3, <2>4
<1>3. ASSUME NEW w \in Workers, CommitConflict(w) PROVE ClaimsAreReserved'
  BY <1>3, ClaimsFreeze DEF CommitConflict
<1>4. ASSUME NEW w \in Workers, Quarantine(w) PROVE ClaimsAreReserved'
  <2>1. scope # NoScope
    BY <1>4 DEF Quarantine, Inv, HandlersHold
  <2> QED BY <1>4, <2>1, ClaimsFreeze DEF Quarantine
<1>5. ASSUME NEW g \in Geneses, Provision(g) PROVE ClaimsAreReserved'
  BY <1>5, ClaimsStay DEF Provision
<1>6. ASSUME NEW w \in Workers, NEW o \in Operations,
             AskChallenge(w, o) \/ Submit(w, o) \/ SubmitReused(w, o)
      PROVE  ClaimsAreReserved'
  BY <1>6, ClaimsStay DEF AskChallenge, Submit, SubmitReused, stored
<1>7. ASSUME NEW w \in Workers,
             \/ IssueWithoutChild(w) \/ Route(w) \/ RouteSibling(w) \/ Authorize(w)
             \/ Compare(w) \/ Prove(w) \/ Project(w) \/ CommitPending(w) \/ Refuse(w)
      PROVE  ClaimsAreReserved'
  <2>1. claims' = claims /\ reservations' = reservations
    BY <1>7 DEF IssueWithoutChild, Route, RouteSibling, Authorize, Compare, Prove, Project,
                CommitPending, Refuse, stored
  <2> QED BY <2>1, ClaimsStay
<1>8. ASSUME NEW x \in challenges, ExpireChallenge(x) PROVE ClaimsAreReserved'
  BY <1>8, ClaimsStay DEF ExpireChallenge, stored
<1>9. CASE Restart
  BY <1>9, ClaimsStay DEF Restart, stored
<1>10. CASE UNCHANGED vars
  BY <1>10, ClaimsStay DEF vars, stored
<1> QED BY <1>1, <1>2, <1>3, <1>4, <1>5, <1>6, <1>7, <1>8, <1>9, <1>10 DEF Next, Handle

(* Two verified transitions of one head that claim different children, or  *)
(* one child under different identifiers, freeze the scope, through        *)
(* whichever requests they came (rejectReservedSibling, reserve).          *)
THEOREM SiblingsTheorem == Spec => []SiblingsFreeze
<1>1. Init => ClaimsAreReserved
  BY DEF Init, ClaimsAreReserved
<1>2. Inv /\ ClaimsAreReserved /\ [Next]_vars => ClaimsAreReserved'
  BY ClaimsStep
<1>3. ClaimsAreReserved => SiblingsFreeze
  <2> SUFFICES ASSUME ClaimsAreReserved, NEW a \in claims, NEW b \in claims,
                      a.parent = b.parent, ~IsSameClaim(a, b), scope.status # "frozen"
               PROVE  FALSE
    BY DEF SiblingsFreeze
  <2>1. ReservedAs(a) /\ ReservedAs(b)
    BY DEF ClaimsAreReserved
  <2>2. PICK r \in reservations : r.after.head = a.parent
    BY <2>1 DEF ReservedAs
  <2>3. IsSameClaim(r.op, a) /\ IsSameClaim(r.op, b)
    BY <2>1, <2>2 DEF ReservedAs
  <2> QED BY <2>3 DEF IsSameClaim
<1> QED BY <1>1, <1>2, <1>3, InvTheorem, PTL DEF Spec
-----------------------------------------------------------------------------
(* The transitions of a log, read from its front: f shows those among the  *)
(* first i operations, for every i.                                        *)
IsShown(f, s, n) ==
    f = [i \in 0 .. n |-> IF i = 0 THEN <<>>
                          ELSE IF IsProposal(s[i]) THEN f[i - 1] ELSE Append(f[i - 1], s[i])]

Starts(s, t, n) == \A i \in 1 .. n : s[i] = t[i]
Alike(f, g, n) == \A i \in 0 .. n : f[i] = g[i]

LEMMA ShownAt ==
    ASSUME NEW f, NEW s, NEW n \in Nat, IsShown(f, s, n)
    PROVE  /\ f[0] = <<>>
           /\ \A i \in 1 .. n : f[i] = IF IsProposal(s[i]) THEN f[i - 1]
                                                          ELSE Append(f[i - 1], s[i])
<1> DEFINE at(i) == IF i = 0 THEN <<>>
                    ELSE IF IsProposal(s[i]) THEN f[i - 1] ELSE Append(f[i - 1], s[i])
<1>1. f = [i \in 0 .. n |-> at(i)]
  BY DEF IsShown
<1> HIDE DEF at
<1>2. \A i \in 0 .. n : f[i] = at(i)
  BY <1>1
<1> QED BY <1>2 DEF at

(* Logs that agree on their first operations show the same of them.        *)
LEMMA ShownAgree ==
    ASSUME NEW s, NEW t, NEW n \in Nat, NEW m \in Nat, n <= m, Starts(s, t, n),
           NEW f, IsShown(f, s, n), NEW g, IsShown(g, t, m)
    PROVE  Alike(f, g, n)
<1> DEFINE T == {i \in 0 .. n : f[i] # g[i]}
<1> SUFFICES ASSUME T # {} PROVE FALSE
  BY DEF Alike
<1>1. PICK i \in T : \A j \in T : i <= j
  <2>1. T \in SUBSET Nat
    OBVIOUS
  <2> HIDE DEF T
  <2> QED BY <2>1, LeastNatural
<1>2. i # 0
  BY ShownAt
<1>3. f[i - 1] = g[i - 1]
  BY <1>1, <1>2
<1>4. i \in 1 .. n /\ i \in 1 .. m /\ s[i] = t[i]
  BY <1>2 DEF Starts
<1>5. /\ f[i] = IF IsProposal(s[i]) THEN f[i - 1] ELSE Append(f[i - 1], s[i])
      /\ g[i] = IF IsProposal(t[i]) THEN g[i - 1] ELSE Append(g[i - 1], t[i])
  BY <1>4, ShownAt
<1> QED BY <1>3, <1>4, <1>5

(* What the first n + 1 operations show, from what the first n show.       *)
LEMMA ShownExtends ==
    ASSUME NEW s, NEW n \in Nat, NEW f, IsShown(f, s, n)
    PROVE  \E g : IsShown(g, s, n + 1)
<1> DEFINE last == IF IsProposal(s[n + 1]) THEN f[n] ELSE Append(f[n], s[n + 1])
           g == [i \in 0 .. n + 1 |-> IF i = n + 1 THEN last ELSE f[i]]
           at(i) == IF i = 0 THEN <<>>
                    ELSE IF IsProposal(s[i]) THEN g[i - 1] ELSE Append(g[i - 1], s[i])
<1>1. g[n + 1] = last /\ \A i \in 0 .. n : g[i] = f[i]
  OBVIOUS
<1>2. g = [i \in 0 .. n + 1 |-> g[i]]
  OBVIOUS
<1> HIDE DEF g
<1>3. \A i \in 0 .. n + 1 : g[i] = at(i)
  <2> SUFFICES ASSUME NEW i \in 0 .. n + 1 PROVE g[i] = at(i)
    OBVIOUS
  <2>1. CASE i = 0
    BY <1>1, <2>1, ShownAt
  <2>2. CASE i = n + 1
    BY <1>1, <2>2
  <2>3. CASE i \in 1 .. n
    <3>1. f[i] = IF IsProposal(s[i]) THEN f[i - 1] ELSE Append(f[i - 1], s[i])
      BY <2>3, ShownAt
    <3>2. g[i] = f[i] /\ g[i - 1] = f[i - 1] /\ i # 0
      BY <1>1, <2>3
    <3> QED BY <3>1, <3>2
  <2> QED BY <2>1, <2>2, <2>3
<1> HIDE DEF at
<1>4. g = [i \in 0 .. n + 1 |-> at(i)]
  BY <1>2, <1>3
<1> QED BY <1>4 DEF at, IsShown

(* Every log shows something.                                              *)
LEMMA ShownExists ==
    ASSUME NEW s, NEW n \in Nat
    PROVE  \E f : IsShown(f, s, n)
<1> DEFINE T == {k \in Nat : ~ \E f : IsShown(f, s, k)}
<1> SUFFICES ASSUME T # {} PROVE FALSE
  OBVIOUS
<1>1. PICK k \in T : \A j \in T : k <= j
  <2>1. T \in SUBSET Nat
    OBVIOUS
  <2> HIDE DEF T
  <2> QED BY <2>1, LeastNatural
<1>2. CASE k = 0
  <2> DEFINE f == [i \in 0 .. 0 |-> <<>>]
  <2>1. IsShown(f, s, 0)
    BY DEF IsShown
  <2> QED BY <1>2, <2>1
<1>3. CASE k # 0
  <2>1. k - 1 \in Nat /\ k - 1 \notin T /\ (k - 1) + 1 = k
    BY <1>1, <1>3
  <2>2. PICK f : IsShown(f, s, k - 1)
    BY <2>1
  <2>3. \E g : IsShown(g, s, (k - 1) + 1)
    BY <2>1, <2>2, ShownExtends
  <2> QED BY <2>1, <2>3
<1> QED BY <1>2, <1>3

LEMMA TransitionsShown ==
    ASSUME NEW s, NEW n \in Nat, n = Len(s), NEW f, IsShown(f, s, n)
    PROVE  Transitions(s) = f[n]
<1>1. PICK g : IsShown(g, s, n) /\ Transitions(s) = g[n]
  BY DEF Transitions, IsShown
<1>2. Starts(s, s, n) /\ n <= n
  BY DEF Starts
<1>3. Alike(f, g, n)
  BY <1>1, <1>2, ShownAgree
<1>4. f[n] = g[n]
  BY <1>3 DEF Alike
<1> QED BY <1>1, <1>4

(* One operation more.                                                     *)
LEMMA ShownGrows ==
    ASSUME NEW s, NEW t, NEW n \in Nat, Starts(s, t, n),
           NEW f, IsShown(f, s, n), NEW g, IsShown(g, t, n + 1)
    PROVE  g[n + 1] = IF IsProposal(t[n + 1]) THEN f[n] ELSE Append(f[n], t[n + 1])
<1> DEFINE m == n + 1
<1>1. m \in Nat /\ n <= m /\ m \in 1 .. m /\ m - 1 = n /\ IsShown(g, t, m)
  OBVIOUS
<1> HIDE DEF m
<1>2. Alike(f, g, n)
  BY <1>1, ShownAgree
<1>3. f[n] = g[n]
  BY <1>2 DEF Alike
<1>4. g[m] = IF IsProposal(t[m]) THEN g[m - 1] ELSE Append(g[m - 1], t[m])
  BY <1>1, ShownAt
<1>5. g[m] = IF IsProposal(t[m]) THEN f[n] ELSE Append(f[n], t[m])
  BY <1>1, <1>3, <1>4
<1> QED BY <1>5 DEF m

(* A log that grows by a transition shows it at the end; a proposal does   *)
(* not show.                                                               *)
LEMMA TransitionsAppend ==
    ASSUME NEW s \in Seq(Operations), NEW o \in Operations
    PROVE  Transitions(Append(s, o)) =
               IF IsProposal(o) THEN Transitions(s) ELSE Append(Transitions(s), o)
<1> DEFINE t == Append(s, o)
<1>1. PICK n \in Nat : n = Len(s)
  OBVIOUS
<1>2. PICK m \in Nat : m = n + 1
  OBVIOUS
<1>3. m = Len(t) /\ t[m] = o /\ Starts(s, t, n)
  BY <1>1, <1>2 DEF Starts
<1> HIDE DEF t
<1>4. PICK f : IsShown(f, s, n)
  BY ShownExists
<1>5. PICK g : IsShown(g, t, m)
  BY ShownExists
<1>6. Transitions(s) = f[n]
  BY <1>1, <1>4, TransitionsShown
<1>7. Transitions(t) = g[m]
  BY <1>3, <1>5, TransitionsShown
<1>8. g[m] = IF IsProposal(t[m]) THEN f[n] ELSE Append(f[n], t[m])
  BY <1>2, <1>3, <1>4, <1>5, ShownGrows
<1>9. Transitions(t) = IF IsProposal(o) THEN Transitions(s) ELSE Append(Transitions(s), o)
  BY <1>3, <1>6, <1>7, <1>8
<1> QED BY <1>9 DEF t

(* A handler about to commit at the checkpoint of now holds the projection *)
(* of now: only an acceptance that moves the checkpoint changes it.        *)
ProjectionsAreCurrent ==
    \A w \in Workers :
        handlers[w].stage = "committing"
            /\ handlers[w].scope.checkpoint.revision = scope.checkpoint.revision
        => handlers[w].projection = projection

RecordsInv == RecordsFollowTheLog /\ ProjectionsAreCurrent

(* Who is about to commit was so before, or has just read the projection.  *)
CommitterKeeps(v) ==
    handlers'[v].stage = "committing" =>
        \/ handlers'[v] = handlers[v]
        \/ handlers'[v].projection = projection /\ projection' = projection

LEMMA CommittersKeep ==
    ASSUME Inv, [Next]_vars, NEW v \in Workers
    PROVE  CommitterKeeps(v)
<1> USE DEF CommitterKeeps
<1>0. handlers \in [Workers -> Handler] /\ Idle.stage = "idle"
  BY DEF Inv, PrivateTypeOK, Idle
<1>1. ASSUME handlers' = handlers PROVE CommitterKeeps(v)
  BY <1>1
<1>2. ASSUME NEW w \in Workers, Ends(w) PROVE CommitterKeeps(v)
  <2>1. handlers'[v] = IF v = w THEN Idle ELSE handlers[v]
    BY <1>0, <1>2 DEF Ends
  <2> QED BY <1>0, <2>1
<1>3. ASSUME NEW w \in Workers, NEW stage, stage # "committing", Goes(w, stage)
      PROVE  CommitterKeeps(v)
  <2>1. handlers'[v].stage = stage \/ handlers'[v] = handlers[v]
    BY <1>0, <1>3 DEF Goes, Handler
  <2> QED BY <1>3, <2>1
<1>4. ASSUME NEW w \in Workers, NEW o \in Operations,
             AskChallenge(w, o) \/ Submit(w, o) \/ SubmitReused(w, o)
      PROVE  CommitterKeeps(v)
  <2>1. handlers'[v].stage # "committing" \/ handlers'[v] = handlers[v]
    BY <1>0, <1>4 DEF AskChallenge, Submit, SubmitReused, Begins, Idle
  <2> QED BY <2>1
<1>5. ASSUME NEW w \in Workers, Authorize(w) PROVE CommitterKeeps(v)
  <2>1. CASE handlers' = [handlers EXCEPT ![w].stage = "comparing", ![w].scope = scope]
    <3>1. handlers'[v].stage = "comparing" \/ handlers'[v] = handlers[v]
      BY <1>0, <2>1 DEF Handler
    <3> QED BY <3>1
  <2>2. CASE QuarantinesOrEnds(w, handlers[w].op)
    BY <1>2, <1>3, <2>2 DEF QuarantinesOrEnds
  <2> QED BY <1>5, <2>1, <2>2 DEF Authorize
<1>6. ASSUME NEW w \in Workers, Route(w) \/ RouteSibling(w) \/ Compare(w)
      PROVE  CommitterKeeps(v)
  <2>1. \/ Ends(w)
        \/ \E stage \in {"authorizing", "isolating", "quarantining", "proving"} : Goes(w, stage)
    BY <1>6 DEF Route, RouteSibling, Compare, QuarantinesOrEnds
  <2> QED BY <1>2, <1>3, <2>1
<1>7. ASSUME NEW w \in Workers, Prove(w) PROVE CommitterKeeps(v)
  <2>1. \/ Ends(w) \/ \E stage \in {"projecting", "queueing", "quarantining"} : Goes(w, stage)
    BY <1>7 DEF Prove
  <2> QED BY <1>2, <1>3, <2>1
<1>8. ASSUME NEW w \in Workers, Project(w) PROVE CommitterKeeps(v)
  <2>1. /\ projection' = projection
        /\ handlers' = [handlers EXCEPT ![w].stage = "committing", ![w].projection = projection]
    BY <1>8 DEF Project, stored
  <2>2. handlers'[v].projection = projection \/ handlers'[v] = handlers[v]
    BY <1>0, <2>1 DEF Handler
  <2> QED BY <2>1, <2>2
<1>9. ASSUME NEW w \in Workers,
             \/ ReserveChild(w) \/ IssueWithoutChild(w) \/ CommitPending(w)
             \/ CommitAcceptance(w) \/ CommitConflict(w) \/ Quarantine(w) \/ Refuse(w)
      PROVE  CommitterKeeps(v)
  <2>1. Ends(w)
    BY <1>9 DEF ReserveChild, IssueWithoutChild, CommitPending, CommitAcceptance,
                CommitConflict, Quarantine, Refuse
  <2> QED BY <1>2, <2>1
<1>10. CASE Restart
  BY <1>0, <1>10 DEF Restart
<1>11. ASSUME NEW g \in Geneses, Provision(g) PROVE CommitterKeeps(v)
  BY <1>1, <1>11 DEF Provision
<1>12. ASSUME NEW x \in challenges, ExpireChallenge(x) PROVE CommitterKeeps(v)
  BY <1>1, <1>12 DEF ExpireChallenge
<1>13. CASE UNCHANGED vars
  BY <1>1, <1>13 DEF vars
<1> QED BY <1>4, <1>5, <1>6, <1>7, <1>8, <1>9, <1>10, <1>11, <1>12, <1>13 DEF Next, Handle

(* Only an acceptance touches the log, the projection and the MLS state.   *)
LEMMA RecordCases ==
    ASSUME Inv, [Next]_vars
    PROVE  \/ log' = log /\ projection' = projection /\ mls' = mls
           \/ \E w \in Workers : CommitAcceptance(w)
<1>1. ASSUME NEW w \in Workers,
             \/ ReserveChild(w) \/ IssueWithoutChild(w) \/ Route(w) \/ RouteSibling(w)
             \/ Authorize(w) \/ Compare(w) \/ Prove(w) \/ Project(w) \/ CommitPending(w)
             \/ CommitConflict(w) \/ Quarantine(w) \/ Refuse(w)
      PROVE  log' = log /\ projection' = projection /\ mls' = mls
  BY <1>1 DEF ReserveChild, IssueWithoutChild, Route, RouteSibling, Authorize, Compare, Prove,
              Project, CommitPending, CommitConflict, Quarantine, Refuse, stored
<1>2. ASSUME NEW g \in Geneses, Provision(g)
      PROVE  log' = log /\ projection' = projection /\ mls' = mls
  BY <1>2 DEF Provision
<1>3. ASSUME NEW w \in Workers, NEW o \in Operations,
             AskChallenge(w, o) \/ Submit(w, o) \/ SubmitReused(w, o)
      PROVE  log' = log /\ projection' = projection /\ mls' = mls
  BY <1>3 DEF AskChallenge, Submit, SubmitReused, stored
<1>4. ASSUME NEW x \in challenges, ExpireChallenge(x)
      PROVE  log' = log /\ projection' = projection /\ mls' = mls
  BY <1>4 DEF ExpireChallenge, stored
<1>5. ASSUME Restart \/ UNCHANGED vars
      PROVE  log' = log /\ projection' = projection /\ mls' = mls
  BY <1>5 DEF Restart, vars, stored
<1> QED BY <1>1, <1>2, <1>3, <1>4, <1>5 DEF Next, Handle

(* What a handler that is about to commit has read is not of the future.   *)
LEMMA CommitterRevision ==
    ASSUME Inv, NEW v \in Workers, handlers[v].stage = "committing"
    PROVE  /\ scope # NoScope /\ scope.checkpoint.revision \in Nat
           /\ handlers[v].scope.checkpoint.revision \in Nat
           /\ handlers[v].scope.checkpoint.revision <= scope.checkpoint.revision
<1>1. handlers[v].scope # NoScope /\ handlers[v].scope \in Scope
  BY ReadScope DEF Inv, HandlersHold, Reading
<1>2. scope # NoScope /\ scope \in Scope
  BY <1>1 DEF Inv, HandlersAreBehind, PrivateTypeOK
<1> QED BY <1>1, <1>2 DEF Inv, HandlersAreBehind, Scope, Checkpoint

LEMMA RecordsStep ==
    ASSUME Inv, RecordsInv, [Next]_vars
    PROVE  RecordsInv'
<1>0. CheckpointAdvances /\ \A v \in Workers : CommitterKeeps(v)
  BY StoredStep, CommittersKeep
<1>1. CASE log' = log /\ projection' = projection /\ mls' = mls
  <2>1. RecordsFollowTheLog'
    BY <1>1 DEF RecordsInv, RecordsFollowTheLog
  <2>2. ASSUME NEW v \in Workers, handlers'[v].stage = "committing",
               handlers'[v].scope.checkpoint.revision = scope'.checkpoint.revision
        PROVE  handlers'[v].projection = projection'
    <3>1. CASE handlers'[v] = handlers[v]
      <4>1. /\ scope # NoScope /\ scope.checkpoint.revision \in Nat
            /\ handlers[v].scope.checkpoint.revision \in Nat
            /\ handlers[v].scope.checkpoint.revision <= scope.checkpoint.revision
        BY <2>2, <3>1, CommitterRevision
      <4>2. ~ (scope'.checkpoint.revision > scope.checkpoint.revision)
        BY <2>2, <3>1, <4>1
      <4>3. scope'.checkpoint = scope.checkpoint
        BY <1>0, <4>1, <4>2 DEF CheckpointAdvances
      <4> QED BY <1>1, <2>2, <3>1, <4>3 DEF RecordsInv, ProjectionsAreCurrent
    <3>2. CASE handlers'[v].projection = projection /\ projection' = projection
      BY <3>2
    <3> QED BY <1>0, <2>2, <3>1, <3>2 DEF CommitterKeeps
  <2> QED BY <2>1, <2>2 DEF RecordsInv, ProjectionsAreCurrent
<1>2. ASSUME NEW w \in Workers, CommitAcceptance(w) PROVE RecordsInv'
  <2> DEFINE o == handlers[w].op
             c == handlers[w].scope.checkpoint
  <2>1. o \in Operations /\ Accepts(o)
    BY <1>2, CommitAccepts DEF Accepts
  <2>2. /\ scope.checkpoint \in Checkpoint /\ scope' # NoScope
        /\ scope'.checkpoint = Candidate(scope.checkpoint, o)
        /\ log' = Append(log, o)
    BY <2>1, AcceptFacts DEF Accepts, Scope
  <2>3. handlers[w].stage = "committing" /\ c.revision = scope.checkpoint.revision
    BY <1>2 DEF CommitAcceptance, HandlerAt, IsExpected
  <2>4. handlers[w].projection = projection
    BY <2>3 DEF RecordsInv, ProjectionsAreCurrent
  <2>5. projection' = Shown(o, projection)
    BY <1>2, <2>4 DEF CommitAcceptance
  <2>6. mls' = IF IsProposal(o) THEN mls ELSE o
    BY <1>2 DEF CommitAcceptance
  <2>7. log \in Seq(Operations) /\ projection \in Seq(Operations)
    BY DEF Inv, PrivateTypeOK
  <2>8. projection' = Transitions(log')
    BY <2>1, <2>2, <2>5, <2>7, TransitionsAppend DEF RecordsInv, RecordsFollowTheLog, Shown
  <2>9. mls' = LastOf(projection')
    <3>1. CASE IsProposal(o)
      BY <2>5, <2>6, <3>1 DEF RecordsInv, RecordsFollowTheLog, Shown
    <3>2. CASE ~IsProposal(o)
      BY <2>1, <2>5, <2>6, <2>7, <3>2, RangeAppend DEF Shown
    <3> QED BY <3>1, <3>2
  <2>10. RecordsFollowTheLog'
    BY <2>8, <2>9 DEF RecordsFollowTheLog
  <2>11. ASSUME NEW v \in Workers, handlers'[v].stage = "committing",
                handlers'[v].scope.checkpoint.revision = scope'.checkpoint.revision
         PROVE  handlers'[v].projection = projection'
    <3>1. CASE handlers'[v].projection = projection /\ projection' = projection
      BY <3>1
    <3>2. CASE handlers'[v] = handlers[v]
      <4>1. /\ scope.checkpoint.revision \in Nat
            /\ handlers[v].scope.checkpoint.revision \in Nat
            /\ handlers[v].scope.checkpoint.revision <= scope.checkpoint.revision
        BY <2>11, <3>2, CommitterRevision
      <4>2. CASE IsProposal(o)
        <5>1. projection' = projection /\ scope'.checkpoint = scope.checkpoint
          BY <2>1, <2>2, <2>5, <4>2, CandidateType DEF Shown
        <5> QED BY <2>11, <3>2, <5>1 DEF RecordsInv, ProjectionsAreCurrent
      <4>3. CASE ~IsProposal(o)
        <5>1. scope'.checkpoint.revision = scope.checkpoint.revision + 1
          BY <2>1, <2>2, <4>3, CandidateType
        <5> QED BY <2>11, <3>2, <4>1, <5>1
      <4> QED BY <4>2, <4>3
    <3> QED BY <1>0, <2>11, <3>1, <3>2 DEF CommitterKeeps
  <2> QED BY <2>10, <2>11 DEF RecordsInv, ProjectionsAreCurrent
<1> QED BY <1>1, <1>2, RecordCases

LEMMA InitRecords == Init => RecordsInv
<1> SUFFICES ASSUME Init PROVE RecordsInv
  OBVIOUS
<1>1. log = <<>> /\ projection = <<>> /\ mls = NoOne /\ handlers = [w \in Workers |-> Idle]
  BY DEF Init
<1>2. Transitions(<<>>) = <<>>
  <2>1. PICK f : IsShown(f, <<>>, 0)
    BY ShownExists
  <2>2. Transitions(<<>>) = f[0]
    BY <2>1, TransitionsShown
  <2> QED BY <2>1, <2>2, ShownAt
<1>3. RecordsFollowTheLog
  BY <1>1, <1>2 DEF RecordsFollowTheLog, LastOf
<1>4. ProjectionsAreCurrent
  BY <1>1 DEF ProjectionsAreCurrent, Idle
<1> QED BY <1>3, <1>4 DEF RecordsInv

(* The projection shows the accepted transitions, all of them, in order    *)
(* and each once, and the MLS state is that of the last one, although      *)
(* handlers read both before the lock (commitAcceptance).                  *)
THEOREM FollowTheorem == Spec => []RecordsFollowTheLog
<1>1. Inv /\ RecordsInv /\ [Next]_vars => RecordsInv'
  BY RecordsStep
<1>2. RecordsInv => RecordsFollowTheLog
  BY DEF RecordsInv
<1> QED BY <1>1, <1>2, InitRecords, InvTheorem, PTL DEF Spec
-----------------------------------------------------------------------------
(* Reservations before acceptances.  Challenges are what carries a claim   *)
(* from the request that reserved it to the one that submits it.           *)
HasClaim(o, head) == \E r \in reservations : r.after.head = head /\ IsSameClaim(r.op, o)

(* A child of the revision of its challenge was reserved with it.          *)
ChallengesAreReserved ==
    \A x \in challenges :
        ~IsProposal(x.op) /\ x.op.revision = x.revision => HasClaim(x.op, x.head)

Claiming == {"projecting", "committing"}
HandlersAreReserved ==
    \A w \in Workers :
        handlers[w].stage \in Claiming /\ ~IsProposal(handlers[w].op)
            => HasClaim(handlers[w].op, handlers[w].scope.checkpoint.head)

(* The checkpoint of a reservation is the one of now, or an older one.     *)
IsBehind(c) == /\ scope # NoScope /\ c.revision <= scope.checkpoint.revision
               /\ c.revision = scope.checkpoint.revision => c = scope.checkpoint
ReservationsAreBehind == \A r \in reservations : IsBehind(r.after)

ReservedInv == ChallengesAreReserved /\ HandlersAreReserved /\ ReservationsAreBehind

(* Every checkpoint in use has the revision that its head names.           *)
IsNamed(revisionOf, c) == c.revision = revisionOf[c.head]
NamesOK(revisionOf) ==
    /\ scope # NoScope => IsNamed(revisionOf, scope.checkpoint)
    /\ \A w \in Workers : handlers[w].scope # NoScope
                              => IsNamed(revisionOf, handlers[w].scope.checkpoint)
    /\ \A r \in reservations : IsNamed(revisionOf, r.after)

(* Two sections write reservations; both claim under what was read.        *)
LEMMA ReservationCases ==
    ASSUME Inv, [Next]_vars
    PROVE  \/ reservations' = reservations
           \/ \E w \in Workers : ReserveChild(w) \/ CommitAcceptance(w)
<1>1. ASSUME NEW w \in Workers,
             \/ IssueWithoutChild(w) \/ Route(w) \/ RouteSibling(w)
             \/ Authorize(w) \/ Compare(w) \/ Prove(w) \/ Project(w) \/ CommitPending(w)
             \/ CommitConflict(w) \/ Quarantine(w) \/ Refuse(w)
      PROVE  reservations' = reservations
  BY <1>1 DEF IssueWithoutChild, Route, RouteSibling, Authorize, Compare, Prove,
              Project, CommitPending, CommitConflict, Quarantine, Refuse, stored
<1>2. ASSUME NEW g \in Geneses, Provision(g) PROVE reservations' = reservations
  BY <1>2 DEF Provision
<1>3. ASSUME NEW w \in Workers, NEW o \in Operations,
             AskChallenge(w, o) \/ Submit(w, o) \/ SubmitReused(w, o)
      PROVE  reservations' = reservations
  BY <1>3 DEF AskChallenge, Submit, SubmitReused, stored
<1>4. ASSUME NEW x \in challenges, ExpireChallenge(x) PROVE reservations' = reservations
  BY <1>4 DEF ExpireChallenge, stored
<1>5. ASSUME Restart \/ UNCHANGED vars PROVE reservations' = reservations
  BY <1>5 DEF Restart, vars, stored
<1> QED BY <1>1, <1>2, <1>3, <1>4, <1>5 DEF Next, Handle

(* A claim, once reserved at a head, stays reserved there; and what is new *)
(* is reserved under a checkpoint that a handler read.                     *)
LEMMA ReservationsStep ==
    ASSUME Inv, [Next]_vars
    PROVE  /\ \A o, head : HasClaim(o, head) => HasClaim(o, head)'
           /\ \A r \in reservations' :
                  \/ r \in reservations
                  \/ \E w \in Workers : /\ handlers[w].stage \in Reading
                                         /\ r.after = handlers[w].scope.checkpoint
<1>1. CASE reservations' = reservations
  BY <1>1 DEF HasClaim
<1>2. ASSUME NEW w \in Workers, ReserveChild(w)
      PROVE  /\ reservations \subseteq reservations'
             /\ \A r \in reservations' : r \in reservations
                                           \/ r.after = handlers[w].scope.checkpoint
             /\ handlers[w].stage \in Reading
  BY <1>2 DEF ReserveChild, HandlerAt, Reading
<1>3. ASSUME NEW w \in Workers, CommitAcceptance(w)
      PROVE  /\ \A o, head : HasClaim(o, head) => HasClaim(o, head)'
             /\ \A r \in reservations' : r \in reservations
                                           \/ r.after = handlers[w].scope.checkpoint
             /\ handlers[w].stage \in Reading
  <2> DEFINE p == handlers[w].op
             c == handlers[w].scope.checkpoint
             new == [op |-> p, after |-> c]
  <2>1. handlers[w].stage \in Reading
    BY <1>3 DEF CommitAcceptance, HandlerAt, Reading
  <2>2. CASE IsProposal(p)
    <3>1. reservations' = reservations
      BY <1>3, <2>2 DEF CommitAcceptance
    <3> QED BY <2>1, <3>1 DEF HasClaim
  <2>3. CASE ~IsProposal(p)
    <3>1. /\ reservations' = (reservations \ ReservationsOf(c.head)) \cup {new}
          /\ \A r \in ReservationsOf(c.head) : IsSameClaim(r.op, p)
      BY <1>3, <2>3 DEF CommitAcceptance
    <3>2. new.op = p /\ new.after = c
      OBVIOUS
    <3> HIDE DEF new, c, p
    <3>3. ASSUME NEW o, NEW head, HasClaim(o, head) PROVE HasClaim(o, head)'
      <4>1. PICK r \in reservations : r.after.head = head /\ IsSameClaim(r.op, o)
        BY <3>3 DEF HasClaim
      <4>2. CASE head = c.head
        <5>1. IsSameClaim(r.op, p)
          BY <3>1, <4>1, <4>2 DEF ReservationsOf
        <5>2. IsSameClaim(p, o)
          BY <4>1, <5>1 DEF IsSameClaim
        <5> QED BY <3>1, <3>2, <4>2, <5>2 DEF HasClaim
      <4>3. CASE head # c.head
        BY <3>1, <4>1, <4>3 DEF HasClaim, ReservationsOf
      <4> QED BY <4>2, <4>3
    <3>4. \A r \in reservations' : r \in reservations \/ r.after = c
      BY <3>1, <3>2
    <3> QED BY <2>1, <3>3, <3>4 DEF c
  <2> QED BY <2>2, <2>3
<1>4. ASSUME NEW w \in Workers, ReserveChild(w), NEW o, NEW head, HasClaim(o, head)
      PROVE  HasClaim(o, head)'
  BY <1>2, <1>4 DEF HasClaim
<1> QED BY <1>1, <1>2, <1>3, <1>4, ReservationCases

(* What is behind stays behind.                                            *)
LEMMA StaysBehind ==
    ASSUME Inv, [Next]_vars, NEW c \in Checkpoint, IsBehind(c)
    PROVE  IsBehind(c)'
<1>1. scope' # NoScope /\ \/ scope'.checkpoint = scope.checkpoint
                          \/ scope'.checkpoint.revision > scope.checkpoint.revision
  BY StoredStep DEF IsBehind, CheckpointAdvances
<1>2. scope.checkpoint.revision \in Nat /\ scope'.checkpoint.revision \in Nat
  <2>1. scope \in Scope /\ scope' \in Scope
    BY <1>1, StoredStep DEF Inv, PrivateTypeOK, StoredOK, IsBehind
  <2> QED BY <2>1 DEF Scope, Checkpoint
<1>3. c.revision \in Nat
  BY DEF Checkpoint
<1> QED BY <1>1, <1>2, <1>3 DEF IsBehind

LEMMA ReservationsStayBehind ==
    ASSUME Inv, ReservationsAreBehind, [Next]_vars
    PROVE  ReservationsAreBehind'
<1> SUFFICES ASSUME NEW r \in reservations' PROVE IsBehind(r.after)'
  BY DEF ReservationsAreBehind
<1>1. CASE r \in reservations
  <2>1. r.after \in Checkpoint
    BY <1>1 DEF Inv, PrivateTypeOK
  <2> QED BY <1>1, <2>1, StaysBehind DEF ReservationsAreBehind
<1>2. ASSUME NEW w \in Workers, handlers[w].stage \in Reading,
             r.after = handlers[w].scope.checkpoint
      PROVE  IsBehind(r.after)'
  <2>1. r.after \in Checkpoint /\ handlers[w].scope # NoScope
    BY <1>2, ReadScope DEF Inv, HandlersHold
  <2>2. IsBehind(r.after)
    BY <1>2, <2>1 DEF Inv, HandlersAreBehind, IsBehind
  <2> QED BY <2>1, <2>2, StaysBehind
<1> QED BY <1>1, <1>2, ReservationsStep

(* Who claims did so before, or has just proved a claim.                   *)
ClaimantKeeps(v) ==
    handlers'[v].stage \in Claiming =>
        /\ handlers'[v].op = handlers[v].op /\ handlers'[v].scope = handlers[v].scope
        /\ \/ handlers[v].stage \in Claiming
           \/ Prove(v) /\ Verdict(handlers[v].scope, handlers[v].op) = "ready"

LEMMA ClaimantsKeep ==
    ASSUME Inv, [Next]_vars, NEW v \in Workers
    PROVE  ClaimantKeeps(v)
<1> USE DEF ClaimantKeeps, Claiming
<1>0. handlers \in [Workers -> Handler] /\ Idle.stage = "idle"
  BY DEF Inv, PrivateTypeOK, Idle
<1>1. ASSUME handlers' = handlers PROVE ClaimantKeeps(v)
  BY <1>1
<1>2. ASSUME NEW w \in Workers, Ends(w) PROVE ClaimantKeeps(v)
  <2>1. handlers'[v] = IF v = w THEN Idle ELSE handlers[v]
    BY <1>0, <1>2 DEF Ends
  <2> QED BY <1>0, <2>1
<1>3. ASSUME NEW w \in Workers, NEW stage, stage \notin Claiming, Goes(w, stage)
      PROVE  ClaimantKeeps(v)
  <2>1. handlers'[v].stage = stage \/ handlers'[v] = handlers[v]
    BY <1>0, <1>3 DEF Goes, Handler
  <2> QED BY <1>3, <2>1
<1>4. ASSUME NEW w \in Workers, NEW o \in Operations,
             AskChallenge(w, o) \/ Submit(w, o) \/ SubmitReused(w, o)
      PROVE  ClaimantKeeps(v)
  <2>1. handlers'[v].stage \notin Claiming \/ handlers'[v] = handlers[v]
    BY <1>0, <1>4 DEF AskChallenge, Submit, SubmitReused, Begins, Idle
  <2> QED BY <2>1
<1>5. ASSUME NEW w \in Workers, Authorize(w) PROVE ClaimantKeeps(v)
  <2>1. CASE handlers' = [handlers EXCEPT ![w].stage = "comparing", ![w].scope = scope]
    <3>1. handlers'[v].stage = "comparing" \/ handlers'[v] = handlers[v]
      BY <1>0, <2>1 DEF Handler
    <3> QED BY <3>1
  <2>2. CASE QuarantinesOrEnds(w, handlers[w].op)
    BY <1>2, <1>3, <2>2 DEF QuarantinesOrEnds
  <2> QED BY <1>5, <2>1, <2>2 DEF Authorize
<1>6. ASSUME NEW w \in Workers, Route(w) \/ RouteSibling(w) \/ Compare(w)
      PROVE  ClaimantKeeps(v)
  <2>1. \/ Ends(w)
        \/ \E stage \in {"authorizing", "isolating", "quarantining", "proving"} : Goes(w, stage)
    BY <1>6 DEF Route, RouteSibling, Compare, QuarantinesOrEnds
  <2> QED BY <1>2, <1>3, <2>1
<1>7. ASSUME NEW w \in Workers, Prove(w) PROVE ClaimantKeeps(v)
  <2>1. CASE Verdict(handlers[w].scope, handlers[w].op) = "ready"
    <3>1. Goes(w, "projecting")
      BY <1>7, <2>1 DEF Prove
    <3>2. CASE v # w
      BY <1>0, <3>1, <3>2 DEF Goes
    <3>3. CASE v = w
      <4>1. handlers'[v].op = handlers[v].op /\ handlers'[v].scope = handlers[v].scope
        BY <1>0, <3>1, <3>3 DEF Goes, Handler
      <4> QED BY <1>7, <2>1, <3>3, <4>1
    <3> QED BY <3>2, <3>3
  <2>2. CASE Verdict(handlers[w].scope, handlers[w].op) # "ready"
    <3>1. \/ Ends(w) \/ \E stage \in {"queueing", "quarantining"} : Goes(w, stage)
      BY <1>7, <2>2 DEF Prove
    <3> QED BY <1>2, <1>3, <3>1
  <2> QED BY <2>1, <2>2
<1>8. ASSUME NEW w \in Workers, Project(w) PROVE ClaimantKeeps(v)
  <2>1. handlers' = [handlers EXCEPT ![w].stage = "committing", ![w].projection = projection]
    BY <1>8 DEF Project
  <2>2. handlers'[v].op = handlers[v].op /\ handlers'[v].scope = handlers[v].scope
    BY <1>0, <2>1 DEF Handler
  <2>3. handlers[w].stage = "projecting" /\ (v # w => handlers'[v] = handlers[v])
    BY <1>0, <1>8, <2>1 DEF Project, HandlerAt
  <2> QED BY <2>2, <2>3
<1>9. ASSUME NEW w \in Workers,
             \/ ReserveChild(w) \/ IssueWithoutChild(w) \/ CommitPending(w)
             \/ CommitAcceptance(w) \/ CommitConflict(w) \/ Quarantine(w) \/ Refuse(w)
      PROVE  ClaimantKeeps(v)
  <2>1. Ends(w)
    BY <1>9 DEF ReserveChild, IssueWithoutChild, CommitPending, CommitAcceptance,
                CommitConflict, Quarantine, Refuse
  <2> QED BY <1>2, <2>1
<1>10. CASE Restart
  BY <1>0, <1>10 DEF Restart
<1>11. ASSUME NEW g \in Geneses, Provision(g) PROVE ClaimantKeeps(v)
  BY <1>1, <1>11 DEF Provision
<1>12. ASSUME NEW x \in challenges, ExpireChallenge(x) PROVE ClaimantKeeps(v)
  BY <1>1, <1>12 DEF ExpireChallenge
<1>13. CASE UNCHANGED vars
  BY <1>1, <1>13 DEF vars
<1> QED BY <1>4, <1>5, <1>6, <1>7, <1>8, <1>9, <1>10, <1>11, <1>12, <1>13 DEF Next, Handle

LEMMA ClaimantsStep ==
    ASSUME Inv, ReservedInv, [Next]_vars
    PROVE  HandlersAreReserved'
<1> SUFFICES ASSUME NEW v \in Workers, handlers'[v].stage \in Claiming,
                    ~IsProposal(handlers'[v].op)
             PROVE  HasClaim(handlers[v].op, handlers[v].scope.checkpoint.head)
  BY ClaimantsKeep, ReservationsStep DEF HandlersAreReserved, ClaimantKeeps
<1> DEFINE o == handlers[v].op
           c == handlers[v].scope.checkpoint
<1>1. handlers'[v].op = o
  BY ClaimantsKeep DEF ClaimantKeeps
<1>2. CASE handlers[v].stage \in Claiming
  BY <1>1, <1>2 DEF ReservedInv, HandlersAreReserved
<1>3. CASE Prove(v) /\ Verdict(handlers[v].scope, o) = "ready"
  <2>1. o \in Operations /\ handlers[v].scope \in Scope
    BY <1>3, ReadScope DEF Prove, HandlerAt, Reading
  <2>2. PICK x \in challenges : x.op = o /\ x.head = c.head /\ x.revision = c.revision
    BY <1>3 DEF Prove, HasProof
  <2>3. IsValid(handlers[v].scope, o) /\ ~MustWait(handlers[v].scope, o)
    BY <1>3, <2>1, VerdictFacts
  <2>4. o.revision \in Nat /\ c.revision \in Nat
    <3>1. o \in Operation /\ c \in Checkpoint
      BY <2>1 DEF Scope
    <3> QED BY <3>1 DEF Operation, Checkpoint
  <2>5. o.revision >= c.revision /\ ~(o.revision > c.revision)
    BY <2>3 DEF IsValid, MustWait
  <2>6. o.revision = c.revision
    BY <2>4, <2>5
  <2> QED BY <1>1, <2>2, <2>6 DEF ReservedInv, ChallengesAreReserved
<1> QED BY <1>2, <1>3, ClaimantsKeep DEF ClaimantKeeps

LEMMA ChallengesStep ==
    ASSUME Inv, ReservedInv, [Next]_vars
    PROVE  ChallengesAreReserved'
<1>1. ASSUME challenges' \subseteq challenges PROVE ChallengesAreReserved'
  BY <1>1, ReservationsStep DEF ReservedInv, ChallengesAreReserved
<1>2. ASSUME NEW o, NEW c, challenges' = Issued(o, c),
             ~IsProposal(o) /\ o.revision = c.revision =>
                 \E r \in reservations' : r.after.head = c.head /\ IsSameClaim(r.op, o)
      PROVE  ChallengesAreReserved'
  <2> DEFINE new == [op |-> o, head |-> c.head, revision |-> c.revision]
  <2>1. \A x \in challenges' : x \in challenges \/ x = new
    BY <1>2 DEF Issued
  <2>2. new.op = o /\ new.head = c.head /\ new.revision = c.revision
    OBVIOUS
  <2> HIDE DEF new
  <2>3. ASSUME NEW x \in challenges, ~IsProposal(x.op), x.op.revision = x.revision
        PROVE  HasClaim(x.op, x.head)'
    BY <2>3, ReservationsStep DEF ReservedInv, ChallengesAreReserved
  <2>4. ASSUME NEW x \in challenges', ~IsProposal(x.op), x.op.revision = x.revision
        PROVE  HasClaim(x.op, x.head)'
    <3>1. CASE x \in challenges
      BY <2>3, <2>4, <3>1
    <3>2. CASE x = new
      BY <1>2, <2>2, <2>4, <3>2 DEF HasClaim
    <3> QED BY <2>1, <3>1, <3>2
  <2> QED BY <2>4 DEF ChallengesAreReserved
<1>3. ASSUME NEW w \in Workers, ReserveChild(w) PROVE ChallengesAreReserved'
  <2> DEFINE o == handlers[w].op
             c == handlers[w].scope.checkpoint
             same == \A r \in ReservationsOf(c.head) : IsSameClaim(r.op, o)
             new == [op |-> o, after |-> c]
  <2>1. CASE ~same
    <3>1. challenges' = challenges
      BY <1>3, <2>1 DEF ReserveChild
    <3> QED BY <1>1, <3>1
  <2>2. CASE same
    <3>1. /\ challenges' = Issued(o, c)
          /\ reservations' = IF ReservationsOf(c.head) = {}
                             THEN reservations \cup {new} ELSE reservations
      BY <1>3, <2>2 DEF ReserveChild
    <3>2. new.op = o /\ new.after = c
      OBVIOUS
    <3>3. IsSameClaim(o, o)
      BY DEF IsSameClaim
    <3> HIDE DEF new, o, c
    <3>4. \E r \in reservations' : r.after.head = c.head /\ IsSameClaim(r.op, o)
      <4>1. CASE ReservationsOf(c.head) = {}
        BY <3>1, <3>2, <3>3, <4>1
      <4>2. CASE ReservationsOf(c.head) # {}
        BY <2>2, <3>1, <4>2 DEF ReservationsOf
      <4> QED BY <4>1, <4>2
    <3> QED BY <1>2, <3>1, <3>4
  <2> QED BY <2>1, <2>2
<1>4. ASSUME NEW w \in Workers, IssueWithoutChild(w) PROVE ChallengesAreReserved'
  <2> DEFINE o == handlers[w].op
             c == handlers[w].scope.checkpoint
  <2>1. challenges' = Issued(o, c) /\ ~IsControlChild(o, c)
    BY <1>4 DEF IssueWithoutChild
  <2> HIDE DEF o, c
  <2> QED BY <1>2, <2>1 DEF IsControlChild
<1>5. ASSUME NEW w \in Workers,
             \/ Route(w) \/ RouteSibling(w) \/ Authorize(w) \/ Compare(w) \/ Prove(w)
             \/ Project(w) \/ CommitPending(w) \/ CommitAcceptance(w) \/ CommitConflict(w)
             \/ Quarantine(w) \/ Refuse(w)
      PROVE  challenges' \subseteq challenges
  BY <1>5 DEF Route, RouteSibling, Authorize, Compare, Prove, Project, CommitPending,
              CommitAcceptance, CommitConflict, Quarantine, Refuse
<1>6. ASSUME NEW g \in Geneses, Provision(g) PROVE challenges' \subseteq challenges
  BY <1>6 DEF Provision
<1>7. ASSUME NEW w \in Workers, NEW o \in Operations,
             AskChallenge(w, o) \/ Submit(w, o) \/ SubmitReused(w, o)
      PROVE  challenges' \subseteq challenges
  BY <1>7 DEF AskChallenge, Submit, SubmitReused
<1>8. ASSUME NEW x \in challenges, ExpireChallenge(x) PROVE challenges' \subseteq challenges
  BY <1>8 DEF ExpireChallenge
<1>9. ASSUME Restart \/ UNCHANGED vars PROVE challenges' \subseteq challenges
  BY <1>9 DEF Restart, vars
<1> QED BY <1>1, <1>3, <1>4, <1>5, <1>6, <1>7, <1>8, <1>9 DEF Next, Handle

LEMMA NamesStep ==
    ASSUME NEW revisionOf \in [Heads -> Nat], HeadsNameRevisions(revisionOf),
           Inv, NamesOK(revisionOf), [Next]_vars
    PROVE  NamesOK(revisionOf)'
<1>1. ASSUME scope' # NoScope PROVE IsNamed(revisionOf, scope'.checkpoint)
  <2>1. CASE StaysOrFreezes
    <3>1. scope # NoScope /\ scope \in Scope
      BY <1>1, <2>1 DEF StaysOrFreezes, Inv, PrivateTypeOK
    <3>2. scope'.checkpoint = scope.checkpoint
      BY <2>1, <3>1, FrozenScope DEF StaysOrFreezes
    <3> QED BY <3>1, <3>2 DEF NamesOK
  <2>2. CASE Pins
    <3>1. scope'.checkpoint = GenesisCheckpoint
      BY <2>2 DEF Pins, PinnedScope
    <3> QED BY <3>1 DEF IsNamed, HeadsNameRevisions, GenesisCheckpoint
  <2>3. ASSUME NEW o \in Operations, Queues(o)
        PROVE  IsNamed(revisionOf, scope'.checkpoint)
    <3>1. scope # NoScope /\ scope'.checkpoint = scope.checkpoint
      BY <2>3 DEF Queues, Queued, Pruned, Scope
    <3> QED BY <3>1 DEF NamesOK
  <2>4. ASSUME NEW o \in Operations, Accepts(o)
        PROVE  IsNamed(revisionOf, scope'.checkpoint)
    <3> DEFINE c == Candidate(scope.checkpoint, o)
    <3>1. scope # NoScope /\ scope'.checkpoint = c
      BY <2>4, AcceptFacts
    <3>2. CASE IsProposal(o)
      BY <3>1, <3>2 DEF NamesOK, Candidate
    <3>3. CASE ~IsProposal(o)
      <4>1. c.revision = scope.checkpoint.revision + 1 /\ c.head = o.child
        BY <3>3 DEF Candidate, Successor
      <4>2. o.parent = scope.checkpoint.head
        BY <2>4, <3>3 DEF Accepts, MayAccept, IsSuccessor
      <4>3. revisionOf[o.child] = revisionOf[o.parent] + 1
        BY <3>3 DEF HeadsNameRevisions
      <4>4. scope.checkpoint.revision = revisionOf[scope.checkpoint.head]
        BY <3>1 DEF NamesOK, IsNamed
      <4> QED BY <3>1, <4>1, <4>2, <4>3, <4>4 DEF IsNamed
    <3> QED BY <3>2, <3>3
  <2> QED BY <2>1, <2>2, <2>3, <2>4, StoredCases
<1>2. ASSUME NEW v \in Workers, handlers'[v].scope # NoScope
      PROVE  IsNamed(revisionOf, handlers'[v].scope.checkpoint)
  <2>1. HandlerKeeps(v)
    BY HandlersStep DEF HandlersMove
  <2> QED BY <1>1, <1>2, <2>1 DEF HandlerKeeps, NamesOK
<1>3. ASSUME NEW r \in reservations' PROVE IsNamed(revisionOf, r.after)
  BY ReservationsStep DEF NamesOK, Inv, HandlersHold
<1> QED BY <1>1, <1>2, <1>3 DEF NamesOK, IsNamed

LEMMA InitReserved ==
    ASSUME NEW revisionOf, Init
    PROVE  ReservedInv /\ NamesOK(revisionOf)
<1>1. /\ scope = NoScope /\ reservations = {} /\ challenges = {}
      /\ handlers = [w \in Workers |-> Idle]
  BY DEF Init
<1>2. \A w \in Workers : handlers[w].stage = "idle" /\ handlers[w].scope = NoScope
  BY <1>1 DEF Idle
<1> QED BY <1>1, <1>2 DEF ReservedInv, ChallengesAreReserved, HandlersAreReserved,
                          ReservationsAreBehind, Claiming, NamesOK

LEMMA AcceptanceIsReserved ==
    ASSUME NEW revisionOf, Inv, ReservedInv, NamesOK(revisionOf), [Next]_vars,
           log' # log, ~IsProposal(LastOf(log'))
    PROVE  \E r \in reservations : r.after = scope.checkpoint /\ IsSameClaim(r.op, LastOf(log'))
<1>1. PICK w \in Workers : CommitAcceptance(w)
  BY RecordCases
<1> DEFINE o == handlers[w].op
           c == handlers[w].scope.checkpoint
<1>2. o \in Operations /\ Accepts(o)
  BY <1>1, CommitAccepts DEF Accepts
<1>3. scope # NoScope /\ LastOf(log') = o
  BY <1>2, AcceptFacts
<1>4. handlers[w].stage \in Claiming /\ c.head = scope.checkpoint.head
  BY <1>1 DEF CommitAcceptance, HandlerAt, IsExpected, Claiming
<1>5. PICK r \in reservations : r.after.head = c.head /\ IsSameClaim(r.op, o)
  BY <1>3, <1>4 DEF ReservedInv, HandlersAreReserved, HasClaim
<1>6. r.after.revision = scope.checkpoint.revision
  BY <1>3, <1>4, <1>5 DEF NamesOK, IsNamed
<1>7. r.after = scope.checkpoint
  BY <1>6 DEF ReservedInv, ReservationsAreBehind, IsBehind
<1> QED BY <1>3, <1>5, <1>7

(* A transition is accepted only under the checkpoint at which its claim   *)
(* was reserved (reserveChild, commitAcceptance), since a head is a digest *)
(* that names the revision of its checkpoint.                              *)
THEOREM ReservedTheorem ==
    ASSUME NEW revisionOf \in [Heads -> Nat], HeadsNameRevisions(revisionOf)
    PROVE  Spec => TransitionsAreReserved
<1>1. Init => ReservedInv /\ NamesOK(revisionOf)
  BY InitReserved
<1>2. Inv /\ ReservedInv /\ NamesOK(revisionOf) /\ [Next]_vars
          => ReservedInv' /\ NamesOK(revisionOf)'
  BY ClaimantsStep, ChallengesStep, ReservationsStayBehind, NamesStep DEF ReservedInv
<1>3. Inv /\ ReservedInv /\ NamesOK(revisionOf) /\ [Next]_vars
          => [log' # log /\ ~IsProposal(LastOf(log')) =>
                  \E r \in reservations : /\ r.after = scope.checkpoint
                                          /\ IsSameClaim(r.op, LastOf(log'))]_vars
  BY AcceptanceIsReserved
<1> QED BY <1>1, <1>2, <1>3, InvTheorem, PTL DEF Spec, TransitionsAreReserved
=============================================================================
