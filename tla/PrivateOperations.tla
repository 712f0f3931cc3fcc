------------------------- MODULE PrivateOperations -------------------------
(***************************************************************************)
(* How one node accepts the control operations of a protected scope.  A    *)
(* client asks for a challenge, which reserves the child of a transition,  *)
(* and then submits the operation with its proof.  Handlers read the scope,*)
(* wait for other reads, and write under the locks of the unit of work,    *)
(* where each write reads the stored scope again.  A locked section is one *)
(* step: every writer of these records holds the same lock.                *)
(***************************************************************************)
EXTENDS PrivateScope, Sequences

CONSTANTS Workers,       \* bound: handlers at work at once
          FirstDevices,  \* the devices that a genesis admits
          Genesis0,      \* the head of a genesis
          NoScope, NoOne

ASSUME PrivateOperationConstants ==
    /\ Authorities \subseteq FirstDevices /\ FirstDevices \subseteq Devices
    /\ Genesis0 \in Heads
    /\ NoScope \notin Scope /\ NoOne \notin Operations

VARIABLES
    scope,          \* the scope document with its pending documents
    receipts,       \* the operations that have a receipt
    delivered,      \* the operations that have a replay marker and an outbox row
    reservations,   \* the transitions reserved, each with the checkpoint it follows
    projection,     \* the transitions that the community projection shows
    mls,            \* the transition whose protected state is stored
    challenges,     \* InMemoryPrivateFreshnessGate.challenges
    handlers,       \* the requests at work
    log,            \* history: the operations accepted, in order
    claims          \* history: the transitions verified under the lock

stored == <<scope, receipts, delivered, reservations, projection, mls>>
vars == <<stored, challenges, handlers, log, claims>>

Stages == {"idle", "asking", "routing", "authorizing", "comparing", "proving",
           "queueing", "projecting", "committing", "quarantining", "isolating"}
Handler == [stage : Stages, op : Operations \cup {NoOne}, scope : Scope \cup {NoScope},
            projection : Seq(Operations)]
Idle == [stage |-> "idle", op |-> NoOne, scope |-> NoScope, projection |-> <<>>]

GenesisCheckpoint ==
    [revision |-> 0, head |-> Genesis0, admitted |-> FirstDevices, revoked |-> {}]
PinnedScope(g) == [genesis |-> g, status |-> "active", checkpoint |-> GenesisCheckpoint,
                   accepted |-> {}, pending |-> {}]

Init ==
    /\ scope = NoScope
    /\ receipts = {} /\ delivered = {} /\ reservations = {}
    /\ projection = <<>> /\ mls = NoOne
    /\ challenges = {} /\ handlers = [w \in Workers |-> Idle]
    /\ log = <<>> /\ claims = {}

-----------------------------------------------------------------------------
HandlerAt(w, stage) == handlers[w].stage = stage
Goes(w, stage) == handlers' = [handlers EXCEPT ![w].stage = stage]
Ends(w) == handlers' = [handlers EXCEPT ![w] = Idle]
Begins(w, stage, o) ==
    handlers' = [handlers EXCEPT ![w] = [Idle EXCEPT !.stage = stage, !.op = o]]

(* The receipt of another operation with this identifier, by this author.  *)
ReusesReceiptOf(o) == \E r \in receipts : r.id = o.id /\ r # o /\ r.author = o.author
HasReceipt(o) == o.id \in IdsOf(receipts)

(* What a first request without an effect on the state comes to.           *)
QuarantinesOrEnds(w, o) == IF ReusesReceiptOf(o) THEN Goes(w, "quarantining") ELSE Ends(w)

(* Reservations are kept under their parent head; both bind the author.    *)
ReservationsOf(head) == {r \in reservations : r.after.head = head}
IsSameClaim(a, b) == a.child = b.child /\ a.id = b.id /\ a.author = b.author
IsCrossAuthorClaim(a, b) == a.child = b.child /\ a.author # b.author

-----------------------------------------------------------------------------
(* commitGenesis: the first one pins the scope; another one of the same    *)
(* owner freezes it, also when it repeats the genesis of a frozen scope.   *)
Provision(g) ==
    /\ scope' = IF scope = NoScope THEN PinnedScope(g)
                ELSE IF scope.genesis = g THEN scope ELSE Frozen(scope)
    /\ UNCHANGED <<receipts, delivered, reservations, projection, mls>>
    /\ UNCHANGED <<challenges, handlers, log, claims>>

(* challenge: the operation is authorized under the checkpoint it reads.   *)
AskChallenge(w, o) ==
    /\ HandlerAt(w, "idle")
    /\ scope # NoScope
    /\ scope.status = "active" /\ o.author \in scope.checkpoint.admitted
    /\ handlers' = [handlers EXCEPT ![w] =
                       [Idle EXCEPT !.stage = "asking", !.op = o, !.scope = scope]]
    /\ UNCHANGED <<stored, challenges, log, claims>>

(* issue: a challenge of another checkpoint is replaced.                   *)
Issued(o, c) == {x \in challenges : x.op # o}
                    \cup {[op |-> o, head |-> c.head, revision |-> c.revision]}

IsControlChild(o, c) == ~IsProposal(o) /\ o.revision = c.revision

(* The child is verified and reserved before its challenge is issued.  The *)
(* parent may have been left meanwhile: only the reservation is compared.  *)
ReserveChild(w) ==
    LET o == handlers[w].op
        c == handlers[w].scope.checkpoint
    IN  /\ HandlerAt(w, "asking") /\ IsControlChild(o, c) /\ Verifies(c, o)
        /\ claims' = claims \cup {o}
        /\ IF \A r \in ReservationsOf(c.head) : IsSameClaim(r.op, o)
           THEN /\ reservations' = IF ReservationsOf(c.head) = {}
                                   THEN reservations \cup {[op |-> o, after |-> c]}
                                   ELSE reservations
                /\ challenges' = Issued(o, c)
                /\ scope' = scope
           ELSE /\ scope' = Frozen(scope)
                /\ UNCHANGED <<reservations, challenges>>
        /\ Ends(w)
        /\ UNCHANGED <<receipts, delivered, projection, mls, log>>

IssueWithoutChild(w) ==
    /\ HandlerAt(w, "asking")
    /\ ~IsControlChild(handlers[w].op, handlers[w].scope.checkpoint)
    /\ challenges' = Issued(handlers[w].op, handlers[w].scope.checkpoint)
    /\ Ends(w)
    /\ UNCHANGED <<stored, log, claims>>

ExpireChallenge(x) ==
    /\ challenges' = challenges \ {x}
    /\ UNCHANGED <<stored, handlers, log, claims>>

-----------------------------------------------------------------------------
(* accept: an operation with a receipt is a duplicate, or it reuses an     *)
(* identifier; a new one goes on.                                          *)
Submit(w, o) ==
    /\ HandlerAt(w, "idle") /\ ~HasReceipt(o)
    /\ Begins(w, "routing", o)
    /\ UNCHANGED <<stored, challenges, log, claims>>

SubmitReused(w, o) ==
    /\ HandlerAt(w, "idle") /\ ReusesReceiptOf(o) /\ scope # NoScope
    /\ Begins(w, "quarantining", o)
    /\ UNCHANGED <<stored, challenges, log, claims>>

(* rejectReservedSibling: the reservation of the revision of an operation  *)
(* that the scope has left.                                                *)
LeftBehind(o) ==
    {r \in reservations : /\ ~IsProposal(o) /\ scope # NoScope
                          /\ o.revision < scope.checkpoint.revision
                          /\ r.after.revision = o.revision
                          /\ r.op.child # o.child \/ r.op.id # o.id}

Route(w) ==
    LET o == handlers[w].op IN
    /\ HandlerAt(w, "routing") /\ LeftBehind(o) = {}
    /\ Goes(w, "authorizing")
    /\ UNCHANGED <<stored, challenges, log, claims>>

RouteSibling(w) ==
    LET o == handlers[w].op IN
    /\ HandlerAt(w, "routing") /\ LeftBehind(o) # {}
    /\ IF \A r \in LeftBehind(o) : o.author \in r.after.admitted /\ Verifies(r.after, o)
       THEN Goes(w, "isolating") ELSE Ends(w)
    /\ UNCHANGED <<stored, challenges, log, claims>>

(* authorize reads the scope that the rest of the handler works on.        *)
Authorize(w) ==
    LET o == handlers[w].op IN
    /\ HandlerAt(w, "authorizing")
    /\ IF scope # NoScope /\ o.author \in scope.checkpoint.admitted
       THEN handlers' = [handlers EXCEPT ![w].stage = "comparing", ![w].scope = scope]
       ELSE QuarantinesOrEnds(w, o)
    /\ UNCHANGED <<stored, challenges, log, claims>>

(* duplicate: the receipts once more, now that the author is known.        *)
Compare(w) ==
    LET o == handlers[w].op IN
    /\ HandlerAt(w, "comparing")
    /\ IF HasReceipt(o) THEN QuarantinesOrEnds(w, o) ELSE Goes(w, "proving")
    /\ UNCHANGED <<stored, challenges, log, claims>>

(* Mutant of HasProof: the checkpoint of the challenge is not compared.    *)
HasAnyProof(o, c) == \E x \in challenges : x.op = o

HasProof(o, c) ==
    \E x \in challenges : x.op = o /\ x.head = c.head /\ x.revision = c.revision

(* verify takes the challenge, once; then the scope that was read says     *)
(* what becomes of the operation.                                          *)
Prove(w) ==
    LET o == handlers[w].op
        s == handlers[w].scope
    IN  /\ HandlerAt(w, "proving") /\ HasProof(o, s.checkpoint)
        /\ challenges' = {x \in challenges : x.op # o}
        /\ CASE Verdict(s, o) = "ready"    -> Goes(w, "projecting")
             [] Verdict(s, o) = "pending"  -> Goes(w, "queueing")
             [] Verdict(s, o) = "conflict" -> Goes(w, "quarantining")
             [] OTHER                      -> Ends(w)
        /\ UNCHANGED <<stored, log, claims>>

(* acceptance: the scope that was read takes the operation, and the        *)
(* projection of now takes its change.                                     *)
Project(w) ==
    LET o == handlers[w].op
        s == Pruned(handlers[w].scope)
    IN  /\ HandlerAt(w, "projecting")
        /\ IsProposal(o) \/ Verifies(s.checkpoint, o)
        /\ MayAccept(s, o, Candidate(s.checkpoint, o))
        /\ handlers' = [handlers EXCEPT ![w].stage = "committing",
                                        ![w].projection = projection]
        /\ UNCHANGED <<stored, challenges, log, claims>>

-----------------------------------------------------------------------------
(* matchesExpected: the scope still has the checkpoint that was read.      *)
IsExpected(c) ==
    /\ scope # NoScope
    /\ scope.checkpoint.head = c.head /\ scope.checkpoint.revision = c.revision

(* commitPending: the verdict is taken again, on the stored scope.         *)
CommitPending(w) ==
    LET o == handlers[w].op IN
    /\ HandlerAt(w, "queueing")
    /\ scope' = IF ~IsExpected(handlers[w].scope.checkpoint) THEN scope
                ELSE CASE Verdict(scope, o) = "pending"  -> Queued(scope, o)
                       [] Verdict(scope, o) = "conflict" -> Frozen(scope)
                       [] OTHER                          -> scope
    /\ Ends(w)
    /\ UNCHANGED <<receipts, delivered, reservations, projection, mls>>
    /\ UNCHANGED <<challenges, log, claims>>

(* Mutant of Base: the scope that the handler read is written back.        *)
BaseRead(h) == h.scope

(* rebaseAcceptance: the operation is accepted once more, on the stored    *)
(* scope.                                                                  *)
Base(h) == scope

(* Mutant of Shown: a proposal already shows in the projection.            *)
ShownAtOnce(o, shown) == Append(shown, o)

(* The projection with the operation; a proposal changes nothing visible.  *)
Shown(o, shown) == IF IsProposal(o) THEN shown ELSE Append(shown, o)

(* Mutant of Kept: the receipts of compacted operations are forgotten.     *)
KeptForEver(documents, before, after, o) == documents \cup {o}

(* The receipts, or the markers and outbox rows, without the operations    *)
(* that the scope retained before and does not retain now.                 *)
Kept(documents, before, after, o) ==
    (documents \cup {o}) \ ((Accepted(before) \cup {o}) \ Accepted(after))

CommitAcceptance(w) ==
    LET o == handlers[w].op
        c == handlers[w].scope.checkpoint
        candidate == Candidate(c, o)
        base == Pruned(Base(handlers[w]))
        after == WithAccepted(base, o, candidate)
    IN  /\ HandlerAt(w, "committing") /\ ~HasReceipt(o)
        /\ IsProposal(o) \/ \A r \in ReservationsOf(c.head) : IsSameClaim(r.op, o)
        /\ IsExpected(c)
        /\ Verdict(base, o) = "ready" /\ MayAccept(base, o, candidate)
        /\ scope' = after
        /\ receipts' = Kept(receipts, base, after, o)
        /\ delivered' = Kept(delivered, base, after, o)
        /\ projection' = Shown(o, handlers[w].projection)
        /\ log' = Append(log, o)
        /\ IF IsProposal(o) THEN UNCHANGED <<mls, reservations, claims>>
           ELSE /\ mls' = o
                /\ reservations' = (reservations \ ReservationsOf(c.head))
                                      \cup {[op |-> o, after |-> c]}
                /\ claims' = claims \cup {o}
        /\ Ends(w)
        /\ UNCHANGED challenges

(* commitAcceptance where it finds a conflict: an identifier with another  *)
(* digest, another child reserved, or a verdict that says so.              *)
CommitConflict(w) ==
    LET o == handlers[w].op
        c == handlers[w].scope.checkpoint
        siblings == {r \in ReservationsOf(c.head) : ~IsProposal(o) /\ ~IsSameClaim(r.op, o)}
    IN  /\ HandlerAt(w, "committing") /\ scope # NoScope
        /\ \/ ReusesReceiptOf(o)
           \/ /\ ~HasReceipt(o) /\ siblings # {}
              /\ \A r \in siblings : ~IsCrossAuthorClaim(r.op, o)
           \/ /\ ~HasReceipt(o) /\ siblings = {}
              /\ IsExpected(c) /\ Verdict(scope, o) = "conflict"
        /\ scope' = Frozen(scope)
        /\ claims' = IF ~HasReceipt(o) /\ siblings # {} THEN claims \cup {o} ELSE claims
        /\ Ends(w)
        /\ UNCHANGED <<receipts, delivered, reservations, projection, mls, challenges, log>>

Quarantine(w) ==
    /\ handlers[w].stage \in {"quarantining", "isolating"}
    /\ scope' = Frozen(scope)
    /\ claims' = IF HandlerAt(w, "isolating") THEN claims \cup {handlers[w].op} ELSE claims
    /\ Ends(w)
    /\ UNCHANGED <<receipts, delivered, reservations, projection, mls, challenges, log>>

(* A request ends without a write: a check refuses it, the community does  *)
(* not allow its change, the storage quota is reached, or the database     *)
(* fails.  Every batch is written whole or not at all.                     *)
Refuse(w) ==
    /\ ~HandlerAt(w, "idle")
    /\ Ends(w)
    /\ UNCHANGED <<stored, challenges, log, claims>>

(* Mutant of Restart: as if the reservations were kept in memory.          *)
RestartWithoutReservations ==
    /\ challenges' = {} /\ handlers' = [w \in Workers |-> Idle]
    /\ reservations' = {}
    /\ UNCHANGED <<scope, receipts, delivered, projection, mls, log, claims>>

Restart ==
    /\ challenges' = {} /\ handlers' = [w \in Workers |-> Idle]
    /\ UNCHANGED <<stored, log, claims>>

Handle(w) ==
    \/ ReserveChild(w) \/ IssueWithoutChild(w)
    \/ Route(w) \/ RouteSibling(w) \/ Authorize(w) \/ Compare(w) \/ Prove(w)
    \/ Project(w) \/ CommitPending(w) \/ CommitAcceptance(w) \/ CommitConflict(w)
    \/ Quarantine(w) \/ Refuse(w)

Next ==
    \/ \E g \in Geneses : Provision(g)
    \/ \E w \in Workers, o \in Operations :
           AskChallenge(w, o) \/ Submit(w, o) \/ SubmitReused(w, o)
    \/ \E w \in Workers : Handle(w)
    \/ \E x \in challenges : ExpireChallenge(x)
    \/ Restart

Spec == Init /\ [][Next]_vars
=============================================================================
