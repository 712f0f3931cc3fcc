--------------------- MODULE PrivateOperationProperties ---------------------
(* What the handlers of PrivateOperations keep, whatever their order.      *)
EXTENDS PrivateOperations, Functions

Logged == Range(log)
Transitions(ops) ==
    LET shown[i \in 0 .. Len(ops)] ==
            IF i = 0 THEN <<>>
            ELSE IF IsProposal(ops[i]) THEN shown[i - 1] ELSE Append(shown[i - 1], ops[i])
    IN  shown[Len(ops)]
LastOf(ops) == IF ops = <<>> THEN NoOne ELSE ops[Len(ops)]
AcceptedNow == IF scope = NoScope THEN {} ELSE Accepted(scope)
PendingNow == IF scope = NoScope THEN {} ELSE scope.pending

(* Types; and nothing waits that the checkpoint has ruled out for good.    *)
PrivateTypeOK ==
    /\ scope \in Scope \cup {NoScope}
    /\ \A p \in PendingNow : ~IsPermanentlyInvalid(scope.checkpoint, p)
    /\ receipts \subseteq Operations /\ delivered \subseteq Operations
    /\ reservations \subseteq [op : Operations, after : Checkpoint]
    /\ projection \in Seq(Operations) /\ mls \in Operations \cup {NoOne}
    /\ challenges \subseteq [op : Operations, head : Heads, revision : Nat]
    /\ handlers \in [Workers -> Handler]
    /\ log \in Seq(Operations) /\ claims \subseteq Operations

(* The handlers, which read the scope long before they write, together do  *)
(* what a ledger does that accepts one operation at a time: nothing twice, *)
(* also after its receipt was compacted; nothing of a device that was      *)
(* revoked meanwhile; nothing once the scope is frozen.                    *)
Ledger == INSTANCE PrivateLedger WITH
    FirstCheckpoint <- GenesisCheckpoint,
    status <- IF scope = NoScope THEN "absent" ELSE scope.status,
    policy <- IF scope = NoScope THEN GenesisCheckpoint ELSE scope.checkpoint,
    accepted <- Logged
ImplementsLedger == Ledger!LedgerSpec

(* Two different transitions of one checkpoint, both verified under the    *)
(* lock, at whatever time and through whichever request, freeze the scope. *)
SiblingsFreeze ==
    \A a, b \in claims :
        a.parent = b.parent /\ ~IsSameClaim(a, b) /\ ~IsCrossAuthorClaim(a, b)
            => scope.status = "frozen"

(* The projection and the MLS state, read before the lock and written      *)
(* under it, are the ones of the checkpoint: no accepted transition is     *)
(* missing, none shows twice, and no proposal shows.                       *)
RecordsFollowTheLog ==
    /\ projection = Transitions(log)
    /\ mls = LastOf(Transitions(log))

(* Exactly the operations that the scope retains have a receipt, a replay  *)
(* marker and an outbox row, and none of them waits any more.              *)
RecordsAgree ==
    /\ receipts = AcceptedNow /\ delivered = AcceptedNow
    /\ AcceptedNow \subseteq Logged
    /\ IdsOf(PendingNow) \cap IdsOf(AcceptedNow) = {}

(* Compaction never takes an accepted operation that a waiting one needs.  *)
NeededAreKept ==
    [][\A a \in AcceptedNow \ AcceptedNow' : a.id \notin DependencyIds(PendingNow')]_vars

(* A waiting operation is taken out because it was accepted or because no  *)
(* later checkpoint can make it valid, never by another request's write.   *)
WaitingLeaveForAReason ==
    [][\A p \in PendingNow \ PendingNow' :
           \/ p \in Logged'
           \/ IsPermanentlyInvalid(scope'.checkpoint, p)]_vars

(* The digest that is a head covers the revision of its checkpoint, and    *)
(* the head that it follows: revisionOf reads it out of the head.          *)
HeadsNameRevisions(revisionOf) ==
    /\ revisionOf[Genesis0] = 0
    /\ \A o \in Operations : ~IsProposal(o) => revisionOf[o.child] = revisionOf[o.parent] + 1

(* A transition is accepted only where its claim was reserved before, in   *)
(* an earlier request and perhaps before a restart, under the very         *)
(* checkpoint that it follows.                                             *)
TransitionsAreReserved ==
    [][log' # log /\ ~IsProposal(LastOf(log')) =>
           \E r \in reservations : /\ r.after = scope.checkpoint
                                   /\ IsSameClaim(r.op, LastOf(log'))]_vars
=============================================================================
