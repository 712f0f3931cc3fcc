--------------------------- MODULE PrivateLedger ---------------------------
(***************************************************************************)
(* What a protected scope promises: one operation after another is         *)
(* accepted, each under the policy that the ones before it made, until the *)
(* scope freezes for good.                                                 *)
(***************************************************************************)
EXTENDS PrivateScope

CONSTANT FirstCheckpoint

VARIABLES status, policy, accepted     \* accepted: all operations ever accepted
ledgerVars == <<status, policy, accepted>>

LedgerInit == status = "absent" /\ policy = FirstCheckpoint /\ accepted = {}

Pin == /\ status = "absent" /\ status' = "active"
       /\ UNCHANGED <<policy, accepted>>

(* An operation is accepted once, of one author that the policy admits,    *)
(* under the head it names, after all it refers to; a transition is the    *)
(* next step of the policy, and a commit carries out an accepted proposal. *)
Accept(o) ==
    /\ status = "active"
    /\ \A a \in accepted : a.revision = o.revision => a.id # o.id
    /\ o.revision = policy.revision /\ o.parent = policy.head
    /\ o.author \in policy.admitted \ policy.revoked
    /\ o.previous \subseteq IdsOf(accepted)
    /\ o.kind = "commit" =>
           \E p \in accepted : /\ IsProposal(p) /\ p.change = o.change
                               /\ o.proposal = {p.id} /\ p.id \in o.previous
    /\ policy' = Candidate(policy, o)
    /\ accepted' = accepted \cup {o}
    /\ UNCHANGED status

Freeze == /\ status = "active" /\ status' = "frozen"
          /\ UNCHANGED <<policy, accepted>>

LedgerNext == Pin \/ Freeze \/ \E o \in Operations : Accept(o)
LedgerSpec == LedgerInit /\ [][LedgerNext]_ledgerVars
=============================================================================
