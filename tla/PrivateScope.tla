---------------------------- MODULE PrivateScope ----------------------------
(***************************************************************************)
(* The authorization state of one protected scope: its checkpoint, the     *)
(* control operations it has accepted and still retains, and the ones that *)
(* wait.  Pure operators on a scope; PrivateOperations runs them.  Two     *)
(* operations with one identifier and different digests are two members of *)
(* Operations with one id.                                                 *)
(***************************************************************************)
EXTENDS Integers, FiniteSetsExt

CONSTANTS Ids, Heads, Devices, Geneses,
          Operations,        \* the signed operations that clients may send
          Authorities,       \* authorityKeys: not rotated here
          MaxPerAuthor,      \* MAX_ACCEPTED_OPERATIONS_PER_AUTHOR
          MaxNonAuthority,   \* MAX_NON_AUTHORITY_ACCEPTED_OPERATIONS
          MaxAccepted,       \* MAX_ACCEPTED_OPERATIONS
          MaxDependencies,   \* MAX_DEPENDENCY_RETAINED_OPERATIONS
          MaxHistorical,     \* MAX_HISTORICAL_OPERATIONS
          MaxPending, MaxPendingPerAuthor

Changes == [type : {"admit", "remove", "roles"}, device : Devices]
Operation == [id : Ids, kind : {"propose", "commit", "revoke"}, revision : Nat,
              author : Devices, previous : SUBSET Ids, proposal : SUBSET Ids,
              parent : Heads, child : Heads, change : Changes]

ASSUME PrivateScopeConstants ==
    /\ Operations \subseteq Operation
    /\ Authorities \subseteq Devices
    /\ {MaxPerAuthor, MaxNonAuthority, MaxAccepted, MaxDependencies,
        MaxHistorical, MaxPending, MaxPendingPerAuthor} \subseteq Nat

Checkpoint == [revision : Nat, head : Heads, admitted : SUBSET Devices, revoked : SUBSET Devices]
Entry == [op : Operations, at : Nat]       \* at: the order of acceptance
Scope == [genesis : Geneses, status : {"active", "frozen"}, checkpoint : Checkpoint,
          accepted : SUBSET Entry, pending : SUBSET Operations]

IdsOf(ops) == {o.id : o \in ops}
Accepted(s) == {e.op : e \in s.accepted}
IsProposal(o) == o.kind = "propose"
Frozen(s) == [s EXCEPT !.status = "frozen"]

-----------------------------------------------------------------------------
(* The policy that a verified transition leads to.                         *)
AdmittedAfter(c, o) ==
    CASE o.change.type = "admit"  -> c.admitted \cup {o.change.device}
      [] o.change.type = "remove" -> c.admitted \ {o.change.device}
      [] o.change.type = "roles"  -> c.admitted

Successor(c, o) ==
    [revision |-> c.revision + 1, head |-> o.child, admitted |-> AdmittedAfter(c, o),
     revoked |-> (c.revoked \cup c.admitted) \ AdmittedAfter(c, o)]

(* The frame is signed over the checkpoint it follows, adds only a device  *)
(* that is not there, and leaves the authorities admitted.                 *)
Verifies(c, o) ==
    /\ ~IsProposal(o) /\ o.parent = c.head
    /\ o.change.type = "admit" => o.change.device \notin c.admitted
    /\ Authorities \subseteq AdmittedAfter(c, o)

Candidate(c, o) == IF IsProposal(o) THEN c ELSE Successor(c, o)

-----------------------------------------------------------------------------
(* Mutant of IsValid: the revision of the operation is not compared.       *)
IsValidAtAnyRevision(s, o) ==
    /\ o.author \in s.checkpoint.admitted \ s.checkpoint.revoked
    /\ IsProposal(o) => o.parent = s.checkpoint.head \/ o.revision # s.checkpoint.revision

IsValid(s, o) ==
    /\ o.revision >= s.checkpoint.revision
    /\ o.author \in s.checkpoint.admitted \ s.checkpoint.revoked
    /\ IsProposal(o) => \/ o.revision > s.checkpoint.revision
                        \/ o.parent = s.checkpoint.head

MustWait(s, o) ==
    \/ o.revision > s.checkpoint.revision
    \/ ~(o.previous \subseteq IdsOf(Accepted(s)))

IsPermanentlyInvalid(c, o) ==
    \/ o.revision < c.revision
    \/ o.author \notin c.admitted \/ o.author \in c.revoked
    \/ IsProposal(o) /\ o.revision = c.revision /\ o.parent # c.head

(* Mutant of StillPossible: what was left behind goes on waiting.          *)
AllPossible(c, ops) == ops

StillPossible(c, ops) == {o \in ops : ~IsPermanentlyInvalid(c, o)}
Pruned(s) == [s EXCEPT !.pending = StillPossible(s.checkpoint, @)]

Needs(o) == o.previous \cup o.proposal
DependencyIds(ops) == UNION {Needs(o) : o \in ops}

(* Every set of waiting operations has one that needs none of the set.     *)
IsAcyclic(ops) ==
    \A S \in SUBSET ops \ {{}} : \E o \in S : Needs(o) \cap IdsOf(S) = {}

Pinned(entries, ids) == {e \in entries : e.op.id \in ids}

MayEnqueue(s, o) ==
    /\ IsAcyclic(s.pending \cup {o})
    /\ Cardinality(Pinned(s.accepted, DependencyIds(s.pending \cup {o}))) <= MaxDependencies
    /\ Cardinality(s.pending) < MaxPending
    /\ Cardinality({p \in s.pending : p.author = o.author}) < MaxPendingPerAuthor

IsQueuedByAnother(s, o) ==
    \E p \in s.pending : p.id = o.id /\ p # o /\ p.author # o.author
IsIdReused(s, o) == \E p \in Accepted(s) \cup s.pending : p.id = o.id /\ p # o

(* What the scope says of an operation that arrives.                       *)
Verdict(s, o) ==
    IF IsQueuedByAnother(s, o) THEN "invalid"
    ELSE IF IsIdReused(s, o) THEN "conflict"
    ELSE IF o \in Accepted(s) THEN "duplicate"
    ELSE IF s.status # "active" THEN "conflict"
    ELSE IF ~IsValid(s, o) THEN "invalid"
    ELSE IF ~MustWait(s, o) THEN "ready"
    ELSE IF o \in Pruned(s).pending \/ MayEnqueue(Pruned(s), o) THEN "pending"
    ELSE "invalid"

Queued(s, o) == [Pruned(s) EXCEPT !.pending = @ \cup {o}]

-----------------------------------------------------------------------------
(* Which accepted operations a scope keeps: the ones of its revision, the  *)
(* ones that waiting operations need, and the newest of the others.        *)
(* Mutant of Required: what waiting operations need is not kept.           *)
RequiredNow(entries, pending, c) == {e \in entries : e.op.revision = c.revision}

Required(entries, pending, c) ==
    {e \in entries : e.op.revision = c.revision \/ e.op.id \in DependencyIds(pending)}

FitsRetention(entries, pending, c) ==
    /\ Cardinality(Pinned(entries, DependencyIds(pending))) <= MaxDependencies
    /\ Cardinality(Required(entries, pending, c)) <= MaxAccepted

Retained(entries, pending, c) ==
    LET required == Required(entries, pending, c)
        NewerThan(e) == {f \in entries \ required : f.at > e.at}
        room == Min({MaxHistorical, MaxAccepted - Cardinality(required)})
    IN  required \cup {e \in entries \ required : Cardinality(NewerThan(e)) < room}

WithEntry(s, o) ==
    s.accepted \cup {[op |-> o, at |-> Max({e.at : e \in s.accepted} \cup {0}) + 1]}

HasRoomForAuthor(s, o) ==
    Cardinality({a \in Accepted(s) : a.revision = o.revision /\ a.author = o.author})
        < MaxPerAuthor

HasRoomBesideAuthorities(s, o) ==
    \/ o.author \in Authorities
    \/ Cardinality({a \in Accepted(s) : a.revision = o.revision /\ a.author \notin Authorities})
           < MaxNonAuthority

HasRoom(s, o, c) ==
    /\ o.revision = c.revision => HasRoomForAuthor(s, o) /\ HasRoomBesideAuthorities(s, o)
    /\ FitsRetention(WithEntry(s, o), StillPossible(c, s.pending \ {o}), c)

(* A commit makes an accepted proposal effective, unchanged.               *)
CommitsProposal(s, o) ==
    \E p \in Accepted(s) : /\ IsProposal(p) /\ p.change = o.change
                           /\ o.proposal = {p.id} /\ p.id \in o.previous

RevokesDevice(s, o, c) ==
    /\ o.change.type = "remove" /\ o.change.device \in s.checkpoint.admitted
    /\ o.change.device \in c.revoked \ c.admitted

IsSuccessor(s, o, c) == c.revision = s.checkpoint.revision + 1 /\ o.parent = s.checkpoint.head

(* acceptProposal, commitTransition and revokeDevice, once the verdict is  *)
(* ready and c is the checkpoint that the operation leads to.              *)
MayAccept(s, o, c) ==
    /\ HasRoom(s, o, c)
    /\ o.kind = "commit" => CommitsProposal(s, o)
    /\ o.kind = "revoke" => RevokesDevice(s, o, c)
    /\ ~IsProposal(o) => IsSuccessor(s, o, c)

WithAccepted(s, o, c) ==
    LET pending == StillPossible(c, s.pending \ {o})
    IN  [s EXCEPT !.checkpoint = c, !.pending = pending,
                  !.accepted = Retained(WithEntry(s, o), pending, c)]
=============================================================================
