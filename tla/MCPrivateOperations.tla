------------------------ MODULE MCPrivateOperations ------------------------
EXTENDS PrivateOperationProperties, TLC

CONSTANTS w1, w2, a, b, p1, p2, c1, r2, h0, h1, h2, hx

Roles(d) == [type |-> "roles", device |-> d]
Admit(d) == [type |-> "admit", device |-> d]
Remove(d) == [type |-> "remove", device |-> d]

Proposal(id, rev, author, previous, parent, change) ==
    [id |-> id, kind |-> "propose", revision |-> rev, author |-> author, previous |-> previous,
     proposal |-> {}, parent |-> parent, child |-> parent, change |-> change]
Commit(id, rev, author, proposal, parent, child, change) ==
    [id |-> id, kind |-> "commit", revision |-> rev, author |-> author, previous |-> {proposal},
     proposal |-> {proposal}, parent |-> parent, child |-> child, change |-> change]
Revoke(id, rev, author, previous, parent, child, device) ==
    [id |-> id, kind |-> "revoke", revision |-> rev, author |-> author, previous |-> previous,
     proposal |-> {}, parent |-> parent, child |-> child, change |-> Remove(device)]

MCOperations ==
    {Proposal(p1, 0, a, {}, h0, Admit(b)),
     Proposal(p2, 0, a, {p1}, h0, Roles(a)),
     Commit(c1, 0, a, p1, h0, h1, Admit(b)),
     Commit(p2, 0, a, p1, h0, hx, Admit(b)),
     Revoke(r2, 1, a, {p1}, h1, h2, b),
     Proposal(p1, 1, b, {}, h1, Roles(a))}

(* The heads of this instance name revisions, as digests do.               *)
MCRevisionOf == [h \in Heads |-> CASE h = h0 -> 0 [] h = h2 -> 2 [] OTHER -> 1]
ASSUME MCHeadsNameRevisions == HeadsNameRevisions(MCRevisionOf)

(* Bounds: challenges outstanding at once, requests that begin at once; a  *)
(* frozen scope is followed until no request is at work.                   *)
MCConstraint ==
    /\ Cardinality(challenges) <= 1
    /\ Cardinality({w \in Workers : handlers[w].stage \in {"asking", "routing"}}) <= 1
    /\ scope # NoScope /\ scope.status = "frozen" => \E w \in Workers : handlers[w] # Idle

MCSymmetry == Permutations(Workers)
=============================================================================
