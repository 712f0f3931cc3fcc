---------------------------- MODULE MCRelayMesh ----------------------------
(***************************************************************************)
(* Two publishers, of which only the higher one can be relied on to reach  *)
(* the other: the link depends on the fallback.  In an outage a link drops *)
(* or a public connection changes; else the higher one restarts.           *)
(***************************************************************************)
EXTENDS RelayMeshProperties, TLC

CONSTANT a1

MCReach == {<<1, 2>>, <<2, 1>>}
MCLasting == {<<2, 1>>}
MCLives == 1 :> 1 @@ 2 :> 2

MCInit == Init /\ outage \in BOOLEAN

(* Records are refreshed before they expire: only those of a publisher     *)
(* that is gone, or listens elsewhere by now, come to their end.           *)
Refresh ==
    \A n, p \in Nodes :
        (\E a \in Addresses : /\ book[n].cache[p] = [at |-> a, live |-> TRUE]
                              /\ book'[n].cache[p] = [at |-> a, live |-> FALSE])
          => ~node[p].up \/ book[n].cache[p].at # node[p].at

(* One message or handler is under way at a time.                          *)
MCNext ==
    /\ Next /\ UNCHANGED outage /\ Refresh
    /\ Cardinality(wire') + Cardinality(asked') + Cardinality(jobs') <= 1
    /\ IF outage THEN node'[2].life <= 1 ELSE faults' = 0

MCSpec == MCInit /\ [][MCNext]_<<vars, outage>> /\ PrivateFairness /\ PublicFairness
=============================================================================
