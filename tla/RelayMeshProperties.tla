------------------------ MODULE RelayMeshProperties ------------------------
(***************************************************************************)
(* What the mesh of relay publishers promises.                             *)
(***************************************************************************)
EXTENDS RelayMesh

CONSTANT Lasting  \* pairs of Reach whose dials do not fail for ever

VARIABLE outage   \* may the public network be gone for ever?

(* A dial from n reaches p.                                                *)
Reaches(n, p) ==
    \/ pass[n].dial # None /\ pass[n].dial.peer = p /\ PassDials(n, TRUE)
    \/ \E j \in jobs : j.node = n /\ j.rec.peer = p /\ JobDials(j, TRUE)

(* Passes come with every interval and end, dials end in time, and of the  *)
(* dials that can reach a peer some do.                                    *)
PrivateFairness ==
    /\ WF_vars(Tick)
    /\ \A n \in Nodes :
         /\ WF_vars(StartPass(n, TRUE))
         /\ WF_vars(\E r \in pass[n].todo : PassLooks(n, r))
         /\ WF_vars(\/ \E b \in BOOLEAN : PassDials(n, b)
                    \/ \E c \in Public : PassEnds(n, c))
         /\ WF_vars(\E j \in jobs : j.node = n /\ (JobLooks(j) \/ \E b \in BOOLEAN : JobDials(j, b)))
         /\ \A p \in Nodes \ {n} :
              /\ <<n, p>> \in Lasting => SF_vars(Reaches(n, p))
              /\ WF_vars(~node[p].up /\ Expire(n, p))

(* Publications are repeated, the public connection is made now and then,  *)
(* and of the records that reach its pubsub some are delivered, unless     *)
(* there is an outage.                                                     *)
PublicFairness ==
    \A n \in Nodes :
        /\ WF_vars(~outage /\ Publish(n))
        /\ SF_vars(~outage /\ (PassEnds(n, "connection") \/ PassEnds(n, "peers")))
        /\ \A p \in Nodes \ {n} :
             SF_vars(~outage /\ \E m \in wire : m.to = n /\ m.rec.peer = p /\ Hear(m))

-----------------------------------------------------------------------------
(* The higher identifier of a pair starts a dial only when it has found    *)
(* the link missing in every look of a whole fallback window, whatever     *)
(* handlers, passes and restarts did in between.                           *)
LosersWait ==
    [][\A n \in Nodes : \A r \in Dials(n)' \ Dials(n) :
          n > r.peer => seen[n][r.peer] = Window]_vars

-----------------------------------------------------------------------------
Pairs == {q \in Lasting : q[1] # q[2]}
Running(n) == node[n].up

(* What n holds of p is true of the p that runs.                           *)
HoldsTrueRecord(n, p) == book[n].cache[p] = [at |-> node[p].at, live |-> TRUE]

(* Two publishers that stay up, one of which can reach the other, end up   *)
(* connected for good, whichever of the two that is and whatever was lost, *)
(* stopped or restarted before ("designed to converge without operator     *)
(* intervention").  In an outage of the public network, that one only      *)
(* needs to keep a record of the other.                                    *)
MeshConverges ==
    \A q \in Pairs :
        <>[](/\ Running(q[1]) /\ Running(q[2])
             /\ outage => HoldsTrueRecord(q[1], q[2])) => <>[]({q[1], q[2]} \in links)

(* A publisher that is gone for good is not missed for ever: a peer that   *)
(* is known and cannot be dialled would make every pass go to the public   *)
(* network.                                                                *)
DepartedAreForgotten ==
    \A n, p \in Nodes : n # p => (<>[](~Running(p)) => <>[](p \notin book[n].known))
=============================================================================
