---------------------------- MODULE MCMailboxNode ----------------------------
(***************************************************************************)
(* Three mailbox ids on a node with room for one or two: creations that     *)
(* evict, a limit that a restart lowers, removals, the shared counters, and *)
(* a clock that passes a retention.                                         *)
(***************************************************************************)
EXTENDS MailboxProperties, TLC

CONSTANTS id1, id2, id3, w1, w2

Symmetry == Permutations({id1, id2, id3}) \cup Permutations({w1, w2})

(* Bounds: the last tick comes to a node with room for two that has met no *)
(* fault, holds only the smaller envelopes and has lost every page so far; *)
(* from then on it is asked for creations, such appends, and reads, beside *)
(* the sweep.                                                              *)
MCConstraint ==
    now = MaxTime =>
        /\ faults = 0 /\ maxMailboxes = 2
        /\ \A r \in Readers, id \in Ids : position[r][id] = 0
        /\ \A id \in live : \A e \in envelopes[id] : e.size = 1
        /\ \A w \in Workers : inflight[w] # Idle =>
              /\ inflight[w].req.op \in {"create", "append", "read", "expire"}
              /\ inflight[w].req.op = "append" => inflight[w].req.size = 1
=============================================================================
