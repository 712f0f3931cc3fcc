---------------------------- MODULE MCCallSignals ----------------------------
(* Either one signal that two nodes hear, send and own, or two signals     *)
(* that share the timer of one node.                                       *)
EXTENDS CallSignalProperties
CONSTANTS n1, n2, s1, s2
VARIABLE focus
ASSUME Nodes = {n1, n2} /\ Signals = {s1, s2}

MCOffset == [n \in Nodes |-> IF n = n1 THEN 1 ELSE 0]
MCCreated == [s \in Signals |-> IF s = s1 THEN 2 ELSE 0]
MCRetryOffsets == <<0, 1, 2>>

InFocus(n, s) == IF focus = "owners" THEN s = s1 ELSE n = n2

MCInit == SignalInit /\ focus \in {"owners", "timer"}
MCNext == /\ SignalNext
          /\ UNCHANGED focus
          /\ \A n \in Nodes, s \in Signals : InFocus(n, s) \/
               /\ <<n, s>> \notin sending'
               /\ deliveries'[n][s] = NoDelivery
MCSpec == MCInit /\ [][MCNext]_<<signalVars, focus>> /\ SignalFairness
=============================================================================
