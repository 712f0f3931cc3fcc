---------------------------- MODULE MCHeldHeads ----------------------------
(***************************************************************************)
(* Two networks that hold copies of two keys.  In "bounds" network A has   *)
(* room for one copy, restores its own head of k and is sent heads of both *)
(* keys.  In "networks" heads of k reach both networks.  In "flood" peers  *)
(* send heads that never prove out to B, for ever; else they send Sends.   *)
(***************************************************************************)
EXTENDS HeldHeadProperties, TLC

CONSTANTS h1, h2, h3
VARIABLES focus, sent

MCKeyOf == h1 :> "k" @@ h2 :> "k" @@ h3 :> "l"
MCVersion == h1 :> 1 @@ h2 :> 2 @@ h3 :> 1
MCOwn == "A" :> {h1} @@ "B" :> {}
Sends == "bounds" :> 2 @@ "networks" :> 2 @@ "flood" :> 1

MCInit == HeadInit /\ focus \in {"bounds", "networks", "flood"} /\ sent = 0

(* An offer that finds its copy pending changes nothing and is left out.   *)
MCNext ==
    /\ \/ Peers /\ sent < Sends[focus] /\ sent' = IF focus = "flood" THEN 0 ELSE sent + 1
       \/ (Node \/ Pass) /\ sent' = sent
    /\ UNCHANGED focus /\ OwnHeadsFirst
    /\ \A n \in Networks, k \in Keys :
         headStore'[n][k] # None =>
           /\ focus = "bounds" => n = "A"
           /\ focus = "networks" => k = "k"
           /\ focus = "flood" => n = "B"
    /\ \A n \in Networks, h \in Heads : offering'[n][h] # "pending"
    /\ focus # "networks" => gate'[h3] = "pending"
    /\ focus = "networks" => \A h \in Heads : gate'[h] # "refused"
    /\ focus = "flood" => hydrated' = hydrated /\ \A h \in Heads : gate'[h] = "pending"
    /\ focus # "flood" => rescanFailures' = 0 /\ ~\E k \in Keys : WriteLocally(k)

MCSpec == MCInit /\ [][MCNext]_<<headVars, focus, sent>> /\ HeadFairness
=============================================================================
