-------------------------- MODULE MCMailboxLiveness -------------------------
(***************************************************************************)
(* The smallest node, whose requests never stop; or, while it rests, the   *)
(* append bucket of one mailbox by itself on a longer clock.               *)
(***************************************************************************)
EXTENDS MailboxProperties, AppendRate

VARIABLE metering

MCInit == Init /\ RateInit /\ metering \in BOOLEAN

MCNext ==
    /\ UNCHANGED metering
    /\ \/ metering /\ RateNext /\ UNCHANGED vars
       \/ ~metering /\ Next /\ UNCHANGED rateVars

MCSpec ==
    /\ MCInit /\ [][MCNext]_<<vars, rateVars, metering>>
    /\ ~metering => Fairness
=============================================================================
