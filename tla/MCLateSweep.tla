---------------------------- MODULE MCLateSweep -----------------------------
(* One blob that an upload completes while the sweep goes on.                *)
EXTENDS PrivateBlobProperties, TLC

CONSTANT b1

MCSizeOf == b1 :> 1
MCOwnerOf == b1 :> "alice"
MCSettings == {[blob |-> 2, mailbox |-> 1]}
=============================================================================
