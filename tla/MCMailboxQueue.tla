--------------------------- MODULE MCMailboxQueue ----------------------------
(* One mailbox id, two readers: deliveries, acknowledgements, readers that   *)
(* come and go, retention and recreation.                                    *)
EXTENDS MailboxProperties, TLC

CONSTANTS r1, r2, e1, e2, w1, w2

Symmetry == Permutations({r1, r2}) \cup Permutations({e1, e2}) \cup Permutations({w1, w2})
=============================================================================
