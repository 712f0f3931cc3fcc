---------------------------- MODULE MCMailboxHints -----------------------------
(* Sockets and subscribe messages beside the mailbox handlers.               *)
EXTENDS MailboxHints, TLC

CONSTANTS r1, r2

Symmetry == Permutations({r1, r2})
=============================================================================
