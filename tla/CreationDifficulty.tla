-------------------------- MODULE CreationDifficulty ---------------------------
(***************************************************************************)
(* The proof of work a creation must carry (MailboxCreationDifficulty): a   *)
(* function of the mailboxes a node has and of its capacity.  A restart may *)
(* lower the capacity below what is stored.                                 *)
(***************************************************************************)
EXTENDS Integers, FiniteSets

MinBits == 16
MaxBits == 20

Ceil(a, b) == (a + b - 1) \div b

BitsFor(count, max) ==
    IF max <= 0 THEN MaxBits
    ELSE IF 2 * count <= max THEN MinBits
    ELSE LET steps == Ceil((2 * count - max) * 4, max)
         IN  MinBits + IF steps < MaxBits - MinBits THEN steps ELSE MaxBits - MinBits

(* The bits are the lowest up to half of the capacity and gain one at each  *)
(* of the four eighths above it (MailboxCreationDifficulty.ts:17-28).       *)
OneBitPerEighth(count, max) ==
    BitsFor(count, max) = MinBits + Cardinality({k \in 4 .. 7 : 8 * count > k * max})

(* A node at or over its capacity asks for the most, also when its capacity *)
(* is configured to nothing (MailboxCreationDifficulty.ts:13-15).           *)
FullIsHardest(count, max) == count >= max => BitsFor(count, max) = MaxBits

(* A fuller node never asks for less (MailboxCreationDifficulty.ts:3-6).    *)
FullerIsNoEasier(count, more, max) ==
    count <= more => BitsFor(count, max) <= BitsFor(more, max)
=============================================================================
