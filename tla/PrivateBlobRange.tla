-------------------------- MODULE PrivateBlobRange --------------------------
(***************************************************************************)
(* Byte windows of a stored blob (PrivateBlobByteRange) and a reader that  *)
(* fetches a blob piece by piece with them, as a resumed download does.    *)
(* Windows are inclusive.                                                  *)
(***************************************************************************)
EXTENDS Integers, FiniteSets

CONSTANTS Sizes,    \* sizes blobs may have
          Numbers   \* numbers a Range header may carry

ASSUME RangeAssumption == Sizes \subseteq Nat \ {0} /\ Numbers \subseteq Nat

Requests ==
         [kind : {"suffix"}, length : Numbers]
    \cup [kind : {"from"}, first : Numbers]
    \cup [kind : {"window"}, first : Numbers, last : Numbers]
    \cup [kind : {"invalid"}]

Refused == [start |-> 0, end |-> -1]

(* PrivateBlobByteRange.of: refused with the size, HTTP status 416.        *)
Of(start, end, size) ==
    IF 0 <= start /\ start <= end /\ end < size THEN [start |-> start, end |-> end]
                                                ELSE Refused

(* Mutants: a suffix longer than the blob is refused; a window is not cut  *)
(* to the blob.                                                            *)
LongSuffixRefused(request, size) == Of(size - request.length, size - 1, size)
OfSuffix(request, size) ==
    Of(IF size > request.length THEN size - request.length ELSE 0, size - 1, size)

UncutWindow(request, size) == Of(request.first, request.last, size)
OfWindow(request, size) ==
    Of(request.first, IF request.last < size - 1 THEN request.last ELSE size - 1, size)

Resolve(request, size) ==
    CASE request.kind = "suffix"  -> OfSuffix(request, size)
      [] request.kind = "window"  -> OfWindow(request, size)
      [] request.kind = "from"    -> Of(request.first, size - 1, size)
      [] request.kind = "invalid" -> Refused

(* GetPrivateBlobRoute: the Content-Length of a partial answer.            *)
Length(range) == range.end - range.start + 1

-----------------------------------------------------------------------------
VARIABLES size, have, complete   \* the blob, the bytes received, the last answer was 416
rangeVars == <<size, have, complete>>

RangeInit == size \in Sizes /\ have = 0 /\ complete = FALSE

(* The next piece of n bytes at most.                                      *)
Piece(n) == Resolve([kind |-> "window", first |-> have, last |-> have + n - 1], size)

Fetch(n) ==
    /\ ~complete
    /\ have' = have + Length(Piece(n))
    /\ complete' = (Piece(n) = Refused)
    /\ UNCHANGED size

RangeNext == \E n \in Numbers \ {0} : Fetch(n)
RangeSpec == RangeInit /\ [][RangeNext]_rangeVars

-----------------------------------------------------------------------------
(* The positions a request names in a blob (RFC 9110, cited at             *)
(* PrivateBlobByteRange.ts:25).                                            *)
Named(request, n) ==
    {i \in 0 .. n - 1 :
        \/ request.kind = "suffix" /\ n - i <= request.length
        \/ request.kind = "from"   /\ request.first <= i
        \/ request.kind = "window" /\ request.first <= i /\ i <= request.last}

(* Every request is answered with exactly the positions it names in the    *)
(* blob, and refused if there are none (PrivateBlobByteRange.ts:26-48).    *)
AnswersAreTheBytesNamed ==
    \A request \in Requests :
        LET answer == Resolve(request, size) IN
        /\ answer.start .. answer.end = Named(request, size)
        /\ answer = Refused <=> Named(request, size) = {}

(* A download in pieces of any lengths never passes the end of the blob,   *)
(* and the first refusal means that every byte was received                *)
(* (PrivateBlobByteRange.ts:37-44, GetPrivateBlobRoute.ts).                *)
RefusedOnlyAtTheEnd == have <= size /\ (complete => have = size)
=============================================================================
