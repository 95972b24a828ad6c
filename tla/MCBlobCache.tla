---------------------------- MODULE MCBlobCache ----------------------------
(* An instance of BlobCache for TLC.  Sizes and limits are chosen so that a *)
(* Put may need no eviction, one or two, or be too large for the cache.     *)
EXTENDS BlobCache

CONSTANTS p1, p2, a, c

\* What a caller that knows the Content-Length hands over: the size is true.
Honest == {[digest |-> a, size |-> 1, body |-> 1],
           [digest |-> c, size |-> 2, body |-> 2]}

\* Any file operation may fail.
AllFaults == FileOps

LargeAndSmall == {3, 1}
=============================================================================
