----------------------------- MODULE BlobStore -----------------------------
(***************************************************************************)
(* What the blob cache promises the proxy, without files, mutexes or       *)
(* counters: a set of complete blobs that grows one blob at a time and,    *)
(* but for blobs it has overlooked when it opened, only up to its limit,   *)
(* never changes one, survives the process, and lends a reader one whole   *)
(* blob whatever happens to the store meanwhile.                           *)
(***************************************************************************)
EXTENDS Integers, Functions

CONSTANTS
    Readers,   \* goroutines that may hold an open blob
    Digests

VARIABLES
    held,      \* digests in the store
    length,    \* bytes of each of them, 0 for the others
    limit,     \* bytes the store may grow to; 0 while it is closed
    isOpen,
    overlooked, \* bytes it does not charge to its limit
    view       \* per reader: the blob it has open, or Nothing

storeVars == <<held, length, limit, isOpen, overlooked, view>>

Nothing        == <<>>
Whole(d)       == [digest |-> d, told |-> length[d], body |-> length[d]]
TotalLength    == SumFunctionOnSet(length, held)
NoViews        == [r \in Readers |-> Nothing]

StoreInit ==
    /\ held = {} /\ length = [d \in Digests |-> 0]
    /\ limit = 0 /\ isOpen = FALSE /\ overlooked = 0 /\ view = NoViews

\* Opening decides the limit; what is there already may exceed it, or be
\* overlooked.
OpenStore ==
    /\ ~isOpen /\ isOpen' = TRUE /\ limit' \in Nat
    /\ overlooked' \in 0 .. TotalLength
    /\ UNCHANGED <<held, length, view>>

\* The end of a process takes the readers with it, not the blobs.
CloseStore ==
    /\ isOpen' = FALSE /\ limit' = 0 /\ overlooked' = 0 /\ view' = NoViews
    /\ UNCHANGED <<held, length>>

Charged == TotalLength - overlooked

InsertBlob(d) ==
    /\ isOpen /\ d \notin held
    /\ \E n \in 0 .. limit - Charged :
          /\ held' = held \cup {d}
          /\ length' = [length EXCEPT ![d] = n]
    /\ UNCHANGED <<limit, isOpen, overlooked, view>>

\* A blob given to the store again stays what it is and is charged once more.
ChargeAgain(d) ==
    /\ isOpen /\ d \in held
    /\ Charged + length[d] <= limit
    /\ overlooked' = overlooked - length[d]
    /\ UNCHANGED <<held, length, limit, isOpen, view>>

DropBlob(d) ==
    /\ isOpen /\ d \in held
    /\ held' = held \ {d}
    /\ length' = [length EXCEPT ![d] = 0]
    /\ UNCHANGED <<limit, isOpen, overlooked, view>>

Lend(r, d) ==
    /\ isOpen /\ d \in held /\ view[r] = Nothing
    /\ view' = [view EXCEPT ![r] = Whole(d)]
    /\ UNCHANGED <<held, length, limit, isOpen, overlooked>>

GiveBack(r) ==
    /\ view[r] # Nothing
    /\ view' = [view EXCEPT ![r] = Nothing]
    /\ UNCHANGED <<held, length, limit, isOpen, overlooked>>

StoreNext == \/ OpenStore \/ CloseStore
             \/ \E d \in Digests : InsertBlob(d) \/ ChargeAgain(d) \/ DropBlob(d)
             \/ \E r \in Readers : GiveBack(r) \/ \E d \in Digests : Lend(r, d)

StoreSpec == StoreInit /\ [][StoreNext]_storeVars
=============================================================================
