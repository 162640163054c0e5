----------------------------- MODULE PacketHeap -----------------------------
(***************************************************************************)
(* What the packet allocator promises (PacketAllocator.h): blocks of which  *)
(* no two overlap while they are live, and that stay where they are until   *)
(* they are freed, shrunk in place or moved by Reallocate().  That a block  *)
(* has the size asked for is not part of it.                                *)
(*                                                                         *)
(* A block is the memory it lies in, its first unit and its units.          *)
(***************************************************************************)
EXTENDS Naturals, FiniteSets

VARIABLE live   \* the live blocks

Extent(b) == {b[1]} \X (b[2] .. b[2] + b[3] - 1)

(* The blocks a step adds and the ones it removes.                          *)
Added == live' \ live
Removed == live \ live'

(* Allocate(), and Reallocate() that moves: both blocks are live while the  *)
(* contents are copied.                                                     *)
Fits(b) == \A c \in live : Extent(b) \cap Extent(c) = {}

(* Shrink(): the front of a block that is no longer there.                  *)
Shrinks(b) == \E c \in Removed : b[1] = c[1] /\ b[2] = c[2] /\ b[3] < c[3]

Init == live = {}

Next ==
    /\ Cardinality(Added) <= 1 /\ Cardinality(Removed) <= 1
    /\ \A b \in Added : b[3] > 0 /\ (Fits(b) \/ Shrinks(b))

Spec == Init /\ [][Next]_live

=============================================================================
