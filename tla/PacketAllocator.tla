-------------------------- MODULE PacketAllocator --------------------------
(***************************************************************************)
(* The allocator of packet buffers (PacketAllocator.h, .cpp).  Memory comes *)
(* in windows of WindowMaxUnits units with a bit for each unit in use.      *)
(* PreferredWindows are searched from the last to the first, each from the  *)
(* place where the search before ended; windows in which it fails move to   *)
(* FullWindows and come back when three quarters of them are free again.    *)
(* Large requests go to calloc(): a memory of its own for each.             *)
(*                                                                         *)
(* One thread at a time uses an allocator (BufferAllocator locks it, or its *)
(* owner's strand does).  It implements PacketHeap.                         *)
(***************************************************************************)
EXTENDS Integers, Sequences, FiniteSets, FiniteSetsExt, Functions

CONSTANTS
    UnitSize,            \* kUnitSize, in bytes
    WindowMaxUnits,      \* kWindowMaxUnits
    Windows,             \* windows there can be, 1 .. their number; a bound
    PreallocatedWindows, \* kPreallocatedWindows
    Large,               \* fallback blocks there can be; a bound
    Requests,            \* the numbers of bytes asked for
    MaxBlocks            \* bound: live blocks

ASSUME AllocatorAssumption ==
    /\ UnitSize \in Nat \ {0} /\ WindowMaxUnits \in Nat \ {0}
    /\ PreallocatedWindows \in Nat /\ 1 .. PreallocatedWindows \subseteq Windows
    /\ Windows \subseteq Nat /\ Windows \cap Large = {}
    /\ Requests \subseteq Nat /\ MaxBlocks \in Nat

VARIABLES
    window,            \* header of each window
    PreferredWindows,
    FullWindows,
    headers            \* the AllocationHeaders in use: memory, GetUnitStart()
                       \*   and UsedUnits of each

allocatorVars == <<window, PreferredWindows, FullWindows, headers>>

NotInFullList == -1
FallbackThresholdUnits == WindowMaxUnits \div 4
PreferredThresholdUnits == (3 * WindowMaxUnits) \div 4

Units(bytes) == (bytes + UnitSize - 1) \div UnitSize + 1

Emptied == [Used |-> {}, FreeUnitCount |-> WindowMaxUnits,
            ResumeScanOffset |-> 0, FullListIndex |-> NotInFullList]

AllocatorInit ==
    /\ window = [w \in Windows |-> Emptied]
    /\ PreferredWindows = [i \in 1 .. PreallocatedWindows |-> i]
    /\ FullWindows = <<>>
    /\ headers = {}

-----------------------------------------------------------------------------
(* The state of the allocator as one value, so that Reallocate() can be      *)
(* Allocate() followed by Free().                                           *)
Now == [window |-> window, preferred |-> PreferredWindows,
        full |-> FullWindows, headers |-> headers]

Become(a) ==
    /\ window' = a.window /\ headers' = a.headers
    /\ PreferredWindows' = a.preferred /\ FullWindows' = a.full

(* Where the walk over the holes of w from its ResumeScanOffset can end.    *)
Holes(w, units) ==
    {s \in w.ResumeScanOffset .. WindowMaxUnits - units :
        (s .. s + units - 1) \cap w.Used = {}}

(* The preferred windows in which a block of units is found.                *)
Fitting(a, units) ==
    {i \in DOMAIN a.preferred :
        LET w == a.window[a.preferred[i]]
        IN  w.FreeUnitCount >= units /\ Holes(w, units) # {}}

(* Fault: the index is the place in the list before the move.               *)
BugMoveLastFewWindowsToFull(a, count) ==
    LET kept == Len(a.preferred) - count
        moved == [i \in 1 .. count |-> a.preferred[Len(a.preferred) + 1 - i]]
    IN  [a EXCEPT
           !.window = [w \in DOMAIN a.window |->
               IF \E i \in 1 .. count : moved[i] = w
               THEN [a.window[w] EXCEPT !.FullListIndex = Len(a.full)]
               ELSE a.window[w]],
           !.preferred = SubSeq(a.preferred, 1, kept),
           !.full = a.full \o moved]

MoveLastFewWindowsToFull(a, count) ==
    LET kept == Len(a.preferred) - count
        moved == [i \in 1 .. count |-> a.preferred[Len(a.preferred) + 1 - i]]
    IN  [a EXCEPT
           !.window = [w \in DOMAIN a.window |->
               IF \E i \in 1 .. count : moved[i] = w
               THEN [a.window[w] EXCEPT !.FullListIndex =
                        Len(a.full) + (CHOOSE i \in 1 .. count : moved[i] = w) - 1]
               ELSE a.window[w]],
           !.preferred = SubSeq(a.preferred, 1, kept),
           !.full = a.full \o moved]

(* A region of w is carved out at s.                                        *)
Carve(a, w, s, units) ==
    LET carved == [a.window[w] EXCEPT
            !.Used = @ \cup (s .. s + units - 1),
            !.FreeUnitCount = @ - units,
            !.ResumeScanOffset = s + units]
    IN  [a EXCEPT !.window[w] = carved,
                  !.headers = a.headers \cup {<<w, s, units>>}]

(* fallbackAllocate(): a memory of its own.                                 *)
FallbackAllocate(a, units) ==
    {[heap |-> [a EXCEPT !.headers = @ \cup {<<m, 0, units>>}], found |-> TRUE] :
        m \in {l \in Large : \A h \in a.headers : h[1] # l}}
      \cup {[heap |-> a, found |-> FALSE]}

(* allocateFromNewWindow(), which calloc() may refuse.                      *)
AllocateFromNewWindow(a, units) ==
    LET unused == Windows \ (Range(a.preferred) \cup Range(a.full))
        w == Min(unused)
        added == [a EXCEPT !.window[w] = Emptied,
                           !.preferred = Append(a.preferred, w)]
    IN  {[heap |-> a, found |-> FALSE]}
          \cup IF unused = {} THEN {}
               ELSE {[heap |-> Carve(added, w, 0, units), found |-> TRUE]}

(* Allocate() from the last preferred window that has a hole.  The windows  *)
(* behind it failed; it goes with them if a block of the same size would    *)
(* not fit behind this one.                                                 *)
AllocateFromPreferred(a, units) ==
    LET i == Max(Fitting(a, units))
        w == a.preferred[i]
        s == Min(Holes(a.window[w], units))
        failed == Len(a.preferred) - i
        count == IF s + 2 * units > WindowMaxUnits THEN failed + 1 ELSE failed
    IN  [heap |-> MoveLastFewWindowsToFull(Carve(a, w, s, units), count),
         found |-> TRUE]

(* What Allocate() can do.                                                  *)
Allocated(a, units) ==
    IF units > FallbackThresholdUnits THEN FallbackAllocate(a, units)
    ELSE IF Fitting(a, units) # {} THEN {AllocateFromPreferred(a, units)}
    ELSE AllocateFromNewWindow(
             MoveLastFewWindowsToFull(a, Len(a.preferred)), units)

(* The units of h behind the first kept ones are given back, and the search *)
(* resumes there.                                                           *)
GiveBack(a, h, kept) ==
    LET end == h[2] + h[3]
        start == h[2] + kept
        returned == [a.window[h[1]] EXCEPT
            !.ResumeScanOffset = Min({@, start}),
            !.Used = @ \ (start .. end - 1),
            !.FreeUnitCount = @ + end - start]
    IN  [a EXCEPT !.window[h[1]] = returned,
                  !.headers = (a.headers \ {h})
                      \cup IF kept = 0 THEN {} ELSE {<<h[1], h[2], kept>>}]

(* Free(), of a full window that is nearly free: the last window of the     *)
(* full list takes its place there.                                         *)
Promote(a, w) ==
    LET i == a.window[w].FullListIndex + 1
        last == a.full[Len(a.full)]
        short == SubSeq(a.full, 1, Len(a.full) - 1)
    IN  [a EXCEPT
           !.window = [a.window EXCEPT
               ![last].FullListIndex = i - 1,
               ![w].FullListIndex = NotInFullList,
               ![w].ResumeScanOffset = 0],
           !.preferred = Append(a.preferred, w),
           !.full = IF i = Len(a.full) THEN short ELSE [short EXCEPT ![i] = last]]

Freed(a, h) ==
    IF h[1] \in Large THEN [a EXCEPT !.headers = @ \ {h}]
    ELSE LET b == GiveBack(a, h, 0)
             w == b.window[h[1]]
         IN  IF w.FreeUnitCount >= PreferredThresholdUnits
                  /\ w.FullListIndex # NotInFullList
             THEN Promote(b, h[1]) ELSE b

-----------------------------------------------------------------------------
Allocate(bytes) == \E r \in Allocated(Now, Units(bytes)) : Become(r.heap)

Free(h) == Become(Freed(Now, h))

(* Shrink(): a fallback block keeps its size.                               *)
Shrink(h, bytes) ==
    /\ Units(bytes) < h[3]
    /\ h[1] \in Windows
    /\ Become(GiveBack(Now, h, Units(bytes)))

(* Fault: the old block is freed before its contents are copied.            *)
BugReallocate(h, bytes) ==
    /\ Units(bytes) > h[3]
    /\ \E r \in Allocated(Freed(Now, h), Units(bytes)) : Become(r.heap)

(* Reallocate() that has to move the block; on failure the old one stays.   *)
Reallocate(h, bytes) ==
    /\ Units(bytes) > h[3]
    /\ \E r \in Allocated(Now, Units(bytes)) :
         Become(IF r.found THEN Freed(r.heap, h) ELSE r.heap)

AllocatorNext ==
    \/ \E bytes \in Requests : Cardinality(headers) < MaxBlocks /\ Allocate(bytes)
    \/ \E h \in headers : Free(h)
    \/ \E h \in headers, bytes \in Requests : Shrink(h, bytes) \/ Reallocate(h, bytes)

AllocatorSpec == AllocatorInit /\ [][AllocatorNext]_allocatorVars

-----------------------------------------------------------------------------
(* Properties *)

Heap == INSTANCE PacketHeap WITH live <- headers

(* Whatever the order of requests, no two live blocks overlap, a block has  *)
(* the units asked for, and it moves only in Reallocate(): the bits, the    *)
(* search and the lists of windows never hand out a unit twice.             *)
ImplementsHeap == Heap!Spec

Extents(w) == UNION {h[2] .. h[2] + h[3] - 1 : h \in {g \in headers : g[1] = w}}

(* Every window is in one list, once, and knows its place in the full list; *)
(* its bits are those of its live blocks and FreeUnitCount counts the rest  *)
(* (IntegrityCheck).                                                        *)
IntegrityCheck ==
    LET lists == PreferredWindows \o FullWindows
    IN  /\ \A i, j \in DOMAIN lists : lists[i] = lists[j] => i = j
        /\ 1 .. PreallocatedWindows \subseteq Range(lists)
        /\ \A w \in Range(PreferredWindows) : window[w].FullListIndex = NotInFullList
        /\ \A i \in DOMAIN FullWindows : window[FullWindows[i]].FullListIndex = i - 1
        /\ \A w \in Range(lists) :
             /\ window[w].Used = Extents(w)
             /\ window[w].FreeUnitCount = WindowMaxUnits - Cardinality(Extents(w))
             /\ window[w].ResumeScanOffset \in 0 .. WindowMaxUnits

(* A window on the full list holds a live block: when its last block is     *)
(* freed it comes back to the preferred list, so no memory is lost to       *)
(* later requests (Free, and the move to the full list in Allocate).  This  *)
(* needs requests of similar sizes: one that is much larger than the others *)
(* can fail in an empty window whose search resumes near its end.           *)
NoWindowLost == \A i \in DOMAIN FullWindows : Extents(FullWindows[i]) # {}

(* A preferred window has a free unit, as IntegrityCheck() asserts.         *)
PreferredHasRoom ==
    \A i \in DOMAIN PreferredWindows : window[PreferredWindows[i]].FreeUnitCount > 0

=============================================================================
