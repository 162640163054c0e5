------------------------ MODULE PacketAllocatorProofs ------------------------
(***************************************************************************)
(* Proofs about the packet allocator: its bookkeeping is exact after every  *)
(* call (IntegrityCheck), and it implements PacketHeap.                     *)
(*                                                                         *)
(* The invariant, Exact, is about the allocator as one value (Now), because *)
(* Reallocate() frees in the state that Allocate() left.  IntegrityCheck    *)
(* alone is not inductive: it says nothing of blocks that overlap, which    *)
(* share bits, nor that a block ends inside its window, nor that a block of *)
(* a window belongs to a listed one.  The proofs go from the lists of       *)
(* windows, and the blocks and bits, to each step of the code (Carve,       *)
(* GiveBack, MoveLastFewWindowsToFull, Promote), and from these to the four *)
(* calls.                                                                   *)
(***************************************************************************)
EXTENDS PacketAllocator, FiniteSetTheorems, TLAPS

(* The header of a window, and the state of the allocator as one value.     *)
WindowHeaders ==
    [Used : SUBSET (0 .. WindowMaxUnits - 1), FreeUnitCount : Int,
     ResumeScanOffset : 0 .. WindowMaxUnits, FullListIndex : Int]

Blocks == (Windows \cup Large) \X Nat \X (Nat \ {0})

Allocators ==
    [window : [Windows -> WindowHeaders], preferred : Seq(Windows),
     full : Seq(Windows), headers : SUBSET Blocks]

Listed(a) == Range(a.preferred) \cup Range(a.full)

(* What the headers of the windows say, field by field.                     *)
Places(a) == [w \in Windows |-> a.window[w].FullListIndex]
Bits(a) == [w \in Windows |-> a.window[w].Used]
Frees(a) == [w \in Windows |-> a.window[w].FreeUnitCount]

(* Every window is in one list, once, and knows its place in the full list. *)
ListsExact(pre, full, place) ==
    /\ \A i, j \in 1 .. Len(pre) : pre[i] = pre[j] => i = j
    /\ \A i \in 1 .. Len(pre) : place[pre[i]] = NotInFullList
    /\ \A i \in 1 .. Len(full) : place[full[i]] = i - 1

Covers(h, w, u) == h[1] = w /\ h[2] <= u /\ u < h[2] + h[3]

Apart(g, h) == g[1] # h[1] \/ g[2] + g[3] <= h[2] \/ h[2] + h[3] <= g[2]

(* The bits of a window are those of its live blocks, and no two overlap.   *)
BlocksExact(blocks, listed, bits) ==
    /\ \A h \in blocks : h[1] \in Windows => h[1] \in listed /\ h[2] + h[3] <= WindowMaxUnits
    /\ \A g, h \in blocks : g = h \/ Apart(g, h)
    /\ \A w \in listed : \A u \in Nat :
          u \in bits[w] <=> \E h \in blocks : Covers(h, w, u)

CountsExact(listed, bits, frees) ==
    \A w \in listed : frees[w] = WindowMaxUnits - Cardinality(bits[w])

Exact(a) ==
    /\ a \in Allocators /\ 1 .. PreallocatedWindows \subseteq Listed(a)
    /\ ListsExact(a.preferred, a.full, Places(a))
    /\ BlocksExact(a.headers, Listed(a), Bits(a))
    /\ CountsExact(Listed(a), Bits(a), Frees(a))

AllocatorIInv == Exact(Now)

-----------------------------------------------------------------------------
(* A set of naturals that is not empty has a least element, and a bounded   *)
(* one a greatest (Min and Max, where the code takes the first or the last).*)
LEMMA Smallest ==
    ASSUME NEW S \in SUBSET Nat, S # {}
    PROVE  Min(S) \in S /\ \A y \in S : Min(S) <= y
<1>1. IsWellFoundedOn(OpToRel(<, Nat), Nat)
  BY NatLessThanWellFounded, Zenon
<1>2. \E x \in S : \A y \in S : ~(<<y, x>> \in OpToRel(<, Nat))
  BY <1>1, WFMin, Zenon
<1>3. \A x, y \in Nat : ~(<<y, x>> \in OpToRel(<, Nat)) => x <= y
  BY DEF OpToRel
<1>4. \E x \in S : \A y \in S : x <= y
  BY <1>2, <1>3, Zenon
<1> QED
  BY <1>4, Zenon DEF Min

(* The last of the preferred windows that has a hole is one of them (Max, in *)
(* the search of Allocate).                                                 *)
LEMMA Greatest ==
    ASSUME NEW n \in Nat, NEW S \in SUBSET (1 .. n), S # {}
    PROVE  Max(S) \in S /\ \A y \in S : Max(S) >= y
<1> DEFINE T == {n - x : x \in S}
<1>1. T \in SUBSET Nat /\ T # {}
  <2>1. \A x \in S : n - x \in Nat
    OBVIOUS
  <2> QED
    BY <2>1, Zenon
<1>2. \E t \in T : \A y \in T : t <= y
  <2> HIDE DEF T
  <2> QED
    BY <1>1, Smallest, Zenon
<1>3. PICK m \in S : \A y \in T : n - m <= y
  BY <1>2, Zenon
<1>4. \A y \in S : m >= y
  <2> SUFFICES ASSUME NEW y \in S PROVE m >= y
    BY Zenon
  <2>1. n - m <= n - y
    BY <1>3, Zenon
  <2> QED
    BY <2>1
<1> QED
  BY <1>4, Zenon DEF Max

(* A request takes at least a unit for the header (Allocate).               *)
LEMMA UnitsPositive ==
    ASSUME NEW bytes \in Requests
    PROVE  Units(bytes) \in Nat \ {0}
<1>1. /\ UnitSize \in Nat /\ UnitSize >= 1 /\ bytes \in Nat
  BY AllocatorAssumption
<1> DEFINE n == bytes + UnitSize - 1
<1>2. n \in Nat
  BY <1>1
<1>3. n \div UnitSize \in Nat
  <2> HIDE DEF n
  <2> QED
    BY <1>1, <1>2
<1> HIDE DEF n
<1>4. n \div UnitSize + 1 \in Nat \ {0}
  BY <1>3
<1> QED
  BY <1>4, Zenon DEF Units, n

(* The units a block takes and gives back, counted (FreeUnitCount).         *)
LEMMA CountTaken ==
    ASSUME NEW U \in SUBSET (0 .. WindowMaxUnits - 1), NEW s \in Nat, NEW n \in Nat,
           (s .. s + n - 1) \cap U = {}
    PROVE  Cardinality(U \cup (s .. s + n - 1)) = Cardinality(U) + n
<1> DEFINE R == s .. s + n - 1
<1>1. 0 \in Int /\ WindowMaxUnits - 1 \in Int /\ s \in Int /\ s + n - 1 \in Int
  BY AllocatorAssumption
<1>2. IsFiniteSet(0 .. WindowMaxUnits - 1)
  BY <1>1, FS_Interval, Zenon
<1>3. IsFiniteSet(U)
  BY <1>2, FS_Subset, Zenon
<1>4. IsFiniteSet(R) /\ Cardinality(R) = IF s > s + n - 1 THEN 0 ELSE (s + n - 1) - s + 1
  BY <1>1, FS_Interval, Zenon
<1>5. Cardinality(U \cup R) = Cardinality(U) + Cardinality(R) - Cardinality(U \cap R)
  BY <1>3, <1>4, FS_Union, Zenon
<1>6. U \cap R = {} /\ Cardinality({}) = 0
  BY FS_EmptySet, Zenon
<1>7. Cardinality(U) \in Nat
  BY <1>3, FS_CardinalityType, Zenon
<1>8. Cardinality(R) = n
  <2> HIDE DEF R
  <2> QED
    BY <1>4
<1> HIDE DEF R
<1>9. Cardinality(U \cap R) = 0
  BY <1>6, Zenon
<1>10. Cardinality(U \cup R) = Cardinality(U) + n
  BY <1>5, <1>7, <1>8, <1>9
<1> QED
  BY <1>10, Zenon DEF R

(* The bits of a window can be counted.                                     *)
LEMMA UsedFinite ==
    ASSUME NEW U \in SUBSET (0 .. WindowMaxUnits - 1)
    PROVE  IsFiniteSet(U) /\ Cardinality(U) \in Nat
<1>1. 0 \in Int /\ WindowMaxUnits - 1 \in Int
  BY AllocatorAssumption
<1>2. IsFiniteSet(0 .. WindowMaxUnits - 1)
  BY <1>1, FS_Interval, Zenon
<1> QED
  BY <1>2, FS_Subset, FS_CardinalityType, Zenon

(* FreeUnitCount grows by the units that Free() and Shrink() clear.         *)
LEMMA CountReturned ==
    ASSUME NEW U \in SUBSET (0 .. WindowMaxUnits - 1), NEW s \in Nat, NEW n \in Nat,
           s .. s + n - 1 \subseteq U
    PROVE  Cardinality(U \ (s .. s + n - 1)) = Cardinality(U) - n
<1> DEFINE V == U \ (s .. s + n - 1)
<1>1. V \in SUBSET (0 .. WindowMaxUnits - 1) /\ (s .. s + n - 1) \cap V = {}
  BY Zenon
<1>2. V \cup (s .. s + n - 1) = U
  BY Zenon
<1> HIDE DEF V
<1>3. Cardinality(U) = Cardinality(V) + n
  BY <1>1, <1>2, CountTaken, Zenon
<1>4. Cardinality(V) \in Nat
  BY <1>1, UsedFinite, Zenon
<1>5. Cardinality(V) = Cardinality(U) - n
  BY <1>3, <1>4
<1> QED
  BY <1>5, Zenon DEF V

-----------------------------------------------------------------------------
(* The lists of windows *)

(* The first windows of a list, and a list with windows behind it.          *)
LEMMA FrontIs ==
    ASSUME NEW T, NEW q \in Seq(T), NEW k \in 0 .. Len(q)
    PROVE  /\ SubSeq(q, 1, k) \in Seq(T) /\ Len(SubSeq(q, 1, k)) = k
           /\ \A i \in 1 .. k : SubSeq(q, 1, k)[i] = q[i]
  OBVIOUS

(* A list with another behind it (MoveLastFewWindowsToFull).                *)
LEMMA BehindIs ==
    ASSUME NEW T, NEW q \in Seq(T), NEW r \in Seq(T)
    PROVE  /\ q \o r \in Seq(T) /\ Len(q \o r) = Len(q) + Len(r)
           /\ \A i \in 1 .. Len(q) : (q \o r)[i] = q[i]
           /\ \A i \in 1 .. Len(r) : (q \o r)[Len(q) + i] = r[i]
  OBVIOUS

Follows(s, q, r) == \A i \in 1 .. Len(r) : s[Len(q) + i] = r[i]

(* The windows moved keep their order behind the full list.                 *)
LEMMA FollowsIs ==
    ASSUME NEW T, NEW q \in Seq(T), NEW r \in Seq(T)
    PROVE  Follows(q \o r, q, r)
  BY DEF Follows

(* A list with one more window (PreferredWindows.Append).                   *)
LEMMA AppendIs ==
    ASSUME NEW T, NEW q \in Seq(T), NEW e \in T
    PROVE  /\ Append(q, e) \in Seq(T) /\ Len(Append(q, e)) = Len(q) + 1
           /\ \A i \in 1 .. Len(q) : Append(q, e)[i] = q[i]
           /\ Append(q, e)[Len(q) + 1] = e
  OBVIOUS

(* The windows of a list are its entries.                                   *)
LEMMA RangeIs ==
    ASSUME NEW T, NEW q \in Seq(T)
    PROVE  /\ Len(q) \in Nat /\ \A i \in 1 .. Len(q) : q[i] \in T
           /\ Range(q) = {q[i] : i \in 1 .. Len(q)}
<1>1. DOMAIN q = 1 .. Len(q) /\ Len(q) \in Nat /\ \A i \in 1 .. Len(q) : q[i] \in T
  OBVIOUS
<1> QED
  BY <1>1, Zenon DEF Range

RangeGrows(q, p, e) == Range(p) = Range(q) \cup {e}

(* PreferredWindows.Append adds one window to those of the list.            *)
LEMMA AppendRange ==
    ASSUME NEW T, NEW q \in Seq(T), NEW e \in T
    PROVE  RangeGrows(q, Append(q, e), e)
<1> DEFINE n == Len(q)
           p == Append(q, e)
<1>1. p \in Seq(T) /\ Len(p) = n + 1 /\ (\A i \in 1 .. n : p[i] = q[i]) /\ p[n + 1] = e
  <2>1. p \in Seq(T) /\ Len(p) = n + 1
    BY AppendIs, Zenon
  <2>2. \A i \in 1 .. n : p[i] = q[i]
    OBVIOUS
  <2>3. p[n + 1] = e
    OBVIOUS
  <2> QED
    BY <2>1, <2>2, <2>3, Zenon
<1>2. n \in Nat /\ Range(q) = {q[i] : i \in 1 .. n}
  BY RangeIs, Zenon
<1> HIDE DEF n, p
<1>3. Range(p) = {p[i] : i \in 1 .. Len(p)}
  BY <1>1, RangeIs, Zenon
<1>4. Range(p) = {p[i] : i \in 1 .. n + 1}
  BY <1>1, <1>3, Zenon
<1>5. /\ \A i \in 1 .. n + 1 : i \in 1 .. n \/ i = n + 1
      /\ n + 1 \in 1 .. n + 1 /\ \A i \in 1 .. n : i \in 1 .. n + 1
  BY <1>2
<1>6. Range(p) = Range(q) \cup {e}
  BY <1>1, <1>2, <1>4, <1>5, Zenon
<1> QED
  BY <1>6, Zenon DEF p, RangeGrows

(* A list holds nothing but windows.                                        *)
LEMMA RangeIn ==
    ASSUME NEW T, NEW q \in Seq(T)
    PROVE  Range(q) \subseteq T
<1>1. Range(q) = {q[i] : i \in 1 .. Len(q)} /\ \A i \in 1 .. Len(q) : q[i] \in T
  BY RangeIs, Zenon
<1> QED
  BY <1>1, Zenon

(* MoveLastFewWindowsToFull(): the last windows of one list, in reverse,    *)
(* behind the other.                                                        *)
Moves(pre, full, place, moved, new) ==
    /\ \A i \in 1 .. Len(moved) : moved[i] = pre[Len(pre) + 1 - i]
    /\ \A i \in 1 .. Len(moved) : new[moved[i]] = Len(full) + i - 1
    /\ \A w \in Windows : (\A i \in 1 .. Len(moved) : moved[i] # w) => new[w] = place[w]

(* MoveLastFewWindowsToFull() loses no window, lists none twice, and stores *)
(* in each its new place.                                                   *)
LEMMA MoveLists ==
    ASSUME NEW pre \in Seq(Windows), NEW full \in Seq(Windows),
           NEW place \in [Windows -> Int], ListsExact(pre, full, place),
           NEW moved \in Seq(Windows), Len(moved) <= Len(pre),
           NEW new \in [Windows -> Int], Moves(pre, full, place, moved, new)
    PROVE  LET p == SubSeq(pre, 1, Len(pre) - Len(moved))
               f == full \o moved
           IN  ListsExact(p, f, new) /\ Range(p) \cup Range(f) = Range(pre) \cup Range(full)
<1> DEFINE n == Len(pre)
           m == Len(full)
           c == Len(moved)
           k == n - c
           p == SubSeq(pre, 1, k)
           f == full \o moved
<1>1. n \in Nat /\ m \in Nat /\ c \in Nat /\ k \in 0 .. n
  <2>1. n \in Nat /\ m \in Nat /\ c \in Nat /\ c <= n
    BY RangeIs, Zenon
  <2> HIDE DEF n, m, c
  <2> QED
    BY <2>1
<1>2. /\ p \in Seq(Windows) /\ Len(p) = k /\ \A i \in 1 .. k : p[i] = pre[i]
  BY <1>1, FrontIs, Zenon
<1>3. /\ f \in Seq(Windows) /\ Len(f) = m + c
      /\ \A i \in 1 .. m : f[i] = full[i]
      /\ \A i \in 1 .. c : f[m + i] = moved[i]
  <2>1. f \in Seq(Windows) /\ Len(f) = m + c
    BY BehindIs, Zenon
  <2>2. \A i \in 1 .. m : f[i] = full[i]
    BY BehindIs, Zenon
  <2>3. \A i \in 1 .. c : f[m + i] = moved[i]
    <3>1. Follows(f, full, moved)
      BY FollowsIs, Zenon
    <3> QED
      BY <3>1, Zenon DEF Follows
  <2> QED
    BY <2>1, <2>2, <2>3, Zenon
<1>4. /\ \A i \in 1 .. n : pre[i] \in Windows
      /\ \A i \in 1 .. m : full[i] \in Windows
  BY RangeIs, Zenon
<1>5. /\ \A i \in 1 .. c : moved[i] = pre[n + 1 - i]
      /\ \A i \in 1 .. c : new[moved[i]] = m + i - 1
      /\ \A w \in Windows : (\A i \in 1 .. c : moved[i] # w) => new[w] = place[w]
  BY Zenon DEF Moves
<1>6. /\ \A i, j \in 1 .. n : pre[i] = pre[j] => i = j
      /\ \A i \in 1 .. n : place[pre[i]] = NotInFullList
      /\ \A i \in 1 .. m : place[full[i]] = i - 1
  BY Zenon DEF ListsExact
<1>7. Range(p) = {p[i] : i \in 1 .. Len(p)} /\ Range(f) = {f[i] : i \in 1 .. Len(f)}
      /\ Range(pre) = {pre[i] : i \in 1 .. n} /\ Range(full) = {full[i] : i \in 1 .. m}
  <2>1. Range(pre) = {pre[i] : i \in 1 .. n} /\ Range(full) = {full[i] : i \in 1 .. m}
    BY RangeIs, Zenon
  <2> HIDE DEF p, f
  <2>2. Range(p) = {p[i] : i \in 1 .. Len(p)}
    BY <1>2, RangeIs, Zenon
  <2>3. Range(f) = {f[i] : i \in 1 .. Len(f)}
    BY <1>3, RangeIs, Zenon
  <2> QED
    BY <2>1, <2>2, <2>3, Zenon
<1> HIDE DEF n, m, k, p, f, c
<1>8. Range(p) = {p[i] : i \in 1 .. k} /\ Range(f) = {f[i] : i \in 1 .. m + c}
  BY <1>2, <1>3, <1>7, Zenon
<1>9. \A i \in 1 .. k : i \in 1 .. n
  BY <1>1
<1>10. ASSUME NEW i \in 1 .. c PROVE n + 1 - i \in 1 .. n /\ ~(n + 1 - i \in 1 .. k)
  BY <1>1 DEF k
<1>11. ASSUME NEW i \in 1 .. m + c
       PROVE  i \in 1 .. m \/ \E j \in 1 .. c : i = m + j
  <2>1. CASE i <= m
    BY <1>1, <2>1
  <2>2. CASE ~(i <= m)
    <3>1. i - m \in 1 .. c /\ i = m + (i - m)
      BY <1>1, <2>2
    <3> QED
      BY <3>1, Zenon
  <2> QED
    BY <2>1, <2>2, Zenon
<1>12. \A i \in 1 .. k : new[p[i]] = NotInFullList
  <2> SUFFICES ASSUME NEW i \in 1 .. k PROVE new[pre[i]] = NotInFullList
    BY <1>2, Zenon
  <2>1. ASSUME NEW j \in 1 .. c PROVE moved[j] # pre[i]
    <3>1. n + 1 - j # i
      BY <1>10, Zenon
    <3>2. n + 1 - j \in 1 .. n /\ i \in 1 .. n
      BY <1>9, <1>10, Zenon
    <3>3. pre[n + 1 - j] # pre[i]
      BY <1>6, <3>1, <3>2, Zenon
    <3> QED
      BY <1>5, <3>3, Zenon
  <2>2. pre[i] \in Windows /\ place[pre[i]] = NotInFullList
    BY <1>4, <1>6, <1>9, Zenon
  <2> QED
    BY <1>5, <2>1, <2>2, Zenon
<1>13. \A i \in 1 .. m + c : new[f[i]] = i - 1
  <2>1. ASSUME NEW i \in 1 .. m PROVE new[f[i]] = i - 1
    <3>1. ASSUME NEW j \in 1 .. c PROVE moved[j] # full[i]
      <4> SUFFICES ASSUME moved[j] = full[i] PROVE FALSE
        BY Zenon
      <4>1. full[i] = pre[n + 1 - j] /\ n + 1 - j \in 1 .. n
        BY <1>5, <1>10, Zenon
      <4>2. place[full[i]] = NotInFullList
        BY <1>6, <4>1, Zenon
      <4>3. place[full[i]] = i - 1
        BY <1>6, Zenon
      <4> QED
        BY <4>2, <4>3, <1>1 DEF NotInFullList
    <3>2. full[i] \in Windows /\ place[full[i]] = i - 1 /\ f[i] = full[i]
      BY <1>3, <1>4, <1>6, Zenon
    <3> QED
      BY <1>5, <3>1, <3>2, Zenon
  <2>2. ASSUME NEW i \in 1 .. m + c, NEW j \in 1 .. c, i = m + j PROVE new[f[i]] = i - 1
    <3>1. f[i] = moved[j] /\ new[moved[j]] = m + j - 1
      BY <1>3, <1>5, <2>2, Zenon
    <3>2. m + j - 1 = i - 1
      BY <2>2, <1>1
    <3> QED
      BY <3>1, <3>2, Zenon
  <2> QED
    BY <1>11, <2>1, <2>2, Zenon
<1>14. ListsExact(p, f, new)
  <2>1. ASSUME NEW i \in 1 .. k, NEW j \in 1 .. k, p[i] = p[j] PROVE i = j
    <3>1. pre[i] = pre[j] /\ i \in 1 .. n /\ j \in 1 .. n
      BY <2>1, <1>2, <1>9, Zenon
    <3> QED
      BY <1>6, <3>1, Zenon
  <2>2. Len(p) = k /\ Len(f) = m + c
    BY <1>2, <1>3, Zenon
  <2> QED
    BY <2>1, <2>2, <1>12, <1>13, Zenon DEF ListsExact
<1>15. ASSUME NEW w PROVE w \in Range(p) \cup Range(f) => w \in Range(pre) \cup Range(full)
  <2>1. ASSUME NEW i \in 1 .. k, w = p[i] PROVE w \in Range(pre)
    BY <2>1, <1>2, <1>7, <1>9, Zenon
  <2>2. ASSUME NEW i \in 1 .. m, w = f[i] PROVE w \in Range(full)
    BY <2>2, <1>3, <1>7, Zenon
  <2>3. ASSUME NEW i \in 1 .. c, w = f[m + i] PROVE w \in Range(pre)
    <3>1. w = pre[n + 1 - i] /\ n + 1 - i \in 1 .. n
      BY <2>3, <1>3, <1>5, <1>10, Zenon
    <3> QED
      BY <3>1, <1>7, Zenon
  <2> QED
    BY <1>8, <1>11, <2>1, <2>2, <2>3, Zenon
<1>16. ASSUME NEW w PROVE w \in Range(pre) \cup Range(full) => w \in Range(p) \cup Range(f)
  <2>1. ASSUME NEW i \in 1 .. n, w = pre[i] PROVE w \in Range(p) \cup Range(f)
    <3>1. CASE i <= k
      <4>1. i \in 1 .. k
        BY <1>1, <3>1
      <4> QED
        BY <2>1, <4>1, <1>2, <1>8, Zenon
    <3>2. CASE ~(i <= k)
      <4>1. n + 1 - i \in 1 .. c /\ n + 1 - (n + 1 - i) = i /\ m + (n + 1 - i) \in 1 .. m + c
        BY <1>1, <3>2 DEF k
      <4>2. moved[n + 1 - i] = pre[i]
        BY <4>1, <1>5, Zenon
      <4> QED
        BY <2>1, <4>1, <4>2, <1>3, <1>8, Zenon
    <3> QED
      BY <3>1, <3>2, Zenon
  <2>2. ASSUME NEW i \in 1 .. m, w = full[i] PROVE w \in Range(f)
    <3>1. i \in 1 .. m + c
      BY <1>1
    <3> QED
      BY <2>2, <3>1, <1>3, <1>8, Zenon
  <2> QED
    BY <1>7, <2>1, <2>2, Zenon
<1>17. ListsExact(p, f, new) /\ Range(p) \cup Range(f) = Range(pre) \cup Range(full)
  BY <1>14, <1>15, <1>16, Zenon
<1> QED
  BY <1>17, Zenon DEF p, f, k, n, c

(* allocateFromNewWindow(): a window that was in neither list.              *)
LEMMA AppendLists ==
    ASSUME NEW pre \in Seq(Windows), NEW full \in Seq(Windows),
           NEW place \in [Windows -> Int], ListsExact(pre, full, place),
           NEW w \in Windows, ~(w \in Range(pre) \cup Range(full)),
           NEW new \in [Windows -> Int], new = [place EXCEPT ![w] = NotInFullList]
    PROVE  ListsExact(Append(pre, w), full, new)
<1> DEFINE n == Len(pre)
           m == Len(full)
           p == Append(pre, w)
<1>1. p \in Seq(Windows) /\ Len(p) = n + 1 /\ (\A i \in 1 .. n : p[i] = pre[i]) /\ p[n + 1] = w
  <2>1. p \in Seq(Windows) /\ Len(p) = n + 1
    BY AppendIs, Zenon
  <2>2. \A i \in 1 .. n : p[i] = pre[i]
    OBVIOUS
  <2>3. p[n + 1] = w
    OBVIOUS
  <2> QED
    BY <2>1, <2>2, <2>3, Zenon
<1>2. /\ n \in Nat /\ \A i \in 1 .. n : pre[i] \in Windows
      /\ \A i \in 1 .. m : full[i] \in Windows
  BY RangeIs, Zenon
<1>3. Range(pre) = {pre[i] : i \in 1 .. n} /\ Range(full) = {full[i] : i \in 1 .. m}
  BY RangeIs, Zenon
<1>4. /\ \A i, j \in 1 .. n : pre[i] = pre[j] => i = j
      /\ \A i \in 1 .. n : place[pre[i]] = NotInFullList
      /\ \A i \in 1 .. m : place[full[i]] = i - 1
  BY Zenon DEF ListsExact
<1>5. new[w] = NotInFullList /\ \A v \in Windows : v # w => new[v] = place[v]
  BY Zenon
<1> HIDE DEF n, m, p
<1>7. \A i \in 1 .. n + 1 : i \in 1 .. n \/ i = n + 1
  BY <1>2
<1>9. (\A i \in 1 .. n : pre[i] # w) /\ (\A i \in 1 .. m : full[i] # w)
  BY <1>3, Zenon
<1>10. \A i, j \in 1 .. n + 1 : p[i] = p[j] => i = j
  <2> SUFFICES ASSUME NEW i \in 1 .. n + 1, NEW j \in 1 .. n + 1, p[i] = p[j] PROVE i = j
    BY Zenon
  <2>1. \A x \in 1 .. n : p[x] = pre[x] /\ p[x] # w
    BY <1>1, <1>9, Zenon
  <2>2. CASE i \in 1 .. n /\ j \in 1 .. n
    BY <1>4, <2>1, <2>2, Zenon
  <2>3. CASE i = n + 1 /\ j = n + 1
    BY <2>3, Zenon
  <2>4. CASE i = n + 1 /\ j \in 1 .. n
    BY <1>1, <2>1, <2>4, Zenon
  <2>5. CASE i \in 1 .. n /\ j = n + 1
    BY <1>1, <2>1, <2>5, Zenon
  <2> QED
    BY <1>7, <2>2, <2>3, <2>4, <2>5, Zenon
<1>11. \A i \in 1 .. n + 1 : new[p[i]] = NotInFullList
  <2>1. ASSUME NEW i \in 1 .. n PROVE new[p[i]] = NotInFullList
    <3>1. p[i] = pre[i] /\ pre[i] \in Windows /\ pre[i] # w /\ place[pre[i]] = NotInFullList
      BY <1>1, <1>2, <1>4, <1>9, Zenon
    <3> QED
      BY <1>5, <3>1, Zenon
  <2>2. new[p[n + 1]] = NotInFullList
    BY <1>1, <1>5, Zenon
  <2> QED
    BY <1>7, <2>1, <2>2, Zenon
<1>12. \A i \in 1 .. m : new[full[i]] = i - 1
  BY <1>2, <1>4, <1>5, <1>9, Zenon
<1>13. ListsExact(p, full, new)
  <2>1. Len(p) = n + 1
    BY <1>1, Zenon
  <2> QED
    BY <1>10, <1>11, <1>12, <2>1, Zenon DEF ListsExact, m
<1> QED
  BY <1>13, Zenon DEF p

(* Free(): the last window of the full list takes the place of the one that *)
(* goes back to the preferred list.                                         *)
LEMMA FillGap ==
    ASSUME NEW q \in Seq(Windows), NEW i \in 1 .. Len(q)
    PROVE  LET n == Len(q)
               short == SubSeq(q, 1, n - 1)
               f == IF i = n THEN short ELSE [short EXCEPT ![i] = q[n]]
           IN  /\ f \in Seq(Windows) /\ Len(f) = n - 1
               /\ \A x \in 1 .. n - 1 : f[x] = IF x = i THEN q[n] ELSE q[x]
<1> DEFINE n == Len(q)
           short == SubSeq(q, 1, n - 1)
           f == IF i = n THEN short ELSE [short EXCEPT ![i] = q[n]]
<1> SUFFICES /\ f \in Seq(Windows) /\ Len(f) = n - 1
             /\ \A x \in 1 .. n - 1 : f[x] = IF x = i THEN q[n] ELSE q[x]
  BY Zenon
<1>1. n \in Nat /\ q[n] \in Windows /\ n - 1 \in 0 .. n
  <2>1. n \in Nat /\ \A x \in 1 .. n : q[x] \in Windows
    BY RangeIs, Zenon
  <2>2. i \in 1 .. n
    BY Zenon
  <2> HIDE DEF n
  <2>3. n \in 1 .. n /\ n - 1 \in 0 .. n
    BY <2>1, <2>2
  <2> QED
    BY <2>1, <2>3, Zenon
<1>2. short \in Seq(Windows) /\ Len(short) = n - 1 /\ \A x \in 1 .. n - 1 : short[x] = q[x]
  BY <1>1, FrontIs, Zenon
<1>3. i \in 1 .. n
  BY Zenon
<1> HIDE DEF n, short
<1>4. CASE i = n
  <2>1. \A x \in 1 .. n - 1 : x # i
    BY <1>1, <1>4
  <2>2. f = short
    BY <1>4, Zenon
  <2> HIDE DEF f
  <2>3. f \in Seq(Windows) /\ Len(f) = n - 1 /\ \A x \in 1 .. n - 1 : f[x] = q[x]
    BY <1>2, <2>2, Zenon
  <2> QED
    BY <2>1, <2>3, Zenon
<1>5. CASE i # n
  <2>1. f = [short EXCEPT ![i] = q[n]]
    BY <1>5, Zenon
  <2> HIDE DEF f
  <2>2. DOMAIN short = 1 .. Len(short)
    BY <1>2
  <2>3. i \in 1 .. Len(short)
    BY <1>1, <1>2, <1>3, <1>5
  <2>4. f \in Seq(Windows) /\ Len(f) = Len(short)
    BY <1>1, <1>2, <2>1, <2>3
  <2>5. \A x \in 1 .. Len(short) : f[x] = IF x = i THEN q[n] ELSE short[x]
    BY <2>1, <2>2, Zenon
  <2>6. Len(f) = n - 1
    BY <1>2, <2>4, Zenon
  <2>7. ASSUME NEW x \in 1 .. n - 1 PROVE f[x] = IF x = i THEN q[n] ELSE q[x]
    <3>1. x \in 1 .. Len(short) /\ short[x] = q[x]
      BY <1>2, Zenon
    <3> QED
      BY <2>5, <3>1, Zenon
  <2> QED
    BY <2>4, <2>6, <2>7, Zenon
<1> QED
  BY <1>4, <1>5, Zenon

Fills(full, i, f) ==
    /\ Len(f) = Len(full) - 1
    /\ \A x \in 1 .. Len(full) - 1 : f[x] = IF x = i THEN full[Len(full)] ELSE full[x]

(* A window that is not preferred stands where it says in the full list.    *)
LEMMA PlaceIs ==
    ASSUME NEW pre \in Seq(Windows), NEW full \in Seq(Windows),
           NEW place \in [Windows -> Int], ListsExact(pre, full, place),
           NEW w \in Range(pre) \cup Range(full), place[w] # NotInFullList
    PROVE  place[w] + 1 \in 1 .. Len(full) /\ full[place[w] + 1] = w
<1>1. Range(pre) = {pre[i] : i \in 1 .. Len(pre)} /\ Range(full) = {full[i] : i \in 1 .. Len(full)}
  BY RangeIs, Zenon
<1>2. \A x \in 1 .. Len(pre) : pre[x] # w
  BY Zenon DEF ListsExact
<1>3. PICK x \in 1 .. Len(full) : full[x] = w
  BY <1>1, <1>2, Zenon
<1>4. place[w] = x - 1 /\ Len(full) \in Nat
  BY <1>3, RangeIs, Zenon DEF ListsExact
<1>5. place[w] + 1 = x
  BY <1>4
<1> QED
  BY <1>3, <1>5, Zenon

Promoted(full, place, i, w, new) ==
    /\ w = full[i]
    /\ new = [place EXCEPT ![full[Len(full)]] = i - 1, ![w] = NotInFullList]

SameWindows(p, f, pre, full) == Range(p) \cup Range(f) = Range(pre) \cup Range(full)

(* The promotion in Free(), in which the last full window takes the place of *)
(* the promoted one, does the same.                                         *)
LEMMA PromoteLists ==
    ASSUME NEW pre \in Seq(Windows), NEW full \in Seq(Windows),
           NEW place \in [Windows -> Int], ListsExact(pre, full, place),
           NEW i \in 1 .. Len(full), NEW w \in Windows,
           NEW f \in Seq(Windows), Fills(full, i, f),
           NEW new \in [Windows -> Int], Promoted(full, place, i, w, new)
    PROVE  ListsExact(Append(pre, w), f, new) /\ SameWindows(Append(pre, w), f, pre, full)
<1> DEFINE n == Len(pre)
           m == Len(full)
           p == Append(pre, w)
<1> SUFFICES ListsExact(p, f, new) /\ Range(p) \cup Range(f) = Range(pre) \cup Range(full)
  BY Zenon DEF SameWindows
<1>1. p \in Seq(Windows) /\ Len(p) = n + 1 /\ (\A x \in 1 .. n : p[x] = pre[x]) /\ p[n + 1] = w
  <2>1. p \in Seq(Windows) /\ Len(p) = n + 1
    BY AppendIs, Zenon
  <2>2. \A x \in 1 .. n : p[x] = pre[x]
    OBVIOUS
  <2>3. p[n + 1] = w
    OBVIOUS
  <2> QED
    BY <2>1, <2>2, <2>3, Zenon
<1>2. /\ n \in Nat /\ m \in Nat
      /\ \A x \in 1 .. n : pre[x] \in Windows
      /\ \A x \in 1 .. m : full[x] \in Windows
  BY RangeIs, Zenon
<1>3. Range(pre) = {pre[x] : x \in 1 .. n} /\ Range(full) = {full[x] : x \in 1 .. m}
  BY RangeIs, Zenon
<1>4. /\ \A x, y \in 1 .. n : pre[x] = pre[y] => x = y
      /\ \A x \in 1 .. n : place[pre[x]] = NotInFullList
      /\ \A x \in 1 .. m : place[full[x]] = x - 1
  BY Zenon DEF ListsExact
<1>5. Len(f) = m - 1 /\ \A x \in 1 .. m - 1 : f[x] = IF x = i THEN full[m] ELSE full[x]
  BY Zenon DEF Fills
<1>6. i \in 1 .. m /\ w = full[i] /\ new = [place EXCEPT ![full[m]] = i - 1, ![w] = NotInFullList]
  BY Zenon DEF Promoted
<1>7. Range(p) = {p[x] : x \in 1 .. Len(p)} /\ Range(f) = {f[x] : x \in 1 .. Len(f)}
  <2> HIDE DEF p
  <2>1. Range(p) = {p[x] : x \in 1 .. Len(p)}
    BY <1>1, RangeIs, Zenon
  <2>2. Range(f) = {f[x] : x \in 1 .. Len(f)}
    BY RangeIs, Zenon
  <2> QED
    BY <2>1, <2>2, Zenon
<1> HIDE DEF n, m, p
<1>8. Range(p) = {p[x] : x \in 1 .. n + 1} /\ Range(f) = {f[x] : x \in 1 .. m - 1}
  BY <1>1, <1>5, <1>7, Zenon
<1>9. m \in 1 .. m /\ full[m] \in Windows
  <2>1. m \in 1 .. m
    BY <1>2, <1>6
  <2> QED
    BY <2>1, <1>2, Zenon
<1>10. new[w] = NotInFullList /\ (full[m] # w => new[full[m]] = i - 1)
       /\ \A v \in Windows : v # w /\ v # full[m] => new[v] = place[v]
  BY <1>6, <1>9, Zenon
<1>11. /\ \A x \in 1 .. n + 1 : x \in 1 .. n \/ x = n + 1
       /\ n + 1 \in 1 .. n + 1 /\ \A x \in 1 .. n : x \in 1 .. n + 1
  BY <1>2
<1>12. \A x, y \in 1 .. m : full[x] = full[y] => x = y
  <2> SUFFICES ASSUME NEW x \in 1 .. m, NEW y \in 1 .. m, full[x] = full[y] PROVE x = y
    BY Zenon
  <2>1. x - 1 = y - 1
    BY <1>4, Zenon
  <2> QED
    BY <1>2, <2>1
<1>13. ASSUME NEW x \in 1 .. n, NEW y \in 1 .. m PROVE pre[x] # full[y]
  <2>1. y - 1 # NotInFullList
    BY <1>2 DEF NotInFullList
  <2>2. place[pre[x]] = NotInFullList /\ place[full[y]] = y - 1
    BY <1>4, Zenon
  <2> QED
    BY <2>1, <2>2, Zenon
<1>14. \A x, y \in 1 .. n + 1 : p[x] = p[y] => x = y
  <2> SUFFICES ASSUME NEW x \in 1 .. n + 1, NEW y \in 1 .. n + 1, p[x] = p[y] PROVE x = y
    BY Zenon
  <2>1. ASSUME NEW z \in 1 .. n PROVE p[z] = pre[z] /\ p[z] # w
    <3>1. pre[z] # full[i]
      BY <1>6, <1>13, Zenon
    <3> QED
      BY <1>1, <1>6, <3>1, Zenon
  <2>2. CASE x \in 1 .. n /\ y \in 1 .. n
    BY <1>4, <2>1, <2>2, Zenon
  <2>3. CASE x = n + 1 /\ y = n + 1
    BY <2>3, Zenon
  <2>4. CASE x = n + 1 /\ y \in 1 .. n
    BY <1>1, <2>1, <2>4, Zenon
  <2>5. CASE x \in 1 .. n /\ y = n + 1
    BY <1>1, <2>1, <2>5, Zenon
  <2> QED
    BY <1>11, <2>2, <2>3, <2>4, <2>5, Zenon
<1>15. \A x \in 1 .. n + 1 : new[p[x]] = NotInFullList
  <2>1. ASSUME NEW x \in 1 .. n PROVE new[p[x]] = NotInFullList
    <3>1. p[x] = pre[x] /\ pre[x] \in Windows /\ place[pre[x]] = NotInFullList
      BY <1>1, <1>2, <1>4, Zenon
    <3>2. pre[x] # w /\ pre[x] # full[m]
      BY <1>6, <1>9, <1>13, Zenon
    <3> QED
      BY <1>10, <3>1, <3>2, Zenon
  <2>2. new[p[n + 1]] = NotInFullList
    BY <1>1, <1>10, Zenon
  <2> QED
    BY <1>11, <2>1, <2>2, Zenon
<1>16. ASSUME NEW x \in 1 .. m - 1 PROVE new[f[x]] = x - 1
  <2>1. x \in 1 .. m /\ x # m
    BY <1>2
  <2>2. CASE x = i
    <3>1. full[m] # w /\ f[x] = full[m]
      BY <1>5, <1>6, <1>9, <1>12, <2>1, <2>2, Zenon
    <3>2. new[f[x]] = i - 1
      BY <3>1, <1>10, Zenon
    <3> QED
      BY <3>2, <2>2, Zenon
  <2>3. CASE x # i
    <3>1. f[x] = full[x] /\ full[x] \in Windows
      BY <1>2, <1>5, <2>1, <2>3, Zenon
    <3>2. full[x] # w /\ full[x] # full[m]
      BY <1>6, <1>9, <1>12, <2>1, <2>3, Zenon
    <3> QED
      BY <1>4, <1>10, <2>1, <3>1, <3>2, Zenon
  <2> QED
    BY <2>2, <2>3, Zenon
<1>17. ListsExact(p, f, new)
  <2>1. Len(p) = n + 1 /\ Len(f) = m - 1
    BY <1>1, <1>5, Zenon
  <2> QED
    BY <1>14, <1>15, <1>16, <2>1, Zenon DEF ListsExact
<1>18. ASSUME NEW v \in Range(p) \cup Range(f) PROVE v \in Range(pre) \cup Range(full)
  <2>1. ASSUME NEW x \in 1 .. n, v = p[x] PROVE v \in Range(pre)
    BY <1>1, <1>3, <2>1, Zenon
  <2>2. ASSUME v = p[n + 1] PROVE v \in Range(full)
    BY <1>1, <1>3, <1>6, <2>2, Zenon
  <2>3. ASSUME NEW x \in 1 .. m - 1, v = f[x] PROVE v \in Range(full)
    <3>1. x \in 1 .. m
      BY <1>2
    <3> QED
      BY <1>3, <1>5, <1>9, <2>3, <3>1, Zenon
  <2> QED
    BY <1>8, <1>11, <2>1, <2>2, <2>3, Zenon
<1>19. ASSUME NEW v \in Range(pre) \cup Range(full) PROVE v \in Range(p) \cup Range(f)
  <2>1. ASSUME NEW x \in 1 .. n, v = pre[x] PROVE v \in Range(p)
    BY <1>1, <1>8, <1>11, <2>1, Zenon
  <2>2. ASSUME NEW x \in 1 .. m, v = full[x] PROVE v \in Range(p) \cup Range(f)
    <3>1. CASE x = i
      BY <1>1, <1>6, <1>8, <1>11, <2>2, <3>1, Zenon
    <3>2. CASE x # i /\ x # m
      <4>1. x \in 1 .. m - 1
        BY <1>2, <3>2
      <4> QED
        BY <1>5, <1>8, <2>2, <3>2, <4>1, Zenon
    <3>3. CASE x # i /\ x = m
      <4>1. i \in 1 .. m - 1
        BY <1>2, <1>6, <3>3
      <4> QED
        BY <1>5, <1>8, <2>2, <3>3, <4>1, Zenon
    <3> QED
      BY <3>1, <3>2, <3>3, Zenon
  <2> QED
    BY <1>3, <2>1, <2>2, Zenon
<1> QED
  BY <1>17, <1>18, <1>19, Zenon

-----------------------------------------------------------------------------
(* The blocks of the windows *)

(* A block is the memory, the first unit and the number of units of it.     *)
LEMMA BlockIs ==
    ASSUME NEW h \in Blocks
    PROVE  h[1] \in Windows \cup Large /\ h[2] \in Nat /\ h[3] \in Nat /\ h[3] > 0
  BY DEF Blocks

(* The header that Allocate() writes describes a block.                     *)
LEMMA BlockMade ==
    ASSUME NEW w \in Windows \cup Large, NEW s \in Nat, NEW n \in Nat \ {0}
    PROVE  LET b == <<w, s, n>>
           IN  b \in Blocks /\ b[1] = w /\ b[2] = s /\ b[3] = n
  BY DEF Blocks

BitSets == [Windows -> SUBSET (0 .. WindowMaxUnits - 1)]

(* A unit that is free is in no block, so a block made of free units stands *)
(* apart from every other (Allocate).                                       *)
LEMMA HoleApart ==
    ASSUME NEW blocks \in SUBSET Blocks, NEW listed \in SUBSET Windows, NEW bits \in BitSets,
           BlocksExact(blocks, listed, bits),
           NEW b \in Blocks, b[1] \in listed, (b[2] .. b[2] + b[3] - 1) \cap bits[b[1]] = {},
           NEW h \in blocks
    PROVE  Apart(h, b) /\ Apart(b, h)
<1>1. h[2] \in Nat /\ h[3] \in Nat /\ h[3] > 0 /\ b[2] \in Nat /\ b[3] \in Nat /\ b[3] > 0
  BY BlockIs, Zenon
<1>2. \A u \in Nat : Covers(h, b[1], u) => u \in bits[b[1]]
  BY Zenon DEF BlocksExact
<1>3. \A u \in b[2] .. b[2] + b[3] - 1 : ~(u \in bits[b[1]])
  BY Zenon
<1>4. \A u \in b[2] .. b[2] + b[3] - 1 : u \in Nat /\ ~Covers(h, b[1], u)
  <2>1. \A u \in b[2] .. b[2] + b[3] - 1 : u \in Nat
    BY <1>1
  <2> QED
    BY <1>2, <1>3, <2>1, Zenon
<1>5. CASE h[1] # b[1]
  BY <1>5, Zenon DEF Apart
<1>6. CASE h[1] = b[1]
  <2>1. \A u \in b[2] .. b[2] + b[3] - 1 : ~(h[2] <= u /\ u < h[2] + h[3])
    BY <1>4, <1>6, Zenon DEF Covers
  <2>2. b[2] \in b[2] .. b[2] + b[3] - 1
    BY <1>1
  <2>3. h[2] + h[3] <= b[2] \/ b[2] + b[3] <= h[2]
    <3>1. CASE h[2] <= b[2]
      <4>1. ~(b[2] < h[2] + h[3])
        BY <2>1, <2>2, <3>1, Zenon
      <4> QED
        BY <4>1, <1>1
    <3>2. CASE ~(h[2] <= b[2])
      <4>1. ~(h[2] \in b[2] .. b[2] + b[3] - 1)
        <5>1. h[2] <= h[2] /\ h[2] < h[2] + h[3]
          BY <1>1
        <5> QED
          BY <2>1, <5>1, Zenon
      <4> QED
        BY <4>1, <3>2, <1>1
    <3> QED
      BY <3>1, <3>2, Zenon
  <2> QED
    BY <2>3, Zenon DEF Apart
<1> QED
  BY <1>5, <1>6, Zenon

(* Allocate(): a hole of a listed window becomes a block.                   *)
LEMMA AddBlock ==
    ASSUME NEW blocks \in SUBSET Blocks, NEW listed \in SUBSET Windows, NEW bits \in BitSets,
           BlocksExact(blocks, listed, bits),
           NEW b \in Blocks, b[1] \in listed, (b[2] .. b[2] + b[3] - 1) \cap bits[b[1]] = {},
           b[2] + b[3] <= WindowMaxUnits
    PROVE  BlocksExact(blocks \cup {b}, listed,
                       [bits EXCEPT ![b[1]] = @ \cup (b[2] .. b[2] + b[3] - 1)])
<1> DEFINE new == [bits EXCEPT ![b[1]] = @ \cup (b[2] .. b[2] + b[3] - 1)]
<1>1. \A h \in blocks : Apart(h, b) /\ Apart(b, h)
  BY HoleApart, Zenon
<1>2. /\ \A h \in blocks : h[1] \in Windows => h[1] \in listed /\ h[2] + h[3] <= WindowMaxUnits
      /\ \A g, h \in blocks : g = h \/ Apart(g, h)
      /\ \A w \in listed : \A u \in Nat : u \in bits[w] <=> \E h \in blocks : Covers(h, w, u)
  BY Zenon DEF BlocksExact
<1>3. \A h \in blocks \cup {b} : h[1] \in Windows => h[1] \in listed /\ h[2] + h[3] <= WindowMaxUnits
  BY <1>2, Zenon
<1>4. \A g, h \in blocks \cup {b} : g = h \/ Apart(g, h)
  BY <1>1, <1>2, Zenon
<1>5. b[2] \in Nat /\ b[3] \in Nat
  BY BlockIs, Zenon
<1>6. \A u \in Nat : u \in b[2] .. b[2] + b[3] - 1 <=> b[2] <= u /\ u < b[2] + b[3]
  BY <1>5
<1>7. ASSUME NEW w \in listed, NEW u \in Nat
      PROVE  u \in new[w] <=> \E h \in blocks \cup {b} : Covers(h, w, u)
  <2>1. w \in Windows /\ bits \in [Windows -> SUBSET (0 .. WindowMaxUnits - 1)]
    BY Zenon DEF BitSets
  <2>2. CASE w = b[1]
    <3>1. new[w] = bits[w] \cup (b[2] .. b[2] + b[3] - 1)
      BY <2>1, <2>2, Zenon
    <3>2. Covers(b, w, u) <=> u \in b[2] .. b[2] + b[3] - 1
      BY <1>6, <2>2, Zenon DEF Covers
    <3> HIDE DEF new
    <3> QED
      BY <1>2, <3>1, <3>2, Zenon
  <2>3. CASE w # b[1]
    <3>1. new[w] = bits[w]
      BY <2>1, <2>3, Zenon
    <3>2. ~Covers(b, w, u)
      BY <2>3, Zenon DEF Covers
    <3> HIDE DEF new
    <3> QED
      BY <1>2, <3>1, <3>2, Zenon
  <2> QED
    BY <2>2, <2>3, Zenon
<1> HIDE DEF new
<1>8. BlocksExact(blocks \cup {b}, listed, new)
  BY <1>3, <1>4, <1>7, Zenon DEF BlocksExact
<1> QED
  BY <1>8, Zenon DEF new

(* Free(): the bits of a block are cleared, and it had them all.            *)
LEMMA RemoveBlock ==
    ASSUME NEW blocks \in SUBSET Blocks, NEW listed \in SUBSET Windows, NEW bits \in BitSets,
           BlocksExact(blocks, listed, bits), NEW b \in blocks, b[1] \in Windows
    PROVE  /\ b[1] \in listed /\ b[2] + b[3] <= WindowMaxUnits
           /\ (b[2] .. b[2] + b[3] - 1) \subseteq bits[b[1]]
           /\ BlocksExact(blocks \ {b}, listed,
                          [bits EXCEPT ![b[1]] = @ \ (b[2] .. b[2] + b[3] - 1)])
<1> DEFINE new == [bits EXCEPT ![b[1]] = @ \ (b[2] .. b[2] + b[3] - 1)]
<1>1. /\ \A h \in blocks : h[1] \in Windows => h[1] \in listed /\ h[2] + h[3] <= WindowMaxUnits
      /\ \A g, h \in blocks : g = h \/ Apart(g, h)
      /\ \A w \in listed : \A u \in Nat : u \in bits[w] <=> \E h \in blocks : Covers(h, w, u)
  BY Zenon DEF BlocksExact
<1>2. b[1] \in listed /\ b[2] + b[3] <= WindowMaxUnits
  BY <1>1, Zenon
<1>3. b[2] \in Nat /\ b[3] \in Nat
  BY BlockIs, Zenon
<1>4. \A u \in Nat : u \in b[2] .. b[2] + b[3] - 1 <=> b[2] <= u /\ u < b[2] + b[3]
  BY <1>3
<1>5. \A u \in b[2] .. b[2] + b[3] - 1 : u \in Nat
  BY <1>3
<1>6. \A u \in Nat : u \in b[2] .. b[2] + b[3] - 1 <=> Covers(b, b[1], u)
  BY <1>4, Zenon DEF Covers
<1>7. (b[2] .. b[2] + b[3] - 1) \subseteq bits[b[1]]
  BY <1>1, <1>2, <1>5, <1>6, Zenon
<1>8. \A h \in blocks \ {b} : h[1] \in Windows => h[1] \in listed /\ h[2] + h[3] <= WindowMaxUnits
  BY <1>1, Zenon
<1>9. \A g, h \in blocks \ {b} : g = h \/ Apart(g, h)
  BY <1>1, Zenon
<1>10. ASSUME NEW h \in blocks \ {b}, NEW u \in Nat, Covers(h, b[1], u)
       PROVE  ~(u \in b[2] .. b[2] + b[3] - 1)
  <2>1. h[2] \in Nat /\ h[3] \in Nat
    BY BlockIs, Zenon
  <2>2. h[1] = b[1] /\ h[2] <= u /\ u < h[2] + h[3]
    BY <1>10, Zenon DEF Covers
  <2>3. h[2] + h[3] <= b[2] \/ b[2] + b[3] <= h[2]
    BY <1>1, <2>2, Zenon DEF Apart
  <2> QED
    BY <1>3, <2>1, <2>2, <2>3
<1>11. ASSUME NEW w \in listed, NEW u \in Nat
      PROVE  u \in new[w] <=> \E h \in blocks \ {b} : Covers(h, w, u)
  <2>1. w \in Windows /\ bits \in [Windows -> SUBSET (0 .. WindowMaxUnits - 1)]
    BY Zenon DEF BitSets
  <2>2. CASE w = b[1]
    <3>1. new[w] = bits[w] \ (b[2] .. b[2] + b[3] - 1)
      BY <2>1, <2>2, Zenon
    <3> HIDE DEF new
    <3>2. ASSUME u \in new[w] PROVE \E h \in blocks \ {b} : Covers(h, w, u)
      <4>1. PICK h \in blocks : Covers(h, w, u)
        BY <1>1, <3>1, <3>2, Zenon
      <4>2. h # b
        BY <1>6, <2>2, <3>1, <3>2, <4>1, Zenon
      <4> QED
        BY <4>1, <4>2, Zenon
    <3>3. ASSUME NEW h \in blocks \ {b}, Covers(h, w, u) PROVE u \in new[w]
      <4>1. u \in bits[w]
        BY <1>1, <3>3, Zenon
      <4>2. ~(u \in b[2] .. b[2] + b[3] - 1)
        BY <1>10, <2>2, <3>3, Zenon
      <4> QED
        BY <3>1, <4>1, <4>2, Zenon
    <3> QED
      BY <3>2, <3>3, Zenon
  <2>3. CASE w # b[1]
    <3>1. new[w] = bits[w]
      BY <2>1, <2>3, Zenon
    <3>2. ~Covers(b, w, u)
      BY <2>3, Zenon DEF Covers
    <3> HIDE DEF new
    <3> QED
      BY <1>1, <3>1, <3>2, Zenon
  <2> QED
    BY <2>2, <2>3, Zenon
<1> HIDE DEF new
<1>12. BlocksExact(blocks \ {b}, listed, new)
  BY <1>8, <1>9, <1>11, Zenon DEF BlocksExact
<1> QED
  BY <1>2, <1>7, <1>12, Zenon DEF new

(* Shrink(): a block is freed, and its front becomes a block again.         *)
LEMMA CutBlock ==
    ASSUME NEW blocks \in SUBSET Blocks, NEW listed \in SUBSET Windows, NEW bits \in BitSets,
           BlocksExact(blocks, listed, bits), NEW b \in blocks, b[1] \in Windows,
           NEW c \in Blocks, c[1] = b[1], c[2] = b[2], c[3] < b[3]
    PROVE  /\ (b[2] + c[3] .. b[2] + b[3] - 1) \subseteq bits[b[1]]
           /\ BlocksExact((blocks \ {b}) \cup {c}, listed,
                          [bits EXCEPT ![b[1]] = @ \ (b[2] + c[3] .. b[2] + b[3] - 1)])
<1> DEFINE all == b[2] .. b[2] + b[3] - 1
           kept == c[2] .. c[2] + c[3] - 1
           back == b[2] + c[3] .. b[2] + b[3] - 1
           less == [bits EXCEPT ![b[1]] = @ \ all]
           new == [bits EXCEPT ![b[1]] = @ \ back]
<1>1. /\ b[1] \in listed /\ b[2] + b[3] <= WindowMaxUnits /\ all \subseteq bits[b[1]]
      /\ BlocksExact(blocks \ {b}, listed, less)
  BY RemoveBlock, Zenon
<1>2. b[2] \in Nat /\ b[3] \in Nat /\ c[3] \in Nat
  BY BlockIs, Zenon
<1>3. kept \subseteq all /\ back = all \ kept /\ c[2] + c[3] <= WindowMaxUnits
  <2>1. \A u : u \in kept => u \in all
    BY <1>2
  <2>2. \A u : u \in back <=> u \in all /\ ~(u \in kept)
    BY <1>2
  <2>3. c[2] + c[3] <= WindowMaxUnits
    BY <1>1, <1>2, AllocatorAssumption
  <2> HIDE DEF kept, all, back
  <2> QED
    BY <2>1, <2>2, <2>3, Zenon
<1>4. bits \in [Windows -> SUBSET (0 .. WindowMaxUnits - 1)]
  BY Zenon DEF BitSets
<1> HIDE DEF all, kept, back
<1>5. /\ less \in [Windows -> SUBSET (0 .. WindowMaxUnits - 1)]
      /\ less[b[1]] = bits[b[1]] \ all /\ \A w \in Windows : w # b[1] => less[w] = bits[w]
  BY <1>4, Zenon
<1>6. kept \cap less[c[1]] = {}
  BY <1>3, <1>5, Zenon
<1>7. /\ new \in [Windows -> SUBSET (0 .. WindowMaxUnits - 1)]
      /\ new[b[1]] = bits[b[1]] \ back /\ \A w \in Windows : w # b[1] => new[w] = bits[w]
  BY <1>4, Zenon
<1>8. [less EXCEPT ![c[1]] = @ \cup kept] = new
  <2> DEFINE more == [less EXCEPT ![c[1]] = @ \cup kept]
  <2>1. /\ more = [w \in Windows |-> more[w]] /\ new = [w \in Windows |-> new[w]]
    BY <1>4, Zenon
  <2>2. more[b[1]] = less[b[1]] \cup kept /\ \A w \in Windows : w # b[1] => more[w] = less[w]
    BY <1>5, Zenon
  <2>3. more[b[1]] = new[b[1]]
    <3>1. (bits[b[1]] \ all) \cup kept = bits[b[1]] \ back
      BY <1>1, <1>3, Zenon
    <3> HIDE DEF more, less, new
    <3> QED
      BY <1>5, <1>7, <2>2, <3>1, Zenon
  <2> HIDE DEF more, less, new
  <2>4. \A w \in Windows : more[w] = new[w]
    BY <1>5, <1>7, <2>2, <2>3, Zenon
  <2>5. more = new
    BY <2>1, <2>4
  <2> QED
    BY <2>5, Zenon DEF more
<1>9. BlocksExact((blocks \ {b}) \cup {c}, listed, [less EXCEPT ![c[1]] = @ \cup kept])
  <2>1. less \in BitSets
    BY <1>5, Zenon DEF BitSets
  <2>2. blocks \ {b} \in SUBSET Blocks /\ c[1] \in listed
    BY <1>1, Zenon
  <2> HIDE DEF less, new
  <2> QED
    BY <1>1, <1>3, <1>6, <2>1, <2>2, AddBlock, Zenon DEF kept
<1>10. BlocksExact((blocks \ {b}) \cup {c}, listed, new)
  BY <1>8, <1>9, Zenon
<1>11. back \subseteq bits[b[1]]
  BY <1>1, <1>3, Zenon
<1> QED
  BY <1>10, <1>11, Zenon DEF new, back

(* fallbackAllocate() and the Free() of such a block: no window is touched. *)
LEMMA AddLarge ==
    ASSUME NEW blocks \in SUBSET Blocks, NEW listed \in SUBSET Windows, NEW bits \in BitSets,
           BlocksExact(blocks, listed, bits),
           NEW b \in Blocks, b[1] \in Large, \A h \in blocks : h[1] # b[1]
    PROVE  BlocksExact(blocks \cup {b}, listed, bits)
<1>1. /\ \A h \in blocks : h[1] \in Windows => h[1] \in listed /\ h[2] + h[3] <= WindowMaxUnits
      /\ \A g, h \in blocks : g = h \/ Apart(g, h)
      /\ \A w \in listed : \A u \in Nat : u \in bits[w] <=> \E h \in blocks : Covers(h, w, u)
  BY Zenon DEF BlocksExact
<1>2. ~(b[1] \in Windows)
  BY AllocatorAssumption, Zenon
<1>3. \A h \in blocks : Apart(h, b) /\ Apart(b, h)
  BY Zenon DEF Apart
<1>4. \A w \in listed : \A u \in Nat : ~Covers(b, w, u)
  BY <1>2, Zenon DEF Covers
<1>5. \A h \in blocks \cup {b} : h[1] \in Windows => h[1] \in listed /\ h[2] + h[3] <= WindowMaxUnits
  BY <1>1, <1>2, Zenon
<1>6. \A g, h \in blocks \cup {b} : g = h \/ Apart(g, h)
  BY <1>1, <1>3, Zenon
<1>7. \A w \in listed : \A u \in Nat : u \in bits[w] <=> \E h \in blocks \cup {b} : Covers(h, w, u)
  BY <1>1, <1>4, Zenon
<1> QED
  BY <1>5, <1>6, <1>7, Zenon DEF BlocksExact

(* Free() of a fallback block leaves the windows as they are.               *)
LEMMA RemoveLarge ==
    ASSUME NEW blocks \in SUBSET Blocks, NEW listed \in SUBSET Windows, NEW bits \in BitSets,
           BlocksExact(blocks, listed, bits), NEW b \in blocks, b[1] \in Large
    PROVE  BlocksExact(blocks \ {b}, listed, bits)
<1>1. /\ \A h \in blocks : h[1] \in Windows => h[1] \in listed /\ h[2] + h[3] <= WindowMaxUnits
      /\ \A g, h \in blocks : g = h \/ Apart(g, h)
      /\ \A w \in listed : \A u \in Nat : u \in bits[w] <=> \E h \in blocks : Covers(h, w, u)
  BY Zenon DEF BlocksExact
<1>2. ~(b[1] \in Windows)
  BY AllocatorAssumption, Zenon
<1>3. \A w \in listed : \A u \in Nat : ~Covers(b, w, u)
  BY <1>2, Zenon DEF Covers
<1>4. \A w \in listed : \A u \in Nat : u \in bits[w] <=> \E h \in blocks \ {b} : Covers(h, w, u)
  BY <1>1, <1>3, Zenon
<1>5. /\ \A h \in blocks \ {b} : h[1] \in Windows => h[1] \in listed /\ h[2] + h[3] <= WindowMaxUnits
      /\ \A g, h \in blocks \ {b} : g = h \/ Apart(g, h)
  BY <1>1, Zenon
<1> QED
  BY <1>4, <1>5, Zenon DEF BlocksExact

(* allocateFromNewWindow(): the new window has no blocks.                   *)
LEMMA AddWindowBlocks ==
    ASSUME NEW blocks \in SUBSET Blocks, NEW listed \in SUBSET Windows, NEW bits \in BitSets,
           BlocksExact(blocks, listed, bits), NEW w \in Windows, ~(w \in listed)
    PROVE  BlocksExact(blocks, listed \cup {w}, [bits EXCEPT ![w] = {}])
<1> DEFINE new == [bits EXCEPT ![w] = {}]
<1>1. /\ \A h \in blocks : h[1] \in Windows => h[1] \in listed /\ h[2] + h[3] <= WindowMaxUnits
      /\ \A g, h \in blocks : g = h \/ Apart(g, h)
      /\ \A v \in listed : \A u \in Nat : u \in bits[v] <=> \E h \in blocks : Covers(h, v, u)
  BY Zenon DEF BlocksExact
<1>2. new[w] = {} /\ \A v \in listed : new[v] = bits[v]
  BY Zenon DEF BitSets
<1> HIDE DEF new
<1>3. \A h \in blocks : \A u \in Nat : ~Covers(h, w, u)
  BY <1>1, Zenon DEF Covers
<1>4. ASSUME NEW v \in listed \cup {w}, NEW u \in Nat
      PROVE  u \in new[v] <=> \E h \in blocks : Covers(h, v, u)
  <2>1. CASE v = w
    BY <1>2, <1>3, <2>1, Zenon
  <2>2. CASE v \in listed
    BY <1>1, <1>2, <2>2, Zenon
  <2> QED
    BY <2>1, <2>2, Zenon
<1>5. \A h \in blocks : h[1] \in Windows => h[1] \in listed \cup {w} /\ h[2] + h[3] <= WindowMaxUnits
  BY <1>1, Zenon
<1>6. BlocksExact(blocks, listed \cup {w}, new)
  BY <1>1, <1>4, <1>5, Zenon DEF BlocksExact
<1> QED
  BY <1>6, Zenon DEF new

(* FreeUnitCount counts the bits that are not set, whatever a step changes. *)
LEMMA CountsKept ==
    ASSUME NEW listed \in SUBSET Windows, NEW bits \in BitSets, NEW frees \in [Windows -> Int],
           CountsExact(listed, bits, frees), NEW w \in Windows,
           NEW R, NEW n, n = WindowMaxUnits - Cardinality(R)
    PROVE  CountsExact(listed \cup {w}, [bits EXCEPT ![w] = R], [frees EXCEPT ![w] = n])
<1> DEFINE b == [bits EXCEPT ![w] = R]
           f == [frees EXCEPT ![w] = n]
<1>1. b[w] = R /\ f[w] = n /\ \A v \in listed : v # w => b[v] = bits[v] /\ f[v] = frees[v]
  BY Zenon DEF BitSets
<1>2. \A v \in listed : frees[v] = WindowMaxUnits - Cardinality(bits[v])
  BY Zenon DEF CountsExact
<1> HIDE DEF b, f
<1>3. \A v \in listed \cup {w} : f[v] = WindowMaxUnits - Cardinality(b[v])
  BY <1>1, <1>2, Zenon
<1>4. CountsExact(listed \cup {w}, b, f)
  BY <1>3, Zenon DEF CountsExact
<1> QED
  BY <1>4, Zenon DEF b, f

-----------------------------------------------------------------------------
(* What the operations do to each part of the allocator *)

(* The parts of an allocator, and of the header of a window.                *)
LEMMA PartsAre ==
    ASSUME NEW a \in Allocators
    PROVE  /\ a.window \in [Windows -> WindowHeaders] /\ a.preferred \in Seq(Windows)
           /\ a.full \in Seq(Windows) /\ a.headers \in SUBSET Blocks
  BY Zenon DEF Allocators

(* The fields of a WindowHeader.                                            *)
LEMMA FieldsAre ==
    ASSUME NEW x \in WindowHeaders
    PROVE  /\ x.Used \in SUBSET (0 .. WindowMaxUnits - 1) /\ x.FreeUnitCount \in Int
           /\ x.ResumeScanOffset \in 0 .. WindowMaxUnits /\ x.FullListIndex \in Int
  BY Zenon DEF WindowHeaders

(* An allocator with some of its parts replaced.                            *)
OneWindow(a, b, w, x) == b.window = [a.window EXCEPT ![w] = x]
WithWindow(a, w, x, blocks) == [a EXCEPT !.window[w] = x, !.headers = blocks]
WithLists(a, win, pre, full) == [a EXCEPT !.window = win, !.preferred = pre, !.full = full]
WithAdded(a, w, x, pre) == [a EXCEPT !.window[w] = x, !.preferred = pre]

Parts(b, pre, full, blocks) ==
    b \in Allocators /\ b.preferred = pre /\ b.full = full /\ b.headers = blocks

ViewsOne(a, b, w, x) ==
    /\ Places(b) = [Places(a) EXCEPT ![w] = x.FullListIndex]
    /\ Bits(b) = [Bits(a) EXCEPT ![w] = x.Used]
    /\ Frees(b) = [Frees(a) EXCEPT ![w] = x.FreeUnitCount]

(* A change of one window and of the blocks leaves both lists alone.        *)
LEMMA SetWindow ==
    ASSUME NEW a \in Allocators, NEW w \in Windows, NEW x \in WindowHeaders,
           NEW blocks \in SUBSET Blocks,
           NEW b, b = WithWindow(a, w, x, blocks)
    PROVE  OneWindow(a, b, w, x) /\ Parts(b, a.preferred, a.full, blocks)
  BY Zenon DEF Allocators, WithWindow, OneWindow, Parts

(* A change of the lists leaves the blocks alone.                           *)
LEMMA SetLists ==
    ASSUME NEW a \in Allocators, NEW win \in [Windows -> WindowHeaders],
           NEW pre \in Seq(Windows), NEW full \in Seq(Windows),
           NEW b, b = WithLists(a, win, pre, full)
    PROVE  b.window = win /\ Parts(b, pre, full, a.headers)
  BY Zenon DEF Allocators, WithLists, Parts

(* A window added to the preferred list leaves the rest alone               *)
(* (allocateFromNewWindow).                                                 *)
LEMMA SetAdded ==
    ASSUME NEW a \in Allocators, NEW w \in Windows, NEW x \in WindowHeaders,
           NEW pre \in Seq(Windows),
           NEW b, b = WithAdded(a, w, x, pre)
    PROVE  OneWindow(a, b, w, x) /\ Parts(b, pre, a.full, a.headers)
  BY Zenon DEF Allocators, WithAdded, OneWindow, Parts

(* A change of the blocks leaves the windows alone (fallbackAllocate).      *)
LEMMA SetHeaders ==
    ASSUME NEW a \in Allocators, NEW blocks \in SUBSET Blocks,
           NEW b, b = [a EXCEPT !.headers = blocks]
    PROVE  b.window = a.window /\ Parts(b, a.preferred, a.full, blocks)
  BY Zenon DEF Allocators, Parts

(* The fields of the windows, as functions.                                 *)
LEMMA ViewsAre ==
    ASSUME NEW a \in Allocators
    PROVE  /\ Places(a) \in [Windows -> Int] /\ Bits(a) \in BitSets /\ Frees(a) \in [Windows -> Int]
           /\ Listed(a) \in SUBSET Windows
<1>1. a.window \in [Windows -> WindowHeaders] /\ a.preferred \in Seq(Windows) /\ a.full \in Seq(Windows)
  BY PartsAre, Zenon
<1>2. ASSUME NEW w \in Windows
      PROVE  /\ a.window[w].Used \in SUBSET (0 .. WindowMaxUnits - 1)
             /\ a.window[w].FreeUnitCount \in Int /\ a.window[w].FullListIndex \in Int
  <2>1. a.window[w] \in WindowHeaders
    BY <1>1, Zenon
  <2> QED
    BY <2>1, FieldsAre, Zenon
<1>3. Places(a) \in [Windows -> Int] /\ Frees(a) \in [Windows -> Int]
  BY <1>2, Zenon DEF Places, Frees
<1>4. Bits(a) \in BitSets
  BY <1>2, Zenon DEF Bits, BitSets
<1>5. Range(a.preferred) \subseteq Windows /\ Range(a.full) \subseteq Windows
  BY <1>1, RangeIn, Zenon
<1> QED
  BY <1>3, <1>4, <1>5, Zenon DEF Listed

(* Writing one WindowHeader changes what is known of that window only.      *)
LEMMA OneWindowViews ==
    ASSUME NEW a \in Allocators, NEW b \in Allocators, NEW w \in Windows, NEW x,
           OneWindow(a, b, w, x)
    PROVE  ViewsOne(a, b, w, x)
<1>1. a.window \in [Windows -> WindowHeaders]
  BY PartsAre, Zenon
<1>2. b.window[w] = x /\ \A v \in Windows : v # w => b.window[v] = a.window[v]
  BY <1>1, Zenon DEF OneWindow
<1>3. Places(b) = [Places(a) EXCEPT ![w] = x.FullListIndex]
  BY <1>2, Zenon DEF Places
<1>4. Bits(b) = [Bits(a) EXCEPT ![w] = x.Used]
  BY <1>2, Zenon DEF Bits
<1>5. Frees(b) = [Frees(a) EXCEPT ![w] = x.FreeUnitCount]
  BY <1>2, Zenon DEF Frees
<1> QED
  BY <1>3, <1>4, <1>5, Zenon DEF ViewsOne

(* What is known of a window is in its header.                              *)
LEMMA ViewAt ==
    ASSUME NEW a \in Allocators, NEW w \in Windows
    PROVE  /\ Places(a)[w] = a.window[w].FullListIndex /\ Bits(a)[w] = a.window[w].Used
           /\ Frees(a)[w] = a.window[w].FreeUnitCount /\ a.window[w] \in WindowHeaders
<1>1. a.window \in [Windows -> WindowHeaders]
  BY PartsAre, Zenon
<1> QED
  BY <1>1, Zenon DEF Places, Bits, Frees

(* Writing the value that is there changes nothing.                         *)
LEMMA SameHere ==
    ASSUME NEW S, NEW T, NEW f \in [S -> T], NEW w \in S, NEW x, x = f[w]
    PROVE  [f EXCEPT ![w] = x] = f
  OBVIOUS

(* A hole of a window, and Carve(), which makes a block of it.              *)
Hole(a, w, s, units) ==
    s + units <= WindowMaxUnits /\ (s .. s + units - 1) \cap a.window[w].Used = {}

(* Carving a block out of a hole sets the bits of its units and no other, and *)
(* counts them (the end of Allocate).                                       *)
LEMMA CarveExact ==
    ASSUME NEW a, Exact(a), NEW w \in Listed(a), NEW s \in Nat, NEW units \in Nat \ {0},
           Hole(a, w, s, units)
    PROVE  LET b == Carve(a, w, s, units)
           IN  Exact(b) /\ Parts(b, a.preferred, a.full, a.headers \cup {<<w, s, units>>})
<1> DEFINE R == s .. s + units - 1
           h == <<w, s, units>>
           blocks == a.headers \cup {h}
           x == a.window[w]
           y == [x EXCEPT !.Used = @ \cup R, !.FreeUnitCount = @ - units,
                          !.ResumeScanOffset = s + units]
           b == Carve(a, w, s, units)
<1>1. a \in Allocators
  BY Zenon DEF Exact
<1>2. /\ 1 .. PreallocatedWindows \subseteq Listed(a)
      /\ ListsExact(a.preferred, a.full, Places(a))
      /\ BlocksExact(a.headers, Listed(a), Bits(a))
      /\ CountsExact(Listed(a), Bits(a), Frees(a))
  BY Zenon DEF Exact
<1>3. /\ Places(a) \in [Windows -> Int] /\ Bits(a) \in BitSets /\ Frees(a) \in [Windows -> Int]
      /\ Listed(a) \in SUBSET Windows
  BY <1>1, ViewsAre, Zenon
<1>4. w \in Windows
  BY <1>3, Zenon
<1>5. a.headers \in SUBSET Blocks
  BY <1>1, PartsAre, Zenon
<1>6. x \in WindowHeaders /\ Places(a)[w] = x.FullListIndex
      /\ Bits(a)[w] = x.Used /\ Frees(a)[w] = x.FreeUnitCount
  BY <1>1, <1>4, ViewAt, Zenon
<1>7. h \in Blocks /\ h[1] = w /\ h[2] = s /\ h[3] = units
  BY <1>4, BlockMade, Zenon
<1>8. s + units <= WindowMaxUnits /\ R \cap x.Used = {}
  BY Zenon DEF Hole
<1> HIDE DEF x, h
<1>9. x.Used \in SUBSET (0 .. WindowMaxUnits - 1) /\ x.FreeUnitCount \in Int
  BY <1>6, FieldsAre, Zenon
<1>10. /\ y \in WindowHeaders /\ y.Used = x.Used \cup R
       /\ y.FreeUnitCount = x.FreeUnitCount - units /\ y.FullListIndex = x.FullListIndex
  <2>1. x.Used \cup R \in SUBSET (0 .. WindowMaxUnits - 1)
    <3>1. \A u \in R : u \in 0 .. WindowMaxUnits - 1
      BY <1>8, AllocatorAssumption
    <3> QED
      BY <1>9, <3>1, Zenon
  <2>2. s + units \in 0 .. WindowMaxUnits /\ x.FreeUnitCount - units \in Int
    BY <1>8, <1>9, AllocatorAssumption
  <2> HIDE DEF R
  <2> QED
    BY <1>6, <2>1, <2>2, Zenon DEF WindowHeaders
<1>11. blocks \in SUBSET Blocks
  BY <1>5, <1>7, Zenon
<1>12. b = WithWindow(a, w, y, blocks)
  BY Zenon DEF Carve, WithWindow, x, h
<1> HIDE DEF y, b, blocks
<1>13. OneWindow(a, b, w, y) /\ Parts(b, a.preferred, a.full, blocks)
  BY <1>1, <1>4, <1>10, <1>11, <1>12, SetWindow, Zenon
<1>14. b \in Allocators /\ b.preferred = a.preferred /\ b.full = a.full /\ b.headers = blocks
  BY <1>13, Zenon DEF Parts
<1>15. ViewsOne(a, b, w, y)
  BY <1>1, <1>4, <1>13, <1>14, OneWindowViews, Zenon
<1>16. Places(b) = Places(a)
  <2>1. [Places(a) EXCEPT ![w] = y.FullListIndex] = Places(a)
    BY <1>3, <1>4, <1>6, <1>10, SameHere, Zenon
  <2> QED
    BY <1>15, <2>1, Zenon DEF ViewsOne
<1>17. Listed(b) = Listed(a)
  BY <1>14, Zenon DEF Listed
<1>18. BlocksExact(b.headers, Listed(b), Bits(b))
  <2>1. (h[2] .. h[2] + h[3] - 1) \cap Bits(a)[h[1]] = {}
    BY <1>6, <1>7, <1>8, Zenon
  <2>2. h[2] + h[3] <= WindowMaxUnits /\ h[1] \in Listed(a)
    BY <1>7, <1>8, Zenon
  <2>3. BlocksExact(blocks, Listed(a), [Bits(a) EXCEPT ![h[1]] = @ \cup (h[2] .. h[2] + h[3] - 1)])
    BY <1>2, <1>3, <1>5, <1>7, <2>1, <2>2, AddBlock, Zenon DEF blocks
  <2>4. [Bits(a) EXCEPT ![h[1]] = @ \cup (h[2] .. h[2] + h[3] - 1)] = Bits(b)
    BY <1>6, <1>7, <1>10, <1>15, Zenon DEF ViewsOne
  <2> QED
    BY <1>14, <1>17, <2>3, <2>4, Zenon
<1>19. CountsExact(Listed(b), Bits(b), Frees(b))
  <2>1. Cardinality(y.Used) = Cardinality(x.Used) + units
    <3>1. units \in Nat
      BY Zenon
    <3>2. R \cap x.Used = {} /\ x.Used \in SUBSET (0 .. WindowMaxUnits - 1)
      BY <1>8, <1>9, Zenon
    <3>3. Cardinality(x.Used \cup R) = Cardinality(x.Used) + units
      BY <3>1, <3>2, CountTaken, Zenon
    <3> QED
      BY <1>10, <3>3, Zenon
  <2>2. x.FreeUnitCount = WindowMaxUnits - Cardinality(x.Used)
    BY <1>2, <1>6, Zenon DEF CountsExact
  <2>3. Cardinality(x.Used) \in Nat
    BY <1>9, UsedFinite, Zenon
  <2>4. y.FreeUnitCount = x.FreeUnitCount - units
    BY <1>10, Zenon
  <2>5. y.FreeUnitCount = WindowMaxUnits - Cardinality(y.Used)
    BY <2>1, <2>2, <2>3, <2>4, AllocatorAssumption
  <2>6. CountsExact(Listed(a) \cup {w}, [Bits(a) EXCEPT ![w] = y.Used],
                    [Frees(a) EXCEPT ![w] = y.FreeUnitCount])
    BY <1>2, <1>3, <1>4, <2>5, CountsKept, Zenon
  <2> QED
    BY <1>15, <1>17, <2>6, Zenon DEF CountsExact, ViewsOne
<1>20. Exact(b)
  BY <1>2, <1>14, <1>16, <1>17, <1>18, <1>19, Zenon DEF Exact
<1> QED
  BY <1>13, <1>20, Zenon DEF b, blocks, h

(* What is left of a block of which the first units are kept.               *)
Rest(b, kept) == IF kept = 0 THEN {} ELSE {<<b[1], b[2], kept>>}

GivenBack(blocks, listed, bits, b, kept) ==
    /\ b[1] \in listed /\ b[2] + b[3] <= WindowMaxUnits
    /\ (b[2] + kept .. b[2] + b[3] - 1) \subseteq bits[b[1]]
    /\ (blocks \ {b}) \cup Rest(b, kept) \in SUBSET Blocks
    /\ BlocksExact((blocks \ {b}) \cup Rest(b, kept), listed,
                   [bits EXCEPT ![b[1]] = @ \ (b[2] + kept .. b[2] + b[3] - 1)])

(* The end of a block given back was set, and lies in no other block.       *)
LEMMA GiveBackBlocks ==
    ASSUME NEW blocks \in SUBSET Blocks, NEW listed \in SUBSET Windows, NEW bits \in BitSets,
           BlocksExact(blocks, listed, bits), NEW b \in blocks, b[1] \in Windows,
           NEW kept \in Nat, kept < b[3]
    PROVE  GivenBack(blocks, listed, bits, b, kept)
<1>1. b[2] \in Nat /\ b[1] \in Windows \cup Large
  BY BlockIs, Zenon
<1>2. /\ b[1] \in listed /\ b[2] + b[3] <= WindowMaxUnits
      /\ (b[2] .. b[2] + b[3] - 1) \subseteq bits[b[1]]
      /\ BlocksExact(blocks \ {b}, listed, [bits EXCEPT ![b[1]] = @ \ (b[2] .. b[2] + b[3] - 1)])
  BY RemoveBlock, Zenon
<1>3. CASE kept = 0
  <2>1. b[2] + kept = b[2]
    BY <1>1, <1>3
  <2>2. (blocks \ {b}) \cup Rest(b, kept) = blocks \ {b}
    BY <1>3, Zenon DEF Rest
  <2>3. (blocks \ {b}) \cup Rest(b, kept) \in SUBSET Blocks
    BY <2>2, Zenon
  <2> QED
    BY <1>2, <2>1, <2>2, <2>3, Zenon DEF GivenBack
<1>4. CASE kept # 0
  <2> DEFINE c == <<b[1], b[2], kept>>
  <2>1. kept \in Nat \ {0}
    BY <1>4, Zenon
  <2>2. c \in Blocks /\ c[1] = b[1] /\ c[2] = b[2] /\ c[3] = kept
    BY <1>1, <2>1, BlockMade, Zenon
  <2>3. (blocks \ {b}) \cup Rest(b, kept) = (blocks \ {b}) \cup {c}
    BY <1>4, Zenon DEF Rest
  <2> HIDE DEF c
  <2>4. (blocks \ {b}) \cup Rest(b, kept) \in SUBSET Blocks
    BY <2>2, <2>3, Zenon
  <2>5. c[3] < b[3]
    BY <2>2, Zenon
  <2>6. /\ (b[2] + c[3] .. b[2] + b[3] - 1) \subseteq bits[b[1]]
        /\ BlocksExact((blocks \ {b}) \cup {c}, listed,
                       [bits EXCEPT ![b[1]] = @ \ (b[2] + c[3] .. b[2] + b[3] - 1)])
    BY <2>2, <2>5, CutBlock, Zenon
  <2> QED
    BY <1>2, <2>2, <2>3, <2>4, <2>6, Zenon DEF GivenBack
<1> QED
  BY <1>3, <1>4, Zenon

(* The earlier of two places to resume the search.                          *)
LEMMA EarlierIs ==
    ASSUME NEW x \in 0 .. WindowMaxUnits, NEW y \in 0 .. WindowMaxUnits
    PROVE  Min({x, y}) \in 0 .. WindowMaxUnits
<1>1. x \in Nat /\ y \in Nat
  BY AllocatorAssumption
<1>2. {x, y} \in SUBSET Nat /\ {x, y} # {}
  BY <1>1, Zenon
<1>3. Min({x, y}) \in {x, y}
  BY <1>2, Smallest, Zenon
<1> QED
  BY <1>3, Zenon

(* Clearing the bits of a block, or of its end, keeps the window exact (Free, *)
(* Shrink).                                                                 *)
LEMMA GiveBackExact ==
    ASSUME NEW a, Exact(a), NEW h \in a.headers, h[1] \in Windows, NEW kept \in Nat, kept < h[3]
    PROVE  LET b == GiveBack(a, h, kept)
           IN  /\ Exact(b) /\ h[1] \in Listed(b)
               /\ Parts(b, a.preferred, a.full, (a.headers \ {h}) \cup Rest(h, kept))
<1> DEFINE start == h[2] + kept
           end == h[2] + h[3]
           w == h[1]
           R == start .. end - 1
           blocks == (a.headers \ {h}) \cup Rest(h, kept)
           x == a.window[w]
           y == [x EXCEPT !.ResumeScanOffset = Min({@, start}), !.Used = @ \ R,
                          !.FreeUnitCount = @ + end - start]
           b == GiveBack(a, h, kept)
<1>1. a \in Allocators
  BY Zenon DEF Exact
<1>2. /\ 1 .. PreallocatedWindows \subseteq Listed(a)
      /\ ListsExact(a.preferred, a.full, Places(a))
      /\ BlocksExact(a.headers, Listed(a), Bits(a))
      /\ CountsExact(Listed(a), Bits(a), Frees(a))
  BY Zenon DEF Exact
<1>3. /\ Places(a) \in [Windows -> Int] /\ Bits(a) \in BitSets /\ Frees(a) \in [Windows -> Int]
      /\ Listed(a) \in SUBSET Windows
  BY <1>1, ViewsAre, Zenon
<1>4. w \in Windows
  BY Zenon
<1>5. a.headers \in SUBSET Blocks
  BY <1>1, PartsAre, Zenon
<1>6. x \in WindowHeaders /\ Places(a)[w] = x.FullListIndex
      /\ Bits(a)[w] = x.Used /\ Frees(a)[w] = x.FreeUnitCount
  BY <1>1, <1>4, ViewAt, Zenon
<1>7. h[2] \in Nat /\ h[3] \in Nat
  BY <1>5, BlockIs, Zenon
<1>8. /\ w \in Listed(a) /\ end <= WindowMaxUnits /\ R \subseteq Bits(a)[w]
      /\ blocks \in SUBSET Blocks
      /\ BlocksExact(blocks, Listed(a), [Bits(a) EXCEPT ![w] = @ \ R])
  <2>1. BlocksExact(a.headers, Listed(a), Bits(a))
    BY <1>2, Zenon
  <2>2. GivenBack(a.headers, Listed(a), Bits(a), h, kept)
    BY <1>3, <1>5, <2>1, GiveBackBlocks, Zenon
  <2>3. h[2] + h[3] - 1 = end - 1
    BY <1>7
  <2> QED
    BY <2>2, <2>3, Zenon DEF GivenBack
<1>9. /\ start \in 0 .. WindowMaxUnits /\ end \in Nat /\ end - start \in Nat
      /\ start + (end - start) - 1 = end - 1
  BY <1>7, <1>8, AllocatorAssumption
<1> HIDE DEF x, w, start, end
<1>10. /\ x.Used \in SUBSET (0 .. WindowMaxUnits - 1) /\ x.FreeUnitCount \in Int
       /\ x.ResumeScanOffset \in 0 .. WindowMaxUnits
  BY <1>6, FieldsAre, Zenon
<1> HIDE DEF R
<1>11. /\ y \in WindowHeaders /\ y.Used = x.Used \ R
       /\ y.FreeUnitCount = x.FreeUnitCount + end - start /\ y.FullListIndex = x.FullListIndex
  <2>1. x.Used \ R \in SUBSET (0 .. WindowMaxUnits - 1)
    BY <1>10, Zenon
  <2>2. x.FreeUnitCount + end - start \in Int
    <3>1. start \in Int
      BY <1>9, AllocatorAssumption
    <3> QED
      BY <1>9, <1>10, <3>1
  <2>3. Min({x.ResumeScanOffset, start}) \in 0 .. WindowMaxUnits
    BY <1>9, <1>10, EarlierIs, Zenon
  <2> QED
    BY <1>6, <2>1, <2>2, <2>3, Zenon DEF WindowHeaders
<1>12. b = WithWindow(a, w, y, blocks)
  BY Zenon DEF GiveBack, WithWindow, Rest, x, w, start, end, R
<1> HIDE DEF y, b, blocks
<1>13. OneWindow(a, b, w, y) /\ Parts(b, a.preferred, a.full, blocks)
  BY <1>1, <1>4, <1>8, <1>11, <1>12, SetWindow, Zenon
<1>14. b \in Allocators /\ b.preferred = a.preferred /\ b.full = a.full /\ b.headers = blocks
  BY <1>13, Zenon DEF Parts
<1>15. ViewsOne(a, b, w, y)
  BY <1>1, <1>4, <1>13, <1>14, OneWindowViews, Zenon
<1>16. Places(b) = Places(a)
  <2>1. [Places(a) EXCEPT ![w] = y.FullListIndex] = Places(a)
    BY <1>3, <1>4, <1>6, <1>11, SameHere, Zenon
  <2> QED
    BY <1>15, <2>1, Zenon DEF ViewsOne
<1>17. Listed(b) = Listed(a)
  BY <1>14, Zenon DEF Listed
<1>18. BlocksExact(b.headers, Listed(b), Bits(b))
  <2>1. [Bits(a) EXCEPT ![w] = @ \ R] = Bits(b)
    BY <1>6, <1>11, <1>15, Zenon DEF ViewsOne
  <2> QED
    BY <1>8, <1>14, <1>17, <2>1, Zenon
<1>19. CountsExact(Listed(b), Bits(b), Frees(b))
  <2>1. Cardinality(y.Used) = Cardinality(x.Used) - (end - start)
    <3>1. R = start .. start + (end - start) - 1 /\ start \in Nat
      BY <1>9, AllocatorAssumption DEF R
    <3>2. start .. start + (end - start) - 1 \subseteq x.Used
      BY <1>6, <1>8, <3>1, Zenon
    <3>3. Cardinality(x.Used \ (start .. start + (end - start) - 1)) = Cardinality(x.Used) - (end - start)
      BY <1>9, <1>10, <3>1, <3>2, CountReturned, Zenon
    <3> QED
      BY <1>11, <3>1, <3>3, Zenon
  <2>2. x.FreeUnitCount = WindowMaxUnits - Cardinality(x.Used)
    BY <1>2, <1>6, <1>8, Zenon DEF CountsExact
  <2>3. Cardinality(x.Used) \in Nat
    BY <1>10, UsedFinite, Zenon
  <2>4. y.FreeUnitCount = x.FreeUnitCount + end - start /\ start \in Nat /\ end \in Nat
    <3>1. start \in Nat
      BY <1>9, AllocatorAssumption
    <3> QED
      BY <1>9, <1>11, <3>1, Zenon
  <2>5. y.FreeUnitCount = WindowMaxUnits - Cardinality(y.Used)
    BY <2>1, <2>2, <2>3, <2>4, AllocatorAssumption
  <2>6. CountsExact(Listed(a) \cup {w}, [Bits(a) EXCEPT ![w] = y.Used],
                    [Frees(a) EXCEPT ![w] = y.FreeUnitCount])
    BY <1>2, <1>3, <1>4, <2>5, CountsKept, Zenon
  <2> QED
    BY <1>15, <1>17, <2>6, Zenon DEF CountsExact, ViewsOne
<1>20. Exact(b)
  BY <1>2, <1>14, <1>16, <1>17, <1>18, <1>19, Zenon DEF Exact
<1>21. w \in Listed(b)
  BY <1>8, <1>17, Zenon
<1> QED
  BY <1>13, <1>20, <1>21, Zenon DEF b, blocks, w

(* The windows that MoveLastFewWindowsToFull() moves.                       *)
LEMMA MovedIs ==
    ASSUME NEW q \in Seq(Windows), NEW count \in 0 .. Len(q),
           NEW moved, moved = [i \in 1 .. count |-> q[Len(q) + 1 - i]]
    PROVE  /\ moved \in Seq(Windows) /\ Len(moved) = count
           /\ \A i \in 1 .. count : moved[i] = q[Len(q) + 1 - i]
<1> DEFINE n == Len(q)
<1>1. n \in Nat /\ \A i \in 1 .. n : q[i] \in Windows
  BY RangeIs, Zenon
<1>2. count \in 0 .. n
  BY Zenon
<1>3. \A i \in 1 .. count : moved[i] = q[n + 1 - i]
  BY Zenon
<1>4. moved = [i \in 1 .. count |-> q[n + 1 - i]]
  BY Zenon
<1> HIDE DEF n
<1>5. count \in Nat /\ \A i \in 1 .. count : n + 1 - i \in 1 .. n
  BY <1>1, <1>2
<1>6. \A i \in 1 .. count : q[n + 1 - i] \in Windows
  BY <1>1, <1>5, Zenon
<1>7. moved \in [1 .. count -> Windows]
  BY <1>4, <1>6, Zenon
<1>8. moved \in Seq(Windows) /\ Len(moved) = count
  BY <1>5, <1>7
<1> QED
  BY <1>3, <1>8, Zenon DEF n

(* No window is moved twice, so the index it is given is its new place.     *)
LEMMA MovedOnce ==
    ASSUME NEW q \in Seq(Windows), \A i, j \in 1 .. Len(q) : q[i] = q[j] => i = j,
           NEW count \in 0 .. Len(q), NEW i \in 1 .. count, NEW j \in 1 .. count,
           q[Len(q) + 1 - i] = q[Len(q) + 1 - j]
    PROVE  i = j
<1> DEFINE n == Len(q)
<1>1. n \in Nat
  BY RangeIs, Zenon
<1>2. count \in 0 .. n
  BY Zenon
<1>3. (n + 1 - i \in 1 .. n /\ n + 1 - j \in 1 .. n) => n + 1 - i = n + 1 - j
  BY Zenon
<1> HIDE DEF n
<1>4. n + 1 - i \in 1 .. n /\ n + 1 - j \in 1 .. n
  BY <1>1, <1>2
<1> QED
  BY <1>1, <1>2, <1>3, <1>4

(* MoveLastFewWindowsToFull() keeps the allocator exact.                    *)
LEMMA MoveExact ==
    ASSUME NEW a, Exact(a), NEW count \in 0 .. Len(a.preferred)
    PROVE  LET b == MoveLastFewWindowsToFull(a, count)
           IN  Exact(b) /\ b.headers = a.headers /\ Listed(b) = Listed(a)
<1> DEFINE pre == a.preferred
           moved == [i \in 1 .. count |-> a.preferred[Len(a.preferred) + 1 - i]]
           p == SubSeq(pre, 1, Len(pre) - count)
           f == a.full \o moved
           at(w) == CHOOSE i \in 1 .. count : moved[i] = w
           win == [w \in DOMAIN a.window |->
                     IF \E i \in 1 .. count : moved[i] = w
                     THEN [a.window[w] EXCEPT !.FullListIndex = Len(a.full) + at(w) - 1]
                     ELSE a.window[w]]
           b == MoveLastFewWindowsToFull(a, count)
<1>1. a \in Allocators
  BY Zenon DEF Exact
<1>2. /\ 1 .. PreallocatedWindows \subseteq Listed(a)
      /\ ListsExact(a.preferred, a.full, Places(a))
      /\ BlocksExact(a.headers, Listed(a), Bits(a))
      /\ CountsExact(Listed(a), Bits(a), Frees(a))
  BY Zenon DEF Exact
<1>3. /\ a.window \in [Windows -> WindowHeaders] /\ a.preferred \in Seq(Windows)
      /\ a.full \in Seq(Windows)
  BY <1>1, PartsAre, Zenon
<1>4. b = WithLists(a, win, p, f)
  BY Zenon DEF MoveLastFewWindowsToFull, WithLists
<1>5. /\ moved \in Seq(Windows) /\ Len(moved) = count
      /\ \A i \in 1 .. count : moved[i] = pre[Len(pre) + 1 - i]
  BY <1>3, MovedIs, Zenon
<1>6. \A i, j \in 1 .. Len(pre) : pre[i] = pre[j] => i = j
  BY <1>2, Zenon DEF ListsExact
<1> HIDE DEF moved
<1>7. ASSUME NEW i \in 1 .. count PROVE at(moved[i]) = i
  <2>1. at(moved[i]) \in 1 .. count /\ moved[at(moved[i])] = moved[i]
    BY Zenon
  <2> HIDE DEF at
  <2>2. pre[Len(pre) + 1 - at(moved[i])] = pre[Len(pre) + 1 - i]
    BY <1>5, <2>1, Zenon
  <2> QED
    BY <1>3, <1>6, <2>1, <2>2, MovedOnce, Zenon
<1>8. \A w : (\E i \in 1 .. count : moved[i] = w) => at(w) \in 1 .. count
  BY Zenon
<1> HIDE DEF at
<1>9. Len(a.full) \in Nat
  BY <1>3, RangeIs, Zenon
<1>10. \A i \in 1 .. count : Len(a.full) + i - 1 \in Int
  BY <1>9
<1>11. ASSUME NEW w \in Windows
       PROVE  /\ win[w] \in WindowHeaders
              /\ win[w].Used = a.window[w].Used /\ win[w].FreeUnitCount = a.window[w].FreeUnitCount
              /\ (\E i \in 1 .. count : moved[i] = w)
                    => win[w].FullListIndex = Len(a.full) + at(w) - 1
              /\ (\A i \in 1 .. count : moved[i] # w)
                    => win[w].FullListIndex = a.window[w].FullListIndex
  <2> DEFINE x == a.window[w]
             k == Len(a.full) + at(w) - 1
             y == [x EXCEPT !.FullListIndex = k]
  <2>1. x \in WindowHeaders
    BY <1>3, Zenon
  <2>2. CASE \E i \in 1 .. count : moved[i] = w
    <3>1. k \in Int
      BY <1>8, <1>10, <2>2, Zenon
    <3>2. win[w] = y
      BY <1>3, <2>2, Zenon
    <3> HIDE DEF win, k, x
    <3>3. y \in WindowHeaders /\ y.Used = x.Used /\ y.FreeUnitCount = x.FreeUnitCount /\ y.FullListIndex = k
      BY <2>1, <3>1, Zenon DEF WindowHeaders
    <3> HIDE DEF y
    <3> QED
      BY <2>2, <3>2, <3>3, Zenon DEF k, x
  <2>3. CASE ~(\E i \in 1 .. count : moved[i] = w)
    <3>1. win[w] = x
      BY <1>3, <2>3, Zenon
    <3> HIDE DEF win
    <3> QED
      BY <2>1, <2>3, <3>1, Zenon
  <2> QED
    BY <2>2, <2>3, Zenon
<1>12. win \in [Windows -> WindowHeaders]
  <2>1. win = [w \in Windows |-> win[w]]
    BY <1>3, Zenon
  <2>2. \A w \in Windows : win[w] \in WindowHeaders
    BY <1>11, Zenon
  <2> HIDE DEF win
  <2> QED
    BY <2>1, <2>2, Zenon
<1> HIDE DEF win
<1>13. p \in Seq(Windows) /\ f \in Seq(Windows)
  <2>1. Len(pre) - count \in 0 .. Len(pre)
    <3>1. Len(pre) \in Nat
      BY <1>3, RangeIs, Zenon
    <3> QED
      BY <3>1
  <2> QED
    BY <1>3, <1>5, <2>1, FrontIs, BehindIs, Zenon
<1> HIDE DEF p, f, b
<1>14. b.window = win /\ Parts(b, p, f, a.headers)
  BY <1>1, <1>4, <1>12, <1>13, SetLists, Zenon
<1>15. b \in Allocators /\ b.preferred = p /\ b.full = f /\ b.headers = a.headers
  BY <1>14, Zenon DEF Parts
<1>16. Bits(b) = Bits(a) /\ Frees(b) = Frees(a)
  BY <1>11, <1>14, Zenon DEF Bits, Frees
<1>17. Moves(pre, a.full, Places(a), moved, Places(b))
  <2>1. \A w \in Windows : Places(b)[w] = win[w].FullListIndex /\ Places(a)[w] = a.window[w].FullListIndex
    BY <1>14, Zenon DEF Places
  <2>2. ASSUME NEW i \in 1 .. Len(moved) PROVE Places(b)[moved[i]] = Len(a.full) + i - 1
    <3>1. moved[i] \in Windows /\ i \in 1 .. count
      BY <1>5, RangeIs, Zenon
    <3>2. win[moved[i]].FullListIndex = Len(a.full) + at(moved[i]) - 1
      BY <1>11, <3>1, Zenon
    <3> QED
      BY <1>7, <2>1, <3>1, <3>2, Zenon
  <2>3. ASSUME NEW w \in Windows, \A i \in 1 .. Len(moved) : moved[i] # w
        PROVE  Places(b)[w] = Places(a)[w]
    BY <1>5, <1>11, <2>1, <2>3, Zenon
  <2> QED
    BY <1>5, <2>2, <2>3, Zenon DEF Moves
<1>18. ListsExact(p, f, Places(b)) /\ Range(p) \cup Range(f) = Range(pre) \cup Range(a.full)
  <2>1. Places(a) \in [Windows -> Int] /\ Places(b) \in [Windows -> Int]
    BY <1>1, <1>15, ViewsAre, Zenon
  <2>2. Len(moved) <= Len(pre)
    <3>1. Len(pre) \in Nat
      BY <1>3, RangeIs, Zenon
    <3> QED
      BY <1>5, <3>1
  <2>3. p = SubSeq(pre, 1, Len(pre) - Len(moved))
    BY <1>5, Zenon DEF p
  <2>4. ListsExact(pre, a.full, Places(a))
    BY <1>2, Zenon
  <2>5. pre \in Seq(Windows) /\ a.full \in Seq(Windows) /\ moved \in Seq(Windows)
    BY <1>3, <1>5, Zenon
  <2>6. /\ ListsExact(SubSeq(pre, 1, Len(pre) - Len(moved)), a.full \o moved, Places(b))
        /\ Range(SubSeq(pre, 1, Len(pre) - Len(moved))) \cup Range(a.full \o moved)
             = Range(pre) \cup Range(a.full)
    BY <1>17, <2>1, <2>2, <2>4, <2>5, MoveLists, Zenon
  <2> QED
    BY <2>3, <2>6, Zenon DEF f
<1>19. Listed(b) = Listed(a)
  BY <1>15, <1>18, Zenon DEF Listed
<1>20. Exact(b)
  BY <1>2, <1>15, <1>16, <1>18, <1>19, Zenon DEF Exact
<1> QED
  BY <1>15, <1>19, <1>20, Zenon DEF b

(* One field of one window.                                                 *)
PlaceTo(A, v, k) == [A EXCEPT ![v].FullListIndex = k]
ResumeAt(A, v, k) == [A EXCEPT ![v].ResumeScanOffset = k]

SamePlaces(A, B, S) == \A w \in S : B[w].FullListIndex = A[w].FullListIndex
SameUnits(A, B) ==
    \A w \in Windows : B[w].Used = A[w].Used /\ B[w].FreeUnitCount = A[w].FreeUnitCount

(* Storing FullListIndex touches neither bits nor counts.                   *)
LEMMA SetPlace ==
    ASSUME NEW A \in [Windows -> WindowHeaders], NEW v \in Windows, NEW k \in Int,
           NEW B, B = PlaceTo(A, v, k)
    PROVE  /\ B \in [Windows -> WindowHeaders] /\ B[v].FullListIndex = k
           /\ SameUnits(A, B) /\ SamePlaces(A, B, Windows \ {v})
<1> DEFINE y == [A[v] EXCEPT !.FullListIndex = k]
<1>1. A[v] \in WindowHeaders
  BY Zenon
<1>2. /\ y \in WindowHeaders /\ y.Used = A[v].Used /\ y.FreeUnitCount = A[v].FreeUnitCount
      /\ y.FullListIndex = k
  BY <1>1, Zenon DEF WindowHeaders
<1>3. B = [A EXCEPT ![v] = y]
  BY Zenon DEF PlaceTo
<1> HIDE DEF y
<1>4. B \in [Windows -> WindowHeaders] /\ B[v] = y /\ \A w \in Windows : w # v => B[w] = A[w]
  BY <1>2, <1>3, Zenon
<1> QED
  BY <1>2, <1>4, Zenon DEF SameUnits, SamePlaces

(* Storing ResumeScanOffset touches neither bits, counts nor places.        *)
LEMMA SetResume ==
    ASSUME NEW A \in [Windows -> WindowHeaders], NEW v \in Windows, NEW k \in 0 .. WindowMaxUnits,
           NEW B, B = ResumeAt(A, v, k)
    PROVE  B \in [Windows -> WindowHeaders] /\ SameUnits(A, B) /\ SamePlaces(A, B, Windows)
<1> DEFINE y == [A[v] EXCEPT !.ResumeScanOffset = k]
<1>1. A[v] \in WindowHeaders
  BY Zenon
<1>2. /\ y \in WindowHeaders /\ y.Used = A[v].Used /\ y.FreeUnitCount = A[v].FreeUnitCount
      /\ y.FullListIndex = A[v].FullListIndex
  BY <1>1, Zenon DEF WindowHeaders
<1>3. B = [A EXCEPT ![v] = y]
  BY Zenon DEF ResumeAt
<1> HIDE DEF y
<1>4. B \in [Windows -> WindowHeaders] /\ B[v] = y /\ \A w \in Windows : w # v => B[w] = A[w]
  BY <1>2, <1>3, Zenon
<1> QED
  BY <1>2, <1>4, Zenon DEF SameUnits, SamePlaces

InFull(a, w) == a.window[w].FullListIndex # NotInFullList

(* The promotion of a window in Free() keeps the allocator exact.           *)
LEMMA PromoteExact ==
    ASSUME NEW a, Exact(a), NEW w \in Listed(a), InFull(a, w)
    PROVE  LET b == Promote(a, w)
           IN  Exact(b) /\ b.headers = a.headers
<1> DEFINE i == a.window[w].FullListIndex + 1
           last == a.full[Len(a.full)]
           short == SubSeq(a.full, 1, Len(a.full) - 1)
           f == IF i = Len(a.full) THEN short ELSE [short EXCEPT ![i] = last]
           p == Append(a.preferred, w)
           A1 == PlaceTo(a.window, last, i - 1)
           A2 == PlaceTo(A1, w, NotInFullList)
           win == ResumeAt(A2, w, 0)
           b == Promote(a, w)
<1>1. a \in Allocators
  BY Zenon DEF Exact
<1>2. /\ 1 .. PreallocatedWindows \subseteq Listed(a)
      /\ ListsExact(a.preferred, a.full, Places(a))
      /\ BlocksExact(a.headers, Listed(a), Bits(a))
      /\ CountsExact(Listed(a), Bits(a), Frees(a))
  BY Zenon DEF Exact
<1>3. /\ a.window \in [Windows -> WindowHeaders] /\ a.preferred \in Seq(Windows)
      /\ a.full \in Seq(Windows)
  BY <1>1, PartsAre, Zenon
<1>4. b = WithLists(a, win, p, f)
  BY Zenon DEF Promote, WithLists, PlaceTo, ResumeAt
<1>5. Places(a) \in [Windows -> Int] /\ w \in Windows
  BY <1>1, ViewsAre, Zenon
<1>6. Places(a)[w] = a.window[w].FullListIndex /\ a.window[w].FullListIndex \in Int
  <2>1. Places(a)[w] = a.window[w].FullListIndex
    BY <1>1, <1>5, ViewAt, Zenon
  <2> QED
    BY <1>5, <2>1, Zenon
<1>7. i \in 1 .. Len(a.full) /\ a.full[i] = w
  <2>1. w \in Range(a.preferred) \cup Range(a.full)
    BY Zenon DEF Listed
  <2>2. ListsExact(a.preferred, a.full, Places(a)) /\ Places(a)[w] # NotInFullList
    BY <1>2, <1>6, Zenon DEF InFull
  <2>3. Places(a)[w] + 1 \in 1 .. Len(a.full) /\ a.full[Places(a)[w] + 1] = w
    BY <1>3, <1>5, <2>1, <2>2, PlaceIs, Zenon
  <2> QED
    BY <1>6, <2>3, Zenon
<1> HIDE DEF i
<1>8. f \in Seq(Windows) /\ Fills(a.full, i, f)
  BY <1>3, <1>7, FillGap, Zenon DEF Fills
<1>9. last \in Windows /\ i - 1 \in Int
  <2>1. Len(a.full) \in Nat /\ \A j \in 1 .. Len(a.full) : a.full[j] \in Windows
    BY <1>3, RangeIs, Zenon
  <2>2. Len(a.full) \in 1 .. Len(a.full) /\ i - 1 \in Int
    BY <1>7, <2>1
  <2> QED
    BY <2>1, <2>2, Zenon
<1>10. p \in Seq(Windows)
  BY <1>3, <1>5, AppendIs, Zenon
<1>11. NotInFullList \in Int /\ 0 \in 0 .. WindowMaxUnits
  BY AllocatorAssumption DEF NotInFullList
<1> HIDE DEF last
<1>12. /\ A1 \in [Windows -> WindowHeaders] /\ A1[last].FullListIndex = i - 1
       /\ SameUnits(a.window, A1) /\ SamePlaces(a.window, A1, Windows \ {last})
  BY <1>3, <1>9, SetPlace, Zenon
<1> HIDE DEF A1
<1>13. /\ A2 \in [Windows -> WindowHeaders] /\ A2[w].FullListIndex = NotInFullList
       /\ SameUnits(A1, A2) /\ SamePlaces(A1, A2, Windows \ {w})
  BY <1>5, <1>11, <1>12, SetPlace, Zenon
<1> HIDE DEF A2
<1>14. win \in [Windows -> WindowHeaders] /\ SameUnits(A2, win) /\ SamePlaces(A2, win, Windows)
  BY <1>5, <1>11, <1>13, SetResume, Zenon
<1> HIDE DEF win, b, f, p
<1>15. b.window = win /\ Parts(b, p, f, a.headers)
  <2>1. win \in [Windows -> WindowHeaders] /\ f \in Seq(Windows)
    BY <1>8, <1>14, Zenon
  <2> QED
    BY <1>1, <1>4, <1>10, <2>1, SetLists, Zenon
<1>16. b \in Allocators /\ b.preferred = p /\ b.full = f /\ b.headers = a.headers
  BY <1>15, Zenon DEF Parts
<1>17. Bits(b) = Bits(a) /\ Frees(b) = Frees(a)
  <2>1. \A v \in Windows : /\ b.window[v].Used = a.window[v].Used
                           /\ b.window[v].FreeUnitCount = a.window[v].FreeUnitCount
    BY <1>12, <1>13, <1>14, <1>15, Zenon DEF SameUnits
  <2> QED
    BY <2>1, Zenon DEF Bits, Frees
<1>18. Places(b) = [Places(a) EXCEPT ![last] = i - 1, ![w] = NotInFullList]
  <2> DEFINE new == [Places(a) EXCEPT ![last] = i - 1, ![w] = NotInFullList]
  <2>1. /\ new = [v \in Windows |-> new[v]] /\ new[w] = NotInFullList
        /\ (last # w => new[last] = i - 1) /\ \A v \in Windows : v # w /\ v # last => new[v] = Places(a)[v]
    BY <1>5, <1>9, Zenon
  <2> HIDE DEF new
  <2>2. ASSUME NEW v \in Windows PROVE b.window[v].FullListIndex = new[v]
    <3>1. b.window[v].FullListIndex = A2[v].FullListIndex
      BY <1>14, <1>15, Zenon DEF SamePlaces
    <3>2. CASE v = w
      BY <1>13, <2>1, <3>1, <3>2, Zenon
    <3>3. CASE v # w /\ v = last
      BY <1>12, <1>13, <2>1, <3>1, <3>3, Zenon DEF SamePlaces
    <3>4. CASE v # w /\ v # last
      <4>1. a.window[v].FullListIndex = Places(a)[v]
        BY Zenon DEF Places
      <4> QED
        BY <1>12, <1>13, <2>1, <3>1, <3>4, <4>1, Zenon DEF SamePlaces
    <3> QED
      BY <3>2, <3>3, <3>4, Zenon
  <2>3. Places(b) = [v \in Windows |-> new[v]]
    BY <2>2, Zenon DEF Places
  <2> QED
    BY <2>1, <2>3, Zenon DEF new
<1>19. ListsExact(p, f, Places(b)) /\ Range(p) \cup Range(f) = Range(a.preferred) \cup Range(a.full)
  <2>1. Places(b) \in [Windows -> Int]
    BY <1>16, ViewsAre, Zenon
  <2>2. ListsExact(a.preferred, a.full, Places(a))
    BY <1>2, Zenon
  <2>3. Promoted(a.full, Places(a), i, w, Places(b))
    BY <1>7, <1>18, Zenon DEF Promoted, last
  <2>4. i \in 1 .. Len(a.full)
    BY <1>7, Zenon
  <2>5. a.preferred \in Seq(Windows) /\ a.full \in Seq(Windows)
    BY <1>3, Zenon
  <2>6. /\ ListsExact(Append(a.preferred, w), f, Places(b))
        /\ SameWindows(Append(a.preferred, w), f, a.preferred, a.full)
    BY <1>5, <1>8, <2>1, <2>2, <2>3, <2>4, <2>5, PromoteLists, Zenon
  <2> QED
    BY <2>6, Zenon DEF p, SameWindows
<1>20. Listed(b) = Listed(a)
  BY <1>16, <1>19, Zenon DEF Listed
<1>21. Exact(b)
  BY <1>2, <1>16, <1>17, <1>19, <1>20, Zenon DEF Exact
<1> QED
  BY <1>16, <1>21, Zenon DEF b

(* allocateFromNewWindow(): an empty window, preferred.                     *)
LEMMA AddedExact ==
    ASSUME NEW a, Exact(a), NEW w \in Windows, ~(w \in Listed(a)),
           NEW b, b = WithAdded(a, w, Emptied, Append(a.preferred, w))
    PROVE  /\ Exact(b) /\ w \in Listed(b) /\ b.headers = a.headers
           /\ b.window[w].Used = {}
<1> DEFINE p == Append(a.preferred, w)
<1>1. a \in Allocators
  BY Zenon DEF Exact
<1>2. /\ 1 .. PreallocatedWindows \subseteq Listed(a)
      /\ ListsExact(a.preferred, a.full, Places(a))
      /\ BlocksExact(a.headers, Listed(a), Bits(a))
      /\ CountsExact(Listed(a), Bits(a), Frees(a))
  BY Zenon DEF Exact
<1>3. /\ a.window \in [Windows -> WindowHeaders] /\ a.preferred \in Seq(Windows)
      /\ a.full \in Seq(Windows) /\ a.headers \in SUBSET Blocks
  BY <1>1, PartsAre, Zenon
<1>4. /\ Places(a) \in [Windows -> Int] /\ Bits(a) \in BitSets /\ Frees(a) \in [Windows -> Int]
      /\ Listed(a) \in SUBSET Windows
  BY <1>1, ViewsAre, Zenon
<1>5. /\ Emptied \in WindowHeaders /\ Emptied.Used = {} /\ Emptied.FreeUnitCount = WindowMaxUnits
      /\ Emptied.FullListIndex = NotInFullList
  <2>1. WindowMaxUnits \in Int /\ 0 \in 0 .. WindowMaxUnits /\ NotInFullList \in Int
    BY AllocatorAssumption DEF NotInFullList
  <2> QED
    BY <2>1, Zenon DEF Emptied, WindowHeaders
<1>6. p \in Seq(Windows)
  BY <1>3, AppendIs, Zenon
<1> HIDE DEF p
<1>7. OneWindow(a, b, w, Emptied) /\ Parts(b, p, a.full, a.headers)
  <2>1. Emptied \in WindowHeaders
    BY <1>5, Zenon
  <2> QED
    BY <1>1, <1>6, <2>1, SetAdded, Zenon DEF p
<1>8. b \in Allocators /\ b.preferred = p /\ b.full = a.full /\ b.headers = a.headers
  BY <1>7, Zenon DEF Parts
<1>9. ViewsOne(a, b, w, Emptied)
  BY <1>1, <1>7, <1>8, OneWindowViews, Zenon
<1>10. /\ Places(b) = [Places(a) EXCEPT ![w] = NotInFullList]
       /\ Bits(b) = [Bits(a) EXCEPT ![w] = {}]
       /\ Frees(b) = [Frees(a) EXCEPT ![w] = WindowMaxUnits]
  BY <1>5, <1>9, Zenon DEF ViewsOne
<1>11. ListsExact(p, a.full, Places(b)) /\ Range(p) = Range(a.preferred) \cup {w}
  <2>1. Places(b) \in [Windows -> Int]
    BY <1>8, ViewsAre, Zenon
  <2>2. ListsExact(a.preferred, a.full, Places(a))
    BY <1>2, Zenon
  <2>3. ~(w \in Range(a.preferred) \cup Range(a.full))
    BY Zenon DEF Listed
  <2>4. /\ a.preferred \in Seq(Windows) /\ a.full \in Seq(Windows) /\ Places(a) \in [Windows -> Int]
        /\ Places(b) = [Places(a) EXCEPT ![w] = NotInFullList]
    BY <1>3, <1>4, <1>10, Zenon
  <2>5. ListsExact(Append(a.preferred, w), a.full, Places(b))
    BY <2>1, <2>2, <2>3, <2>4, AppendLists, Zenon
  <2>6. RangeGrows(a.preferred, Append(a.preferred, w), w)
    BY <2>4, AppendRange, Zenon
  <2> QED
    BY <2>5, <2>6, Zenon DEF p, RangeGrows
<1>12. Listed(b) = Listed(a) \cup {w}
  BY <1>8, <1>11, Zenon DEF Listed
<1>13. BlocksExact(b.headers, Listed(b), Bits(b))
  <2>1. BlocksExact(a.headers, Listed(a), Bits(a))
    BY <1>2, Zenon
  <2>2. BlocksExact(a.headers, Listed(a) \cup {w}, [Bits(a) EXCEPT ![w] = {}])
    BY <1>3, <1>4, <2>1, AddWindowBlocks, Zenon
  <2> QED
    BY <1>8, <1>10, <1>12, <2>2, Zenon
<1>14. CountsExact(Listed(b), Bits(b), Frees(b))
  <2>1. WindowMaxUnits = WindowMaxUnits - Cardinality({})
    <3>1. Cardinality({}) = 0
      BY FS_EmptySet, Zenon
    <3> QED
      BY <3>1, AllocatorAssumption
  <2>2. CountsExact(Listed(a) \cup {w}, [Bits(a) EXCEPT ![w] = {}],
                    [Frees(a) EXCEPT ![w] = WindowMaxUnits])
    BY <1>2, <1>4, <2>1, CountsKept, Zenon
  <2> QED
    BY <1>10, <1>12, <2>2, Zenon
<1>15. Exact(b)
  <2>1. 1 .. PreallocatedWindows \subseteq Listed(b)
    BY <1>2, <1>12, Zenon
  <2> QED
    BY <1>8, <1>11, <1>13, <1>14, <2>1, Zenon DEF Exact
<1>16. b.window[w].Used = {}
  BY <1>3, <1>5, <1>7, Zenon DEF OneWindow
<1> QED
  BY <1>8, <1>12, <1>15, <1>16, Zenon

-----------------------------------------------------------------------------
(* What Allocate() and Free() promise *)

(* A block of the units asked for, apart from every other.                  *)
Fresh(a, b, units) ==
    \E g \in Blocks : /\ g[3] = units /\ b.headers = a.headers \cup {g}
                      /\ \A h \in a.headers : Apart(g, h)

Outcome(a, r, units) ==
    Exact(r.heap) /\ IF r.found THEN Fresh(a, r.heap, units) ELSE r.heap.headers = a.headers

(* fallbackAllocate() gives a block apart from every other, or nothing.     *)
LEMMA FallbackKeeps ==
    ASSUME NEW a, Exact(a), NEW units \in Nat \ {0}, NEW r \in FallbackAllocate(a, units)
    PROVE  Outcome(a, r, units)
<1>1. CASE r = [heap |-> a, found |-> FALSE]
  BY <1>1, Zenon DEF Outcome
<1>2. ASSUME NEW m \in Large, \A h \in a.headers : h[1] # m,
             r = [heap |-> [a EXCEPT !.headers = @ \cup {<<m, 0, units>>}], found |-> TRUE]
      PROVE  Outcome(a, r, units)
  <2> DEFINE g == <<m, 0, units>>
             blocks == a.headers \cup {g}
             b == [a EXCEPT !.headers = blocks]
  <2>1. a \in Allocators
    BY Zenon DEF Exact
  <2>2. /\ 1 .. PreallocatedWindows \subseteq Listed(a)
        /\ ListsExact(a.preferred, a.full, Places(a))
        /\ BlocksExact(a.headers, Listed(a), Bits(a))
        /\ CountsExact(Listed(a), Bits(a), Frees(a))
    BY Zenon DEF Exact
  <2>3. a.headers \in SUBSET Blocks /\ Bits(a) \in BitSets /\ Listed(a) \in SUBSET Windows
    BY <2>1, PartsAre, ViewsAre, Zenon
  <2>4. g \in Blocks /\ g[1] = m /\ g[3] = units
    <3>1. 0 \in Nat /\ m \in Windows \cup Large
      OBVIOUS
    <3> QED
      BY <3>1, BlockMade, Zenon
  <2>5. r.heap = b /\ r.found
    BY <1>2, Zenon
  <2> HIDE DEF g
  <2>6. blocks \in SUBSET Blocks
    BY <2>3, <2>4, Zenon
  <2>7. b.window = a.window /\ Parts(b, a.preferred, a.full, blocks)
    <3> HIDE DEF blocks
    <3> QED
      BY <2>1, <2>6, SetHeaders, Zenon
  <2> HIDE DEF b
  <2>8. b \in Allocators /\ b.preferred = a.preferred /\ b.full = a.full /\ b.headers = blocks
    BY <2>7, Zenon DEF Parts
  <2>9. Listed(b) = Listed(a) /\ Places(b) = Places(a) /\ Bits(b) = Bits(a) /\ Frees(b) = Frees(a)
    BY <2>7, <2>8, Zenon DEF Listed, Places, Bits, Frees
  <2>10. \A h \in a.headers : h[1] # g[1]
    BY <1>2, <2>4, Zenon
  <2>11. BlocksExact(blocks, Listed(a), Bits(a))
    BY <2>2, <2>3, <2>4, <2>10, AddLarge, Zenon
  <2>12. Exact(b)
    BY <2>2, <2>8, <2>9, <2>11, Zenon DEF Exact
  <2>13. \A h \in a.headers : Apart(g, h)
    BY <2>10, Zenon DEF Apart
  <2>14. Fresh(a, b, units)
    BY <2>4, <2>8, <2>13, Zenon DEF Fresh
  <2> QED
    BY <2>5, <2>12, <2>14, Zenon DEF Outcome
<1> QED
  BY <1>1, <1>2, Zenon DEF FallbackAllocate

(* A hole that is carved out gives a fresh block, wherever its window goes  *)
(* afterwards.                                                              *)
LEMMA CarveFresh ==
    ASSUME NEW a, Exact(a), NEW w \in Listed(a), NEW s \in Nat, NEW units \in Nat \ {0},
           Hole(a, w, s, units), NEW b, b.headers = Carve(a, w, s, units).headers
    PROVE  Fresh(a, b, units)
<1> DEFINE g == <<w, s, units>>
<1>1. a \in Allocators /\ BlocksExact(a.headers, Listed(a), Bits(a))
  BY Zenon DEF Exact
<1>2. a.headers \in SUBSET Blocks /\ Bits(a) \in BitSets /\ Listed(a) \in SUBSET Windows
  BY <1>1, PartsAre, ViewsAre, Zenon
<1>3. w \in Windows
  BY <1>2, Zenon
<1>4. g \in Blocks /\ g[1] = w /\ g[2] = s /\ g[3] = units
  BY <1>3, BlockMade, Zenon
<1>5. Parts(Carve(a, w, s, units), a.preferred, a.full, a.headers \cup {g})
  BY CarveExact, Zenon
<1> HIDE DEF g
<1>6. b.headers = a.headers \cup {g}
  BY <1>5, Zenon DEF Parts
<1>7. (g[2] .. g[2] + g[3] - 1) \cap Bits(a)[g[1]] = {}
  <2>1. Bits(a)[w] = a.window[w].Used
    BY <1>1, <1>3, ViewAt, Zenon
  <2>2. (s .. s + units - 1) \cap a.window[w].Used = {}
    BY Zenon DEF Hole
  <2> QED
    BY <1>4, <2>1, <2>2, Zenon
<1>8. g[1] \in Listed(a)
  BY <1>4, Zenon
<1>9. \A h \in a.headers : Apart(g, h)
  BY <1>1, <1>2, <1>4, <1>7, <1>8, HoleApart, Zenon
<1> QED
  BY <1>4, <1>6, <1>9, Zenon DEF Fresh

(* Allocate() from a preferred window gives a block apart from every other. *)
LEMMA PreferredKeeps ==
    ASSUME NEW a, Exact(a), NEW units \in Nat \ {0}, Fitting(a, units) # {}
    PROVE  Outcome(a, AllocateFromPreferred(a, units), units)
<1> DEFINE i == Max(Fitting(a, units))
           w == a.preferred[i]
           s == Min(Holes(a.window[w], units))
           failed == Len(a.preferred) - i
           count == IF s + 2 * units > WindowMaxUnits THEN failed + 1 ELSE failed
           c == Carve(a, w, s, units)
           b == MoveLastFewWindowsToFull(c, count)
<1>1. a \in Allocators
  BY Zenon DEF Exact
<1>2. a.preferred \in Seq(Windows)
  BY <1>1, PartsAre, Zenon
<1>3. /\ Len(a.preferred) \in Nat /\ DOMAIN a.preferred = 1 .. Len(a.preferred)
      /\ Range(a.preferred) = {a.preferred[j] : j \in 1 .. Len(a.preferred)}
  <2>1. DOMAIN a.preferred = 1 .. Len(a.preferred)
    BY <1>2
  <2>2. /\ Len(a.preferred) \in Nat
        /\ Range(a.preferred) = {a.preferred[j] : j \in 1 .. Len(a.preferred)}
    BY <1>2, RangeIs, Zenon
  <2> QED
    BY <2>1, <2>2, Zenon
<1>4. Fitting(a, units) \in SUBSET (1 .. Len(a.preferred))
  BY <1>3, Zenon DEF Fitting
<1>5. i \in Fitting(a, units)
  BY <1>3, <1>4, Greatest, Zenon
<1>6. i \in 1 .. Len(a.preferred) /\ Holes(a.window[w], units) # {}
  BY <1>3, <1>5, Zenon DEF Fitting
<1> HIDE DEF i
<1>7. w \in Listed(a) /\ w \in Windows
  <2>1. w \in Listed(a)
    BY <1>3, <1>6, Zenon DEF Listed
  <2> QED
    BY <1>1, <2>1, ViewsAre, Zenon
<1>8. a.window[w].ResumeScanOffset \in 0 .. WindowMaxUnits
  BY <1>1, <1>7, ViewAt, FieldsAre, Zenon
<1> HIDE DEF w
<1>9. Holes(a.window[w], units) \in SUBSET Nat
  <2>1. \A x \in a.window[w].ResumeScanOffset .. WindowMaxUnits - units : x \in Nat
    BY <1>8, AllocatorAssumption
  <2> QED
    BY <2>1, Zenon DEF Holes
<1>10. s \in Holes(a.window[w], units)
  BY <1>6, <1>9, Smallest, Zenon
<1>11. s \in a.window[w].ResumeScanOffset .. WindowMaxUnits - units
       /\ (s .. s + units - 1) \cap a.window[w].Used = {}
  BY <1>10, Zenon DEF Holes
<1> HIDE DEF s
<1>12. s \in Nat /\ s + units <= WindowMaxUnits
  BY <1>8, <1>11, AllocatorAssumption
<1>13. Hole(a, w, s, units)
  BY <1>11, <1>12, Zenon DEF Hole
<1>14. Exact(c) /\ c.preferred = a.preferred
  <2>1. Exact(c) /\ Parts(c, a.preferred, a.full, a.headers \cup {<<w, s, units>>})
    BY <1>7, <1>12, <1>13, CarveExact, Zenon
  <2> HIDE DEF c
  <2> QED
    BY <2>1, Zenon DEF Parts
<1>15. count \in 0 .. Len(a.preferred)
  <2>1. failed \in 0 .. Len(a.preferred) /\ failed + 1 \in 0 .. Len(a.preferred)
    BY <1>3, <1>6
  <2> HIDE DEF failed
  <2> QED
    BY <2>1, Zenon
<1> HIDE DEF count
<1>16. Exact(b) /\ b.headers = c.headers
  <2>1. count \in 0 .. Len(c.preferred)
    BY <1>14, <1>15, Zenon
  <2> HIDE DEF c
  <2> QED
    BY <1>14, <2>1, MoveExact, Zenon
<1> HIDE DEF b
<1>17. Fresh(a, b, units)
  BY <1>7, <1>12, <1>13, <1>16, CarveFresh, Zenon
<1>18. AllocateFromPreferred(a, units) = [heap |-> b, found |-> TRUE]
  BY Zenon DEF AllocateFromPreferred, b, c, count, s, w, i
<1>19. ASSUME NEW r, r = [heap |-> b, found |-> TRUE] PROVE Outcome(a, r, units)
  <2>1. r.heap = b /\ r.found
    BY <1>19, Zenon
  <2> QED
    BY <1>16, <1>17, <2>1, Zenon DEF Outcome
<1> QED
  BY <1>18, <1>19, Zenon

(* allocateFromNewWindow() gives a block apart from every other, or nothing. *)
LEMMA NewWindowKeeps ==
    ASSUME NEW a, Exact(a), NEW units \in Nat \ {0}, units <= FallbackThresholdUnits,
           NEW r \in AllocateFromNewWindow(a, units)
    PROVE  Outcome(a, r, units)
<1> DEFINE unused == Windows \ (Range(a.preferred) \cup Range(a.full))
           w == Min(unused)
           added == [a EXCEPT !.window[w] = Emptied, !.preferred = Append(a.preferred, w)]
           c == Carve(added, w, 0, units)
<1>1. CASE r = [heap |-> a, found |-> FALSE]
  BY <1>1, Zenon DEF Outcome
<1>2. CASE unused # {} /\ r = [heap |-> c, found |-> TRUE]
  <2>1. w \in unused
    <3>1. unused \in SUBSET Nat
      BY AllocatorAssumption, Zenon
    <3> HIDE DEF unused
    <3> QED
      BY <1>2, <3>1, Smallest, Zenon
  <2>2. w \in Windows /\ ~(w \in Listed(a))
    BY <2>1, Zenon DEF Listed
  <2>3. r.heap = c /\ r.found
    BY <1>2, Zenon
  <2> HIDE DEF w
  <2>4. added = WithAdded(a, w, Emptied, Append(a.preferred, w))
    BY Zenon DEF WithAdded
  <2> HIDE DEF added
  <2>5. Exact(added) /\ w \in Listed(added) /\ added.headers = a.headers /\ added.window[w].Used = {}
    BY <2>2, <2>4, AddedExact, Zenon
  <2>6. 0 \in Nat /\ 0 + units <= WindowMaxUnits
    BY AllocatorAssumption DEF FallbackThresholdUnits
  <2>7. Hole(added, w, 0, units)
    BY <2>5, <2>6, Zenon DEF Hole
  <2>8. Exact(c)
    BY <2>5, <2>6, <2>7, CarveExact, Zenon
  <2>9. Fresh(added, c, units)
    BY <2>5, <2>6, <2>7, CarveFresh, Zenon
  <2> HIDE DEF c
  <2>10. Fresh(a, c, units)
    BY <2>5, <2>9, Zenon DEF Fresh
  <2> QED
    BY <2>3, <2>8, <2>10, Zenon DEF Outcome
<1> QED
  BY <1>1, <1>2, Zenon DEF AllocateFromNewWindow

(* Whatever Allocate() does, the allocator stays exact; when it succeeds    *)
(* there is one more block, of the units asked for and apart from the rest. *)
LEMMA AllocatedKeeps ==
    ASSUME NEW a, Exact(a), NEW units \in Nat \ {0}, NEW r \in Allocated(a, units)
    PROVE  Outcome(a, r, units)
<1>1. CASE units > FallbackThresholdUnits
  <2>1. r \in FallbackAllocate(a, units)
    BY <1>1, Zenon DEF Allocated
  <2> QED
    BY <2>1, FallbackKeeps, Zenon
<1>2. CASE ~(units > FallbackThresholdUnits) /\ Fitting(a, units) # {}
  <2>1. r = AllocateFromPreferred(a, units)
    BY <1>2, Zenon DEF Allocated
  <2> QED
    BY <1>2, <2>1, PreferredKeeps, Zenon
<1>3. CASE ~(units > FallbackThresholdUnits) /\ Fitting(a, units) = {}
  <2> DEFINE m == MoveLastFewWindowsToFull(a, Len(a.preferred))
  <2>1. r \in AllocateFromNewWindow(m, units)
    BY <1>3, Zenon DEF Allocated
  <2>2. Len(a.preferred) \in 0 .. Len(a.preferred)
    <3>1. a \in Allocators
      BY Zenon DEF Exact
    <3>2. Len(a.preferred) \in Nat
      BY <3>1, PartsAre, RangeIs, Zenon
    <3> QED
      BY <3>2
  <2>3. Exact(m) /\ m.headers = a.headers
    BY <2>2, MoveExact, Zenon
  <2> HIDE DEF m
  <2>4. units <= FallbackThresholdUnits
    BY <1>3, AllocatorAssumption DEF FallbackThresholdUnits
  <2>5. Outcome(m, r, units)
    BY <2>1, <2>3, <2>4, NewWindowKeeps, Zenon
  <2> QED
    BY <2>3, <2>5, Zenon DEF Outcome, Fresh
<1> QED
  BY <1>1, <1>2, <1>3, Zenon

(* Free() removes the block and nothing else.                               *)
LEMMA FreedKeeps ==
    ASSUME NEW a, Exact(a), NEW h \in a.headers
    PROVE  Exact(Freed(a, h)) /\ Freed(a, h).headers = a.headers \ {h}
<1>1. a \in Allocators
  BY Zenon DEF Exact
<1>2. /\ 1 .. PreallocatedWindows \subseteq Listed(a)
      /\ ListsExact(a.preferred, a.full, Places(a))
      /\ BlocksExact(a.headers, Listed(a), Bits(a))
      /\ CountsExact(Listed(a), Bits(a), Frees(a))
  BY Zenon DEF Exact
<1>3. a.headers \in SUBSET Blocks /\ Bits(a) \in BitSets /\ Listed(a) \in SUBSET Windows
  BY <1>1, PartsAre, ViewsAre, Zenon
<1>4. h[1] \in Windows \cup Large /\ h[3] > 0
  BY <1>3, BlockIs, Zenon
<1>5. CASE h[1] \in Large
  <2> DEFINE blocks == a.headers \ {h}
             b == [a EXCEPT !.headers = blocks]
  <2>1. Freed(a, h) = b
    BY <1>5, Zenon DEF Freed
  <2>2. BlocksExact(blocks, Listed(a), Bits(a))
    BY <1>2, <1>3, <1>5, RemoveLarge, Zenon
  <2>3. blocks \in SUBSET Blocks
    BY <1>3, Zenon
  <2> HIDE DEF blocks
  <2>4. b.window = a.window /\ Parts(b, a.preferred, a.full, blocks)
    BY <1>1, <2>3, SetHeaders, Zenon
  <2> HIDE DEF b
  <2>5. b \in Allocators /\ b.preferred = a.preferred /\ b.full = a.full /\ b.headers = blocks
    BY <2>4, Zenon DEF Parts
  <2>6. Listed(b) = Listed(a) /\ Places(b) = Places(a) /\ Bits(b) = Bits(a) /\ Frees(b) = Frees(a)
    BY <2>4, <2>5, Zenon DEF Listed, Places, Bits, Frees
  <2>7. Exact(b)
    BY <1>2, <2>2, <2>5, <2>6, Zenon DEF Exact
  <2> QED
    BY <2>1, <2>5, <2>7, Zenon DEF blocks
<1>6. CASE ~(h[1] \in Large)
  <2> DEFINE b == GiveBack(a, h, 0)
  <2>1. h[1] \in Windows /\ 0 \in Nat /\ 0 < h[3]
    <3>1. h[3] \in Nat
      BY <1>3, BlockIs, Zenon
    <3>2. 0 \in Nat /\ 0 < h[3]
      BY <1>4, <3>1
    <3> QED
      BY <1>4, <1>6, <3>2, Zenon
  <2>2. /\ Exact(b) /\ h[1] \in Listed(b)
        /\ Parts(b, a.preferred, a.full, (a.headers \ {h}) \cup Rest(h, 0))
    BY <2>1, GiveBackExact, Zenon
  <2>3. Freed(a, h) = IF /\ b.window[h[1]].FreeUnitCount >= PreferredThresholdUnits
                         /\ b.window[h[1]].FullListIndex # NotInFullList
                      THEN Promote(b, h[1]) ELSE b
    BY <1>6, Zenon DEF Freed
  <2> HIDE DEF b
  <2>4. b.headers = a.headers \ {h}
    <3>1. Rest(h, 0) = {}
      BY Zenon DEF Rest
    <3> QED
      BY <2>2, <3>1, Zenon DEF Parts
  <2>5. CASE Freed(a, h) = b
    BY <2>2, <2>4, <2>5, Zenon
  <2>6. CASE InFull(b, h[1]) /\ Freed(a, h) = Promote(b, h[1])
    <3>1. Exact(Promote(b, h[1])) /\ Promote(b, h[1]).headers = b.headers
      BY <2>2, <2>6, PromoteExact, Zenon
    <3> QED
      BY <2>4, <2>6, <3>1, Zenon
  <2> QED
    BY <2>3, <2>5, <2>6, Zenon DEF InFull
<1> QED
  BY <1>5, <1>6, Zenon

-----------------------------------------------------------------------------
(* The allocator, step by step *)

(* The state after a call is the one the call computes.                     *)
LEMMA BecomeIs ==
    ASSUME NEW a \in Allocators, Become(a)
    PROVE  Now' = a
<1>1. a = [window |-> a.window, preferred |-> a.preferred, full |-> a.full, headers |-> a.headers]
  BY DEF Allocators
<1>2. Now' = [window |-> a.window, preferred |-> a.preferred, full |-> a.full, headers |-> a.headers]
  BY Zenon DEF Become, Now
<1> QED
  BY <1>1, <1>2, Zenon

(* The state of the allocator as one value.                                 *)
LEMMA NowIs ==
    ASSUME Exact(Now)
    PROVE  /\ Now.window = window /\ Now.preferred = PreferredWindows
           /\ Now.full = FullWindows /\ Now.headers = headers /\ headers \in SUBSET Blocks
<1>1. Now \in Allocators
  BY Zenon DEF Exact
<1>2. Now.headers \in SUBSET Blocks
  BY <1>1, PartsAre, Zenon
<1>3. Now.headers = headers
  BY Zenon DEF Now
<1> QED
  BY <1>2, <1>3, Zenon DEF Now

(* Init: the preallocated windows, all of them free.                        *)
LEMMA AllocatorInitExact ==
    ASSUME AllocatorInit
    PROVE  Exact(Now)
<1> DEFINE P == PreallocatedWindows
           pre == [i \in 1 .. P |-> i]
           win == [w \in Windows |-> Emptied]
           a == [window |-> win, preferred |-> pre, full |-> <<>>, headers |-> {}]
<1>1. Now = a
  BY Zenon DEF AllocatorInit, Now
<1>2. /\ Emptied \in WindowHeaders /\ Emptied.Used = {} /\ Emptied.FreeUnitCount = WindowMaxUnits
      /\ Emptied.FullListIndex = NotInFullList
  <2>1. WindowMaxUnits \in Int /\ 0 \in 0 .. WindowMaxUnits /\ NotInFullList \in Int
    BY AllocatorAssumption DEF NotInFullList
  <2> QED
    BY <2>1, Zenon DEF Emptied, WindowHeaders
<1>3. P \in Nat /\ \A i \in 1 .. P : i \in Windows
  BY AllocatorAssumption, Zenon
<1>4. pre \in Seq(Windows) /\ Len(pre) = P /\ \A i \in 1 .. P : pre[i] = i
  <2>1. pre \in [1 .. P -> Windows]
    BY <1>3, Zenon
  <2>2. \A i \in 1 .. P : pre[i] = i
    BY Zenon
  <2> HIDE DEF pre, P
  <2>3. pre \in Seq(Windows) /\ Len(pre) = P
    BY <1>3, <2>1
  <2> QED
    BY <2>2, <2>3, Zenon
<1>5. <<>> \in Seq(Windows) /\ Len(<<>>) = 0 /\ Range(<<>>) = {}
  <2>1. <<>> \in Seq(Windows) /\ Len(<<>>) = 0 /\ DOMAIN <<>> = {}
    OBVIOUS
  <2> QED
    BY <2>1, Zenon DEF Range
<1> HIDE DEF pre, P
<1>6. win \in [Windows -> WindowHeaders]
  BY <1>2, Zenon
<1>7. /\ a.window = win /\ a.preferred = pre /\ a.full = <<>> /\ a.headers = {} /\ a \in Allocators
  <2> HIDE DEF win
  <2>1. {} \in SUBSET Blocks
    BY Zenon
  <2> QED
    BY <1>4, <1>5, <1>6, <2>1, Zenon DEF Allocators
<1> HIDE DEF a
<1>8. \A w \in Windows : /\ Places(a)[w] = NotInFullList /\ Bits(a)[w] = {}
                         /\ Frees(a)[w] = WindowMaxUnits
  BY <1>2, <1>7, Zenon DEF Places, Bits, Frees
<1>9. Listed(a) = 1 .. P /\ Listed(a) \subseteq Windows
  <2>1. Range(pre) = {pre[i] : i \in 1 .. P}
    <3>1. pre \in Seq(Windows)
      BY <1>4, Zenon
    <3>2. Range(pre) = {pre[i] : i \in 1 .. Len(pre)}
      BY <3>1, RangeIs, Zenon
    <3> QED
      BY <1>4, <3>2, Zenon
  <2>2. Range(pre) = 1 .. P
    <3>1. \A i \in 1 .. P : pre[i] = i
      BY <1>4, Zenon
    <3>2. \A x : x \in Range(pre) <=> x \in 1 .. P
      BY <2>1, <3>1, Zenon
    <3> QED
      BY <3>2, Zenon
  <2>3. Listed(a) = 1 .. P
    <3>1. Listed(a) = Range(pre) \cup {}
      BY <1>5, <1>7, Zenon DEF Listed
    <3> QED
      BY <2>2, <3>1, Zenon
  <2> QED
    BY <1>3, <2>3, Zenon
<1>10. ListsExact(a.preferred, a.full, Places(a))
  <2>1. \A i, j \in 1 .. Len(pre) : pre[i] = pre[j] => i = j
    BY <1>4, Zenon
  <2>2. \A i \in 1 .. Len(pre) : Places(a)[pre[i]] = NotInFullList
    BY <1>3, <1>4, <1>8, Zenon
  <2>3. \A i : ~(i \in 1 .. Len(a.full))
    <3>1. Len(a.full) = 0
      BY <1>5, <1>7, Zenon
    <3> QED
      BY <3>1
  <2>4. a.preferred = pre
    BY <1>7, Zenon
  <2> QED
    BY <2>1, <2>2, <2>3, <2>4, Zenon DEF ListsExact
<1>11. BlocksExact(a.headers, Listed(a), Bits(a))
  <2>1. \A w \in Listed(a) : Bits(a)[w] = {}
    BY <1>8, <1>9, Zenon
  <2>2. BlocksExact({}, Listed(a), Bits(a))
    BY <2>1, Zenon DEF BlocksExact
  <2> QED
    BY <1>7, <2>2, Zenon
<1>12. CountsExact(Listed(a), Bits(a), Frees(a))
  <2>1. WindowMaxUnits = WindowMaxUnits - Cardinality({})
    <3>1. Cardinality({}) = 0
      BY FS_EmptySet, Zenon
    <3> QED
      BY <3>1, AllocatorAssumption
  <2> QED
    BY <1>8, <1>9, <2>1, Zenon DEF CountsExact
<1>13. Exact(a)
  BY <1>7, <1>9, <1>10, <1>11, <1>12, Zenon DEF Exact, P
<1> QED
  BY <1>1, <1>13, Zenon

(* What a step does to the live blocks.                                     *)
Alone(g, H) == \A h \in H : Apart(g, h)

Steps(H, G) ==
    \/ G = H
    \/ \E g \in Blocks : Alone(g, H) /\ G = H \cup {g}
    \/ \E h \in H : G = H \ {h}
    \/ \E h \in H, k \in Nat \ {0} : k < h[3] /\ G = (H \ {h}) \cup {<<h[1], h[2], k>>}
    \/ \E h \in H, g \in Blocks : Alone(g, H) /\ G = (H \cup {g}) \ {h}

(* Each call of Allocate(), Free(), Shrink() and Reallocate() keeps the     *)
(* allocator exact, and adds, removes, shortens or moves one block at most. *)
LEMMA AllocatorStep ==
    ASSUME Exact(Now), AllocatorNext
    PROVE  Exact(Now') /\ Steps(headers, headers')
<1>1. Now.headers = headers
  BY NowIs, Zenon
<1>2. ASSUME NEW b, Exact(b), Become(b) PROVE Now' = b /\ headers' = b.headers
  <2>1. b \in Allocators
    BY <1>2, Zenon DEF Exact
  <2>2. Now' = b
    BY <1>2, <2>1, BecomeIs, Zenon
  <2> QED
    BY <1>2, <2>2, Zenon DEF Become
<1>3. ASSUME NEW bytes \in Requests, Allocate(bytes) PROVE Exact(Now') /\ Steps(headers, headers')
  <2>1. PICK r \in Allocated(Now, Units(bytes)) : Become(r.heap)
    BY <1>3, Zenon DEF Allocate
  <2>2. Outcome(Now, r, Units(bytes))
    BY UnitsPositive, AllocatedKeeps, Zenon
  <2>3. Exact(r.heap)
    BY <2>2, Zenon DEF Outcome
  <2>4. Now' = r.heap /\ headers' = r.heap.headers
    BY <1>2, <2>1, <2>3, Zenon
  <2>5. Steps(headers, headers')
    <3>1. CASE r.found
      BY <1>1, <2>2, <2>4, <3>1, Zenon DEF Outcome, Fresh, Steps, Alone
    <3>2. CASE ~r.found
      BY <1>1, <2>2, <2>4, <3>2, Zenon DEF Outcome, Steps
    <3> QED
      BY <3>1, <3>2, Zenon
  <2> QED
    BY <2>3, <2>4, <2>5, Zenon
<1>4. ASSUME NEW h \in headers, Free(h) PROVE Exact(Now') /\ Steps(headers, headers')
  <2>1. Exact(Freed(Now, h)) /\ Freed(Now, h).headers = headers \ {h}
    BY <1>1, FreedKeeps, Zenon
  <2>2. Now' = Freed(Now, h) /\ headers' = Freed(Now, h).headers
    BY <1>2, <1>4, <2>1, Zenon DEF Free
  <2>3. headers' = headers \ {h}
    BY <2>1, <2>2, Zenon
  <2> QED
    BY <2>1, <2>2, <2>3, Zenon DEF Steps
<1>5. ASSUME NEW h \in headers, NEW bytes \in Requests, Shrink(h, bytes)
      PROVE  Exact(Now') /\ Steps(headers, headers')
  <2> DEFINE k == Units(bytes)
             b == GiveBack(Now, h, k)
  <2>1. k \in Nat \ {0}
    BY UnitsPositive, Zenon
  <2>2. k < h[3] /\ h[1] \in Windows /\ Become(b)
    BY <1>5, Zenon DEF Shrink
  <2> HIDE DEF k
  <2>3. Exact(b) /\ Parts(b, Now.preferred, Now.full, (Now.headers \ {h}) \cup Rest(h, k))
    BY <1>1, <2>1, <2>2, GiveBackExact, Zenon
  <2> HIDE DEF b
  <2>4. Now' = b /\ headers' = b.headers
    BY <1>2, <2>2, <2>3, Zenon
  <2>5. Rest(h, k) = {<<h[1], h[2], k>>}
    BY <2>1, Zenon DEF Rest
  <2>6. headers' = (headers \ {h}) \cup {<<h[1], h[2], k>>}
    BY <1>1, <2>3, <2>4, <2>5, Zenon DEF Parts
  <2>7. Steps(headers, headers')
    BY <2>1, <2>2, <2>6, Zenon DEF Steps
  <2> QED
    BY <2>3, <2>4, <2>7, Zenon
<1>6. ASSUME NEW h \in headers, NEW bytes \in Requests, Reallocate(h, bytes)
      PROVE  Exact(Now') /\ Steps(headers, headers')
  <2>1. PICK r \in Allocated(Now, Units(bytes)) :
           Become(IF r.found THEN Freed(r.heap, h) ELSE r.heap)
    BY <1>6, Zenon DEF Reallocate
  <2>2. Outcome(Now, r, Units(bytes))
    BY UnitsPositive, AllocatedKeeps, Zenon
  <2>3. Exact(r.heap)
    BY <2>2, Zenon DEF Outcome
  <2>4. CASE r.found
    <3>1. PICK g \in Blocks : r.heap.headers = headers \cup {g} /\ Alone(g, headers)
      BY <1>1, <2>2, <2>4, Zenon DEF Outcome, Fresh, Alone
    <3>2. h \in r.heap.headers
      BY <3>1, Zenon
    <3>3. Exact(Freed(r.heap, h)) /\ Freed(r.heap, h).headers = r.heap.headers \ {h}
      BY <2>3, <3>2, FreedKeeps, Zenon
    <3>4. Become(Freed(r.heap, h))
      BY <2>1, <2>4, Zenon
    <3>5. Now' = Freed(r.heap, h) /\ headers' = Freed(r.heap, h).headers
      BY <1>2, <3>3, <3>4, Zenon
    <3>6. headers' = (headers \cup {g}) \ {h}
      BY <3>1, <3>3, <3>5, Zenon
    <3>7. Steps(headers, headers')
      BY <3>1, <3>6, Zenon DEF Steps
    <3> QED
      BY <3>3, <3>5, <3>7, Zenon
  <2>5. CASE ~r.found
    <3>1. Become(r.heap)
      BY <2>1, <2>5, Zenon
    <3>2. Now' = r.heap /\ headers' = r.heap.headers
      BY <1>2, <2>3, <3>1, Zenon
    <3>3. Steps(headers, headers')
      BY <1>1, <2>2, <2>5, <3>2, Zenon DEF Outcome, Steps
    <3> QED
      BY <2>3, <3>2, <3>3, Zenon
  <2> QED
    BY <2>4, <2>5, Zenon
<1> QED
  BY <1>3, <1>4, <1>5, <1>6, Zenon DEF AllocatorNext

-----------------------------------------------------------------------------
(* What the invariant says *)

(* The two lists of windows, one behind the other (IntegrityCheck walks both). *)
LEMMA JoinedIs ==
    ASSUME NEW q \in Seq(Windows), NEW r \in Seq(Windows)
    PROVE  /\ DOMAIN (q \o r) = 1 .. Len(q) + Len(r)
           /\ \A i \in 1 .. Len(q) + Len(r) :
                \/ i \in 1 .. Len(q) /\ (q \o r)[i] = q[i]
                \/ i - Len(q) \in 1 .. Len(r) /\ (q \o r)[i] = r[i - Len(q)]
           /\ Range(q \o r) = Range(q) \cup Range(r)
<1> DEFINE n == Len(q)
           m == Len(r)
           s == q \o r
<1>1. s \in Seq(Windows) /\ Len(s) = n + m
  BY BehindIs, Zenon
<1>2. \A i \in 1 .. n : s[i] = q[i]
  BY BehindIs, Zenon
<1>3. \A i \in 1 .. m : s[n + i] = r[i]
  <2>1. Follows(s, q, r)
    BY FollowsIs, Zenon
  <2> QED
    BY <2>1, Zenon DEF Follows
<1>4. n \in Nat /\ m \in Nat /\ Range(q) = {q[i] : i \in 1 .. n} /\ Range(r) = {r[i] : i \in 1 .. m}
  BY RangeIs, Zenon
<1> SUFFICES /\ DOMAIN s = 1 .. n + m
             /\ \A i \in 1 .. n + m : \/ i \in 1 .. n /\ s[i] = q[i]
                                      \/ i - n \in 1 .. m /\ s[i] = r[i - n]
             /\ Range(s) = Range(q) \cup Range(r)
  BY Zenon
<1> HIDE DEF n, m, s
<1>5. DOMAIN s = 1 .. n + m
  <2>1. DOMAIN s = 1 .. Len(s)
    BY <1>1
  <2> QED
    BY <1>1, <2>1, Zenon
<1>6. ASSUME NEW i \in 1 .. n + m
      PROVE  i \in 1 .. n \/ (i - n \in 1 .. m /\ n + (i - n) = i)
  BY <1>4
<1>7. ASSUME NEW i \in 1 .. n + m
      PROVE  (i \in 1 .. n /\ s[i] = q[i]) \/ (i - n \in 1 .. m /\ s[i] = r[i - n])
  <2>1. CASE i \in 1 .. n
    BY <1>2, <2>1, Zenon
  <2>2. CASE i - n \in 1 .. m /\ n + (i - n) = i
    <3>1. s[n + (i - n)] = r[i - n]
      BY <1>3, <2>2, Zenon
    <3> QED
      BY <2>2, <3>1, Zenon
  <2> QED
    BY <1>6, <2>1, <2>2, Zenon
<1>8. (\A i \in 1 .. n : i \in 1 .. n + m) /\ (\A i \in 1 .. m : n + i \in 1 .. n + m)
  BY <1>4
<1>9. Range(s) = {s[i] : i \in 1 .. n + m}
  BY <1>5, Zenon DEF Range
<1>10. ASSUME NEW w \in Range(s) PROVE w \in Range(q) \cup Range(r)
  BY <1>4, <1>7, <1>9, Zenon
<1>11. ASSUME NEW w \in Range(q) \cup Range(r) PROVE w \in Range(s)
  <2>1. CASE w \in Range(q)
    <3>1. PICK i \in 1 .. n : w = q[i]
      BY <1>4, <2>1, Zenon
    <3>2. i \in 1 .. n + m /\ w = s[i]
      BY <1>2, <1>8, <3>1, Zenon
    <3> QED
      BY <1>9, <3>2, Zenon
  <2>2. CASE w \in Range(r)
    <3>1. PICK i \in 1 .. m : w = r[i]
      BY <1>4, <2>2, Zenon
    <3>2. n + i \in 1 .. n + m /\ w = s[n + i]
      BY <1>3, <1>8, <3>1, Zenon
    <3> QED
      BY <1>9, <3>2, Zenon
  <2> QED
    BY <2>1, <2>2, Zenon
<1>12. Range(s) = Range(q) \cup Range(r)
  BY <1>10, <1>11, Zenon
<1> QED
  BY <1>5, <1>7, <1>12, Zenon

(* What IntegrityCheck() verifies follows from the invariant.               *)
LEMMA ExactIntegrity ==
    ASSUME Exact(Now)
    PROVE  IntegrityCheck
<1> DEFINE pre == PreferredWindows
           full == FullWindows
           n == Len(pre)
           m == Len(full)
           lists == pre \o full
<1>1. Now \in Allocators
  BY Zenon DEF Exact
<1>2. /\ Now.window = window /\ Now.preferred = pre /\ Now.full = full /\ Now.headers = headers
      /\ headers \in SUBSET Blocks
  BY NowIs, Zenon
<1>3. pre \in Seq(Windows) /\ full \in Seq(Windows) /\ window \in [Windows -> WindowHeaders]
  <2>1. Now.preferred \in Seq(Windows) /\ Now.full \in Seq(Windows) /\ Now.window \in [Windows -> WindowHeaders]
    BY <1>1, PartsAre, Zenon
  <2> QED
    BY <1>2, <2>1, Zenon
<1>4. /\ 1 .. PreallocatedWindows \subseteq Listed(Now)
      /\ ListsExact(Now.preferred, Now.full, Places(Now))
      /\ BlocksExact(Now.headers, Listed(Now), Bits(Now))
      /\ CountsExact(Listed(Now), Bits(Now), Frees(Now))
  BY Zenon DEF Exact
<1>5. Listed(Now) = Range(pre) \cup Range(full)
  BY <1>2, Zenon DEF Listed
<1>6. /\ DOMAIN lists = 1 .. n + m
      /\ \A i \in 1 .. n + m : \/ i \in 1 .. n /\ lists[i] = pre[i]
                               \/ i - n \in 1 .. m /\ lists[i] = full[i - n]
      /\ Range(lists) = Range(pre) \cup Range(full)
  <2>1. DOMAIN lists = 1 .. n + m
    BY <1>3, JoinedIs, Zenon
  <2>2. \A i \in 1 .. n + m : \/ i \in 1 .. n /\ lists[i] = pre[i]
                              \/ i - n \in 1 .. m /\ lists[i] = full[i - n]
    BY <1>3, JoinedIs, Zenon
  <2>3. Range(lists) = Range(pre) \cup Range(full)
    BY <1>3, JoinedIs, Zenon
  <2> QED
    BY <2>1, <2>2, <2>3, Zenon
<1>7. /\ \A w \in Windows : /\ Places(Now)[w] = window[w].FullListIndex
                            /\ Bits(Now)[w] = window[w].Used
                            /\ Frees(Now)[w] = window[w].FreeUnitCount
  BY <1>1, <1>2, ViewAt, Zenon
<1>8. /\ n \in Nat /\ m \in Nat /\ (\A i \in 1 .. n : pre[i] \in Windows)
      /\ \A i \in 1 .. m : full[i] \in Windows
  BY <1>3, RangeIs, Zenon
<1>9. Range(pre) = {pre[i] : i \in 1 .. n} /\ Range(full) = {full[i] : i \in 1 .. m}
  BY <1>3, RangeIs, Zenon
<1>10. DOMAIN full = 1 .. m
  BY <1>3
<1> HIDE DEF lists
<1>11. /\ \A i, j \in 1 .. n : pre[i] = pre[j] => i = j
       /\ \A i \in 1 .. n : window[pre[i]].FullListIndex = NotInFullList
       /\ \A i \in 1 .. m : window[full[i]].FullListIndex = i - 1
  <2>1. /\ \A i, j \in 1 .. n : pre[i] = pre[j] => i = j
        /\ \A i \in 1 .. n : Places(Now)[pre[i]] = NotInFullList
        /\ \A i \in 1 .. m : Places(Now)[full[i]] = i - 1
    BY <1>2, <1>4, Zenon DEF ListsExact
  <2>2. \A w \in Windows : Places(Now)[w] = window[w].FullListIndex
    BY <1>7, Zenon
  <2> QED
    BY <1>8, <2>1, <2>2, Zenon
<1> HIDE DEF n, m
<1>12. \A i, j \in DOMAIN lists : lists[i] = lists[j] => i = j
  <2> SUFFICES ASSUME NEW i \in 1 .. n + m, NEW j \in 1 .. n + m, lists[i] = lists[j] PROVE i = j
    BY <1>6, Zenon
  <2>1. i \in Int /\ j \in Int
    BY <1>8
  <2>2. CASE /\ i \in 1 .. n /\ lists[i] = pre[i] /\ j \in 1 .. n /\ lists[j] = pre[j]
    BY <1>11, <2>2, Zenon
  <2>3. ASSUME NEW x \in 1 .. n, NEW y \in 1 .. m PROVE pre[x] # full[y]
    <3>1. y - 1 # NotInFullList
      BY <1>8 DEF NotInFullList
    <3> QED
      BY <1>11, <3>1, Zenon
  <2>4. CASE /\ i \in 1 .. n /\ lists[i] = pre[i]
             /\ j - n \in 1 .. m /\ lists[j] = full[j - n]
    BY <2>3, <2>4, Zenon
  <2>5. CASE /\ j \in 1 .. n /\ lists[j] = pre[j]
             /\ i - n \in 1 .. m /\ lists[i] = full[i - n]
    <3>1. pre[j] # full[i - n]
      BY <2>3, <2>5, Zenon
    <3> QED
      BY <2>5, <3>1, Zenon
  <2>6. CASE /\ i - n \in 1 .. m /\ lists[i] = full[i - n]
             /\ j - n \in 1 .. m /\ lists[j] = full[j - n]
    <3>1. full[i - n] = full[j - n]
      BY <2>6, Zenon
    <3>2. window[full[i - n]].FullListIndex = (i - n) - 1 /\ window[full[j - n]].FullListIndex = (j - n) - 1
      BY <1>11, <2>6, Zenon
    <3>3. (i - n) - 1 = (j - n) - 1
      BY <3>1, <3>2, Zenon
    <3> QED
      BY <1>8, <2>1, <3>3
  <2> QED
    BY <1>6, <2>2, <2>4, <2>5, <2>6, Zenon
<1>13. 1 .. PreallocatedWindows \subseteq Range(lists)
  BY <1>4, <1>5, <1>6, Zenon
<1>14. \A w \in Range(pre) : window[w].FullListIndex = NotInFullList
  BY <1>9, <1>11, Zenon
<1>15. \A i \in DOMAIN full : window[full[i]].FullListIndex = i - 1
  BY <1>10, <1>11, Zenon
<1>16. ASSUME NEW w \in Range(lists)
       PROVE  /\ window[w].Used = Extents(w)
              /\ window[w].FreeUnitCount = WindowMaxUnits - Cardinality(Extents(w))
              /\ window[w].ResumeScanOffset \in 0 .. WindowMaxUnits
  <2>1. w \in Listed(Now) /\ w \in Windows
    <3>1. w \in Listed(Now)
      BY <1>5, <1>6, Zenon
    <3> QED
      BY <1>1, <3>1, ViewsAre, Zenon
  <2>2. window[w] \in WindowHeaders
    BY <1>3, <2>1, Zenon
  <2>3. window[w].Used \in SUBSET (0 .. WindowMaxUnits - 1) /\ window[w].ResumeScanOffset \in 0 .. WindowMaxUnits
    BY <2>2, FieldsAre, Zenon
  <2>4. \A u \in Nat : u \in window[w].Used <=> \E h \in headers : Covers(h, w, u)
    BY <1>2, <1>4, <1>7, <2>1, Zenon DEF BlocksExact
  <2>5. \A u \in 0 .. WindowMaxUnits - 1 : u \in Nat
    BY AllocatorAssumption
  <2>6. ASSUME NEW h \in headers PROVE
            /\ \A u \in h[2] .. h[2] + h[3] - 1 : u \in Nat /\ h[2] <= u /\ u < h[2] + h[3]
            /\ \A u \in Nat : h[2] <= u /\ u < h[2] + h[3] => u \in h[2] .. h[2] + h[3] - 1
    <3>1. h[2] \in Nat /\ h[3] \in Nat
      BY <1>2, BlockIs, Zenon
    <3> QED
      BY <3>1
  <2>7. ASSUME NEW u PROVE u \in Extents(w) <=> u \in Nat /\ \E h \in headers : Covers(h, w, u)
    <3>1. ASSUME u \in Extents(w) PROVE u \in Nat /\ \E h \in headers : Covers(h, w, u)
      <4>1. PICK h \in headers : h[1] = w /\ u \in h[2] .. h[2] + h[3] - 1
        BY <3>1, Zenon DEF Extents
      <4>2. u \in Nat /\ h[2] <= u /\ u < h[2] + h[3]
        BY <2>6, <4>1, Zenon
      <4> QED
        BY <4>1, <4>2, Zenon DEF Covers
    <3>2. ASSUME u \in Nat, NEW h \in headers, Covers(h, w, u) PROVE u \in Extents(w)
      <4>1. h[1] = w /\ u \in h[2] .. h[2] + h[3] - 1
        BY <2>6, <3>2, Zenon DEF Covers
      <4> QED
        BY <4>1, Zenon DEF Extents
    <3> QED
      BY <3>1, <3>2, Zenon
  <2>8. window[w].Used = Extents(w)
    <3>1. \A u : u \in window[w].Used <=> u \in Extents(w)
      BY <2>3, <2>4, <2>5, <2>7, Zenon
    <3> QED
      BY <3>1, Zenon
  <2>9. window[w].FreeUnitCount = WindowMaxUnits - Cardinality(window[w].Used)
    BY <1>4, <1>7, <2>1, Zenon DEF CountsExact
  <2> QED
    BY <2>3, <2>8, <2>9, Zenon
<1> QED
  BY <1>12, <1>13, <1>14, <1>15, <1>16, Zenon DEF IntegrityCheck, lists

(* Every call of Allocate(), Free(), Shrink() and Reallocate() keeps the    *)
(* bookkeeping exact: the inductive invariant of the theorems below.         *)
LEMMA AllocatorInductive == AllocatorSpec => []AllocatorIInv
<1>1. AllocatorInit => AllocatorIInv
  BY AllocatorInitExact, Zenon DEF AllocatorIInv
<1>2. AllocatorIInv /\ [AllocatorNext]_allocatorVars => AllocatorIInv'
  <2> SUFFICES ASSUME Exact(Now), [AllocatorNext]_allocatorVars PROVE Exact(Now')
    BY Zenon DEF AllocatorIInv
  <2>1. CASE AllocatorNext
    BY <2>1, AllocatorStep, Zenon
  <2>2. CASE UNCHANGED allocatorVars
    <3>1. Now' = Now
      BY <2>2, Zenon DEF allocatorVars, Now
    <3> QED
      BY <3>1, Zenon
  <2> QED
    BY <2>1, <2>2, Zenon
<1> QED
  BY <1>1, <1>2, PTL DEF AllocatorSpec

(* The bookkeeping that IntegrityCheck() verifies holds after every call,   *)
(* for every window size, number of windows and sequence of requests.       *)
THEOREM AllocatorIntegrity == AllocatorSpec => []IntegrityCheck
<1>1. AllocatorIInv => IntegrityCheck
  BY ExactIntegrity, Zenon DEF AllocatorIInv
<1> QED
  BY <1>1, AllocatorInductive, PTL

-----------------------------------------------------------------------------
(* The heap *)

(* Two blocks apart have no unit in common.                                 *)
LEMMA ApartFits ==
    ASSUME NEW g \in Blocks, NEW h \in Blocks, Apart(g, h)
    PROVE  Heap!Extent(g) \cap Heap!Extent(h) = {}
<1>1. g[2] \in Nat /\ g[3] \in Nat /\ h[2] \in Nat /\ h[3] \in Nat
  BY BlockIs, Zenon
<1>2. CASE g[1] # h[1]
  BY <1>2 DEF Heap!Extent
<1>3. CASE g[2] + g[3] <= h[2] \/ h[2] + h[3] <= g[2]
  <2>1. \A u : ~(u \in g[2] .. g[2] + g[3] - 1 /\ u \in h[2] .. h[2] + h[3] - 1)
    BY <1>1, <1>3
  <2> QED
    BY <2>1, Zenon DEF Heap!Extent
<1> QED
  BY <1>2, <1>3, Zenon DEF Apart

(* A call that touches one block adds or removes one at most.               *)
LEMMA OneAtMost ==
    ASSUME NEW x, NEW S, S \subseteq {x}
    PROVE  Cardinality(S) <= 1
<1>1. CASE S = {}
  <2>1. Cardinality(S) = 0
    BY <1>1, FS_EmptySet, Zenon
  <2> QED
    BY <2>1
<1>2. CASE S = {x}
  <2>1. Cardinality(S) = 1
    BY <1>2, FS_Singleton, Zenon
  <2> QED
    BY <2>1
<1> QED
  BY <1>1, <1>2, Zenon

(* Such a step is one the promise of the allocator allows.                  *)
LEMMA StepsHeap ==
    ASSUME headers \subseteq Blocks, Steps(headers, headers')
    PROVE  [Heap!Next]_headers
<1>1. ASSUME NEW g, NEW h,
             headers' \ headers \subseteq {g}, headers \ headers' \subseteq {h},
             g \in headers' \ headers => g[3] > 0 /\ (Heap!Fits(g) \/ Heap!Shrinks(g))
      PROVE  Heap!Next
  <2>1. Cardinality(Heap!Added) <= 1
    BY <1>1, OneAtMost, Zenon DEF Heap!Added
  <2>2. Cardinality(Heap!Removed) <= 1
    BY <1>1, OneAtMost, Zenon DEF Heap!Removed
  <2>3. \A b \in Heap!Added : b[3] > 0 /\ (Heap!Fits(b) \/ Heap!Shrinks(b))
    BY <1>1, Zenon DEF Heap!Added
  <2> QED
    BY <2>1, <2>2, <2>3, Zenon DEF Heap!Next, Heap!Cardinality, Cardinality
<1>2. ASSUME NEW g \in Blocks, Alone(g, headers) PROVE g[3] > 0 /\ Heap!Fits(g)
  <2>1. g[3] > 0
    BY BlockIs
  <2>2. ASSUME NEW c \in headers PROVE Heap!Extent(g) \cap Heap!Extent(c) = {}
    <3>1. c \in Blocks /\ Apart(g, c)
      BY <1>2, Zenon DEF Alone
    <3> QED
      BY <3>1, ApartFits, Zenon
  <2>3. Heap!Fits(g)
    BY <2>2, Zenon DEF Heap!Fits
  <2> QED
    BY <2>1, <2>3, Zenon
<1>3. CASE headers' = headers
  BY <1>3, Zenon
<1>4. ASSUME NEW g \in Blocks, Alone(g, headers), headers' = headers \cup {g} PROVE Heap!Next
  <2>1. headers' \ headers \subseteq {g} /\ headers \ headers' \subseteq {g}
    BY <1>4, Zenon
  <2>2. g[3] > 0 /\ Heap!Fits(g)
    BY <1>2, <1>4, Zenon
  <2> QED
    BY <1>1, <2>1, <2>2, Zenon
<1>5. ASSUME NEW h \in headers, headers' = headers \ {h} PROVE Heap!Next
  <2>1. headers' \ headers \subseteq {h} /\ headers \ headers' \subseteq {h} /\ h \notin headers' \ headers
    BY <1>5, Zenon
  <2> QED
    BY <1>1, <2>1, Zenon
<1>6. ASSUME NEW h \in headers, NEW k \in Nat \ {0}, k < h[3],
             headers' = (headers \ {h}) \cup {<<h[1], h[2], k>>}
      PROVE  Heap!Next
  <2> DEFINE g == <<h[1], h[2], k>>
  <2>1. g[1] = h[1] /\ g[2] = h[2] /\ g[3] = k
    OBVIOUS
  <2>2. g # h
    <3>1. k # h[3]
      <4>1. h[3] \in Nat
        BY BlockIs, Zenon
      <4> QED
        BY <1>6, <4>1
    <3> QED
      BY <2>1, <3>1, Zenon
  <2> HIDE DEF g
  <2>3. headers' = (headers \ {h}) \cup {g}
    BY <1>6, Zenon DEF g
  <2>4. headers' \ headers \subseteq {g} /\ headers \ headers' \subseteq {h} /\ h \in headers \ headers'
    BY <2>2, <2>3, Zenon
  <2>5. Heap!Shrinks(g)
    BY <1>6, <2>1, <2>4, Zenon DEF Heap!Shrinks, Heap!Removed
  <2>6. g[3] > 0
    BY <2>1
  <2> QED
    BY <1>1, <2>4, <2>5, <2>6, Zenon
<1>7. ASSUME NEW h \in headers, NEW g \in Blocks, Alone(g, headers),
             headers' = (headers \cup {g}) \ {h}
      PROVE  Heap!Next
  <2>1. headers' \ headers \subseteq {g} /\ headers \ headers' \subseteq {h}
    BY <1>7, Zenon
  <2>2. g[3] > 0 /\ Heap!Fits(g)
    BY <1>2, <1>7, Zenon
  <2> QED
    BY <1>1, <2>1, <2>2, Zenon
<1> QED
  BY <1>3, <1>4, <1>5, <1>6, <1>7, Zenon DEF Steps

(* Allocate(), Free(), Shrink() and Reallocate() do what PacketAllocator.h   *)
(* promises, and nothing else: a block added has a unit or more and lies     *)
(* clear of every live block, the one that Reallocate() copies from and then *)
(* frees included, and a block that changes size only loses its end.         *)
THEOREM AllocatorImplementsHeap == AllocatorSpec => ImplementsHeap
<1>1. AllocatorInit => Heap!Init
  BY Zenon DEF AllocatorInit, Heap!Init
<1>2. AllocatorIInv /\ [AllocatorNext]_allocatorVars => [Heap!Next]_headers
  <2> SUFFICES ASSUME Exact(Now), [AllocatorNext]_allocatorVars PROVE [Heap!Next]_headers
    BY Zenon DEF AllocatorIInv
  <2>1. CASE AllocatorNext
    <3>1. headers \subseteq Blocks
      BY NowIs, Zenon
    <3>2. Steps(headers, headers')
      BY <2>1, AllocatorStep, Zenon
    <3> QED
      BY <3>1, <3>2, StepsHeap, Zenon
  <2>2. CASE UNCHANGED allocatorVars
    BY <2>2, Zenon DEF allocatorVars
  <2> QED
    BY <2>1, <2>2, Zenon
<1>3. AllocatorSpec => []AllocatorIInv
  BY AllocatorInductive, Zenon
<1> QED
  BY <1>1, <1>2, <1>3, PTL DEF AllocatorSpec, ImplementsHeap, Heap!Spec
=============================================================================
