---------------------------- MODULE SiameseCodec ----------------------------
(***************************************************************************)
(* The Siamese erasure code between one encoder and one decoder: running   *)
(* sums that both sides keep over columns they have dropped, and the       *)
(* region of recovery packets the decoder has checked and the matrix it    *)
(* has built, both extended step by step instead of computed afresh.       *)
(*                                                                         *)
(* A column stands for the packet of that number; it does not wrap here.   *)
(* The contents of a sum are the set of columns added to it, and adding a  *)
(* column twice removes it, as in the field.  A recovery packet carries    *)
(* its metadata and the contents of the sums its opcode selects.           *)
(* Gaussian elimination may fail whatever the rows are; on success it uses *)
(* as many rows as there are losses, each covering a loss not yet matched. *)
(*                                                                         *)
(* An original arrives at any time after it was sent, as itself or as a    *)
(* retransmission; recovery packets are lost and reordered; the latest     *)
(* acknowledgement is in flight until it is read.                          *)
(***************************************************************************)
EXTENDS Integers, Sequences, FiniteSets, FiniteSetsExt

LOCAL INSTANCE SequencesExt

CONSTANTS
    MaxColumns,       \* bound: packets sent
    MaxRows,          \* bound: recovery packets generated
    WindowLimit,      \* SIAMESE_MAX_PACKETS
    LaneCount,        \* kColumnLaneCount
    SumsPerLane,      \* kColumnSumCount
    RowSums,          \* GetRowOpcode(): the sums each row number selects
    SubwindowSize,    \* kSubwindowSize
    RemoveThreshold,  \* kEncoderRemoveThreshold, kDecoderRemoveThreshold
    CauchyThreshold,  \* SIAMESE_CAUCHY_THRESHOLD
    SumResetThreshold,  \* SIAMESE_SUM_RESET_THRESHOLD
    MaximumLossRecoveryCount

SumIds == (0 .. LaneCount - 1) \X (0 .. SumsPerLane - 1)

ASSUME CodecAssumption ==
    /\ SubwindowSize % LaneCount = 0
    /\ RemoveThreshold = 2 * SubwindowSize
    /\ SumResetThreshold <= CauchyThreshold
    /\ \E period \in 1 .. 255 : RowSums \in [0 .. period - 1 -> SUBSET SumIds]

VARIABLES
    encoder,     \* EncoderPacketWindow and the row counter
    decoder,     \* Decoder: window, recovery packets, checked region, matrix
    inFlight,    \* recovery packets
    ack,         \* the column the latest acknowledgement expects
    generated,   \* recovery packets generated so far
    decoding     \* attemptDecode() is in its loop

codecVars == <<encoder, decoder, inFlight, ack, generated, decoding>>

(* Addition in the field: what is added twice is gone. *)
Plus(a, b) == (a \ b) \cup (b \ a)

(* GetNextLaneElement() *)
NextLaneElement(element, lane) ==
    LET aligned == (element - (element % LaneCount)) + lane
    IN  IF aligned < element THEN aligned + LaneCount ELSE aligned

(* The elements GetSum() visits from `next` on, and where it stops. *)
Visited(next, end) ==
    {e \in next .. end - 1 : (e - next) % LaneCount = 0}
After(next, end) ==
    IF next >= end THEN next ELSE Max(Visited(next, end)) + LaneCount

-----------------------------------------------------------------------------
(* The encoder *)

EncoderInit ==
    [NextColumn |-> 0, ColumnStart |-> 0, Count |-> 0,
     FirstUnremovedElement |-> 0, SumStartElement |-> 0, SumEndElement |-> 0,
     SumColumnStart |-> 0, SumErasedCount |-> 0, NextRow |-> 0,
     Next |-> [s \in SumIds |-> s[1]], Sum |-> [s \in SumIds |-> {}]]

StartNewWindow(e, column) ==
    LET element == column % LaneCount
    IN  [e EXCEPT !.ColumnStart = column - element,
                  !.SumStartElement = element, !.SumEndElement = element,
                  !.FirstUnremovedElement = element, !.Count = element + 1]

Add ==
    /\ ~decoding
    /\ encoder.NextColumn < MaxColumns
    /\ encoder.Count < WindowLimit
    /\ LET column == encoder.NextColumn
           e == IF encoder.Count > 0
                THEN [encoder EXCEPT !.Count = @ + 1]
                ELSE StartNewWindow(encoder, column)
       IN  encoder' = [e EXCEPT !.NextColumn = column + 1]
    /\ UNCHANGED <<decoder, inFlight, ack, generated, decoding>>

(* RemoveBefore(), on the acknowledgement in flight. *)
RemoveBefore ==
    /\ ~decoding
    /\ LET e == encoder
           kept == ack - e.ColumnStart
       IN  encoder' =
             IF kept < 0 THEN e
             ELSE IF kept >= e.Count THEN [e EXCEPT !.Count = 0]
             ELSE [e EXCEPT !.FirstUnremovedElement = Max({@, kept})]
    /\ UNCHANGED <<decoder, inFlight, ack, generated, decoding>>

EncoderResetSums(e, start) ==
    [e EXCEPT !.Next = [s \in SumIds |-> NextLaneElement(start, s[1])],
              !.Sum = [s \in SumIds |-> {}],
              !.SumStartElement = start, !.SumEndElement = start,
              !.SumColumnStart = e.ColumnStart + start, !.SumErasedCount = 0]

(* GetSum() of each of the sums, up to element end. *)
EncoderGetSums(e, sums, end) ==
    [e EXCEPT
        !.Sum = [s \in SumIds |->
                   IF s \notin sums THEN @[s]
                   ELSE Plus(@[s], {e.ColumnStart + x :
                                      x \in Visited(e.Next[s], end)})],
        !.Next = [s \in SumIds |->
                    IF s \notin sums THEN @[s] ELSE After(@[s], end)]]

(* Columns of the running sums that are no longer in the window. *)
Erased(e, removed) ==
    e.SumErasedCount + Max({removed - e.SumStartElement, 0})

EncoderRemoveElements(e) ==
    LET removed == (e.FirstUnremovedElement \div SubwindowSize) * SubwindowSize
        rolled == EncoderGetSums(e, SumIds, removed)
        kept == IF e.SumEndElement > e.SumStartElement
                THEN [rolled EXCEPT
                        !.Next = [s \in SumIds |-> @[s] - removed],
                        !.SumErasedCount = Erased(e, removed),
                        !.SumEndElement = Max({@ - removed, 0}),
                        !.SumStartElement = Max({@ - removed, 0})]
                ELSE e
        shifted == [kept EXCEPT !.Count = @ - removed,
                                !.ColumnStart = @ + removed,
                                !.FirstUnremovedElement = @ - removed]
    IN  IF shifted.SumEndElement <= shifted.SumStartElement
        THEN EncoderResetSums(shifted, shifted.FirstUnremovedElement)
        ELSE shifted

(* Metadata and contents of a recovery packet. *)
Recovery(start, count, ldpc, sums) ==
    [ColumnStart |-> start, SumCount |-> count, LDPCCount |-> ldpc,
     sums |-> sums, id |-> generated + 1]

(* GenerateSinglePacket() and GenerateCauchyPacket() *)
PlainRecovery(e) ==
    LET unacknowledged == e.Count - e.FirstUnremovedElement
    IN  Recovery(e.ColumnStart + e.FirstUnremovedElement, unacknowledged,
                 unacknowledged, <<>>)

(* AddDenseColumns() and AddLightColumns() *)
SumRecovery(e, row) ==
    Recovery(e.SumColumnStart,
             e.SumEndElement - e.SumStartElement + e.SumErasedCount,
             e.Count - e.FirstUnremovedElement,
             [s \in RowSums[row] |-> e.Sum[s]])

Sent(e, recovery) == encoder' = e /\ inFlight' = inFlight \cup {recovery}

Encode ==
    /\ ~decoding
    /\ encoder.Count > 0
    /\ generated < MaxRows
    /\ LET e == IF encoder.FirstUnremovedElement >= RemoveThreshold
                THEN EncoderRemoveElements(encoder) ELSE encoder
           unacknowledged == e.Count - e.FirstUnremovedElement
           sumCountUB == e.Count - e.SumStartElement + e.SumErasedCount
           reset == \/ e.SumEndElement <= e.SumStartElement
                    \/ sumCountUB >= WindowLimit
           stop == \/ unacknowledged <= SumResetThreshold
                   \/ sumCountUB <= CauchyThreshold
           started == IF reset
                      THEN EncoderResetSums(e, e.FirstUnremovedElement) ELSE e
           summed == EncoderGetSums(started, RowSums[e.NextRow], e.Count)
           last == [summed EXCEPT
                      !.SumEndElement = e.Count,
                      !.NextRow = (@ + 1) % Cardinality(DOMAIN RowSums)]
       IN  CASE unacknowledged = 1 -> Sent(e, PlainRecovery(e))
             [] /\ unacknowledged # 1
                /\ reset /\ unacknowledged <= CauchyThreshold ->
                  Sent(e, PlainRecovery(e))
             [] unacknowledged # 1 /\ ~reset /\ stop ->
                  Sent([e EXCEPT !.SumEndElement = e.SumStartElement],
                       PlainRecovery(e))
             [] OTHER -> Sent(last, SumRecovery(last, e.NextRow))
    /\ generated' = generated + 1
    /\ UNCHANGED <<decoder, ack, decoding>>

-----------------------------------------------------------------------------
(* The decoder *)

NoRegion ==
    [ElementStart |-> 0, NextCheckStart |-> 0, First |-> 0, Last |-> 0,
     RecoveryCount |-> 0, LostCount |-> 0, SolveFailed |-> FALSE]

NoMatrix ==
    [Columns |-> {}, Rows |-> <<>>, PreviousNextCheckStart |-> 0]

(* LastRecoveryMetadata before the first packet in order. *)
Uninitialized == [ColumnStart |-> 0, SumCount |-> 0, LDPCCount |-> 0]

DecoderInit ==
    [Count |-> 0, ColumnStart |-> 0, NextExpectedElement |-> 0, Got |-> {},
     Sums |-> [s \in SumIds |->
                 [start |-> 0, end |-> 0, data |-> FALSE, columns |-> {}]],
     SumColumnStart |-> 0, SumColumnCount |-> 0, RecoveredColumns |-> {},
     HasRecoveredPackets |-> FALSE, EmergencyDisabled |-> FALSE,
     LatestColumn |-> 0, LastRecoveryMetadata |-> Uninitialized,
     RecoveryPackets |-> <<>>, CheckedRegion |-> NoRegion,
     RecoveryMatrix |-> NoMatrix,
     undefined |-> FALSE, \* LastRecoveryMetadata was read uninitialized
     exact |-> TRUE,     \* history: every row solved summed what it claimed
     late |-> FALSE]     \* history: a packet was stored out of order

Disabled(d) == [d EXCEPT !.EmergencyDisabled = TRUE]

InvalidElement(d, element) == element < 0 \/ element >= d.Count

(* The elements of a range the window misses, RangeLostPackets(). *)
LostElements(d, start, end) ==
    {e \in start .. end - 1 : d.ColumnStart + e \notin d.Got}

GrowWindow(d, end) == [d EXCEPT !.Count = Max({@, end})]

ResetRegion(d) ==
    [d EXCEPT !.CheckedRegion = NoRegion, !.RecoveryMatrix = NoMatrix]

IterateNextExpectedElement(d, start) ==
    IF d.NextExpectedElement >= d.Count THEN d
    ELSE [d EXCEPT !.NextExpectedElement =
            Min({d.Count} \cup LostElements(d, start, d.Count))]

(* Fault: a packet that ends at the element is kept. *)
BugDeletePacketsBefore(d, element) ==
    LET list == d.RecoveryPackets
        first == Min({i \in DOMAIN list : list[i].ElementEnd >= element}
                       \cup {Len(list) + 1})
    IN  [d EXCEPT !.RecoveryPackets = SubSeq(list, first, Len(list))]

(* Recovery packets are freed from the head on. *)
DeletePacketsBefore(d, element) ==
    LET list == d.RecoveryPackets
        first == Min({i \in DOMAIN list : list[i].ElementEnd > element}
                       \cup {Len(list) + 1})
    IN  [d EXCEPT !.RecoveryPackets = SubSeq(list, first, Len(list))]

(* Fault: a packet that comes late leaves the region as it is. *)
BugResetIfChecked(d, element) == d

(* An element of the checked region was received. *)
ResetIfChecked(d, element) ==
    IF /\ element >= d.CheckedRegion.ElementStart
       /\ element < d.CheckedRegion.NextCheckStart
    THEN ResetRegion(d) ELSE d

AddOriginal(d, column) ==
    LET element == column - d.ColumnStart
        got == [GrowWindow(d, element + 1) EXCEPT !.Got = @ \cup {column}]
        next == IterateNextExpectedElement(got, element + 1)
        advanced == IF element = d.NextExpectedElement
                    THEN DeletePacketsBefore(next, next.NextExpectedElement)
                    ELSE got
    IN  IF element < 0 \/ column \in d.Got THEN d
        ELSE ResetIfChecked(advanced, element)

-----------------------------------------------------------------------------
(* Running sums of the decoder *)

DecoderResetSums(d, start) ==
    [d EXCEPT
        !.Sums = [s \in SumIds |->
                    LET lane == NextLaneElement(start, s[1])
                    IN  [start |-> lane, end |-> lane, data |-> FALSE,
                         columns |-> {}]],
        !.RecoveredColumns = {}]

(* PlugSumHoles(): recovered columns the sum has passed over. *)
Holes(d, sum, s, start) ==
    {c \in d.RecoveredColumns :
        /\ ~InvalidElement(d, c - d.ColumnStart)
        /\ c % LaneCount = s[1]
        /\ c - d.ColumnStart >= NextLaneElement(start, s[1])
        /\ c - d.ColumnStart < sum.end}

(* StartSums(): an empty sum, or one that starts elsewhere, starts over. *)
Restarted(sum, s, start) ==
    LET lane == NextLaneElement(start, s[1])
    IN  IF sum.data /\ sum.start = lane THEN sum
        ELSE [start |-> lane, end |-> lane, data |-> TRUE, columns |-> {}]

StartSums(d, start) ==
    [d EXCEPT
        !.Sums = [s \in SumIds |->
                    LET sum == Restarted(@[s], s, start)
                    IN  [sum EXCEPT !.columns =
                                      Plus(@, Holes(d, sum, s, start))]],
        !.RecoveredColumns = {}]

(* GetSum() of each of the sums: lost packets are passed over. *)
DecoderGetSums(d, sums, end) ==
    [d EXCEPT !.Sums = [s \in SumIds |->
        LET sum == @[s]
            got == {d.ColumnStart + e : e \in Visited(sum.end, end)}
                     \cap d.Got
        IN  IF s \notin sums THEN sum
            ELSE [sum EXCEPT !.end = After(@, end),
                             !.data = @ \/ got # {},
                             !.columns = Plus(@, got)]]]

-----------------------------------------------------------------------------
(* RemoveElements() *)

IsSum(metadata) == metadata.SumCount > CauchyThreshold

SumRows(list) == SelectSeq(list, LAMBDA r : IsSum(r.Metadata))

(* Starts of sums other than the first one among the stored packets. *)
OtherSums(d) ==
    LET sums == SumRows(d.RecoveryPackets)
    IN  {sums[i].Metadata.ColumnStart - d.ColumnStart :
           i \in {j \in DOMAIN sums :
                    \/ sums[j].Metadata.ColumnStart # sums[1].Metadata.ColumnStart
                    \/ sums[j].Metadata.SumCount < sums[1].Metadata.SumCount}}

FirstKeptElement(d) ==
    LET last == d.LastRecoveryMetadata
        list == d.RecoveryPackets
    IN  IF list = <<>>
        THEN last.ColumnStart + last.SumCount - last.LDPCCount - d.ColumnStart
        ELSE Min({list[i].ElementStart : i \in DOMAIN list} \cup OtherSums(d))

(* The sum to keep running: of the first stored packet that has one or,     *)
(* with none stored, of the last one received.                              *)
TargetSum(d) ==
    LET sums == SumRows(d.RecoveryPackets)
    IN  IF d.RecoveryPackets = <<>> THEN d.LastRecoveryMetadata
        ELSE IF sums = <<>> THEN d.RecoveryPackets[1].Metadata
        ELSE sums[1].Metadata

(* The sums, ready to be rolled up to the point of removal. *)
TargetSums(d) ==
    LET target == TargetSum(d)
        start == target.ColumnStart - d.ColumnStart
    IN  IF ~IsSum(target) THEN [d EXCEPT !.SumColumnCount = 0]
        ELSE IF \/ d.SumColumnStart # target.ColumnStart
                \/ d.SumColumnCount > target.SumCount
        THEN IF InvalidElement(d, start) THEN Disabled(d)
             ELSE [DecoderResetSums(d, start) EXCEPT
                     !.SumColumnStart = target.ColumnStart,
                     !.SumColumnCount = target.SumCount]
        ELSE StartSums(d, IF InvalidElement(d, start) THEN 0 ELSE start)

RolledUp(d, removed) ==
    LET rolled == DecoderGetSums(d, SumIds, removed)
    IN  IF ~IsSum(TargetSum(d)) THEN d
        ELSE [rolled EXCEPT !.Sums = [s \in SumIds |->
                [@[s] EXCEPT !.start = IF @ >= removed THEN @ - removed
                                       ELSE s[1],
                             !.end = @ - removed]]]

(* DecrementElementCounters() of the checked region and of the matrix. *)
DecrementRegion(d, removed) ==
    LET region == d.CheckedRegion
    IN  IF region.ElementStart < removed \/ region.NextCheckStart < removed
        THEN ResetRegion(d)
        ELSE [d EXCEPT
                !.CheckedRegion.ElementStart = @ - removed,
                !.CheckedRegion.NextCheckStart = @ - removed,
                !.RecoveryMatrix.PreviousNextCheckStart =
                    Max({@ - removed, 0})]

Shifted(d, removed) ==
    DecrementRegion(
        [d EXCEPT
            !.Got = {c \in @ : c >= d.ColumnStart + removed},
            !.Count = @ - removed,
            !.ColumnStart = @ + removed,
            !.NextExpectedElement = @ - removed,
            !.RecoveryPackets = [i \in DOMAIN @ |->
                [@[i] EXCEPT !.ElementStart = @ - removed,
                             !.ElementEnd = @ - removed]]],
        removed)

DecoderRemoveElements(d) ==
    LET kept == FirstKeptElement(d)
        removed == (kept \div SubwindowSize) * SubwindowSize
        summed == TargetSums(d)
    IN  IF d.NextExpectedElement < RemoveThreshold THEN d
        ELSE IF /\ d.RecoveryPackets = <<>>
                /\ d.LastRecoveryMetadata = Uninitialized
        THEN [d EXCEPT !.undefined = TRUE]
        ELSE IF \/ d.RecoveryPackets = <<>> /\ kept < 0
                \/ \E start \in OtherSums(d) : InvalidElement(d, start)
        THEN Disabled(d)
        ELSE IF kept < RemoveThreshold THEN d
        ELSE IF summed.EmergencyDisabled THEN summed
        ELSE Shifted(RolledUp(summed, removed), removed)

-----------------------------------------------------------------------------
(* AddRecovery() *)

(* RecoveryPacketList::Insert(): by end, and by start among equal ends. *)
Position(list, recovery) ==
    Max({0} \cup {i \in DOMAIN list :
           \/ recovery.ElementEnd > list[i].ElementEnd
           \/ /\ recovery.ElementEnd = list[i].ElementEnd
              /\ recovery.Metadata.ColumnStart < list[i].Metadata.ColumnStart})

(* Only a packet at the end of a list that had some leaves it valid. *)
KeepsRegion(list, position) == position > 0 /\ position = Len(list)

Insert(d, recovery, outOfOrder) ==
    LET list == d.RecoveryPackets
        position == Position(list, recovery)
        inserted == [d EXCEPT
            !.RecoveryPackets = InsertAt(@, position + 1, recovery),
            !.LastRecoveryMetadata = IF outOfOrder THEN @
                                     ELSE recovery.Metadata,
            !.late = @ \/ outOfOrder]
    IN  IF KeepsRegion(list, position) THEN inserted ELSE ResetRegion(inserted)

(* AddSingleRecovery() *)
AddSingleRecovery(d, column) ==
    LET element == column - d.ColumnStart
        recovered == ResetIfChecked(
            [d EXCEPT !.Got = @ \cup {column},
                      !.RecoveredColumns = @ \cup {column},
                      !.HasRecoveredPackets = TRUE], element)
        next == IterateNextExpectedElement(recovered, element + 1)
        deleted == DeletePacketsBefore(next, next.NextExpectedElement)
    IN  IF InvalidElement(d, element) THEN Disabled(d)
        ELSE IF column \in d.Got THEN d
        ELSE IF element # d.NextExpectedElement THEN recovered
        ELSE IF deleted.CheckedRegion.NextCheckStart >= RemoveThreshold
        THEN DecoderRemoveElements(deleted) ELSE deleted

(* The packet tells nothing new; in order and far enough into the window,   *)
(* it lets the window shrink.                                               *)
IgnoredRecovery(d, metadata, elementStart, outOfOrder) ==
    IF ~outOfOrder /\ elementStart >= RemoveThreshold
    THEN DecoderRemoveElements(
           [d EXCEPT !.LastRecoveryMetadata = metadata])
    ELSE d

(* The sum it needs is neither running nor in the window as a whole. *)
SumClipped(d, metadata) ==
    /\ IsSum(metadata)
    /\ d.SumColumnCount = 0 \/ d.SumColumnStart # metadata.ColumnStart
    /\ InvalidElement(d, metadata.ColumnStart - d.ColumnStart)

StoreRecovery(d, metadata, elementStart, elementEnd, outOfOrder) ==
    LET recovery == [Metadata |-> metadata, ElementStart |-> elementStart,
                     ElementEnd |-> elementEnd]
        stored == Insert(d, recovery, outOfOrder)
    IN  IF metadata.SumCount = 1
        THEN AddSingleRecovery(d, metadata.ColumnStart)
        ELSE IF elementStart >= RemoveThreshold
        THEN DecoderRemoveElements(stored) ELSE stored

AddRecovery(d0, metadata) ==
    LET end == metadata.ColumnStart + metadata.SumCount
        outOfOrder == end < d0.LatestColumn
        d == [d0 EXCEPT !.LatestColumn = Max({@, end})]
        elementEnd == end - d.ColumnStart
        elementStart == elementEnd - metadata.LDPCCount
        fresh == [GrowWindow(d, metadata.SumCount) EXCEPT
                    !.ColumnStart = metadata.ColumnStart]
    IN  IF d.Count = 0
        THEN IF outOfOrder THEN d
             ELSE StoreRecovery(fresh, metadata,
                                metadata.SumCount - metadata.LDPCCount,
                                metadata.SumCount, outOfOrder)
        ELSE IF elementEnd < 0 \/ elementStart < 0 THEN d
        ELSE IF elementEnd <= d.NextExpectedElement
        THEN IgnoredRecovery(d, metadata, elementStart, outOfOrder)
        ELSE IF SumClipped(d, metadata) THEN d
        ELSE StoreRecovery(GrowWindow(d, elementEnd), metadata, elementStart,
                           elementEnd, outOfOrder)

-----------------------------------------------------------------------------
(* The checked region *)

(* Position of a recovery packet in the list. *)
IndexOf(d, id) ==
    CHOOSE i \in DOMAIN d.RecoveryPackets :
        d.RecoveryPackets[i].Metadata.id = id

(* One more recovery packet, and the losses it covers beyond the others. *)
Extend(d, region, recovery) ==
    [region EXCEPT
        !.Last = recovery.Metadata.id,
        !.RecoveryCount = @ + 1,
        !.LostCount = @ + Cardinality(LostElements(d, region.NextCheckStart,
                                                   recovery.ElementEnd)),
        !.NextCheckStart = Max({@, recovery.ElementEnd})]

(* The region of the head of the list alone. *)
FirstRegion(d) ==
    LET head == d.RecoveryPackets[1]
        start == [NoRegion EXCEPT !.First = head.Metadata.id,
                                  !.ElementStart = head.ElementStart,
                                  !.NextCheckStart = head.ElementStart]
    IN  Extend(d, start, head)

Enough(region) == region.RecoveryCount >= region.LostCount

(* The region after `count` more packets of the list. *)
ExtendBy(d, region, count) ==
    LET from == IndexOf(d, region.Last)
    IN  FoldLeft(LAMBDA r, i : Extend(d, r, d.RecoveryPackets[i]), region,
                 [i \in 1 .. count |-> from + i])

Rest(d, region) == Len(d.RecoveryPackets) - IndexOf(d, region.Last)

(* CheckRecoveryPossible() takes more packets until there are enough; after *)
(* a failed solution it takes at least one.                                 *)
CheckedRegion(d) ==
    LET old == d.CheckedRegion
        start == IF old.Last = 0 THEN FirstRegion(d) ELSE old
        needed == {n \in 0 .. Rest(d, start) :
                     /\ start.SolveFailed => n > 0
                     /\ Enough(ExtendBy(d, start, n))}
        count == Min(needed \cup {Rest(d, start)})
    IN  [ExtendBy(d, start, count) EXCEPT
           !.SolveFailed = @ /\ count = 0]

RecoveryPossible(region) ==
    /\ Enough(region) /\ ~region.SolveFailed
    /\ region.LostCount <= MaximumLossRecoveryCount

-----------------------------------------------------------------------------
(* Decode() *)

(* PopulateColumns() goes on where it stopped. *)
PopulatedFrom(d) ==
    Max({d.RecoveryMatrix.PreviousNextCheckStart,
         d.CheckedRegion.ElementStart})

(* PopulateColumns(): the next lost elements become columns. *)
PopulateColumns(d) ==
    LET region == d.CheckedRegion
        old == d.RecoveryMatrix.Columns
        lost == LostElements(d, PopulatedFrom(d), region.NextCheckStart)
        new == {e \in lost : Cardinality({f \in lost : f < e})
                                < region.LostCount - Cardinality(old)}
    IN  IF Cardinality(old) >= region.LostCount THEN d
        ELSE [d EXCEPT
                !.RecoveryMatrix.Columns =
                    old \cup {d.ColumnStart + e : e \in new},
                !.RecoveryMatrix.PreviousNextCheckStart =
                    region.NextCheckStart]

(* PopulateRows(): the next recovery packets become rows. *)
PopulateRows(d) ==
    LET old == d.RecoveryMatrix.Rows
        from == IF old = <<>> THEN IndexOf(d, d.CheckedRegion.First)
                ELSE IndexOf(d, old[Len(old)]) + 1
        more == d.CheckedRegion.RecoveryCount - Len(old)
    IN  [d EXCEPT !.RecoveryMatrix.Rows = old \o
            [i \in 1 .. more |-> d.RecoveryPackets[from + i - 1].Metadata.id]]

(* GenerateMatrix(): a matrix that is too large missed a reset. *)
GenerateMatrix(d) ==
    LET matrix == d.RecoveryMatrix
        missed == \/ d.CheckedRegion.RecoveryCount < Len(matrix.Rows)
                  \/ d.CheckedRegion.LostCount < Cardinality(matrix.Columns)
        kept == IF missed THEN [d EXCEPT !.RecoveryMatrix = NoMatrix] ELSE d
    IN  PopulateRows(PopulateColumns(kept))

(* The recovery packet of a row of the matrix. *)
RowPacket(d, i) == d.RecoveryPackets[IndexOf(d, d.RecoveryMatrix.Rows[i])]

(* Columns of the matrix that a recovery packet sums. *)
Covered(d, metadata) ==
    {c \in d.RecoveryMatrix.Columns :
        /\ c >= metadata.ColumnStart
        /\ c < metadata.ColumnStart + metadata.SumCount}

(* GaussianElimination() succeeds with these rows used for the solution. *)
Solves(d, used) ==
    /\ used \subseteq DOMAIN d.RecoveryMatrix.Rows
    /\ Cardinality(used) = d.CheckedRegion.LostCount
    /\ \A i \in used :
         Cardinality({j \in used : j <= i})
            <= Cardinality(Covered(d, RowPacket(d, i).Metadata))

(* Nothing but the losses the matrix knows is left of the row. *)
EliminatesExactly(d, recovery) ==
    LET metadata == recovery.Metadata
        lost == {d.ColumnStart + e :
                   e \in LostElements(d, recovery.ElementStart,
                                      recovery.ElementEnd)}
    IN  /\ recovery.ElementStart >= 0
        /\ lost \subseteq Covered(d, metadata)
        /\ \A s \in DOMAIN metadata.sums :
             Plus(metadata.sums[s], d.Sums[s].columns) =
                {c \in Covered(d, metadata) : c % LaneCount = s[1]}

(* EliminateOriginalData() for one row.  A row of a sum brings the running  *)
(* sums to its own end first.                                               *)
EliminateRow(d, recovery) ==
    LET metadata == recovery.Metadata
        start == metadata.ColumnStart - d.ColumnStart
        restart == \/ metadata.ColumnStart # d.SumColumnStart
                   \/ metadata.SumCount < d.SumColumnCount
        ready == IF restart THEN DecoderResetSums(d, start)
                 ELSE StartSums(d, IF InvalidElement(d, start) THEN 0
                                   ELSE start)
        summed == DecoderGetSums(
                    [ready EXCEPT !.SumColumnStart = metadata.ColumnStart,
                                  !.SumColumnCount = metadata.SumCount],
                    DOMAIN metadata.sums, recovery.ElementEnd)
        result == IF IsSum(metadata) THEN summed ELSE d
    IN  IF d.EmergencyDisabled THEN d
        ELSE IF IsSum(metadata) /\ restart /\ InvalidElement(d, start)
        THEN Disabled(d)
        ELSE [result EXCEPT !.exact = @ /\ EliminatesExactly(result, recovery)]

(* Rows are taken in the order of the list, whatever the pivots. *)
EliminateOriginalData(d, used) ==
    LET order == SetToSortSeq(used, LAMBDA i, j : i < j)
    IN  FoldLeft(LAMBDA x, i : EliminateRow(x, RowPacket(d, i)), d, order)

(* Fault: recovered packets are not remembered for the sums. *)
BugRecovered(d) == [d EXCEPT !.Got = @ \cup d.RecoveryMatrix.Columns]

(* The columns of the matrix are received. *)
Recovered(d) ==
    [d EXCEPT !.Got = @ \cup d.RecoveryMatrix.Columns,
              !.RecoveredColumns = @ \cup d.RecoveryMatrix.Columns]

BackSubstitution(d) ==
    LET checked == d.CheckedRegion.NextCheckStart
        next == IterateNextExpectedElement(Recovered(d), checked)
        deleted == DeletePacketsBefore(next, next.NextExpectedElement)
    IN  IF d.ColumnStart + d.NextExpectedElement
              \notin d.RecoveryMatrix.Columns
        THEN Disabled(d)
        ELSE IF checked >= RemoveThreshold
        THEN DecoderRemoveElements(deleted) ELSE deleted

(* DecodeCheckedRegion() solves. *)
Solved(d, used) ==
    LET eliminated == EliminateOriginalData(d, used)
    IN  IF eliminated.EmergencyDisabled THEN eliminated
        ELSE ResetRegion(BackSubstitution(eliminated))

(* DecodeCheckedRegion() fails.  Decode() goes on through the rest of the   *)
(* list, and DecodeCheckedRegion() meets the same region again each time.   *)
Unsolved(d) ==
    LET region == [d.CheckedRegion EXCEPT !.SolveFailed = TRUE]
    IN  [d EXCEPT !.CheckedRegion = ExtendBy(d, region, Rest(d, region))]

-----------------------------------------------------------------------------
(* SessionIncoming: each datagram is added and then decoded with. *)

(* The decoder after IsReadyToDecode(). *)
Checked(d) ==
    IF d.RecoveryPackets = <<>> THEN d
    ELSE [d EXCEPT !.CheckedRegion = CheckedRegion(d)]

Ready(d) == d.RecoveryPackets # <<>> /\ RecoveryPossible(d.CheckedRegion)

(* RemoveElements() on metadata that was never set: the column it makes up  *)
(* is near the start of the window and nothing is removed, or it is not and *)
(* counts as clipped.                                                       *)
Outcomes(d) ==
    LET defined == [d EXCEPT !.undefined = FALSE]
    IN  IF d.undefined THEN {defined, Disabled(defined)} ELSE {d}

(* The head of the loop of attemptDecode(). *)
AttemptDecode(result) ==
    /\ \E d \in Outcomes(result) :
         /\ decoder' = IF d.EmergencyDisabled \/ d.HasRecoveredPackets THEN d
                       ELSE Checked(d)
         /\ decoding' = /\ ~d.EmergencyDisabled
                        /\ d.HasRecoveredPackets \/ Ready(Checked(d))
    /\ UNCHANGED <<encoder, ack, generated>>

(* A packet that was sent and not received: late, or retransmitted. *)
ReceiveOriginal(column) ==
    /\ ~decoding /\ ~decoder.EmergencyDisabled
    /\ column < encoder.NextColumn
    /\ column >= decoder.ColumnStart /\ column \notin decoder.Got
    /\ AttemptDecode(AddOriginal(decoder, column))
    /\ UNCHANGED inFlight

(* One that is never received is lost. *)
ReceiveRecovery(recovery) ==
    /\ ~decoding /\ ~decoder.EmergencyDisabled
    /\ inFlight' = inFlight \ {recovery}
    /\ AttemptDecode(AddRecovery(decoder, recovery))

(* Decode() reports packets recovered by copy first. *)
ReportRecovered ==
    /\ decoding /\ decoder.HasRecoveredPackets
    /\ AttemptDecode([decoder EXCEPT !.HasRecoveredPackets = FALSE])
    /\ UNCHANGED inFlight

Decode(used) ==
    /\ decoding /\ ~decoder.HasRecoveredPackets
    /\ LET d == GenerateMatrix(decoder)
       IN  Solves(d, used) /\ AttemptDecode(Solved(d, used))
    /\ UNCHANGED inFlight

(* attemptDecode() gives up until the next datagram. *)
DecodeFails ==
    /\ decoding /\ ~decoder.HasRecoveredPackets
    /\ decoder' = Unsolved(GenerateMatrix(decoder))
    /\ decoding' = FALSE
    /\ UNCHANGED <<encoder, inFlight, ack, generated>>

(* GenerateAcknowledgement() *)
Acknowledge ==
    /\ ~decoding /\ decoder.Count > 0
    /\ ack' = decoder.ColumnStart + decoder.NextExpectedElement
    /\ UNCHANGED <<encoder, decoder, inFlight, generated, decoding>>

CodecInit ==
    /\ encoder = EncoderInit /\ decoder = DecoderInit
    /\ inFlight = {} /\ ack = 0 /\ generated = 0 /\ decoding = FALSE

CodecNext ==
    \/ Add \/ RemoveBefore \/ Encode \/ Acknowledge
    \/ \E column \in 0 .. MaxColumns - 1 : ReceiveOriginal(column)
    \/ \E recovery \in inFlight : ReceiveRecovery(recovery)
    \/ ReportRecovered \/ DecodeFails
    \/ \E used \in SUBSET (1 .. MaxRows) : Decode(used)

CodecSpec == CodecInit /\ [][CodecNext]_codecVars

-----------------------------------------------------------------------------
(* Every "Should never happen" of the window, of the sums and of the        *)
(* matrix: while recovery packets arrive in order the decoder never         *)
(* disables itself, so RemoveElements() never removed data that             *)
(* EliminateOriginalData() or BackSubstitution() needs.                     *)
InOrderNeverDisables == decoder.EmergencyDisabled => decoder.late

(* SiameseDecoder.cpp:284 says "Siamese correctly handles data received out *)
(* of order": the order of recovery packets never disables the decoder,     *)
(* even leaving aside a LastRecoveryMetadata that was never set.            *)
OutOfOrderHandled ==
    decoder.EmergencyDisabled => decoder.LastRecoveryMetadata = Uninitialized

(* Each row that is solved sums, on the side of the decoder, exactly what   *)
(* the encoder summed less the losses being solved for: GetSum(),           *)
(* StartSums() and PlugSumHoles() keep the running sums of the decoder      *)
(* right across removals, resets and recoveries, or the packets recovered   *)
(* would be garbage.                                                        *)
RecoversExactly == decoder.exact

(* The checked region is what checking the list of recovery packets afresh  *)
(* would find, and the matrix holds a prefix of its rows and the losses     *)
(* they cover: no late packet, insertion, deletion or removal leaves        *)
(* CheckedRegion or RecoveryMatrix stale.                                   *)
RegionCurrent ==
    LET d == decoder
        list == d.RecoveryPackets
        region == d.CheckedRegion
        rows == d.RecoveryMatrix.Rows
        EndOf(n) == Max({list[i].ElementEnd : i \in 1 .. n})
        Lost(n) == LostElements(d, list[1].ElementStart, EndOf(n))
    IN  region.Last # 0 =>
          /\ region.RecoveryCount \in DOMAIN list
          /\ region.First = list[1].Metadata.id
          /\ region.Last = list[region.RecoveryCount].Metadata.id
          /\ region.ElementStart = list[1].ElementStart
          /\ region.NextCheckStart = EndOf(region.RecoveryCount)
          /\ region.LostCount = Cardinality(Lost(region.RecoveryCount))
          /\ Len(rows) <= region.RecoveryCount
          /\ \A i \in DOMAIN rows : rows[i] = list[i].Metadata.id
          /\ rows # <<>> => d.RecoveryMatrix.Columns =
                              {d.ColumnStart + e : e \in Lost(Len(rows))}

(* SiameseDecoder.cpp says of a failed solution "continue on decode         *)
(* failure": while a longer prefix of the recovery packets has enough of    *)
(* them for its losses, Decode() tries it before it asks for more data.     *)
EnoughIsTried ==
    LET d == decoder
    IN  ~decoding /\ d.CheckedRegion.SolveFailed =>
          \A n \in 0 .. Len(d.RecoveryPackets) - 1 :
             LET region == ExtendBy(d, FirstRegion(d), n)
             IN  /\ Enough(region)
                 /\ region.LostCount <= MaximumLossRecoveryCount
                 => Len(d.RecoveryMatrix.Rows) > n
=============================================================================
