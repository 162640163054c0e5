-------------------------- MODULE ReliableDelivery --------------------------
(***************************************************************************)
(* One direction of a connection: reliable packets from a SessionOutgoing  *)
(* and its Siamese encoder, over a network that loses, delays and reorders *)
(* datagrams, to a SessionIncoming and its Siamese decoder; and the        *)
(* acknowledgements and AckAcks that travel with them.                     *)
(*                                                                         *)
(* Packet number p stands for the p-th reliable datagram.  It carries one  *)
(* message of an ordered channel and one Unordered message.  Its 22-bit    *)
(* wrap is the subject of module Counter; the window of 16000 packets is   *)
(* far below half of that range.                                           *)
(*                                                                         *)
(* A datagram is received at most once (module StrikeRegister), so what is *)
(* in flight is a number of copies per packet.  Acknowledgements are kept  *)
(* in the order of their nonces: once one is accepted every earlier one    *)
(* would be ignored (NextAcceptableNonce), so it is dropped with it.       *)
(*                                                                         *)
(* The finite-field arithmetic of Siamese is left out: rows of recovery    *)
(* data either solve for all the losses they cover or fail to.             *)
(***************************************************************************)
EXTENDS Integers, Sequences, FiniteSets

CONSTANTS
    MaxPackets,      \* bound: reliable packets sent
    MaxCopies,       \* bound: copies of a packet in flight
    MaxAcks,         \* bound: acknowledgements in flight
    MaxRecoveries,   \* bound: recovery packets in flight
    Rows,            \* bound: recovery rows for one range of packets
    WindowLimit,     \* SIAMESE_MAX_PACKETS: elements the encoder holds
    LaneCount,       \* kColumnLaneCount: a new window starts at a multiple
    SubwindowSize,   \* kSubwindowSize: windows shrink by whole subwindows
    RemoveThreshold  \* kEncoderRemoveThreshold, kDecoderRemoveThreshold

ASSUME BoundsAssumption ==
    /\ MaxPackets \in Nat /\ MaxCopies \in Nat
    /\ MaxAcks \in Nat /\ MaxRecoveries \in Nat
    /\ WindowLimit \in Nat \ {0}
ASSUME WindowAssumption ==
    /\ LaneCount \in Nat \ {0}
    /\ SubwindowSize \in Nat \ {0}
    /\ RemoveThreshold \in Nat

Packets == 0 .. MaxPackets - 1
Numbers == 0 .. MaxPackets
Ranges == [start : Numbers, end : Numbers, row : Rows]

NeverAcked == -1  \* LastAckAckSeq = 0x800000: matches no packet number

VARIABLES
    (* SessionOutgoing and the encoder *)
    NextSequenceNumber,      \* next packet number to assign
    EncoderStart,            \* first column of the encoder window
    FirstUnremoved,          \* first column not acknowledged
    Count,                   \* elements in the encoder window
    PeerNextExpectedSeqNum,  \* next number the peer says it expects
    (* in flight *)
    originals,               \* copies of each packet
    recoveries,              \* recovery packets
    acks,                    \* acknowledgements, oldest nonce first
    ackacks,                 \* AckAck messages
    (* the decoder *)
    held,                    \* packets in the decoder window
    ColumnStart,             \* first column of the decoder window
    NextExpected,            \* first column it misses
    rows,                    \* stored recovery packets
    LatestColumn,            \* end of the latest recovery packet seen
    LastRecovery,            \* start of LastRecoveryMetadata's LDPC region
    EmergencyDisabled,       \* the decoder gave up
    (* SessionIncoming *)
    FECNextExpectedPacketNum,  \* its own copy of NextExpected
    LastAckAckSeq,           \* number of the last AckAck
    ordered,                 \* history: ordered messages delivered
    unordered                \* history: deliveries of each Unordered message

senderVars == <<NextSequenceNumber, EncoderStart, FirstUnremoved, Count,
                PeerNextExpectedSeqNum>>
decoderVars == <<held, ColumnStart, NextExpected, rows, LatestColumn,
                 LastRecovery, EmergencyDisabled>>
deliveryVars == <<FECNextExpectedPacketNum, ordered, unordered>>
vars == <<senderVars, originals, recoveries, acks, ackacks, decoderVars,
          deliveryVars, LastAckAckSeq>>

Init ==
    /\ NextSequenceNumber = 0 /\ EncoderStart = 0 /\ FirstUnremoved = 0
    /\ Count = 0 /\ PeerNextExpectedSeqNum = 0
    /\ originals = [p \in Packets |-> 0]
    /\ recoveries = {} /\ acks = <<>> /\ ackacks = {}
    /\ held = {} /\ ColumnStart = 0 /\ NextExpected = 0 /\ rows = {}
    /\ LatestColumn = 0 /\ LastRecovery = 0 /\ EmergencyDisabled = FALSE
    /\ FECNextExpectedPacketNum = 0 /\ LastAckAckSeq = NeverAcked
    /\ ordered = <<>> /\ unordered = [p \in Packets |-> 0]

-----------------------------------------------------------------------------
(* The sender *)

(* Flush() sends a queued datagram only while the encoder has room.  Add()  *)
(* starts a new window, aligned to a lane, when everything was acked.       *)
SendReliable ==
    /\ NextSequenceNumber \in Packets
    /\ Count < WindowLimit
    /\ LET column == NextSequenceNumber
           element == column % LaneCount
       IN  IF Count > 0
           THEN Count' = Count + 1 /\ UNCHANGED <<EncoderStart, FirstUnremoved>>
           ELSE /\ EncoderStart' = column - element
                /\ FirstUnremoved' = column
                /\ Count' = element + 1
    /\ originals' = [originals EXCEPT ![NextSequenceNumber] = @ + 1]
    /\ NextSequenceNumber' = NextSequenceNumber + 1
    /\ UNCHANGED <<PeerNextExpectedSeqNum, recoveries, acks, ackacks,
                   decoderVars, deliveryVars, LastAckAckSeq>>

(* Retransmit() offers packets the window still holds, from the first one   *)
(* the peer misses on.  Which one is due depends on the retransmission      *)
(* timeout and the NACKs: any may be.                                       *)
Retransmittable(p) ==
    /\ PeerNextExpectedSeqNum >= FirstUnremoved
    /\ PeerNextExpectedSeqNum < EncoderStart + Count
    /\ p >= PeerNextExpectedSeqNum
    /\ p < EncoderStart + Count

PostRetransmit(p) ==
    /\ Retransmittable(p)
    /\ originals[p] < MaxCopies
    /\ originals' = [originals EXCEPT ![p] = @ + 1]
    /\ UNCHANGED <<senderVars, recoveries, acks, ackacks, decoderVars,
                   deliveryVars, LastAckAckSeq>>

(* Elements that leave the encoder window, RemoveElements(). *)
EncoderRemoves(acked) ==
    IF acked >= RemoveThreshold
    THEN (acked \div SubwindowSize) * SubwindowSize
    ELSE 0

(* Encode(): whole acknowledged subwindows leave the window, then a row     *)
(* over everything not acknowledged is sent.                                *)
PostRecovery(row) ==
    /\ Count > 0
    /\ LET removed == EncoderRemoves(FirstUnremoved - EncoderStart)
       IN  /\ EncoderStart' = EncoderStart + removed
           /\ Count' = Count - removed
    /\ LET range == [start |-> FirstUnremoved, end |-> NextSequenceNumber,
                     row |-> row]
       IN  /\ range \notin recoveries
           /\ Cardinality(recoveries) < MaxRecoveries
           /\ recoveries' = recoveries \cup {range}
    /\ UNCHANGED <<NextSequenceNumber, FirstUnremoved, PeerNextExpectedSeqNum,
                   originals, acks, ackacks, decoderVars, deliveryVars,
                   LastAckAckSeq>>

(* Fault: the packet the peer expects next is removed as well. *)
BugAcknowledge(next) ==
    /\ PeerNextExpectedSeqNum' = next
    /\ IF next >= EncoderStart + Count
       THEN Count' = 0 /\ UNCHANGED FirstUnremoved
       ELSE FirstUnremoved' = next + 1 /\ UNCHANGED Count

(* OnAcknowledgementData() and RemoveBefore(). *)
Acknowledge(next) ==
    IF next < PeerNextExpectedSeqNum
    THEN UNCHANGED <<PeerNextExpectedSeqNum, FirstUnremoved, Count>>
    ELSE /\ PeerNextExpectedSeqNum' = next
         /\ IF next < EncoderStart
            THEN UNCHANGED <<FirstUnremoved, Count>>
            ELSE IF next >= EncoderStart + Count
            THEN Count' = 0 /\ UNCHANGED FirstUnremoved
            ELSE /\ FirstUnremoved' = IF FirstUnremoved < next
                                      THEN next ELSE FirstUnremoved
                 /\ UNCHANGED Count

(* Fault: the AckAck names what was sent, not what the peer has. *)
BugAckAck(caughtUp) == {NextSequenceNumber}

(* Fault: the AckAck is sent once, when the peer catches up. *)
BugAckAckOnce(caughtUp) ==
    IF caughtUp = NextSequenceNumber /\ caughtUp # PeerNextExpectedSeqNum
    THEN {caughtUp} ELSE {}

(* An AckAck is queued when the peer has caught up. *)
AckAck(caughtUp) ==
    IF caughtUp = NextSequenceNumber THEN {caughtUp} ELSE {}

OnAcknowledgements(i) ==
    /\ Acknowledge(acks[i])
    /\ acks' = SubSeq(acks, i + 1, Len(acks))
    /\ ackacks' = ackacks \cup AckAck(PeerNextExpectedSeqNum')
    /\ UNCHANGED <<NextSequenceNumber, EncoderStart, originals, recoveries,
                   decoderVars, deliveryVars, LastAckAckSeq>>

-----------------------------------------------------------------------------
(* The decoder *)

(* n is the first number, from `from` on, that is not in the set. *)
FirstMissing(n, from, set) ==
    n >= from /\ n \notin set /\ \A m \in from .. n - 1 : m \in set

(* The packets below a column that the window misses. *)
Lost(set, from, column) == (from .. column - 1) \ set

(* What the stored rows may solve for: as many losses below the end of one  *)
(* row as there are rows that end there or before.  Solving may fail.       *)
Solutions(set, stored, from) ==
    {{}} \cup {lost \in {Lost(set, from, r.end) : r \in stored} :
                 \E r \in stored :
                    /\ lost = Lost(set, from, r.end)
                    /\ Cardinality(lost) <=
                          Cardinality({q \in stored : q.end <= r.end})}

(* Fault: the window keeps from the next expected packet only. *)
BugKept(k, stored, last, next) == k = next

(* RemoveElements() keeps everything from column k: the earliest start of   *)
(* the stored rows or, with none stored, of the last one received.          *)
Kept(k, stored, last, next) ==
    IF stored = {}
    THEN k = last
    ELSE /\ \E r \in stored : k = r.start
         /\ \A r \in stored : k <= r.start

(* First column of the window after RemoveElements(). *)
Removed(from, k, next) ==
    IF next - from < RemoveThreshold \/ k - from < RemoveThreshold
    THEN from
    ELSE from + ((k - from) \div SubwindowSize) * SubwindowSize

(* RemoveElements() disables the decoder when the region of the last        *)
(* recovery packet was already removed.                                     *)
Clipped(from, stored, last, next) ==
    next - from >= RemoveThreshold /\ stored = {} /\ last < from

-----------------------------------------------------------------------------
(* SessionIncoming *)

(* The ordered messages of the packets first .. next - 1. *)
Run(first, next) == [i \in 1 .. next - first |-> first + i - 1]

(* Unordered messages of these packets are delivered.  The history stops   *)
(* counting at two.                                                         *)
Delivered(packets) ==
    [p \in Packets |-> IF p \in packets /\ unordered[p] < 2
                       THEN unordered[p] + 1 ELSE unordered[p]]

(* attemptDecode() and resumeProcessing(), once a datagram has been added   *)
(* to the decoder: rows may be solved, which may also shrink the window;    *)
(* the Unordered messages of what they recover are delivered; then, if      *)
(* anything was recovered or the expected packet came, so are the ordered   *)
(* messages of all the consecutive packets the decoder can return, after    *)
(* the ones the datagram itself brought in sequence.                        *)
Process(set, stored, from, last, inSequence, first, resume, seen) ==
    \E recovered \in Solutions(set, stored, from), next \in Numbers,
       k \in Numbers, remove \in BOOLEAN :
        LET got == set \cup recovered
            left == {r \in stored : r.end > next}
        IN  /\ remove => recovered # {}
            /\ FirstMissing(next, NextExpected, got)
            /\ Kept(k, left, last, next)
            /\ NextExpected' = next
            /\ rows' = left
            /\ LastRecovery' = last
            /\ ColumnStart' = IF remove THEN Removed(from, k, next) ELSE from
            /\ EmergencyDisabled' = (remove /\ Clipped(from, left, last, next))
            /\ held' = {p \in got : p >= ColumnStart'}
            /\ FECNextExpectedPacketNum' \in Numbers
            /\ IF resume \/ recovered # {}
               THEN FirstMissing(FECNextExpectedPacketNum', first, held')
               ELSE FECNextExpectedPacketNum' = first
            /\ ordered' = ordered \o inSequence
                             \o Run(first, FECNextExpectedPacketNum')
            /\ unordered' = Delivered(seen \cup recovered)

(* Fault: messages that come early are not left for resumeProcessing(). *)
BugInSequence(p) == IF p >= FECNextExpectedPacketNum THEN <<p>> ELSE <<>>

(* Ordered messages ProcessDatagram() delivers as it reads the datagram. *)
InSequence(p) == IF p = FECNextExpectedPacketNum THEN <<p>> ELSE <<>>

(* Fault: the decoder is not asked for the packet. *)
BugFirstSeen(p) == {p}

(* Unordered messages it delivers: those of a packet the decoder does not   *)
(* return.                                                                  *)
FirstSeen(p) == {p} \ held

(* ProcessDatagram() on a reliable packet.  Duplicate data, from before the *)
(* window or held already, changes nothing more.                            *)
ReceiveOriginal(p) ==
    /\ ~EmergencyDisabled
    /\ originals[p] > 0
    /\ originals' = [originals EXCEPT ![p] = @ - 1]
    /\ IF p < ColumnStart \/ p \in held
       THEN /\ unordered' = Delivered(FirstSeen(p))
            /\ ordered' = ordered \o InSequence(p)
            /\ UNCHANGED <<decoderVars, FECNextExpectedPacketNum>>
       ELSE LET expected == p = FECNextExpectedPacketNum
                first == IF expected THEN p + 1 ELSE FECNextExpectedPacketNum
            IN  /\ Process(held \cup {p}, rows, ColumnStart, LastRecovery,
                           InSequence(p), first, expected, FirstSeen(p))
                /\ UNCHANGED LatestColumn
    /\ UNCHANGED <<senderVars, recoveries, acks, ackacks, LastAckAckSeq>>

(* AddRecovery(): nothing new in it.  In order and far enough into the      *)
(* window, it still lets the window shrink.                                 *)
UnneededRecovery(r, outOfOrder) ==
    /\ \/ r.end < ColumnStart
       \/ r.start < ColumnStart
       \/ r.end <= NextExpected
    /\ IF /\ r.start >= ColumnStart
          /\ ~outOfOrder
          /\ r.start - ColumnStart >= RemoveThreshold
       THEN \E k \in Numbers :
              /\ Kept(k, rows, r.start, NextExpected)
              /\ LastRecovery' = r.start
              /\ ColumnStart' = Removed(ColumnStart, k, NextExpected)
              /\ EmergencyDisabled' =
                    Clipped(ColumnStart, rows, r.start, NextExpected)
              /\ held' = {p \in held : p >= ColumnStart'}
       ELSE UNCHANGED <<LastRecovery, ColumnStart, EmergencyDisabled, held>>
    /\ UNCHANGED <<NextExpected, rows, deliveryVars>>

UsefulRecovery(r) == r.start >= ColumnStart /\ r.end > NextExpected

(* AddSingleRecovery(): the row is a copy of the one packet in flight. *)
SingleRecovery(r) ==
    /\ UsefulRecovery(r)
    /\ r.end = r.start + 1
    /\ IF r.start \in held
       THEN UNCHANGED <<held, ColumnStart, NextExpected, rows, LastRecovery,
                        EmergencyDisabled, deliveryVars>>
       ELSE Process(held \cup {r.start}, rows, ColumnStart, LastRecovery,
                    <<>>, FECNextExpectedPacketNum, TRUE, {r.start})

(* Insert() updates LastRecoveryMetadata when the row came in order. *)
LastStart(r, outOfOrder) == IF outOfOrder THEN LastRecovery ELSE r.start

(* AddRecovery(): the row is stored, the window shrinks if it can. *)
StoredRecovery(r, outOfOrder) ==
    /\ UsefulRecovery(r)
    /\ r.end # r.start + 1
    /\ LET stored == rows \cup {r}
           last == LastStart(r, outOfOrder)
       IN  \E k \in Numbers :
             LET from == IF r.start - ColumnStart >= RemoveThreshold
                         THEN Removed(ColumnStart, k, NextExpected)
                         ELSE ColumnStart
             IN  /\ Kept(k, stored, last, NextExpected)
                 /\ Process({p \in held : p >= from}, stored, from, last,
                            <<>>, FECNextExpectedPacketNum, FALSE, {})

ReceiveRecovery(r) ==
    /\ ~EmergencyDisabled
    /\ recoveries' = recoveries \ {r}
    /\ LET outOfOrder == r.end < LatestColumn
       IN  /\ LatestColumn' = IF outOfOrder THEN LatestColumn ELSE r.end
           /\ \/ UnneededRecovery(r, outOfOrder)
              \/ SingleRecovery(r)
              \/ StoredRecovery(r, outOfOrder)
    /\ UNCHANGED <<senderVars, originals, acks, ackacks, LastAckAckSeq>>

PostAcknowledgements ==
    /\ ~EmergencyDisabled
    /\ LastAckAckSeq # FECNextExpectedPacketNum
    /\ Len(acks) < MaxAcks
    /\ acks' = Append(acks, NextExpected)
    /\ UNCHANGED <<senderVars, originals, recoveries, ackacks, decoderVars,
                   deliveryVars, LastAckAckSeq>>

ReceiveAckAck(n) ==
    /\ LastAckAckSeq' = n
    /\ ackacks' = ackacks \ {n}
    /\ UNCHANGED <<senderVars, originals, recoveries, acks, decoderVars,
                   deliveryVars>>

-----------------------------------------------------------------------------
(* The network loses datagrams of every kind. *)
LoseOriginal(p) ==
    /\ originals[p] > 0
    /\ originals' = [originals EXCEPT ![p] = @ - 1]
    /\ UNCHANGED <<senderVars, recoveries, acks, ackacks, decoderVars,
                   deliveryVars, LastAckAckSeq>>

LoseRecovery(r) ==
    /\ recoveries' = recoveries \ {r}
    /\ UNCHANGED <<senderVars, originals, acks, ackacks, decoderVars,
                   deliveryVars, LastAckAckSeq>>

LoseAck(i) ==
    /\ acks' = SubSeq(acks, 1, i - 1) \o SubSeq(acks, i + 1, Len(acks))
    /\ UNCHANGED <<senderVars, originals, recoveries, ackacks, decoderVars,
                   deliveryVars, LastAckAckSeq>>

LoseAckAck(n) ==
    /\ ackacks' = ackacks \ {n}
    /\ UNCHANGED <<senderVars, originals, recoveries, acks, decoderVars,
                   deliveryVars, LastAckAckSeq>>

Next ==
    \/ SendReliable
    \/ \E p \in Packets :
          PostRetransmit(p) \/ ReceiveOriginal(p) \/ LoseOriginal(p)
    \/ \E row \in Rows : PostRecovery(row)
    \/ \E r \in recoveries : ReceiveRecovery(r) \/ LoseRecovery(r)
    \/ PostAcknowledgements
    \/ \E i \in 1 .. Len(acks) : OnAcknowledgements(i) \/ LoseAck(i)
    \/ \E n \in ackacks : ReceiveAckAck(n) \/ LoseAckAck(n)

Spec == Init /\ [][Next]_vars

(***************************************************************************)
(* What the scheduling and the network guarantee.  The 5 ms tick of the    *)
(* connection runs PostRetransmit(), whose timeout always comes to expire  *)
(* for the first packet the peer misses, and PostAcknowledgements().  A    *)
(* datagram that is sent again and again is received some time.            *)
(***************************************************************************)
RetransmitFirst == \E p \in Packets :
    p = PeerNextExpectedSeqNum /\ PostRetransmit(p)
AckArrives == \E i \in 1 .. Len(acks) : OnAcknowledgements(i)
AckAckArrives == \E n \in ackacks : ReceiveAckAck(n)

FairSpec ==
    /\ Spec
    /\ WF_vars(RetransmitFirst)
    /\ WF_vars(PostAcknowledgements)
    /\ \A p \in Packets : SF_vars(ReceiveOriginal(p))
    /\ SF_vars(AckArrives)
    /\ SF_vars(AckAckArrives)

-----------------------------------------------------------------------------
SenderTypeOK ==
    /\ NextSequenceNumber \in Numbers
    /\ EncoderStart \in Numbers /\ FirstUnremoved \in Numbers
    /\ Count \in Nat
    /\ PeerNextExpectedSeqNum \in Numbers

NetworkTypeOK ==
    /\ originals \in [Packets -> Nat]
    /\ recoveries \subseteq Ranges
    /\ acks \in Seq(Numbers) /\ ackacks \subseteq Numbers

DecoderTypeOK ==
    /\ held \subseteq Packets
    /\ ColumnStart \in Numbers /\ NextExpected \in Numbers
    /\ rows \subseteq Ranges
    /\ LatestColumn \in Numbers /\ LastRecovery \in Numbers
    /\ EmergencyDisabled \in BOOLEAN

DeliveryTypeOK ==
    /\ FECNextExpectedPacketNum \in Numbers
    /\ LastAckAckSeq \in Numbers \cup {NeverAcked}
    /\ ordered \in Seq(Packets)
    /\ unordered \in [Packets -> 0 .. 2]

(* Every variable stays in its range; packet numbers never run ahead of     *)
(* what SendReliable assigned.                                              *)
TypeOK == SenderTypeOK /\ NetworkTypeOK /\ DecoderTypeOK /\ DeliveryTypeOK

(* Reliable messages reach the application in the order they were sent,     *)
(* each exactly once, however datagrams are lost, reordered, retransmitted  *)
(* or recovered (ProcessDatagram, attemptDecode, resumeProcessing).         *)
InOrderExactlyOnce ==
    /\ ordered = Run(0, FECNextExpectedPacketNum)
    /\ FECNextExpectedPacketNum <= NextSequenceNumber

Stream == INSTANCE ReliableStream WITH
    Messages <- Packets,
    sent <- Run(0, NextSequenceNumber),
    delivered <- ordered

(* The whole exchange implements the stream tonk.h promises: every step of  *)
(* it sends one message, delivers the next ones, or does neither.           *)
ImplementsStream == Stream!StreamSpec

(* SessionIncoming's FECNextExpectedPacketNum and the decoder's             *)
(* NextExpectedElement are two copies of one number, advanced by different  *)
(* code; they agree whenever no datagram is being processed, and nothing    *)
(* the session has not read was removed from the decoder window.            *)
CopiesAgree ==
    /\ FECNextExpectedPacketNum = NextExpected
    /\ ColumnStart <= FECNextExpectedPacketNum

(* No packet the application still misses is removed from the encoder       *)
(* window: RemoveBefore() and Encode() leave every one retransmittable.     *)
UndeliveredRetransmittable ==
    \A p \in Packets :
        FECNextExpectedPacketNum <= p /\ p < NextSequenceNumber
            => Retransmittable(p)

(* PostAcknowledgements() falls silent after an AckAck only while the       *)
(* sender knows everything the receiver has.                                *)
SilentOnlyWhenKnown ==
    LastAckAckSeq = FECNextExpectedPacketNum
        => PeerNextExpectedSeqNum = FECNextExpectedPacketNum

(* RemoveElements() never meets a LastRecoveryMetadata whose region it has  *)
(* removed ("Should never happen"), so the decoder is never disabled.       *)
NeverDisabled == ~EmergencyDisabled

(* An Unordered message is delivered no later than its packet is held or    *)
(* passed, and a second time only if its packet has left the window.        *)
UnorderedOnceInWindow ==
    \A p \in Packets :
        /\ p \in held \/ p < FECNextExpectedPacketNum => unordered[p] >= 1
        /\ unordered[p] > 1 => p < ColumnStart

(* An Unordered message is delivered once: "(3) Out of sequence original    *)
(* (but seen already) -> Not delivered" (TonkineseIncoming.cpp:656).        *)
UnorderedNeverTwice == \A p \in Packets : unordered[p] <= 1

(* Every packet sent is delivered some time. *)
EverythingDelivered ==
    \A p \in Packets :
        NextSequenceNumber > p ~> FECNextExpectedPacketNum > p

(* A full encoder window always gets room again, so Flush() is not blocked  *)
(* for ever on siamese_encoder_is_ready().                                  *)
EncoderDrains == Count >= WindowLimit ~> Count < WindowLimit

(* Once the application stops sending, acknowledgements cease: the AckAck   *)
(* gets through and older AckAcks do not undo it for ever.                  *)
AcksCease == <>[](LastAckAckSeq = FECNextExpectedPacketNum)
=============================================================================
