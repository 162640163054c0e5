----------------------- MODULE ReliableDeliveryProofs -----------------------
(***************************************************************************)
(* The inductive invariant of ReliableDelivery, for any number of packets, *)
(* copies, acknowledgements and recovery rows and any window geometry, the *)
(* proofs that the steps of the sender, of the network and of the receiver *)
(* preserve it, and what follows: the safety properties and that           *)
(* ReliableDelivery implements ReliableStream.                             *)
(*                                                                         *)
(* None of the safety properties is inductive.  The invariant below ties   *)
(* the three places that know how far the peer is: what is acknowledged is *)
(* behind what is delivered, which is behind what was sent, and every      *)
(* recovery packet starts behind what is acknowledged.  That last fact is  *)
(* what keeps RemoveElements() from removing a packet not yet read.        *)
(***************************************************************************)
EXTENDS ReliableDelivery, TLAPS

(* The encoder window ends at the next packet and starts, not counting what *)
(* waits to be removed, at the first packet not acknowledged.               *)
EncoderExact ==
    /\ PeerNextExpectedSeqNum <= FECNextExpectedPacketNum
    /\ FECNextExpectedPacketNum <= NextSequenceNumber
    /\ EncoderStart <= NextSequenceNumber
    /\ Count = 0 => PeerNextExpectedSeqNum = NextSequenceNumber
    /\ Count > 0 => /\ EncoderStart <= FirstUnremoved
                    /\ FirstUnremoved = PeerNextExpectedSeqNum
                    /\ PeerNextExpectedSeqNum < NextSequenceNumber
                    /\ EncoderStart + Count = NextSequenceNumber

(* A recovery packet covers packets that were sent, from one the peer had   *)
(* acknowledged up to.                                                      *)
SentRange(r) ==
    r.start < r.end /\ r.end <= NextSequenceNumber
                    /\ r.start <= PeerNextExpectedSeqNum

(* What is in flight was sent, and tells nothing that is not so. *)
InFlight ==
    /\ \A p \in Packets : originals[p] > 0 => p < NextSequenceNumber
    /\ \A r \in recoveries : SentRange(r)
    /\ \A i \in 1 .. Len(acks) : acks[i] <= FECNextExpectedPacketNum
    /\ \A n \in ackacks : n <= PeerNextExpectedSeqNum
    /\ LastAckAckSeq <= PeerNextExpectedSeqNum

(* The decoder holds all of its window up to what it expects next. *)
WindowExact ==
    /\ NextExpected = FECNextExpectedPacketNum
    /\ ColumnStart <= FECNextExpectedPacketNum
    /\ FECNextExpectedPacketNum \notin held
    /\ \A m \in ColumnStart .. FECNextExpectedPacketNum - 1 : m \in held
    /\ \A p \in held : ColumnStart <= p /\ p < NextSequenceNumber

(* What was delivered: of the ordered messages those before the next        *)
(* expected packet, of the Unordered ones those in the window once.         *)
HistoryExact ==
    /\ ordered = Run(0, FECNextExpectedPacketNum)
    /\ \A p \in Packets :
          /\ p < ColumnStart => unordered[p] >= 1
          /\ p >= ColumnStart /\ p \in held => unordered[p] = 1
          /\ p >= ColumnStart /\ p \notin held => unordered[p] = 0

(* The stored rows are useful, and the region of the last row received in   *)
(* order is still in the window while it may be needed.                     *)
RowsExact ==
    /\ \A r \in rows : SentRange(r) /\ r.end > NextExpected
                                    /\ r.end <= LatestColumn
    /\ LatestColumn <= NextSequenceNumber
    /\ LastRecovery <= PeerNextExpectedSeqNum
    /\ rows # {} => /\ LastRecovery >= ColumnStart
                    /\ \E q \in rows : /\ q.start <= LastRecovery
                                       /\ \A r \in rows : r.end <= q.end
    /\ LatestColumn > NextExpected =>
          \/ /\ LastRecovery >= ColumnStart
             /\ \A r \in recoveries :
                   r.end < LatestColumn => r.start <= LastRecovery
          \/ \A r \in recoveries :
                r.end < LatestColumn => r.start < ColumnStart
    /\ \A r1, r2 \in recoveries : r1.end < r2.end => r1.start <= r2.start
    /\ ~EmergencyDisabled

IInv ==
    /\ TypeOK
    /\ EncoderExact
    /\ InFlight
    /\ WindowExact
    /\ HistoryExact
    /\ RowsExact

-----------------------------------------------------------------------------
(* Arithmetic of the windows, which shrink by whole subwindows and start at *)
(* a multiple of the lane count.                                            *)
LEMMA ModBounds ==
    ASSUME NEW a \in Nat, NEW b \in Nat \ {0}
    PROVE  a % b \in 0 .. a
  BY SMT

(* What is removed is no more than what may be. *)
LEMMA WholeMultiple ==
    ASSUME NEW a \in Nat, NEW b \in Nat \ {0}
    PROVE  (a \div b) * b \in 0 .. a
  BY SMT

(* Runs of consecutive packets are put together as their ranges are. *)
LEMMA RunConcat ==
    ASSUME NEW a \in Nat, NEW b \in Nat, NEW c \in Nat, a <= b, b <= c
    PROVE  Run(a, b) \o Run(b, c) = Run(a, c)
  BY DEF Run

(* One packet is a run of one. *)
LEMMA RunOne ==
    ASSUME NEW p \in Nat
    PROVE  <<p>> = Run(p, p + 1)
  BY DEF Run

(* An empty run. *)
LEMMA RunNone ==
    ASSUME NEW p \in Nat
    PROVE  <<>> = Run(p, p)
  BY DEF Run

(* The length of a concatenation. *)
LEMMA ConcatLength ==
    ASSUME NEW S, NEW s \in Seq(S), NEW t \in Seq(S)
    PROVE  Len(s \o t) = Len(s) + Len(t)
  OBVIOUS

(* Runs of packet numbers. *)
LEMMA RunPackets ==
    ASSUME NEW b \in Numbers
    PROVE  Run(0, b) \in Seq(Packets)
  BY BoundsAssumption DEF Run, Packets, Numbers

-----------------------------------------------------------------------------
(* The sender's steps *)

(* Before anything is sent. *)
LEMMA InitIInv == Init => IInv
<1> SUFFICES ASSUME Init PROVE IInv
  OBVIOUS
<1> USE BoundsAssumption DEF Init, Packets, Numbers
<1>1. TypeOK
  <2>0. EmergencyDisabled \in BOOLEAN
    BY Zenon
  <2>1. SenderTypeOK /\ DecoderTypeOK
    BY <2>0 DEF SenderTypeOK, DecoderTypeOK
  <2>2. NetworkTypeOK
    BY DEF NetworkTypeOK
  <2>3. DeliveryTypeOK
    BY DEF DeliveryTypeOK
  <2> QED
    BY <2>1, <2>2, <2>3, Zenon DEF TypeOK
<1>2. EncoderExact /\ InFlight /\ WindowExact /\ RowsExact
  BY DEF EncoderExact, InFlight, WindowExact, RowsExact, NeverAcked
<1>3. HistoryExact
  BY RunNone DEF HistoryExact
<1> QED
  BY <1>1, <1>2, <1>3, Zenon DEF IInv

(* The new packet extends the window, or starts one at its own lane. *)
LEMMA SendReliableIInv == IInv /\ SendReliable => IInv'
<1> SUFFICES ASSUME IInv, SendReliable PROVE IInv'
  OBVIOUS
<1> USE BoundsAssumption, WindowAssumption
<1> DEFINE column == NextSequenceNumber
           element == column % LaneCount
<1>t. SenderTypeOK /\ NetworkTypeOK /\ DecoderTypeOK /\ DeliveryTypeOK
  BY DEF IInv, TypeOK
<1>0. UNCHANGED <<PeerNextExpectedSeqNum, recoveries, acks, ackacks,
                  decoderVars, deliveryVars, LastAckAckSeq>>
  BY Zenon DEF SendReliable
<1>1. /\ column \in Nat /\ column < MaxPackets
      /\ NextSequenceNumber' = column + 1
      /\ originals' = [originals EXCEPT ![column] = @ + 1]
      /\ column \in Packets
  BY DEF SendReliable, Packets
<1>2. element \in 0 .. column
  BY <1>1, ModBounds, Zenon
<1>3. \/ Count > 0 /\ Count' = Count + 1 /\ EncoderStart' = EncoderStart
         /\ FirstUnremoved' = FirstUnremoved
      \/ Count = 0 /\ EncoderStart' = column - element
         /\ FirstUnremoved' = column /\ Count' = element + 1
  BY <1>t DEF SendReliable, SenderTypeOK
<1> HIDE DEF element
<1>4. TypeOK'
  <2>1. SenderTypeOK'
    BY <1>t, <1>0, <1>1, <1>2, <1>3 DEF SenderTypeOK, Numbers
  <2>2. NetworkTypeOK'
    BY <1>t, <1>0, <1>1 DEF NetworkTypeOK
  <2>3. DecoderTypeOK' /\ DeliveryTypeOK'
    BY <1>t, <1>0, Zenon DEF DecoderTypeOK, DeliveryTypeOK, decoderVars, deliveryVars
  <2> QED
    BY <2>1, <2>2, <2>3, Zenon DEF TypeOK
<1>5. EncoderExact'
  <2>1. /\ PeerNextExpectedSeqNum' = PeerNextExpectedSeqNum
        /\ FECNextExpectedPacketNum' = FECNextExpectedPacketNum
    BY <1>0, Zenon DEF deliveryVars
  <2>2. /\ PeerNextExpectedSeqNum \in Int /\ FECNextExpectedPacketNum \in Int
        /\ EncoderStart \in Int /\ FirstUnremoved \in Int /\ Count \in Nat
    BY <1>t DEF SenderTypeOK, DeliveryTypeOK, Numbers
  <2>3. EncoderExact
    BY DEF IInv
  <2>4. CASE Count > 0
    BY <1>1, <1>3, <2>1, <2>2, <2>3, <2>4 DEF EncoderExact
  <2>5. CASE Count = 0
    BY <1>1, <1>2, <1>3, <2>1, <2>2, <2>3, <2>5 DEF EncoderExact
  <2> QED
    BY <2>2, <2>4, <2>5
<1>6. InFlight'
  BY <1>t, <1>0, <1>1
     DEF NetworkTypeOK, IInv, InFlight, SentRange, Ranges, deliveryVars, Packets, Numbers
<1>7. WindowExact' /\ HistoryExact'
  BY <1>t, <1>0, <1>1 DEF DecoderTypeOK, IInv, WindowExact, HistoryExact,
     decoderVars, deliveryVars, Packets, Numbers
<1>8. RowsExact'
  BY <1>t, <1>0, <1>1 DEF DecoderTypeOK, IInv, RowsExact, SentRange, Ranges,
     decoderVars, Numbers
<1> QED
  BY <1>4, <1>5, <1>6, <1>7, <1>8, Zenon DEF IInv

(* A packet that may be retransmitted was sent. *)
LEMMA PostRetransmitIInv ==
    ASSUME IInv, NEW p \in Packets, PostRetransmit(p)
    PROVE  IInv'
<1>0. UNCHANGED <<senderVars, recoveries, acks, ackacks, decoderVars,
                  deliveryVars, LastAckAckSeq>>
  BY DEF PostRetransmit
<1>1. originals' = [originals EXCEPT ![p] = @ + 1]
  BY DEF PostRetransmit
<1>2. p < NextSequenceNumber
  BY DEF PostRetransmit, Retransmittable, IInv, TypeOK, SenderTypeOK,
         EncoderExact, Packets, Numbers
<1>3. TypeOK'
  <2>1. NetworkTypeOK'
    BY <1>0, <1>1 DEF IInv, TypeOK, NetworkTypeOK
  <2>2. SenderTypeOK' /\ DecoderTypeOK' /\ DeliveryTypeOK'
    BY <1>0, Zenon DEF IInv, TypeOK, SenderTypeOK, DecoderTypeOK, DeliveryTypeOK,
                senderVars, decoderVars, deliveryVars
  <2> QED
    BY <2>1, <2>2, Zenon DEF TypeOK
<1>4. InFlight'
  BY <1>0, <1>1, <1>2, Zenon DEF IInv, TypeOK, NetworkTypeOK, InFlight, SentRange,
     senderVars, deliveryVars
<1>5. EncoderExact' /\ WindowExact' /\ HistoryExact' /\ RowsExact'
  BY <1>0, Zenon DEF IInv, EncoderExact, WindowExact, HistoryExact, RowsExact,
              SentRange, senderVars, decoderVars, deliveryVars
<1> QED
  BY <1>3, <1>4, <1>5, Zenon DEF IInv

(* A recovery packet starts at what is acknowledged; removing whole         *)
(* subwindows leaves the rest of the window.                                *)
LEMMA PostRecoveryIInv ==
    ASSUME IInv, NEW row \in Rows, PostRecovery(row)
    PROVE  IInv'
<1> USE BoundsAssumption, WindowAssumption DEF Packets, Numbers
<1> DEFINE acked == FirstUnremoved - EncoderStart
           removed == EncoderRemoves(acked)
           range == [start |-> FirstUnremoved, end |-> NextSequenceNumber,
                     row |-> row]
<1>0. UNCHANGED <<NextSequenceNumber, FirstUnremoved, PeerNextExpectedSeqNum,
                  originals, acks, ackacks, decoderVars, deliveryVars,
                  LastAckAckSeq>>
  BY Zenon DEF PostRecovery
<1>1. Count > 0 /\ EncoderStart' = EncoderStart + removed
      /\ Count' = Count - removed /\ recoveries' = recoveries \cup {range}
  BY Zenon DEF PostRecovery
<1>2. acked \in Nat
  BY <1>1 DEF IInv, TypeOK, SenderTypeOK, EncoderExact
<1>3. removed \in 0 .. acked
  BY <1>2, WholeMultiple DEF EncoderRemoves
<1>4. SentRange(range) /\ range \in Ranges
  BY <1>1 DEF IInv, TypeOK, SenderTypeOK, EncoderExact, SentRange, Ranges
<1> HIDE DEF removed
<1>5. TypeOK'
  BY <1>0, <1>1, <1>3, <1>4 DEF IInv, TypeOK, SenderTypeOK, NetworkTypeOK,
     DecoderTypeOK, DeliveryTypeOK, EncoderExact, decoderVars, deliveryVars
<1>6. EncoderExact'
  BY <1>0, <1>1, <1>3 DEF IInv, TypeOK, SenderTypeOK, EncoderExact, deliveryVars
<1>7. InFlight'
  BY <1>0, <1>1, <1>4, Zenon DEF IInv, InFlight, SentRange, deliveryVars
<1>8. WindowExact' /\ HistoryExact'
  BY <1>0, Zenon DEF IInv, WindowExact, HistoryExact, decoderVars, deliveryVars
<1>9. RowsExact'
  <2>1. \A r \in recoveries : /\ r.end <= NextSequenceNumber
                              /\ r.start <= PeerNextExpectedSeqNum
                              /\ r.end \in Int /\ r.start \in Int
    BY DEF IInv, TypeOK, NetworkTypeOK, Ranges, InFlight, SentRange
  <2>2. /\ range.end = NextSequenceNumber
        /\ range.start = PeerNextExpectedSeqNum
        /\ LatestColumn <= NextSequenceNumber
    BY <1>1, Zenon DEF IInv, TypeOK, SenderTypeOK, EncoderExact, RowsExact
  <2>3. NextSequenceNumber \in Int /\ PeerNextExpectedSeqNum \in Int
        /\ LatestColumn \in Int
    BY DEF IInv, TypeOK, SenderTypeOK, DecoderTypeOK
  <2> HIDE DEF range
  <2> QED
    BY <1>0, <1>1, <2>1, <2>2, <2>3 DEF IInv, RowsExact, SentRange, decoderVars
<1> QED
  BY <1>5, <1>6, <1>7, <1>8, <1>9, Zenon DEF IInv

(* An acknowledgement names a packet that was delivered up to, so it        *)
(* removes nothing the receiver still misses.                               *)
LEMMA OnAcknowledgementsIInv ==
    ASSUME IInv, NEW i \in 1 .. Len(acks), OnAcknowledgements(i)
    PROVE  IInv'
<1> DEFINE next == acks[i]
<1>t. SenderTypeOK /\ NetworkTypeOK /\ DecoderTypeOK /\ DeliveryTypeOK
  BY DEF IInv, TypeOK
<1>0. UNCHANGED <<NextSequenceNumber, EncoderStart, originals, recoveries,
                  decoderVars, deliveryVars, LastAckAckSeq>>
  BY Zenon DEF OnAcknowledgements
<1>1. next \in Numbers /\ next <= FECNextExpectedPacketNum
  BY <1>t DEF NetworkTypeOK, IInv, InFlight
<1>2. /\ acks' = SubSeq(acks, i + 1, Len(acks))
      /\ ackacks' = ackacks \cup AckAck(PeerNextExpectedSeqNum')
      /\ Acknowledge(next)
  BY Zenon DEF OnAcknowledgements
<1> HIDE DEF next
<1>3. /\ SenderTypeOK' /\ EncoderExact'
      /\ PeerNextExpectedSeqNum <= PeerNextExpectedSeqNum'
  <2>1. /\ PeerNextExpectedSeqNum \in Int /\ FECNextExpectedPacketNum \in Int
        /\ EncoderStart \in Int /\ FirstUnremoved \in Int /\ Count \in Nat
        /\ NextSequenceNumber \in Int /\ next \in Int /\ EncoderExact
    BY <1>t, <1>1 DEF SenderTypeOK, DeliveryTypeOK, Numbers, IInv
  <2>2. /\ FECNextExpectedPacketNum' = FECNextExpectedPacketNum
        /\ EncoderStart' = EncoderStart
        /\ NextSequenceNumber' = NextSequenceNumber
    BY <1>0, Zenon DEF deliveryVars
  <2>3. CASE next < PeerNextExpectedSeqNum
    <3>1. UNCHANGED <<PeerNextExpectedSeqNum, FirstUnremoved, Count>>
      BY <2>1, <2>3, <1>2, Zenon DEF Acknowledge
    <3> QED
      BY <3>1, <2>1, <2>2, <1>t DEF SenderTypeOK, EncoderExact
  <2>4. CASE next >= PeerNextExpectedSeqNum /\ Count = 0
    <3>1. next = PeerNextExpectedSeqNum /\ EncoderStart <= next
      BY <2>1, <2>4, <1>1 DEF EncoderExact
    <3>2. UNCHANGED <<PeerNextExpectedSeqNum, FirstUnremoved>> /\ Count' = 0
      BY <2>1, <2>4, <3>1, <1>2 DEF Acknowledge
    <3> QED
      BY <3>2, <2>1, <2>2, <2>4, <1>t DEF SenderTypeOK, EncoderExact
  <2>5. CASE next >= PeerNextExpectedSeqNum /\ Count > 0
    <3>1. /\ PeerNextExpectedSeqNum' = next
          /\ IF next >= EncoderStart + Count
             THEN Count' = 0 /\ UNCHANGED FirstUnremoved
             ELSE FirstUnremoved' = next /\ Count' = Count
      BY <2>1, <2>5, <1>1, <1>2 DEF Acknowledge, EncoderExact
    <3>2. SenderTypeOK'
      BY <3>1, <2>1, <2>2, <1>1, <1>t DEF SenderTypeOK
    <3>3. EncoderExact'
      BY <3>1, <2>1, <2>2, <2>5, <1>1 DEF EncoderExact
    <3> QED
      BY <3>1, <3>2, <3>3, <2>5, Zenon
  <2> QED
    BY <2>1, <2>3, <2>4, <2>5
<1>4. acks' \in Seq(Numbers) /\ \A j \in 1 .. Len(acks') :
                                   acks'[j] <= FECNextExpectedPacketNum
  BY <1>t, <1>2 DEF NetworkTypeOK, IInv, InFlight
<1>5. /\ ackacks' \subseteq Numbers
      /\ \A n \in ackacks' : n <= PeerNextExpectedSeqNum'
  <2>1. PeerNextExpectedSeqNum' \in Numbers /\ ackacks \subseteq Numbers
    BY <1>t, <1>3, Zenon DEF NetworkTypeOK, SenderTypeOK
  <2>2. ackacks' \subseteq ackacks \cup {PeerNextExpectedSeqNum'}
    BY <1>2, Zenon DEF AckAck
  <2>3. \A n \in ackacks : n <= PeerNextExpectedSeqNum
    BY Zenon DEF IInv, InFlight
  <2>4. PeerNextExpectedSeqNum \in Numbers
    BY <1>t, Zenon DEF SenderTypeOK
  <2> QED
    BY <2>1, <2>2, <2>3, <2>4, <1>3 DEF Numbers
<1>6. TypeOK'
  BY <1>t, <1>0, <1>3, <1>4, <1>5, Zenon DEF TypeOK, NetworkTypeOK, DecoderTypeOK,
     DeliveryTypeOK, decoderVars, deliveryVars
<1>7. InFlight'
  <2>1. /\ PeerNextExpectedSeqNum \in Int /\ PeerNextExpectedSeqNum' \in Int
        /\ LastAckAckSeq \in Int
    BY <1>t, <1>3 DEF SenderTypeOK, DeliveryTypeOK, NeverAcked, Numbers
  <2>2. \A r \in recoveries' : SentRange(r)'
    BY <1>t, <1>0, <1>3, <2>1 DEF IInv, InFlight, SentRange, NetworkTypeOK,
       Ranges, Numbers
  <2>3. LastAckAckSeq' <= PeerNextExpectedSeqNum'
    BY <1>0, <1>3, <2>1 DEF IInv, InFlight
  <2> QED
    BY <1>0, <1>4, <1>5, <2>2, <2>3, Zenon DEF IInv, InFlight, deliveryVars
<1>8. WindowExact' /\ HistoryExact'
  BY <1>0, Zenon DEF IInv, WindowExact, HistoryExact, decoderVars, deliveryVars
<1>9. RowsExact'
  BY <1>t, <1>0, <1>3, SMTT(30) DEF IInv, RowsExact, SentRange, Ranges, SenderTypeOK,
     DecoderTypeOK, Numbers, decoderVars
<1> QED
  BY <1>3, <1>6, <1>7, <1>8, <1>9, Zenon DEF IInv

(* Steps that only add to or take from what is in flight. *)
LEMMA FlightIInv ==
    ASSUME IInv, UNCHANGED <<senderVars, decoderVars, deliveryVars>>,
           NetworkTypeOK', InFlight', recoveries' \subseteq recoveries,
           LastAckAckSeq' \in Numbers \cup {NeverAcked}
    PROVE  IInv'
<1>1. TypeOK'
  BY Zenon DEF IInv, TypeOK, SenderTypeOK, DecoderTypeOK, DeliveryTypeOK, senderVars,
         decoderVars, deliveryVars
<1>2. EncoderExact' /\ WindowExact' /\ HistoryExact'
  BY Zenon DEF IInv, EncoderExact, WindowExact, HistoryExact, senderVars, decoderVars,
         deliveryVars
<1>3. RowsExact'
  BY Zenon DEF IInv, RowsExact, SentRange, senderVars, decoderVars
<1> QED
  BY <1>1, <1>2, <1>3, Zenon DEF IInv

(* The acknowledgement carries the decoder's next expected packet. *)
LEMMA PostAcknowledgementsIInv == IInv /\ PostAcknowledgements => IInv'
<1> SUFFICES ASSUME IInv, PostAcknowledgements PROVE IInv'
  OBVIOUS
<1>0. UNCHANGED <<senderVars, originals, recoveries, ackacks, decoderVars,
                  deliveryVars, LastAckAckSeq>>
      /\ acks' = Append(acks, NextExpected)
  BY DEF PostAcknowledgements
<1>t. SenderTypeOK /\ NetworkTypeOK /\ DecoderTypeOK /\ DeliveryTypeOK
  BY DEF IInv, TypeOK
<1>1. NetworkTypeOK'
  BY <1>0, <1>t DEF NetworkTypeOK, DecoderTypeOK
<1>2. InFlight'
  BY <1>0, <1>t, SMTT(30) DEF IInv, InFlight, SentRange, WindowExact, NetworkTypeOK,
     DecoderTypeOK, DeliveryTypeOK, senderVars, deliveryVars, Numbers
<1> QED
  BY <1>0, <1>1, <1>2, <1>t, FlightIInv, Zenon DEF DeliveryTypeOK

(* An AckAck names a packet the sender knows was received. *)
LEMMA AckAckIInv ==
    ASSUME IInv, NEW n \in ackacks, ReceiveAckAck(n) \/ LoseAckAck(n)
    PROVE  IInv'
<1>t. SenderTypeOK /\ NetworkTypeOK /\ DecoderTypeOK /\ DeliveryTypeOK
  BY DEF IInv, TypeOK
<1>0. /\ UNCHANGED <<senderVars, originals, recoveries, acks, decoderVars,
                     deliveryVars>>
      /\ ackacks' = ackacks \ {n}
      /\ LastAckAckSeq' \in {LastAckAckSeq, n}
  BY Zenon DEF ReceiveAckAck, LoseAckAck
<1>1. NetworkTypeOK'
  BY <1>0, <1>t, Zenon DEF NetworkTypeOK
<1>2. InFlight'
  BY <1>0, <1>t, Zenon DEF IInv, InFlight, SentRange, senderVars, deliveryVars
<1>3. LastAckAckSeq' \in Numbers \cup {NeverAcked}
  BY <1>0, <1>t, Zenon DEF NetworkTypeOK, DeliveryTypeOK
<1> QED
  BY <1>0, <1>1, <1>2, <1>3, FlightIInv, Zenon

(* Losing a datagram. *)
LEMMA LoseIInv ==
    ASSUME IInv,
           \/ \E p \in Packets : LoseOriginal(p)
           \/ \E r \in recoveries : LoseRecovery(r)
           \/ \E i \in 1 .. Len(acks) : LoseAck(i)
    PROVE  IInv'
<1>t. SenderTypeOK /\ NetworkTypeOK /\ DecoderTypeOK /\ DeliveryTypeOK
  BY DEF IInv, TypeOK
<1>1. CASE \E p \in Packets : LoseOriginal(p)
  <2>0. PICK p \in Packets : LoseOriginal(p)
    BY <1>1, Zenon
  <2>1. UNCHANGED <<senderVars, recoveries, acks, ackacks, decoderVars,
                    deliveryVars, LastAckAckSeq>>
        /\ originals[p] > 0 /\ originals' = [originals EXCEPT ![p] = @ - 1]
    BY <2>0, Zenon DEF LoseOriginal
  <2>2. NetworkTypeOK'
    BY <2>1, <1>t DEF NetworkTypeOK
  <2>3. InFlight'
    BY <2>1, <1>t, Zenon DEF IInv, InFlight, SentRange, NetworkTypeOK, senderVars, deliveryVars
  <2> QED
    BY <2>1, <2>2, <2>3, <1>t, FlightIInv, Zenon DEF DeliveryTypeOK
<1>2. CASE \E r \in recoveries : LoseRecovery(r)
  <2>1. UNCHANGED <<senderVars, originals, acks, ackacks, decoderVars,
                    deliveryVars, LastAckAckSeq>>
        /\ recoveries' \subseteq recoveries
    BY <1>2, Zenon DEF LoseRecovery
  <2>2. NetworkTypeOK'
    BY <2>1, <1>t, Zenon DEF NetworkTypeOK
  <2>3. InFlight'
    BY <2>1, <1>t, Zenon DEF IInv, InFlight, SentRange, senderVars, deliveryVars
  <2> QED
    BY <2>1, <2>2, <2>3, <1>t, FlightIInv, Zenon DEF DeliveryTypeOK
<1>3. CASE \E i \in 1 .. Len(acks) : LoseAck(i)
  <2>0. PICK i \in 1 .. Len(acks) : LoseAck(i)
    BY <1>3, Zenon
  <2>1. UNCHANGED <<senderVars, originals, recoveries, ackacks, decoderVars,
                    deliveryVars, LastAckAckSeq>>
        /\ acks' = SubSeq(acks, 1, i - 1) \o SubSeq(acks, i + 1, Len(acks))
    BY <2>0, Zenon DEF LoseAck
  <2>a. acks \in Seq(Numbers) /\ Len(acks) \in Nat
    BY <1>t DEF NetworkTypeOK
  <2> DEFINE before == SubSeq(acks, 1, i - 1)
             after == SubSeq(acks, i + 1, Len(acks))
  <2>b. /\ before \in Seq(Numbers) /\ after \in Seq(Numbers)
        /\ Len(before) = i - 1 /\ Len(after) = Len(acks) - i
        /\ \A j \in 1 .. i - 1 : before[j] = acks[j]
        /\ \A j \in 1 .. Len(acks) - i : after[j] = acks[i + j]
    BY <2>a
  <2> HIDE DEF before, after
  <2>c. /\ acks' \in Seq(Numbers)
        /\ \A j \in 1 .. Len(acks') : \E m \in 1 .. Len(acks) : acks'[j] = acks[m]
    <3>1. acks' = before \o after
      BY <2>1, Zenon DEF before, after
    <3>2. Len(acks') = Len(acks) - 1 /\ acks' \in Seq(Numbers)
      <4>1. before \o after \in Seq(Numbers)
        BY <2>b
      <4>2. Len(before \o after) = Len(before) + Len(after)
        BY <2>b, ConcatLength, Zenon
      <4> QED
        BY <3>1, <4>1, <4>2, <2>b, <2>a
    <3>3. \A j \in 1 .. Len(acks) - 1 :
             acks'[j] = IF j <= i - 1 THEN acks[j] ELSE acks[j + 1]
      <4> SUFFICES ASSUME NEW j \in 1 .. Len(acks) - 1
                   PROVE  acks'[j] = IF j <= i - 1 THEN acks[j] ELSE acks[j + 1]
        BY Zenon
      <4>1. CASE j <= i - 1
        BY <4>1, <3>1, <2>b, <2>a
      <4>2. CASE j > i - 1
        <5>1. acks'[j] = after[j - (i - 1)]
          BY <4>2, <3>1, <2>b, <2>a
        <5>2. after[j - (i - 1)] = acks[i + (j - (i - 1))]
          BY <4>2, <2>b, <2>a
        <5> QED
          BY <4>2, <5>1, <5>2, <2>a
      <4> QED
        BY <4>1, <4>2, <2>a
    <3> QED
      BY <3>2, <3>3, <2>a
  <2>2. NetworkTypeOK'
    BY <2>1, <2>c, <1>t, Zenon DEF NetworkTypeOK
  <2>3. InFlight'
    BY <2>1, <2>c, <1>t, Zenon DEF IInv, InFlight, SentRange, senderVars, deliveryVars
  <2> QED
    BY <2>1, <2>2, <2>3, <1>t, FlightIInv, Zenon DEF DeliveryTypeOK
<1> QED
  BY <1>1, <1>2, <1>3, Zenon

-----------------------------------------------------------------------------
(* The receiver's steps: first what a datagram leaves behind whatever the   *)
(* decoder solves for, then each kind of datagram.                          *)

(* The first missing packet is the same from any start before it. *)
LEMMA FirstMissingUnique ==
    ASSUME NEW a \in Nat, NEW b \in Nat, NEW n \in Nat, NEW m \in Nat,
           NEW S, NEW T, a <= b,
           \A i \in a .. b - 1 : i \in S,
           \A i \in Nat : i >= b => (i \in S <=> i \in T),
           FirstMissing(n, a, S), FirstMissing(m, b, T)
    PROVE  n = m
<1> USE DEF FirstMissing
<1>1. n >= b
  OBVIOUS
<1>2. ~(n < m)
  BY <1>1
<1>3. ~(m < n)
  OBVIOUS
<1> QED
  BY <1>2, <1>3

(* RemoveElements() removes nothing from column k on. *)
LEMMA RemovedBounds ==
    ASSUME NEW from \in Nat, NEW k \in Nat, NEW next \in Nat
    PROVE  LET new == Removed(from, k, next)
           IN  new \in Nat /\ from <= new /\ (new = from \/ new <= k)
<1> USE WindowAssumption
<1>1. CASE next - from < RemoveThreshold \/ k - from < RemoveThreshold
  BY <1>1 DEF Removed
<1>2. CASE ~(next - from < RemoveThreshold \/ k - from < RemoveThreshold)
  <2>1. k - from \in Nat
    BY <1>2
  <2>2. ((k - from) \div SubwindowSize) * SubwindowSize \in 0 .. k - from
    BY <2>1, WholeMultiple, Zenon
  <2>3. Removed(from, k, next)
           = from + ((k - from) \div SubwindowSize) * SubwindowSize
    BY <1>2, Zenon DEF Removed
  <2> DEFINE x == ((k - from) \div SubwindowSize) * SubwindowSize
  <2> HIDE DEF x
  <2>4. x \in 0 .. k - from /\ Removed(from, k, next) = from + x
    BY <2>2, <2>3, Zenon DEF x
  <2> QED
    BY <2>1, <2>4
<1> QED
  BY <1>1, <1>2, Zenon

(* What a datagram brings to the decoder: `set` is what it then holds from  *)
(* column `from` on, `stored` its rows, and `first` what the session then   *)
(* expects.                                                                 *)
Input(set, stored, from, last, inSequence, first, resume, seen) ==
    /\ set \subseteq Packets
    /\ \A p \in set : from <= p /\ p < NextSequenceNumber
    /\ \A p \in held : p >= from => p \in set
    /\ seen = set \ held
    /\ from \in Numbers /\ ColumnStart <= from
    /\ from <= FECNextExpectedPacketNum
    /\ \A m \in from .. FECNextExpectedPacketNum - 1 : m \in set
    /\ stored \subseteq Ranges /\ \A r \in stored : SentRange(r)
    /\ last \in Numbers /\ last <= PeerNextExpectedSeqNum
    /\ stored # {} => /\ last >= from
                      /\ \E q \in stored : /\ q.start <= last
                                           /\ \A r \in stored : r.end <= q.end
    /\ first \in Numbers /\ FECNextExpectedPacketNum <= first
    /\ \A m \in FECNextExpectedPacketNum .. first - 1 : m \in set
    /\ inSequence = Run(FECNextExpectedPacketNum, first)
    /\ resume \in BOOLEAN
    /\ resume \/ (first = FECNextExpectedPacketNum /\ first \notin set)

(* What is recovered was lost and was sent. *)
LEMMA SolutionsLost ==
    ASSUME NEW set, NEW stored, NEW from \in Numbers, NextSequenceNumber \in Numbers,
           stored \subseteq Ranges, \A r \in stored : SentRange(r),
           NEW recovered \in Solutions(set, stored, from)
    PROVE  /\ recovered \subseteq Packets
           /\ \A p \in recovered : /\ from <= p /\ p < NextSequenceNumber
                                   /\ p \notin set
           /\ recovered # {} => stored # {}
<1>1. recovered = {} \/ \E r \in stored : recovered = Lost(set, from, r.end)
  BY Zenon DEF Solutions
<1>2. CASE recovered = {}
  BY <1>2, Zenon
<1>3. CASE \E r \in stored : recovered = Lost(set, from, r.end)
  <2>1. PICK r \in stored : recovered = (from .. r.end - 1) \ set
    BY <1>3, Zenon DEF Lost
  <2>2. r.end \in Numbers /\ r.end <= NextSequenceNumber
    BY Zenon DEF Ranges, SentRange
  <2> QED
    BY <2>1, <2>2, BoundsAssumption DEF Numbers, Packets
<1> QED
  BY <1>1, <1>2, <1>3, Zenon

(* What attemptDecode() and resumeProcessing() leave behind. *)
Outcome(set, stored, from, last) ==
    /\ NextExpected' = FECNextExpectedPacketNum'
    /\ FECNextExpectedPacketNum' \in Numbers
    /\ FECNextExpectedPacketNum <= FECNextExpectedPacketNum'
    /\ FECNextExpectedPacketNum' <= NextSequenceNumber
    /\ held' \subseteq Packets
    /\ ColumnStart' \in Numbers /\ from <= ColumnStart'
    /\ ColumnStart' <= FECNextExpectedPacketNum
    /\ IF stored = {} THEN ColumnStart' = from ELSE ColumnStart' <= last
    /\ rows' = {r \in stored : r.end > NextExpected'}
    /\ LastRecovery' = last
    /\ EmergencyDisabled' = FALSE
    /\ FECNextExpectedPacketNum' \notin held'
    /\ \A m \in ColumnStart' .. FECNextExpectedPacketNum' - 1 : m \in held'
    /\ \A p \in held' : ColumnStart' <= p /\ p < NextSequenceNumber
    /\ \A p \in set : ColumnStart' <= p => p \in held'
    /\ ordered' = Run(0, FECNextExpectedPacketNum')
    /\ unordered' \in [Packets -> 0 .. 2]
    /\ \A p \in Packets :
          /\ p < ColumnStart' => unordered'[p] >= 1
          /\ p >= ColumnStart' /\ p \in held' => unordered'[p] = 1
          /\ p >= ColumnStart' /\ p \notin held' => unordered'[p] = 0

(* Whatever the rows solve for, the window keeps all that is not read, the  *)
(* two copies of the next expected number agree, and what is delivered      *)
(* continues what was.                                                      *)
LEMMA ProcessOutcome ==
    ASSUME IInv,
           NEW set, NEW stored, NEW from, NEW last, NEW inSequence, NEW first,
           NEW resume, NEW seen,
           Input(set, stored, from, last, inSequence, first, resume, seen),
           Process(set, stored, from, last, inSequence, first, resume, seen)
    PROVE  Outcome(set, stored, from, last)
<1>1. PICK recovered \in Solutions(set, stored, from), next \in Numbers,
           k \in Numbers, remove \in BOOLEAN :
        /\ remove => recovered # {}
        /\ FirstMissing(next, NextExpected, set \cup recovered)
        /\ Kept(k, {r \in stored : r.end > next}, last, next)
        /\ NextExpected' = next
        /\ rows' = {r \in stored : r.end > next}
        /\ LastRecovery' = last
        /\ ColumnStart' = IF remove THEN Removed(from, k, next) ELSE from
        /\ EmergencyDisabled' =
              (remove /\ Clipped(from, {r \in stored : r.end > next}, last, next))
        /\ held' = {p \in set \cup recovered : p >= ColumnStart'}
        /\ FECNextExpectedPacketNum' \in Numbers
        /\ IF resume \/ recovered # {}
           THEN FirstMissing(FECNextExpectedPacketNum', first, held')
           ELSE FECNextExpectedPacketNum' = first
        /\ ordered' = ordered \o inSequence
                         \o Run(first, FECNextExpectedPacketNum')
        /\ unordered' = Delivered(seen \cup recovered)
  BY Zenon DEF Process
<1> DEFINE got == set \cup recovered
           left == {r \in stored : r.end > next}
           fec == FECNextExpectedPacketNum
           new == FECNextExpectedPacketNum'
<1>t. /\ fec \in Nat /\ new \in Nat /\ next \in Nat /\ first \in Nat
      /\ from \in Nat /\ last \in Nat /\ k \in Nat /\ NextExpected = fec
      /\ PeerNextExpectedSeqNum \in Nat /\ NextSequenceNumber \in Nat
      /\ PeerNextExpectedSeqNum <= fec
      /\ fec <= NextSequenceNumber /\ NextSequenceNumber \in Numbers
      /\ last <= PeerNextExpectedSeqNum
      /\ from <= fec /\ fec <= first /\ ColumnStart <= from /\ ColumnStart \in Nat
      /\ ColumnStart \in Numbers /\ from \in Numbers
  BY <1>1, SMTT(30) DEF Input, IInv, TypeOK, SenderTypeOK, DecoderTypeOK, DeliveryTypeOK,
              EncoderExact, WindowExact, Numbers
<1>2. /\ recovered \subseteq Packets
      /\ \A p \in recovered : /\ from <= p /\ p < NextSequenceNumber
                              /\ p \notin set
      /\ recovered # {} => stored # {}
  BY <1>t, SolutionsLost, Zenon DEF Input
<1>g. got \subseteq Packets /\ \A p \in got : from <= p /\ p < NextSequenceNumber
  BY <1>2, Zenon DEF Input
<1>r. \A r \in stored : /\ r.start \in Nat /\ r.end \in Nat
                        /\ r.start <= PeerNextExpectedSeqNum
  BY DEF Input, SentRange, Ranges, Numbers
<1>3. k <= fec
  BY <1>1, <1>t, <1>r, SMTT(30) DEF Kept
<1>4. stored # {} => k <= last
  <2> SUFFICES ASSUME stored # {} PROVE k <= last
    BY Zenon
  <2>1. CASE left = {}
    BY <2>1, <1>1, <1>t DEF Kept
  <2>2. CASE left # {}
    <3>1. PICK q \in stored : q.start <= last /\ \A r \in stored : r.end <= q.end
      BY Zenon DEF Input
    <3>2. q \in left
      BY <2>2, <3>1, <1>r, <1>t
    <3>3. k <= q.start
      BY <2>2, <3>2, <1>1, Zenon DEF Kept
    <3> QED
      BY <3>1, <3>3, <1>r, <1>t
  <2> QED
    BY <2>1, <2>2, Zenon
<1>5. /\ ColumnStart' \in Nat /\ from <= ColumnStart' /\ ColumnStart' <= fec
      /\ IF stored = {} THEN ColumnStart' = from ELSE ColumnStart' <= last
  <2>0. stored # {} => from <= last
    BY Zenon DEF Input
  <2>1. CASE remove
    <3>1. /\ ColumnStart' \in Nat /\ from <= ColumnStart'
          /\ (ColumnStart' = from \/ ColumnStart' <= k)
      BY <2>1, <1>1, <1>t, RemovedBounds, Zenon
    <3> QED
      BY <2>1, <3>1, <2>0, <1>1, <1>2, <1>3, <1>4, <1>t
  <2>2. CASE ~remove
    BY <2>0, <2>2, <1>1, <1>t
  <2> QED
    BY <2>1, <2>2, Zenon
<1>6. ColumnStart' \in Numbers
  BY <1>5, <1>t, BoundsAssumption DEF Numbers, DeliveryTypeOK, IInv, TypeOK
<1>7. EmergencyDisabled' = FALSE
  <2>1. remove => last >= from
    BY <1>1, <1>2, Zenon DEF Input
  <2>2. ~(remove /\ Clipped(from, left, last, next))
    BY <2>1, <1>t DEF Clipped
  <2> HIDE DEF left
  <2>3. EmergencyDisabled' = (remove /\ Clipped(from, left, last, next))
    BY <1>1, Zenon DEF left
  <2> QED
    BY <2>2, <2>3, Zenon
<1>8. \A i \in Nat : i >= first => (i \in got <=> i \in held')
  BY <1>1, <1>5, <1>t, SMTT(30)
<1>9. \A i \in fec .. first - 1 : i \in got
  BY Zenon DEF Input
<1>10. next = new
  <2>1. CASE resume \/ recovered # {}
    <3>1. FirstMissing(new, first, held') /\ FirstMissing(next, fec, got)
      BY <2>1, <1>1, <1>t, Zenon
    <3> HIDE DEF got
    <3> QED
      BY <3>1, <1>8, <1>9, <1>t, FirstMissingUnique, Zenon
  <2>2. CASE ~(resume \/ recovered # {})
    <3>1. new = first /\ first = fec /\ fec \notin got
      BY <2>2, <1>1, Zenon DEF Input
    <3> QED
      BY <3>1, <1>1, <1>t, SMTT(30) DEF FirstMissing
  <2> QED
    BY <2>1, <2>2, Zenon
<1>11. fec <= new /\ first <= new /\ new \notin got
       /\ \A m \in fec .. new - 1 : m \in got
  <2>1. FirstMissing(new, fec, got)
    BY <1>1, <1>10, <1>t, Zenon
  <2>2. first <= new
    <3>1. ~(new < first)
      BY <1>9, <1>t, <2>1 DEF FirstMissing
    <3> QED
      BY <3>1, <1>t
  <2> QED
    BY <2>1, <2>2, Zenon DEF FirstMissing
<1>12. new <= NextSequenceNumber
  <2> HIDE DEF new, fec, got
  <2>1. CASE new = fec
    BY <2>1, <1>t, Zenon
  <2>2. CASE new > fec
    <3>1. new - 1 \in fec .. new - 1
      BY <2>2, <1>t
    <3>2. new - 1 < NextSequenceNumber
      BY <3>1, <1>11, <1>g, Zenon
    <3> QED
      BY <3>2, <1>t
  <2> QED
    BY <2>1, <2>2, <1>11, <1>t
<1>13. /\ held' \subseteq Packets /\ new \notin held'
       /\ \A p \in held' : ColumnStart' <= p /\ p < NextSequenceNumber
       /\ \A p \in set : ColumnStart' <= p => p \in held'
  BY <1>1, <1>5, <1>g, <1>11, Zenon DEF Packets
<1>14. \A m \in ColumnStart' .. new - 1 : m \in held'
  <2>1. \A m \in from .. fec - 1 : m \in got
    BY Zenon DEF Input
  <2> HIDE DEF got
  <2>2. held' = {p \in got : p >= ColumnStart'}
    BY <1>1, Zenon DEF got
  <2> HIDE DEF new, fec
  <2> QED
    BY <2>1, <2>2, <1>5, <1>11, <1>t
<1>15. ordered' = Run(0, new)
  <2>1. ordered' = (Run(0, fec) \o Run(fec, first)) \o Run(first, new)
    BY <1>1, Zenon DEF Input, IInv, HistoryExact
  <2> HIDE DEF new, fec
  <2>a. 0 \in Nat /\ fec \in Nat /\ first \in Nat /\ 0 <= fec /\ fec <= first
    BY <1>t
  <2>b. new \in Nat /\ 0 <= first /\ first <= new
    BY <1>t, <1>11
  <2>2. Run(0, fec) \o Run(fec, first) = Run(0, first)
    BY <2>a, RunConcat, Zenon
  <2>3. Run(0, first) \o Run(first, new) = Run(0, new)
    BY <2>a, <2>b, RunConcat, Zenon
  <2> QED
    BY <2>1, <2>2, <2>3, Zenon
<1>16. /\ unordered' \in [Packets -> 0 .. 2]
       /\ \A p \in Packets :
             /\ p < ColumnStart' => unordered'[p] >= 1
             /\ p >= ColumnStart' /\ p \in held' => unordered'[p] = 1
             /\ p >= ColumnStart' /\ p \notin held' => unordered'[p] = 0
  <2>1. unordered \in [Packets -> 0 .. 2]
    BY Zenon DEF IInv, TypeOK, DeliveryTypeOK
  <2>2. unordered' = [p \in Packets |->
           IF p \in seen \cup recovered /\ unordered[p] < 2
           THEN unordered[p] + 1 ELSE unordered[p]]
    BY <1>1, Zenon DEF Delivered
  <2>3. unordered' \in [Packets -> 0 .. 2]
    BY <2>1, <2>2
  <2>4. ASSUME NEW p \in Packets
        PROVE  /\ p < ColumnStart' => unordered'[p] >= 1
               /\ p >= ColumnStart' /\ p \in held' => unordered'[p] = 1
               /\ p >= ColumnStart' /\ p \notin held' => unordered'[p] = 0
    <3>0. /\ p \in Nat /\ unordered[p] \in 0 .. 2
          /\ unordered'[p] = IF p \in seen \cup recovered /\ unordered[p] < 2
                             THEN unordered[p] + 1 ELSE unordered[p]
      BY <2>1, <2>2 DEF Packets
    <3>1. /\ p < ColumnStart => unordered[p] >= 1
          /\ p >= ColumnStart /\ p \in held => unordered[p] = 1
          /\ p >= ColumnStart /\ p \notin held => unordered[p] = 0
      BY Zenon DEF IInv, HistoryExact
    <3>2. /\ p \in held /\ p >= from => p \in set
          /\ p \in seen <=> p \in set /\ p \notin held
          /\ p \in set \/ p \in recovered => p >= from
          /\ p \in recovered => p \notin set
      BY <1>2, Zenon DEF Input
    <3>3. p \in held' <=> (p \in set \/ p \in recovered) /\ p >= ColumnStart'
      BY <1>1, Zenon
    <3>4. CASE p < ColumnStart'
      <4>1. CASE p < ColumnStart
        BY <4>1, <3>0, <3>1, <3>4, <1>5, <1>t
      <4>2. CASE p >= ColumnStart /\ p \in held
        BY <4>2, <3>0, <3>1, <3>4, <1>5, <1>t
      <4>3. CASE p >= ColumnStart /\ p \notin held
        <5>1. p < fec
          BY <3>0, <3>4, <1>5, <1>t
        <5>2. p \in held
          BY <4>3, <5>1, <3>0, <1>t DEF IInv, WindowExact
        <5> QED
          BY <4>3, <5>2, Zenon
      <4> QED
        BY <4>1, <4>2, <4>3, <3>0, <1>t, SMTT(30)
    <3>5. CASE p >= ColumnStart'
      <4>1. p >= ColumnStart /\ p >= from
        BY <3>0, <3>5, <1>5, <1>t
      <4>2. CASE p \in held
        <5>1. p \in set /\ p \notin seen /\ p \notin recovered
          BY <4>1, <4>2, <3>2, Zenon
        <5> QED
          BY <4>1, <4>2, <5>1, <3>0, <3>1, <3>3, <3>5, <1>5
      <4>3. CASE p \notin held
        BY <4>1, <4>3, <3>0, <3>1, <3>2, <3>3, <3>5, <1>5, SMTT(30)
      <4> QED
        BY <4>2, <4>3, Zenon
    <3> QED
      BY <3>0, <3>4, <3>5, <1>5, Zenon
  <2> QED
    BY <2>3, <2>4, Zenon
<1> QED
  BY <1>1, <1>5, <1>6, <1>7, <1>10, <1>11, <1>12, <1>13, <1>14, <1>15, <1>16, Zenon
     DEF Outcome

(* The invariant after a datagram was processed, given what the step is to  *)
(* show of the region of the last row received in order.                    *)
LEMMA OutcomeIInv ==
    ASSUME IInv,
           NEW set, NEW stored, NEW from \in Numbers, NEW last \in Numbers,
           Outcome(set, stored, from, last), ColumnStart <= from,
           UNCHANGED <<senderVars, acks, ackacks, LastAckAckSeq>>,
           originals' \in [Packets -> Nat],
           \A p \in Packets : originals'[p] > 0 => originals[p] > 0,
           recoveries' \subseteq recoveries,
           stored \subseteq Ranges,
           \A r \in stored : SentRange(r) /\ r.end <= LatestColumn',
           last <= PeerNextExpectedSeqNum,
           stored # {} => \E q \in stored :
                             /\ q.start <= last
                             /\ \A r \in stored : r.end <= q.end,
           LatestColumn' \in Numbers, LatestColumn' <= NextSequenceNumber,
           LatestColumn' > NextExpected' =>
              \/ /\ last >= ColumnStart'
                 /\ \A r \in recoveries' :
                       r.end < LatestColumn' => r.start <= last
              \/ \A r \in recoveries' :
                    r.end < LatestColumn' => r.start < ColumnStart'
    PROVE  IInv'
<1>t. SenderTypeOK /\ NetworkTypeOK /\ DecoderTypeOK /\ DeliveryTypeOK
  BY Zenon DEF IInv, TypeOK
<1>f. /\ FECNextExpectedPacketNum \in Int /\ FECNextExpectedPacketNum' \in Int
      /\ NextSequenceNumber \in Int /\ PeerNextExpectedSeqNum \in Int
      /\ ColumnStart' \in Int /\ last \in Int /\ NextExpected' \in Int
  BY <1>t, SMTT(30) DEF SenderTypeOK, DeliveryTypeOK, Outcome, Numbers
<1>u. /\ NextSequenceNumber' = NextSequenceNumber /\ EncoderStart' = EncoderStart
      /\ FirstUnremoved' = FirstUnremoved /\ Count' = Count
      /\ PeerNextExpectedSeqNum' = PeerNextExpectedSeqNum
      /\ acks' = acks /\ ackacks' = ackacks /\ LastAckAckSeq' = LastAckAckSeq
  BY Zenon DEF senderVars
<1>o. /\ NextExpected' = FECNextExpectedPacketNum'
      /\ FECNextExpectedPacketNum' \in Numbers
      /\ FECNextExpectedPacketNum <= FECNextExpectedPacketNum'
      /\ FECNextExpectedPacketNum' <= NextSequenceNumber
      /\ held' \subseteq Packets
      /\ ColumnStart' \in Numbers /\ from <= ColumnStart'
      /\ ColumnStart' <= FECNextExpectedPacketNum
      /\ IF stored = {} THEN ColumnStart' = from ELSE ColumnStart' <= last
      /\ rows' = {r \in stored : r.end > NextExpected'}
      /\ LastRecovery' = last
      /\ ordered' = Run(0, FECNextExpectedPacketNum')
      /\ unordered' \in [Packets -> 0 .. 2]
  BY Zenon DEF Outcome
<1>d. EmergencyDisabled' \in BOOLEAN /\ ~EmergencyDisabled'
  <2>1. EmergencyDisabled' = FALSE
    BY Zenon DEF Outcome
  <2> QED
    BY <2>1, Zenon
<1>1. TypeOK'
  <2>1. SenderTypeOK'
    BY <1>t, <1>u, Zenon DEF SenderTypeOK
  <2>2. NetworkTypeOK'
    BY <1>t, <1>u, Zenon DEF NetworkTypeOK
  <2>3. DecoderTypeOK'
    BY <1>o, <1>d, Zenon DEF DecoderTypeOK
  <2>4. DeliveryTypeOK'
    <3>1. ordered' \in Seq(Packets)
      <4> DEFINE new == FECNextExpectedPacketNum'
      <4>1. ordered' = Run(0, new) /\ new \in Numbers
        BY <1>o, Zenon
      <4> HIDE DEF new
      <4> QED
        BY <4>1, RunPackets, Zenon
    <3> QED
      BY <3>1, <1>o, <1>u, <1>t, Zenon DEF DeliveryTypeOK
  <2> QED
    BY <2>1, <2>2, <2>3, <2>4, Zenon DEF TypeOK
<1>2. EncoderExact'
  BY <1>o, <1>u, <1>f, SMTT(30) DEF IInv, EncoderExact
<1>3. InFlight'
  <2>1. \A i \in 1 .. Len(acks) : acks[i] <= FECNextExpectedPacketNum'
    <3>1. \A i \in 1 .. Len(acks) : acks[i] \in Numbers
      BY <1>t DEF NetworkTypeOK
    <3>2. \A i \in 1 .. Len(acks) : acks[i] <= FECNextExpectedPacketNum
      BY Zenon DEF IInv, InFlight
    <3> QED
      BY <3>1, <3>2, <1>o, <1>f DEF Numbers
  <2>2. \A r \in recoveries' : SentRange(r)'
    BY <1>u, Zenon DEF IInv, InFlight, SentRange
  <2> QED
    BY <2>1, <2>2, <1>u, Zenon DEF IInv, InFlight
<1>4. WindowExact'
  <2>1. ColumnStart' <= FECNextExpectedPacketNum'
    BY <1>o, <1>f, SMTT(30)
  <2> QED
    BY <2>1, <1>o, <1>u, Zenon DEF Outcome, WindowExact
<1>5. HistoryExact'
  BY Zenon DEF Outcome, HistoryExact
<1>6. RowsExact'
  <2>1. \A r \in rows' : SentRange(r)' /\ r.end > NextExpected'
                                       /\ r.end <= LatestColumn'
    BY <1>o, <1>u, Zenon DEF SentRange
  <2>2. rows' # {} => /\ LastRecovery' >= ColumnStart'
                      /\ \E q \in rows' : /\ q.start <= LastRecovery'
                                          /\ \A r \in rows' : r.end <= q.end
    <3> SUFFICES ASSUME rows' # {}
                 PROVE  /\ LastRecovery' >= ColumnStart'
                        /\ \E q \in rows' : /\ q.start <= LastRecovery'
                                            /\ \A r \in rows' : r.end <= q.end
      BY Zenon
    <3>1. PICK r \in stored : r.end > NextExpected'
      BY <1>o, Zenon
    <3>2. PICK q \in stored : q.start <= last /\ \A r2 \in stored : r2.end <= q.end
      BY <3>1, Zenon
    <3>3. q.end \in Int /\ r.end \in Int
      BY DEF Ranges, Numbers
    <3>4. q \in rows'
      BY <3>1, <3>2, <3>3, <1>o, <1>f
    <3> QED
      BY <3>1, <3>2, <3>4, <1>o, <1>f, Zenon
  <2>3. \A r1, r2 \in recoveries' : r1.end < r2.end => r1.start <= r2.start
    BY Zenon DEF IInv, RowsExact
  <2> QED
    BY <2>1, <2>2, <2>3, <1>o, <1>u, <1>d, Zenon DEF RowsExact
<1> QED
  BY <1>1, <1>2, <1>3, <1>4, <1>5, <1>6, Zenon DEF IInv

(* A datagram with nothing new in it, apart from Unordered messages of      *)
(* packets that have left the window.                                       *)
LEMMA NothingNewOutcome ==
    ASSUME IInv,
           UNCHANGED <<held, ColumnStart, NextExpected, rows, LastRecovery,
                       EmergencyDisabled, FECNextExpectedPacketNum, ordered>>,
           unordered' \in [Packets -> 0 .. 2],
           \A p \in Packets :
              IF p < ColumnStart THEN unordered'[p] >= unordered[p]
                                 ELSE unordered'[p] = unordered[p]
    PROVE  Outcome(held, rows, ColumnStart, LastRecovery)
<1>t. SenderTypeOK /\ DecoderTypeOK /\ DeliveryTypeOK
  BY Zenon DEF IInv, TypeOK
<1>1. /\ FECNextExpectedPacketNum \in Int /\ ColumnStart \in Int
      /\ LastRecovery \in Int /\ NextExpected \in Int
  BY <1>t DEF DecoderTypeOK, DeliveryTypeOK, Numbers
<1>2. EmergencyDisabled' = FALSE
  <2>1. EmergencyDisabled \in BOOLEAN /\ ~EmergencyDisabled
    BY <1>t, Zenon DEF DecoderTypeOK, IInv, RowsExact
  <2>2. EmergencyDisabled' = EmergencyDisabled
    BY Zenon
  <2> QED
    BY <2>1, <2>2, Zenon
<1>3. rows' = {r \in rows : r.end > NextExpected'}
  BY Zenon DEF IInv, RowsExact
<1>4. IF rows = {} THEN ColumnStart' = ColumnStart ELSE ColumnStart' <= LastRecovery
  BY <1>1, Zenon DEF IInv, RowsExact
<1>5. \A p \in Packets :
          /\ p < ColumnStart' => unordered'[p] >= 1
          /\ p >= ColumnStart' /\ p \in held' => unordered'[p] = 1
          /\ p >= ColumnStart' /\ p \notin held' => unordered'[p] = 0
  <2>1. \A p \in Packets : unordered[p] \in Int /\ unordered'[p] \in Int /\ p \in Int
    BY <1>t DEF DeliveryTypeOK, Packets
  <2> QED
    BY <2>1, <1>1 DEF IInv, HistoryExact
<1>6. /\ ColumnStart \in Numbers /\ FECNextExpectedPacketNum \in Numbers
      /\ held \subseteq Packets
  BY <1>t, Zenon DEF DecoderTypeOK, DeliveryTypeOK
<1>7. /\ NextExpected = FECNextExpectedPacketNum
      /\ FECNextExpectedPacketNum <= NextSequenceNumber
      /\ ColumnStart <= FECNextExpectedPacketNum
      /\ FECNextExpectedPacketNum \notin held
      /\ \A m \in ColumnStart .. FECNextExpectedPacketNum - 1 : m \in held
      /\ \A p \in held : ColumnStart <= p /\ p < NextSequenceNumber
      /\ ordered = Run(0, FECNextExpectedPacketNum)
  BY Zenon DEF IInv, EncoderExact, WindowExact, HistoryExact
<1> QED
  BY <1>1, <1>2, <1>3, <1>4, <1>5, <1>6, <1>7, SMTT(30) DEF Outcome

(* The region of the last row in order stays in the window as long as       *)
(* recovery packets sent before it may still come.                          *)
LEMMA RegionKept ==
    ASSUME IInv, NEW set,
           Outcome(set, rows, ColumnStart, LastRecovery),
           recoveries' \subseteq recoveries,
           LatestColumn > NextExpected'
    PROVE  \/ /\ LastRecovery >= ColumnStart'
              /\ \A r \in recoveries' :
                    r.end < LatestColumn => r.start <= LastRecovery
           \/ \A r \in recoveries' :
                 r.end < LatestColumn => r.start < ColumnStart'
<1>1. /\ LatestColumn \in Int /\ NextExpected \in Int /\ NextExpected' \in Int
      /\ ColumnStart \in Int /\ ColumnStart' \in Int /\ LastRecovery \in Int
      /\ \A r \in recoveries : r.start \in Int /\ r.end \in Int
  BY DEF IInv, TypeOK, DecoderTypeOK, NetworkTypeOK, Outcome, Ranges, Numbers
<1>2. NextExpected <= NextExpected' /\ ColumnStart <= ColumnStart'
  BY Zenon DEF Outcome, IInv, WindowExact
<1>3. LatestColumn > NextExpected
  BY <1>1, <1>2
<1>4. CASE /\ LastRecovery >= ColumnStart
           /\ \A r \in recoveries : r.end < LatestColumn => r.start <= LastRecovery
  <2>1. LastRecovery >= ColumnStart'
    BY <1>1, <1>4, Zenon DEF Outcome
  <2> QED
    BY <1>4, <2>1, Zenon
<1>5. CASE \A r \in recoveries : r.end < LatestColumn => r.start < ColumnStart
  BY <1>1, <1>2, <1>5
<1> QED
  BY <1>3, <1>4, <1>5, Zenon DEF IInv, RowsExact

(* An original packet, new or duplicate. *)
LEMMA ReceiveOriginalIInv ==
    ASSUME IInv, NEW p \in Packets, ReceiveOriginal(p)
    PROVE  IInv'
<1>t. SenderTypeOK /\ NetworkTypeOK /\ DecoderTypeOK /\ DeliveryTypeOK
  BY Zenon DEF IInv, TypeOK
<1>0. /\ UNCHANGED <<senderVars, recoveries, acks, ackacks, LastAckAckSeq>>
      /\ originals[p] > 0 /\ originals' = [originals EXCEPT ![p] = @ - 1]
  BY Zenon DEF ReceiveOriginal
<1>1. /\ originals' \in [Packets -> Nat]
      /\ \A q \in Packets : originals'[q] > 0 => originals[q] > 0
      /\ p < NextSequenceNumber
  BY <1>0, <1>t DEF NetworkTypeOK, IInv, InFlight
<1>i. /\ p \in Int /\ ColumnStart \in Int /\ FECNextExpectedPacketNum \in Int
      /\ NextSequenceNumber \in Int /\ PeerNextExpectedSeqNum \in Int
      /\ ColumnStart \in Numbers /\ LastRecovery \in Numbers
      /\ ColumnStart <= FECNextExpectedPacketNum
      /\ FECNextExpectedPacketNum \notin held
  BY <1>t DEF Packets, Numbers, SenderTypeOK, DecoderTypeOK, DeliveryTypeOK,
              IInv, WindowExact
<1>2. /\ LatestColumn' = LatestColumn
      /\ \E set : Outcome(set, rows, ColumnStart, LastRecovery)
  <2>1. CASE p < ColumnStart \/ p \in held
    <3>1. /\ unordered' = Delivered(FirstSeen(p))
          /\ ordered' = ordered \o InSequence(p)
          /\ UNCHANGED <<decoderVars, FECNextExpectedPacketNum>>
      BY <2>1, Zenon DEF ReceiveOriginal
    <3>2. p # FECNextExpectedPacketNum
      BY <2>1, <1>i
    <3>3. ordered' = ordered
      <4>1. ordered' = ordered \o << >> /\ ordered \in Seq(Packets)
        BY <3>1, <3>2, <1>t, Zenon DEF InSequence, DeliveryTypeOK
      <4> QED
        BY <4>1
    <3>4. /\ unordered' \in [Packets -> 0 .. 2]
          /\ \A q \in Packets :
                IF q < ColumnStart THEN unordered'[q] >= unordered[q]
                                   ELSE unordered'[q] = unordered[q]
      <4>1. unordered \in [Packets -> 0 .. 2]
        BY <1>t, Zenon DEF DeliveryTypeOK
      <4>2. unordered' = [q \in Packets |->
               IF q \in FirstSeen(p) /\ unordered[q] < 2
               THEN unordered[q] + 1 ELSE unordered[q]]
        BY <3>1, Zenon DEF Delivered
      <4>3. \A q \in Packets : q \in FirstSeen(p) => q < ColumnStart
        BY <2>1, Zenon DEF FirstSeen
      <4> QED
        BY <4>1, <4>2, <4>3, <1>i
    <3>5. Outcome(held, rows, ColumnStart, LastRecovery)
      BY <3>1, <3>3, <3>4, NothingNewOutcome, Zenon DEF decoderVars
    <3> QED
      BY <3>1, <3>5, Zenon DEF decoderVars
  <2>2. CASE ~(p < ColumnStart \/ p \in held)
    <3> DEFINE expected == p = FECNextExpectedPacketNum
               first == IF expected THEN p + 1 ELSE FECNextExpectedPacketNum
    <3>1. /\ Process(held \cup {p}, rows, ColumnStart, LastRecovery,
                     InSequence(p), first, expected, FirstSeen(p))
          /\ LatestColumn' = LatestColumn
      BY <2>2, Zenon DEF ReceiveOriginal
    <3>2. Input(held \cup {p}, rows, ColumnStart, LastRecovery, InSequence(p),
                first, expected, FirstSeen(p))
      <4>1. InSequence(p) = Run(FECNextExpectedPacketNum, first)
        <5>1. CASE expected
          BY <5>1, <1>i, RunOne DEF InSequence, Packets
        <5>2. CASE ~expected
          <6>1. first = FECNextExpectedPacketNum /\ InSequence(p) = <<>>
            BY <5>2, Zenon DEF InSequence
          <6>2. FECNextExpectedPacketNum \in Nat
            BY <1>t DEF DeliveryTypeOK, Numbers
          <6> QED
            BY <6>1, <6>2, RunNone, Zenon
        <5> QED
          BY <5>1, <5>2, Zenon
      <4>2. /\ FirstSeen(p) = (held \cup {p}) \ held
            /\ held \cup {p} \subseteq Packets
        BY <2>2, <1>t, Zenon DEF FirstSeen, DecoderTypeOK
      <4>3. \A q \in held \cup {p} : ColumnStart <= q /\ q < NextSequenceNumber
        BY <2>2, <1>1, <1>i DEF IInv, WindowExact
      <4>4. \A m \in ColumnStart .. FECNextExpectedPacketNum - 1 :
               m \in held \cup {p}
        BY Zenon DEF IInv, WindowExact
      <4>5. /\ rows \subseteq Ranges /\ \A r \in rows : SentRange(r)
            /\ LastRecovery <= PeerNextExpectedSeqNum
            /\ rows # {} => /\ LastRecovery >= ColumnStart
                            /\ \E q \in rows : /\ q.start <= LastRecovery
                                               /\ \A r \in rows : r.end <= q.end
        BY <1>t, Zenon DEF DecoderTypeOK, IInv, RowsExact
      <4>6. /\ first \in Numbers /\ FECNextExpectedPacketNum <= first
            /\ \A m \in FECNextExpectedPacketNum .. first - 1 : m \in held \cup {p}
        BY <1>i, <1>t, BoundsAssumption DEF Packets, Numbers, DeliveryTypeOK
      <4>7. /\ expected \in BOOLEAN
            /\ expected \/ (first = FECNextExpectedPacketNum
                            /\ first \notin held \cup {p})
        BY <1>i, Zenon
      <4> HIDE DEF first, expected
      <4> QED
        BY <4>1, <4>2, <4>3, <4>4, <4>5, <4>6, <4>7, <1>i, SMTT(30) DEF Input
    <3> HIDE DEF first, expected
    <3>3. Outcome(held \cup {p}, rows, ColumnStart, LastRecovery)
      BY <3>1, <3>2, ProcessOutcome, Zenon
    <3> QED
      BY <3>1, <3>3, Zenon
  <2> QED
    BY <2>1, <2>2, Zenon
<1>3. PICK set : Outcome(set, rows, ColumnStart, LastRecovery)
  BY <1>2, Zenon
<1>4. /\ rows \subseteq Ranges
      /\ \A r \in rows : SentRange(r) /\ r.end <= LatestColumn'
      /\ LastRecovery <= PeerNextExpectedSeqNum
      /\ rows # {} => \E q \in rows : /\ q.start <= LastRecovery
                                      /\ \A r \in rows : r.end <= q.end
      /\ LatestColumn' \in Numbers /\ LatestColumn' <= NextSequenceNumber
  BY <1>2, <1>t, Zenon DEF DecoderTypeOK, IInv, RowsExact
<1>5. LatestColumn' > NextExpected' =>
         \/ /\ LastRecovery >= ColumnStart'
            /\ \A r \in recoveries' :
                  r.end < LatestColumn' => r.start <= LastRecovery
         \/ \A r \in recoveries' :
               r.end < LatestColumn' => r.start < ColumnStart'
  BY <1>0, <1>2, <1>3, RegionKept, Zenon
<1> QED
  BY <1>0, <1>1, <1>3, <1>4, <1>5, <1>i, OutcomeIInv, SMTT(30)

(* What every recovery packet in flight satisfies, whatever becomes of it. *)
RecoveryFacts(r) ==
    /\ r \in Ranges /\ SentRange(r)
    /\ r.start \in Nat /\ r.end \in Nat /\ r.start \in Numbers /\ r.end \in Numbers
    /\ ColumnStart \in Nat /\ NextExpected \in Nat /\ LatestColumn \in Nat
    /\ PeerNextExpectedSeqNum \in Nat /\ NextSequenceNumber \in Nat
    /\ LastRecovery \in Nat /\ LastRecovery \in Numbers
    /\ NextExpected = FECNextExpectedPacketNum
    /\ ColumnStart <= NextExpected /\ PeerNextExpectedSeqNum <= NextExpected
    /\ ColumnStart \in Numbers /\ NextExpected \in Numbers
    /\ LatestColumn' = IF r.end < LatestColumn THEN LatestColumn ELSE r.end
    /\ UNCHANGED <<senderVars, acks, ackacks, LastAckAckSeq, originals>>
    /\ originals \in [Packets -> Nat]
    /\ recoveries' = recoveries \ {r}
    /\ LatestColumn \in Numbers /\ LatestColumn <= NextSequenceNumber
    /\ rows \subseteq Ranges
    /\ \A q \in rows : /\ SentRange(q) /\ q.end \in Nat /\ q.start \in Nat
                       /\ q.end <= LatestColumn /\ q.end > NextExpected
    /\ \A q \in recoveries : q.start \in Nat /\ q.end \in Nat
    /\ LastRecovery <= PeerNextExpectedSeqNum
    /\ rows # {} => /\ LastRecovery >= ColumnStart
                    /\ \E q \in rows : /\ q.start <= LastRecovery
                                       /\ \A r2 \in rows : r2.end <= q.end

(* They follow from the invariant. *)
LEMMA ReceiveRecoveryFacts ==
    ASSUME IInv, NEW r \in recoveries, ReceiveRecovery(r)
    PROVE  RecoveryFacts(r)
<1>t. SenderTypeOK /\ NetworkTypeOK /\ DecoderTypeOK /\ DeliveryTypeOK
  BY Zenon DEF IInv, TypeOK
<1>1. r \in Ranges /\ SentRange(r)
  BY <1>t, Zenon DEF NetworkTypeOK, IInv, InFlight
<1>2. r.start \in Numbers /\ r.end \in Numbers
  BY <1>1, Zenon DEF Ranges
<1>3. /\ LatestColumn' = IF r.end < LatestColumn THEN LatestColumn ELSE r.end
      /\ UNCHANGED <<senderVars, acks, ackacks, LastAckAckSeq, originals>>
      /\ recoveries' = recoveries \ {r}
  BY Zenon DEF ReceiveRecovery
<1>4. /\ ColumnStart \in Numbers /\ NextExpected \in Numbers
      /\ LatestColumn \in Numbers /\ LastRecovery \in Numbers
      /\ PeerNextExpectedSeqNum \in Numbers /\ NextSequenceNumber \in Numbers
      /\ NextExpected = FECNextExpectedPacketNum
      /\ ColumnStart <= NextExpected /\ PeerNextExpectedSeqNum <= NextExpected
      /\ LastRecovery <= PeerNextExpectedSeqNum
      /\ LatestColumn <= NextSequenceNumber
      /\ rows \subseteq Ranges
      /\ originals \in [Packets -> Nat]
  BY <1>t, Zenon DEF SenderTypeOK, NetworkTypeOK, DecoderTypeOK, IInv, WindowExact,
              EncoderExact, RowsExact
<1>5. /\ \A q \in rows : /\ SentRange(q) /\ q.end \in Numbers /\ q.start \in Numbers
                         /\ q.end <= LatestColumn /\ q.end > NextExpected
      /\ \A q \in recoveries : q.start \in Numbers /\ q.end \in Numbers
  BY <1>t, Zenon DEF DecoderTypeOK, NetworkTypeOK, IInv, RowsExact, Ranges
<1>6. rows # {} => /\ LastRecovery >= ColumnStart
                   /\ \E q \in rows : /\ q.start <= LastRecovery
                                      /\ \A r2 \in rows : r2.end <= q.end
  BY Zenon DEF IInv, RowsExact
<1>7. \A n \in Numbers : n \in Nat
  BY DEF Numbers
<1> QED
  BY <1>1, <1>2, <1>3, <1>4, <1>5, <1>6, <1>7, Zenon DEF RecoveryFacts

(* The invariant after a recovery packet that left the stored rows alone. *)
LEMMA SameRowsIInv ==
    ASSUME IInv, NEW r \in recoveries, RecoveryFacts(r), NEW set,
           Outcome(set, rows, ColumnStart, LastRecovery),
           r.end >= LatestColumn =>
              r.end <= NextExpected' \/ r.start < ColumnStart'
    PROVE  IInv'
<1> USE DEF RecoveryFacts
<1>1. /\ LatestColumn' \in Numbers /\ LatestColumn' <= NextSequenceNumber
      /\ LatestColumn' >= LatestColumn /\ LatestColumn' >= r.end
      /\ LatestColumn' \in Nat
  BY SMTT(30) DEF SentRange
<1>2. \A q \in rows : SentRange(q) /\ q.end <= LatestColumn'
  BY <1>1
<1>3. LatestColumn' > NextExpected' =>
         \/ /\ LastRecovery >= ColumnStart'
            /\ \A q \in recoveries' :
                  q.end < LatestColumn' => q.start <= LastRecovery
         \/ \A q \in recoveries' :
               q.end < LatestColumn' => q.start < ColumnStart'
  <2> SUFFICES ASSUME LatestColumn' > NextExpected'
               PROVE  \/ /\ LastRecovery >= ColumnStart'
                         /\ \A q \in recoveries' :
                               q.end < LatestColumn' => q.start <= LastRecovery
                      \/ \A q \in recoveries' :
                            q.end < LatestColumn' => q.start < ColumnStart'
    BY Zenon
  <2>1. CASE r.end < LatestColumn
    BY <2>1, RegionKept, Zenon
  <2>2. CASE r.end >= LatestColumn
    <3>1. LatestColumn' = r.end /\ NextExpected' \in Nat /\ ColumnStart' \in Nat
      BY <2>2, SMTT(30) DEF Outcome, Numbers
    <3>2. r.start < ColumnStart'
      BY <2>2, <3>1, SMTT(30)
    <3>3. \A q \in recoveries : q.end < r.end => q.start <= r.start
      BY Zenon DEF IInv, RowsExact
    <3> QED
      BY <3>1, <3>2, <3>3, SMTT(30)
  <2> QED
    BY <2>1, <2>2, SMTT(30)
<1> QED
  BY <1>1, <1>2, <1>3, OutcomeIInv, SMTT(30)

(* A recovery packet with nothing new in it. *)
LEMMA UnneededRecoveryIInv ==
    ASSUME IInv, NEW r \in recoveries, RecoveryFacts(r),
           UnneededRecovery(r, r.end < LatestColumn)
    PROVE  IInv'
<1> DEFINE shrinks == /\ r.start >= ColumnStart
                      /\ ~(r.end < LatestColumn)
                      /\ r.start - ColumnStart >= RemoveThreshold
<1>0. /\ \/ r.end < ColumnStart
         \/ r.start < ColumnStart
         \/ r.end <= NextExpected
      /\ UNCHANGED <<NextExpected, rows, deliveryVars>>
  BY Zenon DEF UnneededRecovery
<1>1. CASE ~shrinks
  <2>1. UNCHANGED <<LastRecovery, ColumnStart, EmergencyDisabled, held>>
    BY <1>1, Zenon DEF UnneededRecovery
  <2>2. unordered \in [Packets -> 0 .. 2]
        /\ \A p \in Packets : unordered[p] >= unordered[p]
    BY DEF IInv, TypeOK, DeliveryTypeOK
  <2>3. Outcome(held, rows, ColumnStart, LastRecovery)
    BY <1>0, <2>1, <2>2, NothingNewOutcome, Zenon DEF deliveryVars
  <2>4. r.end <= NextExpected' \/ r.start < ColumnStart'
    BY <1>0, <2>1, SMTT(30) DEF RecoveryFacts
  <2> QED
    BY <2>3, <2>4, SameRowsIInv, Zenon
<1>2. CASE shrinks
  <2>1. PICK k \in Numbers :
          /\ Kept(k, rows, r.start, NextExpected)
          /\ LastRecovery' = r.start
          /\ ColumnStart' = Removed(ColumnStart, k, NextExpected)
          /\ EmergencyDisabled' = Clipped(ColumnStart, rows, r.start, NextExpected)
          /\ held' = {p \in held : p >= ColumnStart'}
    BY <1>2, Zenon DEF UnneededRecovery
  <2>2. r.end <= NextExpected
    BY <1>0, <1>2, SMTT(30) DEF RecoveryFacts, SentRange
  <2>3. rows = {}
    BY <1>2, <2>2, SMTT(30) DEF RecoveryFacts
  <2>4. k = r.start
    BY <2>1, <2>3, Zenon DEF Kept
  <2>5. /\ ColumnStart' \in Nat /\ ColumnStart <= ColumnStart'
        /\ ColumnStart' <= r.start
    <3>1. /\ ColumnStart' \in Nat /\ ColumnStart <= ColumnStart'
          /\ ColumnStart' = ColumnStart \/ ColumnStart' <= k
      BY <2>1, <2>4, RemovedBounds, Zenon DEF RecoveryFacts
    <3> QED
      BY <1>2, <2>4, <3>1, Zenon
  <2>6. ColumnStart' \in Numbers /\ ColumnStart' <= NextExpected
    BY <2>5, BoundsAssumption, SMTT(30) DEF RecoveryFacts, SentRange, Numbers
  <2>7. EmergencyDisabled' = FALSE
    <3>1. ~Clipped(ColumnStart, rows, r.start, NextExpected)
      BY <1>2 DEF Clipped, RecoveryFacts
    <3>2. Clipped(ColumnStart, rows, r.start, NextExpected) \in BOOLEAN
      BY Zenon DEF Clipped
    <3> QED
      BY <2>1, <3>1, <3>2, Zenon
  <2>8. PICK from \in Numbers : from = ColumnStart'
    BY <2>6, Zenon
  <2>9. Outcome({}, {}, from, r.start)
    <3>1. \A p \in Packets :
              /\ p < ColumnStart' => unordered[p] >= 1
              /\ p >= ColumnStart' /\ p \in held' => unordered[p] = 1
              /\ p >= ColumnStart' /\ p \notin held' => unordered[p] = 0
      <4> SUFFICES ASSUME NEW p \in Packets
                   PROVE  /\ p < ColumnStart' => unordered[p] >= 1
                          /\ p >= ColumnStart' /\ p \in held' => unordered[p] = 1
                          /\ p >= ColumnStart' /\ p \notin held' => unordered[p] = 0
        BY Zenon
      <4>1. /\ p < ColumnStart => unordered[p] >= 1
            /\ p >= ColumnStart /\ p \in held => unordered[p] = 1
            /\ p >= ColumnStart /\ p \notin held => unordered[p] = 0
        BY Zenon DEF IInv, HistoryExact
      <4>2. p \in ColumnStart .. NextExpected - 1 => p \in held
        BY Zenon DEF IInv, WindowExact
      <4>3. p \in Int /\ ColumnStart \in Int /\ NextExpected \in Int
        BY DEF Packets, RecoveryFacts
      <4> QED
        BY <4>1, <4>2, <4>3, <2>1, <2>5, <2>6
    <3>2. /\ FECNextExpectedPacketNum \notin held'
          /\ \A m \in ColumnStart' .. FECNextExpectedPacketNum - 1 : m \in held'
          /\ \A p \in held' : ColumnStart' <= p /\ p < NextSequenceNumber
          /\ held' \subseteq Packets
      <4>1. \A m \in ColumnStart .. FECNextExpectedPacketNum - 1 : m \in held
        BY Zenon DEF IInv, WindowExact
      <4>2. /\ FECNextExpectedPacketNum \notin held /\ held \subseteq Packets
            /\ \A p \in held : ColumnStart <= p /\ p < NextSequenceNumber
        BY Zenon DEF IInv, WindowExact, TypeOK, DecoderTypeOK
      <4>3. /\ ColumnStart \in Int /\ ColumnStart' \in Int
            /\ FECNextExpectedPacketNum \in Int /\ ColumnStart <= ColumnStart'
        BY <2>5, SMTT(30) DEF RecoveryFacts
      <4>4. \A p \in held' : p \in held /\ p >= ColumnStart' /\ p \in Int
        BY <4>2, <2>1 DEF Packets
      <4>5. \A m \in ColumnStart' .. FECNextExpectedPacketNum - 1 : m \in held'
        BY <4>1, <4>3, <2>1
      <4> QED
        BY <4>2, <4>3, <4>4, <4>5, Zenon
    <3>3. /\ FECNextExpectedPacketNum <= NextSequenceNumber
          /\ ordered = Run(0, FECNextExpectedPacketNum)
          /\ unordered \in [Packets -> 0 .. 2]
          /\ FECNextExpectedPacketNum \in Nat /\ FECNextExpectedPacketNum \in Numbers
          /\ NextExpected = FECNextExpectedPacketNum
      BY Zenon DEF IInv, EncoderExact, HistoryExact, TypeOK, DeliveryTypeOK, RecoveryFacts
    <3> QED
      BY <3>1, <3>2, <3>3, <1>0, <2>1, <2>3, <2>5, <2>6, <2>7, <2>8, SMTT(30)
         DEF Outcome, deliveryVars
  <2>10. /\ LatestColumn' = r.end /\ LatestColumn' <= NextExpected'
         /\ LatestColumn' <= NextSequenceNumber /\ LatestColumn' \in Numbers
         /\ NextExpected' \in Nat
    BY <1>0, <1>2, <2>2, Zenon DEF RecoveryFacts, SentRange
  <2>11. ~(LatestColumn' > NextExpected')
    BY <2>10, SMTT(30) DEF RecoveryFacts
  <2>12. /\ r.start \in Numbers /\ r.start <= PeerNextExpectedSeqNum
         /\ ColumnStart <= from
         /\ UNCHANGED <<senderVars, acks, ackacks, LastAckAckSeq, originals>>
         /\ originals' \in [Packets -> Nat]
         /\ recoveries' \subseteq recoveries
    BY <2>5, <2>8, Zenon DEF RecoveryFacts, SentRange
  <2> QED
    BY <2>8, <2>9, <2>10, <2>11, <2>12, OutcomeIInv, SMTT(30)
<1> QED
  BY <1>1, <1>2, Zenon

(* A row over one packet is that packet, and the one expected next. *)
LEMMA SingleRecoveryIInv ==
    ASSUME IInv, NEW r \in recoveries, RecoveryFacts(r), SingleRecovery(r)
    PROVE  IInv'
<1> DEFINE set == held \cup {r.start}
           first == FECNextExpectedPacketNum
<1>1. /\ r.start = NextExpected /\ r.end = NextExpected + 1
      /\ r.start = first /\ first \in Nat
  BY SMTT(30) DEF SingleRecovery, UsefulRecovery, RecoveryFacts, SentRange
<1>2. r.start \notin held
  BY <1>1, Zenon DEF IInv, WindowExact
<1>3. Process(set, rows, ColumnStart, LastRecovery, <<>>, first, TRUE, {r.start})
  BY <1>2, Zenon DEF SingleRecovery
<1>4. Input(set, rows, ColumnStart, LastRecovery, <<>>, first, TRUE, {r.start})
  <2>1. <<>> = Run(first, first)
    BY <1>1, RunNone, Zenon
  <2>2. {r.start} = set \ held
    BY <1>2, Zenon
  <2>3. /\ r.start < NextSequenceNumber /\ ColumnStart <= r.start
        /\ r.start \in Packets
    BY <1>1, BoundsAssumption, SMTT(30) DEF RecoveryFacts, SentRange, Packets, Numbers
  <2>4. /\ held \subseteq Packets
        /\ \A p \in held : ColumnStart <= p /\ p < NextSequenceNumber
        /\ \A m \in ColumnStart .. first - 1 : m \in held
    BY Zenon DEF IInv, TypeOK, DecoderTypeOK, WindowExact
  <2>5. \A m \in first .. first - 1 : m \in set
    BY <1>1
  <2> QED
    <3>1. /\ set \subseteq Packets
          /\ \A p \in set : ColumnStart <= p /\ p < NextSequenceNumber
          /\ \A p \in held : p >= ColumnStart => p \in set
      BY <2>3, <2>4, Zenon
    <3>2. /\ FECNextExpectedPacketNum \in Numbers /\ FECNextExpectedPacketNum \in Nat
          /\ ColumnStart \in Nat /\ ColumnStart \in Numbers
          /\ ColumnStart <= FECNextExpectedPacketNum
      BY Zenon DEF RecoveryFacts
    <3>3. ColumnStart <= ColumnStart /\ FECNextExpectedPacketNum <= first
      BY <3>2
    <3>4. /\ \A m \in ColumnStart .. FECNextExpectedPacketNum - 1 : m \in set
          /\ \A m \in FECNextExpectedPacketNum .. first - 1 : m \in set
      BY <2>4, <2>5, Zenon
    <3>5. /\ rows \subseteq Ranges /\ \A q \in rows : SentRange(q)
          /\ LastRecovery \in Numbers /\ LastRecovery <= PeerNextExpectedSeqNum
          /\ rows # {} => /\ LastRecovery >= ColumnStart
                          /\ \E q \in rows : /\ q.start <= LastRecovery
                                             /\ \A r2 \in rows : r2.end <= q.end
      BY Zenon DEF RecoveryFacts
    <3> HIDE DEF set
    <3> QED
      BY <2>1, <2>2, <3>1, <3>2, <3>3, <3>4, <3>5, Zenon DEF Input
<1>5. Outcome(set, rows, ColumnStart, LastRecovery)
  BY <1>3, <1>4, ProcessOutcome, Zenon
<1>6. r.end <= NextExpected'
  <2>1. /\ ColumnStart' <= first /\ first <= NextExpected'
        /\ NextExpected' \notin held' /\ NextExpected' \in Nat
        /\ ColumnStart' <= first => first \in held'
    BY <1>1, <1>5 DEF Outcome, Numbers
  <2> QED
    BY <1>1, <2>1
<1> HIDE DEF set
<1> QED
  BY <1>5, <1>6, SameRowsIInv, Zenon

(* A row that is stored starts in the window.  In order, it is the last one *)
(* from now on; out of order, it starts no later than the last one does.    *)
LEMMA StoredRecoveryIInv ==
    ASSUME IInv, NEW r \in recoveries, RecoveryFacts(r),
           StoredRecovery(r, r.end < LatestColumn)
    PROVE  IInv'
<1> DEFINE stored == rows \cup {r}
           last == LastStart(r, r.end < LatestColumn)
           From(k) == IF r.start - ColumnStart >= RemoveThreshold
                      THEN Removed(ColumnStart, k, NextExpected)
                      ELSE ColumnStart
           first == FECNextExpectedPacketNum
           Set(from) == {p \in held : p >= from}
<1>1. PICK k \in Numbers :
        /\ Kept(k, stored, last, NextExpected)
        /\ Process(Set(From(k)), stored, From(k), last, <<>>, first, FALSE, {})
  BY Zenon DEF StoredRecovery
<1>2. r.start >= ColumnStart /\ r.end > NextExpected
  BY Zenon DEF StoredRecovery, UsefulRecovery
<1>3. k <= r.start /\ k \in Nat
  BY <1>1 DEF Kept, Numbers
<1>4. /\ From(k) \in Nat /\ ColumnStart <= From(k) /\ From(k) <= r.start
  <2>1. /\ Removed(ColumnStart, k, NextExpected) \in Nat
        /\ ColumnStart <= Removed(ColumnStart, k, NextExpected)
        /\ \/ Removed(ColumnStart, k, NextExpected) = ColumnStart
           \/ Removed(ColumnStart, k, NextExpected) <= k
    BY <1>3, RemovedBounds, Zenon DEF RecoveryFacts
  <2>2. ColumnStart \in Nat /\ r.start \in Nat
    BY Zenon DEF RecoveryFacts
  <2>3. CASE r.start - ColumnStart >= RemoveThreshold
    BY <1>2, <1>3, <2>1, <2>2, <2>3
  <2>4. CASE ~(r.start - ColumnStart >= RemoveThreshold)
    BY <1>2, <2>2, <2>4
  <2> QED
    BY <2>3, <2>4, Zenon
<1>5. PICK from \in Numbers : from = From(k)
  <2>1. r.start \in Nat /\ r.start \in Numbers
    BY Zenon DEF RecoveryFacts
  <2> HIDE DEF From
  <2>2. From(k) \in Numbers
    BY <1>4, <2>1, BoundsAssumption DEF Numbers
  <2> QED
    BY <2>2, Zenon
<1> HIDE DEF From
<1>6. /\ from \in Nat /\ ColumnStart <= from /\ from <= r.start
      /\ from <= first /\ first \in Nat
  BY <1>4, <1>5, SMTT(30) DEF RecoveryFacts, SentRange
<1>7. /\ last \in Numbers /\ last \in Nat /\ last <= PeerNextExpectedSeqNum
      /\ r.start <= last
      /\ \A q \in recoveries : q.end < LatestColumn' => q.start <= last
  <2>1. CASE r.end < LatestColumn
    <3>1. last = LastRecovery /\ LatestColumn' = LatestColumn
      BY <2>1, Zenon DEF LastStart, RecoveryFacts
    <3>2. LatestColumn > NextExpected
      BY <1>2, <2>1 DEF RecoveryFacts
    <3>3. \A q \in recoveries : q.end < LatestColumn => q.start <= LastRecovery
      BY <1>2, <2>1, <3>2, SMTT(30) DEF RecoveryFacts, IInv, RowsExact
    <3> QED
      BY <2>1, <3>1, <3>3, Zenon DEF RecoveryFacts
  <2>2. CASE ~(r.end < LatestColumn)
    <3>1. last = r.start /\ LatestColumn' = r.end
      BY <2>2, Zenon DEF LastStart, RecoveryFacts
    <3>2. \A q \in recoveries : q.end < r.end => q.start <= r.start
      BY Zenon DEF IInv, RowsExact
    <3> QED
      <4>1. /\ r.start \in Numbers /\ r.start \in Nat
            /\ r.start <= PeerNextExpectedSeqNum /\ r.start <= r.start
        BY SMTT(30) DEF RecoveryFacts, SentRange
      <4> QED
        BY <3>1, <3>2, <4>1, Zenon
  <2> QED
    BY <2>1, <2>2, Zenon
<1> HIDE DEF last
<1>8. /\ stored \subseteq Ranges
      /\ \A q \in stored : SentRange(q) /\ q.end <= LatestColumn'
      /\ LatestColumn' \in Numbers /\ LatestColumn' <= NextSequenceNumber
      /\ LatestColumn' \in Nat
  BY SMTT(90) DEF RecoveryFacts, SentRange
<1>9. \E q \in stored : q.start <= last /\ \A r2 \in stored : r2.end <= q.end
  <2>1. CASE \A r2 \in rows : r2.end <= r.end
    <3>1. \A r2 \in stored : r2.end <= r.end
      BY <2>1, SMTT(30) DEF RecoveryFacts
    <3> QED
      BY <3>1, <1>7, Zenon
  <2>2. CASE \E r2 \in rows : ~(r2.end <= r.end)
    <3>1. PICK q \in rows : /\ q.start <= LastRecovery
                            /\ \A r2 \in rows : r2.end <= q.end
      BY <2>2, Zenon DEF RecoveryFacts
    <3>2. r.end < q.end /\ q.end <= LatestColumn
      BY <2>2, <3>1, SMTT(30) DEF RecoveryFacts
    <3>3. last = LastRecovery
      BY <3>2, SMTT(30) DEF last, LastStart, RecoveryFacts
    <3>4. \A r2 \in stored : r2.end <= q.end
      BY <3>1, <3>2, SMTT(30) DEF RecoveryFacts
    <3> QED
      BY <3>1, <3>3, <3>4, Zenon
  <2> QED
    BY <2>1, <2>2, Zenon
<1>10. Input(Set(from), stored, from, last, <<>>, first, FALSE, {})
  <2>1. <<>> = Run(first, first)
    BY <1>6, RunNone, Zenon
  <2>2. {} = Set(from) \ held
    BY Zenon
  <2>3. /\ held \subseteq Packets
        /\ \A p \in held : ColumnStart <= p /\ p < NextSequenceNumber
        /\ \A m \in ColumnStart .. first - 1 : m \in held
        /\ first \notin held
    BY Zenon DEF IInv, TypeOK, DecoderTypeOK, WindowExact
  <2>4. /\ Set(from) \subseteq Packets /\ first \notin Set(from)
        /\ \A p \in Set(from) : from <= p /\ p < NextSequenceNumber
        /\ \A p \in held : p >= from => p \in Set(from)
    BY <2>3, <1>6, Zenon DEF Packets
  <2>5. \A m \in from .. first - 1 : m \in Set(from)
    BY <2>3, <1>6, SMTT(30) DEF RecoveryFacts
  <2>6. \A m \in first .. first - 1 : m \in Set(from)
    BY <1>6
  <2>7. last >= from /\ FALSE \in BOOLEAN
    BY <1>6, <1>7, SMTT(30) DEF RecoveryFacts
  <2>8. first \in Numbers /\ first <= first
    BY <1>6, SMTT(30) DEF RecoveryFacts
  <2> HIDE DEF stored, Set, first
  <2>9. \A q \in stored : SentRange(q)
    BY <1>8, Zenon
  <2> USE DEF first
  <2> QED
    BY <2>1, <2>2, <2>4, <2>5, <2>6, <2>7, <2>8, <2>9, <1>5, <1>6, <1>7, <1>8,
       <1>9, Zenon DEF Input
<1>11. Outcome(Set(from), stored, from, last)
  <2>1. Process(Set(from), stored, from, last, <<>>, first, FALSE, {})
    BY <1>1, <1>5, Zenon
  <2> HIDE DEF Set, stored, first
  <2> QED
    BY <2>1, <1>10, ProcessOutcome, Zenon
<1>12. last >= ColumnStart'
  <2>1. ColumnStart' <= last /\ ColumnStart' \in Nat
    BY <1>11 DEF Outcome, Numbers
  <2> QED
    BY <2>1, <1>7, Zenon
<1>13. /\ last >= ColumnStart'
       /\ \A q \in recoveries' : q.end < LatestColumn' => q.start <= last
  BY <1>12, <1>7, Zenon DEF RecoveryFacts
<1>14. /\ UNCHANGED <<senderVars, acks, ackacks, LastAckAckSeq, originals>>
       /\ originals' \in [Packets -> Nat]
       /\ recoveries' \subseteq recoveries
  BY Zenon DEF RecoveryFacts
<1> HIDE DEF stored, Set
<1> QED
  BY <1>5, <1>6, <1>7, <1>8, <1>9, <1>11, <1>13, <1>14, OutcomeIInv, Zenon

(* Every step of either side or of the network. *)
LEMMA NextIInv == IInv /\ [Next]_vars => IInv'
<1> SUFFICES ASSUME IInv, [Next]_vars PROVE IInv'
  BY Zenon
<1>1. CASE SendReliable
  BY <1>1, SendReliableIInv, Zenon
<1>2. ASSUME NEW p \in Packets,
             PostRetransmit(p) \/ ReceiveOriginal(p) \/ LoseOriginal(p)
      PROVE  IInv'
  BY <1>2, PostRetransmitIInv, ReceiveOriginalIInv, LoseIInv, Zenon
<1>3. ASSUME NEW row \in Rows, PostRecovery(row) PROVE IInv'
  BY <1>3, PostRecoveryIInv, Zenon
<1>4. ASSUME NEW r \in recoveries, ReceiveRecovery(r) PROVE IInv'
  <2>1. RecoveryFacts(r)
    BY <1>4, ReceiveRecoveryFacts, Zenon
  <2>2. \/ UnneededRecovery(r, r.end < LatestColumn)
        \/ SingleRecovery(r)
        \/ StoredRecovery(r, r.end < LatestColumn)
    BY <1>4, Zenon DEF ReceiveRecovery
  <2> QED
    BY <2>1, <2>2, UnneededRecoveryIInv, SingleRecoveryIInv, StoredRecoveryIInv, Zenon
<1>5. ASSUME NEW r \in recoveries, LoseRecovery(r) PROVE IInv'
  BY <1>5, LoseIInv, Zenon
<1>6. CASE PostAcknowledgements
  BY <1>6, PostAcknowledgementsIInv, Zenon
<1>7. ASSUME NEW i \in 1 .. Len(acks), OnAcknowledgements(i) \/ LoseAck(i)
      PROVE  IInv'
  BY <1>7, OnAcknowledgementsIInv, LoseIInv, Zenon
<1>8. ASSUME NEW n \in ackacks, ReceiveAckAck(n) \/ LoseAckAck(n) PROVE IInv'
  BY <1>8, AckAckIInv, Zenon
<1>9. CASE UNCHANGED vars
  BY <1>9, Zenon DEF vars, IInv, TypeOK, SenderTypeOK, NetworkTypeOK, DecoderTypeOK,
     DeliveryTypeOK, EncoderExact, InFlight, WindowExact, HistoryExact,
     RowsExact, SentRange, senderVars, decoderVars, deliveryVars
<1> QED
  BY <1>1, <1>2, <1>3, <1>4, <1>5, <1>6, <1>7, <1>8, <1>9, Zenon DEF Next

(* The invariant holds in every reachable state. *)
LEMMA Invariance == Spec => []IInv
  BY InitIInv, NextIInv, PTL DEF Spec

-----------------------------------------------------------------------------
(* What follows for every value of the constants *)

(* Every variable of both sides and of the network stays in its range: in   *)
(* particular no packet number runs ahead of what SendReliable assigned.    *)
THEOREM TypeCorrect == Spec => []TypeOK
<1>1. IInv => TypeOK
  BY Zenon DEF IInv
<1> QED
  BY <1>1, Invariance, PTL

(* Reliable messages are delivered in the order they were sent, each once,  *)
(* whatever the network does and whatever the rows solve for                *)
(* (ProcessDatagram, attemptDecode, resumeProcessing).                      *)
THEOREM OrderedDelivery == Spec => []InOrderExactlyOnce
<1>1. IInv => InOrderExactlyOnce
  BY Zenon DEF IInv, HistoryExact, EncoderExact, InOrderExactlyOnce
<1> QED
  BY <1>1, Invariance, PTL

(* The session's and the decoder's copies of the next expected packet       *)
(* number agree between datagrams, and the window holds what is not read.   *)
THEOREM CopiesAlwaysAgree == Spec => []CopiesAgree
<1>1. IInv => CopiesAgree
  BY Zenon DEF IInv, WindowExact, CopiesAgree
<1> QED
  BY <1>1, Invariance, PTL

(* RemoveBefore() and Encode() never remove from the encoder a packet the   *)
(* receiver still misses.                                                   *)
THEOREM NothingStranded == Spec => []UndeliveredRetransmittable
<1>1. IInv => UndeliveredRetransmittable
  <2> SUFFICES ASSUME IInv, NEW p \in Packets, FECNextExpectedPacketNum <= p,
                      p < NextSequenceNumber
               PROVE  Retransmittable(p)
    BY Zenon DEF UndeliveredRetransmittable
  <2>1. /\ PeerNextExpectedSeqNum \in Nat /\ FECNextExpectedPacketNum \in Nat
        /\ NextSequenceNumber \in Nat /\ EncoderStart \in Nat /\ Count \in Nat
        /\ FirstUnremoved \in Nat /\ p \in Nat
    BY DEF IInv, TypeOK, SenderTypeOK, DeliveryTypeOK, Numbers, Packets
  <2> QED
    BY <2>1 DEF IInv, EncoderExact, Retransmittable
<1> QED
  BY <1>1, Invariance, PTL

(* PostAcknowledgements() is silent only while the sender knows everything  *)
(* the receiver has.                                                        *)
THEOREM SilenceJustified == Spec => []SilentOnlyWhenKnown
<1>1. IInv => SilentOnlyWhenKnown
  <2> SUFFICES ASSUME IInv, LastAckAckSeq = FECNextExpectedPacketNum
               PROVE  PeerNextExpectedSeqNum = FECNextExpectedPacketNum
    BY Zenon DEF SilentOnlyWhenKnown
  <2>1. PeerNextExpectedSeqNum \in Nat /\ FECNextExpectedPacketNum \in Nat
    BY DEF IInv, TypeOK, SenderTypeOK, DeliveryTypeOK, Numbers
  <2> QED
    BY <2>1 DEF IInv, InFlight, EncoderExact
<1> QED
  BY <1>1, Invariance, PTL

(* The branch of RemoveElements() marked "Should never happen" is never     *)
(* taken: the decoder is not disabled.                                      *)
THEOREM DecoderStaysEnabled == Spec => []NeverDisabled
<1>1. IInv => NeverDisabled
  BY Zenon DEF IInv, RowsExact, NeverDisabled
<1> QED
  BY <1>1, Invariance, PTL

(* Unordered messages are delivered as their packets arrive, and again only *)
(* when the packet has left the decoder window.                             *)
THEOREM UnorderedDelivery == Spec => []UnorderedOnceInWindow
<1>1. IInv => UnorderedOnceInWindow
  <2> SUFFICES ASSUME IInv, NEW p \in Packets
               PROVE  /\ p \in held \/ p < FECNextExpectedPacketNum
                            => unordered[p] >= 1
                      /\ unordered[p] > 1 => p < ColumnStart
    BY Zenon DEF UnorderedOnceInWindow
  <2>1. /\ p \in Int /\ ColumnStart \in Int /\ FECNextExpectedPacketNum \in Int
        /\ unordered[p] \in Int
    BY DEF IInv, TypeOK, DecoderTypeOK, DeliveryTypeOK, Numbers, Packets
  <2>2. /\ p < ColumnStart => unordered[p] >= 1
        /\ p >= ColumnStart /\ p \in held => unordered[p] = 1
        /\ p >= ColumnStart /\ p \notin held => unordered[p] = 0
    BY Zenon DEF IInv, HistoryExact
  <2>3. p \in ColumnStart .. FECNextExpectedPacketNum - 1 => p \in held
    BY Zenon DEF IInv, WindowExact
  <2> QED
    BY <2>1, <2>2, <2>3
<1> QED
  BY <1>1, Invariance, PTL

-----------------------------------------------------------------------------
(* The refinement *)

(* Sending one more packet. *)
LEMMA RunAppend ==
    ASSUME NEW n \in Nat
    PROVE  Run(0, n + 1) = Append(Run(0, n), n)
  BY DEF Run

(* A shorter run from the same start is a prefix. *)
LEMMA RunPrefix ==
    ASSUME NEW n \in Nat, NEW m \in Nat, m <= n
    PROVE  SubSeq(Run(0, n), 1, m) = Run(0, m)
  BY DEF Run

(* Processing a datagram never takes the next expected number back. *)
LEMMA ProcessForward ==
    ASSUME NEW set, NEW stored, NEW from, NEW last, NEW inSequence,
           NEW first \in Numbers, NEW resume, NEW seen,
           Process(set, stored, from, last, inSequence, first, resume, seen)
    PROVE  /\ FECNextExpectedPacketNum' \in Numbers
           /\ first <= FECNextExpectedPacketNum'
<1>1. \E recovered :
        /\ FECNextExpectedPacketNum' \in Numbers
        /\ IF resume \/ recovered # {}
           THEN FirstMissing(FECNextExpectedPacketNum', first, held')
           ELSE FECNextExpectedPacketNum' = first
  BY Zenon DEF Process
<1>2. \/ FECNextExpectedPacketNum' >= first
      \/ FECNextExpectedPacketNum' = first
  BY <1>1, Zenon DEF FirstMissing
<1>3. first \in Int /\ FECNextExpectedPacketNum' \in Int
  BY <1>1 DEF Numbers
<1> QED
  BY <1>1, <1>2, <1>3

(* Nor does any other step. *)
LEMMA NeverBack ==
    ASSUME IInv, Next
    PROVE  FECNextExpectedPacketNum <= FECNextExpectedPacketNum'
<1> DEFINE fec == FECNextExpectedPacketNum
<1>t. fec \in Numbers /\ fec \in Nat
  BY DEF IInv, TypeOK, DeliveryTypeOK, Numbers
<1>1. CASE UNCHANGED fec
  BY <1>1, <1>t
<1>2. ASSUME NEW p \in Packets, ReceiveOriginal(p)
      PROVE  fec <= fec'
  <2>1. CASE p < ColumnStart \/ p \in held
    BY <1>2, <2>1, <1>1, Zenon DEF ReceiveOriginal
  <2>2. CASE ~(p < ColumnStart \/ p \in held)
    <3> DEFINE first == IF p = fec THEN p + 1 ELSE fec
    <3>1. Process(held \cup {p}, rows, ColumnStart, LastRecovery,
                  InSequence(p), first, p = fec, FirstSeen(p))
      BY <1>2, <2>2, Zenon DEF ReceiveOriginal
    <3>2. first \in Numbers /\ fec <= first /\ first \in Nat
      BY <1>t, BoundsAssumption DEF Packets, Numbers
    <3> HIDE DEF first
    <3>3. first <= fec' /\ fec' \in Numbers
      BY <3>1, <3>2, ProcessForward, Zenon
    <3> QED
      BY <3>2, <3>3, <1>t DEF Numbers
  <2> QED
    BY <2>1, <2>2, Zenon
<1>3. ASSUME NEW r \in recoveries, ReceiveRecovery(r)
      PROVE  fec <= fec'
  <2>1. CASE UnneededRecovery(r, r.end < LatestColumn)
    BY <2>1, <1>1, Zenon DEF UnneededRecovery, deliveryVars
  <2>2. CASE SingleRecovery(r)
    <3>1. \/ UNCHANGED deliveryVars
          \/ Process(held \cup {r.start}, rows, ColumnStart, LastRecovery,
                     <<>>, fec, TRUE, {r.start})
      BY <2>2, Zenon DEF SingleRecovery
    <3> QED
      BY <3>1, <1>1, <1>t, ProcessForward, Zenon DEF deliveryVars
  <2>3. CASE StoredRecovery(r, r.end < LatestColumn)
    <3>1. \E set, stored, from, last :
             Process(set, stored, from, last, <<>>, fec, FALSE, {})
      BY <2>3, Zenon DEF StoredRecovery
    <3> QED
      BY <3>1, <1>t, ProcessForward, Zenon
  <2> QED
    BY <1>3, <2>1, <2>2, <2>3, Zenon DEF ReceiveRecovery
<1>4. \/ UNCHANGED fec
      \/ \E p \in Packets : ReceiveOriginal(p)
      \/ \E r \in recoveries : ReceiveRecovery(r)
  BY Zenon DEF Next, SendReliable, PostRetransmit, LoseOriginal, PostRecovery,
         LoseRecovery, PostAcknowledgements, OnAcknowledgements, LoseAck,
         ReceiveAckAck, LoseAckAck, deliveryVars
<1> QED
  BY <1>1, <1>2, <1>3, <1>4, Zenon

(* A step sends one message, delivers the next ones, or does neither. *)
LEMMA StreamStep ==
    ASSUME IInv, IInv', [Next]_vars
    PROVE  [Stream!Send \/ Stream!Deliver]_(Stream!streamVars)
<1> DEFINE n == NextSequenceNumber
           fec == FECNextExpectedPacketNum
<1>t. /\ n \in Nat /\ fec \in Nat /\ fec' \in Nat /\ fec <= n /\ fec' <= n'
      /\ ordered = Run(0, fec) /\ ordered' = Run(0, fec')
  <2>1. /\ n \in Numbers /\ fec \in Numbers /\ fec <= n /\ ordered = Run(0, fec)
    BY Zenon DEF IInv, TypeOK, SenderTypeOK, DeliveryTypeOK, EncoderExact, HistoryExact
  <2>2. /\ fec' \in Numbers /\ fec' <= n' /\ ordered' = Run(0, fec')
    BY Zenon DEF IInv, TypeOK, DeliveryTypeOK, EncoderExact, HistoryExact
  <2> HIDE DEF n, fec
  <2> QED
    BY <2>1, <2>2 DEF Numbers
<1>1. CASE SendReliable
  <2>1. n \in Packets /\ n' = n + 1 /\ ordered' = ordered
    BY <1>1, Zenon DEF SendReliable, deliveryVars
  <2>2. Run(0, n') = Append(Run(0, n), n)
    BY <2>1, <1>t, RunAppend, Zenon
  <2>3. Stream!Send
    BY <2>1, <2>2, Zenon DEF Stream!Send
  <2> QED
    BY <2>3, Zenon
<1>2. CASE Next /\ UNCHANGED n
  <2>1. fec <= fec'
    BY <1>2, NeverBack, Zenon
  <2>2. CASE fec' = fec
    BY <2>2, <1>2, <1>t, Zenon DEF Stream!streamVars
  <2>3. CASE fec' # fec
    <3> DEFINE m == fec'
    <3> HIDE DEF m
    <3>1. m \in Nat /\ m <= n /\ fec < m /\ ordered' = Run(0, m)
      BY <2>1, <2>3, <1>2, <1>t DEF m
    <3>2. Len(Run(0, n)) = n /\ Len(ordered) = fec
      <4>1. \A b \in Nat : Len(Run(0, b)) = b
        BY DEF Run
      <4> QED
        BY <4>1, <1>t, Zenon
    <3>3. ordered' = SubSeq(Run(0, n), 1, m)
      BY <3>1, <1>t, RunPrefix, Zenon
    <3>4. m \in Len(ordered) + 1 .. Len(Run(0, n))
      BY <3>1, <3>2, <1>t
    <3>5. Run(0, n') = Run(0, n)
      BY <1>2, Zenon
    <3> QED
      BY <3>3, <3>4, <3>5, Zenon DEF Stream!Deliver
  <2> QED
    BY <2>2, <2>3, Zenon
<1>3. CASE UNCHANGED vars
  BY <1>3, Zenon DEF vars, senderVars, deliveryVars, Stream!streamVars
<1>4. Next => SendReliable \/ UNCHANGED n
  BY Zenon DEF Next, PostRetransmit, ReceiveOriginal, LoseOriginal, PostRecovery,
         ReceiveRecovery, LoseRecovery, PostAcknowledgements,
         OnAcknowledgements, LoseAck, ReceiveAckAck, LoseAckAck, senderVars
<1> QED
  BY <1>1, <1>2, <1>3, <1>4, Zenon

(* One direction of a connection implements the stream tonk.h promises:     *)
(* what tonk_send() accepted comes out of OnData() in that order, without   *)
(* gaps or repetitions.                                                     *)
THEOREM StreamRefinement == Spec => ImplementsStream
<1>1. Init => Stream!StreamInit
  BY RunNone, Zenon DEF Init, Stream!StreamInit
<1>2. IInv /\ IInv' /\ [Next]_vars
         => [Stream!Send \/ Stream!Deliver]_(Stream!streamVars)
  BY StreamStep, Zenon
<1> QED
  BY <1>1, <1>2, Invariance, PTL DEF Spec, ImplementsStream, Stream!StreamSpec
=============================================================================
