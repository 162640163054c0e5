-------------------------- MODULE DatagramNumbers --------------------------
(***************************************************************************)
(* The numbers in the footer of every datagram of one direction of a       *)
(* connection: a nonce, and for reliable data a packet number.  Each is    *)
(* truncated to as few bytes as the sender believes the receiver needs,    *)
(* judged from the last acknowledgement or time sync message, and expanded *)
(* around what the receiver has seen when the datagram arrives.  Datagrams *)
(* are lost, duplicated and reordered, and so are the acknowledgements and *)
(* time sync messages that come back.                                      *)
(*                                                                         *)
(* Variables count without wrapping; packet numbers wrap at SeqRange       *)
(* wherever the code computes with them.  The nonces of a run fit the      *)
(* anti-replay window (module StrikeRegister), and a datagram whose nonce  *)
(* is misread fails its 16-bit tag.                                        *)
(***************************************************************************)
EXTENDS Counter, FiniteSets

CONSTANTS
    Half1, Half2, Half3,  \* 0x80, 0x8000, 0x800000: half the range of a field
    SeqRange,      \* 2^22: packet numbers wrap here
    NonceRange,    \* 2^64: nonces wrap here
    Window,        \* SIAMESE_MAX_PACKETS
    Starts,        \* packets exchanged and acknowledged before the run
    MaxDatagrams,  \* bound: datagrams sent, with the feedback
    MaxFeedback    \* bound: acknowledgements and time syncs sent back

ASSUME FieldAssumption ==
    /\ Half1 \in Nat /\ Half2 \in Nat /\ Half3 \in Nat
    /\ 0 < Half1 /\ Half1 < Half2 /\ Half2 < Half3
    /\ SeqRange \in Nat /\ SeqRange > 0
    /\ SeqRange % (2 * Half1) = 0 /\ SeqRange % (2 * Half2) = 0
    /\ Window \in Nat /\ Window + Half2 <= SeqRange
ASSUME BoundAssumption ==
    /\ Starts \subseteq Nat /\ MaxDatagrams \in Nat /\ MaxFeedback \in Nat
    /\ NonceRange \in Nat /\ MaxDatagrams < Half3
    /\ NonceRange > 2 * Half3
    /\ NonceRange % (2 * Half1) = 0 /\ NonceRange % (2 * Half2) = 0
    /\ NonceRange % (2 * Half3) = 0
    /\ \A s \in Starts : s + MaxDatagrams + 1 < NonceRange - Half3

FieldRange(bytes) == IF bytes = 1 THEN 2 * Half1
                     ELSE IF bytes = 2 THEN 2 * Half2 ELSE 2 * Half3
NoSeq == -1  \* unreliable data or a recovery packet

VARIABLES
    (* SessionOutgoing *)
    NextNonce, NextSequenceNumber,
    PeerNextExpectedNonce, PeerNextExpectedSeqNum, NextAcceptableNonce,
    ShouldCompressSequenceNumbers,
    disconnected,   \* an acknowledgement was refused as invalid
    (* the network *)
    sent,           \* datagrams not accepted yet, by nonce: any may arrive,
                    \* at any time; the others only as duplicates
    feedback,       \* messages on the way back
    NextFeedback,   \* nonce of the next one
    (* SessionIncoming *)
    struck,         \* nonces accepted
    LargestSequence,
    have,           \* packet numbers the decoder has beyond the next expected
    FECNextExpectedPacketNum,
    misfiled        \* history: data was filed under another packet's number

acked == <<PeerNextExpectedNonce, PeerNextExpectedSeqNum, NextAcceptableNonce>>
receiver == <<struck, LargestSequence, have, FECNextExpectedPacketNum, misfiled>>
vars == <<NextNonce, NextSequenceNumber, acked, ShouldCompressSequenceNumbers,
          disconnected, sent, feedback, NextFeedback, receiver>>

(* A connection on which every datagram so far carried a packet, arrived    *)
(* and was acknowledged; a new one when the start is 0.                     *)
Init ==
    /\ NextSequenceNumber \in Starts
    /\ NextNonce = NextSequenceNumber
    /\ PeerNextExpectedNonce = NextNonce
    /\ PeerNextExpectedSeqNum = NextSequenceNumber
    /\ NextAcceptableNonce = 0 /\ NextFeedback = 0
    /\ ShouldCompressSequenceNumbers = TRUE /\ disconnected = FALSE
    /\ sent = <<>> /\ feedback = {} /\ struck = {} /\ misfiled = FALSE
    /\ LargestSequence = (IF NextNonce = 0 THEN 0 ELSE NextNonce - 1)
    /\ FECNextExpectedPacketNum = NextSequenceNumber
    /\ have = {}

-----------------------------------------------------------------------------
(* The sender *)

Abs(x) == IF x < 0 THEN -x ELSE x

(* Fewest bytes for a distance; one more makes room for the sign. *)
BytesFor(mag) == IF mag + 1 < Half1 THEN 1 ELSE IF mag + 1 < Half2 THEN 2 ELSE 3

(* The bytes writeNonce() spends: none for the nonce after the one the      *)
(* peer was last known to expect.                                           *)
WriteNonceBytes ==
    IF ~ShouldCompressSequenceNumbers THEN 3
    ELSE LET mag == NextNonce - PeerNextExpectedNonce
         IN  IF mag = 1 THEN 0 ELSE BytesFor(Abs(mag))

(* Fault: only the distance from the last acknowledgement counts. *)
BugGetPacketNumBytes(packetNum) ==
    IF ~ShouldCompressSequenceNumbers THEN 3
    ELSE BytesFor(Abs(packetNum - (PeerNextExpectedSeqNum % SeqRange)))

(* The larger of the distances from the number last acknowledged and from   *)
(* the next one to send.                                                    *)
GetPacketNumBytes(packetNum) ==
    IF ~ShouldCompressSequenceNumbers THEN 3
    ELSE LET mag == Abs(packetNum - (PeerNextExpectedSeqNum % SeqRange))
             mag2 == Abs(packetNum - (NextSequenceNumber % SeqRange))
         IN  BytesFor(IF mag < mag2 THEN mag2 ELSE mag)

Sent == Cardinality(DOMAIN sent) + Cardinality(struck)

(* A datagram leaves with the next nonce.  `upto` and `first` are history:  *)
(* the packets added to the encoder by then, and whether it added one.      *)
SendDatagram(seq, seqBytes, upto) ==
    /\ ~disconnected
    /\ Sent + NextFeedback < MaxDatagrams
    /\ sent' = [n \in DOMAIN sent \cup {NextNonce} |->
                  IF n \in DOMAIN sent THEN sent[n]
                  ELSE [nonceBytes |-> WriteNonceBytes, seq |-> seq,
                        seqBytes |-> seqBytes, upto |-> upto,
                        first |-> upto > NextSequenceNumber]]
    /\ NextNonce' = NextNonce + 1
    /\ UNCHANGED <<acked, ShouldCompressSequenceNumbers, disconnected,
                   feedback, NextFeedback, receiver>>

(* New reliable data, while the encoder window has room.  The bytes are     *)
(* chosen before NextSequenceNumber advances.                               *)
SendQueuedReliable ==
    /\ NextSequenceNumber - PeerNextExpectedSeqNum < Window
    /\ SendDatagram(NextSequenceNumber,
                    GetPacketNumBytes(NextSequenceNumber % SeqRange),
                    NextSequenceNumber + 1)
    /\ NextSequenceNumber' = NextSequenceNumber + 1

(* Any packet not acknowledged may be due. *)
PostRetransmit ==
    /\ \E seq \in PeerNextExpectedSeqNum .. NextSequenceNumber - 1 :
           SendDatagram(seq, GetPacketNumBytes(seq % SeqRange),
                        NextSequenceNumber)
    /\ UNCHANGED NextSequenceNumber

(* Recovery packets, probes and unreliable messages. *)
SendUnnumbered ==
    SendDatagram(NoSeq, 0, NextSequenceNumber) /\ UNCHANGED NextSequenceNumber

(* A duplicate or a bad tag in the other direction. *)
DisableSequenceNumberCompress ==
    /\ ShouldCompressSequenceNumbers
    /\ ShouldCompressSequenceNumbers' = FALSE
    /\ UNCHANGED <<NextNonce, NextSequenceNumber, acked, disconnected, sent,
                   feedback, NextFeedback, receiver>>

-----------------------------------------------------------------------------
(* The receiver *)

ReadNonce(n) ==
    IF sent[n].nonceBytes = 0 THEN LargestSequence + 1
    ELSE ExpandFromTruncated(LargestSequence,
             Truncate(n, FieldRange(sent[n].nonceBytes)),
             FieldRange(sent[n].nonceBytes), NonceRange)

(* The tag binds a datagram to its nonce. *)
Authentic(n) == ReadNonce(n) = n

LargestAfter(n) == IF n > LargestSequence THEN n ELSE LargestSequence

(* Fault: reordered datagrams are never refused. *)
BugIgnoredReordered(n) == FALSE

(* A late datagram whose packet number has fewer bytes than its nonce is    *)
(* refused; its nonce stays struck.                                         *)
IgnoredReordered(n) ==
    /\ sent[n].seqBytes > 0
    /\ sent[n].seqBytes < sent[n].nonceBytes
    /\ LargestAfter(n) + 1 > n + 1

ReadSeq(n) ==
    LET d == sent[n]
        num == d.seq % SeqRange
    IN  IF d.seqBytes = 3 THEN num
        ELSE ExpandFromTruncated(FECNextExpectedPacketNum % SeqRange,
                 Truncate(num, FieldRange(d.seqBytes)), FieldRange(d.seqBytes), SeqRange)

(* The packet a wrapped number means to the decoder: the nearest one. *)
Unwrapped(num) ==
    FECNextExpectedPacketNum
      + Signed((num - (FECNextExpectedPacketNum % SeqRange)) % SeqRange, SeqRange)

(* The decoder is given the numbers `got`; the next expected one advances   *)
(* past every number it now has.                                            *)
Decode(got) ==
    \E next \in FECNextExpectedPacketNum .. FECNextExpectedPacketNum
                                            + Cardinality(have \cup got) :
        /\ next \notin have \cup got
        /\ \A p \in FECNextExpectedPacketNum .. next - 1 : p \in have \cup got
        /\ FECNextExpectedPacketNum' = next
        /\ have' = {p \in have \cup got : p > next}

Strike(n) ==
    /\ struck' = struck \cup {n}
    /\ sent' = [m \in DOMAIN sent \ {n} |-> sent[m]]
    /\ LargestSequence' = LargestAfter(n)

receiverOnly == <<NextNonce, NextSequenceNumber, acked,
                  ShouldCompressSequenceNumbers, disconnected, feedback,
                  NextFeedback>>

(* Duplicates and bad tags change nothing in this direction. *)
ReceiveBogon ==
    /\ struck # {} \/ \E n \in DOMAIN sent : ~Authentic(n)
    /\ UNCHANGED vars

ReceiveReordered ==
    /\ \E n \in DOMAIN sent :
           Authentic(n) /\ IgnoredReordered(n) /\ Strike(n)
    /\ UNCHANGED <<receiverOnly, have, FECNextExpectedPacketNum, misfiled>>

ReceiveReliable ==
    /\ \E n \in DOMAIN sent :
           /\ sent[n].seqBytes > 0
           /\ Authentic(n) /\ ~IgnoredReordered(n) /\ Strike(n)
           /\ LET p == Unwrapped(ReadSeq(n))
              IN  /\ Decode(IF p >= FECNextExpectedPacketNum THEN {p} ELSE {})
                  /\ misfiled' = (misfiled
                         \/ (p >= FECNextExpectedPacketNum /\ p # sent[n].seq))
    /\ UNCHANGED receiverOnly

(* A recovery packet may solve for every packet that went before it. *)
ReceiveUnnumbered ==
    /\ \E n \in DOMAIN sent, solved \in BOOLEAN :
           /\ sent[n].seqBytes = 0
           /\ Authentic(n) /\ Strike(n)
           /\ Decode(IF solved
                     THEN FECNextExpectedPacketNum .. sent[n].upto - 1 ELSE {})
    /\ UNCHANGED <<receiverOnly, misfiled>>

-----------------------------------------------------------------------------
(* Acknowledgements and time sync messages *)

GetNextExpectedNonce24 == Truncate(LargestSequence + 1, FieldRange(3))

(* Both carry the next expected nonce; an acknowledgement also carries the  *)
(* next expected packet number.  Either side starts once the first datagram *)
(* of the other, which asked for the connection, is there.                  *)
PostFeedback(isAck) ==
    /\ NextNonce > 0 /\ NextFeedback < MaxFeedback
    /\ Sent + NextFeedback < MaxDatagrams
    /\ feedback' = feedback \cup
           {[nonce |-> NextFeedback, isAck |-> isAck,
             next |-> GetNextExpectedNonce24,
             seq |-> FECNextExpectedPacketNum]}
    /\ NextFeedback' = NextFeedback + 1
    /\ UNCHANGED <<NextNonce, NextSequenceNumber, acked,
                   ShouldCompressSequenceNumbers, disconnected, sent, receiver>>
PostAcknowledgements == PostFeedback(TRUE)
OnTimeSyncSendTimer == PostFeedback(FALSE)

Recovered(f) == ExpandFromTruncated(PeerNextExpectedNonce, f.next, FieldRange(3),
                                    NonceRange)

senderOnly == <<NextNonce, NextSequenceNumber, ShouldCompressSequenceNumbers,
                sent, NextFeedback, receiver>>

(* One that is older than the last is ignored; one that expects an earlier  *)
(* nonce than the peer was known to expect ends the connection.             *)
OnAcknowledgements(f) ==
    /\ f.isAck /\ ~disconnected
    /\ feedback' = feedback \ {f}
    /\ IF f.nonce < NextAcceptableNonce
       THEN UNCHANGED <<acked, disconnected>>
       ELSE /\ NextAcceptableNonce' = f.nonce + 1
            /\ IF LessThan(Recovered(f), PeerNextExpectedNonce, NonceRange)
               THEN /\ disconnected' = TRUE
                    /\ UNCHANGED <<PeerNextExpectedNonce,
                                   PeerNextExpectedSeqNum>>
               ELSE /\ PeerNextExpectedNonce' = Recovered(f)
                    /\ PeerNextExpectedSeqNum' = f.seq
                    /\ UNCHANGED disconnected
    /\ UNCHANGED senderOnly

OnTimeSync(f) ==
    /\ ~f.isAck /\ ~disconnected
    /\ feedback' = feedback \ {f}
    /\ PeerNextExpectedNonce' =
           IF LessThan(PeerNextExpectedNonce, Recovered(f), NonceRange)
           THEN Recovered(f) ELSE PeerNextExpectedNonce
    /\ UNCHANGED <<senderOnly, PeerNextExpectedSeqNum, NextAcceptableNonce,
                   disconnected>>

Next ==
    \/ SendQueuedReliable \/ PostRetransmit \/ SendUnnumbered
    \/ DisableSequenceNumberCompress
    \/ ReceiveBogon \/ ReceiveReordered \/ ReceiveReliable \/ ReceiveUnnumbered
    \/ PostAcknowledgements \/ OnTimeSyncSendTimer
    \/ \E f \in feedback : OnAcknowledgements(f)
    \/ \E f \in feedback : OnTimeSync(f)

Spec == Init /\ [][Next]_vars

-----------------------------------------------------------------------------
(* Properties *)

Datagrams == [nonceBytes : 0 .. 3, seq : Nat \cup {NoSeq}, seqBytes : 0 .. 3,
              upto : Nat, first : BOOLEAN]

(* Nonces are used once and in order, every datagram carries a number only  *)
(* of a packet that exists, and only nonces that were sent are struck.      *)
TypeOK ==
    /\ NextNonce \in Nat /\ NextSequenceNumber \in Nat
    /\ PeerNextExpectedNonce \in Nat /\ PeerNextExpectedSeqNum \in Nat
    /\ NextAcceptableNonce \in 0 .. NextFeedback
    /\ ShouldCompressSequenceNumbers \in BOOLEAN /\ disconnected \in BOOLEAN
    /\ \E first \in 0 .. NextNonce :
           DOMAIN sent \cup struck = first .. NextNonce - 1
    /\ \A n \in DOMAIN sent :
           /\ sent[n] \in Datagrams
           /\ sent[n].seq < sent[n].upto /\ sent[n].upto <= NextSequenceNumber
    /\ NextFeedback \in 0 .. MaxFeedback
    /\ \A f \in feedback : /\ f.nonce \in 0 .. NextFeedback - 1
                           /\ f.next \in 0 .. FieldRange(3) - 1 /\ f.seq \in Nat
    /\ struck \cap DOMAIN sent = {}
    /\ LargestSequence \in Nat /\ LargestSequence <= NextNonce
    /\ have \subseteq Nat /\ FECNextExpectedPacketNum \in Nat \ have
    /\ misfiled \in BOOLEAN

Newest(n) == n \in DOMAIN sent /\ n >= LargestSequence

(* A datagram newer than every one accepted before expands to its own nonce *)
(* and packet number, whatever acknowledgements the sender had seen when it *)
(* chose the bytes, across the wrap at 2^22 and however far recovery        *)
(* packets have moved the receiver on (writeNonce, getPacketNumBytes,       *)
(* StrikeRegister::Expand, ProcessDatagram).                                *)
NewestDecodes ==
    \A n \in DOMAIN sent : Newest(n) =>
        /\ sent[n].nonceBytes > 0 => ReadNonce(n) = n
        /\ sent[n].seqBytes > 0 /\ ~misfiled => ReadSeq(n) = sent[n].seq % SeqRange

(* However late the first datagram of a packet arrives, it is refused or    *)
(* expands to its own packet number: by the time the number is ambiguous    *)
(* so is the nonce (ProcessDatagram, "Ignored re-ordered").                 *)
FirstTransmissionDecodes ==
    ~misfiled => \A n \in DOMAIN sent :
        sent[n].first /\ Authentic(n) /\ ~IgnoredReordered(n)
            => ReadSeq(n) = sent[n].seq % SeqRange

(* The peer never expects a nonce that was not sent next, so writeNonce()   *)
(* never sees the negative difference it marks "Should never happen".       *)
PeerNeverAhead ==
    /\ PeerNextExpectedNonce <= NextNonce
    /\ ~misfiled => PeerNextExpectedSeqNum <= FECNextExpectedPacketNum

(* Data is never filed under another packet's number ("include enough bits  *)
(* so that any possible number can decode the new one", getPacketNumBytes). *)
NeverMisfiled == ~misfiled

(* Reordering on the way back never ends a connection: NextAcceptableNonce  *)
(* "avoids processing ack messages out of order" (AckInfo).                 *)
ReorderedAckTolerated == ~disconnected
=============================================================================
