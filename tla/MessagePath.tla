---------------------------- MODULE MessagePath ----------------------------
(***************************************************************************)
(* The path of a message through one direction of a connection: tonk_send() *)
(* splits it into the buffers of a queue, Flush() compresses the buffers    *)
(* and combines them into datagrams, and the receiver parses the frames,    *)
(* keeps its decompression history, and puts the messages together again.   *)
(*                                                                          *)
(* The app queues while the strand flushes; OutgoingQueueLock makes one     *)
(* call of a queue atomic, so one iteration of a loop of Flush() is one     *)
(* step here. Between the two ends, reliable data arrives once and in order *)
(* (module ReliableDelivery), directly from a datagram or later, out of the *)
(* decoder; unreliable data may be lost.                                    *)
(***************************************************************************)
EXTENDS Integers, Sequences, SequencesExt, FiniteSets

CONSTANTS
    Section,       \* MaxMessageSectionBytes
    Alloc,         \* kCompressionAllocateBytes
    Ring,          \* kCompressionDictBytes
    FrameBytes,    \* kMessageFrameBytes
    SplitMinimum,  \* kMessageSplitMinimumBytes
    MaxReliable,   \* TONK_MAX_RELIABLE_BYTES
    MaxUnreliable, \* TONK_MAX_UNRELIABLE_BYTES
    Channels,      \* channel numbers of each reliable class
    Sizes,         \* sizes of the reliable messages the app sends
    Shorts,        \* <<type, size>> of the other messages that are sent
    Padding,       \* size of the padding that may end a datagram
    MaxSent,       \* bound: reliable messages
    MaxShorts,     \* bound: other messages
    MaxWire,       \* bound: datagrams under way when the next flush begins
    NoBuffer       \* a null pointer

ASSUME MessagePathAssumption ==
    /\ FrameBytes + SplitMinimum <= Section
    /\ FrameBytes + MaxUnreliable <= Section
    /\ Section <= Alloc /\ Alloc <= Ring

Classes == {"reliable", "lowpri"}

Queues == {"unreliable", "unmetered"} \cup Classes

VARIABLES
    queue,    \* Queues: OutBuffer, the list of full buffers, QueuedBytes
    hasPeer,  \* HasPeerAddress
    pc,       \* the queue Flush() works on, or "idle"
    final,    \* finalUnreliable
    combined, \* the datagram being combined: unreliable and reliable frames
    prevFail, \* prevCompressFailed
    hist,     \* what the compressor has put into its ring, frame by frame
    sendAt,   \* NextWriteOffset of the compressor's ring
    wire,     \* the datagrams sent and not yet processed
    peer,     \* the receiver
    sent,     \* the messages tonk_send() accepted, of each class
    refused,  \* the messages it refused as too large
    shorts,   \* the number of other messages
    apart     \* history: two blocks of the compressor that are not adjacent in
              \*   its ring were sent as one run of frames

vars == <<queue, hasPeer, pc, final, combined, prevFail, hist, sendAt, wire,
          peer, sent, refused, shorts, apart>>

appVars == <<sent, refused, shorts>>
compressor == <<hist, sendAt, apart>>
flushVars == <<pc, final, combined, prevFail, compressor, wire>>

(* A frame: its type; for a piece of a reliable message the class and       *)
(* channel, the number of the message in its class and the first byte of    *)
(* the piece; for a compressed frame the frames it stands for (body) and,   *)
(* as "from", how far the compressor's history had come before it.          *)
Frame(type, ch, msg, from, size, body) ==
    [type |-> type, ch |-> ch, msg |-> msg, from |-> from, size |-> size,
     body |-> body]

Plain(type, size) == Frame(type, <<>>, 0, 0, size, <<>>)

Bytes(frames) == FoldLeft(LAMBDA n, f : n + FrameBytes + f.size, 0, frames)
-----------------------------------------------------------------------------
(* OutgoingQueue                                                            *)

(* An empty buffer stays where it is.                                       *)
PushAndGetFreshBuffer(q) ==
    CASE q.out = NoBuffer -> [q EXCEPT !.out = <<>>]
      [] q.out = <<>>     -> q
      [] OTHER            -> [q EXCEPT !.list = Append(@, q.out), !.out = <<>>]

Write(q, frame) == [q EXCEPT !.out = Append(@, frame),
                             !.bytes = @ + FrameBytes + frame.size]

HasRoom(q, size) ==
    q.out # NoBuffer /\ Bytes(q.out) + FrameBytes + size <= Section

(* The frame of a message that does not split: the second try always fits.  *)
QueueMessage(q, frame) ==
    IF HasRoom(q, frame.size)
    THEN Write(q, frame)
    ELSE Write(PushAndGetFreshBuffer(q), frame)

(* One attempt to write the bytes of a message from byte "from" on: nothing *)
(* when the buffer is nearly full, a part that fills it, or all of it,      *)
(* marked as final.                                                         *)
AppendSplitReliable(q, ch, msg, from, bytes) ==
    IF ~HasRoom(q, SplitMinimum)
    THEN [q |-> q, written |-> 0]
    ELSE LET room == Section - Bytes(q.out) - FrameBytes
             n == IF bytes > room THEN room ELSE bytes
             type == IF bytes > room THEN "part" ELSE "final"
         IN  [q |-> Write(q, Frame(type, ch, msg, from, n, <<>>)), written |-> n]

(* The loop of QueueReliable().                                             *)
RECURSIVE Split(_, _, _, _, _)
Split(q, ch, msg, from, bytes) ==
    LET a == AppendSplitReliable(q, ch, msg, from, bytes)
    IN  IF a.written >= bytes
        THEN a.q
        ELSE Split(PushAndGetFreshBuffer(a.q), ch, msg,
                   from + a.written, bytes - a.written)

(* FlushPeek() and PopIsEmpty(): the oldest buffer, OutBuffer if there is   *)
(* no other, and the queue without it.                                      *)
Flushable(q) == IF q.list = <<>> THEN PushAndGetFreshBuffer(q) ELSE q

Peek(q) == Head(Flushable(q).list)

Pop(q) == [Flushable(q) EXCEPT !.list = Tail(@), !.bytes = @ - Bytes(Peek(q))]
-----------------------------------------------------------------------------
(* The ring of compressor and decompressor                                  *)

(* A block is placed at the write offset, or at the start of the ring when  *)
(* the largest possible block would not fit there.                          *)
Allocate(at) == IF at + Alloc > Ring THEN 0 ELSE at

(* The frames of a block with their places in the ring.                     *)
Placed(at, frames) ==
    [i \in DOMAIN frames |->
        [frame |-> frames[i], at |-> at + Bytes(SubSeq(frames, 1, i - 1))]]
-----------------------------------------------------------------------------
Init ==
    /\ queue = [q \in Queues |-> [out |-> NoBuffer, list |-> <<>>, bytes |-> 0]]
    /\ hasPeer = FALSE
    /\ pc = "idle" /\ final = NoBuffer /\ combined = NoBuffer
    /\ prevFail = FALSE
    /\ hist = <<>> /\ sendAt = 0 /\ apart = FALSE
    /\ wire = <<>>
    /\ peer = [run |-> <<>>, hist |-> <<>>, at |-> 0, ok |-> TRUE,
               parts |-> [c \in Classes \X Channels |-> <<>>],
               got |-> [c \in Classes |-> <<>>]]
    /\ sent = [c \in Classes |-> <<>>] /\ refused = {} /\ shorts = 0

(* The app, on any thread                                                   *)

QueueReliable(class, n, bytes) ==
    /\ refused = {} /\ Len(sent.reliable) + Len(sent.lowpri) < MaxSent
    /\ IF bytes > MaxReliable
       THEN /\ refused' = {<<class, bytes>>}
            /\ UNCHANGED <<queue, sent>>
       ELSE /\ queue' = [queue EXCEPT ![class] =
                            Split(@, <<class, n>>, Len(sent[class]) + 1, 0, bytes)]
            /\ sent' = [sent EXCEPT ![class] =
                            Append(@, [ch |-> <<class, n>>, size |-> bytes])]
            /\ UNCHANGED refused
    /\ UNCHANGED <<hasPeer, flushVars, peer, shorts>>

(* Unreliable messages, acknowledgements among them; unordered and control  *)
(* messages share a queue.                                                  *)
QueueShort(type, bytes) ==
    /\ refused = {} /\ shorts < MaxShorts
    /\ IF bytes >= MaxUnreliable
       THEN /\ refused' = {<<type, bytes>>}
            /\ UNCHANGED <<queue, shorts>>
       ELSE /\ queue' = [queue EXCEPT
                ![IF type = "unreliable" THEN "unreliable" ELSE "unmetered"] =
                    QueueMessage(@, Plain(type, bytes))]
            /\ shorts' = shorts + 1
            /\ UNCHANGED refused
    /\ UNCHANGED <<hasPeer, flushVars, peer, sent>>

SetPeerUDPAddress ==
    /\ ~hasPeer /\ hasPeer' = TRUE
    /\ UNCHANGED <<queue, flushVars, peer, appVars>>
-----------------------------------------------------------------------------
(* Flush(), on the strand                                                   *)

StartFlush ==
    /\ pc = "idle" /\ hasPeer /\ Len(wire) <= MaxWire
    /\ pc' = "unreliable"
    /\ prevFail' = FALSE
    /\ UNCHANGED <<queue, hasPeer, final, combined, compressor, wire, peer,
                   appVars>>

Datagram(unreliable, reliable) == [unrel |-> unreliable, rel |-> reliable]

(* All unreliable buffers but the last are sent at once; the last waits for *)
(* reliable data to share its datagram.                                     *)
TakeUnreliable ==
    LET q == queue["unreliable"]
        last == Pop(q).list = <<>>
    IN  /\ pc = "unreliable" /\ q.bytes > 0
        /\ queue' = [queue EXCEPT !["unreliable"] = Pop(q)]
        /\ IF last
           THEN /\ final' = Peek(q) /\ pc' = "unmetered"
                /\ UNCHANGED wire
           ELSE /\ wire' = Append(wire, Datagram(Peek(q), <<>>))
                /\ UNCHANGED <<final, pc>>
        /\ UNCHANGED <<hasPeer, combined, prevFail, compressor, peer, appVars>>

(* The rest of Flush() once nothing more is to be taken.                    *)
DoneSending ==
    /\ wire' = wire \o (IF final # NoBuffer THEN <<Datagram(final, <<>>)>> ELSE <<>>)
                    \o (IF combined # NoBuffer THEN <<combined>> ELSE <<>>)
    /\ final' = NoBuffer /\ combined' = NoBuffer
    /\ pc' = "idle"

Following == [unreliable |-> "unmetered", unmetered |-> "reliable",
              reliable |-> "lowpri"]

(* Fault: the buffer that is still open is forgotten.                       *)
BugNextQueue ==
    /\ pc # "idle" /\ queue[pc].list = <<>>
    /\ IF pc = "lowpri"
       THEN DoneSending
       ELSE pc' = Following[pc] /\ UNCHANGED <<final, combined, wire>>
    /\ UNCHANGED <<queue, hasPeer, prevFail, compressor, peer, appVars>>

(* The queue has nothing left, not even in OutBuffer.                       *)
NextQueue ==
    /\ pc # "idle" /\ queue[pc].bytes = 0
    /\ IF pc = "lowpri"
       THEN DoneSending
       ELSE pc' = Following[pc] /\ UNCHANGED <<final, combined, wire>>
    /\ UNCHANGED <<queue, hasPeer, prevFail, compressor, peer, appVars>>

(* The bandwidth is used up, or the encoder's window is full.               *)
StopFlush ==
    /\ pc \in {"unmetered"} \cup Classes
    /\ DoneSending
    /\ UNCHANGED <<queue, hasPeer, prevFail, compressor, peer, appVars>>

(* The datagram to extend: a new one begins with the last unreliable data.  *)
Extended ==
    IF combined # NoBuffer THEN combined
    ELSE Datagram(IF final = NoBuffer THEN <<>> ELSE final, <<>>)

(* The frames join the combined datagram, or it is sent and they start a    *)
(* new one; a sync frame separates them only from what comes before.        *)
Combine(sync, frames) ==
    LET before == IF sync THEN <<Frame("compressed", <<>>, 0, Len(hist), 0, <<>>)>>
                  ELSE <<>>
        fits == Bytes(Extended.unrel \o Extended.rel \o before \o frames) <= Section
    IN  /\ final' = NoBuffer
        /\ IF fits
           THEN /\ combined' = [Extended EXCEPT !.rel = @ \o before \o frames]
                /\ UNCHANGED wire
           ELSE /\ wire' = Append(wire, Extended)
                /\ combined' = Datagram(<<>>, frames)
        /\ prevFail' = (fits /\ frames[1].type \in {"part", "final"})

Take(q) ==
    /\ pc = q /\ queue[q].bytes > 0
    /\ queue' = [queue EXCEPT ![q] = Pop(@)]
    /\ UNCHANGED <<hasPeer, pc, peer, appVars>>

(* Unordered and control messages are not compressed.                       *)
TakeUnmetered ==
    /\ Take("unmetered")
    /\ Combine(FALSE, Peek(queue["unmetered"]))
    /\ UNCHANGED compressor

(* Compress() puts every buffer into its history, compressed or not.        *)
Compress(frames) ==
    LET at == Allocate(sendAt)
    IN  /\ hist' = hist \o Placed(at, frames)
        /\ sendAt' = at + Bytes(frames)

TakeCompressed(q, written) ==
    LET frames == Peek(queue[q])
    IN  /\ Take(q)
        /\ written < Bytes(frames)
        /\ Compress(frames)
        /\ Combine(FALSE, <<Frame("compressed", <<>>, 0, Len(hist), written, frames)>>)
        /\ UNCHANGED apart

(* The receiver will take the frames for the rest of the run before them.    *)
Joins(sync, frames) ==
    /\ ~sync /\ Extended.rel # <<>> /\ Last(Extended.rel).type \in {"part", "final"}
    /\ Bytes(Extended.unrel \o Extended.rel \o frames) <= Section

(* Fault: no sync frame.                                                    *)
BugTakeUncompressed(q) ==
    /\ Take(q)
    /\ Compress(Peek(queue[q]))
    /\ Combine(FALSE, Peek(queue[q]))
    /\ apart' = (apart \/ (Joins(prevFail, Peek(queue[q])) /\ Allocate(sendAt) # sendAt))

TakeUncompressed(q) ==
    /\ Take(q)
    /\ Compress(Peek(queue[q]))
    /\ Combine(prevFail, Peek(queue[q]))
    /\ apart' = (apart \/ (Joins(prevFail, Peek(queue[q])) /\ Allocate(sendAt) # sendAt))
-----------------------------------------------------------------------------
(* The receiver                                                             *)

(* insertUncompressed(): the run of frames that began with FirstReliable.   *)
InsertUncompressed(s) ==
    LET at == Allocate(s.at)
    IN  IF s.run = <<>> \/ Bytes(s.run) > Alloc
        THEN [s EXCEPT !.run = <<>>]
        ELSE [s EXCEPT !.run = <<>>,
                       !.hist = @ \o Placed(at, s.run),
                       !.at = at + Bytes(s.run)]

Length(pieces) == FoldLeft(LAMBDA n, f : n + f.size, 0, pieces)

(* Fault: the pieces of a message are not dropped once it is delivered.     *)
BugDeliverMessage(s, f) ==
    LET pieces == Append(s.parts[f.ch], f)
    IN  CASE f.type = "control" -> s
          [] f.type = "part" -> [s EXCEPT !.parts[f.ch] = pieces]
          [] f.type = "final" -> [s EXCEPT !.parts[f.ch] = pieces,
                                           !.got[f.ch[1]] = Append(@, pieces)]

(* A part waits for the final piece of its message.                         *)
DeliverMessage(s, f) ==
    LET pieces == Append(s.parts[f.ch], f)
    IN  CASE f.type = "control" -> s
          [] f.type # "control" /\ Length(pieces) > MaxReliable ->
                [s EXCEPT !.ok = FALSE]
          [] f.type = "part" /\ Length(pieces) <= MaxReliable ->
                [s EXCEPT !.parts[f.ch] = pieces]
          [] f.type = "final" /\ Length(pieces) <= MaxReliable ->
                [s EXCEPT !.parts[f.ch] = <<>>,
                          !.got[f.ch[1]] = Append(@, pieces)]

(* Decompression restores the frames if the histories are the same; what it *)
(* does otherwise is not modelled.                                          *)
OnCompressed(s, f) ==
    LET at == Allocate(s.at)
    IN  CASE f.size = 0 -> s
          [] f.size > 0 /\ s.hist # SubSeq(hist, 1, f.from) ->
                [s EXCEPT !.ok = FALSE]
          [] OTHER ->
                FoldLeft(DeliverMessage,
                         [s EXCEPT !.hist = @ \o Placed(at, f.body),
                                   !.at = at + Bytes(f.body)],
                         f.body)

(* One frame of a datagram. A run begins with a piece of a reliable message *)
(* and reaches to the next compressed frame or padding.                     *)
HandleFrame(s, f) ==
    LET longer == [s EXCEPT !.run = IF s.run # <<>> \/ f.type \in {"part", "final"}
                                    THEN Append(@, f) ELSE @]
    IN  CASE f.type = "compressed" -> OnCompressed(InsertUncompressed(s), f)
          [] f.type = "padding" -> InsertUncompressed(s)
          [] f.type \in {"unreliable", "unordered"} -> longer
          [] OTHER -> DeliverMessage(longer, f)

Process(frames) ==
    InsertUncompressed(FoldLeft(HandleFrame, [peer EXCEPT !.run = <<>>], frames))

(* ProcessDatagram() on the datagram that comes next in sequence, with all  *)
(* it carries.                                                              *)
ProcessDatagram(padded) ==
    LET d == Head(wire)
        pad == IF padded THEN <<Plain("padding", Padding)>> ELSE <<>>
    IN  /\ wire # <<>> /\ peer.ok
        /\ Bytes(d.unrel \o d.rel \o pad) <= Section
        /\ peer' = Process(d.unrel \o d.rel \o pad)
        /\ wire' = Tail(wire)
        /\ UNCHANGED <<queue, hasPeer, pc, final, combined, prevFail,
                       compressor, appVars>>

(* The datagram was lost, late or early: resumeProcessing() takes its       *)
(* reliable part from the decoder, and the rest is gone or was handled.     *)
ResumeProcessing ==
    /\ wire # <<>> /\ peer.ok
    /\ peer' = Process(Head(wire).rel)
    /\ wire' = Tail(wire)
    /\ UNCHANGED <<queue, hasPeer, pc, final, combined, prevFail, compressor,
                   appVars>>
-----------------------------------------------------------------------------
(* The compressed size: very small, or hardly smaller than the buffer.      *)
TakeSmaller(q) ==
    /\ pc = q /\ queue[q].bytes > 0
    /\ \E w \in {1, Bytes(Peek(queue[q])) - 1} : TakeCompressed(q, w)

Next ==
    \/ \E c \in Classes, n \in Channels, b \in Sizes : QueueReliable(c, n, b)
    \/ \E m \in Shorts : QueueShort(m[1], m[2])
    \/ SetPeerUDPAddress
    \/ StartFlush \/ TakeUnreliable \/ NextQueue \/ StopFlush \/ TakeUnmetered
    \/ \E q \in Classes : TakeSmaller(q) \/ TakeUncompressed(q)
    \/ \E p \in BOOLEAN : ProcessDatagram(p)
    \/ ResumeProcessing

Spec == Init /\ [][Next]_vars
(* The flush goes on at a queue.                                            *)
FlushOn(q) ==
    /\ pc = q
    /\ \/ TakeUnreliable \/ TakeUnmetered \/ NextQueue
       \/ q \in Classes /\ (TakeSmaller(q) \/ TakeUncompressed(q))

(* The timer flushes every tick; bandwidth and the encoder's window open up *)
(* again and again, so that no flush stops at the same queue for ever. What *)
(* is under way is processed (the last conjunct names the receiver's steps  *)
(* by their effect on the wire).                                            *)
Fairness ==
    /\ WF_vars(SetPeerUDPAddress \/ StartFlush \/ FlushOn("unreliable"))
    /\ \A q \in {"unmetered"} \cup Classes : SF_vars(FlushOn(q))
    /\ WF_wire(peer.ok /\ wire # <<>> /\ wire' = Tail(wire))

FairSpec == Spec /\ Fairness
-----------------------------------------------------------------------------
(* The history of the decompressor is what the compressor had put into its  *)
(* own, frame by frame and place by place, because Compress() and           *)
(* Decompress() need the same ring: blocks that failed to compress are told *)
(* apart by sync frames, datagrams and padding.  The exception is a block   *)
(* at the start of the ring that followed one which began a datagram, where *)
(* Flush() sends no sync frame (AlwaysSynchronised).                         *)
HistorySynchronised == ~apart => IsPrefix(peer.hist, hist)

(* The pieces are the whole message, in order and without a gap.            *)
IsWhole(pieces, i, message) ==
    /\ \A k \in DOMAIN pieces :
          /\ pieces[k].msg = i /\ pieces[k].ch = message.ch
          /\ pieces[k].from = Length(SubSeq(pieces, 1, k - 1))
    /\ Length(pieces) = message.size

(* The messages of a class are delivered whole and in the order they were   *)
(* sent in, across its channels, and no valid message ends the connection,  *)
(* however they are split, combined and compressed, unless the histories    *)
(* have come apart.                                                         *)
MessagesInOrder ==
    ~apart =>
        /\ peer.ok
        /\ \A c \in Classes :
              /\ Len(peer.got[c]) <= Len(sent[c])
              /\ \A i \in DOMAIN peer.got[c] : IsWhole(peer.got[c][i], i, sent[c][i])

QueuedIn(q) == (IF q.out = NoBuffer THEN <<>> ELSE q.out) \o FlattenSeq(q.list)

(* Buffers, offsets and flags hold what they are meant to hold: QueuedBytes *)
(* is what the buffers of a queue hold, a flush leaves nothing behind, the  *)
(* rings of both sides stay inside their memory, and no buffer and no       *)
(* datagram outgrows the message section.                                   *)
TypeOK ==
    /\ pc \in Queues \cup {"idle"}
    /\ (pc = "idle") => (final = NoBuffer /\ combined = NoBuffer)
    /\ {hasPeer, prevFail, apart, peer.ok} \subseteq BOOLEAN
    /\ {sendAt, peer.at} \subseteq 0..Ring
    /\ shorts \in 0..MaxShorts
    /\ \A q \in Queues :
          /\ queue[q].bytes = Bytes(QueuedIn(queue[q]))
          /\ \A i \in DOMAIN queue[q].list :
                Bytes(queue[q].list[i]) \in 1..Section
    /\ \A i \in DOMAIN wire :
          Bytes(wire[i].unrel \o wire[i].rel) \in 1..Section

(* Whatever tonk_send() accepted of a class is delivered in the end, even   *)
(* if nothing is sent after it and flushes keep being cut short, unless the *)
(* histories have come apart.                                               *)
AllDelivered ==
    \A c \in Classes : []<>(apart \/ Len(peer.got[c]) = Len(sent[c]))

-----------------------------------------------------------------------------
(* Two statements of the code and its documentation that do not hold.        *)

(* "this extra synchronization frame forces the receiver to treat these as  *)
(* two compression attempts" (PacketCompression.h): the histories are        *)
(* always the same.                                                         *)
AlwaysSynchronised == IsPrefix(peer.hist, hist)

(* tonk_send() refuses only messages that exceed the documented limits.     *)
LegalSizesAccepted ==
    \A r \in refused :
        r[2] > (IF r[1] \in Classes THEN MaxReliable ELSE MaxUnreliable)
=============================================================================
