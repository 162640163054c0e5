---------------------------- MODULE FileTransfer ----------------------------
(***************************************************************************)
(* The file transfer helper of tonk_file_transfer.cpp.  A sender streams   *)
(* files, one after the other, over one reliable channel; the receiver     *)
(* rebuilds each one in memory or, when it is large, in a temporary file,  *)
(* and hands it to the application's callback.  Both sides look at the     *)
(* file through a mapped view that moves along it.                         *)
(*                                                                         *)
(* A byte is a unit <<f, i>>: the i-th byte of file f, its header for      *)
(* i = 0, its name for i < 0.  A header is one unit long.  File bytes are  *)
(* taken never to look like a header or a cancel message; the two are      *)
(* recognised by "kind".                                                   *)
(***************************************************************************)
EXTENDS Integers, Sequences

CONSTANTS
    kMaxViewBytes,              \* longest mapped view
    kBytesChunk,                \* longest message
    kMinWriteBytes,             \* least room tonk_file_send() uses
    kOutputFileThresholdBytes,  \* files this long are received on disk
    Granularity,                \* alignment of a mapped view
    NameField,                  \* values the one byte name length can hold
    DiskSizes, BufferSizes,     \* sizes of the files sent, by their source
    NameLengths, Deficits,      \* lengths of names, room found by a call
    MaxFiles, MaxChannel, MaxFaults

ASSUME FileAssumption ==
    /\ {kMaxViewBytes, kBytesChunk, Granularity, NameField} \subseteq Nat \ {0}
    /\ {kMinWriteBytes, kOutputFileThresholdBytes} \subseteq Nat
    /\ DiskSizes \subseteq Nat /\ BufferSizes \subseteq Nat
    /\ NameLengths \subseteq Nat /\ Deficits \subseteq Nat

VARIABLES
    files,     \* the files the application sent so far: name and length
    sending,   \* the sender's TonkFile
    deficit,   \* deficitBytes of the tonk_file_send() that runs, else 0
    channel,   \* messages in the reliable channel
    link,      \* the connection: up, closing (after StartShutdown()), or down
    recv,      \* the receiver's TonkFile
    incoming,  \* what is left of the message in tonk_file_receive()
    temp,      \* temporary files on disk that are the receiver's to remove
    report,    \* what the last FpTonkFileDone callback was given
    faults     \* failures of the system so far

fileVars == <<files, sending, deficit, channel, link, recv, incoming,
              temp, report, faults>>

NoFile == [id |-> 0]

FileInit ==
    /\ files = <<>> /\ sending = NoFile /\ deficit = 0
    /\ channel = <<>> /\ link = "up"
    /\ recv = NoFile /\ incoming = NoFile /\ temp = {} /\ report = NoFile
    /\ faults = 0

Fault == faults < MaxFaults /\ faults' = faults + 1

Least(a, b) == IF a < b THEN a ELSE b

\* MappedView::MapView(): the offset is brought back to the alignment.
MapView(offset, length) ==
    [off |-> offset - (offset % Granularity),
     len |-> length + (offset % Granularity)]

\* The window the code maps when "progress" bytes of "total" are done.
NextView(total, progress) ==
    MapView(progress, Least(total - progress, kMaxViewBytes))

Message(f, kind, body) == [id |-> f, kind |-> kind, body |-> body]

\* WriteCancel(): a message of its own, the result of tonk_send() ignored.
Cancel(f) == Message(f, "cancel", <<<<f, 0>>>>)

\* tonk_send() on the reliable channel q.  What is queued after the connection
\* went down goes nowhere.
Sent(q, m) == IF link = "down" THEN q ELSE Append(q, m)

HasRoom == Len(channel) < MaxChannel

-----------------------------------------------------------------------------
\* tonk_file_from_disk() and tonk_file_from_buffer().  An empty file cannot
\* be mapped, so the first of them returns null for it.
NewFile(size, name, view) ==
    /\ sending = NoFile /\ Len(files) < MaxFiles
    /\ files' = Append(files, [total |-> size, name |-> name])
    /\ sending' = [id |-> Len(files) + 1, total |-> size, name |-> name,
                   State |-> "HeaderAndName", ProgressBytes |-> 0,
                   ViewOffset |-> 0, view |-> view, Done |-> FALSE]
    /\ UNCHANGED <<deficit, channel, link, recv, incoming, temp, report,
                   faults>>

tonk_file_from_disk(size, name) ==
    size > 0 /\ NewFile(size, name, NextView(size, 0))

tonk_file_from_buffer(size, name) ==
    NewFile(size, name, [off |-> 0, len |-> size])

\* The next n bytes under the sender's view.
ViewData(n) ==
    [i \in 1..n |-> <<sending.id, sending.view.off + sending.ViewOffset + i>>]

\* WriteSendHeader(): the header, the name and as much data as fits.
WriteSendHeader(room) ==
    LET min  == 1 + sending.name
        send == Least(room, kBytesChunk)
        n    == IF send <= min THEN 0
                ELSE Least(send - min, sending.view.len)
        head == [i \in 1..min |-> <<sending.id, 1 - i>>]
    IN  \/ /\ channel' = Sent(channel,
                             [id |-> sending.id, kind |-> "header",
                              body |-> head \o ViewData(n), total |-> sending.total,
                              name |-> sending.name % NameField])
           /\ sending' = [sending EXCEPT
                !.State = "FileData", !.ProgressBytes = n, !.ViewOffset = n,
                !.Done = send > min /\ n >= sending.total]
           /\ deficit' = IF room <= min + n + kMinWriteBytes THEN 0
                         ELSE room - (min + n)
           /\ UNCHANGED <<link, faults>>
        \/ /\ Fault
           /\ sending' = [sending EXCEPT !.Done = TRUE]
           /\ link' = "closing"
           /\ deficit' = room
           /\ UNCHANGED channel

\* tonk_file_send() up to its loop.
tonk_file_send(room) ==
    /\ sending # NoFile /\ ~sending.Done /\ deficit = 0
    /\ link = "up" /\ HasRoom
    /\ room >= kMinWriteBytes
    /\ \/ sending.State = "HeaderAndName" /\ WriteSendHeader(room)
       \/ /\ sending.State = "FileData"
          /\ deficit' = room
          /\ UNCHANGED <<sending, channel, link, faults>>
    /\ UNCHANGED <<files, recv, incoming, temp, report>>

\* The view is used up: the transfer is done, or the next view is mapped, or
\* mapping it fails and the transfer is cancelled.
ViewComplete(s, sent, room) ==
    \/ /\ s.ProgressBytes >= s.total
       /\ sending' = [s EXCEPT !.Done = TRUE]
       /\ channel' = sent /\ deficit' = 0
       /\ UNCHANGED faults
    \/ /\ s.ProgressBytes < s.total
       /\ LET view == NextView(s.total, s.ProgressBytes) IN
          sending' = [s EXCEPT !.view = view,
                               !.ViewOffset = s.ProgressBytes - view.off]
       /\ channel' = sent /\ deficit' = room
       /\ UNCHANGED faults
    \/ /\ s.ProgressBytes < s.total /\ Fault
       /\ sending' = [s EXCEPT !.ProgressBytes = 0, !.Done = TRUE]
       /\ channel' = Sent(sent, Cancel(s.id)) /\ deficit' = 0

\* One turn of the loop of tonk_file_send(): a chunk, then the view's end.
SendChunk ==
    /\ deficit > 0 /\ HasRoom
    /\ LET left == sending.view.len - sending.ViewOffset
           n    == Least(Least(deficit, kBytesChunk), left)
           s    == [sending EXCEPT !.ProgressBytes = @ + n, !.ViewOffset = @ + n]
           sent == IF n = 0 THEN channel
                   ELSE Sent(channel, Message(s.id, "data", ViewData(n)))
       IN  \/ /\ n < left
              /\ sending' = s /\ channel' = sent /\ deficit' = deficit - n
              /\ UNCHANGED <<link, faults>>
           \/ /\ n = left
              /\ ViewComplete(s, sent, deficit - n)
              /\ UNCHANGED link
           \/ /\ n > 0 /\ Fault
              /\ sending' = [sending EXCEPT !.ProgressBytes = 0, !.Done = TRUE]
              /\ link' = IF link = "up" THEN "closing" ELSE link
              /\ deficit' = 0
              /\ UNCHANGED channel
    /\ UNCHANGED <<files, recv, incoming, temp, report>>

\* tonk_file_free() of the sender: an unfinished transfer is cancelled.
FreeSending ==
    /\ sending # NoFile /\ deficit = 0
    /\ sending' = NoFile
    /\ channel' = IF sending.Done THEN channel
                  ELSE Sent(channel, Cancel(sending.id))
    /\ UNCHANGED <<files, deficit, link, recv, incoming, temp, report,
                   faults>>

-----------------------------------------------------------------------------
\* tonk_file_free() of the receiver: its temporary file is removed.
Removed(r) == temp \ {r.id}

\* The start of ProcessReceiveFileData(): a transfer made from the header m,
\* in memory or in a temporary file; "opened" is FALSE if that fails.
Begin(m, opened) ==
    [id |-> m.id, name |-> m.name, total |-> m.total, ProgressBytes |-> 0,
     ViewOffset |-> 0, Failed |-> ~opened,
     disk |-> m.total >= kOutputFileThresholdBytes,
     view |-> IF ~opened THEN [off |-> 0, len |-> 0]
              ELSE IF m.total >= kOutputFileThresholdBytes
                   THEN NextView(m.total, 0)
                   ELSE [off |-> 0, len |-> m.total],
     out |-> [i \in 1..m.total |-> <<0, 0>>]]

\* The bytes under the view are copied; both positions move by all of them.
Copied(r, bytes) ==
    LET at == r.view.off + r.ViewOffset
        n  == Least(Len(bytes), r.view.len - r.ViewOffset)
    IN  [r EXCEPT
          !.out = IF r.Failed THEN @
                  ELSE [i \in DOMAIN @ |-> IF i \in (at + 1)..(at + n)
                                           THEN bytes[i - at] ELSE @[i]],
          !.ProgressBytes = @ + Len(bytes),
          !.ViewOffset = @ + Len(bytes)]

\* The rest of ProcessReceiveFileData() and the turn of tonk_file_receive()
\* around it: "bytes" is data for the transfer r and "mapped" is FALSE if the
\* next view cannot be had.  A finished file is deleted or kept, as the
\* callback answers; either way it is no longer the helper's.
ReceiveData(r, bytes, mapped) ==
    LET c    == Copied(r, bytes)
        rest == SubSeq(bytes, Least(Len(bytes), r.view.len - r.ViewOffset) + 1,
                       Len(bytes))
        held == IF r.disk THEN temp \union {r.id} ELSE temp
        view == IF mapped THEN NextView(c.total, c.ProgressBytes)
                ELSE [off |-> 0, len |-> 0]
    IN  /\ \/ /\ c.ProgressBytes >= c.total
              /\ mapped
              /\ report' = c
              /\ recv' = NoFile
              /\ temp' = held \ {r.id}
           \/ /\ c.ProgressBytes < c.total
              /\ recv' = IF c.ViewOffset < c.view.len THEN c
                         ELSE [c EXCEPT !.view = view,
                                        !.Failed = @ \/ ~mapped,
                                        !.ViewOffset = c.ProgressBytes - view.off]
              /\ mapped \/ c.ViewOffset >= c.view.len
              /\ temp' = held
              /\ UNCHANGED report
        /\ incoming' = IF rest = <<>> THEN NoFile ELSE Message(r.id, "data", rest)

\* Is the transfer to be given up: has it failed, or is m its cancellation?
BugGivenUp(m) == recv # NoFile /\ recv.Failed

GivenUp(m) == recv # NoFile /\ (recv.Failed \/ m.kind = "cancel")

\* One turn of the loop of tonk_file_receive() for the message m.
ReceiveMessage(m, opened, mapped) ==
    LET fresh == recv = NoFile \/ GivenUp(m)
        drop  == 1 + (IF m.kind = "header" THEN m.name ELSE 0)
    IN  \/ /\ fresh /\ m.kind # "header"
           /\ recv' = NoFile /\ incoming' = NoFile
           /\ temp' = IF recv = NoFile THEN temp ELSE Removed(recv)
           /\ opened /\ mapped
           /\ UNCHANGED report
        \/ /\ recv = NoFile /\ m.kind = "header"
           /\ ReceiveData(Begin(m, opened),
                          SubSeq(m.body, drop + 1, Len(m.body)), mapped)
        \/ /\ ~fresh
           /\ opened
           /\ ReceiveData(recv, m.body, mapped)

Faulty(opened, mapped) ==
    IF opened /\ mapped THEN UNCHANGED faults ELSE Fault

tonk_file_receive(opened, mapped) ==
    /\ \/ /\ incoming # NoFile
          /\ ReceiveMessage(incoming, opened, mapped)
          /\ UNCHANGED channel
       \/ /\ incoming = NoFile /\ channel # <<>>
          /\ ReceiveMessage(Head(channel), opened, mapped)
          /\ channel' = Tail(channel)
    /\ Faulty(opened, mapped)
    /\ UNCHANGED <<files, sending, deficit, link>>

-----------------------------------------------------------------------------
\* The connection ends: what it had not delivered is lost, and both
\* applications free their files.
Disconnect ==
    /\ \/ link = "up" /\ Fault
       \/ link = "closing" /\ UNCHANGED faults
    /\ link' = "down"
    /\ \E n \in 0..Len(channel) : channel' = SubSeq(channel, 1, n)
    /\ UNCHANGED <<files, sending, deficit, recv, incoming, temp, report>>

FreeReceived ==
    /\ link = "down" /\ channel = <<>> /\ incoming = NoFile /\ recv # NoFile
    /\ recv' = NoFile /\ temp' = Removed(recv)
    /\ UNCHANGED <<files, sending, deficit, channel, link, incoming,
                   report, faults>>

FileNext ==
    \/ \E name \in NameLengths :
          \/ \E size \in DiskSizes : tonk_file_from_disk(size, name)
          \/ \E size \in BufferSizes : tonk_file_from_buffer(size, name)
    \/ \E room \in Deficits : tonk_file_send(room)
    \/ SendChunk \/ FreeSending
    \/ \E opened, mapped \in BOOLEAN : tonk_file_receive(opened, mapped)
    \/ Disconnect \/ FreeReceived

FileSpec == FileInit /\ [][FileNext]_fileVars

-----------------------------------------------------------------------------
\* A file the callback gets without TonkFileFlags_Failed is a file that was
\* sent: same name, same length, and every byte in its place, however the
\* chunks fell on the views of the two sides and whatever was cancelled before.
Delivered ==
    report # NoFile /\ ~report.Failed =>
        /\ report.id \in DOMAIN files
        /\ report.total = files[report.id].total
        /\ report.name = files[report.id].name
        /\ \A i \in 1..report.total : report.out[i] = <<report.id, i>>

\* A file is complete only when exactly its bytes were counted, as
\* ProcessReceiveFileData() asserts.
ProgressExact == report # NoFile => report.ProgressBytes = report.total

\* While no system call failed, a receiver that has read everything stands
\* where the sender stands: it holds the file being sent, at its progress.
InStep ==
    /\ faults = 0 /\ channel = <<>> /\ incoming = NoFile
    /\ sending # NoFile /\ sending.State = "FileData"
    /\ sending.ProgressBytes < sending.total
    => /\ recv # NoFile /\ recv.id = sending.id
       /\ recv.ProgressBytes = sending.ProgressBytes

\* A sender whose file is done, and TonkFileFlags_Failed is never set for a
\* sender, handed the header and every byte to the channel.
DoneMeansSent ==
    sending # NoFile /\ sending.Done =>
        sending.State = "FileData" /\ sending.ProgressBytes = sending.total

\* The temporary files left on disk are those of the transfer in progress:
\* cancelled, failed and finished transfers clean up after themselves.
NoStrayFile == temp \subseteq {recv.id}
=============================================================================
