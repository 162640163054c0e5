------------------------- MODULE FileTransferProofs -------------------------
(***************************************************************************)
(* A file that is reported as received is the file that was sent, for      *)
(* every size of views, chunks and files.                                  *)
(*                                                                         *)
(* Delivered is about one variable and takes an account of all of them     *)
(* (FileIInv): the messages in the channel, between the receiver's         *)
(* progress and the sender's, continue each other without a gap; none of   *)
(* them crosses the end of a view, since the receiver copies no more than  *)
(* its view has room for; and the sender's view, after every remapping,    *)
(* stands at the sender's progress.                                        *)
(***************************************************************************)
EXTENDS FileTransfer, TLAPS

-----------------------------------------------------------------------------
(* File transfer *)

(* Quotient and remainder. *)
LEMMA DivMod ==
    ASSUME NEW x \in Int, NEW n \in Nat \ {0}
    PROVE  /\ x \div n \in Int
           /\ x % n \in 0 .. n - 1
           /\ x = ((x \div n) * n) + (x % n)
BY SMT

(* The remainder is the only number below n that differs by a multiple. *)
LEMMA ModUnique ==
    ASSUME NEW x \in Int, NEW n \in Nat \ {0}, NEW q \in Int,
           NEW t \in 0 .. n - 1, x = q * n + t
    PROVE  x % n = t
<1> DEFINE p == x \div n
<1> DEFINE u == x % n
<1>1. p \in Int /\ u \in 0 .. n - 1 /\ x = p * n + u
  BY DivMod, Zenon
<1> HIDE DEF p, u
<1>2. (q - p) * n = u - t
  BY <1>1, SMT
<1>3. ~(q - p >= 1)
  <2> SUFFICES ASSUME q - p >= 1 PROVE FALSE
    OBVIOUS
  <2>1. (q - p) * n >= n
    BY <1>1, SMT
  <2> QED
    BY <2>1, <1>1, <1>2, SMT
<1>4. ~(q - p <= -1)
  <2> SUFFICES ASSUME q - p <= -1 PROVE FALSE
    OBVIOUS
  <2>1. (q - p) * n <= -n
    BY <1>1, SMT
  <2> QED
    BY <2>1, <1>1, <1>2, SMT
<1>5. q = p
  BY <1>1, <1>3, <1>4, SMT
<1>6. u = t
  BY <1>1, <1>5, SMT
<1> QED
  BY <1>6 DEF u

(* The sizes for which the helper is right: a buffer is no longer than one   *)
(* view, and the length of a name fits its field.                           *)
WithinLimits ==
    /\ BufferSizes \subseteq 0 .. kMaxViewBytes
    /\ NameLengths \subseteq 0 .. NameField - 1

(* Views end at multiples of kMaxViewBytes: the first one after p. *)
BlockEnd(p) == (p - (p % kMaxViewBytes)) + kMaxViewBytes

(* A view of the sender that starts at off with length len, used up to at,  *)
(* when p of total bytes are done: it ends with the file or with a block.   *)
Spans(off, len, at, total, p) ==
    /\ off + at = p /\ at <= len /\ off + len <= total
    /\ p < off + len => /\ off + len <= BlockEnd(p)
                        /\ off + len < total => off + len = BlockEnd(p)
    /\ p = off + len => p = total \/ p % kMaxViewBytes = 0

(* A view of the receiver: it has room for the rest of the block. *)
Takes(off, len, at, total, p) ==
    /\ off + at = p /\ off + len <= total
    /\ p < total => p < off + len
    /\ off + len < total => off + len = BlockEnd(p)

Octets == Nat \X Int

(* Bytes p + 1 .. p + n of file f. *)
Bytes(f, p, n) == [i \in 1 .. n |-> <<f, p + i>>]

(* The bytes of the file in a message are those behind From, up to To. *)
From(m) == m.body[1][2] - 1
To(m) == IF m.kind = "header" THEN Len(m.body) - (1 + m.name) ELSE From(m) + Len(m.body)

FileHeaders == [id : Nat, kind : {"header"}, body : Seq(Octets), total : Nat, name : Nat]
FileChunks == [id : Nat, kind : {"data", "cancel"}, body : Seq(Octets)]
FileMessages == FileHeaders \cup FileChunks

(* A message holds what it says of a file that was sent, and never the end  *)
(* of one view and the start of the next.                                   *)
MessageOK(F, m) ==
    /\ m.id \in DOMAIN F
    /\ m.kind = "header" =>
         /\ m.total = F[m.id].total /\ m.name = F[m.id].name
         /\ To(m) \in Nat /\ To(m) <= m.total /\ To(m) <= BlockEnd(0)
         /\ SubSeq(m.body, (1 + m.name) + 1, Len(m.body)) = Bytes(m.id, 0, To(m))
    /\ m.kind = "data" =>
         /\ From(m) \in Nat /\ To(m) \in Nat /\ To(m) > From(m)
         /\ To(m) <= F[m.id].total /\ To(m) <= BlockEnd(From(m))
         /\ m.body = Bytes(m.id, From(m), To(m) - From(m))

(* The receiver has no transfer any more when it has read m. *)
Closes(F, m) == m.kind = "cancel" \/ To(m) = F[m.id].total

(* m continues file f at p, unless that one is closed: then it may start    *)
(* another, or be of a file whose header could not be sent.                 *)
Continues(m, closed, f, p) ==
    /\ m.kind = "header" => closed
    /\ m.kind = "data" => closed \/ (m.id = f /\ From(m) = p)

Views == [off : Nat, len : Nat]

Senders == [id : Nat, total : Nat, name : Nat, State : {"HeaderAndName", "FileData"},
            ProgressBytes : Nat, ViewOffset : Nat, view : Views, Done : BOOLEAN]

SendView(s) == Spans(s.view.off, s.view.len, s.ViewOffset, s.total, s.ProgressBytes)

(* A sender that can still send looks at the right place of the last file. *)
SenderOK(F, l, s, d) ==
    /\ d \in Nat
    /\ s = NoFile => d = 0
    /\ s # NoFile =>
         /\ s \in Senders
         /\ s.id = Len(F) /\ s.id \in DOMAIN F
         /\ s.total = F[s.id].total /\ s.name = F[s.id].name
         /\ ~s.Done \/ d > 0 => SendView(s)
         /\ s.State = "HeaderAndName" /\ ~s.Done => s.ProgressBytes = 0 /\ d = 0
         /\ l = "up" /\ d > 0 => /\ s.State = "FileData"
                                 /\ s.Done => s.ProgressBytes = s.total

(* What the sender sends next continues the file f at p. *)
SenderContinues(l, s, d, closed, f, p) ==
    /\ l = "up" /\ (s = NoFile \/ s.Done \/ s.State = "HeaderAndName") => closed
    /\ s # NoFile /\ (d > 0 \/ (s.State = "FileData" /\ ~s.Done))
         => closed \/ (f = s.id /\ p = s.ProgressBytes)

Shape(r) ==
    r = [id |-> r.id, name |-> r.name, total |-> r.total, ProgressBytes |-> r.ProgressBytes,
         ViewOffset |-> r.ViewOffset, Failed |-> r.Failed, disk |-> r.disk, view |-> r.view,
         out |-> r.out]

(* The transfer r of a receiver has the bytes up to its progress. *)
TransferOK(F, r) ==
    /\ Shape(r) /\ r.Failed \in BOOLEAN
    /\ r.id \in DOMAIN F /\ r.total = F[r.id].total /\ r.name = F[r.id].name
    /\ r.ProgressBytes \in Nat
    /\ ~r.Failed => /\ r.view \in Views /\ r.ViewOffset \in Nat
                    /\ Takes(r.view.off, r.view.len, r.ViewOffset, r.total, r.ProgressBytes)
                    /\ r.out = [i \in 1 .. r.total |-> r.out[i]]
                    /\ \A i \in 1 .. r.ProgressBytes : r.out[i] = <<r.id, i>>

(* A message that was not used up at once is one that a failed transfer     *)
(* left behind.                                                             *)
ReceiverOK(F, r, m) ==
    /\ r # NoFile => TransferOK(F, r) /\ r.ProgressBytes < r.total
    /\ m # NoFile => m.kind = "data" /\ (r = NoFile \/ r.Failed)

(* Each message continues the one before, and the first one what the        *)
(* receiver has.                                                            *)
StreamOK(F, q, r) ==
    /\ q \in Seq(FileMessages)
    /\ \A k \in 1 .. Len(q) : MessageOK(F, q[k])
    /\ \A k \in 1 .. Len(q) - 1 : Continues(q[k + 1], Closes(F, q[k]), q[k].id, To(q[k]))
    /\ r # NoFile /\ Len(q) > 0 => Continues(q[1], FALSE, r.id, r.ProgressBytes)

(* The sender continues the last of them. *)
TipOK(F, q, r, l, s, d) ==
    l # "down" =>
      /\ Len(q) > 0 =>
           SenderContinues(l, s, d, Closes(F, q[Len(q)]), q[Len(q)].id, To(q[Len(q)]))
      /\ Len(q) = 0 /\ r # NoFile => SenderContinues(l, s, d, FALSE, r.id, r.ProgressBytes)

Catalogue(F) == F \in Seq([total : Nat, name : 0 .. NameField - 1])

ReportOK(F, c) ==
    c # NoFile /\ ~c.Failed =>
        /\ c.id \in DOMAIN F
        /\ c.total = F[c.id].total
        /\ c.name = F[c.id].name
        /\ \A i \in 1..c.total : c.out[i] = <<c.id, i>>

FileIInv ==
    /\ Catalogue(files)
    /\ SenderOK(files, link, sending, deficit)
    /\ ReceiverOK(files, recv, incoming)
    /\ StreamOK(files, channel, recv)
    /\ TipOK(files, channel, recv, link, sending, deficit)
    /\ ReportOK(files, report)

-----------------------------------------------------------------------------
(* Positions in a file *)

(* The limits of the helper as numbers. *)
LEMMA FileNumbers ==
    /\ kMaxViewBytes \in Nat \ {0} /\ kBytesChunk \in Nat \ {0}
    /\ Granularity \in Nat \ {0} /\ NameField \in Nat \ {0}
    /\ kMinWriteBytes \in Nat /\ kOutputFileThresholdBytes \in Nat
    /\ DiskSizes \subseteq Nat /\ BufferSizes \subseteq Nat
    /\ NameLengths \subseteq Nat /\ Deficits \subseteq Nat
BY FileAssumption, Zenon DEF FileAssumption

(* The end of a block lies ahead, and is where the next block starts. *)
LEMMA BlockEndIs ==
    ASSUME NEW p \in Nat
    PROVE  /\ BlockEnd(p) \in Nat /\ p < BlockEnd(p)
           /\ BlockEnd(p) % kMaxViewBytes = 0
           /\ p % kMaxViewBytes = 0 => BlockEnd(p) = p + kMaxViewBytes
<1> DEFINE K == kMaxViewBytes
           j == p \div K
           t == p % K
<1>1. K \in Nat \ {0} /\ p \in Int
  BY FileNumbers
<1>2. j \in Int /\ t \in 0 .. K - 1 /\ p = j * K + t
  BY <1>1, DivMod, Zenon
<1> HIDE DEF j
<1>3. BlockEnd(p) = (p - t) + K
  BY DEF BlockEnd
<1> HIDE DEF t
<1>4. BlockEnd(p) \in Int /\ BlockEnd(p) \in Nat /\ p < BlockEnd(p)
  BY <1>1, <1>2, <1>3
<1>5. BlockEnd(p) = (j + 1) * K + 0 /\ j + 1 \in Int /\ 0 \in 0 .. K - 1
  BY <1>1, <1>2, <1>3
<1>6. BlockEnd(p) % K = 0
  BY <1>1, <1>4, <1>5, ModUnique, Zenon
<1>7. t = 0 => BlockEnd(p) = p + K
  BY <1>1, <1>3
<1> QED
  BY <1>4, <1>6, <1>7, Zenon DEF t

(* Two positions in one block have the same end. *)
LEMMA SameBlock ==
    ASSUME NEW p \in Nat, NEW q \in Nat, p <= q, q < BlockEnd(p)
    PROVE  BlockEnd(q) = BlockEnd(p)
<1> DEFINE K == kMaxViewBytes
           j == p \div K
           t == p % K
<1>1. K \in Nat \ {0} /\ p \in Int /\ q \in Int
  BY FileNumbers
<1>2. j \in Int /\ t \in 0 .. K - 1 /\ p = j * K + t
  BY <1>1, DivMod, Zenon
<1>3. BlockEnd(p) = (p - t) + K /\ BlockEnd(q) = (q - (q % K)) + K
  BY DEF BlockEnd
<1> HIDE DEF j, t
<1> DEFINE u == t + (q - p)
<1>4. q = j * K + u /\ u \in 0 .. K - 1
  <2> DEFINE w == j * K
  <2>1. w \in Int
    BY <1>1, <1>2
  <2>2. p = w + t
    BY <1>2, Zenon
  <2> HIDE DEF w
  <2>3. q = w + u /\ u \in 0 .. K - 1
    BY <1>1, <1>2, <1>3, <2>1, <2>2
  <2> QED
    BY <2>3, Zenon DEF w
<1>5. q % K = u
  <2> HIDE DEF u
  <2> QED
    BY <1>1, <1>2, <1>4, ModUnique, Zenon
<1> QED
  BY <1>1, <1>2, <1>3, <1>5

(* A sender that moves on inside its view stays in its block, and ends at   *)
(* the end of the file or of the block.                                     *)
LEMMA SpansAdvance ==
    ASSUME NEW off \in Nat, NEW len \in Nat, NEW at \in Nat, NEW total \in Nat, NEW p \in Nat,
           Spans(off, len, at, total, p), NEW n \in Nat, n <= len - at
    PROVE  /\ Spans(off, len, at + n, total, p + n)
           /\ p + n <= total
           /\ n > 0 => p + n <= BlockEnd(p)
<1> DEFINE e == off + len
           q == p + n
<1>1. /\ off + at = p /\ at <= len /\ e <= total
      /\ p < e => e <= BlockEnd(p) /\ (e < total => e = BlockEnd(p))
      /\ p = e => p = total \/ p % kMaxViewBytes = 0
  BY Zenon DEF Spans
<1>2. /\ q \in Nat /\ e \in Nat /\ p <= q /\ q <= e /\ p <= e /\ at + n \in Nat
      /\ off + (at + n) = q /\ at + n <= len
  BY <1>1
<1>3. BlockEnd(p) \in Nat /\ p < BlockEnd(p) /\ BlockEnd(p) % kMaxViewBytes = 0
  BY BlockEndIs, Zenon
<1> HIDE DEF e, q
<1>4. CASE n = 0
  <2>1. at + n = at /\ q = p /\ q <= total /\ ~(n > 0)
    BY <1>1, <1>2, <1>4 DEF q
  <2> QED
    BY <2>1, Zenon DEF q
<1>5. CASE n > 0
  <2>1. p < e /\ q <= BlockEnd(p)
    BY <1>1, <1>2, <1>3, <1>5 DEF q
  <2>2. ASSUME q < e
        PROVE  e <= BlockEnd(q) /\ (e < total => e = BlockEnd(q))
    <3>1. q < BlockEnd(p)
      BY <1>1, <1>2, <1>3, <2>1, <2>2
    <3>2. BlockEnd(q) = BlockEnd(p)
      BY <1>2, <3>1, SameBlock, Zenon
    <3> QED
      BY <1>1, <2>1, <3>2, Zenon
  <2>3. ASSUME q = e
        PROVE  q = total \/ q % kMaxViewBytes = 0
    BY <1>1, <1>2, <1>3, <2>1, <2>3
  <2>4. Spans(off, len, at + n, total, q)
    BY <1>1, <1>2, <2>2, <2>3, Zenon DEF Spans, e
  <2> QED
    BY <1>1, <1>2, <2>1, <2>4 DEF q
<1> QED
  BY <1>1, <1>2, <1>4, <1>5 DEF q

(* The next view starts at or before the progress and ends with the file or *)
(* kMaxViewBytes later.                                                     *)
LEMMA NextViewIs ==
    ASSUME NEW total \in Nat, NEW p \in Nat, p <= total
    PROVE  LET v == NextView(total, p)
           IN  /\ v \in Views /\ v.off <= p /\ p - v.off \in Nat
               /\ v.off + v.len = p + Least(total - p, kMaxViewBytes)
               /\ p = 0 => v.off = 0
<1> DEFINE g == p % Granularity
           l == Least(total - p, kMaxViewBytes)
           v == NextView(total, p)
<1>1. g \in Nat /\ g <= p
  BY FileNumbers, SMT
<1>2. l \in Nat
  BY FileNumbers DEF Least
<1>3. v = [off |-> p - g, len |-> l + g]
  BY DEF NextView, MapView
<1> HIDE DEF g, l, v
<1>4. p - g \in Nat /\ l + g \in Nat /\ v.off = p - g /\ v.len = l + g
  BY <1>1, <1>2, <1>3
<1>5. v \in Views
  BY <1>3, <1>4, Zenon DEF Views
<1>6. v.off <= p /\ p - v.off \in Nat /\ v.off + v.len = p + l /\ (p = 0 => v.off = 0)
  BY <1>1, <1>2, <1>4
<1> QED
  BY <1>5, <1>6, Zenon DEF l, v

(* At the start of a block the next view is a view of the sender, and of    *)
(* the receiver.                                                            *)
LEMMA NextViewFits ==
    ASSUME NEW total \in Nat, NEW p \in Nat, p <= total, p % kMaxViewBytes = 0
    PROVE  LET v == NextView(total, p)
           IN  /\ Spans(v.off, v.len, p - v.off, total, p)
               /\ Takes(v.off, v.len, p - v.off, total, p)
<1> DEFINE v == NextView(total, p)
           e == v.off + v.len
<1>1. /\ v \in Views /\ v.off <= p /\ p - v.off \in Nat
      /\ e = p + Least(total - p, kMaxViewBytes)
  BY NextViewIs, Zenon
<1>2. v.off \in Nat /\ v.len \in Nat
  BY <1>1, Zenon DEF Views
<1>3. BlockEnd(p) = p + kMaxViewBytes
  BY BlockEndIs, Zenon
<1> HIDE DEF v
<1>4. /\ e \in Nat /\ e <= total /\ e <= BlockEnd(p) /\ p <= e
      /\ e < total => e = BlockEnd(p)
      /\ p < total => p < e
      /\ v.off + (p - v.off) = p /\ p - v.off <= v.len
  BY <1>1, <1>2, <1>3, FileNumbers DEF Least
<1>5. Spans(v.off, v.len, p - v.off, total, p)
  BY <1>4, Zenon DEF Spans
<1>6. Takes(v.off, v.len, p - v.off, total, p)
  BY <1>4, Zenon DEF Takes
<1> QED
  BY <1>5, <1>6, Zenon DEF v

(* The bytes from p to q fit under the view, which then holds the rest of   *)
(* the block, or ends with the block.                                       *)
Holds(off, len, at, total, p, q) ==
    /\ q - p <= len - at
    /\ q < total /\ at + (q - p) < len => Takes(off, len, at + (q - p), total, q)
    /\ q < total /\ ~(at + (q - p) < len) => q % kMaxViewBytes = 0

(* A message that ends in the block fits in the view of the receiver.       *)
LEMMA TakesBlock ==
    ASSUME NEW off \in Nat, NEW len \in Nat, NEW at \in Nat, NEW total \in Nat, NEW p \in Nat,
           Takes(off, len, at, total, p),
           NEW q \in Nat, p <= q, q <= total, q <= BlockEnd(p)
    PROVE  Holds(off, len, at, total, p, q)
<1> DEFINE e == off + len
<1>1. off + at = p /\ e <= total /\ (p < total => p < e) /\ (e < total => e = BlockEnd(p))
  BY DEF Takes
<1>2. BlockEnd(p) \in Nat /\ p < BlockEnd(p) /\ BlockEnd(p) % kMaxViewBytes = 0
  BY BlockEndIs, Zenon
<1>3. q <= e /\ e \in Nat
  BY <1>1, <1>2
<1>4. q - p <= len - at
  BY <1>1, <1>3
<1>5. ASSUME q < total, at + (q - p) < len
      PROVE  Takes(off, len, at + (q - p), total, q)
  <2>1. q < e /\ off + (at + (q - p)) = q
    BY <1>1, <1>5
  <2>2. ASSUME e < total PROVE e = BlockEnd(q)
    <3>1. q < BlockEnd(p)
      BY <1>1, <1>2, <2>1, <2>2, Zenon
    <3> QED
      BY <1>1, <2>2, <3>1, SameBlock, Zenon
  <2> QED
    BY <1>1, <2>1, <2>2, Zenon DEF Takes
<1>6. ASSUME q < total, ~(at + (q - p) < len)
      PROVE  q % kMaxViewBytes = 0
  <2>1. q = e /\ e < total
    BY <1>1, <1>3, <1>6
  <2> QED
    BY <1>1, <1>2, <2>1, Zenon
<1> QED
  BY <1>4, <1>5, <1>6, Zenon DEF Holds

(* The files that were sent have a length, and a name that fits its field.  *)
LEMMA CatalogueIs ==
    ASSUME NEW F, Catalogue(F), NEW i \in DOMAIN F
    PROVE  i \in Nat /\ i # 0 /\ F[i].total \in Nat /\ F[i].name \in 0 .. NameField - 1
<1> DEFINE N == 0 .. NameField - 1
           R == [total : Nat, name : N]
<1>1. F \in Seq(R)
  BY Zenon DEF Catalogue
<1>2. i \in Nat /\ i # 0 /\ F[i] \in R
  <2> HIDE DEF R
  <2> QED
    BY <1>1
<1> HIDE DEF N
<1>3. F[i].total \in Nat /\ F[i].name \in N
  BY <1>2, Zenon
<1> QED
  BY <1>2, <1>3, Zenon DEF N

(* The room for a chunk. *)
LEMMA ChunkSize ==
    ASSUME NEW d \in Nat, d > 0, NEW left \in Nat
    PROVE  LET n == Least(Least(d, kBytesChunk), left)
           IN  n \in Nat /\ n <= left /\ n <= d /\ d - n \in Nat /\ (n = 0 => left = 0)
BY FileNumbers DEF Least

-----------------------------------------------------------------------------
(* Sequences *)

(* A sequence with one element more. *)
LEMMA AppendIs ==
    ASSUME NEW S, NEW q \in Seq(S), NEW m \in S
    PROVE  /\ Append(q, m) \in Seq(S) /\ Len(Append(q, m)) = Len(q) + 1
           /\ \A k \in 1 .. Len(q) : Append(q, m)[k] = q[k]
           /\ Append(q, m)[Len(q) + 1] = m
OBVIOUS

(* A sequence without its first element. *)
LEMMA TailIs ==
    ASSUME NEW S, NEW q \in Seq(S), q # <<>>
    PROVE  /\ Tail(q) \in Seq(S) /\ Len(Tail(q)) = Len(q) - 1 /\ Len(q) > 0
           /\ \A k \in 1 .. Len(q) - 1 : Tail(q)[k] = q[k + 1]
           /\ Head(q) = q[1]
OBVIOUS

(* The front of a sequence. *)
LEMMA FrontIs ==
    ASSUME NEW S, NEW q \in Seq(S), NEW n \in 0 .. Len(q)
    PROVE  /\ SubSeq(q, 1, n) \in Seq(S) /\ Len(SubSeq(q, 1, n)) = n
           /\ \A k \in 1 .. n : SubSeq(q, 1, n)[k] = q[k]
OBVIOUS

(* What follows the first part of two. *)
LEMMA SecondPart ==
    ASSUME NEW S, NEW a \in Seq(S), NEW b \in Seq(S)
    PROVE  /\ a \o b \in Seq(S) /\ Len(a \o b) = Len(a) + Len(b)
           /\ SubSeq(a \o b, Len(a) + 1, Len(a \o b)) = b
OBVIOUS

(* Nothing is behind the end. *)
LEMMA EmptyPart ==
    ASSUME NEW S, NEW a \in Seq(S), NEW n \in Nat, Len(a) = n
    PROVE  SubSeq(a, n + 1, n) = <<>>
OBVIOUS

(* The bytes of a file. *)
LEMMA BytesAre ==
    ASSUME NEW f \in Nat, NEW p \in Nat, NEW n \in Nat
    PROVE  /\ Bytes(f, p, n) \in Seq(Octets) /\ Len(Bytes(f, p, n)) = n
           /\ \A i \in 1 .. n : Bytes(f, p, n)[i] = <<f, p + i>>
           /\ n > 0 => Bytes(f, p, n)[1][2] - 1 = p
BY DEF Bytes, Octets

AreBytes(b, f, p, n) == Len(b) = n /\ \A i \in 1 .. n : b[i] = <<f, p + i>>

(* The same, as one fact. *)
LEMMA BytesHold ==
    ASSUME NEW f \in Nat, NEW p \in Nat, NEW n \in Nat
    PROVE  AreBytes(Bytes(f, p, n), f, p, n)
BY BytesAre, Zenon DEF AreBytes

-----------------------------------------------------------------------------
(* The stream of messages *)

(* A new message that continues what the sender was at. *)
LEMMA StreamSend ==
    ASSUME NEW F, NEW q, NEW r, NEW l, NEW s, NEW d, NEW m, NEW l2, NEW s2, NEW d2,
           StreamOK(F, q, r), TipOK(F, q, r, l, s, d), l # "down",
           m \in FileMessages, MessageOK(F, m),
           \A f, p : \A closed \in BOOLEAN :
             SenderContinues(l, s, d, closed, f, p) => Continues(m, closed, f, p),
           l2 # "down" => SenderContinues(l2, s2, d2, Closes(F, m), m.id, To(m))
    PROVE  StreamOK(F, Append(q, m), r) /\ TipOK(F, Append(q, m), r, l2, s2, d2)
<1> DEFINE t == Append(q, m)
<1>1. /\ q \in Seq(FileMessages)
      /\ \A k \in 1 .. Len(q) : MessageOK(F, q[k])
      /\ \A k \in 1 .. Len(q) - 1 : Continues(q[k + 1], Closes(F, q[k]), q[k].id, To(q[k]))
      /\ r # NoFile /\ Len(q) > 0 => Continues(q[1], FALSE, r.id, r.ProgressBytes)
  BY Zenon DEF StreamOK
<1>n. Len(q) \in Nat
  BY <1>1
<1>2. /\ t \in Seq(FileMessages) /\ Len(t) = Len(q) + 1
      /\ \A k \in 1 .. Len(q) : t[k] = q[k]
      /\ t[Len(q) + 1] = m
  BY <1>1, AppendIs, Zenon
<1> HIDE DEF t
<1>3. \A k \in 1 .. Len(t) : MessageOK(F, t[k])
  BY <1>1, <1>2
<1>4. ASSUME NEW k \in 1 .. Len(t) - 1
      PROVE  Continues(t[k + 1], Closes(F, t[k]), t[k].id, To(t[k]))
  <2>1. k \in 1 .. Len(q) /\ t[k] = q[k]
    BY <1>1, <1>2
  <2>2. CASE k < Len(q)
    <3>1. k \in 1 .. Len(q) - 1 /\ k + 1 \in 1 .. Len(q)
      BY <1>1, <2>1, <2>2
    <3>2. t[k + 1] = q[k + 1]
      BY <1>2, <3>1, Zenon
    <3> QED
      BY <1>1, <2>1, <3>1, <3>2, Zenon
  <2>3. CASE k = Len(q)
    <3>1. t[k + 1] = m /\ Len(q) > 0
      BY <1>1, <1>2, <2>1, <2>3
    <3>2. SenderContinues(l, s, d, Closes(F, q[k]), q[k].id, To(q[k]))
      BY <2>3, <3>1, Zenon DEF TipOK
    <3>3. Closes(F, q[k]) \in BOOLEAN
      BY Zenon DEF Closes
    <3> QED
      BY <2>1, <3>1, <3>2, <3>3, Zenon
  <2> QED
    BY <1>1, <2>1, <2>2, <2>3
<1>5. ASSUME r # NoFile PROVE Continues(t[1], FALSE, r.id, r.ProgressBytes)
  <2>1. CASE Len(q) > 0
    <3>1. 1 \in 1 .. Len(q)
      BY <1>1, <2>1
    <3> QED
      BY <1>1, <1>2, <1>5, <2>1, <3>1, Zenon
  <2>2. CASE Len(q) = 0
    <3>1. SenderContinues(l, s, d, FALSE, r.id, r.ProgressBytes)
      BY <1>5, <2>2, Zenon DEF TipOK
    <3>2. t[1] = m
      BY <1>2, <2>2
    <3> QED
      BY <3>1, <3>2, Zenon
  <2>3. Len(q) > 0 \/ Len(q) = 0
    BY <1>n
  <2> QED
    BY <2>1, <2>2, <2>3, Zenon
<1>6. StreamOK(F, t, r)
  BY <1>2, <1>3, <1>4, <1>5, Zenon DEF StreamOK
<1>7. TipOK(F, t, r, l2, s2, d2)
  <2>1. Len(t) > 0 /\ t[Len(t)] = m
    BY <1>1, <1>2
  <2>2. ~(Len(t) = 0)
    BY <1>1, <1>2
  <2> QED
    BY <2>1, <2>2, Zenon DEF TipOK
<1> QED
  BY <1>6, <1>7, Zenon DEF t

(* What continues where the sender was continues where it is now, at a      *)
(* place that cannot be the end of a file unless the file is closed.        *)
Passes(F, l, s, d, l2, s2, d2) ==
    \A f, p : \A closed \in BOOLEAN :
        /\ f \in DOMAIN F /\ p = F[f].total => closed
        /\ SenderContinues(l, s, d, closed, f, p)
        => SenderContinues(l2, s2, d2, closed, f, p)

(* A sender that sends nothing and moves on. *)
LEMMA StreamWait ==
    ASSUME NEW F, NEW q, NEW r, NEW l, NEW s, NEW d, NEW m, NEW l2, NEW s2, NEW d2,
           StreamOK(F, q, r), ReceiverOK(F, r, m), TipOK(F, q, r, l, s, d),
           l2 # "down" => l # "down",
           Passes(F, l, s, d, l2, s2, d2)
    PROVE  TipOK(F, q, r, l2, s2, d2)
<1> SUFFICES ASSUME l2 # "down" PROVE TipOK(F, q, r, l2, s2, d2)
  BY Zenon DEF TipOK
<1>1. ASSUME Len(q) > 0
      PROVE  SenderContinues(l2, s2, d2, Closes(F, q[Len(q)]), q[Len(q)].id, To(q[Len(q)]))
  <2>1. SenderContinues(l, s, d, Closes(F, q[Len(q)]), q[Len(q)].id, To(q[Len(q)]))
    BY <1>1, Zenon DEF TipOK
  <2>2. Closes(F, q[Len(q)]) \in BOOLEAN
    BY Zenon DEF Closes
  <2>3. To(q[Len(q)]) = F[q[Len(q)].id].total => Closes(F, q[Len(q)])
    BY Zenon DEF Closes
  <2> QED
    BY <2>1, <2>2, <2>3, Zenon DEF Passes
<1>2. ASSUME Len(q) = 0, r # NoFile
      PROVE  SenderContinues(l2, s2, d2, FALSE, r.id, r.ProgressBytes)
  <2>1. SenderContinues(l, s, d, FALSE, r.id, r.ProgressBytes)
    BY <1>2, Zenon DEF TipOK
  <2>2. r.ProgressBytes < r.total /\ r.total = F[r.id].total /\ r.ProgressBytes \in Nat
    BY <1>2, Zenon DEF ReceiverOK, TransferOK
  <2>3. r.ProgressBytes # F[r.id].total
    BY <2>2
  <2> QED
    BY <2>1, <2>3, Zenon DEF Passes
<1> QED
  BY <1>1, <1>2, Zenon DEF TipOK

(* The receiver takes the first message, and its transfer is over or has    *)
(* come to the end of it.                                                   *)
LEMMA StreamTake ==
    ASSUME NEW F, NEW q, NEW r, NEW l, NEW s, NEW d, NEW r2,
           StreamOK(F, q, r), TipOK(F, q, r, l, s, d), q # <<>>,
           r2 # NoFile => /\ ~Closes(F, q[1])
                          /\ r2.id = q[1].id /\ r2.ProgressBytes = To(q[1])
    PROVE  StreamOK(F, Tail(q), r2) /\ TipOK(F, Tail(q), r2, l, s, d)
<1> DEFINE t == Tail(q)
<1>1. /\ q \in Seq(FileMessages)
      /\ \A k \in 1 .. Len(q) : MessageOK(F, q[k])
      /\ \A k \in 1 .. Len(q) - 1 : Continues(q[k + 1], Closes(F, q[k]), q[k].id, To(q[k]))
  BY Zenon DEF StreamOK
<1>n. Len(q) \in Nat
  BY <1>1
<1>2. /\ t \in Seq(FileMessages) /\ Len(t) = Len(q) - 1 /\ Len(q) > 0
      /\ \A k \in 1 .. Len(q) - 1 : t[k] = q[k + 1]
  BY <1>1, TailIs, Zenon
<1> HIDE DEF t
<1>3. ASSUME NEW k \in 1 .. Len(t) PROVE MessageOK(F, t[k])
  <2>1. k \in 1 .. Len(q) - 1 /\ k + 1 \in 1 .. Len(q)
    BY <1>1, <1>2
  <2> QED
    BY <1>1, <1>2, <2>1, Zenon
<1>4. ASSUME NEW k \in 1 .. Len(t) - 1
      PROVE  Continues(t[k + 1], Closes(F, t[k]), t[k].id, To(t[k]))
  <2>1. k \in 1 .. Len(q) - 1 /\ k + 1 \in 1 .. Len(q) - 1
    BY <1>1, <1>2
  <2>2. t[k] = q[k + 1] /\ t[k + 1] = q[(k + 1) + 1]
    BY <1>2, <2>1, Zenon
  <2> QED
    BY <1>1, <2>1, <2>2, Zenon
<1>5. ASSUME r2 # NoFile, Len(t) > 0
      PROVE  Continues(t[1], FALSE, r2.id, r2.ProgressBytes)
  <2>1. 1 \in 1 .. Len(q) - 1
    BY <1>1, <1>2, <1>5
  <2>2. t[1] = q[1 + 1] /\ Continues(q[1 + 1], Closes(F, q[1]), q[1].id, To(q[1]))
    BY <1>1, <1>2, <2>1, Zenon
  <2> QED
    BY <1>5, <2>2, Zenon DEF Continues
<1>6. StreamOK(F, t, r2)
  BY <1>2, <1>3, <1>4, <1>5, Zenon DEF StreamOK
<1>7. ASSUME l # "down" PROVE TipOK(F, t, r2, l, s, d)
  <2>1. SenderContinues(l, s, d, Closes(F, q[Len(q)]), q[Len(q)].id, To(q[Len(q)]))
    BY <1>2, <1>7, Zenon DEF TipOK
  <2>2. CASE Len(t) > 0
    <3>1. Len(t) \in 1 .. Len(q) - 1 /\ Len(t) + 1 = Len(q) /\ ~(Len(t) = 0)
      BY <1>1, <1>2, <2>2
    <3>2. t[Len(t)] = q[Len(q)]
      BY <1>2, <3>1, Zenon
    <3> QED
      BY <2>1, <3>1, <3>2, Zenon DEF TipOK
  <2>3. CASE Len(t) = 0
    <3>1. Len(q) = 1 /\ ~(Len(t) > 0)
      <4>1. Len(t) = Len(q) - 1
        BY <1>2, Zenon
      <4> QED
        BY <1>n, <2>3, <4>1, SMT
    <3>2. SenderContinues(l, s, d, Closes(F, q[1]), q[1].id, To(q[1]))
      BY <2>1, <3>1, Zenon
    <3>3. ASSUME r2 # NoFile
          PROVE  SenderContinues(l, s, d, FALSE, r2.id, r2.ProgressBytes)
      BY <3>2, <3>3, Zenon DEF SenderContinues
    <3> QED
      BY <3>1, <3>3, Zenon DEF TipOK
  <2> QED
    BY <1>1, <1>2, <2>2, <2>3
<1>8. TipOK(F, t, r2, l, s, d)
  BY <1>7, Zenon DEF TipOK
<1> QED
  BY <1>6, <1>8, Zenon DEF t

(* A receiver without a transfer takes everything. *)
LEMMA StreamDrop ==
    ASSUME NEW F, NEW q, NEW r, NEW l, NEW s, NEW d,
           StreamOK(F, q, r), TipOK(F, q, r, l, s, d)
    PROVE  StreamOK(F, q, NoFile) /\ TipOK(F, q, NoFile, l, s, d)
BY Zenon DEF StreamOK, TipOK

(* What is lost is the end of the stream, with the connection. *)
LEMMA StreamCut ==
    ASSUME NEW F, NEW q, NEW r, NEW s, NEW d, NEW n \in 0 .. Len(q), StreamOK(F, q, r)
    PROVE  StreamOK(F, SubSeq(q, 1, n), r) /\ TipOK(F, SubSeq(q, 1, n), r, "down", s, d)
<1> DEFINE t == SubSeq(q, 1, n)
<1>1. /\ q \in Seq(FileMessages)
      /\ \A k \in 1 .. Len(q) : MessageOK(F, q[k])
      /\ \A k \in 1 .. Len(q) - 1 : Continues(q[k + 1], Closes(F, q[k]), q[k].id, To(q[k]))
      /\ r # NoFile /\ Len(q) > 0 => Continues(q[1], FALSE, r.id, r.ProgressBytes)
  BY Zenon DEF StreamOK
<1>n. Len(q) \in Nat
  BY <1>1
<1>2. t \in Seq(FileMessages) /\ Len(t) = n /\ \A k \in 1 .. n : t[k] = q[k]
  BY <1>1, FrontIs, Zenon
<1> HIDE DEF t
<1>3. ASSUME NEW k \in 1 .. Len(t) PROVE MessageOK(F, t[k])
  <2>1. k \in 1 .. n /\ k \in 1 .. Len(q)
    BY <1>1, <1>2
  <2> QED
    BY <1>1, <1>2, <2>1, Zenon
<1>4. ASSUME NEW k \in 1 .. Len(t) - 1
      PROVE  Continues(t[k + 1], Closes(F, t[k]), t[k].id, To(t[k]))
  <2>1. k \in 1 .. n /\ k + 1 \in 1 .. n /\ k \in 1 .. Len(q) - 1
    BY <1>1, <1>2
  <2>2. t[k] = q[k] /\ t[k + 1] = q[k + 1]
    BY <1>2, <2>1, Zenon
  <2> QED
    BY <1>1, <2>1, <2>2, Zenon
<1>5. ASSUME r # NoFile, Len(t) > 0 PROVE Continues(t[1], FALSE, r.id, r.ProgressBytes)
  <2>1. 1 \in 1 .. n /\ Len(q) > 0
    BY <1>1, <1>2, <1>5
  <2> QED
    BY <1>1, <1>2, <1>5, <2>1, Zenon
<1>6. StreamOK(F, t, r)
  BY <1>2, <1>3, <1>4, <1>5, Zenon DEF StreamOK
<1>7. TipOK(F, t, r, "down", s, d)
  BY Zenon DEF TipOK
<1> QED
  BY <1>6, <1>7, Zenon DEF t

(* A new file changes nothing about those before it. *)
LEMMA StreamGrows ==
    ASSUME NEW F, NEW G, NEW q, NEW r, NEW m, NEW l, NEW s, NEW d, NEW c,
           \A i \in DOMAIN F : i \in DOMAIN G /\ G[i] = F[i],
           StreamOK(F, q, r), TipOK(F, q, r, l, s, d), ReceiverOK(F, r, m), ReportOK(F, c)
    PROVE  /\ StreamOK(G, q, r) /\ TipOK(G, q, r, l, s, d) /\ ReceiverOK(G, r, m)
           /\ ReportOK(G, c)
<1>1. /\ q \in Seq(FileMessages)
      /\ \A k \in 1 .. Len(q) : MessageOK(F, q[k])
      /\ \A k \in 1 .. Len(q) - 1 : Continues(q[k + 1], Closes(F, q[k]), q[k].id, To(q[k]))
      /\ r # NoFile /\ Len(q) > 0 => Continues(q[1], FALSE, r.id, r.ProgressBytes)
  BY Zenon DEF StreamOK
<1>n. Len(q) \in Nat
  BY <1>1
<1>2. ASSUME NEW x, MessageOK(F, x)
      PROVE  MessageOK(G, x) /\ (Closes(G, x) <=> Closes(F, x))
  <2>1. x.id \in DOMAIN F /\ x.id \in DOMAIN G /\ G[x.id] = F[x.id]
    BY <1>2, Zenon DEF MessageOK
  <2> QED
    BY <1>2, <2>1, Zenon DEF MessageOK, Closes
<1>3. \A k \in 1 .. Len(q) : MessageOK(G, q[k]) /\ (Closes(G, q[k]) <=> Closes(F, q[k]))
  BY <1>1, <1>2, Zenon
<1>4. ASSUME NEW k \in 1 .. Len(q) - 1
      PROVE  Continues(q[k + 1], Closes(G, q[k]), q[k].id, To(q[k]))
  <2>1. k \in 1 .. Len(q)
    BY <1>1
  <2>2. Continues(q[k + 1], Closes(F, q[k]), q[k].id, To(q[k]))
    BY <1>1, Zenon
  <2> QED
    BY <1>3, <2>1, <2>2, Zenon DEF Continues
<1>5. StreamOK(G, q, r)
  BY <1>1, <1>3, <1>4, Zenon DEF StreamOK
<1>6. ASSUME l # "down", Len(q) > 0
      PROVE  SenderContinues(l, s, d, Closes(G, q[Len(q)]), q[Len(q)].id, To(q[Len(q)]))
  <2>1. Len(q) \in 1 .. Len(q)
    BY <1>1, <1>6
  <2>2. SenderContinues(l, s, d, Closes(F, q[Len(q)]), q[Len(q)].id, To(q[Len(q)]))
    BY <1>6, Zenon DEF TipOK
  <2> QED
    BY <1>3, <2>1, <2>2, Zenon DEF SenderContinues
<1>7. TipOK(G, q, r, l, s, d)
  BY <1>6, Zenon DEF TipOK
<1>8. ASSUME NEW x, TransferOK(F, x) PROVE TransferOK(G, x)
  <2>1. x.id \in DOMAIN F /\ x.id \in DOMAIN G /\ G[x.id] = F[x.id]
    BY <1>8, Zenon DEF TransferOK
  <2> QED
    BY <1>8, <2>1, Zenon DEF TransferOK
<1>9. ReceiverOK(G, r, m)
  BY <1>8, Zenon DEF ReceiverOK
<1>10. ReportOK(G, c)
  BY Zenon DEF ReportOK
<1> QED
  BY <1>5, <1>7, <1>9, <1>10, Zenon

-----------------------------------------------------------------------------
(* What is sent *)

IsChunk(m, f, p, n) ==
    /\ m \in FileMessages /\ m.id = f /\ m.kind = "data"
    /\ From(m) = p /\ To(m) = p + n
    /\ m.body = Bytes(f, From(m), To(m) - From(m))

(* A message of n bytes of file f behind the first p. *)
LEMMA ChunkIs ==
    ASSUME NEW f \in Nat, NEW p \in Nat, NEW n \in Nat, n > 0
    PROVE  IsChunk(Message(f, "data", Bytes(f, p, n)), f, p, n)
<1> DEFINE b == Bytes(f, p, n)
           m == Message(f, "data", b)
<1>1. b \in Seq(Octets) /\ Len(b) = n /\ b[1][2] - 1 = p
  BY BytesAre
<1> HIDE DEF b
<1>2. m = [id |-> f, kind |-> "data", body |-> b]
  BY Zenon DEF Message
<1> HIDE DEF m
<1>3. m.id = f /\ m.kind = "data" /\ m.body = b /\ m.kind # "header"
  BY <1>2, Zenon
<1>4. m \in FileChunks
  BY <1>1, <1>2, Zenon DEF FileChunks
<1>5. From(m) = p
  BY <1>1, <1>3, Zenon DEF From
<1>6. To(m) = p + n
  BY <1>1, <1>3, <1>5, Zenon DEF To
<1>7. To(m) - From(m) = n
  BY <1>5, <1>6
<1> QED
  BY <1>3, <1>4, <1>5, <1>6, <1>7, Zenon DEF IsChunk, FileMessages, b, m

(* The header and the name. *)
LEMMA HeadIs ==
    ASSUME NEW f \in Nat, NEW k \in Nat
    PROVE  LET head == [i \in 1 .. k |-> <<f, 1 - i>>]
           IN  head \in Seq(Octets) /\ Len(head) = k
<1>1. \A i \in 1 .. k : <<f, 1 - i>> \in Octets
  BY DEF Octets
<1> HIDE DEF Octets
<1> QED
  BY <1>1

IsHeader(m, f, total, name, n) ==
    /\ m \in FileMessages /\ m.id = f /\ m.kind = "header" /\ m.total = total
    /\ m.name = name /\ To(m) = n
    /\ SubSeq(m.body, (1 + m.name) + 1, Len(m.body)) = Bytes(f, 0, To(m))

(* The message that opens a file, with its first n bytes. *)
LEMMA HeaderIs ==
    ASSUME NEW f \in Nat, NEW total \in Nat, NEW name \in Nat, NEW n \in Nat,
           NEW head \in Seq(Octets), Len(head) = 1 + name
    PROVE  IsHeader([id |-> f, kind |-> "header", body |-> head \o Bytes(f, 0, n),
                     total |-> total, name |-> name], f, total, name, n)
<1> DEFINE b == Bytes(f, 0, n)
           body == head \o b
           m == [id |-> f, kind |-> "header", body |-> body, total |-> total, name |-> name]
<1>1. b \in Seq(Octets) /\ Len(b) = n
  BY BytesAre, Zenon
<1> HIDE DEF b
<1>2. /\ body \in Seq(Octets) /\ Len(body) = Len(head) + n
      /\ SubSeq(body, Len(head) + 1, Len(body)) = b
  BY <1>1, SecondPart, Zenon
<1> HIDE DEF body
<1>3. m \in FileHeaders
  BY <1>2, Zenon DEF FileHeaders
<1>4. /\ m.id = f /\ m.kind = "header" /\ m.total = total /\ m.name = name
      /\ m.body = body
  BY Zenon
<1> HIDE DEF m
<1>5. To(m) = n
  <2>1. Len(body) - (1 + name) = n
    BY <1>2
  <2> QED
    BY <1>4, <2>1, Zenon DEF To
<1>6. SubSeq(m.body, (1 + m.name) + 1, Len(m.body)) = b
  BY <1>2, <1>4, Zenon
<1> QED
  BY <1>3, <1>4, <1>5, <1>6, Zenon DEF IsHeader, FileMessages, m, body, b

(* A cancel message fits in anywhere. *)
LEMMA CancelIs ==
    ASSUME NEW F, NEW f \in Nat, f \in DOMAIN F
    PROVE  /\ Cancel(f) \in FileMessages /\ MessageOK(F, Cancel(f))
           /\ \A closed, g, p : Continues(Cancel(f), closed, g, p)
           /\ Closes(F, Cancel(f))
<1> DEFINE m == Cancel(f)
           b == <<<<f, 0>>>>
<1>1. b \in Seq(Octets)
  BY DEF Octets
<1> HIDE DEF b
<1>2. m = [id |-> f, kind |-> "cancel", body |-> b]
  BY Zenon DEF Cancel, Message, b
<1> HIDE DEF m
<1>3. m.id = f /\ m.kind = "cancel" /\ m.kind # "header" /\ m.kind # "data"
  BY <1>2, Zenon
<1>4. m \in FileChunks
  BY <1>1, <1>2, Zenon DEF FileChunks
<1> QED
  BY <1>3, <1>4, Zenon DEF FileMessages, MessageOK, Continues, Closes, m

(* The sender steps n bytes on in its view. *)
LEMMA SenderMoves ==
    ASSUME NEW s \in Senders, NEW n \in Nat, SendView(s), n <= s.view.len - s.ViewOffset
    PROVE  LET t == [s EXCEPT !.ProgressBytes = @ + n, !.ViewOffset = @ + n]
           IN  /\ t \in Senders /\ t.id = s.id /\ t.total = s.total /\ t.name = s.name
               /\ t.State = s.State /\ t.Done = s.Done /\ t.view = s.view
               /\ t.ProgressBytes = s.ProgressBytes + n /\ t.ViewOffset = s.ViewOffset + n
               /\ SendView(t) /\ t.ProgressBytes <= t.total
               /\ n > 0 => t.ProgressBytes <= BlockEnd(s.ProgressBytes)
<1> DEFINE t == [s EXCEPT !.ProgressBytes = @ + n, !.ViewOffset = @ + n]
<1>2. /\ s.view \in Views /\ s.ViewOffset \in Nat /\ s.total \in Nat
      /\ s.ProgressBytes \in Nat
  BY Zenon DEF Senders
<1>1. /\ t \in Senders /\ t.id = s.id /\ t.total = s.total /\ t.name = s.name
      /\ t.State = s.State /\ t.Done = s.Done /\ t.view = s.view
      /\ t.ProgressBytes = s.ProgressBytes + n /\ t.ViewOffset = s.ViewOffset + n
  <2> DEFINE p == s.ProgressBytes + n
             at == s.ViewOffset + n
  <2>1. t = [s EXCEPT !.ProgressBytes = p, !.ViewOffset = at] /\ p \in Nat /\ at \in Nat
    BY <1>2
  <2> HIDE DEF t, p, at
  <2>2. /\ t \in Senders /\ t.id = s.id /\ t.total = s.total /\ t.name = s.name
        /\ t.State = s.State /\ t.Done = s.Done /\ t.view = s.view
        /\ t.ProgressBytes = p /\ t.ViewOffset = at
    BY <2>1, Zenon DEF Senders
  <2> QED
    BY <2>2, Zenon DEF p, at
<1>3. s.view.off \in Nat /\ s.view.len \in Nat
  BY <1>2, Zenon DEF Views
<1>4. Spans(s.view.off, s.view.len, s.ViewOffset, s.total, s.ProgressBytes)
  BY Zenon DEF SendView
<1>5. /\ Spans(s.view.off, s.view.len, s.ViewOffset + n, s.total, s.ProgressBytes + n)
      /\ s.ProgressBytes + n <= s.total
      /\ n > 0 => s.ProgressBytes + n <= BlockEnd(s.ProgressBytes)
  BY <1>2, <1>3, <1>4, SpansAdvance, Zenon
<1> HIDE DEF t
<1>6. SendView(t)
  BY <1>1, <1>5, Zenon DEF SendView
<1>7. t.ProgressBytes <= t.total /\ (n > 0 => t.ProgressBytes <= BlockEnd(s.ProgressBytes))
  BY <1>1, <1>5, Zenon
<1> QED
  BY <1>1, <1>6, <1>7, Zenon DEF t

(* A sender is not the lack of one. *)
LEMMA SenderExists ==
    ASSUME NEW F, Catalogue(F), NEW s \in Senders, s.id \in DOMAIN F
    PROVE  s # NoFile
<1>2. s.id # 0
  BY CatalogueIs, Zenon
<1> QED
  BY <1>2 DEF NoFile

(* The stream after a chunk. *)
LEMMA ChunkStream ==
    ASSUME NEW F, NEW q, NEW r, NEW l, NEW s, NEW d, NEW n \in Nat, NEW t,
           Catalogue(F), StreamOK(F, q, r), TipOK(F, q, r, l, s, d), SenderOK(F, l, s, d),
           s # NoFile, d > 0, l # "down", n > 0, n <= s.view.len - s.ViewOffset,
           t = [s EXCEPT !.ProgressBytes = @ + n, !.ViewOffset = @ + n]
    PROVE  LET m == Message(s.id, "data", Bytes(s.id, s.ProgressBytes, n))
           IN  StreamOK(F, Append(q, m), r) /\ TipOK(F, Append(q, m), r, l, t, d)
<1> DEFINE m == Message(s.id, "data", Bytes(s.id, s.ProgressBytes, n))
<1>1. /\ s \in Senders /\ s.id \in DOMAIN F /\ s.total = F[s.id].total /\ SendView(s)
      /\ l = "up" => s.State = "FileData" /\ (s.Done => s.ProgressBytes = s.total)
  BY Zenon DEF SenderOK
<1>2. s.id \in Nat /\ s.ProgressBytes \in Nat /\ s.total \in Nat
  BY <1>1, Zenon DEF Senders
<1>3. /\ m \in FileMessages /\ m.id = s.id /\ m.kind = "data" /\ From(m) = s.ProgressBytes
      /\ To(m) = s.ProgressBytes + n /\ m.body = Bytes(s.id, From(m), To(m) - From(m))
  <2>1. IsChunk(m, s.id, s.ProgressBytes, n)
    BY <1>2, ChunkIs, Zenon
  <2> QED
    BY <2>1, Zenon DEF IsChunk
<1>4. /\ t \in Senders /\ t.id = s.id /\ t.total = s.total /\ t.State = s.State
      /\ t.Done = s.Done /\ t.ProgressBytes = s.ProgressBytes + n
      /\ t.ProgressBytes <= t.total
      /\ t.ProgressBytes <= BlockEnd(s.ProgressBytes)
  BY <1>1, SenderMoves, Zenon
<1> HIDE DEF m
<1>5. /\ From(m) \in Nat /\ To(m) \in Nat /\ To(m) > From(m)
      /\ To(m) <= F[m.id].total /\ To(m) <= BlockEnd(From(m))
  BY <1>1, <1>2, <1>3, <1>4
<1>6. m.kind # "header"
  BY <1>3, Zenon
<1>7. MessageOK(F, m)
  BY <1>1, <1>3, <1>5, <1>6, Zenon DEF MessageOK
<1>8. ASSUME NEW f, NEW p, NEW closed \in BOOLEAN, SenderContinues(l, s, d, closed, f, p)
      PROVE  Continues(m, closed, f, p)
  BY <1>3, <1>6, <1>8, Zenon DEF SenderContinues, Continues
<1>9. t # NoFile
  BY <1>1, <1>4, SenderExists, Zenon
<1>10. l = "up" => ~t.Done /\ t.State # "HeaderAndName"
  <2>1. l = "up" => ~s.Done
    BY <1>1, <1>2, <1>4
  <2> QED
    BY <1>1, <1>4, <2>1, Zenon
<1>11. SenderContinues(l, t, d, Closes(F, m), m.id, To(m))
  BY <1>3, <1>4, <1>9, <1>10, Zenon DEF SenderContinues
<1>12. StreamOK(F, Append(q, m), r) /\ TipOK(F, Append(q, m), r, l, t, d)
  BY <1>3, <1>7, <1>8, <1>11, StreamSend, Zenon
<1> QED
  BY <1>12, Zenon DEF m

-----------------------------------------------------------------------------
(* The sender's actions *)

(* The next bytes under the view are the next bytes of the file. *)
LEMMA ViewDataIs ==
    ASSUME NEW n \in Nat, SendView(sending)
    PROVE  ViewData(n) = Bytes(sending.id, sending.ProgressBytes, n)
<1>1. sending.view.off + sending.ViewOffset = sending.ProgressBytes
  BY Zenon DEF SendView, Spans
<1> QED
  BY <1>1, Zenon DEF ViewData, Bytes

(* A sender that sends nothing: what remains to be shown. *)
LEMMA SenderOnly ==
    ASSUME FileIInv, files' = files, recv' = recv, incoming' = incoming, report' = report,
           SenderOK(files, link', sending', deficit'),
           StreamOK(files, channel', recv),
           TipOK(files, channel', recv, link', sending', deficit')
    PROVE  FileIInv'
BY Zenon DEF FileIInv

(* tonk_file_from_disk() and tonk_file_from_buffer(): a view of the file's  *)
(* start.                                                                   *)
LEMMA NewFileKeeps ==
    ASSUME FileIInv, NEW size \in Nat, NEW name \in 0 .. NameField - 1, NEW view \in Views,
           Spans(view.off, view.len, 0, size, 0), NewFile(size, name, view)
    PROVE  FileIInv'
<1> DEFINE t == [id |-> Len(files) + 1, total |-> size, name |-> name,
                 State |-> "HeaderAndName", ProgressBytes |-> 0,
                 ViewOffset |-> 0, view |-> view, Done |-> FALSE]
           R == [total : Nat, name : 0 .. NameField - 1]
           e == [total |-> size, name |-> name]
<1>1. /\ sending = NoFile /\ files' = Append(files, e) /\ sending' = t
      /\ UNCHANGED <<deficit, channel, link, recv, incoming, report>>
  BY Zenon DEF NewFile
<1>2. files \in Seq(R) /\ e \in R
  BY Zenon DEF FileIInv, Catalogue
<1>3. /\ files' \in Seq(R) /\ Len(files') = Len(files) + 1 /\ files'[Len(files) + 1] = e
      /\ \A i \in 1 .. Len(files) : files'[i] = files[i]
  <2> HIDE DEF R, e
  <2> QED
    BY <1>1, <1>2, AppendIs, SMTT(30)
<1>4. Len(files) \in Nat /\ DOMAIN files = 1 .. Len(files) /\ DOMAIN files' = 1 .. Len(files')
  BY <1>2, <1>3
<1>5. \A i \in DOMAIN files : i \in DOMAIN files' /\ files'[i] = files[i]
  BY <1>3, <1>4
<1>6. deficit = 0
  BY <1>1, Zenon DEF FileIInv, SenderOK
<1>7. t \in Senders /\ t.id = Len(files')
  BY <1>3, <1>4, FileNumbers DEF Senders
<1>8. t.id \in DOMAIN files' /\ files'[t.id] = e /\ t.id # 0
  BY <1>3, <1>4
<1>9. t # NoFile
  BY <1>8, Zenon DEF NoFile
<1>10. SendView(t)
  BY Zenon DEF SendView
<1>11. /\ t.total = size /\ t.name = name /\ t.State = "HeaderAndName" /\ t.ProgressBytes = 0
       /\ ~t.Done
  BY Zenon
<1>12. e.total = size /\ e.name = name
  BY Zenon
<1> HIDE DEF t, e
<1>13. SenderOK(files', link', sending', deficit')
  <2>1. deficit' = 0 /\ deficit' \in Nat /\ ~(deficit' > 0)
    BY <1>1, <1>6
  <2> QED
    BY <1>1, <1>7, <1>8, <1>9, <1>10, <1>11, <1>12, <2>1, Zenon DEF SenderOK
<1>14. /\ StreamOK(files, channel, recv) /\ TipOK(files, channel, recv, link, sending, deficit)
       /\ ReceiverOK(files, recv, incoming) /\ ReportOK(files, report)
  BY Zenon DEF FileIInv
<1>15. /\ StreamOK(files', channel, recv) /\ TipOK(files', channel, recv, link, sending, deficit)
       /\ ReceiverOK(files', recv, incoming) /\ ReportOK(files', report)
  BY <1>5, <1>14, StreamGrows, Zenon
<1>16. ASSUME NEW f, NEW p, NEW closed \in BOOLEAN,
              SenderContinues(link, sending, deficit, closed, f, p)
       PROVE  SenderContinues(link, t, deficit, closed, f, p)
  <2>1. ~(deficit > 0) /\ ~(t.State = "FileData")
    BY <1>6, <1>11
  <2> QED
    BY <1>1, <1>16, <2>1, Zenon DEF SenderContinues
<1>17. TipOK(files', channel, recv, link, t, deficit)
  <2>1. Passes(files', link, sending, deficit, link, t, deficit)
    BY <1>16, Zenon DEF Passes
  <2> QED
    BY <1>15, <2>1, StreamWait, Zenon
<1>18. Catalogue(files')
  BY <1>3, Zenon DEF Catalogue
<1> QED
  BY <1>1, <1>13, <1>15, <1>17, <1>18, Zenon DEF FileIInv

(* tonk_file_from_disk(). *)
LEMMA FromDiskKeeps ==
    ASSUME FileIInv, WithinLimits, NEW size \in DiskSizes, NEW name \in NameLengths,
           tonk_file_from_disk(size, name)
    PROVE  FileIInv'
<1> DEFINE v == NextView(size, 0)
<1>1. size \in Nat /\ name \in 0 .. NameField - 1 /\ 0 \in Nat /\ 0 <= size
  BY FileNumbers DEF WithinLimits
<1>2. 0 % kMaxViewBytes = 0
  BY FileNumbers
<1>3. v \in Views /\ v.off <= 0 /\ (0 = 0 => v.off = 0)
  BY <1>1, NextViewIs, Zenon
<1>4. Spans(v.off, v.len, 0 - v.off, size, 0)
  BY <1>1, <1>2, NextViewFits, Zenon
<1>5. NewFile(size, name, v)
  BY Zenon DEF tonk_file_from_disk
<1> HIDE DEF v
<1>6. 0 - v.off = 0
  BY <1>3
<1> QED
  BY <1>1, <1>3, <1>4, <1>5, <1>6, NewFileKeeps, Zenon

(* tonk_file_from_buffer(): within the limits the buffer is one view. *)
LEMMA FromBufferKeeps ==
    ASSUME FileIInv, WithinLimits, NEW size \in BufferSizes, NEW name \in NameLengths,
           tonk_file_from_buffer(size, name)
    PROVE  FileIInv'
<1> DEFINE v == [off |-> 0, len |-> size]
<1>1. size \in Nat /\ name \in 0 .. NameField - 1 /\ size <= kMaxViewBytes
  BY FileNumbers DEF WithinLimits
<1>2. 0 % kMaxViewBytes = 0
  BY FileNumbers
<1>3. BlockEnd(0) = 0 + kMaxViewBytes
  BY <1>2, BlockEndIs, Zenon
<1>4. v \in Views
  BY <1>1, Zenon DEF Views
<1>5. Spans(0, size, 0, size, 0)
  BY <1>1, <1>3, FileNumbers DEF Spans
<1>6. NewFile(size, name, v)
  BY Zenon DEF tonk_file_from_buffer
<1> QED
  BY <1>1, <1>4, <1>5, <1>6, NewFileKeeps, Zenon

(* WriteSendHeader(): the header goes out, or the connection closes. *)
LEMMA HeaderKeeps ==
    ASSUME FileIInv, NEW room \in Nat, sending # NoFile, ~sending.Done, deficit = 0,
           link = "up", sending.State = "HeaderAndName", WriteSendHeader(room),
           UNCHANGED <<files, recv, incoming, report>>
    PROVE  FileIInv'
<1> DEFINE min == 1 + sending.name
           send == Least(room, kBytesChunk)
           n == IF send <= min THEN 0 ELSE Least(send - min, sending.view.len)
           head == [i \in 1..min |-> <<sending.id, 1 - i>>]
           m == [id |-> sending.id, kind |-> "header", body |-> head \o ViewData(n),
                 total |-> sending.total, name |-> sending.name % NameField]
           done == send > min /\ n >= sending.total
           t == [sending EXCEPT !.State = "FileData", !.ProgressBytes = n,
                                !.ViewOffset = n, !.Done = done]
           u == [sending EXCEPT !.Done = TRUE]
           b == Bytes(sending.id, 0, n)
<1>1. /\ Catalogue(files) /\ SenderOK(files, link, sending, deficit)
      /\ ReceiverOK(files, recv, incoming) /\ StreamOK(files, channel, recv)
      /\ TipOK(files, channel, recv, link, sending, deficit)
  BY Zenon DEF FileIInv
<1>2. /\ sending \in Senders /\ sending.id = Len(files) /\ sending.id \in DOMAIN files
      /\ sending.total = files[sending.id].total /\ sending.name = files[sending.id].name
      /\ SendView(sending) /\ sending.ProgressBytes = 0
  BY <1>1, Zenon DEF SenderOK
<1>3. /\ sending.id \in Nat /\ sending.total \in Nat /\ sending.name \in Nat
      /\ sending.view \in Views /\ sending.ViewOffset \in Nat
      /\ sending.view.off \in Nat /\ sending.view.len \in Nat
  BY <1>2, Zenon DEF Senders, Views
<1>4. sending.name % NameField = sending.name
  <2>2. sending.name \in 0 .. NameField - 1
    BY <1>1, <1>2, CatalogueIs, Zenon
  <2>3. sending.name = 0 * NameField + sending.name /\ 0 \in Int /\ sending.name \in Int
    BY <1>3, FileNumbers
  <2> QED
    BY <2>2, <2>3, FileNumbers, ModUnique, Zenon
<1>5. /\ Spans(sending.view.off, sending.view.len, sending.ViewOffset, sending.total, 0)
      /\ 0 \in Nat
  BY <1>2, Zenon DEF SendView
<1>6. sending.view.off = 0 /\ sending.ViewOffset = 0
  BY <1>3, <1>5 DEF Spans
<1>7. send \in Nat /\ min \in Nat /\ n \in Nat /\ n <= sending.view.len
  BY <1>3, FileNumbers DEF Least
<1>8. ViewData(n) = b
  BY <1>2, <1>7, ViewDataIs, Zenon
<1>9. head \in Seq(Octets) /\ Len(head) = 1 + sending.name
  BY <1>3, <1>7, HeadIs, Zenon
<1>10. done \in BOOLEAN /\ (done => n >= sending.total)
  BY Zenon
<1>11. /\ t \in Senders /\ t.id = sending.id /\ t.total = sending.total
       /\ t.name = sending.name /\ t.State = "FileData" /\ t.ProgressBytes = n
       /\ t.ViewOffset = n /\ t.Done = done /\ t.view = sending.view
  <2> HIDE DEF n, done
  <2> QED
    BY <1>2, <1>7, <1>10, Zenon DEF Senders
<1>12. /\ u \in Senders /\ u.id = sending.id /\ u.total = sending.total
       /\ u.name = sending.name /\ u.State = sending.State /\ u.ProgressBytes = 0
       /\ u.ViewOffset = sending.ViewOffset /\ u.Done /\ u.view = sending.view
  BY <1>2, Zenon DEF Senders
<1>13. t # NoFile /\ u # NoFile
  BY <1>1, <1>2, <1>11, <1>12, SenderExists, Zenon
<1>14. m = [id |-> sending.id, kind |-> "header", body |-> head \o b,
            total |-> sending.total, name |-> sending.name]
  BY <1>4, <1>8, Zenon
<1> HIDE DEF head
<1>15. /\ m \in FileMessages /\ m.id = sending.id /\ m.kind = "header"
       /\ m.total = sending.total /\ m.name = sending.name /\ To(m) = n
       /\ SubSeq(m.body, (1 + m.name) + 1, Len(m.body)) = Bytes(sending.id, 0, To(m))
  <2> HIDE DEF n, m
  <2>1. IsHeader(m, sending.id, sending.total, sending.name, n)
    BY <1>3, <1>7, <1>9, <1>14, HeaderIs, Zenon DEF b
  <2> QED
    BY <2>1, Zenon DEF IsHeader
<1>16. \/ /\ channel' = Sent(channel, m) /\ sending' = t
          /\ deficit' = IF room <= min + n + kMinWriteBytes THEN 0 ELSE room - (min + n)
          /\ link' = link
       \/ sending' = u /\ link' = "closing" /\ deficit' = room /\ channel' = channel
  BY Zenon DEF WriteSendHeader, head
<1> HIDE DEF m, t, u, done, n, send, min
<1>17. CASE sending' = u /\ link' = "closing" /\ deficit' = room /\ channel' = channel
  <2>1. SendView(u)
    BY <1>2, <1>12, Zenon DEF SendView
  <2>2. SenderOK(files, "closing", u, room)
    BY <1>2, <1>12, <1>13, <2>1, Zenon DEF SenderOK
  <2>3. ASSUME NEW f, NEW p, NEW closed \in BOOLEAN,
               SenderContinues(link, sending, deficit, closed, f, p)
        PROVE  SenderContinues("closing", u, room, closed, f, p)
    BY <2>3, Zenon DEF SenderContinues
  <2>4. TipOK(files, channel, recv, "closing", u, room)
    <3>1. link # "down"
      BY Zenon
    <3>2. Passes(files, link, sending, deficit, "closing", u, room)
      BY <2>3, Zenon DEF Passes
    <3> QED
      BY <1>1, <3>2, <3>1, StreamWait, Zenon
  <2> QED
    BY <1>1, <1>17, <2>2, <2>4, SenderOnly, Zenon
<1>18. CASE /\ channel' = Sent(channel, m) /\ sending' = t
            /\ deficit' = IF room <= min + n + kMinWriteBytes THEN 0 ELSE room - (min + n)
            /\ link' = link
  <2>1. channel' = Append(channel, m)
    BY <1>18, Zenon DEF Sent
  <2>2. deficit' \in Nat
    BY <1>7, <1>18, FileNumbers
  <2>3. n \in Nat /\ n <= sending.view.len - sending.ViewOffset
    BY <1>3, <1>6, <1>7
  <2>4. /\ Spans(sending.view.off, sending.view.len, sending.ViewOffset + n, sending.total, 0 + n)
        /\ 0 + n <= sending.total /\ (n > 0 => 0 + n <= BlockEnd(0))
    BY <1>3, <1>5, <2>3, SpansAdvance, Zenon
  <2>5. sending.ViewOffset + n = n /\ 0 + n = n
    BY <1>6, <1>7
  <2>6. SendView(t) /\ n <= sending.total /\ (n > 0 => n <= BlockEnd(0))
    BY <1>11, <2>4, <2>5, Zenon DEF SendView
  <2>7. n <= BlockEnd(0)
    BY <1>5, <1>7, <2>6, BlockEndIs
  <2>8. MessageOK(files, m)
    <3>1. m.kind # "data"
      BY <1>15, Zenon
    <3> QED
      BY <1>2, <1>7, <1>15, <2>6, <2>7, <3>1, Zenon DEF MessageOK
  <2>9. done => n = sending.total
    BY <1>3, <1>7, <1>10, <2>6
  <2>10. SenderOK(files, link, t, deficit')
    <3>1. /\ files[t.id].total = t.total /\ files[t.id].name = t.name /\ t.id = Len(files)
          /\ t.id \in DOMAIN files /\ t.State # "HeaderAndName"
          /\ t.Done => t.ProgressBytes = t.total
      BY <1>2, <1>11, <2>9, Zenon
    <3> QED
      BY <1>11, <1>13, <2>2, <2>6, <3>1, Zenon DEF SenderOK
  <2>11. ASSUME NEW f, NEW p, NEW closed \in BOOLEAN,
                SenderContinues(link, sending, deficit, closed, f, p)
         PROVE  Continues(m, closed, f, p)
    <3>1. m.kind # "data"
      BY <1>15, Zenon
    <3> QED
      BY <2>11, <3>1, Zenon DEF SenderContinues, Continues
  <2>12. SenderContinues(link, t, deficit', Closes(files, m), m.id, To(m))
    <3>1. t.Done => Closes(files, m)
      BY <1>2, <1>11, <1>15, <2>9, Zenon DEF Closes
    <3>2. t.State # "HeaderAndName"
      BY <1>11, Zenon
    <3> QED
      BY <1>11, <1>13, <1>15, <3>1, <3>2, Zenon DEF SenderContinues
  <2>13. StreamOK(files, Append(channel, m), recv)
         /\ TipOK(files, Append(channel, m), recv, link, t, deficit')
    <3>1. link # "down"
      BY Zenon
    <3> QED
      BY <1>1, <1>15, <2>8, <2>11, <2>12, <3>1, StreamSend, Zenon
  <2> QED
    BY <1>18, <2>1, <2>10, <2>13, SenderOnly, Zenon
<1> QED
  BY <1>16, <1>17, <1>18, Zenon

(* tonk_file_send() up to its loop. *)
LEMMA FileSendKeeps ==
    ASSUME FileIInv, NEW room \in Deficits, tonk_file_send(room)
    PROVE  FileIInv'
<1>1. /\ sending # NoFile /\ ~sending.Done /\ deficit = 0 /\ link = "up"
      /\ UNCHANGED <<files, recv, incoming, report>>
      /\ \/ sending.State = "HeaderAndName" /\ WriteSendHeader(room)
         \/ /\ sending.State = "FileData"
            /\ deficit' = room
            /\ UNCHANGED <<sending, channel, link>>
  BY Zenon DEF tonk_file_send
<1>2. room \in Nat
  BY FileNumbers, Zenon
<1>3. CASE sending.State = "HeaderAndName" /\ WriteSendHeader(room)
  BY <1>1, <1>2, <1>3, HeaderKeeps, Zenon
<1>4. CASE /\ sending.State = "FileData"
           /\ deficit' = room
           /\ UNCHANGED <<sending, channel, link>>
  <2>1. /\ SenderOK(files, link, sending, deficit) /\ ReceiverOK(files, recv, incoming)
        /\ StreamOK(files, channel, recv)
        /\ TipOK(files, channel, recv, link, sending, deficit)
    BY Zenon DEF FileIInv
  <2>2. SenderOK(files, link, sending, room)
    BY <1>1, <1>2, <1>4, <2>1, Zenon DEF SenderOK
  <2>3. ASSUME NEW f, NEW p, NEW closed \in BOOLEAN,
               SenderContinues(link, sending, deficit, closed, f, p)
        PROVE  SenderContinues(link, sending, room, closed, f, p)
    BY <1>1, <1>4, <2>3, Zenon DEF SenderContinues
  <2>4. TipOK(files, channel, recv, link, sending, room)
    <3>1. Passes(files, link, sending, deficit, link, sending, room)
      BY <2>3, Zenon DEF Passes
    <3> QED
      BY <2>1, <3>1, StreamWait, Zenon
  <2> QED
    BY <1>1, <1>4, <2>1, <2>2, <2>4, SenderOnly, Zenon
<1> QED
  BY <1>1, <1>3, <1>4, Zenon

(* One turn of the loop of tonk_file_send(): the chunk goes out, then the   *)
(* view ends or not.                                                        *)
LEMMA SendChunkKeeps ==
    ASSUME FileIInv, SendChunk
    PROVE  FileIInv'
<1> DEFINE left == sending.view.len - sending.ViewOffset
           n == Least(Least(deficit, kBytesChunk), left)
           s == [sending EXCEPT !.ProgressBytes = @ + n, !.ViewOffset = @ + n]
           m == Message(s.id, "data", ViewData(n))
           sent == IF n = 0 THEN channel ELSE Sent(channel, m)
           view == NextView(s.total, s.ProgressBytes)
           done == [s EXCEPT !.Done = TRUE]
           moved == [s EXCEPT !.view = view, !.ViewOffset = s.ProgressBytes - view.off]
           given == [s EXCEPT !.ProgressBytes = 0, !.Done = TRUE]
           stopped == [sending EXCEPT !.ProgressBytes = 0, !.Done = TRUE]
<1>1. /\ Catalogue(files) /\ SenderOK(files, link, sending, deficit)
      /\ ReceiverOK(files, recv, incoming) /\ StreamOK(files, channel, recv)
      /\ TipOK(files, channel, recv, link, sending, deficit)
  BY Zenon DEF FileIInv
<1>2. deficit > 0 /\ UNCHANGED <<files, recv, incoming, report>>
  BY Zenon DEF SendChunk
<1>3. /\ deficit \in Nat /\ sending # NoFile /\ sending \in Senders
      /\ sending.id = Len(files) /\ sending.id \in DOMAIN files
      /\ sending.total = files[sending.id].total /\ sending.name = files[sending.id].name
      /\ SendView(sending)
      /\ link = "up" => /\ sending.State = "FileData"
                        /\ sending.Done => sending.ProgressBytes = sending.total
      /\ ~(sending.State = "HeaderAndName" /\ ~sending.Done)
  BY <1>1, <1>2, SMTT(30) DEF SenderOK
<1>4. /\ sending.view.off \in Nat /\ sending.view.len \in Nat /\ sending.ViewOffset \in Nat
      /\ sending.total \in Nat /\ sending.ProgressBytes \in Nat /\ sending.id \in Nat
      /\ sending.view \in Views /\ sending.name \in Nat /\ sending.Done \in BOOLEAN
  BY <1>3, Zenon DEF Senders, Views
<1>5. /\ sending.view.off + sending.ViewOffset = sending.ProgressBytes
      /\ sending.ViewOffset <= sending.view.len
  BY <1>3, Zenon DEF SendView, Spans
<1>6. /\ left \in Nat /\ n \in Nat /\ n <= left /\ n <= deficit /\ deficit - n \in Nat
      /\ n = 0 => left = 0
  <2>1. left \in Nat
    BY <1>4, <1>5
  <2> HIDE DEF left
  <2> QED
    BY <1>2, <1>3, <2>1, ChunkSize, Zenon
<1>7. ViewData(n) = Bytes(sending.id, sending.ProgressBytes, n)
  BY <1>3, <1>6, ViewDataIs, Zenon
<1> HIDE DEF n
<1>8. /\ s \in Senders /\ s.id = sending.id /\ s.total = sending.total
      /\ s.name = sending.name /\ s.State = sending.State /\ s.Done = sending.Done
      /\ s.view = sending.view /\ s.ProgressBytes = sending.ProgressBytes + n
      /\ s.ViewOffset = sending.ViewOffset + n /\ SendView(s) /\ s.ProgressBytes <= s.total
  BY <1>3, <1>6, SenderMoves, Zenon
<1>9. s # NoFile
  <2> HIDE DEF s
  <2> QED
    BY <1>1, <1>3, <1>8, SenderExists, Zenon
<1>10. m = Message(sending.id, "data", Bytes(sending.id, sending.ProgressBytes, n))
  BY <1>7, <1>8, Zenon
<1>11. StreamOK(files, sent, recv) /\ TipOK(files, sent, recv, link, s, deficit)
  <2>1. CASE n = 0
    <3>1. s.ProgressBytes = sending.ProgressBytes
      BY <1>4, <1>8, <2>1
    <3> HIDE DEF s
    <3>2. \A f, p : \A closed \in BOOLEAN :
            SenderContinues(link, sending, deficit, closed, f, p)
            => SenderContinues(link, s, deficit, closed, f, p)
      BY <1>3, <1>8, <1>9, <3>1, Zenon DEF SenderContinues
    <3>3. TipOK(files, channel, recv, link, s, deficit)
      <4>1. Passes(files, link, sending, deficit, link, s, deficit)
        BY <3>2, Zenon DEF Passes
      <4> QED
        BY <1>1, <4>1, StreamWait, Zenon
    <3> QED
      BY <1>1, <2>1, <3>3, Zenon
  <2>2. CASE n # 0 /\ link = "down"
    <3>1. sent = channel
      BY <2>2, Zenon DEF Sent
    <3> HIDE DEF sent, s
    <3> QED
      BY <1>1, <2>2, <3>1, Zenon DEF TipOK
  <2>3. CASE n # 0 /\ link # "down"
    <3>1. sent = Append(channel, m)
      BY <2>3, Zenon DEF Sent
    <3>2. n > 0 /\ n <= sending.view.len - sending.ViewOffset
      BY <1>6, <2>3
    <3> HIDE DEF sent
    <3>3. /\ StreamOK(files, Append(channel, m), recv)
          /\ TipOK(files, Append(channel, m), recv, link, s, deficit)
      <4>1. PICK t : t = s
        BY Zenon
      <4>2. t = [sending EXCEPT !.ProgressBytes = @ + n, !.ViewOffset = @ + n]
        BY <4>1, Zenon
      <4> HIDE DEF s, m
      <4> QED
        BY <1>1, <1>2, <1>3, <1>6, <1>10, <2>3, <3>2, <4>1, <4>2, ChunkStream, Zenon
    <3> QED
      BY <3>1, <3>3, Zenon
  <2> QED
    BY <2>1, <2>2, <2>3, Zenon
<1>12. \/ /\ n < left /\ sending' = s /\ channel' = sent /\ deficit' = deficit - n
          /\ link' = link
       \/ /\ n = left /\ s.ProgressBytes >= s.total
          /\ sending' = done /\ channel' = sent /\ deficit' = 0 /\ link' = link
       \/ /\ n = left /\ s.ProgressBytes < s.total
          /\ sending' = moved /\ channel' = sent /\ deficit' = deficit - n /\ link' = link
       \/ /\ n = left /\ s.ProgressBytes < s.total
          /\ sending' = given /\ channel' = Sent(sent, Cancel(s.id)) /\ deficit' = 0
          /\ link' = link
       \/ /\ sending' = stopped /\ link' = (IF link = "up" THEN "closing" ELSE link)
          /\ deficit' = 0 /\ channel' = channel
  BY Zenon DEF SendChunk, ViewComplete, n
<1>13. SenderOK(files, link, s, deficit)
  <2>1. /\ s.id = Len(files) /\ s.id \in DOMAIN files /\ s.total = files[s.id].total
        /\ s.name = files[s.id].name
    BY <1>3, <1>8, Zenon
  <2>2. link = "up" => s.State = "FileData" /\ (s.Done => s.ProgressBytes = s.total)
    BY <1>3, <1>4, <1>6, <1>8
  <2>3. ~(s.State = "HeaderAndName" /\ ~s.Done)
    BY <1>2, <1>3, <1>8, Zenon
  <2> HIDE DEF s
  <2> QED
    BY <1>3, <1>8, <1>9, <2>1, <2>2, <2>3, Zenon DEF SenderOK
<1> HIDE DEF sent, left, s
<1>14. CASE /\ n < left /\ sending' = s /\ channel' = sent /\ deficit' = deficit - n
            /\ link' = link
  <2>1. deficit - n > 0 => deficit > 0
    BY <1>2, Zenon
  <2>2. SenderOK(files, link, s, deficit - n)
    BY <1>6, <1>9, <1>13, <2>1, <1>2 DEF SenderOK
  <2>3. \A f, p : \A closed \in BOOLEAN :
          SenderContinues(link, s, deficit, closed, f, p)
          => SenderContinues(link, s, deficit - n, closed, f, p)
    BY <1>9, <2>1, Zenon DEF SenderContinues
  <2>4. TipOK(files, sent, recv, link, s, deficit - n)
    <3>1. Passes(files, link, s, deficit, link, s, deficit - n)
      BY <2>3, Zenon DEF Passes
    <3> QED
      BY <1>1, <1>11, <3>1, StreamWait, Zenon
  <2> QED
    BY <1>2, <1>11, <1>14, <2>2, <2>4, SenderOnly, Zenon
<1>15. CASE /\ n = left /\ s.ProgressBytes >= s.total
            /\ sending' = done /\ channel' = sent /\ deficit' = 0 /\ link' = link
  <2>1. /\ done \in Senders /\ done.id = s.id /\ done.total = s.total /\ done.name = s.name
        /\ done.State = s.State /\ done.Done
    BY <1>8, Zenon DEF Senders
  <2> HIDE DEF done
  <2>2. done # NoFile
    BY <1>1, <1>3, <1>8, <2>1, SenderExists, Zenon
  <2>3. s.ProgressBytes = s.total /\ s.total = files[s.id].total /\ s.id \in DOMAIN files
    <3>1. s.ProgressBytes \in Nat /\ s.total \in Nat
      BY <1>8, Zenon DEF Senders
    <3> QED
      BY <1>3, <1>8, <1>15, <3>1
  <2>4. SenderOK(files, link, done, 0)
    <3>1. ~(0 > 0) /\ 0 \in Nat
      OBVIOUS
    <3> QED
      BY <1>3, <1>8, <2>1, <2>2, <3>1, Zenon DEF SenderOK
  <2>5. ASSUME NEW f, NEW p, NEW closed \in BOOLEAN,
               f \in DOMAIN files /\ p = files[f].total => closed,
               SenderContinues(link, s, deficit, closed, f, p)
        PROVE  SenderContinues(link, done, 0, closed, f, p)
    <3>1. closed
      <4>1. closed \/ (f = s.id /\ p = s.ProgressBytes)
        BY <1>2, <1>9, <2>5, Zenon DEF SenderContinues
      <4> QED
        BY <2>3, <2>5, <4>1, Zenon
    <3> QED
      BY <3>1, Zenon DEF SenderContinues
  <2>6. TipOK(files, sent, recv, link, done, 0)
    <3>1. Passes(files, link, s, deficit, link, done, 0)
      BY <2>5, Zenon DEF Passes
    <3> QED
      BY <1>1, <1>11, <3>1, StreamWait, Zenon
  <2> QED
    BY <1>2, <1>11, <1>15, <2>4, <2>6, SenderOnly, Zenon
<1>16. CASE /\ n = left /\ s.ProgressBytes < s.total
            /\ sending' = moved /\ channel' = sent /\ deficit' = deficit - n /\ link' = link
  <2> DEFINE p == s.ProgressBytes
             at == p - view.off
  <2>1. p \in Nat /\ s.total \in Nat /\ p <= s.total
    BY <1>8, Zenon DEF Senders
  <2>2. p % kMaxViewBytes = 0
    <3>1. p = s.view.off + s.view.len
      BY <1>4, <1>5, <1>6, <1>8, <1>16 DEF left
    <3>2. p = s.total \/ p % kMaxViewBytes = 0
      BY <1>8, <3>1, Zenon DEF SendView, Spans
    <3> QED
      BY <1>16, <2>1, <3>2
  <2>3. view \in Views /\ at \in Nat
    BY <2>1, NextViewIs, Zenon
  <2>4. Spans(view.off, view.len, at, s.total, p)
    BY <2>1, <2>2, NextViewFits, Zenon
  <2> HIDE DEF view
  <2>5. /\ moved \in Senders /\ moved.id = s.id /\ moved.total = s.total
        /\ moved.name = s.name /\ moved.State = s.State /\ moved.Done = s.Done
        /\ moved.ProgressBytes = p /\ moved.ViewOffset = at /\ moved.view = view
    <3> HIDE DEF at
    <3>1. moved = [s EXCEPT !.view = view, !.ViewOffset = at]
      BY Zenon DEF at
    <3> HIDE DEF moved
    <3> QED
      BY <1>8, <2>3, <3>1, Zenon DEF Senders
  <2> HIDE DEF moved, at, p
  <2>6. moved # NoFile
    BY <1>1, <1>3, <1>8, <2>5, SenderExists, Zenon
  <2>7. SendView(moved)
    BY <2>4, <2>5, Zenon DEF SendView
  <2>8. deficit - n > 0 => deficit > 0
    BY <1>2, Zenon
  <2>9. SenderOK(files, link, moved, deficit - n)
    <3>1. /\ moved.id = Len(files) /\ moved.id \in DOMAIN files
          /\ moved.total = files[moved.id].total /\ moved.name = files[moved.id].name
          /\ ~(moved.State = "HeaderAndName" /\ ~moved.Done)
      BY <1>3, <1>8, <2>5, Zenon
    <3>2. link = "up" => moved.State = "FileData"
                         /\ (moved.Done => moved.ProgressBytes = moved.total)
      BY <1>2, <1>9, <1>13, <2>5, Zenon DEF SenderOK, p
    <3> QED
      BY <1>6, <2>5, <2>6, <2>7, <2>8, <3>1, <3>2, Zenon DEF SenderOK
  <2>10. \A f, g : \A closed \in BOOLEAN :
          SenderContinues(link, s, deficit, closed, f, g)
          => SenderContinues(link, moved, deficit - n, closed, f, g)
    BY <1>9, <2>5, <2>6, <2>8, Zenon DEF SenderContinues, p
  <2>11. TipOK(files, sent, recv, link, moved, deficit - n)
    <3>1. Passes(files, link, s, deficit, link, moved, deficit - n)
      BY <2>10, Zenon DEF Passes
    <3> QED
      BY <1>1, <1>11, <3>1, StreamWait, Zenon
  <2> QED
    BY <1>2, <1>11, <1>16, <2>9, <2>11, SenderOnly, Zenon
<1>17. CASE /\ n = left /\ s.ProgressBytes < s.total
            /\ sending' = given /\ channel' = Sent(sent, Cancel(s.id)) /\ deficit' = 0
            /\ link' = link
  <2>1. /\ given \in Senders /\ given.id = s.id /\ given.total = s.total
        /\ given.name = s.name /\ given.Done
    BY <1>8, Zenon DEF Senders
  <2> HIDE DEF given
  <2>2. given # NoFile
    BY <1>1, <1>3, <1>8, <2>1, SenderExists, Zenon
  <2>3. SenderOK(files, link, given, 0)
    <3>1. ~(0 > 0) /\ 0 \in Nat
      OBVIOUS
    <3> QED
      BY <1>3, <1>8, <2>1, <2>2, <3>1, Zenon DEF SenderOK
  <2>4. s.id \in Nat /\ s.id \in DOMAIN files
    BY <1>3, <1>4, <1>8, Zenon
  <2>5. /\ Cancel(s.id) \in FileMessages /\ MessageOK(files, Cancel(s.id))
        /\ \A closed, g, p : Continues(Cancel(s.id), closed, g, p)
        /\ Closes(files, Cancel(s.id))
    BY <2>4, CancelIs, Zenon
  <2>6. SenderContinues(link, given, 0, Closes(files, Cancel(s.id)), Cancel(s.id).id,
                        To(Cancel(s.id)))
    BY <2>5, Zenon DEF SenderContinues
  <2>7. StreamOK(files, channel', recv) /\ TipOK(files, channel', recv, link, given, 0)
    <3>1. CASE link = "down"
      <4>1. channel' = sent
        BY <1>17, <3>1, Zenon DEF Sent
      <4> QED
        BY <1>11, <3>1, <4>1, Zenon DEF TipOK
    <3>2. CASE link # "down"
      <4>1. channel' = Append(sent, Cancel(s.id))
        BY <1>17, <3>2, Zenon DEF Sent
      <4>2. /\ StreamOK(files, Append(sent, Cancel(s.id)), recv)
            /\ TipOK(files, Append(sent, Cancel(s.id)), recv, link, given, 0)
        BY <1>11, <2>5, <2>6, <3>2, StreamSend, Zenon
      <4> QED
        BY <4>1, <4>2, Zenon
    <3> QED
      BY <3>1, <3>2, Zenon
  <2> QED
    BY <1>2, <1>17, <2>3, <2>7, SenderOnly, Zenon
<1>18. CASE /\ sending' = stopped /\ link' = (IF link = "up" THEN "closing" ELSE link)
            /\ deficit' = 0 /\ channel' = channel
  <2>1. /\ stopped \in Senders /\ stopped.id = sending.id /\ stopped.total = sending.total
        /\ stopped.name = sending.name /\ stopped.Done
    BY <1>3, Zenon DEF Senders
  <2> HIDE DEF stopped
  <2>2. stopped # NoFile
    BY <1>1, <1>3, <2>1, SenderExists, Zenon
  <2>3. SenderOK(files, link', stopped, 0)
    <3>1. ~(0 > 0) /\ 0 \in Nat
      OBVIOUS
    <3> QED
      BY <1>3, <2>1, <2>2, <3>1, Zenon DEF SenderOK
  <2>4. link' # "up" /\ (link' # "down" => link # "down")
    BY <1>18, Zenon
  <2>5. \A f, p : \A closed \in BOOLEAN : SenderContinues(link', stopped, 0, closed, f, p)
    <3>1. ~(0 > 0)
      OBVIOUS
    <3> QED
      BY <2>1, <2>4, <3>1, Zenon DEF SenderContinues
  <2>6. TipOK(files, channel, recv, link', stopped, 0)
    <3>1. Passes(files, link, sending, deficit, link', stopped, 0)
      BY <2>5, Zenon DEF Passes
    <3> QED
      BY <1>1, <2>4, <3>1, StreamWait, Zenon
  <2> QED
    BY <1>1, <1>2, <1>18, <2>3, <2>6, SenderOnly, Zenon
<1> QED
  BY <1>12, <1>14, <1>15, <1>16, <1>17, <1>18, Zenon

(* tonk_file_free() of the sender. *)
LEMMA FreeSendingKeeps ==
    ASSUME FileIInv, FreeSending
    PROVE  FileIInv'
<1>1. /\ sending # NoFile /\ deficit = 0 /\ sending' = NoFile
      /\ channel' = IF sending.Done THEN channel ELSE Sent(channel, Cancel(sending.id))
      /\ UNCHANGED <<files, deficit, link, recv, incoming, report>>
  BY Zenon DEF FreeSending
<1>2. /\ SenderOK(files, link, sending, deficit) /\ ReceiverOK(files, recv, incoming)
      /\ StreamOK(files, channel, recv)
      /\ TipOK(files, channel, recv, link, sending, deficit)
  BY Zenon DEF FileIInv
<1>3. sending \in Senders /\ sending.id \in DOMAIN files
  BY <1>1, <1>2, Zenon DEF SenderOK
<1>4. sending.id \in Nat
  BY <1>3, Zenon DEF Senders
<1>5. SenderOK(files, link, NoFile, 0)
  BY Zenon DEF SenderOK
<1>6. StreamOK(files, channel', recv) /\ TipOK(files, channel', recv, link, NoFile, 0)
  <2>1. CASE sending.Done
    <3>1. ASSUME NEW f, NEW p, NEW closed \in BOOLEAN,
                 SenderContinues(link, sending, deficit, closed, f, p)
          PROVE  SenderContinues(link, NoFile, 0, closed, f, p)
      BY <2>1, <3>1, Zenon DEF SenderContinues
    <3>2. TipOK(files, channel, recv, link, NoFile, 0)
      <4>1. Passes(files, link, sending, deficit, link, NoFile, 0)
        BY <3>1, Zenon DEF Passes
      <4> QED
        BY <1>2, <4>1, StreamWait, Zenon
    <3> QED
      BY <1>1, <1>2, <2>1, <3>2, Zenon
  <2>2. CASE ~sending.Done /\ link = "down"
    <3>1. channel' = channel
      BY <1>1, <2>2, Zenon DEF Sent
    <3> QED
      BY <1>2, <2>2, <3>1, Zenon DEF TipOK
  <2>3. CASE ~sending.Done /\ link # "down"
    <3> DEFINE m == Cancel(sending.id)
    <3>1. channel' = Append(channel, m)
      BY <1>1, <2>3, Zenon DEF Sent
    <3>2. /\ m \in FileMessages /\ MessageOK(files, m)
          /\ \A closed, g, p : Continues(m, closed, g, p)
          /\ Closes(files, m)
      BY <1>3, <1>4, CancelIs, Zenon
    <3> HIDE DEF m
    <3>3. SenderContinues(link, NoFile, 0, Closes(files, m), m.id, To(m))
      BY <3>2, Zenon DEF SenderContinues
    <3>4. /\ StreamOK(files, Append(channel, m), recv)
          /\ TipOK(files, Append(channel, m), recv, link, NoFile, 0)
      BY <1>2, <2>3, <3>2, <3>3, StreamSend, Zenon
    <3> QED
      BY <3>1, <3>4, Zenon
  <2> QED
    BY <2>1, <2>2, <2>3, Zenon
<1> QED
  BY <1>1, <1>5, <1>6, SenderOnly, Zenon

-----------------------------------------------------------------------------
(* The receiver's actions *)

(* The fields of a transfer c that is r after bytes were copied. *)
IsCopied(c, r, bytes) ==
    LET at == r.view.off + r.ViewOffset
        n == Least(Len(bytes), r.view.len - r.ViewOffset)
    IN  /\ Shape(c) /\ c.id = r.id /\ c.name = r.name /\ c.total = r.total
        /\ c.Failed = r.Failed /\ c.view = r.view
        /\ c.ProgressBytes = r.ProgressBytes + Len(bytes)
        /\ c.ViewOffset = r.ViewOffset + Len(bytes)
        /\ c.out = IF r.Failed THEN r.out
                   ELSE [i \in DOMAIN r.out |->
                           IF i \in (at + 1)..(at + n) THEN bytes[i - at] ELSE r.out[i]]

(* CopyBytes() sets these fields. *)
LEMMA CopiedIs ==
    ASSUME NEW r, Shape(r), NEW bytes
    PROVE  IsCopied(Copied(r, bytes), r, bytes)
<1> DEFINE at == r.view.off + r.ViewOffset
           n == Least(Len(bytes), r.view.len - r.ViewOffset)
           o == IF r.Failed THEN r.out
                ELSE [i \in DOMAIN r.out |->
                        IF i \in (at + 1)..(at + n) THEN bytes[i - at] ELSE r.out[i]]
           a == r.ProgressBytes + Len(bytes)
           b == r.ViewOffset + Len(bytes)
           c == Copied(r, bytes)
<1>1. c = [r EXCEPT !.out = o, !.ProgressBytes = a, !.ViewOffset = b]
  BY Zenon DEF Copied
<1> HIDE DEF o, a, b, c
<1>2. c = [id |-> r.id, name |-> r.name, total |-> r.total, ProgressBytes |-> a,
           ViewOffset |-> b, Failed |-> r.Failed, disk |-> r.disk, view |-> r.view, out |-> o]
  BY <1>1, Zenon DEF Shape
<1>3. /\ Shape(c) /\ c.id = r.id /\ c.name = r.name /\ c.total = r.total
      /\ c.Failed = r.Failed /\ c.view = r.view /\ c.ProgressBytes = a /\ c.ViewOffset = b
      /\ c.out = o
  BY <1>2, Zenon DEF Shape
<1> QED
  BY <1>3, Zenon DEF IsCopied, o, a, b, c

(* n bytes fit under the view of r, and c is the result. *)
Lands(c, r, n) ==
    /\ n <= r.view.len - r.ViewOffset
    /\ c.out = [i \in 1 .. r.total |-> c.out[i]]
    /\ \A i \in 1 .. r.ProgressBytes + n : c.out[i] = <<r.id, i>>

(* A transfer that still goes well has room for the bytes, and they land    *)
(* where they belong.                                                       *)
LEMMA CopiedWell ==
    ASSUME NEW F, Catalogue(F), NEW r, TransferOK(F, r), ~r.Failed, NEW n \in Nat,
           NEW bytes, bytes = Bytes(r.id, r.ProgressBytes, n),
           r.ProgressBytes + n <= r.total, r.ProgressBytes + n <= BlockEnd(r.ProgressBytes)
    PROVE  Lands(Copied(r, bytes), r, n)
<1> DEFINE c == Copied(r, bytes)
           p == r.ProgressBytes
           at == r.view.off + r.ViewOffset
           k == Least(Len(bytes), r.view.len - r.ViewOffset)
<1>1. /\ Shape(r) /\ r.id \in DOMAIN F /\ r.total = F[r.id].total /\ p \in Nat
      /\ r.view \in Views /\ r.ViewOffset \in Nat
      /\ Takes(r.view.off, r.view.len, r.ViewOffset, r.total, p)
      /\ r.out = [i \in 1 .. r.total |-> r.out[i]]
      /\ \A i \in 1 .. p : r.out[i] = <<r.id, i>>
  BY Zenon DEF TransferOK
<1>2. r.total \in Nat /\ r.id \in Nat
  BY <1>1, CatalogueIs, Zenon
<1>3. r.view.off \in Nat /\ r.view.len \in Nat
  BY <1>1, Zenon DEF Views
<1>4. p + n \in Nat /\ p <= p + n /\ (p + n) - p = n
  BY <1>1, SMTT(30)
<1>5. (p + n) - p <= r.view.len - r.ViewOffset
  <2>1. Holds(r.view.off, r.view.len, r.ViewOffset, r.total, p, p + n)
    BY <1>1, <1>2, <1>3, <1>4, TakesBlock, Zenon
  <2> QED
    BY <2>1, Zenon DEF Holds
<1>6. n <= r.view.len - r.ViewOffset
  BY <1>4, <1>5, Zenon
<1>7. Len(bytes) = n /\ \A i \in 1 .. n : bytes[i] = <<r.id, p + i>>
  <2> HIDE DEF p
  <2>1. bytes = Bytes(r.id, p, n)
    BY Zenon DEF p
  <2>2. AreBytes(Bytes(r.id, p, n), r.id, p, n)
    BY <1>1, <1>2, BytesHold, Zenon
  <2> QED
    BY <2>1, <2>2, Zenon DEF AreBytes
<1>8. at = p
  BY <1>1, Zenon DEF Takes
<1>9. k = n
  BY <1>3, <1>1, <1>6, <1>7, SMTT(30) DEF Least
<1>10. c.out = [i \in DOMAIN r.out |-> IF i \in (at + 1)..(at + k) THEN bytes[i - at]
                                       ELSE r.out[i]]
  <2>1. IsCopied(c, r, bytes)
    BY <1>1, CopiedIs, Zenon
  <2> HIDE DEF c
  <2> QED
    BY <2>1, Zenon DEF IsCopied
<1> HIDE DEF c, at, k, p
<1>11. DOMAIN r.out = 1 .. r.total
  BY <1>1, Zenon
<1>12. c.out = [i \in 1 .. r.total |-> IF i \in (p + 1)..(p + n) THEN bytes[i - p]
                                       ELSE r.out[i]]
  BY <1>8, <1>9, <1>10, <1>11, Zenon
<1>13. ASSUME NEW i \in 1 .. p + n PROVE c.out[i] = <<r.id, i>>
  <2>1. i \in 1 .. r.total
    BY <1>1, <1>2, SMTT(30) DEF p
  <2>2. CASE i <= p
    <3>1. i \in 1 .. p /\ i \notin (p + 1)..(p + n)
      BY <1>1, <2>2, SMTT(30)
    <3> QED
      BY <1>1, <1>12, <2>1, <3>1, Zenon
  <2>3. CASE ~(i <= p)
    <3>1. i \in (p + 1)..(p + n) /\ i - p \in 1 .. n /\ p + (i - p) = i
      BY <1>1, <2>3, SMTT(30)
    <3> QED
      BY <1>7, <1>12, <2>1, <3>1, Zenon
  <2> QED
    BY <2>2, <2>3, Zenon
<1>14. c.out = [i \in 1 .. r.total |-> c.out[i]]
  BY <1>12, Zenon
<1> QED
  BY <1>6, <1>13, <1>14, Zenon DEF Lands, c, p

(* ProcessReceiveFileData(): the file is complete, or the transfer goes on  *)
(* behind the bytes.                                                        *)
LEMMA ReceiveDataKeeps ==
    ASSUME NEW F, Catalogue(F), NEW r, TransferOK(F, r), NEW n \in Nat,
           NEW bytes, bytes = Bytes(r.id, r.ProgressBytes, n),
           r.ProgressBytes + n <= r.total, r.ProgressBytes + n <= BlockEnd(r.ProgressBytes),
           NEW mapped \in BOOLEAN, ReceiveData(r, bytes, mapped), ReportOK(F, report)
    PROVE  /\ ReportOK(F, report') /\ ReceiverOK(F, recv', incoming')
           /\ recv' # NoFile => /\ recv'.id = r.id
                                /\ recv'.ProgressBytes = r.ProgressBytes + n
                                /\ r.ProgressBytes + n < F[r.id].total
<1> DEFINE c == Copied(r, bytes)
           p == r.ProgressBytes
           q == p + n
           rest == SubSeq(bytes, Least(Len(bytes), r.view.len - r.ViewOffset) + 1, Len(bytes))
           view == IF mapped THEN NextView(c.total, c.ProgressBytes)
                   ELSE [off |-> 0, len |-> 0]
           at == c.ProgressBytes - view.off
           failed == c.Failed \/ ~mapped
           d == [c EXCEPT !.view = view, !.Failed = failed, !.ViewOffset = at]
<1>1. /\ Shape(r) /\ r.Failed \in BOOLEAN /\ r.id \in DOMAIN F /\ r.total = F[r.id].total
      /\ r.name = F[r.id].name /\ p \in Nat
  BY Zenon DEF TransferOK
<1>2. r.total \in Nat /\ r.id \in Nat
  BY <1>1, CatalogueIs, Zenon
<1>3. Len(bytes) = n
  <2> HIDE DEF p
  <2>1. bytes = Bytes(r.id, p, n)
    BY Zenon DEF p
  <2>2. AreBytes(Bytes(r.id, p, n), r.id, p, n)
    BY <1>1, <1>2, BytesHold, Zenon
  <2> QED
    BY <2>1, <2>2, Zenon DEF AreBytes
<1>4. /\ Shape(c) /\ c.id = r.id /\ c.name = r.name /\ c.total = r.total
      /\ c.Failed = r.Failed /\ c.view = r.view
      /\ c.ProgressBytes = p + Len(bytes) /\ c.ViewOffset = r.ViewOffset + Len(bytes)
  <2>1. IsCopied(c, r, bytes)
    BY <1>1, CopiedIs, Zenon
  <2> HIDE DEF c
  <2> QED
    BY <2>1, Zenon DEF IsCopied
<1>5. c.ProgressBytes = q /\ c.ViewOffset = r.ViewOffset + n /\ q \in Nat
  <2>1. p \in Nat
    BY <1>1, Zenon
  <2>2. c.ProgressBytes = p + Len(bytes) /\ c.ViewOffset = r.ViewOffset + Len(bytes)
    BY <1>4, Zenon
  <2>3. c.ProgressBytes = q /\ c.ViewOffset = r.ViewOffset + n
    BY <1>3, <2>2, Zenon
  <2> QED
    BY <2>1, <2>3
<1>6. ~r.Failed => /\ n <= r.view.len - r.ViewOffset
                   /\ c.out = [i \in 1 .. r.total |-> c.out[i]]
                   /\ \A i \in 1 .. q : c.out[i] = <<r.id, i>>
  <2>1. ~r.Failed => Lands(c, r, n)
    BY CopiedWell, Zenon
  <2> HIDE DEF c
  <2> QED
    BY <2>1, Zenon DEF Lands
<1>7. ~r.Failed => /\ r.view \in Views /\ r.ViewOffset \in Nat
                   /\ Takes(r.view.off, r.view.len, r.ViewOffset, r.total, p)
  BY Zenon DEF TransferOK
<1>8. \/ /\ c.ProgressBytes >= c.total /\ report' = c /\ recv' = NoFile
      \/ /\ c.ProgressBytes < c.total /\ report' = report
         /\ recv' = IF c.ViewOffset < c.view.len THEN c ELSE d
  BY Zenon DEF ReceiveData
<1>9. incoming' = IF rest = <<>> THEN NoFile ELSE Message(r.id, "data", rest)
  BY Zenon DEF ReceiveData
<1> HIDE DEF c
<1>10. c.id \in DOMAIN F /\ c.total = F[c.id].total /\ c.name = F[c.id].name
  BY <1>1, <1>4, Zenon
<1>11. ~r.Failed => incoming' = NoFile
  <2> SUFFICES ASSUME ~r.Failed PROVE rest = <<>>
    BY <1>9, Zenon
  <2>1. r.view.len \in Nat /\ r.ViewOffset \in Nat
    BY <1>7, Zenon DEF Views
  <2>2. Least(Len(bytes), r.view.len - r.ViewOffset) = n
    BY <1>3, <1>6, <2>1, SMTT(30) DEF Least
  <2>3. bytes \in Seq(Octets)
    BY <1>1, <1>2, BytesAre, Zenon
  <2>4. rest = SubSeq(bytes, n + 1, n)
    BY <1>3, <2>2, Zenon
  <2> QED
    BY <1>3, <2>3, <2>4, EmptyPart, Zenon
<1>12. incoming' # NoFile => incoming'.kind = "data" /\ r.Failed
  BY <1>9, <1>11, Zenon DEF Message
<1>13. CASE c.ProgressBytes >= c.total /\ report' = c /\ recv' = NoFile
  <2>1. q = r.total
    BY <1>1, <1>2, <1>4, <1>5, <1>13, SMTT(30)
  <2>2. ReportOK(F, c)
    <3> SUFFICES ASSUME ~c.Failed
                 PROVE  /\ c.id \in DOMAIN F /\ c.total = F[c.id].total
                        /\ c.name = F[c.id].name
                        /\ \A i \in 1 .. c.total : c.out[i] = <<c.id, i>>
      BY Zenon DEF ReportOK
    <3> QED
      BY <1>4, <1>6, <1>10, <2>1, Zenon
  <2>3. ReceiverOK(F, NoFile, incoming')
    BY <1>12, Zenon DEF ReceiverOK
  <2> QED
    BY <1>13, <2>2, <2>3, Zenon
<1>14. CASE /\ c.ProgressBytes < c.total /\ report' = report
            /\ recv' = IF c.ViewOffset < c.view.len THEN c ELSE d
  <2>1. q < r.total /\ q <= r.total
    BY <1>1, <1>2, <1>4, <1>5, <1>14, Zenon
  <2>2. CASE c.ViewOffset < c.view.len
    <3>1. recv' = c
      BY <1>14, <2>2, Zenon
    <3>2. ASSUME ~c.Failed
          PROVE  /\ c.view \in Views /\ c.ViewOffset \in Nat
                 /\ Takes(c.view.off, c.view.len, c.ViewOffset, c.total, c.ProgressBytes)
      <4>1. ~r.Failed /\ r.view.off \in Nat /\ r.view.len \in Nat
        BY <1>4, <1>7, <3>2, Zenon DEF Views
      <4>2. q \in Nat /\ p <= q /\ q - p = n
        BY <1>1, <1>5, SMTT(30)
      <4>3. r.ViewOffset + (q - p) < r.view.len
        BY <1>4, <1>5, <2>2, <4>2, Zenon
      <4>4. Takes(r.view.off, r.view.len, r.ViewOffset + (q - p), r.total, q)
        <5> HIDE DEF p, q
        <5>1. q <= BlockEnd(p)
          BY Zenon DEF p, q
        <5>2. Holds(r.view.off, r.view.len, r.ViewOffset, r.total, p, q)
          BY <1>1, <1>2, <1>7, <2>1, <4>1, <4>2, <5>1, TakesBlock, Zenon
        <5> QED
          BY <2>1, <4>3, <5>2, Zenon DEF Holds
      <4>5. r.ViewOffset \in Nat /\ r.view \in Views
        BY <1>7, <4>1, Zenon
      <4>6. r.ViewOffset + n \in Nat
        BY <4>5
      <4> QED
        BY <1>4, <1>5, <4>2, <4>4, <4>5, <4>6, Zenon
    <3>3. ~c.Failed => /\ c.out = [i \in 1 .. c.total |-> c.out[i]]
                       /\ \A i \in 1 .. c.ProgressBytes : c.out[i] = <<c.id, i>>
      BY <1>4, <1>5, <1>6, Zenon
    <3>4. TransferOK(F, c)
      BY <1>1, <1>4, <1>5, <1>10, <3>2, <3>3, Zenon DEF TransferOK
    <3>5. ReceiverOK(F, c, incoming')
      BY <1>4, <1>12, <1>14, <3>4, Zenon DEF ReceiverOK
    <3> QED
      BY <1>1, <1>4, <1>5, <1>14, <2>1, <3>1, <3>5, Zenon
  <2>3. CASE ~(c.ViewOffset < c.view.len)
    <3>1. recv' = d
      BY <1>14, <2>3, Zenon
    <3> HIDE DEF view, at, failed
    <3>2. d = [id |-> c.id, name |-> c.name, total |-> c.total,
               ProgressBytes |-> c.ProgressBytes, ViewOffset |-> at, Failed |-> failed,
               disk |-> c.disk, view |-> view, out |-> c.out]
      <4>1. Shape(c)
        BY <1>4, Zenon
      <4>2. d = [c EXCEPT !.view = view, !.Failed = failed, !.ViewOffset = at]
        BY Zenon
      <4> HIDE DEF d
      <4> QED
        BY <4>1, <4>2, Zenon DEF Shape
    <3> HIDE DEF d
    <3>3. /\ Shape(d) /\ d.id = c.id /\ d.name = c.name /\ d.total = c.total
          /\ d.ProgressBytes = c.ProgressBytes /\ d.ViewOffset = at /\ d.Failed = failed
          /\ d.view = view /\ d.out = c.out
      BY <3>2, Zenon DEF Shape
    <3>4. failed \in BOOLEAN /\ (failed = (r.Failed \/ ~mapped))
      BY <1>4, Zenon DEF failed
    <3>5. ASSUME ~failed
          PROVE  view \in Views /\ at \in Nat
                 /\ Takes(view.off, view.len, at, c.total, c.ProgressBytes)
      <4>1. mapped /\ ~r.Failed /\ r.view.off \in Nat /\ r.view.len \in Nat
        BY <1>7, <3>4, <3>5, Zenon DEF Views
      <4>2. view = NextView(c.total, c.ProgressBytes) /\ at = c.ProgressBytes - view.off
        BY <4>1, Zenon DEF view, at
      <4>3. q \in Nat /\ p <= q /\ q - p = n
        BY <1>1, <1>5, SMTT(30)
      <4>4. ~(r.ViewOffset + (q - p) < r.view.len)
        BY <1>4, <1>5, <2>3, <4>3, Zenon
      <4>5. q % kMaxViewBytes = 0
        <5> HIDE DEF p, q
        <5>1. q <= BlockEnd(p)
          BY Zenon DEF p, q
        <5>2. Holds(r.view.off, r.view.len, r.ViewOffset, r.total, p, q)
          BY <1>1, <1>2, <1>7, <2>1, <4>1, <4>3, <5>1, TakesBlock, Zenon
        <5> QED
          BY <2>1, <4>4, <5>2, Zenon DEF Holds
      <4>6. c.total = r.total /\ c.ProgressBytes = q
        BY <1>4, <1>5, Zenon
      <4>7. view \in Views /\ at \in Nat
        BY <1>2, <1>5, <2>1, <4>2, <4>6, NextViewIs, Zenon
      <4>8. Takes(view.off, view.len, at, r.total, q)
        BY <1>2, <1>5, <2>1, <4>2, <4>5, <4>6, NextViewFits, Zenon
      <4> QED
        BY <4>6, <4>7, <4>8, Zenon
    <3>6. ~failed => /\ c.out = [i \in 1 .. c.total |-> c.out[i]]
                     /\ \A i \in 1 .. c.ProgressBytes : c.out[i] = <<c.id, i>>
      BY <1>4, <1>5, <1>6, <3>4, Zenon
    <3>7. TransferOK(F, d)
      BY <1>5, <1>10, <3>3, <3>4, <3>5, <3>6, Zenon DEF TransferOK
    <3>8. ReceiverOK(F, d, incoming')
      BY <1>12, <1>14, <3>3, <3>4, <3>7, Zenon DEF ReceiverOK
    <3> QED
      BY <1>1, <1>4, <1>5, <1>14, <2>1, <3>1, <3>3, <3>8, Zenon
  <2> QED
    BY <2>2, <2>3, Zenon
<1> QED
  BY <1>8, <1>13, <1>14, Zenon

(* A transfer that starts with a header. *)
LEMMA BeginIs ==
    ASSUME NEW F, Catalogue(F), NEW m \in FileMessages, MessageOK(F, m), m.kind = "header",
           NEW opened \in BOOLEAN
    PROVE  LET r == Begin(m, opened)
           IN  TransferOK(F, r) /\ r.id = m.id /\ r.ProgressBytes = 0 /\ r.total = m.total
<1> DEFINE v == IF ~opened THEN [off |-> 0, len |-> 0]
                ELSE IF m.total >= kOutputFileThresholdBytes THEN NextView(m.total, 0)
                ELSE [off |-> 0, len |-> m.total]
           o == [i \in 1..m.total |-> <<0, 0>>]
           k == m.total >= kOutputFileThresholdBytes
           x == ~opened
           r == Begin(m, opened)
<1>1. r = [id |-> m.id, name |-> m.name, total |-> m.total, ProgressBytes |-> 0,
           ViewOffset |-> 0, Failed |-> x, disk |-> k, view |-> v, out |-> o]
  BY Zenon DEF Begin
<1>2. /\ m.id \in DOMAIN F /\ m.total = F[m.id].total /\ m.name = F[m.id].name
  BY Zenon DEF MessageOK
<1>3. m.total \in Nat
  BY <1>2, CatalogueIs, Zenon
<1>4. ASSUME opened PROVE v \in Views /\ Takes(v.off, v.len, 0, m.total, 0)
  <2>1. 0 \in Nat /\ 0 <= m.total /\ 0 % kMaxViewBytes = 0
    BY <1>3, FileNumbers
  <2>2. CASE m.total >= kOutputFileThresholdBytes
    <3> DEFINE w == NextView(m.total, 0)
    <3>1. w \in Views /\ w.off <= 0 /\ (0 = 0 => w.off = 0)
      BY <1>3, <2>1, NextViewIs, Zenon
    <3>2. Takes(w.off, w.len, 0 - w.off, m.total, 0)
      BY <1>3, <2>1, NextViewFits, Zenon
    <3> HIDE DEF w
    <3>3. 0 - w.off = 0
      BY <3>1
    <3>4. v = w
      BY <1>4, <2>2, Zenon DEF w
    <3> QED
      BY <3>1, <3>2, <3>3, <3>4, Zenon
  <2>3. CASE ~(m.total >= kOutputFileThresholdBytes)
    <3>1. v = [off |-> 0, len |-> m.total]
      BY <1>4, <2>3, Zenon
    <3> HIDE DEF v
    <3>2. v \in Views /\ v.off = 0 /\ v.len = m.total
      BY <1>3, <3>1, Zenon DEF Views
    <3>3. Takes(0, m.total, 0, m.total, 0)
      BY <1>3 DEF Takes
    <3> QED
      BY <3>2, <3>3, Zenon
  <2> QED
    BY <2>2, <2>3, Zenon
<1>5. x \in BOOLEAN /\ (~x => opened) /\ o = [i \in 1 .. m.total |-> o[i]]
  BY Zenon
<1> HIDE DEF v, o, k, x, r
<1>6. /\ Shape(r) /\ r.id = m.id /\ r.name = m.name /\ r.total = m.total
      /\ r.ProgressBytes = 0 /\ r.ViewOffset = 0 /\ r.Failed = x /\ r.view = v /\ r.out = o
  BY <1>1, Zenon DEF Shape
<1>7. \A i \in 1 .. 0 : r.out[i] = <<r.id, i>>
  OBVIOUS
<1>8. TransferOK(F, r)
  BY <1>2, <1>4, <1>5, <1>6, <1>7 DEF TransferOK
<1> QED
  BY <1>6, <1>8, Zenon DEF r

(* The receiver still has a transfer when the message does not end the      *)
(* file.                                                                    *)
LEMMA StillOpen ==
    ASSUME NEW F, NEW m, To(m) \in Nat, m.kind # "cancel", To(m) < F[m.id].total
    PROVE  ~Closes(F, m)
BY DEF Closes

(* A turn of tonk_file_receive() with the first message of the channel. *)
LEMMA NextMessageKeeps ==
    ASSUME FileIInv, NEW opened \in BOOLEAN, NEW mapped \in BOOLEAN,
           incoming = NoFile, channel # <<>>,
           ReceiveMessage(Head(channel), opened, mapped), channel' = Tail(channel),
           UNCHANGED <<files, sending, deficit, link>>
    PROVE  FileIInv'
<1>1. /\ Catalogue(files) /\ SenderOK(files, link, sending, deficit)
      /\ ReceiverOK(files, recv, incoming) /\ StreamOK(files, channel, recv)
      /\ TipOK(files, channel, recv, link, sending, deficit) /\ ReportOK(files, report)
  BY Zenon DEF FileIInv
<1>2. channel \in Seq(FileMessages)
  BY <1>1, Zenon DEF StreamOK
<1>3. Head(channel) = channel[1] /\ Len(channel) > 0
  BY <1>2, TailIs, Zenon
<1>4. PICK m : m = channel[1]
  BY Zenon
<1>5. 1 \in 1 .. Len(channel)
  BY <1>2, <1>3
<1>6. m \in FileMessages /\ MessageOK(files, m)
  BY <1>1, <1>2, <1>4, <1>5 DEF StreamOK
<1>7. /\ ReportOK(files, report') /\ ReceiverOK(files, recv', incoming')
      /\ recv' # NoFile => ~Closes(files, m) /\ recv'.id = m.id /\ recv'.ProgressBytes = To(m)
  <2> DEFINE drop == 1 + (IF m.kind = "header" THEN m.name ELSE 0)
             b == SubSeq(m.body, drop + 1, Len(m.body))
  <2>1. \/ recv' = NoFile /\ incoming' = NoFile /\ report' = report
        \/ /\ m.kind = "header"
           /\ ReceiveData(Begin(m, opened), b, mapped)
        \/ /\ recv # NoFile /\ ~recv.Failed /\ m.kind # "cancel"
           /\ ReceiveData(recv, m.body, mapped)
    BY <1>3, <1>4, Zenon DEF ReceiveMessage, GivenUp
  <2>2. CASE recv' = NoFile /\ incoming' = NoFile /\ report' = report
    <3>1. ReceiverOK(files, NoFile, NoFile)
      BY Zenon DEF ReceiverOK
    <3> QED
      BY <1>1, <2>2, <3>1, Zenon
  <2>3. CASE m.kind = "header" /\ ReceiveData(Begin(m, opened), b, mapped)
    <3> DEFINE r == Begin(m, opened)
    <3>1. TransferOK(files, r) /\ r.id = m.id /\ r.ProgressBytes = 0 /\ r.total = m.total
      BY <1>1, <1>6, <2>3, BeginIs, Zenon
    <3>2. /\ m.id \in DOMAIN files /\ m.total = files[m.id].total
          /\ To(m) \in Nat /\ To(m) <= m.total /\ To(m) <= BlockEnd(0)
          /\ SubSeq(m.body, (1 + m.name) + 1, Len(m.body)) = Bytes(m.id, 0, To(m))
      BY <1>6, <2>3, Zenon DEF MessageOK
    <3>3. b = Bytes(m.id, 0, To(m))
      BY <2>3, <3>2, Zenon
    <3>4. ReceiveData(r, b, mapped)
      BY <2>3, Zenon
    <3> HIDE DEF r, b
    <3>5. 0 + To(m) = To(m)
      BY <3>2
    <3>6. /\ b = Bytes(r.id, r.ProgressBytes, To(m)) /\ r.ProgressBytes + To(m) <= r.total
          /\ r.ProgressBytes + To(m) <= BlockEnd(r.ProgressBytes)
      BY <3>1, <3>2, <3>3, <3>5, Zenon
    <3>7. /\ ReportOK(files, report') /\ ReceiverOK(files, recv', incoming')
          /\ recv' # NoFile => /\ recv'.id = r.id
                               /\ recv'.ProgressBytes = r.ProgressBytes + To(m)
                               /\ r.ProgressBytes + To(m) < files[r.id].total
      <4>1. PICK x : x = r
        BY Zenon
      <4> QED
        BY <1>1, <3>1, <3>2, <3>4, <3>6, <4>1, ReceiveDataKeeps, Zenon
    <3>8. recv' # NoFile => ~Closes(files, m)
      <4>1. recv' # NoFile => To(m) < files[m.id].total
        BY <3>1, <3>5, <3>7, Zenon
      <4>2. m.kind # "cancel"
        BY <2>3, Zenon
      <4> QED
        BY <3>2, <4>1, <4>2, StillOpen, Zenon
    <3> QED
      BY <3>1, <3>5, <3>7, <3>8, Zenon
  <2>4. CASE /\ recv # NoFile /\ ~recv.Failed /\ m.kind # "cancel"
             /\ ReceiveData(recv, m.body, mapped)
    <3>1. PICK r : r = recv
      BY Zenon
    <3>2. TransferOK(files, r)
      BY <1>1, <2>4, <3>1, Zenon DEF ReceiverOK
    <3>3. Continues(m, FALSE, r.id, r.ProgressBytes)
      BY <1>1, <1>3, <1>4, <2>4, <3>1, Zenon DEF StreamOK
    <3>4. m.kind = "data"
      <4>1. m.kind \in {"header", "data", "cancel"}
        BY <1>6, Zenon DEF FileMessages, FileHeaders, FileChunks
      <4> QED
        BY <2>4, <3>3, <4>1, Zenon DEF Continues
    <3>5. m.id = r.id /\ From(m) = r.ProgressBytes
      BY <3>3, <3>4, Zenon DEF Continues
    <3>6. /\ From(m) \in Nat /\ To(m) \in Nat /\ To(m) > From(m)
          /\ To(m) <= files[m.id].total /\ To(m) <= BlockEnd(From(m))
          /\ m.body = Bytes(m.id, From(m), To(m) - From(m))
      BY <1>6, <3>4, Zenon DEF MessageOK
    <3> DEFINE n == To(m) - From(m)
    <3>7. n \in Nat /\ r.ProgressBytes + n = To(m)
      BY <3>5, <3>6, SMTT(30)
    <3>8. r.total = files[m.id].total
      BY <3>2, <3>5, Zenon DEF TransferOK
    <3>9. m.body = Bytes(r.id, r.ProgressBytes, n)
      BY <3>5, <3>6, Zenon
    <3> HIDE DEF n
    <3>10. r.ProgressBytes + n <= r.total /\ r.ProgressBytes + n <= BlockEnd(r.ProgressBytes)
      BY <3>5, <3>6, <3>7, <3>8, Zenon
    <3>11. ReceiveData(r, m.body, mapped)
      BY <2>4, <3>1, Zenon
    <3>12. /\ ReportOK(files, report') /\ ReceiverOK(files, recv', incoming')
           /\ recv' # NoFile => /\ recv'.id = r.id
                                /\ recv'.ProgressBytes = r.ProgressBytes + n
                                /\ r.ProgressBytes + n < files[r.id].total
      BY <1>1, <3>2, <3>7, <3>9, <3>10, <3>11, ReceiveDataKeeps, Zenon
    <3>13. recv' # NoFile => ~Closes(files, m)
      <4>1. recv' # NoFile => To(m) < files[m.id].total
        BY <3>5, <3>7, <3>12, Zenon
      <4> QED
        BY <2>4, <3>6, <4>1, StillOpen, Zenon
    <3> QED
      BY <3>5, <3>7, <3>12, <3>13, Zenon
  <2> QED
    BY <2>1, <2>2, <2>3, <2>4, Zenon
<1>8. /\ StreamOK(files, Tail(channel), recv')
      /\ TipOK(files, Tail(channel), recv', link, sending, deficit)
  <2>1. PICK x : x = recv'
    BY Zenon
  <2>2. x # NoFile => ~Closes(files, channel[1]) /\ x.id = channel[1].id
                      /\ x.ProgressBytes = To(channel[1])
    BY <1>4, <1>7, <2>1, Zenon
  <2> QED
    BY <1>1, <2>1, <2>2, StreamTake, Zenon
<1> QED
  BY <1>1, <1>7, <1>8, Zenon DEF FileIInv

(* A turn of tonk_file_receive(): what a failed transfer left behind is     *)
(* dropped with it.                                                         *)
LEMMA FileReceiveKeeps ==
    ASSUME FileIInv, NEW opened \in BOOLEAN, NEW mapped \in BOOLEAN,
           tonk_file_receive(opened, mapped)
    PROVE  FileIInv'
<1>1. /\ \/ /\ incoming # NoFile
            /\ ReceiveMessage(incoming, opened, mapped)
            /\ UNCHANGED channel
         \/ /\ incoming = NoFile /\ channel # <<>>
            /\ ReceiveMessage(Head(channel), opened, mapped)
            /\ channel' = Tail(channel)
      /\ UNCHANGED <<files, sending, deficit, link>>
  BY Zenon DEF tonk_file_receive
<1>2. CASE /\ incoming # NoFile
           /\ ReceiveMessage(incoming, opened, mapped)
           /\ UNCHANGED channel
  <2>1. /\ Catalogue(files) /\ SenderOK(files, link, sending, deficit)
        /\ ReceiverOK(files, recv, incoming) /\ StreamOK(files, channel, recv)
        /\ TipOK(files, channel, recv, link, sending, deficit) /\ ReportOK(files, report)
    BY Zenon DEF FileIInv
  <2>2. incoming.kind = "data" /\ (recv = NoFile \/ recv.Failed)
    BY <1>2, <2>1, Zenon DEF ReceiverOK
  <2>3. recv' = NoFile /\ incoming' = NoFile /\ report' = report
    BY <1>2, <2>2, Zenon DEF ReceiveMessage, GivenUp
  <2>4. /\ StreamOK(files, channel, NoFile)
        /\ TipOK(files, channel, NoFile, link, sending, deficit)
    BY <2>1, StreamDrop, Zenon
  <2>5. ReceiverOK(files, NoFile, NoFile)
    BY Zenon DEF ReceiverOK
  <2> QED
    BY <1>1, <1>2, <2>1, <2>3, <2>4, <2>5, Zenon DEF FileIInv
<1>3. CASE /\ incoming = NoFile /\ channel # <<>>
           /\ ReceiveMessage(Head(channel), opened, mapped)
           /\ channel' = Tail(channel)
  BY <1>1, <1>3, NextMessageKeeps, Zenon
<1> QED
  BY <1>1, <1>2, <1>3, Zenon

-----------------------------------------------------------------------------
(* The end of the connection *)

(* The connection goes down with the end of the stream. *)
LEMMA DisconnectKeeps ==
    ASSUME FileIInv, Disconnect
    PROVE  FileIInv'
<1>1. /\ link' = "down" /\ UNCHANGED <<files, sending, deficit, recv, incoming, report>>
      /\ \E n \in 0..Len(channel) : channel' = SubSeq(channel, 1, n)
  BY Zenon DEF Disconnect
<1>2. PICK n \in 0..Len(channel) : channel' = SubSeq(channel, 1, n)
  BY <1>1, Zenon
<1>3. SenderOK(files, link, sending, deficit) /\ StreamOK(files, channel, recv)
  BY Zenon DEF FileIInv
<1>4. SenderOK(files, "down", sending, deficit)
  BY <1>3, Zenon DEF SenderOK
<1>5. /\ StreamOK(files, SubSeq(channel, 1, n), recv)
      /\ TipOK(files, SubSeq(channel, 1, n), recv, "down", sending, deficit)
  BY <1>3, StreamCut, Zenon
<1> QED
  BY <1>1, <1>2, <1>4, <1>5, SenderOnly, Zenon

(* The receiver frees its transfer. *)
LEMMA FreeReceivedKeeps ==
    ASSUME FileIInv, FreeReceived
    PROVE  FileIInv'
<1>1. /\ recv' = NoFile /\ incoming = NoFile
      /\ UNCHANGED <<files, sending, deficit, channel, link, incoming, report>>
  BY Zenon DEF FreeReceived
<1>2. /\ Catalogue(files) /\ SenderOK(files, link, sending, deficit)
      /\ StreamOK(files, channel, recv)
      /\ TipOK(files, channel, recv, link, sending, deficit) /\ ReportOK(files, report)
  BY Zenon DEF FileIInv
<1>3. /\ StreamOK(files, channel, NoFile)
      /\ TipOK(files, channel, NoFile, link, sending, deficit)
  BY <1>2, StreamDrop, Zenon
<1>4. ReceiverOK(files, NoFile, NoFile)
  BY Zenon DEF ReceiverOK
<1> QED
  BY <1>1, <1>2, <1>3, <1>4, Zenon DEF FileIInv

(* It holds before anything is sent. *)
LEMMA FileInitially ==
    ASSUME FileInit
    PROVE  FileIInv
<1>1. /\ files = <<>> /\ sending = NoFile /\ deficit = 0 /\ channel = <<>> /\ link = "up"
      /\ recv = NoFile /\ incoming = NoFile /\ report = NoFile
  BY Zenon DEF FileInit
<1>2. Catalogue(files)
  BY <1>1 DEF Catalogue
<1>3. SenderOK(files, link, sending, deficit)
  BY <1>1, Zenon DEF SenderOK
<1>4. ReceiverOK(files, recv, incoming)
  BY <1>1, Zenon DEF ReceiverOK
<1>5. StreamOK(files, channel, recv)
  BY <1>1 DEF StreamOK
<1>6. TipOK(files, channel, recv, link, sending, deficit)
  BY <1>1 DEF TipOK
<1>7. ReportOK(files, report)
  BY <1>1, Zenon DEF ReportOK
<1> QED
  BY <1>2, <1>3, <1>4, <1>5, <1>6, <1>7, Zenon DEF FileIInv

(* Every step of the helper keeps it. *)
LEMMA FileNextKeeps ==
    ASSUME FileIInv, WithinLimits, [FileNext]_fileVars
    PROVE  FileIInv'
<1>1. ASSUME NEW name \in NameLengths, NEW size \in DiskSizes, tonk_file_from_disk(size, name)
      PROVE  FileIInv'
  BY <1>1, FromDiskKeeps, Zenon
<1>2. ASSUME NEW name \in NameLengths, NEW size \in BufferSizes,
             tonk_file_from_buffer(size, name)
      PROVE  FileIInv'
  BY <1>2, FromBufferKeeps, Zenon
<1>3. ASSUME NEW room \in Deficits, tonk_file_send(room)
      PROVE  FileIInv'
  BY <1>3, FileSendKeeps, Zenon
<1>4. CASE SendChunk
  BY <1>4, SendChunkKeeps, Zenon
<1>5. CASE FreeSending
  BY <1>5, FreeSendingKeeps, Zenon
<1>6. ASSUME NEW opened \in BOOLEAN, NEW mapped \in BOOLEAN, tonk_file_receive(opened, mapped)
      PROVE  FileIInv'
  BY <1>6, FileReceiveKeeps, Zenon
<1>7. CASE Disconnect
  BY <1>7, DisconnectKeeps, Zenon
<1>8. CASE FreeReceived
  BY <1>8, FreeReceivedKeeps, Zenon
<1>9. CASE UNCHANGED fileVars
  BY <1>9, Zenon DEF fileVars, FileIInv
<1> QED
  BY <1>1, <1>2, <1>3, <1>4, <1>5, <1>6, <1>7, <1>8, <1>9, Zenon DEF FileNext

(* A file the receiver's callback gets without TonkFileFlags_Failed is one  *)
(* that was sent, name, length and every byte, for buffers of at most one   *)
(* view and names whose length fits its field.                              *)
THEOREM FilesArriveIntact ==
    ASSUME WithinLimits
    PROVE  FileSpec => []Delivered
<1>1. FileInit => FileIInv
  BY FileInitially, Zenon
<1>2. FileIInv /\ [FileNext]_fileVars => FileIInv'
  BY FileNextKeeps, Zenon
<1>3. FileIInv => Delivered
  BY Zenon DEF FileIInv, ReportOK, Delivered
<1> QED
  BY <1>1, <1>2, <1>3, PTL DEF FileSpec

=============================================================================
