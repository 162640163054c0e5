----------------------- MODULE DatagramNumbersProofs -----------------------
(***************************************************************************)
(* Wrapping counters behave like unbounded ones.  In each theorem `v` is   *)
(* the counter of the sender and `r` the one the receiver compares it with *)
(* or expands it around, both as if they never wrapped; m is the range of  *)
(* the counter and s the smaller range it was truncated to.                *)
(*                                                                         *)
(* The truncated numbers of a datagram can be read, for any field widths,  *)
(* window, losses, duplicates and reordering that FieldAssumption and      *)
(* BoundAssumption allow.                                                  *)
(*                                                                         *)
(* Nonces: both ends compare nonces of the run only (Counted), and what    *)
(* the sender knows of the receiver, from answers that may arrive late and *)
(* in any order, is behind it (Answers).  Packet numbers: each datagram    *)
(* adds at most one packet, so nonces bound how far packets have moved on  *)
(* (NumberOK, Ordered); the receiver is below the bound of every datagram  *)
(* still in flight (Bound), and by one more when the packet of a first     *)
(* transmission came another way, because the datagram that brought it     *)
(* added none (Repeated).  That one is what the half range of a field      *)
(* needs: the refusal of late datagrams is exact.                          *)
(***************************************************************************)
EXTENDS DatagramNumbers, FiniteSetTheorems, TLAPS

-----------------------------------------------------------------------------
(* Counters *)

(* Quotient and remainder. *)
LEMMA DivMod ==
    ASSUME NEW x \in Int, NEW n \in Nat \ {0}
    PROVE  /\ x \div n \in Int
           /\ x % n \in 0 .. n - 1
           /\ x = ((x \div n) * n) + (x % n)
BY SMT

(* The remainder is the only number below n that differs by a multiple. *)
LEMMA ModUnique ==
    ASSUME NEW x \in Int, NEW n \in Nat \ {0}, NEW q \in Int,
           NEW t \in 0 .. n - 1, x = q * n + t
    PROVE  x % n = t
<1> DEFINE p == x \div n
<1> DEFINE u == x % n
<1>1. p \in Int /\ u \in 0 .. n - 1 /\ x = p * n + u
  BY DivMod, Zenon
<1> HIDE DEF p, u
<1>2. (q - p) * n = u - t
  BY <1>1, SMT
<1>3. ~(q - p >= 1)
  <2> SUFFICES ASSUME q - p >= 1 PROVE FALSE
    OBVIOUS
  <2>1. (q - p) * n >= n
    BY <1>1, SMT
  <2> QED
    BY <2>1, <1>1, <1>2, SMT
<1>4. ~(q - p <= -1)
  <2> SUFFICES ASSUME q - p <= -1 PROVE FALSE
    OBVIOUS
  <2>1. (q - p) * n <= -n
    BY <1>1, SMT
  <2> QED
    BY <2>1, <1>1, <1>2, SMT
<1>5. q = p
  BY <1>1, <1>3, <1>4, SMT
<1>6. u = t
  BY <1>1, <1>5, SMT
<1> QED
  BY <1>6 DEF u

(* A remainder may be taken before an addition. *)
LEMMA ModAdd ==
    ASSUME NEW a \in Int, NEW b \in Int, NEW n \in Nat \ {0}
    PROVE  ((a % n) + b) % n = (a + b) % n
<1> DEFINE p == a \div n
<1> DEFINE u == a % n
<1>1. p \in Int /\ u \in Int /\ a = p * n + u
  BY DivMod
<1> DEFINE q == (u + b) \div n
<1> DEFINE t == (u + b) % n
<1>2. u + b \in Int
  BY <1>1, SMT
<1>3. q \in Int /\ t \in 0 .. n - 1 /\ u + b = q * n + t
  BY <1>2, DivMod, Zenon
<1>4. t = ((a % n) + b) % n
  OBVIOUS
<1> HIDE DEF p, u, q, t
<1>5. a + b = (p + q) * n + t
  BY <1>1, <1>3, SMT
<1>6. (a + b) % n = t
  <2>1. a + b \in Int /\ p + q \in Int
    BY <1>1, <1>3
  <2> QED
    BY <1>3, <1>5, <2>1, ModUnique, Zenon
<1> QED
  BY <1>4, <1>6

(* The low bits of a wrapped counter are those of the counter. *)
LEMMA ModOfMultiple ==
    ASSUME NEW a \in Int, NEW s \in Nat \ {0}, NEW k \in Nat \ {0}
    PROVE  (a % (k * s)) % s = a % s
<1> DEFINE m == k * s
<1>1. m \in Nat \ {0}
  BY SMT
<1> DEFINE p == a \div m
<1> DEFINE u == a % m
<1>2. p \in Int /\ u \in Int /\ a = p * m + u
  <2> HIDE DEF m
  <2> QED
    BY <1>1, DivMod
<1> DEFINE q == u \div s
<1> DEFINE t == u % s
<1>3. q \in Int /\ t \in 0 .. s - 1 /\ u = q * s + t
  <2> HIDE DEF u
  <2> QED
    BY <1>2, DivMod, Zenon
<1>4. t = (a % (k * s)) % s
  OBVIOUS
<1> HIDE DEF p, u, q, t
<1>5. p * m = (p * k) * s
  BY <1>2, SMT
<1> HIDE DEF m
<1>6. p * k \in Int
  BY <1>2, SMT
<1> DEFINE pk == p * k
<1> HIDE DEF pk
<1>7. a = (pk + q) * s + t
  BY <1>2, <1>3, <1>5, <1>6, SMT DEF pk
<1>8. pk + q \in Int
  BY <1>3, <1>6 DEF pk
<1> QED
  BY <1>3, <1>4, <1>7, <1>8, ModUnique, Zenon

(* The difference of two wrapped counters is their difference, wrapped. *)
LEMMA WrappedDifference ==
    ASSUME NEW v \in Int, NEW r \in Int, NEW n \in Nat \ {0},
           NEW e \in Int, v - r + e * n \in 0 .. n - 1
    PROVE  ((v % n) - (r % n)) % n = v - r + e * n
<1> DEFINE p == v \div n
<1> DEFINE q == r \div n
<1> DEFINE a == v % n
<1> DEFINE b == r % n
<1>1. /\ p \in Int /\ q \in Int /\ a \in Int /\ b \in Int
      /\ v = p * n + a /\ r = q * n + b
  BY DivMod
<1> SUFFICES (a - b) % n = v - r + e * n
  OBVIOUS
<1> HIDE DEF p, q, a, b
<1>2. a - b = (q - p - e) * n + (v - r + e * n)
  BY <1>1, SMT
<1>3. a - b \in Int /\ q - p - e \in Int
  BY <1>1
<1> QED
  BY <1>2, <1>3, ModUnique, Zenon

(* The same for a counter v that is ahead of r. *)
LEMMA WrappedAhead ==
    ASSUME NEW v \in Int, NEW r \in Int, NEW n \in Nat \ {0},
           v - r \in 0 .. n - 1
    PROVE  ((v % n) - (r % n)) % n = v - r
<1>1. v - r + 0 * n = v - r
  BY SMT
<1>2. 0 \in Int /\ v - r + 0 * n \in 0 .. n - 1
  BY <1>1
<1>3. ((v % n) - (r % n)) % n = v - r + 0 * n
  BY <1>2, WrappedDifference, Zenon
<1> QED
  BY <1>1, <1>3, Zenon

(* The same for a counter v that is behind r. *)
LEMMA WrappedBehind ==
    ASSUME NEW v \in Int, NEW r \in Int, NEW n \in Nat \ {0},
           v - r + n \in 0 .. n - 1
    PROVE  ((v % n) - (r % n)) % n = v - r + n
<1>1. v - r + 1 * n = v - r + n
  BY SMT
<1>2. 1 \in Int /\ v - r + 1 * n \in 0 .. n - 1
  BY <1>1
<1>3. ((v % n) - (r % n)) % n = v - r + 1 * n
  BY <1>2, WrappedDifference, Zenon
<1> QED
  BY <1>1, <1>3, Zenon

-----------------------------------------------------------------------------
(* Counters less than half the range apart compare as if they never          *)
(* wrapped, and < is then the negation of >= although it is not defined so   *)
(* (Counter::operator>=, operator<).                                        *)
THEOREM ComparesAsUnbounded ==
    ASSUME NEW m \in Nat \ {0}, NEW v \in Nat, NEW r \in Nat,
           v - r > -(m \div 2), v - r < m \div 2
    PROVE  /\ AtLeast(v % m, r % m, m) <=> v >= r
           /\ LessThan(v % m, r % m, m) <=> v < r
<1> DEFINE h == m \div 2
<1>1. h \in Nat /\ 2 * h <= m
  BY SMT
<1>2. CASE v >= r
  <2>1. v - r \in 0 .. m - 1 /\ v \in Int /\ r \in Int
    BY <1>1, <1>2, SMT
  <2>2. ((v % m) - (r % m)) % m = v - r
    BY <2>1, WrappedAhead, Zenon
  <2> QED
    BY <1>2, <2>2 DEF AtLeast, LessThan
<1>3. CASE v < r
  <2>1. v - r + m \in 0 .. m - 1 /\ v \in Int /\ r \in Int
    BY <1>1, <1>3, SMT
  <2>2. ((v % m) - (r % m)) % m = v - r + m
    BY <2>1, WrappedBehind, Zenon
  <2>3. v - r + m >= h /\ ~(v - r + m < h)
    BY <1>1, <1>3, SMT
  <2> QED
    BY <1>3, <2>2, <2>3 DEF AtLeast, LessThan
<1> QED
  BY <1>2, <1>3

(* A truncated counter expands to itself around any value less than half    *)
(* the smaller range away, across the wrap of both ranges                   *)
(* (Counter::ExpandFromTruncated, which reads nonces, packet numbers and    *)
(* timestamps).                                                             *)
THEOREM ExpandRoundTrip ==
    ASSUME NEW s \in Nat \ {0}, s % 2 = 0, NEW k \in Nat \ {0},
           NEW v \in Nat, NEW r \in Nat,
           v - r >= -(s \div 2), v - r < s \div 2
    PROVE  ExpandFromTruncated(r % (k * s), Truncate(v, s), s, k * s)
             = v % (k * s)
<1> DEFINE h == s \div 2
<1> DEFINE m == k * s
<1> DEFINE low == r % s
<1> DEFINE small == v % s
<1>1. h \in Nat /\ 2 * h = s /\ m \in Nat \ {0}
  BY SMT
<1>2. (r % m) % s = low
  <2>1. r \in Int
    OBVIOUS
  <2> QED
    BY <2>1, ModOfMultiple, Zenon
<1>3. low \in Int /\ small \in Int
  BY DivMod
<1>4. r % m \in Int
  <2> HIDE DEF m
  <2> QED
    BY <1>1, DivMod
<1> DEFINE gap == (Signed(small, s) - low) % s
<1>5. gap = (small - low) % s
  <2>1. CASE small >= s \div 2
    <3>1. Signed(small, s) - low = (small - low) + (-1) * s
      BY <1>3, <2>1 DEF Signed
    <3> DEFINE d == small - low
    <3> DEFINE p == d \div s
    <3> DEFINE u == d % s
    <3>2. d \in Int
      BY <1>3
    <3>3. p \in Int /\ u \in 0 .. s - 1 /\ d = p * s + u
      <4> HIDE DEF d
      <4> QED
        BY <3>2, DivMod, Zenon
    <3>4. u = (small - low) % s
      OBVIOUS
    <3> HIDE DEF p, u
    <3>5. d + (-1) * s = (p - 1) * s + u
      <4> HIDE DEF d
      <4> QED
        BY <3>3, SMT
    <3>6. d + (-1) * s \in Int /\ p - 1 \in Int
      BY <3>2, <3>3
    <3>7. (d + (-1) * s) % s = u
      BY <3>3, <3>5, <3>6, ModUnique, Zenon
    <3> QED
      BY <3>1, <3>4, <3>7, Zenon
  <2>2. CASE ~(small >= s \div 2)
    BY <2>2 DEF Signed
  <2> QED
    BY <2>1, <2>2, Zenon
<1>6. Signed(gap, s) = v - r
  <2>1. CASE v >= r
    <3>1. v - r \in 0 .. s - 1 /\ v \in Int /\ r \in Int
      BY <1>1, <2>1, SMT
    <3>2. (small - low) % s = v - r
      BY <3>1, WrappedAhead, Zenon
    <3> QED
      BY <1>5, <3>2 DEF Signed
  <2>2. CASE v < r
    <3>1. v - r + s \in 0 .. s - 1 /\ v \in Int /\ r \in Int
      BY <1>1, <2>2, SMT
    <3>2. (small - low) % s = v - r + s
      BY <3>1, WrappedBehind, Zenon
    <3>3. v - r + s >= s \div 2 /\ (v - r + s) - s = v - r
      BY <1>1, SMT
    <3>4. gap = v - r + s
      BY <1>5, <3>2, Zenon
    <3> HIDE DEF gap
    <3> QED
      BY <3>3, <3>4 DEF Signed
  <2> QED
    BY <2>1, <2>2
<1>7. ((r % m) + (v - r)) % m = (r + (v - r)) % m
  <2> HIDE DEF m
  <2>1. r \in Int /\ v - r \in Int
    OBVIOUS
  <2> QED
    BY <1>1, <2>1, ModAdd, Zenon
<1>8. r + (v - r) = v
  OBVIOUS
<1>9. ExpandFromTruncated(r % m, small, s, m) = ((r % m) + Signed(gap, s)) % m
  BY <1>2, Zenon DEF ExpandFromTruncated
<1> QED
  BY <1>6, <1>7, <1>8, <1>9, Zenon DEF Truncate

-----------------------------------------------------------------------------
(* The numbers of a datagram *)

Half(b) == IF b = 1 THEN Half1 ELSE IF b = 2 THEN Half2 ELSE Half3

(* The nonce of the first datagram of the run. *)
First == NextNonce - Sent

Shape ==
    /\ NextNonce \in Nat /\ NextSequenceNumber \in Nat
    /\ PeerNextExpectedNonce \in Nat /\ PeerNextExpectedSeqNum \in Nat
    /\ NextAcceptableNonce \in Nat /\ NextFeedback \in Nat
    /\ misfiled \in BOOLEAN
    /\ IsFiniteSet(DOMAIN sent) /\ DOMAIN sent \subseteq Nat
    /\ sent \in [DOMAIN sent -> Datagrams]
    /\ IsFiniteSet(struck) /\ struck \subseteq Nat /\ struck \cap DOMAIN sent = {}
    /\ \A n \in DOMAIN sent \cup struck : n < NextNonce
    /\ LargestSequence \in Nat /\ FECNextExpectedPacketNum \in Nat
    /\ IsFiniteSet(have) /\ have \subseteq Nat

(* The nonces both ends compare lie among those of the run. *)
Counted ==
    /\ First \in Starts /\ Sent <= MaxDatagrams
    /\ First <= LargestSequence + 1
    /\ LargestSequence < NextNonce \/ (LargestSequence = 0 /\ NextNonce = 0)
    /\ LargestSequence \in DOMAIN sent => LargestSequence = 0
    /\ First <= PeerNextExpectedNonce /\ PeerNextExpectedNonce <= NextNonce
    /\ PeerNextExpectedNonce <= LargestSequence + 1

AnswerOK(f) ==
    /\ f.nonce \in Nat /\ f.nonce < NextFeedback /\ f.seq \in Nat
    /\ f.seq <= FECNextExpectedPacketNum
    /\ f.nonce >= NextAcceptableNonce => PeerNextExpectedSeqNum <= f.seq
    /\ \E x \in First .. NextNonce :
           f.next = Truncate(x, FieldRange(3)) /\ x <= LargestSequence + 1

Answers ==
    /\ PeerNextExpectedSeqNum <= FECNextExpectedPacketNum
    /\ NextSequenceNumber - PeerNextExpectedSeqNum <= Window
    /\ \A f \in feedback : AnswerOK(f)
    /\ \A f, g \in feedback : f.nonce <= g.nonce => f.seq <= g.seq

(* A nonce of one or two bytes is within reach of the receiver. *)
Close(n) ==
    /\ sent[n].nonceBytes = 1 => n - LargestSequence < Half1
    /\ sent[n].nonceBytes = 2 => n - LargestSequence < Half2

Step(n) == IF sent[n].first THEN 1 ELSE 0

NumberOK(n) ==
    /\ sent[n].seqBytes > 0 => sent[n].seq \in Nat /\ sent[n].seq < sent[n].upto
    /\ sent[n].first => sent[n].seqBytes > 0 /\ sent[n].upto = sent[n].seq + 1
    /\ sent[n].upto <= NextSequenceNumber
    /\ NextSequenceNumber <= sent[n].upto + (NextNonce - 1 - n)
    /\ sent[n].seqBytes \in {1, 2} =>
          /\ sent[n].seq - FECNextExpectedPacketNum < Half(sent[n].seqBytes)
          /\ sent[n].upto - sent[n].seq <= Half(sent[n].seqBytes)

Ordered(n, m) ==
    /\ sent[n].upto <= sent[m].upto - Step(m)
    /\ sent[m].upto <= sent[n].upto + (m - n) - (1 - Step(m))

Behind(n) == IF n < LargestSequence THEN LargestSequence - n ELSE 0
Bound(n) == sent[n].upto + Behind(n)

Below(b) == FECNextExpectedPacketNum <= b /\ \A h \in have : h < b

HasIt(n) == sent[n].seq < FECNextExpectedPacketNum \/ sent[n].seq \in have

Repeated(n) ==
    /\ n < LargestSequence /\ Below(Bound(n) - 1)
    /\ NextSequenceNumber <= sent[n].upto + (NextNonce - 1 - n) - 1
    /\ \A m \in DOMAIN sent :
           m > LargestSequence => sent[m].upto <= sent[n].upto + (m - n) - 1

Numbers ==
    /\ \A n \in DOMAIN sent : NumberOK(n)
    /\ \A n, m \in DOMAIN sent : n < m => Ordered(n, m)
    /\ Below(NextSequenceNumber)
    /\ \A n \in DOMAIN sent : Below(Bound(n))
    /\ \A n \in DOMAIN sent : sent[n].first /\ HasIt(n) => Repeated(n)

IInv ==
    /\ Shape /\ Counted /\ Answers
    /\ \A n \in DOMAIN sent : Close(n)
    /\ ~misfiled => Numbers

-----------------------------------------------------------------------------
(* Numbers *)

(* The range of a field is twice its half. *)
LEMMA HalfIs ==
    ASSUME NEW b \in 1 .. 3
    PROVE  /\ Half(b) \in Nat \ {0} /\ Half(b) <= Half3
           /\ FieldRange(b) = 2 * Half(b)
BY FieldAssumption, SMT DEF Half, FieldRange

(* A range divided by a smaller one without remainder is a multiple of it. *)
LEMMA MultipleIs ==
    ASSUME NEW m \in Nat \ {0}, NEW s \in Nat \ {0}, m % s = 0
    PROVE  \E k \in Nat \ {0} : m = k * s
<1> DEFINE k == m \div s
<1>1. k \in Int /\ m = k * s + (m % s)
  BY DivMod
<1> HIDE DEF k
<1>2. m = k * s
  BY <1>1, SMT
<1>3. ~(k <= 0)
  <2> SUFFICES ASSUME k <= 0 PROVE FALSE
    OBVIOUS
  <2>1. k * s <= 0
    BY <1>1, SMT
  <2> QED
    BY <1>2, <2>1, SMT
<1>4. k \in Nat \ {0}
  BY <1>1, <1>3, SMT
<1> QED
  BY <1>2, <1>4, Zenon

(* A number below the range does not wrap. *)
LEMMA SmallMod ==
    ASSUME NEW m \in Nat \ {0}, NEW x \in 0 .. m - 1
    PROVE  x % m = x
<1>1. x \in Int /\ 0 \in Int /\ x = 0 * m + x
  OBVIOUS
<1> QED
  BY <1>1, ModUnique, Zenon

(* A truncated nonce near the largest one accepted expands to itself. *)
LEMMA NonceReads ==
    ASSUME NEW b \in 1 .. 3, NEW r \in Nat, NEW v \in Nat,
           r < NonceRange, v < NonceRange,
           v - r >= -Half(b), v - r < Half(b)
    PROVE  ExpandFromTruncated(r, Truncate(v, FieldRange(b)), FieldRange(b), NonceRange) = v
<1> DEFINE s == FieldRange(b)
<1>1. NonceRange \in Nat \ {0}
  BY BoundAssumption, FieldAssumption, SMT
<1>2. s \in Nat \ {0} /\ s % 2 = 0 /\ s \div 2 = Half(b)
  <2>1. \A x \in Nat \ {0} : 2 * x \in Nat \ {0} /\ (2 * x) % 2 = 0 /\ (2 * x) \div 2 = x
    OBVIOUS
  <2> QED
    BY HalfIs, <2>1, Zenon
<1>3. NonceRange % s = 0
  BY BoundAssumption, Zenon DEF FieldRange
<1> HIDE DEF s
<1>4. PICK k \in Nat \ {0} : NonceRange = k * s
  BY <1>1, <1>2, <1>3, MultipleIs, Zenon
<1>5. ExpandFromTruncated(r % (k * s), Truncate(v, s), s, k * s) = v % (k * s)
  BY <1>2, ExpandRoundTrip, Zenon
<1>6. r \in 0 .. NonceRange - 1 /\ v \in 0 .. NonceRange - 1
  BY <1>1, SMT
<1>7. r % NonceRange = r /\ v % NonceRange = v
  BY <1>1, <1>6, SmallMod, Zenon
<1> QED
  BY <1>4, <1>5, <1>7, Zenon DEF s

(* A truncated packet number near the next one expected expands to itself. *)
LEMMA SeqReads ==
    ASSUME NEW b \in {1, 2}, NEW r \in Nat, NEW v \in Nat,
           v - r >= -Half(b), v - r < Half(b)
    PROVE  ExpandFromTruncated(r % SeqRange, Truncate(v % SeqRange, FieldRange(b)),
                               FieldRange(b), SeqRange) = v % SeqRange
<1> DEFINE s == FieldRange(b)
<1>1. SeqRange \in Nat \ {0} /\ b \in 1 .. 3
  BY FieldAssumption, SMT
<1>2. s \in Nat \ {0} /\ s % 2 = 0 /\ s \div 2 = Half(b)
  <2>1. \A x \in Nat \ {0} : 2 * x \in Nat \ {0} /\ (2 * x) % 2 = 0 /\ (2 * x) \div 2 = x
    OBVIOUS
  <2> QED
    BY <1>1, HalfIs, <2>1, Zenon
<1>3. SeqRange % s = 0
  <2>1. CASE b = 1
    BY <2>1, FieldAssumption, Zenon DEF FieldRange
  <2>2. CASE b = 2
    <3>1. FieldRange(2) = 2 * Half2
      BY SMT DEF FieldRange
    <3> QED
      BY <2>2, <3>1, FieldAssumption, Zenon
  <2> QED
    BY <2>1, <2>2, Zenon
<1> HIDE DEF s
<1>4. PICK k \in Nat \ {0} : SeqRange = k * s
  BY <1>1, <1>2, <1>3, MultipleIs, Zenon
<1>5. ExpandFromTruncated(r % (k * s), Truncate(v, s), s, k * s) = v % (k * s)
  BY <1>2, ExpandRoundTrip, Zenon
<1>6. (v % (k * s)) % s = v % s
  <2>1. v \in Int
    OBVIOUS
  <2> QED
    BY <1>2, <2>1, ModOfMultiple, Zenon
<1> QED
  BY <1>4, <1>5, <1>6, Zenon DEF s, Truncate

(* What a number expands to is at most half the field away. *)
LEMMA ExpandNear ==
    ASSUME NEW b \in 1 .. 3, NEW r \in Nat, NEW v \in Nat, NEW x \in Int,
           r < NonceRange - Half3, v < NonceRange - Half3,
           v = ExpandFromTruncated(r, x, FieldRange(b), NonceRange)
    PROVE  r - v <= Half(b)
<1> DEFINE s == FieldRange(b)
<1> DEFINE gap == (Signed(x, s) - (r % s)) % s
<1> DEFINE g == Signed(gap, s)
<1>1. NonceRange \in Nat \ {0} /\ Half3 \in Nat /\ NonceRange > 2 * Half3
  BY BoundAssumption, FieldAssumption, SMT
<1>2. s \in Nat \ {0} /\ s = 2 * Half(b) /\ s \div 2 = Half(b) /\ Half(b) \in Nat
      /\ Half(b) <= Half3
  <2>1. \A y \in Nat \ {0} : 2 * y \in Nat \ {0} /\ (2 * y) \div 2 = y
    OBVIOUS
  <2> QED
    BY HalfIs, <2>1, Zenon
<1>3. v = (r + g) % NonceRange
  BY Zenon DEF ExpandFromTruncated
<1> HIDE DEF s
<1>4. Signed(x, s) \in Int /\ r % s \in Int
  BY <1>2, SMT DEF Signed
<1>5. gap \in 0 .. s - 1
  <2>1. Signed(x, s) - (r % s) \in Int
    BY <1>4
  <2> QED
    BY <1>2, <2>1, DivMod, Zenon
<1> HIDE DEF gap
<1>6. g \in Int /\ g >= -Half(b) /\ g < Half(b)
  BY <1>2, <1>5, SMT DEF Signed
<1> HIDE DEF g
<1>7. CASE r + g >= 0
  <2>1. r + g \in 0 .. NonceRange - 1
    BY <1>1, <1>2, <1>6, <1>7, SMT
  <2>2. v = r + g
    BY <1>1, <1>3, <2>1, SmallMod, Zenon
  <2> QED
    BY <1>2, <1>6, <2>2, SMT
<1>8. CASE r + g < 0
  <2>1. r + g \in Int /\ -1 \in Int /\ r + g + NonceRange \in 0 .. NonceRange - 1
        /\ r + g = (-1) * NonceRange + (r + g + NonceRange)
    BY <1>1, <1>2, <1>6, <1>8, SMT
  <2>2. v = r + g + NonceRange
    BY <1>1, <1>3, <2>1, ModUnique, Zenon
  <2> QED
    BY <1>1, <1>2, <1>6, <2>2, SMT
<1> QED
  BY <1>6, <1>7, <1>8, SMT

(* Of wrapped packet numbers of one window, those that are close are close  *)
(* without wrapping.                                                        *)
LEMMA WrappedClose ==
    ASSUME NEW a \in Nat, NEW c \in Nat, a <= c, c - a <= Window,
           Abs((a % SeqRange) - (c % SeqRange)) + 1 < Half2
    PROVE  c - a = Abs((a % SeqRange) - (c % SeqRange))
<1> DEFINE p == a \div SeqRange
<1> DEFINE q == c \div SeqRange
<1> DEFINE u == a % SeqRange
<1> DEFINE w == c % SeqRange
<1>1. SeqRange \in Nat \ {0} /\ Half2 \in Nat /\ Window \in Nat /\ a \in Int /\ c \in Int
      /\ Window + Half2 <= SeqRange /\ Half2 > 0
  BY FieldAssumption, SMT
<1>2. p \in Int /\ u \in 0 .. SeqRange - 1 /\ a = p * SeqRange + u
  BY <1>1, DivMod, Zenon
<1>3. q \in Int /\ w \in 0 .. SeqRange - 1 /\ c = q * SeqRange + w
  BY <1>1, DivMod, Zenon
<1>4. Abs(u - w) + 1 < Half2
  BY Zenon
<1> SUFFICES c - a = Abs(u - w)
  BY Zenon
<1> HIDE DEF p, q, u, w
<1>5. c - a = (q - p) * SeqRange + (w - u)
  BY <1>1, <1>2, <1>3, SMT
<1>6. CASE q - p >= 2
  <2>1. (q - p) * SeqRange >= 2 * SeqRange
    BY <1>1, <1>2, <1>3, <1>6, SMT
  <2> QED
    BY <1>1, <1>2, <1>3, <1>5, <2>1, SMT
<1>7. CASE q - p <= -1
  <2>1. (q - p) * SeqRange <= -SeqRange
    BY <1>1, <1>2, <1>3, <1>7, SMT
  <2> QED
    BY <1>1, <1>2, <1>3, <1>5, <2>1, SMT
<1>8. CASE q - p = 1
  <2>1. c - a = SeqRange + (w - u)
    BY <1>1, <1>5, <1>8, SMT
  <2> QED
    BY <1>1, <1>2, <1>3, <1>4, <2>1, SMT DEF Abs
<1>9. CASE q - p = 0
  <2>1. c - a = w - u
    BY <1>1, <1>2, <1>3, <1>5, <1>9, SMT
  <2> QED
    BY <1>1, <1>2, <1>3, <2>1, SMT DEF Abs
<1> QED
  BY <1>2, <1>3, <1>6, <1>7, <1>8, <1>9, SMT

(* The bytes chosen for a distance hold it with its sign. *)
LEMMA BytesAre ==
    ASSUME NEW mag \in Nat
    PROVE  /\ BytesFor(mag) \in 1 .. 3
           /\ BytesFor(mag) \in {1, 2} => mag + 1 < Half(BytesFor(mag))
BY FieldAssumption, SMT DEF BytesFor, Half

-----------------------------------------------------------------------------
(* Datagrams in flight *)

(* What the invariant says of one datagram in flight. *)
LEMMA DatagramIs ==
    ASSUME Shape, NEW n \in DOMAIN sent
    PROVE  /\ n \in Nat /\ n < NextNonce /\ n \notin struck
           /\ sent[n] \in Datagrams
           /\ sent[n].nonceBytes \in 0 .. 3 /\ sent[n].seq \in Int
           /\ sent[n].seqBytes \in 0 .. 3 /\ sent[n].upto \in Nat
           /\ sent[n].first \in BOOLEAN
<1>1. n \in Nat /\ n < NextNonce /\ n \notin struck /\ sent[n] \in Datagrams
  BY Zenon DEF Shape
<1>2. /\ sent[n].nonceBytes \in 0 .. 3 /\ sent[n].seq \in Nat \cup {NoSeq}
      /\ sent[n].seqBytes \in 0 .. 3 /\ sent[n].upto \in Nat
      /\ sent[n].first \in BOOLEAN
  BY <1>1, Zenon DEF Datagrams
<1>3. sent[n].seq \in Int
  BY <1>2, SMT DEF NoSeq
<1> QED
  BY <1>1, <1>2, <1>3, Zenon

(* The numbers of the run. *)
LEMMA CountsAre ==
    ASSUME Shape, Counted
    PROVE  /\ Sent \in Nat /\ First \in Nat /\ First + Sent = NextNonce
           /\ MaxDatagrams \in Nat /\ Half3 \in Nat /\ MaxDatagrams < Half3
           /\ NextNonce < NonceRange - Half3 /\ NonceRange \in Nat
           /\ LargestSequence <= NextNonce
<1>1. Cardinality(DOMAIN sent) \in Nat /\ Cardinality(struck) \in Nat
  BY FS_CardinalityType, Zenon DEF Shape
<1>2. Sent \in Nat
  BY <1>1, SMT DEF Sent
<1>3. First \in Starts /\ Sent <= MaxDatagrams /\ NextNonce \in Nat /\ LargestSequence \in Nat
      /\ (LargestSequence < NextNonce \/ (LargestSequence = 0 /\ NextNonce = 0))
  BY Zenon DEF Counted, Shape
<1>4. /\ Starts \subseteq Nat /\ MaxDatagrams \in Nat /\ NonceRange \in Nat
      /\ MaxDatagrams < Half3
      /\ First + MaxDatagrams + 1 < NonceRange - Half3 /\ Half3 \in Nat
  BY <1>3, BoundAssumption, FieldAssumption, Zenon
<1>5. First \in Nat
  BY <1>3, <1>4, Zenon
<1>6. First = NextNonce - Sent
  BY DEF First
<1> HIDE DEF First
<1> QED
  BY <1>2, <1>3, <1>4, <1>5, <1>6, SMT

(* One datagram more is one nonce more. *)
LEMMA SendCounts ==
    ASSUME Shape, struck' = struck, DOMAIN sent' = DOMAIN sent \cup {NextNonce},
           NextNonce' = NextNonce + 1
    PROVE  /\ Sent' = Sent + 1 /\ First' = First
           /\ IsFiniteSet(DOMAIN sent')
<1>1. NextNonce \notin DOMAIN sent
  <2>1. NextNonce \in DOMAIN sent => NextNonce < NextNonce
    BY Zenon DEF Shape
  <2>2. ~(NextNonce < NextNonce)
    BY SMT DEF Shape
  <2> QED
    BY <2>1, <2>2, Zenon
<1>2. IsFiniteSet(DOMAIN sent')
      /\ Cardinality(DOMAIN sent') = Cardinality(DOMAIN sent) + 1
  <2>1. IsFiniteSet(DOMAIN sent)
    BY Zenon DEF Shape
  <2>2. IsFiniteSet(DOMAIN sent \cup {NextNonce})
        /\ Cardinality(DOMAIN sent \cup {NextNonce})
             = IF NextNonce \in DOMAIN sent THEN Cardinality(DOMAIN sent)
                                            ELSE Cardinality(DOMAIN sent) + 1
    BY <2>1, FS_AddElement, Zenon
  <2> QED
    BY <1>1, <2>2, Zenon
<1>3. Cardinality(DOMAIN sent) \in Nat /\ Cardinality(struck) \in Nat
  BY FS_CardinalityType, Zenon DEF Shape
<1>4. Sent' = Cardinality(DOMAIN sent') + Cardinality(struck)
  BY Zenon DEF Sent
<1>5. Sent = Cardinality(DOMAIN sent) + Cardinality(struck)
  BY Zenon DEF Sent
<1>6. Sent' = Sent + 1 /\ Sent \in Nat /\ NextNonce \in Nat
  BY <1>2, <1>3, <1>4, <1>5, SMT DEF Shape
<1>7. First' = First
  <2>1. First' = NextNonce' - Sent' /\ First = NextNonce - Sent
    BY DEF First
  <2> QED
    BY <1>6, <2>1, SMT
<1> QED
  BY <1>2, <1>6, <1>7, Zenon

(* Acceptance moves a datagram from those in flight to the nonces struck. *)
LEMMA StrikeCounts ==
    ASSUME Shape, NEW n \in DOMAIN sent, struck' = struck \cup {n},
           DOMAIN sent' = DOMAIN sent \ {n}, NextNonce' = NextNonce
    PROVE  /\ Sent' = Sent /\ First' = First
           /\ IsFiniteSet(DOMAIN sent') /\ IsFiniteSet(struck')
<1>1. IsFiniteSet(DOMAIN sent) /\ IsFiniteSet(struck) /\ n \notin struck
  BY Zenon DEF Shape
<1>2. IsFiniteSet(struck') /\ Cardinality(struck') = Cardinality(struck) + 1
  <2>1. IsFiniteSet(struck \cup {n})
        /\ Cardinality(struck \cup {n})
             = IF n \in struck THEN Cardinality(struck) ELSE Cardinality(struck) + 1
    BY <1>1, FS_AddElement, Zenon
  <2> QED
    BY <1>1, <2>1, Zenon
<1>3. IsFiniteSet(DOMAIN sent')
      /\ Cardinality(DOMAIN sent') = Cardinality(DOMAIN sent) - 1
  <2>1. IsFiniteSet(DOMAIN sent \ {n})
        /\ Cardinality(DOMAIN sent \ {n})
             = IF n \in DOMAIN sent THEN Cardinality(DOMAIN sent) - 1
                                    ELSE Cardinality(DOMAIN sent)
    BY <1>1, FS_RemoveElement, Zenon
  <2> QED
    BY <2>1, Zenon
<1>4. Cardinality(DOMAIN sent) \in Nat /\ Cardinality(struck) \in Nat
  BY <1>1, FS_CardinalityType, Zenon
<1>5. Sent' = Cardinality(DOMAIN sent') + Cardinality(struck')
      /\ Sent = Cardinality(DOMAIN sent) + Cardinality(struck)
  BY Zenon DEF Sent
<1>6. Sent' = Sent
  BY <1>2, <1>3, <1>4, <1>5, SMT
<1> QED
  BY <1>2, <1>3, <1>6, Zenon DEF First

(* The start: everything sent so far was received and acknowledged. *)
LEMMA InitIInv == Init => IInv
<1> SUFFICES ASSUME Init PROVE IInv
  OBVIOUS
<1> USE DEF Init
<1>1. NextSequenceNumber \in Nat
  BY BoundAssumption, Zenon
<1>2. DOMAIN sent = {}
  OBVIOUS
<1>3. IsFiniteSet({}) /\ Cardinality({}) = 0
  BY FS_EmptySet, Zenon
<1>4. Sent = 0
  BY <1>2, <1>3, SMT DEF Sent
<1>5. First = NextNonce /\ First \in Starts
  BY <1>1, <1>4, SMT DEF First
<1>6. LargestSequence \in Nat
  BY <1>1, SMT
<1>7. Shape
  <2>1. sent \in [DOMAIN sent -> Datagrams]
    BY <1>2, SMT
  <2>2. NextNonce \in Nat /\ PeerNextExpectedNonce \in Nat /\ NextAcceptableNonce \in Nat
        /\ PeerNextExpectedSeqNum \in Nat /\ NextFeedback \in Nat
        /\ FECNextExpectedPacketNum \in Nat
    BY <1>1, Zenon
  <2>3. struck = {} /\ have = {} /\ misfiled \in BOOLEAN
    BY Zenon
  <2> QED
    BY <1>1, <1>2, <1>3, <1>6, <2>1, <2>2, <2>3, Zenon DEF Shape
<1>8. Counted
  <2>1. LargestSequence \notin DOMAIN sent
    BY <1>2, Zenon
  <2> QED
    BY <1>1, <1>4, <1>5, <2>1, BoundAssumption, SMT DEF Counted
<1>9. Answers
  BY <1>1, FieldAssumption, SMT DEF Answers
<1>10. Numbers
  <2>1. Below(NextSequenceNumber)
    BY <1>1, SMT DEF Below
  <2> QED
    BY <1>2, <2>1, Zenon DEF Numbers
<1> QED
  BY <1>2, <1>7, <1>8, <1>9, <1>10, Zenon DEF IInv
-----------------------------------------------------------------------------
(* The sender *)

(* A nonce of one or two bytes reaches the receiver. *)
LEMMA WriteNonceIs ==
    ASSUME Shape, Counted
    PROVE  /\ WriteNonceBytes \in 0 .. 3
           /\ WriteNonceBytes = 1 => NextNonce - LargestSequence < Half1
           /\ WriteNonceBytes = 2 => NextNonce - LargestSequence < Half2
<1> DEFINE mag == NextNonce - PeerNextExpectedNonce
<1>1. mag \in Nat /\ Abs(mag) = mag
  BY SMT DEF Shape, Counted, Abs
<1>2. NextNonce - LargestSequence <= mag + 1
  BY SMT DEF Shape, Counted
<1> HIDE DEF mag
<1>3. BytesFor(mag) \in 1 .. 3 /\ (BytesFor(mag) = 1 => mag + 1 < Half1)
      /\ (BytesFor(mag) = 2 => mag + 1 < Half2)
  BY <1>1, FieldAssumption, SMT DEF BytesFor
<1>4. WriteNonceBytes = 3 \/ WriteNonceBytes = 0 \/ WriteNonceBytes = BytesFor(mag)
  BY <1>1, Zenon DEF WriteNonceBytes, mag
<1>5. NextNonce \in Int /\ LargestSequence \in Int /\ Half1 \in Nat /\ Half2 \in Nat
  BY FieldAssumption, SMT DEF Shape
<1> QED
  BY <1>1, <1>2, <1>3, <1>4, <1>5, SMT

(* A packet number takes one to three bytes. *)
LEMMA PacketNumBytesAre ==
    ASSUME Shape, NEW seq \in Nat
    PROVE  GetPacketNumBytes(seq % SeqRange) \in 1 .. 3
<1>1. \A x, y \in Int : Abs(x - y) \in Nat
  BY SMT DEF Abs
<1>2. \A x \in Nat : x % SeqRange \in Int
  BY FieldAssumption, SMT
<1>3. \A mag \in Nat : BytesFor(mag) \in 1 .. 3
  BY BytesAre, Zenon
<1>4. 3 \in 1 .. 3
  OBVIOUS
<1>5. PeerNextExpectedSeqNum \in Nat /\ NextSequenceNumber \in Nat
  BY Zenon DEF Shape
<1> QED
  BY <1>1, <1>2, <1>3, <1>4, <1>5, Zenon DEF GetPacketNumBytes

(* A packet number of one or two bytes reaches the receiver, wherever       *)
(* between the last acknowledgement and the next packet it is.              *)
LEMMA PacketNumIs ==
    ASSUME Shape, Answers, NEW seq \in Nat,
           PeerNextExpectedSeqNum <= seq, seq <= NextSequenceNumber
    PROVE  LET b == GetPacketNumBytes(seq % SeqRange)
           IN  /\ b \in 1 .. 3
               /\ b \in {1, 2} =>
                     /\ seq - FECNextExpectedPacketNum < Half(b)
                     /\ (NextSequenceNumber + 1) - seq <= Half(b)
<1> DEFINE b == GetPacketNumBytes(seq % SeqRange)
<1> DEFINE mag == Abs((seq % SeqRange) - (PeerNextExpectedSeqNum % SeqRange))
<1> DEFINE mag2 == Abs((seq % SeqRange) - (NextSequenceNumber % SeqRange))
<1> DEFINE top == IF mag < mag2 THEN mag2 ELSE mag
<1> DEFINE back == Abs((PeerNextExpectedSeqNum % SeqRange) - (seq % SeqRange))
<1>1. /\ SeqRange \in Nat \ {0} /\ Window \in Nat /\ Half2 \in Nat
      /\ PeerNextExpectedSeqNum \in Nat /\ NextSequenceNumber \in Nat
      /\ FECNextExpectedPacketNum \in Nat
      /\ PeerNextExpectedSeqNum <= FECNextExpectedPacketNum
      /\ NextSequenceNumber - PeerNextExpectedSeqNum <= Window
  BY FieldAssumption, SMT DEF Shape, Answers
<1>2. mag \in Nat /\ mag2 \in Nat /\ back = mag
  <2>1. \A x, y \in Int : Abs(x - y) \in Nat /\ Abs(x - y) = Abs(y - x)
    BY SMT DEF Abs
  <2>2. \A x \in Nat : x % SeqRange \in Int
    BY <1>1, SMT
  <2> QED
    BY <1>1, <2>1, <2>2, Zenon
<1>3. top \in Nat /\ mag <= top /\ mag2 <= top
  <2> HIDE DEF mag, mag2
  <2> QED
    BY <1>2, SMT
<1>4. b = 3 \/ b = BytesFor(top)
  BY Zenon DEF GetPacketNumBytes
<1>5. b \in 1 .. 3 /\ (b \in {1, 2} => top + 1 < Half(b))
  <2> HIDE DEF top, b
  <2>1. BytesFor(top) \in 1 .. 3
        /\ (BytesFor(top) \in {1, 2} => top + 1 < Half(BytesFor(top)))
    BY <1>3, BytesAre, Zenon
  <2> QED
    BY <1>4, <2>1, SMT
<1>6. ASSUME b \in {1, 2}
      PROVE  /\ seq - FECNextExpectedPacketNum < Half(b)
             /\ (NextSequenceNumber + 1) - seq <= Half(b)
  <2> HIDE DEF b
  <2>1. Half(b) \in Nat /\ Half(b) <= Half2
    BY <1>6, FieldAssumption, SMT DEF Half
  <2>2. top + 1 < Half(b)
    BY <1>5, <1>6, Zenon
  <2>3. back + 1 < Half2 /\ mag2 + 1 < Half2
    <3> HIDE DEF top, mag, mag2, back
    <3> QED
      BY <1>1, <1>2, <1>3, <2>1, <2>2, SMT
  <2>4. seq - PeerNextExpectedSeqNum <= Window /\ NextSequenceNumber - seq <= Window
    BY <1>1, SMT
  <2>5. seq - PeerNextExpectedSeqNum = back
    BY <1>1, <2>3, <2>4, WrappedClose, Zenon
  <2>6. NextSequenceNumber - seq = mag2
    BY <1>1, <2>3, <2>4, WrappedClose, Zenon
  <2> HIDE DEF top, mag, mag2, back
  <2> QED
    BY <1>1, <1>2, <1>3, <2>1, <2>2, <2>5, <2>6, SMT
<1> QED
  BY <1>5, <1>6, Zenon
(* The state after a datagram was sent. *)
LEMMA SentIs ==
    ASSUME Shape, NEW seq, NEW seqBytes, NEW upto,
           SendDatagram(seq, seqBytes, upto)
    PROVE  /\ NextNonce' = NextNonce + 1 /\ NextNonce \notin DOMAIN sent
           /\ DOMAIN sent' = DOMAIN sent \cup {NextNonce}
           /\ \A n \in DOMAIN sent : sent'[n] = sent[n]
           /\ sent'[NextNonce] =
                 [nonceBytes |-> WriteNonceBytes, seq |-> seq,
                  seqBytes |-> seqBytes, upto |-> upto,
                  first |-> upto > NextSequenceNumber]
           /\ sent' \in [DOMAIN sent' -> {sent'[n] : n \in DOMAIN sent'}]
           /\ UNCHANGED <<acked, feedback, NextFeedback, struck, LargestSequence,
                          have, FECNextExpectedPacketNum, misfiled>>
           /\ Sent + NextFeedback < MaxDatagrams
<1>1. NextNonce \notin DOMAIN sent
  <2>1. NextNonce \in DOMAIN sent => NextNonce < NextNonce
    BY Zenon DEF Shape
  <2>2. ~(NextNonce < NextNonce)
    BY SMT DEF Shape
  <2> QED
    BY <2>1, <2>2, Zenon
<1>2. sent' = [n \in DOMAIN sent \cup {NextNonce} |->
                  IF n \in DOMAIN sent THEN sent[n]
                  ELSE [nonceBytes |-> WriteNonceBytes, seq |-> seq,
                        seqBytes |-> seqBytes, upto |-> upto,
                        first |-> upto > NextSequenceNumber]]
      /\ NextNonce' = NextNonce + 1
  BY Zenon DEF SendDatagram
<1>3. UNCHANGED <<acked, feedback, NextFeedback, receiver>>
      /\ Sent + NextFeedback < MaxDatagrams
  BY Zenon DEF SendDatagram
<1> QED
  BY <1>1, <1>2, <1>3, Zenon DEF receiver

(* What a datagram sent preserves: every action of the sender is one. *)
LEMMA SendKeeps ==
    ASSUME IInv, NEW seq \in Nat \cup {NoSeq}, NEW seqBytes \in 0 .. 3, NEW upto \in Nat,
           SendDatagram(seq, seqBytes, upto), NextSequenceNumber' = upto,
           \/ upto = NextSequenceNumber
           \/ /\ upto = NextSequenceNumber + 1 /\ seq = NextSequenceNumber
              /\ seqBytes > 0
              /\ NextSequenceNumber - PeerNextExpectedSeqNum < Window,
           seqBytes > 0 => seq \in Nat /\ seq < upto,
           ~misfiled /\ seqBytes \in {1, 2} =>
                 /\ seq - FECNextExpectedPacketNum < Half(seqBytes)
                 /\ upto - seq <= Half(seqBytes)
    PROVE  IInv'
<1>0. PICK N : N = NextNonce
  BY Zenon
<1> DEFINE d == sent'[N]
<1> DEFINE fst == upto > NextSequenceNumber
<1>1. Shape /\ Counted /\ Answers /\ (\A n \in DOMAIN sent : Close(n))
      /\ (~misfiled => Numbers)
  BY Zenon DEF IInv
<1>2. /\ NextNonce = N /\ NextNonce' = N + 1 /\ N \notin DOMAIN sent
      /\ DOMAIN sent' = DOMAIN sent \cup {N}
      /\ \A n \in DOMAIN sent : sent'[n] = sent[n]
      /\ d = [nonceBytes |-> WriteNonceBytes, seq |-> seq,
              seqBytes |-> seqBytes, upto |-> upto, first |-> fst]
      /\ sent' \in [DOMAIN sent' -> {sent'[n] : n \in DOMAIN sent'}]
      /\ UNCHANGED <<acked, feedback, NextFeedback, struck, LargestSequence,
                     have, FECNextExpectedPacketNum, misfiled>>
      /\ Sent + NextFeedback < MaxDatagrams
  BY <1>0, <1>1, SentIs, Zenon DEF fst
<1>3. /\ N \in Nat /\ LargestSequence \in Nat /\ NextSequenceNumber \in Nat
      /\ NextFeedback \in Nat /\ FECNextExpectedPacketNum \in Nat
      /\ PeerNextExpectedSeqNum \in Nat /\ PeerNextExpectedNonce \in Nat
      /\ Sent \in Nat /\ MaxDatagrams \in Nat /\ First \in Nat
  BY <1>0, <1>1, CountsAre, Zenon DEF Shape
<1>4. Sent' = Sent + 1 /\ First' = First /\ IsFiniteSet(DOMAIN sent')
  BY <1>1, <1>2, SendCounts, Zenon
<1>5. WriteNonceBytes \in 0 .. 3
      /\ (WriteNonceBytes = 1 => N - LargestSequence < Half1)
      /\ (WriteNonceBytes = 2 => N - LargestSequence < Half2)
  BY <1>0, <1>1, WriteNonceIs, Zenon
<1>6. fst \in BOOLEAN
  BY <1>3, SMT
<1> HIDE DEF fst
<1>7. WriteNonceBytes \in 0 .. 3 /\ d \in Datagrams /\ d.nonceBytes = WriteNonceBytes /\ d.seq = seq
      /\ d.seqBytes = seqBytes /\ d.upto = upto /\ d.first = fst
  <2> DEFINE wn == WriteNonceBytes
  <2>1. d = [nonceBytes |-> wn, seq |-> seq,
             seqBytes |-> seqBytes, upto |-> upto, first |-> fst]
    BY <1>2, Zenon
  <2>2. wn \in 0 .. 3
    BY <1>5, Zenon
  <2> HIDE DEF d, wn
  <2> SUFFICES d \in Datagrams /\ d.nonceBytes = wn /\ d.seq = seq
                /\ d.seqBytes = seqBytes /\ d.upto = upto /\ d.first = fst
    BY <1>5, Zenon DEF wn
  <2> QED
    BY <1>6, <2>1, <2>2, Zenon DEF Datagrams
<1> HIDE DEF d
<1>8. Shape'
  <2>1. \A n \in DOMAIN sent' : sent'[n] \in Datagrams
    BY <1>1, <1>2, <1>7, Zenon DEF Shape, d
  <2>2. sent' \in [DOMAIN sent' -> Datagrams]
    BY <1>2, <2>1, Zenon
  <2>3. DOMAIN sent' \subseteq Nat /\ struck' \cap DOMAIN sent' = {}
    <3>1. N \notin struck
      <4>1. N \in struck => N < N
        BY <1>0, <1>1, Zenon DEF Shape
      <4>2. ~(N < N)
        BY <1>3, SMT
      <4> QED
        BY <4>1, <4>2, Zenon
    <3>2. DOMAIN sent \subseteq Nat /\ struck \cap DOMAIN sent = {}
      BY <1>1, Zenon DEF Shape
    <3> QED
      BY <1>2, <1>3, <3>1, <3>2, Zenon
  <2>4. \A n \in DOMAIN sent' \cup struck' : n < NextNonce'
    <3>1. \A n \in DOMAIN sent \cup struck : n \in Nat /\ n < N
      BY <1>0, <1>1, Zenon DEF Shape
    <3> QED
      BY <1>2, <1>3, <3>1, SMT
  <2>5. NextNonce' \in Nat /\ NextSequenceNumber' \in Nat
    BY <1>2, <1>3, SMT
  <2> QED
    BY <1>1, <1>2, <1>4, <2>2, <2>3, <2>4, <2>5, Zenon DEF Shape, acked
<1>9. Counted'
  <2>1. First \in Starts /\ First <= LargestSequence + 1
        /\ First <= PeerNextExpectedNonce
        /\ (LargestSequence < NextNonce \/ (LargestSequence = 0 /\ NextNonce = 0))
        /\ PeerNextExpectedNonce <= NextNonce
        /\ PeerNextExpectedNonce <= LargestSequence + 1
    BY <1>1, Zenon DEF Counted
  <2>2. Sent' <= MaxDatagrams /\ LargestSequence < NextNonce' /\ PeerNextExpectedNonce <= NextNonce'
    BY <1>2, <1>3, <1>4, <2>1, SMT
  <2>3. LargestSequence \in DOMAIN sent' => LargestSequence = 0
    <3>1. LargestSequence \in DOMAIN sent => LargestSequence = 0
      BY <1>1, Zenon DEF Counted
    <3>2. LargestSequence = N => LargestSequence = 0
      BY <1>2, <1>3, <2>1, SMT
    <3> QED
      BY <1>2, <3>1, <3>2, Zenon
  <2> QED
    BY <1>2, <1>4, <2>1, <2>2, <2>3, Zenon DEF Counted, acked
<1>10. Answers'
  <2>1. NextSequenceNumber' - PeerNextExpectedSeqNum <= Window
    <3>1. Window \in Nat /\ NextSequenceNumber - PeerNextExpectedSeqNum <= Window
      BY <1>1, FieldAssumption, Zenon DEF Answers
    <3> QED
      BY <1>3, <3>1, SMT
  <2>2. ASSUME NEW f \in feedback PROVE AnswerOK(f)'
    <3>1. AnswerOK(f)
      BY <1>1, Zenon DEF Answers
    <3>2. PICK x \in First .. N : f.next = Truncate(x, FieldRange(3))
                                  /\ x <= LargestSequence + 1
      BY <1>0, <3>1, Zenon DEF AnswerOK
    <3>3. x \in First .. NextNonce'
      BY <1>2, <1>3, SMT
    <3> QED
      BY <1>2, <1>4, <3>1, <3>2, <3>3, Zenon DEF AnswerOK, acked
  <2> QED
    BY <1>1, <1>2, <2>1, <2>2, Zenon DEF Answers, acked
<1>11. \A n \in DOMAIN sent' : Close(n)'
  <2>1. Close(N)'
    BY <1>2, <1>5, <1>7, Zenon DEF Close, d
  <2>2. \A n \in DOMAIN sent : Close(n)'
    BY <1>1, <1>2, Zenon DEF Close
  <2> QED
    BY <1>2, <2>1, <2>2, Zenon
<1>12. ASSUME ~misfiled' PROVE Numbers'
  <2>1. Numbers
    BY <1>1, <1>2, <1>12, Zenon
  <2>2. NextSequenceNumber <= upto /\ upto <= NextSequenceNumber + 1
        /\ (fst => upto = NextSequenceNumber + 1 /\ seq = NextSequenceNumber /\ seqBytes > 0)
        /\ (~fst => upto = NextSequenceNumber)
    BY <1>3, SMT DEF fst
  <2>3. \A n \in DOMAIN sent :
           /\ n \in Nat /\ n < N /\ sent[n].upto \in Nat
           /\ sent[n].upto <= NextSequenceNumber
           /\ NextSequenceNumber <= sent[n].upto + (N - 1 - n)
    BY <1>0, <1>1, <2>1, DatagramIs, Zenon DEF Numbers, NumberOK
  <2>4. \A n \in DOMAIN sent' : NumberOK(n)'
    <3>1. NumberOK(N)'
      <4>1. upto <= upto + (NextNonce' - 1 - N) /\ upto <= upto
        BY <1>2, <1>3, SMT
      <4>2. seqBytes > 0 => seq \in Nat /\ seq < upto
        BY Zenon
      <4>3. fst => seqBytes > 0 /\ upto = seq + 1
        BY <2>2, Zenon
      <4>4. ~misfiled
        BY <1>2, <1>12, Zenon
      <4> QED
        BY <1>2, <1>7, <4>1, <4>2, <4>3, <4>4, Zenon DEF NumberOK, d
    <3>2. ASSUME NEW n \in DOMAIN sent PROVE NumberOK(n)'
      <4>1. NumberOK(n)
        BY <2>1, Zenon DEF Numbers
      <4>2. sent[n].upto <= NextSequenceNumber'
            /\ NextSequenceNumber' <= sent[n].upto + (NextNonce' - 1 - n)
        BY <1>2, <1>3, <2>2, <2>3, SMT
      <4> QED
        BY <1>2, <4>1, <4>2, Zenon DEF NumberOK
    <3> QED
      BY <1>2, <3>1, <3>2, Zenon
  <2>5. ASSUME NEW n \in DOMAIN sent', NEW m \in DOMAIN sent', n < m
        PROVE  Ordered(n, m)'
    <3>1. CASE n \in DOMAIN sent /\ m \in DOMAIN sent
      BY <1>2, <2>1, <2>5, <3>1, Zenon DEF Numbers, Ordered, Step
    <3>2. CASE n \in DOMAIN sent /\ m = N
      <4>1. Step(m)' = IF fst THEN 1 ELSE 0
        BY <1>7, <3>2, Zenon DEF Step, d
      <4>2. sent'[n].upto = sent[n].upto /\ sent'[m].upto = upto
        BY <1>2, <1>7, <3>2, Zenon DEF d
      <4>3. n \in Nat /\ n < N /\ sent[n].upto \in Nat
            /\ sent[n].upto <= NextSequenceNumber
            /\ NextSequenceNumber <= sent[n].upto + (N - 1 - n)
        BY <2>3, <3>2, Zenon
      <4>4. /\ sent[n].upto <= upto - Step(m)'
            /\ upto <= sent[n].upto + (m - n) - (1 - Step(m)')
        BY <1>3, <2>2, <3>2, <4>1, <4>3, SMT
      <4> QED
        BY <4>2, <4>4, Zenon DEF Ordered
    <3>3. CASE n = N
      <4>1. m = N \/ m < N
        BY <1>2, <2>3, Zenon
      <4>2. m \in Nat
        BY <1>2, <1>3, <2>3, Zenon
      <4> QED
        BY <1>3, <2>5, <3>3, <4>1, <4>2, SMT
    <3> QED
      BY <1>2, <3>1, <3>2, <3>3, Zenon
  <2>6. Below(NextSequenceNumber)
    BY <2>1, Zenon DEF Numbers
  <2>7. have \subseteq Nat
    BY <1>1, Zenon DEF Shape
  <2>8. Below(upto)
    BY <1>3, <2>2, <2>6, <2>7, SMT DEF Below
  <2>9. Below(NextSequenceNumber)'
    BY <1>2, <2>8, Zenon DEF Below
  <2>10. LargestSequence <= N
    BY <1>0, <1>1, CountsAre, Zenon
  <2>11. \A n \in DOMAIN sent' : Below(Bound(n))'
    <3>1. Bound(N)' = upto
      <4>1. Behind(N)' = 0
        BY <1>2, <1>3, <2>10, SMT DEF Behind
      <4>2. Bound(N)' = upto + 0
        BY <1>7, <4>1, Zenon DEF Bound, d
      <4> QED
        BY <4>2, SMT
    <3>2. Below(Bound(N))'
      BY <1>2, <2>8, <3>1, Zenon DEF Below
    <3>3. \A n \in DOMAIN sent : Bound(n)' = Bound(n)
      BY <1>2, Zenon DEF Bound, Behind
    <3>4. \A n \in DOMAIN sent : Below(Bound(n))'
      BY <1>2, <2>1, <3>3, Zenon DEF Below, Numbers
    <3> QED
      BY <1>2, <3>2, <3>4, Zenon
  <2>12. ASSUME NEW n \in DOMAIN sent', sent'[n].first, HasIt(n)' PROVE Repeated(n)'
    <3>1. CASE n = N
      <4>1. fst /\ (seq < FECNextExpectedPacketNum \/ seq \in have)
        BY <1>2, <1>7, <2>12, <3>1, Zenon DEF HasIt, d
      <4>2. seq = NextSequenceNumber
        BY <2>2, <4>1, Zenon
      <4>3. FECNextExpectedPacketNum <= seq /\ \A h \in have : h < seq
        BY <2>6, <4>2, Zenon DEF Below
      <4> QED
        BY <1>3, <2>7, <4>1, <4>2, <4>3, SMT
    <3>2. CASE n \in DOMAIN sent
      <4>1. sent[n].first /\ HasIt(n) /\ sent'[n] = sent[n]
        BY <1>2, <2>12, <3>2, Zenon DEF HasIt
      <4>2. Repeated(n)
        BY <2>1, <3>2, <4>1, Zenon DEF Numbers
      <4>3. n < LargestSequence' /\ Below(Bound(n) - 1)'
        <5>1. Bound(n)' = Bound(n)
          BY <1>2, <4>1, Zenon DEF Bound, Behind
        <5> QED
          BY <1>2, <4>2, <5>1, Zenon DEF Repeated, Below
      <4>4. NextSequenceNumber <= sent[n].upto + (N - 1 - n) - 1
        BY <1>0, <4>2, Zenon DEF Repeated
      <4>5. n \in Nat /\ sent[n].upto \in Nat
        BY <2>3, <3>2, Zenon
      <4>6. NextSequenceNumber' <= sent[n].upto + (NextNonce' - 1 - n) - 1
        BY <1>2, <1>3, <2>2, <4>4, <4>5, SMT
      <4>7. upto <= sent[n].upto + (N - n) - 1
        BY <1>3, <2>2, <4>4, <4>5, SMT
      <4>8. ASSUME NEW m \in DOMAIN sent', m > LargestSequence'
            PROVE  sent'[m].upto <= sent'[n].upto + (m - n) - 1
        <5>1. CASE m = N
          BY <1>7, <4>1, <4>7, <5>1, Zenon DEF d
        <5>2. CASE m \in DOMAIN sent
          BY <1>2, <4>1, <4>2, <4>8, <5>2, Zenon DEF Repeated
        <5> QED
          BY <1>2, <5>1, <5>2, Zenon
      <4> QED
        BY <4>1, <4>3, <4>6, <4>8, Zenon DEF Repeated
    <3> QED
      BY <1>2, <3>1, <3>2, Zenon
  <2> QED
    BY <2>4, <2>5, <2>9, <2>11, <2>12, Zenon DEF Numbers
<1> QED
  BY <1>8, <1>9, <1>10, <1>11, <1>12, Zenon DEF IInv
(* Every action of the sender sends one datagram. *)
LEMMA SenderKeeps ==
    ASSUME IInv, SendQueuedReliable \/ PostRetransmit \/ SendUnnumbered
    PROVE  IInv'
<1>1. Shape /\ Answers
  BY Zenon DEF IInv
<1>2. /\ NextSequenceNumber \in Nat /\ PeerNextExpectedSeqNum \in Nat
      /\ FECNextExpectedPacketNum \in Nat
  BY <1>1, Zenon DEF Shape
<1>3. CASE SendUnnumbered
  <2>1. SendDatagram(NoSeq, 0, NextSequenceNumber)
        /\ NextSequenceNumber' = NextSequenceNumber
    BY <1>3, Zenon DEF SendUnnumbered
  <2>2. 0 \in 0 .. 3 /\ ~(0 > 0) /\ 0 \notin {1, 2} /\ NoSeq \in Nat \cup {NoSeq}
    OBVIOUS
  <2> QED
    BY <1>2, <2>1, <2>2, SendKeeps, Zenon
<1>4. CASE PostRetransmit
  <2>1. PICK seq \in PeerNextExpectedSeqNum .. NextSequenceNumber - 1 :
           SendDatagram(seq, GetPacketNumBytes(seq % SeqRange), NextSequenceNumber)
    BY <1>4, Zenon DEF PostRetransmit
  <2>2. NextSequenceNumber' = NextSequenceNumber
    BY <1>4, Zenon DEF PostRetransmit
  <2>3. seq \in Nat /\ PeerNextExpectedSeqNum <= seq /\ seq < NextSequenceNumber
        /\ seq <= NextSequenceNumber
    BY <1>2, SMT
  <2> DEFINE b == GetPacketNumBytes(seq % SeqRange)
  <2>4. b \in 1 .. 3 /\ (b \in {1, 2} =>
                           /\ seq - FECNextExpectedPacketNum < Half(b)
                           /\ (NextSequenceNumber + 1) - seq <= Half(b))
    BY <1>1, <2>3, PacketNumIs, Zenon
  <2>5. SendDatagram(seq, b, NextSequenceNumber)
    BY <2>1, Zenon
  <2> HIDE DEF b
  <2>6. b \in 0 .. 3 /\ (b \in {1, 2} => NextSequenceNumber - seq <= Half(b))
    BY <1>2, <2>3, <2>4, FieldAssumption, SMT DEF Half
  <2> QED
    BY <1>2, <2>2, <2>3, <2>4, <2>5, <2>6, SendKeeps, Zenon
<1>5. CASE SendQueuedReliable
  <2> DEFINE b == GetPacketNumBytes(NextSequenceNumber % SeqRange)
  <2>1. /\ NextSequenceNumber - PeerNextExpectedSeqNum < Window
        /\ SendDatagram(NextSequenceNumber, b, NextSequenceNumber + 1)
        /\ NextSequenceNumber' = NextSequenceNumber + 1
    BY <1>5, Zenon DEF SendQueuedReliable
  <2>2. CASE PeerNextExpectedSeqNum <= NextSequenceNumber
    <3>1. NextSequenceNumber <= NextSequenceNumber
      BY <1>2, SMT
    <3>2. b \in 1 .. 3 /\ (b \in {1, 2} =>
                           /\ NextSequenceNumber - FECNextExpectedPacketNum < Half(b)
                           /\ (NextSequenceNumber + 1) - NextSequenceNumber <= Half(b))
      BY <1>1, <1>2, <2>2, <3>1, PacketNumIs, Zenon
    <3> HIDE DEF b
    <3>3. b \in 0 .. 3 /\ b > 0 /\ NextSequenceNumber + 1 \in Nat
          /\ NextSequenceNumber < NextSequenceNumber + 1
      BY <1>2, <3>2, SMT
    <3> QED
      <4>1. ~misfiled /\ b \in {1, 2} =>
               /\ NextSequenceNumber - FECNextExpectedPacketNum < Half(b)
               /\ (NextSequenceNumber + 1) - NextSequenceNumber <= Half(b)
        BY <3>2, Zenon
      <4> QED
        BY <1>2, <2>1, <3>3, <4>1, SendKeeps, Zenon
  <2>3. CASE ~(PeerNextExpectedSeqNum <= NextSequenceNumber)
    <3>1. misfiled
      <4>1. ~misfiled => FECNextExpectedPacketNum <= NextSequenceNumber
        BY Zenon DEF IInv, Numbers, Below
      <4>2. PeerNextExpectedSeqNum <= FECNextExpectedPacketNum
        BY <1>1, Zenon DEF Answers
      <4>3. ~(FECNextExpectedPacketNum <= NextSequenceNumber)
        BY <1>2, <2>3, <4>2, SMT
      <4> QED
        BY <4>1, <4>3, Zenon
    <3>2. b \in 1 .. 3
      BY <1>1, <1>2, PacketNumBytesAre, Zenon
    <3> HIDE DEF b
    <3>3. b \in 0 .. 3 /\ b > 0 /\ NextSequenceNumber + 1 \in Nat
          /\ NextSequenceNumber < NextSequenceNumber + 1
      BY <1>2, <3>2, SMT
    <3> QED
      BY <1>2, <2>1, <3>1, <3>3, SendKeeps, Zenon
  <2> QED
    BY <2>2, <2>3, Zenon
<1> QED
  BY <1>3, <1>4, <1>5, Zenon
-----------------------------------------------------------------------------
(* The receiver *)

(* What the decoder does with the numbers it is given. *)
Filed(got) ==
    /\ FECNextExpectedPacketNum' \in Nat
    /\ FECNextExpectedPacketNum <= FECNextExpectedPacketNum'
    /\ \A p \in Nat : FECNextExpectedPacketNum <= p /\ p < FECNextExpectedPacketNum'
                        => p \in have \cup got
    /\ have' \subseteq have \cup got

(* The decoder advances over numbers it has. *)
LEMMA DecodeFiles ==
    ASSUME Shape, NEW got, got \subseteq Nat, IsFiniteSet(got), Decode(got)
    PROVE  Filed(got) /\ IsFiniteSet(have')
<1>1. IsFiniteSet(have \cup got) /\ FECNextExpectedPacketNum \in Nat
  BY FS_Union, Zenon DEF Shape
<1>2. Cardinality(have \cup got) \in Nat
  BY <1>1, FS_CardinalityType, Zenon
<1>3. PICK next \in FECNextExpectedPacketNum .. FECNextExpectedPacketNum
                                            + Cardinality(have \cup got) :
        /\ \A p \in FECNextExpectedPacketNum .. next - 1 : p \in have \cup got
        /\ FECNextExpectedPacketNum' = next
        /\ have' = {p \in have \cup got : p > next}
  BY Zenon DEF Decode
<1>4. next \in Nat /\ FECNextExpectedPacketNum <= next
  BY <1>1, <1>2, SMT
<1>5. \A p \in Nat : FECNextExpectedPacketNum <= p /\ p < next
                        => p \in FECNextExpectedPacketNum .. next - 1
  BY <1>1, <1>4, SMT
<1>6. have' \subseteq have \cup got
  BY <1>3, Zenon
<1> QED
  BY <1>1, <1>3, <1>4, <1>5, <1>6, FS_Subset, Zenon DEF Filed

(* The last number the decoder advanced over. *)
LEMMA Predecessor ==
    ASSUME NEW x \in Nat, NEW y \in Nat, NEW b \in Int, y <= b, ~(x <= b)
    PROVE  x - 1 \in Nat /\ y <= x - 1 /\ x - 1 < x /\ ~(x - 1 < b)
OBVIOUS

(* Numbers below a bound leave the decoder below it. *)
LEMMA StaysBelow ==
    ASSUME Shape, NEW b \in Int, Below(b), NEW got, got \subseteq Nat,
           \A p \in got : p < b, Filed(got)
    PROVE  FECNextExpectedPacketNum' <= b /\ \A h \in have' : h < b
<1>1. \A p \in have \cup got : p < b
  BY Zenon DEF Below
<1>2. FECNextExpectedPacketNum <= b /\ FECNextExpectedPacketNum \in Nat
  BY Zenon DEF Below, Shape
<1>3. FECNextExpectedPacketNum' <= b
  <2>0. SUFFICES ASSUME ~(FECNextExpectedPacketNum' <= b) PROVE FALSE
    BY Zenon
  <2> DEFINE p == FECNextExpectedPacketNum' - 1
  <2>1. p \in Nat /\ FECNextExpectedPacketNum <= p /\ p < FECNextExpectedPacketNum'
        /\ ~(p < b)
    <3>1. FECNextExpectedPacketNum' \in Nat
          /\ FECNextExpectedPacketNum <= FECNextExpectedPacketNum'
      BY Zenon DEF Filed
    <3> QED
      BY <1>2, <2>0, <3>1, Predecessor, Zenon
  <2> HIDE DEF p
  <2> QED
    BY <1>1, <2>1, Zenon DEF Filed
<1> QED
  BY <1>1, <1>3, Zenon DEF Filed

(* What the numbers `got` of datagram n are. *)
Brought(n, got) ==
    \/ got = {}
    \/ sent[n].seqBytes > 0 /\ got = {sent[n].seq}
    \/ sent[n].seqBytes = 0 /\ got \subseteq Nat /\ \A p \in got : p < sent[n].upto

(* The state after a datagram was accepted. *)
LEMMA StrikeIs ==
    ASSUME Shape, NEW n \in DOMAIN sent, Strike(n), UNCHANGED receiverOnly
    PROVE  /\ struck' = struck \cup {n} /\ DOMAIN sent' = DOMAIN sent \ {n}
           /\ \A m \in DOMAIN sent' : sent'[m] = sent[m]
           /\ sent' \in [DOMAIN sent' -> Datagrams]
           /\ LargestSequence' \in Nat /\ LargestSequence <= LargestSequence'
           /\ n <= LargestSequence'
           /\ LargestSequence' = n \/ LargestSequence' = LargestSequence
<1>1. struck' = struck \cup {n} /\ sent' = [m \in DOMAIN sent \ {n} |-> sent[m]]
      /\ LargestSequence' = LargestAfter(n)
  BY Zenon DEF Strike
<1>2. \A m \in DOMAIN sent : sent[m] \in Datagrams
  BY Zenon DEF Shape
<1>3. n \in Nat /\ LargestSequence \in Nat
  BY Zenon DEF Shape
<1>4. LargestAfter(n) \in Nat /\ LargestSequence <= LargestAfter(n)
      /\ n <= LargestAfter(n)
      /\ (LargestAfter(n) = n \/ LargestAfter(n) = LargestSequence)
  BY <1>3, SMT DEF LargestAfter
<1>5. DOMAIN sent' = DOMAIN sent \ {n} /\ \A m \in DOMAIN sent' : sent'[m] = sent[m]
  BY <1>1, Zenon
<1>6. sent' \in [DOMAIN sent' -> Datagrams]
  BY <1>1, <1>2, Zenon
<1> QED
  BY <1>1, <1>4, <1>5, <1>6, Zenon

(* The part of the invariant that does not depend on what was read. *)
LEMMA AcceptKeepsCounts ==
    ASSUME IInv, NEW n \in DOMAIN sent, Strike(n), UNCHANGED receiverOnly,
           FECNextExpectedPacketNum' \in Nat, misfiled' \in BOOLEAN,
           FECNextExpectedPacketNum <= FECNextExpectedPacketNum',
           have' \subseteq Nat, IsFiniteSet(have')
    PROVE  Shape' /\ Counted' /\ Answers' /\ \A m \in DOMAIN sent' : Close(m)'
<1>1. Shape /\ Counted /\ Answers /\ (\A m \in DOMAIN sent : Close(m))
  BY Zenon DEF IInv
<1>2. /\ struck' = struck \cup {n} /\ DOMAIN sent' = DOMAIN sent \ {n}
      /\ \A m \in DOMAIN sent' : sent'[m] = sent[m]
      /\ sent' \in [DOMAIN sent' -> Datagrams]
      /\ LargestSequence' \in Nat /\ LargestSequence <= LargestSequence'
      /\ n <= LargestSequence'
      /\ LargestSequence' = n \/ LargestSequence' = LargestSequence
  BY <1>1, StrikeIs, Zenon
<1>3. /\ NextNonce' = NextNonce /\ NextSequenceNumber' = NextSequenceNumber
      /\ PeerNextExpectedNonce' = PeerNextExpectedNonce
      /\ PeerNextExpectedSeqNum' = PeerNextExpectedSeqNum
      /\ NextAcceptableNonce' = NextAcceptableNonce /\ feedback' = feedback
      /\ NextFeedback' = NextFeedback
  BY Zenon DEF receiverOnly, acked
<1>4. /\ Sent' = Sent /\ First' = First
      /\ IsFiniteSet(DOMAIN sent') /\ IsFiniteSet(struck')
  BY <1>1, <1>2, <1>3, StrikeCounts, Zenon
<1>5. n \in Nat /\ n < NextNonce /\ NextNonce \in Nat /\ LargestSequence \in Nat
      /\ First \in Nat /\ PeerNextExpectedNonce \in Nat
      /\ FECNextExpectedPacketNum \in Nat /\ PeerNextExpectedSeqNum \in Nat
  BY <1>1, CountsAre, Zenon DEF Shape
<1>6. Shape'
  BY <1>1, <1>2, <1>3, <1>4, Zenon DEF Shape
<1>7. Counted'
  <2>1. First <= LargestSequence + 1
        /\ (LargestSequence < NextNonce \/ (LargestSequence = 0 /\ NextNonce = 0))
        /\ PeerNextExpectedNonce <= LargestSequence + 1
    BY <1>1, Zenon DEF Counted
  <2>2. First <= LargestSequence' + 1 /\ LargestSequence' < NextNonce
        /\ PeerNextExpectedNonce <= LargestSequence' + 1
    BY <1>2, <1>5, <2>1, SMT
  <2>3. LargestSequence' \in DOMAIN sent' => LargestSequence' = 0
    BY <1>1, <1>2, Zenon DEF Counted
  <2> QED
    BY <1>1, <1>3, <1>4, <2>2, <2>3, Zenon DEF Counted
<1>8. Answers'
  <2>1. \A x \in Nat : x <= FECNextExpectedPacketNum => x <= FECNextExpectedPacketNum'
    BY <1>5, SMT
  <2>2. \A x \in Int : x <= LargestSequence + 1 => x <= LargestSequence' + 1
    BY <1>2, <1>5, SMT
  <2>3. \A x \in First .. NextNonce : x \in Int
    OBVIOUS
  <2>4. ASSUME NEW f \in feedback PROVE AnswerOK(f)'
    <3>1. AnswerOK(f)
      BY <1>1, Zenon DEF Answers
    <3> QED
      BY <1>3, <1>4, <2>1, <2>2, <2>3, <3>1, Zenon DEF AnswerOK
  <2> QED
    BY <1>1, <1>3, <1>5, <2>1, <2>4, Zenon DEF Answers
<1>9. ASSUME NEW m \in DOMAIN sent' PROVE Close(m)'
  <2>1. m \in DOMAIN sent /\ sent'[m] = sent[m] /\ Close(m) /\ m \in Nat
    BY <1>1, <1>2, DatagramIs, Zenon
  <2>2. \A h \in Nat : m - LargestSequence < h => m - LargestSequence' < h
    BY <1>2, <1>5, <2>1, SMT
  <2>3. Half1 \in Nat /\ Half2 \in Nat
    BY FieldAssumption, Zenon
  <2> QED
    BY <2>1, <2>2, <2>3, Zenon DEF Close
<1> QED
  BY <1>6, <1>7, <1>8, <1>9, Zenon
(* The part that speaks of the packet numbers. *)
LEMMA AcceptKeepsNumbers ==
    ASSUME Shape, Counted, Numbers, NEW n \in DOMAIN sent, Strike(n),
           UNCHANGED receiverOnly,
           NEW got, Brought(n, got), Filed(got)
    PROVE  Numbers'
<1> DEFINE U == sent[n].upto
<1>2. /\ DOMAIN sent' = DOMAIN sent \ {n}
      /\ \A m \in DOMAIN sent' : sent'[m] = sent[m]
      /\ LargestSequence' \in Nat /\ LargestSequence <= LargestSequence'
      /\ n <= LargestSequence'
      /\ LargestSequence' = n \/ LargestSequence' = LargestSequence
  BY StrikeIs, Zenon
<1>3. NextNonce' = NextNonce /\ NextSequenceNumber' = NextSequenceNumber
  BY Zenon DEF receiverOnly
<1>4. /\ n \in Nat /\ U \in Nat /\ NextNonce \in Nat /\ LargestSequence \in Nat
      /\ NextSequenceNumber \in Nat /\ FECNextExpectedPacketNum \in Nat
      /\ have \subseteq Nat /\ sent[n].first \in BOOLEAN
      /\ sent[n].seqBytes \in 0 .. 3
  BY DatagramIs, Zenon DEF Shape
<1>5. NumberOK(n) /\ Below(NextSequenceNumber) /\ Below(Bound(n))
  BY Zenon DEF Numbers
<1>6. got \subseteq Nat /\ \A p \in got : p < U
  BY <1>5, Zenon DEF Brought, NumberOK
<1>7. FECNextExpectedPacketNum' \in Nat
      /\ FECNextExpectedPacketNum <= FECNextExpectedPacketNum'
  BY Zenon DEF Filed
<1>8. ASSUME NEW m \in DOMAIN sent'
      PROVE  /\ m \in DOMAIN sent /\ m # n /\ sent'[m] = sent[m] /\ m \in Nat
             /\ sent[m].upto \in Nat /\ sent[m].seqBytes \in 0 .. 3
             /\ sent[m].first \in BOOLEAN /\ sent[m].seq \in Int
             /\ Step(m) \in 0 .. 1 /\ NumberOK(m)
  <2>1. m \in DOMAIN sent /\ m # n /\ sent'[m] = sent[m] /\ NumberOK(m)
    BY <1>2, Zenon DEF Numbers
  <2>2. Step(m) \in 0 .. 1
    BY SMT DEF Step
  <2> QED
    BY <2>1, <2>2, DatagramIs, Zenon
<1>9. Step(n) \in 0 .. 1
  BY SMT DEF Step
<1>10. ASSUME NEW m \in DOMAIN sent', m < n
       PROVE  /\ sent[m].upto <= U - Step(n)
              /\ U <= sent[m].upto + (n - m) - (1 - Step(n))
  BY <1>8, <1>10, Zenon DEF Numbers, Ordered
<1>11. ASSUME NEW m \in DOMAIN sent', n < m
       PROVE  /\ U <= sent[m].upto - Step(m)
              /\ sent[m].upto <= U + (m - n) - (1 - Step(m))
  BY <1>8, <1>11, Zenon DEF Numbers, Ordered
<1> HIDE DEF U
<1>12. ASSUME NEW b \in Int, Below(b), U <= b
       PROVE  FECNextExpectedPacketNum' <= b /\ \A h \in have' : h < b
  <2>1. \A p \in got : p < b
    BY <1>4, <1>6, <1>12, SMT
  <2> QED
    BY <1>6, <1>12, <2>1, StaysBelow, Zenon
<1>13. ASSUME NEW a \in Int, NEW b \in Int, a <= b, Below(a) PROVE Below(b)
  BY <1>4, <1>13, SMT DEF Below
<1>14. ASSUME NEW m \in DOMAIN sent' PROVE NumberOK(m)'
  <2>1. NumberOK(m) /\ sent'[m] = sent[m] /\ sent[m].seq \in Int
    BY <1>8, <1>14, Zenon
  <2>2. \A h \in Int : sent[m].seq - FECNextExpectedPacketNum < h
                        => sent[m].seq - FECNextExpectedPacketNum' < h
    BY <1>4, <1>7, <2>1, SMT
  <2>3. \A b \in {1, 2} : Half(b) \in Int
    BY FieldAssumption, SMT DEF Half
  <2> QED
    BY <1>3, <2>1, <2>2, <2>3, Zenon DEF NumberOK
<1>15. ASSUME NEW m \in DOMAIN sent', NEW k \in DOMAIN sent', m < k
       PROVE  Ordered(m, k)'
  BY <1>8, <1>15, Zenon DEF Numbers, Ordered, Step
<1>16. Below(NextSequenceNumber)'
  <2>1. U <= NextSequenceNumber
    BY <1>5, Zenon DEF NumberOK, U
  <2>2. NextSequenceNumber \in Int
    BY <1>4, SMT
  <2> QED
    BY <1>3, <1>5, <1>12, <2>1, <2>2, Zenon DEF Below
<1>17. ASSUME NEW m \in DOMAIN sent'
       PROVE  /\ Bound(m) \in Int /\ Bound(m)' \in Int /\ Bound(m) <= Bound(m)'
              /\ sent[m].upto <= Bound(m)'
              /\ m < LargestSequence' => Bound(m)' = sent[m].upto + (LargestSequence' - m)
              /\ m < LargestSequence => Bound(m) = sent[m].upto + (LargestSequence - m)
              /\ ~(m < LargestSequence) => Bound(m) = sent[m].upto
  <2>1. m \in Nat /\ sent[m].upto \in Nat /\ sent'[m] = sent[m]
    BY <1>8, <1>17, Zenon
  <2>2. Bound(m)' = sent[m].upto
                    + (IF m < LargestSequence' THEN LargestSequence' - m ELSE 0)
    BY <2>1, Zenon DEF Bound, Behind
  <2>3. Bound(m) = sent[m].upto
                   + (IF m < LargestSequence THEN LargestSequence - m ELSE 0)
    BY Zenon DEF Bound, Behind
  <2> QED
    BY <1>2, <1>4, <2>1, <2>2, <2>3, SMT
<1>18. ASSUME NEW m \in DOMAIN sent' PROVE Below(Bound(m))'
  <2>1. m \in Nat /\ m # n /\ Step(m) \in 0 .. 1 /\ sent[m].upto \in Nat
    BY <1>8, <1>18, Zenon
  <2>2. U <= Bound(m)'
    <3>1. CASE m < n
      BY <1>2, <1>4, <1>9, <1>10, <1>17, <1>18, <2>1, <3>1, SMT
    <3>2. CASE n < m
      BY <1>4, <1>11, <1>17, <1>18, <2>1, <3>2, SMT
    <3> QED
      BY <1>4, <2>1, <3>1, <3>2, SMT
  <2>3. Below(Bound(m))
    BY <1>8, <1>18, Zenon DEF Numbers
  <2>4. Bound(m)' \in Int /\ Bound(m) \in Int /\ Bound(m) <= Bound(m)'
    BY <1>17, <1>18, Zenon
  <2>5. PICK b \in Int : b = Bound(m)'
    BY <2>4, Zenon
  <2>6. Below(b)
    BY <1>13, <2>3, <2>4, <2>5, Zenon
  <2> QED
    BY <1>12, <2>2, <2>5, <2>6, Zenon DEF Below
<1>19. ASSUME NEW m \in DOMAIN sent', sent'[m].first, HasIt(m)' PROVE Repeated(m)'
  <2>1. /\ m \in DOMAIN sent /\ m # n /\ sent'[m] = sent[m] /\ m \in Nat
        /\ sent[m].upto \in Nat /\ sent[m].first /\ NumberOK(m) /\ Step(m) = 1
    BY <1>8, <1>19, Zenon DEF Step
  <2>2. /\ Bound(m) \in Int /\ Bound(m)' \in Int /\ Bound(m) <= Bound(m)'
        /\ sent[m].upto <= Bound(m)'
        /\ m < LargestSequence' => Bound(m)' = sent[m].upto + (LargestSequence' - m)
        /\ m < LargestSequence => Bound(m) = sent[m].upto + (LargestSequence - m)
        /\ ~(m < LargestSequence) => Bound(m) = sent[m].upto
    BY <1>17, <1>19, Zenon
  <2>3. PICK b \in Int : b = Bound(m)' - 1
    BY <2>2, SMT
  <2>4. SUFFICES /\ m < LargestSequence' /\ Below(b) /\ U <= b
                 /\ NextSequenceNumber <= sent[m].upto + (NextNonce - 1 - m) - 1
                 /\ \A k \in DOMAIN sent' : k > LargestSequence' =>
                       sent[k].upto <= sent[m].upto + (k - m) - 1
    <3>1. Below(Bound(m) - 1)'
      BY <1>12, <2>3, <2>4, Zenon DEF Below
    <3> QED
      BY <1>2, <1>3, <2>1, <2>4, <3>1, Zenon DEF Repeated
  <2>5. CASE HasIt(m)
    <3>1. Repeated(m)
      BY <2>1, <2>5, Zenon DEF Numbers
    <3>2. m < LargestSequence /\ Below(Bound(m) - 1)
          /\ NextSequenceNumber <= sent[m].upto + (NextNonce - 1 - m) - 1
          /\ \A k \in DOMAIN sent : k > LargestSequence
                 => sent[k].upto <= sent[m].upto + (k - m) - 1
      BY <3>1, Zenon DEF Repeated
    <3>3. m < LargestSequence'
      BY <1>2, <1>4, <2>1, <3>2, SMT
    <3>4. Below(b)
      <4>1. Bound(m) - 1 \in Int /\ Bound(m) - 1 <= b
        BY <2>2, <2>3, SMT
      <4> QED
        BY <1>13, <3>2, <4>1, Zenon
    <3>5. \A k \in DOMAIN sent' : k > LargestSequence' =>
              sent[k].upto <= sent[m].upto + (k - m) - 1
      <4>1. \A k \in Nat : k > LargestSequence' => k > LargestSequence
        BY <1>2, <1>4, SMT
      <4> QED
        BY <1>8, <3>2, <4>1, Zenon
    <3>6. U <= b
      <4>1. CASE n < m
        <5>1. U <= sent[m].upto - Step(m)
          BY <1>11, <1>19, <4>1, Zenon
        <5> QED
          BY <1>4, <2>1, <2>2, <2>3, <5>1, SMT
      <4>2. CASE m < n /\ n > LargestSequence
        <5>1. U <= sent[m].upto + (n - m) - 1
          BY <3>2, <4>2, Zenon DEF U
        <5> QED
          BY <1>2, <1>4, <2>1, <2>2, <2>3, <3>3, <4>2, <5>1, SMT
      <4>3. CASE m < n /\ n < LargestSequence
        <5>1. U <= sent[m].upto + (n - m) - (1 - Step(n))
          BY <1>10, <1>19, <4>3, Zenon
        <5> QED
          BY <1>2, <1>4, <1>9, <2>1, <2>2, <2>3, <3>3, <4>3, <5>1, SMT
      <4>4. ~(m < n /\ n = LargestSequence)
        <5>1. n = LargestSequence => n = 0
          BY Zenon DEF Counted
        <5> QED
          BY <2>1, <5>1, SMT
      <4> QED
        BY <1>4, <2>1, <4>1, <4>2, <4>3, <4>4, SMT
    <3> QED
      BY <3>2, <3>3, <3>4, <3>5, <3>6, Zenon
  <2>6. CASE ~HasIt(m)
    <3>1. sent[m].seq \in Nat /\ sent[m].upto = sent[m].seq + 1
      <4>1. sent[m].seqBytes > 0 /\ sent[m].upto = sent[m].seq + 1
        BY <2>1, Zenon DEF NumberOK
      <4> QED
        BY <2>1, <4>1, Zenon DEF NumberOK
    <3>2. sent[m].seq \in got
      <4>1. ~(sent[m].seq < FECNextExpectedPacketNum) /\ sent[m].seq \notin have
        BY <2>6, Zenon DEF HasIt
      <4>2. FECNextExpectedPacketNum <= sent[m].seq
        BY <1>4, <3>1, <4>1, SMT
      <4>3. sent[m].seq < FECNextExpectedPacketNum' \/ sent[m].seq \in have'
        BY <1>19, <2>1, Zenon DEF HasIt
      <4> QED
        BY <3>1, <4>1, <4>2, <4>3, Zenon DEF Filed
    <3>3. sent[m].upto <= U
      BY <1>4, <1>6, <3>1, <3>2, SMT
    <3>4. m < n
      <4>1. ~(n < m)
        <5> SUFFICES ASSUME n < m PROVE FALSE
          BY Zenon
        <5>1. U <= sent[m].upto - Step(m)
          BY <1>11, <1>19, Zenon
        <5> QED
          BY <1>4, <2>1, <3>3, <5>1, SMT
      <4> QED
        BY <1>4, <2>1, <4>1, SMT
    <3>5. /\ sent[m].upto <= U - Step(n)
          /\ U <= sent[m].upto + (n - m) - (1 - Step(n))
      BY <1>10, <1>19, <3>4, Zenon
    <3>6. Step(n) = 0
      <4> SUFFICES ASSUME sent[n].first PROVE FALSE
        BY <1>4, Zenon DEF Step
      <4>1. sent[n].seqBytes > 0 /\ U = sent[n].seq + 1 /\ Step(n) = 1
        BY <1>5, Zenon DEF NumberOK, U, Step
      <4>2. ~(sent[n].seqBytes = 0)
        BY <1>4, <4>1, SMT
      <4>3. got = {sent[n].seq}
        BY <3>2, <4>2, Zenon DEF Brought
      <4>4. sent[m].seq = sent[n].seq
        BY <3>2, <4>3, Zenon
      <4> QED
        BY <1>4, <2>1, <3>1, <3>5, <4>1, <4>4, SMT
    <3>7. m < LargestSequence'
      BY <1>2, <1>4, <2>1, <3>4, SMT
    <3>8. U <= b
      BY <1>2, <1>4, <2>1, <2>2, <2>3, <3>5, <3>6, <3>7, SMT
    <3>9. Below(b)
      <4>1. CASE n > LargestSequence
        <5>1. Bound(m) <= b
          BY <1>2, <1>4, <2>1, <2>2, <2>3, <3>4, <3>7, <4>1, SMT
        <5>2. Below(Bound(m))
          BY <2>1, Zenon DEF Numbers
        <5> QED
          BY <1>13, <2>2, <5>1, <5>2, Zenon
      <4>2. CASE ~(n > LargestSequence)
        <5>1. Bound(n) = U + (LargestSequence - n)
          <6>1. Bound(n) = U + (IF n < LargestSequence THEN LargestSequence - n ELSE 0)
            BY Zenon DEF Bound, Behind, U
          <6> QED
            BY <1>4, <4>2, <6>1, SMT
        <5>2. Bound(n) \in Int /\ Bound(n) <= b
          BY <1>2, <1>4, <2>1, <2>2, <2>3, <3>5, <3>6, <3>7, <4>2, <5>1, SMT
        <5> QED
          BY <1>5, <1>13, <5>2, Zenon
      <4> QED
        BY <4>1, <4>2, Zenon
    <3>10. NextSequenceNumber <= sent[m].upto + (NextNonce - 1 - m) - 1
      <4>1. NextSequenceNumber <= U + (NextNonce - 1 - n)
        BY <1>5, Zenon DEF NumberOK, U
      <4> QED
        BY <1>4, <2>1, <3>5, <3>6, <4>1, SMT
    <3>11. ASSUME NEW k \in DOMAIN sent', k > LargestSequence'
           PROVE  sent[k].upto <= sent[m].upto + (k - m) - 1
      <4>1. k \in Nat /\ sent[k].upto \in Nat /\ Step(k) \in 0 .. 1
        BY <1>8, <3>11, Zenon
      <4>2. n < k
        BY <1>2, <1>4, <3>11, <4>1, SMT
      <4>3. sent[k].upto <= U + (k - n) - (1 - Step(k))
        BY <1>11, <3>11, <4>2, Zenon
      <4> QED
        BY <1>4, <2>1, <3>5, <3>6, <4>1, <4>3, SMT
    <3> QED
      BY <3>7, <3>8, <3>9, <3>10, <3>11, Zenon
  <2> QED
    BY <2>5, <2>6, Zenon
<1> QED
  BY <1>14, <1>15, <1>16, <1>18, <1>19, Zenon DEF Numbers
(* Both together. *)
LEMMA AcceptKeeps ==
    ASSUME IInv, NEW n \in DOMAIN sent, Strike(n), UNCHANGED receiverOnly,
           misfiled' \in BOOLEAN, NEW got, got \subseteq Nat, Filed(got),
           IsFiniteSet(have'),
           ~misfiled' => ~misfiled /\ Brought(n, got)
    PROVE  IInv'
<1>1. Shape /\ Counted /\ (~misfiled => Numbers) /\ have \subseteq Nat
  BY Zenon DEF IInv, Shape
<1>2. /\ FECNextExpectedPacketNum' \in Nat
      /\ FECNextExpectedPacketNum <= FECNextExpectedPacketNum'
      /\ have' \subseteq Nat
  BY <1>1, Zenon DEF Filed
<1>3. Shape' /\ Counted' /\ Answers' /\ \A m \in DOMAIN sent' : Close(m)'
  BY <1>2, AcceptKeepsCounts, Zenon
<1>4. ~misfiled' => Numbers'
  BY <1>1, AcceptKeepsNumbers, Zenon
<1> QED
  BY <1>3, <1>4, Zenon DEF IInv

(* A packet number is read as a number. *)
LEMMA ReadIsNumber ==
    ASSUME Shape, NEW n \in DOMAIN sent, sent[n].seqBytes > 0
    PROVE  Unwrapped(ReadSeq(n)) \in Int
<1> DEFINE d == sent[n]
<1> DEFINE num == d.seq % SeqRange
<1>1. SeqRange \in Nat \ {0} /\ FECNextExpectedPacketNum \in Nat
  BY FieldAssumption, SMT DEF Shape
<1>2. d.seq \in Int /\ d.seqBytes \in 0 .. 3
  BY DatagramIs, Zenon
<1> HIDE DEF d
<1>3. num \in Int
  <2>1. num \in 0 .. SeqRange - 1
    BY <1>1, <1>2, DivMod, Zenon
  <2> QED
    BY <2>1, SMT
<1>4. \A x, y, s \in Int : Signed(x, s) \in Int
  BY SMT DEF Signed
<1>5. FieldRange(d.seqBytes) \in Nat \ {0}
  BY FieldAssumption, SMT DEF FieldRange
<1> HIDE DEF num
<1>6. \A x \in Int, s \in Nat \ {0} : x % s \in Int
  OBVIOUS
<1>7. \A r, x \in Int, s, m \in Nat \ {0} : ExpandFromTruncated(r, x, s, m) \in Int
  <2> SUFFICES ASSUME NEW r \in Int, NEW x \in Int, NEW s \in Nat \ {0}, NEW m \in Nat \ {0}
               PROVE  ExpandFromTruncated(r, x, s, m) \in Int
    BY Zenon
  <2> DEFINE gap == (Signed(x, s) - (r % s)) % s
  <2>1. Signed(x, s) - (r % s) \in Int
    BY SMT DEF Signed
  <2>2. gap \in Int
    BY <1>6, <2>1, Zenon
  <2>3. r + Signed(gap, s) \in Int
    <3> HIDE DEF gap
    <3> QED
      BY <2>2, SMT DEF Signed
  <2>4. (r + Signed(gap, s)) % m \in Int
    BY <1>6, <2>3, Zenon
  <2> QED
    BY <2>4, Zenon DEF ExpandFromTruncated
<1>8. ReadSeq(n) \in Int
  <2>1. Truncate(num, FieldRange(d.seqBytes)) \in Int
    BY <1>3, <1>5, <1>6, Zenon DEF Truncate
  <2>2. FECNextExpectedPacketNum % SeqRange \in Int
    BY <1>1, SMT
  <2>3. ExpandFromTruncated(FECNextExpectedPacketNum % SeqRange,
             Truncate(num, FieldRange(d.seqBytes)), FieldRange(d.seqBytes), SeqRange)
          \in Int
    BY <1>1, <1>5, <1>7, <2>1, <2>2, Zenon
  <2> QED
    BY <1>3, <2>3, Zenon DEF ReadSeq, d, num
<1>9. \A x \in Int : FECNextExpectedPacketNum
                + Signed((x - (FECNextExpectedPacketNum % SeqRange)) % SeqRange, SeqRange)
             \in Int
  BY <1>1, SMT DEF Signed
<1> QED
  BY <1>8, <1>9, Zenon DEF Unwrapped

(* Every action of the receiver accepts one datagram. *)
LEMMA ReceiverKeeps ==
    ASSUME IInv, ReceiveReordered \/ ReceiveReliable \/ ReceiveUnnumbered
    PROVE  IInv'
<1>1. Shape /\ misfiled \in BOOLEAN /\ FECNextExpectedPacketNum \in Nat
      /\ IsFiniteSet(have) /\ have \subseteq Nat
  BY Zenon DEF IInv, Shape
<1>2. IsFiniteSet({}) /\ \A p \in Nat : IsFiniteSet({p})
  BY FS_EmptySet, FS_Singleton, Zenon
<1>3. CASE ReceiveReordered
  <2>1. PICK n \in DOMAIN sent : Strike(n)
    BY <1>3, Zenon DEF ReceiveReordered
  <2>2. UNCHANGED receiverOnly /\ UNCHANGED <<have, FECNextExpectedPacketNum, misfiled>>
    BY <1>3, Zenon DEF ReceiveReordered
  <2>3. Filed({})
    <3>1. FECNextExpectedPacketNum <= FECNextExpectedPacketNum
          /\ \A p \in Nat : ~(FECNextExpectedPacketNum <= p /\ p < FECNextExpectedPacketNum)
      BY <1>1, SMT
    <3> QED
      BY <1>1, <2>2, <3>1, Zenon DEF Filed
  <2>4. Brought(n, {}) /\ {} \subseteq Nat
    BY Zenon DEF Brought
  <2> QED
    BY <1>1, <2>1, <2>2, <2>3, <2>4, AcceptKeeps, Zenon
<1>4. CASE ReceiveReliable
  <2>1. PICK n \in DOMAIN sent :
           /\ sent[n].seqBytes > 0 /\ Strike(n)
           /\ LET p == Unwrapped(ReadSeq(n))
              IN  /\ Decode(IF p >= FECNextExpectedPacketNum THEN {p} ELSE {})
                  /\ misfiled' = (misfiled
                         \/ (p >= FECNextExpectedPacketNum /\ p # sent[n].seq))
    BY <1>4, Zenon DEF ReceiveReliable
  <2>2. UNCHANGED receiverOnly
    BY <1>4, Zenon DEF ReceiveReliable
  <2> DEFINE p == Unwrapped(ReadSeq(n))
  <2> DEFINE got == IF p >= FECNextExpectedPacketNum THEN {p} ELSE {}
  <2>3. p \in Int
    BY <1>1, <2>1, ReadIsNumber, Zenon
  <2>4. Decode(got)
        /\ misfiled' = (misfiled \/ (p >= FECNextExpectedPacketNum /\ p # sent[n].seq))
    BY <2>1, Zenon
  <2> HIDE DEF p
  <2>5. p >= FECNextExpectedPacketNum => p \in Nat
    BY <1>1, <2>3, SMT
  <2>6. got \subseteq Nat /\ IsFiniteSet(got)
    BY <1>2, <2>5, Zenon
  <2>7. ~misfiled' => ~misfiled /\ Brought(n, got)
    <3> SUFFICES ASSUME ~misfiled' PROVE ~misfiled /\ Brought(n, got)
      BY Zenon
    <3>1. ~misfiled /\ (p >= FECNextExpectedPacketNum => p = sent[n].seq)
      BY <2>4, Zenon
    <3> QED
      BY <2>1, <3>1, Zenon DEF Brought
  <2>8. misfiled' \in BOOLEAN
    BY <2>4, Zenon
  <2> HIDE DEF got
  <2>9. Filed(got) /\ IsFiniteSet(have')
    BY <1>1, <2>4, <2>6, DecodeFiles, Zenon
  <2> QED
    BY <2>1, <2>2, <2>6, <2>7, <2>8, <2>9, AcceptKeeps, Zenon
<1>5. CASE ReceiveUnnumbered
  <2>1. PICK n \in DOMAIN sent, solved \in BOOLEAN :
           /\ sent[n].seqBytes = 0 /\ Strike(n)
           /\ Decode(IF solved
                     THEN FECNextExpectedPacketNum .. sent[n].upto - 1 ELSE {})
    BY <1>5, Zenon DEF ReceiveUnnumbered
  <2>2. UNCHANGED receiverOnly /\ misfiled' = misfiled
    BY <1>5, Zenon DEF ReceiveUnnumbered
  <2> DEFINE run == FECNextExpectedPacketNum .. sent[n].upto - 1
  <2> DEFINE got == IF solved THEN run ELSE {}
  <2>3. sent[n].upto \in Nat
    BY <1>1, DatagramIs, Zenon
  <2>4. run \subseteq Nat /\ \A p \in run : p < sent[n].upto
    BY <1>1, <2>3, SMT
  <2>5. IsFiniteSet(run)
    <3>1. FECNextExpectedPacketNum \in Int /\ sent[n].upto - 1 \in Int
      BY <1>1, <2>3, SMT
    <3> QED
      BY <3>1, FS_Interval, Zenon
  <2> HIDE DEF run
  <2>6. got \subseteq Nat /\ IsFiniteSet(got) /\ \A p \in got : p < sent[n].upto
    BY <1>2, <2>4, <2>5, Zenon
  <2>7. Decode(got)
    BY <2>1, Zenon DEF run
  <2> HIDE DEF got
  <2>8. Brought(n, got)
    BY <2>1, <2>6, Zenon DEF Brought
  <2>9. Filed(got) /\ IsFiniteSet(have')
    BY <1>1, <2>6, <2>7, DecodeFiles, Zenon
  <2> QED
    BY <1>1, <2>1, <2>2, <2>6, <2>8, <2>9, AcceptKeeps, Zenon
<1> QED
  BY <1>3, <1>4, <1>5, Zenon
-----------------------------------------------------------------------------
(* What comes back *)

(* The nonce an answer carries is read as the one that was sent. *)
LEMMA RecoveredIs ==
    ASSUME Shape, Counted, Answers, NEW f \in feedback
    PROVE  /\ Recovered(f) \in First .. NextNonce
           /\ Recovered(f) <= LargestSequence + 1
<1>1. PICK x \in First .. NextNonce :
         f.next = Truncate(x, FieldRange(3)) /\ x <= LargestSequence + 1
  BY Zenon DEF Answers, AnswerOK
<1>2. /\ Sent \in Nat /\ First \in Nat /\ First + Sent = NextNonce
      /\ MaxDatagrams \in Nat /\ Half3 \in Nat /\ MaxDatagrams < Half3
      /\ NextNonce < NonceRange - Half3 /\ NonceRange \in Nat
      /\ Sent <= MaxDatagrams /\ PeerNextExpectedNonce \in Nat
      /\ First <= PeerNextExpectedNonce /\ PeerNextExpectedNonce <= NextNonce
      /\ NextNonce \in Nat
  BY CountsAre, Zenon DEF Counted, Shape
<1>3. Half(3) = Half3 /\ 3 \in 1 .. 3
  BY SMT DEF Half
<1>4. /\ x \in Nat /\ PeerNextExpectedNonce < NonceRange /\ x < NonceRange
      /\ x - PeerNextExpectedNonce >= -Half(3) /\ x - PeerNextExpectedNonce < Half(3)
  BY <1>2, <1>3, SMT
<1>5. ExpandFromTruncated(PeerNextExpectedNonce, Truncate(x, FieldRange(3)),
                          FieldRange(3), NonceRange) = x
  BY <1>2, <1>3, <1>4, NonceReads, Zenon
<1> QED
  BY <1>1, <1>5, Zenon DEF Recovered

(* An acknowledgement only shrinks the window. *)
LEMMA NoFurther ==
    ASSUME NEW t \in Nat, NEW p \in Nat, NEW q \in Nat, NEW w \in Nat,
           t - p <= w, p <= q
    PROVE  t - q <= w
OBVIOUS

(* An answer taken off the network leaves the sender's knowledge behind     *)
(* the receiver.                                                            *)
LEMMA AnswerKeeps ==
    ASSUME IInv, NEW f \in feedback, feedback' = feedback \ {f},
           UNCHANGED senderOnly,
           \/ PeerNextExpectedNonce' = PeerNextExpectedNonce
           \/ PeerNextExpectedNonce' = Recovered(f),
           \/ UNCHANGED <<PeerNextExpectedSeqNum, NextAcceptableNonce>>
           \/ /\ f.nonce >= NextAcceptableNonce /\ NextAcceptableNonce' = f.nonce + 1
              /\ \/ PeerNextExpectedSeqNum' = PeerNextExpectedSeqNum
                 \/ PeerNextExpectedSeqNum' = f.seq
    PROVE  IInv'
<1>1. Shape /\ Counted /\ Answers /\ (\A n \in DOMAIN sent : Close(n))
      /\ (~misfiled => Numbers)
  BY Zenon DEF IInv
<1>2. /\ NextNonce' = NextNonce /\ NextSequenceNumber' = NextSequenceNumber
      /\ sent' = sent /\ NextFeedback' = NextFeedback /\ struck' = struck
      /\ LargestSequence' = LargestSequence /\ have' = have
      /\ FECNextExpectedPacketNum' = FECNextExpectedPacketNum
      /\ misfiled' = misfiled
  BY Zenon DEF senderOnly, receiver
<1>3. First' = First /\ Sent' = Sent
  BY <1>2, Zenon DEF First, Sent
<1>4. /\ NextNonce \in Nat /\ First \in Nat /\ LargestSequence \in Nat
      /\ PeerNextExpectedSeqNum \in Nat /\ NextSequenceNumber \in Nat
      /\ FECNextExpectedPacketNum \in Nat /\ NextAcceptableNonce \in Nat
      /\ PeerNextExpectedNonce \in Nat
  BY <1>1, CountsAre, Zenon DEF Shape
<1>5. AnswerOK(f)
  BY <1>1, Zenon DEF Answers
<1>6. f.nonce \in Nat /\ f.seq \in Nat /\ f.seq <= FECNextExpectedPacketNum
      /\ (f.nonce >= NextAcceptableNonce => PeerNextExpectedSeqNum <= f.seq)
  BY <1>5, Zenon DEF AnswerOK
<1>7. Recovered(f) \in First .. NextNonce /\ Recovered(f) <= LargestSequence + 1
  BY <1>1, RecoveredIs, Zenon
<1>8. /\ PeerNextExpectedNonce' \in Nat /\ First <= PeerNextExpectedNonce'
      /\ PeerNextExpectedNonce' <= NextNonce
      /\ PeerNextExpectedNonce' <= LargestSequence + 1
  <2>1. /\ First <= PeerNextExpectedNonce /\ PeerNextExpectedNonce <= NextNonce
        /\ PeerNextExpectedNonce <= LargestSequence + 1
    BY <1>1, Zenon DEF Counted
  <2>2. /\ Recovered(f) \in Nat /\ First <= Recovered(f) /\ Recovered(f) <= NextNonce
    BY <1>4, <1>7, SMT
  <2> QED
    BY <1>4, <1>7, <2>1, <2>2, Zenon
<1>9. /\ PeerNextExpectedSeqNum' \in Nat /\ NextAcceptableNonce' \in Nat
      /\ NextAcceptableNonce <= NextAcceptableNonce'
      /\ PeerNextExpectedSeqNum' <= FECNextExpectedPacketNum
      /\ PeerNextExpectedSeqNum <= PeerNextExpectedSeqNum'
  <2>1. PeerNextExpectedSeqNum <= FECNextExpectedPacketNum
    BY <1>1, Zenon DEF Answers
  <2> QED
    BY <1>4, <1>6, <2>1, SMT
<1>10. Shape'
  BY <1>1, <1>2, <1>8, <1>9, Zenon DEF Shape
<1>11. Counted'
  BY <1>1, <1>2, <1>3, <1>8, Zenon DEF Counted
<1>12. Answers'
  <2>1. NextSequenceNumber' - PeerNextExpectedSeqNum' <= Window
    <3>1. Window \in Nat /\ NextSequenceNumber - PeerNextExpectedSeqNum <= Window
      BY <1>1, FieldAssumption, Zenon DEF Answers
    <3> QED
      BY <1>2, <1>4, <1>9, <3>1, NoFurther, Zenon
  <2>2. ASSUME NEW g \in feedback' PROVE AnswerOK(g)'
    <3>1. AnswerOK(g) /\ g \in feedback
      BY <1>1, Zenon DEF Answers
    <3>2. g.nonce \in Nat /\ g.seq \in Nat
          /\ (g.nonce >= NextAcceptableNonce => PeerNextExpectedSeqNum <= g.seq)
      BY <3>1, Zenon DEF AnswerOK
    <3>3. f.nonce <= g.nonce => f.seq <= g.seq
      BY <1>1, <3>1, Zenon DEF Answers
    <3>4. g.nonce >= NextAcceptableNonce' => PeerNextExpectedSeqNum' <= g.seq
      BY <1>4, <1>6, <3>2, <3>3, SMT
    <3> QED
      BY <1>2, <1>3, <3>1, <3>4, Zenon DEF AnswerOK
  <2>3. \A g, h \in feedback' : g.nonce <= h.nonce => g.seq <= h.seq
    BY <1>1, Zenon DEF Answers
  <2> QED
    BY <1>2, <1>9, <2>1, <2>2, <2>3, Zenon DEF Answers
<1>13. \A n \in DOMAIN sent' : Close(n)'
  BY <1>1, <1>2, Zenon DEF Close
<1>14. ~misfiled' => Numbers'
  BY <1>1, <1>2, Zenon DEF Numbers, NumberOK, Ordered, Step, Below, Bound, Behind,
                          HasIt, Repeated
<1> QED
  BY <1>10, <1>11, <1>12, <1>13, <1>14, Zenon DEF IInv

(* The receiver answers with where it is. *)
LEMMA PostKeeps ==
    ASSUME IInv, NEW isAck, PostFeedback(isAck)
    PROVE  IInv'
<1>1. Shape /\ Counted /\ Answers /\ (\A n \in DOMAIN sent : Close(n))
      /\ (~misfiled => Numbers)
  BY Zenon DEF IInv
<1> DEFINE g == [nonce |-> NextFeedback, isAck |-> isAck,
                 next |-> GetNextExpectedNonce24,
                 seq |-> FECNextExpectedPacketNum]
<1>2. /\ NextNonce' = NextNonce /\ NextSequenceNumber' = NextSequenceNumber
      /\ sent' = sent /\ struck' = struck
      /\ LargestSequence' = LargestSequence /\ have' = have
      /\ FECNextExpectedPacketNum' = FECNextExpectedPacketNum
      /\ misfiled' = misfiled /\ PeerNextExpectedNonce' = PeerNextExpectedNonce
      /\ PeerNextExpectedSeqNum' = PeerNextExpectedSeqNum
      /\ NextAcceptableNonce' = NextAcceptableNonce
      /\ NextFeedback' = NextFeedback + 1 /\ NextNonce > 0
  BY Zenon DEF PostFeedback, receiver, acked
<1>3. feedback' = feedback \cup {g}
  BY Zenon DEF PostFeedback
<1>4. g.nonce = NextFeedback /\ g.seq = FECNextExpectedPacketNum
      /\ g.next = Truncate(LargestSequence + 1, FieldRange(3))
  BY Zenon DEF GetNextExpectedNonce24
<1>5. PICK new : new = g
  BY Zenon
<1> HIDE DEF g
<1>6. First' = First /\ Sent' = Sent
  BY <1>2, Zenon DEF First, Sent
<1>7. /\ NextNonce \in Nat /\ First \in Nat /\ LargestSequence \in Nat
      /\ PeerNextExpectedSeqNum \in Nat /\ NextFeedback \in Nat
      /\ FECNextExpectedPacketNum \in Nat
      /\ PeerNextExpectedSeqNum <= FECNextExpectedPacketNum
  BY <1>1, CountsAre, Zenon DEF Shape, Answers
<1>8. NextFeedback' \in Nat /\ NextFeedback < NextFeedback'
  BY <1>2, <1>7, SMT
<1>9. Shape'
  BY <1>1, <1>2, <1>8, Zenon DEF Shape
<1>10. Counted'
  BY <1>1, <1>2, <1>6, Zenon DEF Counted
<1>11. AnswerOK(new)'
  <2>1. LargestSequence + 1 \in First .. NextNonce
        /\ LargestSequence + 1 <= LargestSequence + 1
    BY <1>1, <1>2, <1>7, SMT DEF Counted
  <2>2. FECNextExpectedPacketNum <= FECNextExpectedPacketNum
    BY <1>7, SMT
  <2> QED
    BY <1>2, <1>4, <1>5, <1>6, <1>7, <1>8, <2>1, <2>2, Zenon DEF AnswerOK
<1>12. ASSUME NEW f \in feedback
       PROVE  AnswerOK(f)' /\ f.nonce \in Nat /\ f.nonce < NextFeedback
              /\ f.seq \in Nat /\ f.seq <= FECNextExpectedPacketNum
  <2>1. AnswerOK(f)
    BY <1>1, Zenon DEF Answers
  <2>2. \A x \in Nat : x < NextFeedback => x < NextFeedback'
    BY <1>2, <1>7, SMT
  <2> QED
    BY <1>2, <1>6, <2>1, <2>2, Zenon DEF AnswerOK
<1>13. ASSUME NEW f \in feedback', NEW h \in feedback', f.nonce <= h.nonce
       PROVE  f.seq <= h.seq
  <2>1. CASE f \in feedback /\ h \in feedback
    BY <1>1, <1>13, <2>1, Zenon DEF Answers
  <2>2. CASE h = new
    <3>1. f \in feedback => f.seq <= FECNextExpectedPacketNum
      BY <1>12, Zenon
    <3>2. FECNextExpectedPacketNum <= FECNextExpectedPacketNum
      BY <1>7, SMT
    <3> QED
      BY <1>3, <1>4, <1>5, <2>2, <3>1, <3>2, Zenon
  <2>3. CASE f = new /\ h \in feedback
    <3>1. h.nonce \in Nat /\ h.nonce < NextFeedback
      BY <1>12, <2>3, Zenon
    <3>2. NextFeedback <= h.nonce
      BY <1>4, <1>5, <1>13, <2>3, Zenon
    <3> QED
      BY <1>7, <3>1, <3>2, SMT
  <2> QED
    BY <1>3, <1>5, <2>1, <2>2, <2>3, Zenon
<1>14. Answers'
  BY <1>1, <1>2, <1>3, <1>5, <1>11, <1>12, <1>13, Zenon DEF Answers
<1>15. \A n \in DOMAIN sent' : Close(n)'
  BY <1>1, <1>2, Zenon DEF Close
<1>16. ~misfiled' => Numbers'
  BY <1>1, <1>2, Zenon DEF Numbers, NumberOK, Ordered, Step, Below, Bound, Behind,
                          HasIt, Repeated
<1> QED
  BY <1>9, <1>10, <1>14, <1>15, <1>16, Zenon DEF IInv
-----------------------------------------------------------------------------
(* Every step keeps the numbers within reach. *)
LEMMA NextIInv == IInv /\ [Next]_vars => IInv'
<1> SUFFICES ASSUME IInv, [Next]_vars PROVE IInv'
  BY Zenon
<1>1. CASE UNCHANGED vars \/ DisableSequenceNumberCompress \/ ReceiveBogon
  <2>1. /\ NextNonce' = NextNonce /\ NextSequenceNumber' = NextSequenceNumber
        /\ sent' = sent /\ NextFeedback' = NextFeedback /\ struck' = struck
        /\ LargestSequence' = LargestSequence /\ have' = have
        /\ FECNextExpectedPacketNum' = FECNextExpectedPacketNum
        /\ misfiled' = misfiled /\ PeerNextExpectedNonce' = PeerNextExpectedNonce
        /\ PeerNextExpectedSeqNum' = PeerNextExpectedSeqNum
        /\ NextAcceptableNonce' = NextAcceptableNonce
        /\ feedback' = feedback
    BY <1>1, Zenon DEF vars, DisableSequenceNumberCompress, ReceiveBogon, acked, receiver
  <2>2. First' = First /\ Sent' = Sent
    BY <2>1, Zenon DEF First, Sent
  <2>3. Shape /\ Counted /\ Answers /\ (\A n \in DOMAIN sent : Close(n))
        /\ (~misfiled => Numbers)
    BY Zenon DEF IInv
  <2>4. Shape' /\ Counted'
    BY <2>1, <2>2, <2>3, Zenon DEF Shape, Counted
  <2>5. Answers'
    BY <2>1, <2>2, <2>3, Zenon DEF Answers, AnswerOK
  <2>6. (\A n \in DOMAIN sent' : Close(n)') /\ (~misfiled' => Numbers')
    BY <2>1, <2>3, Zenon DEF Close, Numbers, NumberOK, Ordered, Step, Below, Bound,
                            Behind, HasIt, Repeated
  <2> QED
    BY <2>4, <2>5, <2>6, Zenon DEF IInv
<1>2. CASE SendQueuedReliable \/ PostRetransmit \/ SendUnnumbered
  BY <1>2, SenderKeeps, Zenon
<1>3. CASE ReceiveReordered \/ ReceiveReliable \/ ReceiveUnnumbered
  BY <1>3, ReceiverKeeps, Zenon
<1>4. CASE PostAcknowledgements \/ OnTimeSyncSendTimer
  BY <1>4, PostKeeps, Zenon DEF PostAcknowledgements, OnTimeSyncSendTimer
<1>5. ASSUME NEW f \in feedback, OnAcknowledgements(f) PROVE IInv'
  <2>1. feedback' = feedback \ {f} /\ UNCHANGED senderOnly
    BY <1>5, Zenon DEF OnAcknowledgements
  <2>2. CASE f.nonce < NextAcceptableNonce
    <3>1. UNCHANGED <<PeerNextExpectedNonce, PeerNextExpectedSeqNum, NextAcceptableNonce>>
      BY <1>5, <2>2, Zenon DEF OnAcknowledgements, acked
    <3> QED
      BY <1>5, <2>1, <3>1, AnswerKeeps, Zenon
  <2>3. CASE ~(f.nonce < NextAcceptableNonce)
    <3>1. f.nonce \in Nat /\ NextAcceptableNonce \in Nat
      BY <1>5, Zenon DEF IInv, Answers, AnswerOK, Shape
    <3>2. f.nonce >= NextAcceptableNonce
      BY <2>3, <3>1, SMT
    <3>3. NextAcceptableNonce' = f.nonce + 1
      BY <1>5, <2>3, Zenon DEF OnAcknowledgements
    <3>4. \/ UNCHANGED <<PeerNextExpectedNonce, PeerNextExpectedSeqNum>>
          \/ PeerNextExpectedNonce' = Recovered(f) /\ PeerNextExpectedSeqNum' = f.seq
      BY <1>5, <2>3, Zenon DEF OnAcknowledgements
    <3> QED
      BY <1>5, <2>1, <3>2, <3>3, <3>4, AnswerKeeps, Zenon
  <2> QED
    BY <2>2, <2>3, Zenon
<1>6. ASSUME NEW f \in feedback, OnTimeSync(f) PROVE IInv'
  <2>1. feedback' = feedback \ {f} /\ UNCHANGED senderOnly
        /\ UNCHANGED <<PeerNextExpectedSeqNum, NextAcceptableNonce>>
    BY <1>6, Zenon DEF OnTimeSync
  <2>2. \/ PeerNextExpectedNonce' = PeerNextExpectedNonce
        \/ PeerNextExpectedNonce' = Recovered(f)
    BY <1>6, Zenon DEF OnTimeSync
  <2> QED
    BY <1>6, <2>1, <2>2, AnswerKeeps, Zenon
<1> QED
  BY <1>1, <1>2, <1>3, <1>4, <1>5, <1>6, Zenon DEF Next

(* The invariant of the numbers. *)
LEMMA NumbersInvariance == Spec => []IInv
<1>1. Init => IInv
  BY InitIInv, Zenon
<1>2. IInv /\ [Next]_vars => IInv'
  BY NextIInv, Zenon
<1> QED
  BY <1>1, <1>2, PTL DEF Spec

(* A datagram in flight can be read: its nonce when it is newer than every  *)
(* one accepted, its packet number when that is near enough.                *)
LEMMA NewestNonceReads ==
    ASSUME IInv, NEW n \in DOMAIN sent, n >= LargestSequence,
           sent[n].nonceBytes > 0
    PROVE  ReadNonce(n) = n
<1> DEFINE b == sent[n].nonceBytes
<1>1. Shape /\ Counted /\ Close(n)
  BY Zenon DEF IInv
<1>2. n \in Nat /\ n < NextNonce /\ b \in 0 .. 3 /\ LargestSequence \in Nat
      /\ NextNonce \in Nat
  BY <1>1, DatagramIs, Zenon DEF Shape
<1>3. /\ Sent \in Nat /\ First \in Nat /\ First + Sent = NextNonce
      /\ MaxDatagrams \in Nat /\ Half3 \in Nat /\ MaxDatagrams < Half3
      /\ NextNonce < NonceRange - Half3 /\ NonceRange \in Nat
      /\ Sent <= MaxDatagrams /\ First <= LargestSequence + 1
      /\ LargestSequence <= NextNonce
  BY <1>1, CountsAre, Zenon DEF Counted
<1>4. b \in 1 .. 3
  BY <1>2, SMT
<1>5. n - LargestSequence < Half(b)
  <2>1. (b = 1 => n - LargestSequence < Half1) /\ (b = 2 => n - LargestSequence < Half2)
    BY <1>1, Zenon DEF Close
  <2> HIDE DEF b
  <2>2. n - LargestSequence < Half3
    BY <1>2, <1>3, SMT
  <2> QED
    BY <1>4, <2>1, <2>2, Zenon DEF Half
<1>6. Half(b) \in Nat
  BY <1>4, HalfIs, Zenon
<1>7. LargestSequence < NonceRange /\ n < NonceRange /\ n - LargestSequence >= -Half(b)
  BY <1>2, <1>3, <1>6, SMT
<1>8. ExpandFromTruncated(LargestSequence, Truncate(n, FieldRange(b)), FieldRange(b),
                          NonceRange) = n
  BY <1>2, <1>4, <1>5, <1>7, NonceReads, Zenon
<1>9. b # 0
  BY <1>4, SMT
<1> QED
  BY <1>8, <1>9, Zenon DEF ReadNonce

(* A packet number that is near enough expands to itself. *)
LEMMA NearNumberReads ==
    ASSUME IInv, ~misfiled, NEW n \in DOMAIN sent, sent[n].seqBytes > 0,
           sent[n].seqBytes \in {1, 2} =>
              FECNextExpectedPacketNum - sent[n].seq <= Half(sent[n].seqBytes)
    PROVE  ReadSeq(n) = sent[n].seq % SeqRange
<1> DEFINE b == sent[n].seqBytes
<1>1. Shape /\ NumberOK(n)
  BY Zenon DEF IInv, Numbers
<1>2. b \in 0 .. 3 /\ FECNextExpectedPacketNum \in Nat
  BY <1>1, DatagramIs, Zenon DEF Shape
<1>3. sent[n].seq \in Nat
      /\ (b \in {1, 2} => sent[n].seq - FECNextExpectedPacketNum < Half(b))
  BY <1>1, Zenon DEF NumberOK
<1>4. b = 3 \/ b \in {1, 2}
  BY <1>2, SMT
<1>5. CASE b = 3
  BY <1>5, Zenon DEF ReadSeq
<1>6. CASE b \in {1, 2}
  <2>1. Half(b) \in Nat
    BY <1>6, FieldAssumption, Zenon DEF Half
  <2>2. sent[n].seq - FECNextExpectedPacketNum >= -Half(b)
    BY <1>2, <1>3, <1>6, <2>1, SMT
  <2>3. ExpandFromTruncated(FECNextExpectedPacketNum % SeqRange,
             Truncate(sent[n].seq % SeqRange, FieldRange(b)), FieldRange(b), SeqRange)
          = sent[n].seq % SeqRange
    BY <1>2, <1>3, <1>6, <2>2, SeqReads, Zenon
  <2>4. b # 3
    BY <1>6, SMT
  <2> QED
    BY <2>3, <2>4, Zenon DEF ReadSeq
<1> QED
  BY <1>4, <1>5, <1>6, Zenon

(* Nothing sent after the newest datagram has arrived. *)
LEMMA NewestNumberReads ==
    ASSUME IInv, ~misfiled, NEW n \in DOMAIN sent, n >= LargestSequence,
           sent[n].seqBytes > 0
    PROVE  ReadSeq(n) = sent[n].seq % SeqRange
<1> DEFINE b == sent[n].seqBytes
<1>1. Shape /\ NumberOK(n) /\ Below(Bound(n))
  BY Zenon DEF IInv, Numbers
<1>2. n \in Nat /\ sent[n].upto \in Nat /\ FECNextExpectedPacketNum \in Nat
      /\ LargestSequence \in Nat
  BY <1>1, DatagramIs, Zenon DEF Shape
<1>3. FECNextExpectedPacketNum <= sent[n].upto
  <2>1. Behind(n) = 0
    BY <1>2, SMT DEF Behind
  <2>2. FECNextExpectedPacketNum <= sent[n].upto + 0
    BY <1>1, <2>1, Zenon DEF Below, Bound
  <2> QED
    BY <1>2, <2>2, SMT
<1>4. sent[n].seq \in Nat /\ (b \in {1, 2} => sent[n].upto - sent[n].seq <= Half(b))
  BY <1>1, Zenon DEF NumberOK
<1>5. ASSUME b \in {1, 2} PROVE FECNextExpectedPacketNum - sent[n].seq <= Half(b)
  <2>1. Half(b) \in Nat
    BY <1>5, FieldAssumption, Zenon DEF Half
  <2> HIDE DEF b
  <2> QED
    BY <1>2, <1>3, <1>4, <1>5, <2>1, SMT
<1> QED
  BY <1>5, NearNumberReads, Zenon
(* A first transmission that is late and is not refused: the packets that   *)
(* came between are no more than the nonces, and one less when the packet   *)
(* is there already, because it then came in a datagram of its own.         *)
LEMMA LateNumberReads ==
    ASSUME IInv, ~misfiled, NEW n \in DOMAIN sent, n < LargestSequence,
           sent[n].first, Authentic(n), ~IgnoredReordered(n)
    PROVE  ReadSeq(n) = sent[n].seq % SeqRange
<1> DEFINE b == sent[n].seqBytes
<1> DEFINE c == sent[n].nonceBytes
<1>1. Shape /\ Counted /\ Numbers
  BY Zenon DEF IInv
<1>2. NumberOK(n)
  BY <1>1, Zenon DEF Numbers
<1>3. b > 0 /\ sent[n].upto = sent[n].seq + 1
  BY <1>2, Zenon DEF NumberOK
<1>4. sent[n].seq \in Nat
  BY <1>2, <1>3, Zenon DEF NumberOK
<1>5. /\ n \in Nat /\ n < NextNonce /\ b \in 0 .. 3 /\ c \in 0 .. 3
      /\ LargestSequence \in Nat /\ NextNonce \in Nat
      /\ FECNextExpectedPacketNum \in Nat
  BY <1>1, DatagramIs, Zenon DEF Shape
<1>6. /\ Half3 \in Nat /\ NextNonce < NonceRange - Half3 /\ NonceRange \in Nat
      /\ LargestSequence <= NextNonce
  BY <1>1, CountsAre, Zenon
<1>7. c <= b
  <2>1. LargestAfter(n) + 1 > n + 1
    BY <1>5, SMT DEF LargestAfter
  <2>2. ~(b < c)
    BY <1>3, <2>1, Zenon DEF IgnoredReordered
  <2> HIDE DEF b, c
  <2> QED
    BY <1>5, <2>2, SMT
<1>8. c # 0
  <2> SUFFICES ASSUME c = 0 PROVE FALSE
    BY Zenon
  <2>1. LargestSequence + 1 = n
    BY Zenon DEF Authentic, ReadNonce
  <2> QED
    BY <1>5, <2>1, SMT
<1>9. c \in 1 .. 3
  BY <1>5, <1>8, SMT
<1>10. LargestSequence - n <= Half(c)
  <2>1. n = ExpandFromTruncated(LargestSequence, Truncate(n, FieldRange(c)),
                                FieldRange(c), NonceRange)
    BY <1>8, Zenon DEF Authentic, ReadNonce
  <2>2. Truncate(n, FieldRange(c)) \in Int
    <3>1. FieldRange(c) \in Nat \ {0}
      BY FieldAssumption, SMT DEF FieldRange
    <3>2. \A s \in Nat \ {0} : n % s \in Int
      BY <1>5, SMT
    <3> QED
      BY <3>1, <3>2, Zenon DEF Truncate
  <2>3. LargestSequence < NonceRange - Half3 /\ n < NonceRange - Half3
    BY <1>5, <1>6, SMT
  <2> QED
    BY <1>5, <1>9, <2>1, <2>2, <2>3, ExpandNear, Zenon
<1>11. FECNextExpectedPacketNum <= sent[n].seq
       \/ FECNextExpectedPacketNum <= sent[n].seq + (LargestSequence - n)
  <2>1. CASE HasIt(n)
    <3>1. Repeated(n)
      BY <1>1, <2>1, Zenon DEF Numbers
    <3>2. FECNextExpectedPacketNum <= Bound(n) - 1
      BY <3>1, Zenon DEF Repeated, Below
    <3>3. Bound(n) = sent[n].upto + (LargestSequence - n)
      BY Zenon DEF Bound, Behind
    <3> QED
      BY <1>3, <1>4, <1>5, <3>2, <3>3, SMT
  <2>2. CASE ~HasIt(n)
    <3>1. ~(sent[n].seq < FECNextExpectedPacketNum)
      BY <2>2, Zenon DEF HasIt
    <3> QED
      BY <1>4, <1>5, <3>1, SMT
  <2> QED
    BY <2>1, <2>2, Zenon
<1>12. ASSUME b \in {1, 2} PROVE FECNextExpectedPacketNum - sent[n].seq <= Half(b)
  <2> HIDE DEF b, c
  <2>1. Half(b) \in Nat /\ Half(c) \in Nat /\ Half(c) <= Half(b)
    BY <1>7, <1>9, <1>12, FieldAssumption, SMT DEF Half
  <2> QED
    BY <1>4, <1>5, <1>10, <1>11, <2>1, SMT
<1> QED
  BY <1>3, <1>12, NearNumberReads, Zenon

-----------------------------------------------------------------------------
(* A datagram newer than every one accepted expands to its own nonce and    *)
(* packet number, for any field widths, window and history of losses,       *)
(* duplicates and reordering (writeNonce, getPacketNumBytes,                *)
(* StrikeRegister::Expand, ProcessDatagram).                                *)
THEOREM NewestAlwaysDecodes == Spec => []NewestDecodes
<1>1. IInv => NewestDecodes
  <2> SUFFICES ASSUME IInv, NEW n \in DOMAIN sent, Newest(n)
               PROVE  /\ sent[n].nonceBytes > 0 => ReadNonce(n) = n
                      /\ sent[n].seqBytes > 0 /\ ~misfiled
                            => ReadSeq(n) = sent[n].seq % SeqRange
    BY Zenon DEF NewestDecodes
  <2>1. n >= LargestSequence
    BY Zenon DEF Newest
  <2> QED
    BY <2>1, NewestNonceReads, NewestNumberReads, Zenon
<1> QED
  BY <1>1, NumbersInvariance, PTL

(* However late the first datagram of a packet arrives, it is refused or    *)
(* expands to its own packet number: the refusal of late datagrams with     *)
(* fewer packet number than nonce bytes is enough (ProcessDatagram,         *)
(* "Ignored re-ordered").                                                   *)
THEOREM FirstTransmissionAlwaysDecodes == Spec => []FirstTransmissionDecodes
<1>1. IInv => FirstTransmissionDecodes
  <2> SUFFICES ASSUME IInv, ~misfiled, NEW n \in DOMAIN sent, sent[n].first,
                      Authentic(n), ~IgnoredReordered(n)
               PROVE  ReadSeq(n) = sent[n].seq % SeqRange
    BY Zenon DEF FirstTransmissionDecodes
  <2>1. n \in Nat /\ LargestSequence \in Nat
    BY Zenon DEF IInv, Shape
  <2>2. CASE n < LargestSequence
    BY <2>2, LateNumberReads, Zenon
  <2>3. CASE ~(n < LargestSequence)
    <3>1. n >= LargestSequence
      BY <2>1, <2>3, SMT
    <3>2. sent[n].seqBytes > 0
      BY Zenon DEF IInv, Numbers, NumberOK
    <3> QED
      BY <3>1, <3>2, NewestNumberReads, Zenon
  <2> QED
    BY <2>2, <2>3, Zenon
<1> QED
  BY <1>1, NumbersInvariance, PTL

(* The sender never believes the receiver further than it is: the negative  *)
(* difference that writeNonce() marks "Should never happen" does not.       *)
THEOREM PeerIsNeverAhead == Spec => []PeerNeverAhead
<1>1. IInv => PeerNeverAhead
  BY Zenon DEF IInv, Counted, Answers, PeerNeverAhead
<1> QED
  BY <1>1, NumbersInvariance, PTL
=============================================================================
