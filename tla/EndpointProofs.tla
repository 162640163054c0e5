--------------------------- MODULE EndpointProofs ---------------------------
(***************************************************************************)
(* What a session and its sockets promise, for every value of the          *)
(* constants.                                                              *)
(*                                                                         *)
(* Nonces: the inductive invariant is TypeOK /\ WindowExact: the bits of   *)
(* the ring are exactly the accepted nonces that the window covers.        *)
(*                                                                         *)
(* Cookies: CookieIInv.  A cookie whose key is no longer the newest was    *)
(* sent before that key was replaced, so the other key has to age a whole  *)
(* interval before its own key is overwritten.                             *)
(*                                                                         *)
(* Sessions, for any number of probe sockets, connections, queued tasks    *)
(* and sends: the reference count is the number of operations that hold    *)
(* one, nothing is left to run when Shutdown() has stopped the workers,    *)
(* and no socket is opened once it has closed them.  SessionRefsExact is   *)
(* not inductive alone: a probe socket is counted once because none reads  *)
(* before P2PSocketsInitialized, and no request opens one while draining   *)
(* because AppRelease() has latched the shutdown (Stages).                 *)
(***************************************************************************)
EXTENDS StrikeRegister, FloodDetector, Session, FiniteSetTheorems, TLAPS

-----------------------------------------------------------------------------
(* Nonces *)

(* A remainder lies below its divisor. *)
LEMMA ModRange ==
    ASSUME NEW b \in Nat \ {0}, NEW a \in Int
    PROVE  a % b \in 0 .. b - 1
OBVIOUS

(* A quotient, times its divisor, is the dividend less the remainder. *)
LEMMA DivBounds ==
    ASSUME NEW w \in Nat \ {0}, NEW a \in Nat
    PROVE  /\ a \div w \in Nat
           /\ (a \div w) * w <= a
           /\ a < (a \div w) * w + w
OBVIOUS

(* Two distances inside the window have the same ring position only if      *)
(* they are the same distance.                                              *)
LEMMA RingInjective ==
    ASSUME NEW b \in Nat \ {0}, NEW r \in 0 .. b - 1,
           NEW d \in 0 .. b - 1, NEW e \in 0 .. b - 1,
           (d + r) % b = (e + r) % b
    PROVE  d = e
OBVIOUS

(* Advancing the base by s and rotating the ring by s leaves the position   *)
(* of a nonce that stays in the window where it was ...                     *)
LEMMA RotationKeeps ==
    ASSUME NEW b \in Nat \ {0}, NEW r \in 0 .. b - 1, NEW s \in 0 .. b - 1,
           NEW d \in s .. b - 1
    PROVE  (d - s + (IF r + s >= b THEN r + s - b ELSE r + s)) % b = (d + r) % b
OBVIOUS

(* ... and gives a nonce that enters it the position of the nonce one whole *)
(* window below, which leaves it.                                           *)
LEMMA RotationReuses ==
    ASSUME NEW b \in Nat \ {0}, NEW r \in 0 .. b - 1, NEW s \in 0 .. b - 1,
           NEW d \in b .. b + s - 1
    PROVE  (d - s + (IF r + s >= b THEN r + s - b ELSE r + s)) % b = (d - b + r) % b
OBVIOUS

(* The window has at least one bit. *)
LEMMA BitsPositive == Bits \in Nat \ {0}
BY WordBitsAssumption, WordCountAssumption, SMT DEF Bits

(* A slide advances by at least one bit and less than the whole window, and *)
(* just far enough for the new nonce to fit.                                *)
LEMMA SlideBounds ==
    ASSUME NEW sequence \in Nat, WindowBase \in Nat,
           sequence - WindowBase >= Bits,
           SlideWords(sequence) < WordCount
    PROVE  LET slideBits == SlideWords(sequence) * WordBits
           IN  /\ slideBits \in 1 .. Bits - 1
               /\ sequence - WindowBase \in Bits .. Bits + slideBits - 1
               /\ sequence - WindowBase - slideBits >= Bits - WordBits
<1> DEFINE over == sequence - WindowBase - Bits
           q == over \div WordBits
<1>1. over \in Nat
  BY BitsPositive
<1>2. q \in Nat /\ q * WordBits <= over /\ over < q * WordBits + WordBits
  BY <1>1, DivBounds, WordBitsAssumption, Zenon
<1>3. SlideWords(sequence) = q + 1
  BY Zenon DEF SlideWords
<1>4. (q + 1) * WordBits = q * WordBits + WordBits
  BY <1>2, WordBitsAssumption, SMT
<1>5. (q + 1) * WordBits < Bits
  <2>1. q + 1 < WordCount
    BY <1>3, Zenon
  <2> QED
    BY <1>2, <2>1, WordBitsAssumption, WordCountAssumption, SMT DEF Bits
<1>6. q * WordBits \in Nat
  BY <1>2, WordBitsAssumption, SMT
<1> HIDE DEF q
<1> QED
  BY <1>1, <1>2, <1>3, <1>4, <1>5, <1>6, BitsPositive, WordBitsAssumption

NonceIInv == TypeOK /\ WindowExact

(* The empty window of Reset(). *)
LEMMA NonceInit == Init => NonceIInv
BY BitsPositive DEF Init, NonceIInv, TypeOK, WindowExact, BitOf

(* Accept() of a nonce inside the window sets its bit and no other. *)
LEMMA StrikeInWindowIInv ==
    ASSUME NonceIInv, NEW sequence \in Nonces, Receive(sequence), StrikeInWindow(sequence)
    PROVE  NonceIInv'
<1> DEFINE d == sequence - WindowBase
<1>1. /\ sequence \in Nat /\ WindowBase \in Nat /\ WindowBitRotation \in 0 .. Bits - 1
      /\ d \in 0 .. Bits - 1
  BY NoncesAssumption, BitsPositive DEF NonceIInv, TypeOK, Receive, IsDuplicate, StrikeInWindow
<1>2. TypeOK'
  <2>1. BitOf(d) \in 0 .. Bits - 1
    BY <1>1, ModRange, BitsPositive DEF BitOf
  <2> QED
    BY <1>1, <2>1, Zenon DEF NonceIInv, TypeOK, Receive, StrikeInWindow, Larger
<1>3. \A n \in struck' : n < WindowBase' + Bits
  BY <1>1, BitsPositive DEF NonceIInv, WindowExact, Receive, StrikeInWindow
<1>4. ASSUME NEW n \in WindowBase' .. WindowBase' + Bits - 1
      PROVE  BitOf(n - WindowBase)' \in SlidingWindow' <=> n \in struck'
  <2>1. WindowBase' = WindowBase /\ WindowBitRotation' = WindowBitRotation
    BY Zenon DEF StrikeInWindow
  <2>2. n - WindowBase \in 0 .. Bits - 1
    BY <1>1, <1>4, <2>1, BitsPositive
  <2>3. BitOf(n - WindowBase)' = BitOf(n - WindowBase)
    BY <2>1, Zenon DEF BitOf
  <2>4. BitOf(n - WindowBase) \in SlidingWindow <=> n \in struck
    BY <1>4, <2>1, Zenon DEF NonceIInv, WindowExact
  <2>5. BitOf(n - WindowBase) = BitOf(d) <=> n = sequence
    <3>1. ASSUME BitOf(n - WindowBase) = BitOf(d) PROVE n - WindowBase = d
      BY <1>1, <2>2, <3>1, RingInjective, BitsPositive, Zenon DEF BitOf
    <3> QED
      BY <1>1, <1>4, <2>1, <3>1
  <2> QED
    BY <2>3, <2>4, <2>5, Zenon DEF Receive, StrikeInWindow
<1> QED
  BY <1>2, <1>3, <1>4, Zenon DEF NonceIInv, WindowExact

(* Accept() of a nonce past the window clears the bits of the words it
   reuses, and the bits of the nonces that stay keep their places.        *)
LEMMA SlideAndStrikeIInv ==
    ASSUME NonceIInv, NEW sequence \in Nonces, Receive(sequence), SlideAndStrike(sequence)
    PROVE  NonceIInv'
<1> DEFINE d == sequence - WindowBase
           s == SlideWords(sequence) * WordBits
           r == WindowBitRotation
           turned == IF r + s >= Bits THEN r + s - Bits ELSE r + s
<1>1. /\ sequence \in Nat /\ WindowBase \in Nat /\ r \in 0 .. Bits - 1
      /\ SlidingWindow \subseteq 0 .. Bits - 1 /\ struck \subseteq Nat
      /\ LargestSequence \in Nat
  BY NoncesAssumption, Zenon DEF NonceIInv, TypeOK
<1>2. s \in 1 .. Bits - 1 /\ d \in Bits .. Bits + s - 1
  BY <1>1, SlideBounds, Zenon DEF SlideAndStrike
<1>3. /\ WindowBase' = WindowBase + s
      /\ WindowBitRotation' = turned
      /\ SlidingWindow' = (SlidingWindow \ ReusedBits(s))
                            \cup {(sequence - WindowBase' + WindowBitRotation') % Bits}
      /\ LargestSequence' = Larger(sequence)
      /\ struck' = struck \cup {sequence}
  <2>1. struck' = struck \cup {sequence}
    BY DEF Receive
  <2>2. WindowBase' = WindowBase + s /\ LargestSequence' = Larger(sequence)
    BY Zenon DEF SlideAndStrike
  <2>3. WindowBitRotation' = turned
    BY <1>1, <1>2, BitsPositive DEF SlideAndStrike
  <2>4. SlidingWindow' = (SlidingWindow \ ReusedBits(s))
                           \cup {(sequence - WindowBase' + WindowBitRotation') % Bits}
    BY Zenon DEF SlideAndStrike
  <2> QED
    BY <2>1, <2>2, <2>3, <2>4, Zenon
<1> HIDE DEF s
<1>4. turned \in 0 .. Bits - 1
  BY <1>1, <1>2, BitsPositive
<1>5. sequence - WindowBase' = d - s /\ d - s \in 0 .. Bits - 1
  BY <1>1, <1>2, <1>3, BitsPositive
<1>9. SlidingWindow' = (SlidingWindow \ ReusedBits(s)) \cup {(d - s + turned) % Bits}
  <2> HIDE DEF turned, d
  <2> QED
    BY <1>3, <1>5, Zenon
<1>6. TypeOK'
  <2>1. (d - s + turned) % Bits \in 0 .. Bits - 1
    <3>1. d - s + turned \in Int
      BY <1>4, <1>5, BitsPositive
    <3> HIDE DEF turned, d
    <3> QED
      BY <3>1, ModRange, BitsPositive, Zenon
  <2>2. SlidingWindow' \subseteq 0 .. Bits - 1
    BY <1>1, <1>9, <2>1, Zenon
  <2>3. struck' \subseteq Nat /\ LargestSequence' \in Nat /\ WindowBase' \in Nat
    BY <1>1, <1>2, <1>3 DEF Larger
  <2> QED
    BY <1>3, <1>4, <2>2, <2>3, Zenon DEF TypeOK
<1>7. \A n \in struck' : n < WindowBase' + Bits
  BY <1>1, <1>2, <1>3, BitsPositive DEF NonceIInv, WindowExact
<1>8. ASSUME NEW n \in WindowBase' .. WindowBase' + Bits - 1
      PROVE  BitOf(n - WindowBase)' \in SlidingWindow' <=> n \in struck'
  <2> DEFINE e == n - WindowBase
  <2>1. n \in Nat /\ e \in s .. Bits + s - 1 /\ n - WindowBase' = e - s
    BY <1>1, <1>2, <1>3, <1>8, BitsPositive
  <2>2. BitOf(n - WindowBase)' = (e - s + turned) % Bits
    BY <1>3, <2>1, Zenon DEF BitOf
  <2>3. (e - s + turned) % Bits = (d - s + turned) % Bits <=> n = sequence
    <3>1. e - s \in 0 .. Bits - 1
      BY <1>2, <2>1, BitsPositive
    <3>2. ASSUME (e - s + turned) % Bits = (d - s + turned) % Bits PROVE e - s = d - s
      <4> HIDE DEF turned, e, d
      <4> QED
        BY <1>4, <1>5, <3>1, <3>2, RingInjective, BitsPositive, Zenon
    <3> QED
      BY <1>1, <1>2, <2>1, <3>2
  <2>4. CASE e < Bits
    <3>1. e \in s .. Bits - 1
      BY <2>1, <2>4, <1>2, BitsPositive
    <3>2. (e - s + turned) % Bits = BitOf(e)
      <4> HIDE DEF e
      <4> QED
        BY <1>1, <1>2, <3>1, RotationKeeps, BitsPositive DEF BitOf
    <3>3. BitOf(e) \notin ReusedBits(s)
      <4>1. ASSUME NEW i \in 0 .. s - 1, BitOf(e) = BitOf(i) PROVE e = i
        <5>1. i \in 0 .. Bits - 1 /\ e \in 0 .. Bits - 1
          BY <1>2, <3>1, BitsPositive
        <5> HIDE DEF e
        <5> QED
          BY <1>1, <4>1, <5>1, RingInjective, BitsPositive, Zenon DEF BitOf
      <4> QED
        BY <3>1, <4>1, <1>2 DEF ReusedBits
    <3>4. BitOf(e) \in SlidingWindow <=> n \in struck
      BY <1>1, <1>2, <2>1, <2>4, BitsPositive DEF NonceIInv, WindowExact
    <3> QED
      BY <1>3, <1>9, <2>2, <2>3, <3>2, <3>3, <3>4, Zenon
  <2>5. CASE e >= Bits
    <3>1. e \in Bits .. Bits + s - 1
      BY <2>1, <2>5, <1>2, BitsPositive
    <3>2. (e - s + turned) % Bits = BitOf(e - Bits)
      <4> HIDE DEF e
      <4> QED
        BY <1>1, <1>2, <3>1, RotationReuses, BitsPositive DEF BitOf
    <3>3. BitOf(e - Bits) \in ReusedBits(s)
      BY <3>1, <1>2, BitsPositive DEF ReusedBits
    <3>4. n \notin struck
      BY <1>1, <2>1, <2>5, BitsPositive DEF NonceIInv, WindowExact
    <3> QED
      BY <1>3, <1>9, <2>2, <2>3, <3>2, <3>3, <3>4, Zenon
  <2> QED
    BY <2>1, <2>4, <2>5, <1>2, BitsPositive
<1> QED
  BY <1>6, <1>7, <1>8, Zenon DEF NonceIInv, WindowExact

(* Accept() of a nonce far past the window restarts it with one bit. *)
LEMMA ResetAndStrikeIInv ==
    ASSUME NonceIInv, NEW sequence \in Nonces, Receive(sequence), ResetAndStrike(sequence)
    PROVE  NonceIInv'
<1>1. /\ sequence \in Nat /\ WindowBase \in Nat /\ struck \subseteq Nat
      /\ sequence >= WindowBase + Bits
  BY NoncesAssumption, BitsPositive DEF NonceIInv, TypeOK, ResetAndStrike
<1>2. /\ WindowBase' = sequence /\ WindowBitRotation' = 0 /\ LargestSequence' = sequence
      /\ SlidingWindow' = {0} /\ struck' = struck \cup {sequence}
  BY Zenon DEF ResetAndStrike, Receive
<1>3. TypeOK'
  BY <1>1, <1>2, BitsPositive DEF TypeOK
<1>4. \A n \in struck' : n <= sequence /\ (n = sequence \/ n < sequence)
  BY <1>1, <1>2, BitsPositive DEF NonceIInv, WindowExact
<1>5. ASSUME NEW n \in WindowBase' .. WindowBase' + Bits - 1
      PROVE  BitOf(n - WindowBase)' \in SlidingWindow' <=> n \in struck'
  <2>1. n \in Nat /\ n - sequence \in 0 .. Bits - 1
    BY <1>1, <1>2, <1>5, BitsPositive
  <2>2. BitOf(n - WindowBase)' = n - sequence
    BY <1>2, <2>1, BitsPositive, SMT DEF BitOf
  <2> QED
    BY <1>1, <1>2, <1>4, <2>1, <2>2
<1> QED
  BY <1>1, <1>2, <1>3, <1>4, <1>5, BitsPositive DEF NonceIInv, WindowExact

(* Every Accept() keeps the bits of the ring equal to what was struck. *)
LEMMA NonceNext == NonceIInv /\ [Next]_vars => NonceIInv'
<1> SUFFICES ASSUME NonceIInv, [Next]_vars PROVE NonceIInv'
  OBVIOUS
<1>1. CASE Next
  <2>1. PICK sequence \in Nonces : Receive(sequence)
    BY <1>1, Zenon DEF Next
  <2>2. Accept(sequence)
    BY <2>1, Zenon DEF Receive
  <2> QED
    BY <2>1, <2>2, StrikeInWindowIInv, SlideAndStrikeIInv, ResetAndStrikeIInv, Zenon DEF Accept
<1>2. CASE UNCHANGED vars
  BY <1>2, Zenon DEF vars, NonceIInv, TypeOK, WindowExact, BitOf
<1> QED
  BY <1>1, <1>2, Zenon

(* Accept() keeps every ring position inside the window and the rotation a  *)
(* whole number of words.                                                   *)
THEOREM TypeCorrect == Spec => []TypeOK
<1>1. NonceIInv => TypeOK
  BY DEF NonceIInv
<1> QED
  BY NonceInit, NonceNext, <1>1, PTL DEF Spec

(* No accepted nonce is ever accepted again: IsDuplicate() reports every    *)
(* nonce that Accept() has struck, for every word size and window size.     *)
THEOREM NeverAcceptedTwice == Spec => []StruckIsDuplicate
<1>1. NonceIInv => StruckIsDuplicate
  BY BitsPositive DEF NonceIInv, TypeOK, WindowExact, StruckIsDuplicate, IsDuplicate
<1> QED
  BY NonceInit, NonceNext, <1>1, PTL DEF Spec

(* IsDuplicate() never refuses a fresh nonce that is not older than the     *)
(* window.                                                                  *)
THEOREM FreshAccepted == Spec => []FreshIsNotDuplicate
<1>1. NonceIInv => FreshIsNotDuplicate
  BY BitsPositive, NoncesAssumption
     DEF NonceIInv, TypeOK, WindowExact, FreshIsNotDuplicate, IsDuplicate
<1> QED
  BY NonceInit, NonceNext, <1>1, PTL DEF Spec

(* A slide of the window moves its base no further than the new nonce       *)
(* needs, rounded up to a word.                                             *)
THEOREM SlideIsMinimal == Spec => SlidesNoFurtherThanNeeded
<1> DEFINE Minimal == WindowBase' # WindowBase /\ WindowBase' # LargestSequence'
                        => LargestSequence' - WindowBase' >= Bits - WordBits
<1>1. NonceIInv /\ [Next]_vars => [Minimal]_vars
  <2> SUFFICES ASSUME NonceIInv, NEW sequence \in Nonces, Receive(sequence) PROVE Minimal
    BY Zenon DEF Next
  <2>1. CASE StrikeInWindow(sequence)
    BY <2>1, Zenon DEF StrikeInWindow
  <2>2. CASE ResetAndStrike(sequence)
    BY <2>2, Zenon DEF ResetAndStrike
  <2>3. CASE SlideAndStrike(sequence)
    <3> DEFINE s == SlideWords(sequence) * WordBits
    <3>1. sequence \in Nat /\ WindowBase \in Nat /\ LargestSequence \in Nat
      BY NoncesAssumption, Zenon DEF NonceIInv, TypeOK
    <3>2. s \in 1 .. Bits - 1 /\ sequence - WindowBase - s >= Bits - WordBits
      BY <2>3, <3>1, SlideBounds, Zenon DEF SlideAndStrike
    <3>3. WindowBase' = WindowBase + s /\ LargestSequence' = Larger(sequence)
      BY <2>3, Zenon DEF SlideAndStrike
    <3> HIDE DEF s
    <3> QED
      BY <3>1, <3>2, <3>3, BitsPositive, WordBitsAssumption DEF Larger
  <2> QED
    BY <2>1, <2>2, <2>3, Zenon DEF Receive, Accept
<1> QED
  BY NonceInit, NonceNext, <1>1, PTL DEF Spec, SlidesNoFurtherThanNeeded

-----------------------------------------------------------------------------
(* Cookies *)

Cookies == [index : 0 .. 1, current : BOOLEAN, age : 0 .. 2 * KeyInterval]

(* A cookie that is not older than one interval is still accepted, and if   *)
(* its key is the older one of the two, that key was replaced by the other  *)
(* after the cookie was sent.                                               *)
CookieOK(k, index, age) ==
    k.age < KeyInterval => k.current /\ (k.index # index => age <= k.age)

CookieIInv ==
    /\ keyAge \in 0 .. KeyInterval
    /\ LastUpdatedKeyIndex \in 0 .. 1
    /\ cookie \in [Ips -> Cookies]
    /\ \A ip \in Ips : CookieOK(cookie[ip], LastUpdatedKeyIndex, keyAge)

(* An interval is at least one tick. *)
LEMMA KeyIntervalPositive == KeyInterval \in Nat \ {0}
BY FloodAssumption, Zenon DEF FloodAssumption

(* Before the first request there is no cookie that could lapse. *)
LEMMA CookieInitially == FloodInit => CookieIInv
<1> SUFFICES ASSUME FloodInit PROVE CookieIInv
  OBVIOUS
<1>1. keyAge = KeyInterval /\ LastUpdatedKeyIndex = 0 /\ cookie = [ip \in Ips |-> NoCookie]
  BY Zenon DEF FloodInit
<1>2. 2 * KeyInterval \in 0 .. 2 * KeyInterval /\ ~(2 * KeyInterval < KeyInterval)
  BY KeyIntervalPositive
<1>3. NoCookie \in Cookies
  BY <1>2 DEF NoCookie, Cookies
<1>4. CookieOK(NoCookie, 0, KeyInterval)
  BY <1>2, Zenon DEF CookieOK, NoCookie
<1>5. KeyInterval \in 0 .. KeyInterval /\ 0 \in 0 .. 1
  BY KeyIntervalPositive
<1> QED
  BY <1>1, <1>3, <1>4, <1>5, Zenon DEF CookieIInv

(* A tick ages key and cookies alike. *)
LEMMA CookieAges ==
    ASSUME NEW k \in Cookies, NEW index \in 0 .. 1, NEW age \in 0 .. KeyInterval,
           CookieOK(k, index, age)
    PROVE  LET older == [k EXCEPT !.age = Smaller(@ + 1, 2 * KeyInterval)]
           IN  /\ older \in Cookies
               /\ CookieOK(older, index, Smaller(age + 1, KeyInterval))
<1> DEFINE later == Smaller(k.age + 1, 2 * KeyInterval)
<1> DEFINE older == [k EXCEPT !.age = later]
<1>1. k.age \in 0 .. 2 * KeyInterval /\ k.index \in 0 .. 1 /\ k.current \in BOOLEAN
  BY Zenon DEF Cookies
<1>2. /\ later \in 0 .. 2 * KeyInterval
      /\ later < KeyInterval => k.age < KeyInterval
      /\ later < KeyInterval /\ age <= k.age => Smaller(age + 1, KeyInterval) <= later
  BY <1>1, KeyIntervalPositive DEF Smaller
<1> HIDE DEF later
<1>3. older \in Cookies
  BY <1>1, <1>2, Zenon DEF Cookies
<1>4. older.age = later /\ older.index = k.index /\ older.current = k.current
  BY DEF Cookies
<1>5. CookieOK(older, index, Smaller(age + 1, KeyInterval))
  BY <1>2, <1>4, Zenon DEF CookieOK
<1> QED
  BY <1>3, <1>5, Zenon DEF later

(* The key that is replaced has been the older one for a whole interval, so *)
(* the cookies under it are older than that; the others keep their key.     *)
LEMMA CookieRotates ==
    ASSUME NEW k \in Cookies, LastUpdatedKeyIndex \in 0 .. 1, keyAge \in 0 .. KeyInterval,
           CookieOK(k, LastUpdatedKeyIndex, keyAge)
    PROVE  /\ Rotated(k) \in Cookies
           /\ CookieOK(Rotated(k), NewKeyIndex, IF Rotates THEN 0 ELSE keyAge)
<1> DEFINE lapses == Rotates /\ k.index = NewKeyIndex
<1> DEFINE still == k.current /\ ~lapses
<1>1. k.age \in 0 .. 2 * KeyInterval /\ k.index \in 0 .. 1 /\ k.current \in BOOLEAN
  BY Zenon DEF Cookies
<1>2. k.age < KeyInterval => ~lapses
  BY <1>1, KeyIntervalPositive DEF CookieOK, Rotates, NewKeyIndex
<1>3. k.age < KeyInterval /\ k.index # NewKeyIndex => (IF Rotates THEN 0 ELSE keyAge) <= k.age
  BY <1>1, KeyIntervalPositive DEF CookieOK, Rotates, NewKeyIndex
<1>4. k.age < KeyInterval => k.current
  BY Zenon DEF CookieOK
<1>5. Rotated(k) = [k EXCEPT !.current = still]
  BY DEF Rotated
<1>6. still \in BOOLEAN
  OBVIOUS
<1>7. k.age < KeyInterval => still
  BY <1>2, <1>4, Zenon
<1> HIDE DEF lapses, still
<1>8. Rotated(k) \in Cookies
  BY <1>1, <1>5, <1>6, Zenon DEF Cookies
<1>9. Rotated(k).age = k.age /\ Rotated(k).index = k.index /\ Rotated(k).current = still
  BY <1>5, Zenon DEF Cookies
<1>10. CookieOK(Rotated(k), NewKeyIndex, IF Rotates THEN 0 ELSE keyAge)
  BY <1>3, <1>7, <1>9, Zenon DEF CookieOK
<1> QED
  BY <1>8, <1>10, Zenon

(* A request that meets a flood may replace a key and give out a cookie;    *)
(* nothing else but time touches them.                                      *)
LEMMA CookieNext == CookieIInv /\ [FloodNext]_floodVars => CookieIInv'
<1> SUFFICES ASSUME CookieIInv, [FloodNext]_floodVars PROVE CookieIInv'
  OBVIOUS
<1>1. /\ keyAge \in 0 .. KeyInterval /\ LastUpdatedKeyIndex \in 0 .. 1
      /\ cookie \in [Ips -> Cookies]
      /\ \A ip \in Ips : CookieOK(cookie[ip], LastUpdatedKeyIndex, keyAge)
  BY Zenon DEF CookieIInv
<1>2. CASE UNCHANGED keys
  BY <1>1, <1>2, Zenon DEF CookieIInv, keys
<1>3. CASE Tick
  <2>1. /\ keyAge' = Smaller(keyAge + 1, KeyInterval)
        /\ LastUpdatedKeyIndex' = LastUpdatedKeyIndex
        /\ cookie' = [ip \in Ips |->
                        [cookie[ip] EXCEPT !.age = Smaller(@ + 1, 2 * KeyInterval)]]
    BY <1>3, Zenon DEF Tick
  <2>2. Smaller(keyAge + 1, KeyInterval) \in 0 .. KeyInterval
    BY <1>1, KeyIntervalPositive DEF Smaller
  <2>3. ASSUME NEW ip \in Ips
        PROVE  /\ cookie'[ip] \in Cookies
               /\ CookieOK(cookie'[ip], LastUpdatedKeyIndex', keyAge')
    <3>1. cookie[ip] \in Cookies /\ CookieOK(cookie[ip], LastUpdatedKeyIndex, keyAge)
      BY <1>1, Zenon
    <3>2. cookie'[ip] = [cookie[ip] EXCEPT !.age = Smaller(@ + 1, 2 * KeyInterval)]
      BY <2>1, Zenon
    <3> QED
      BY <1>1, <2>1, <3>1, <3>2, CookieAges, Zenon
  <2>4. cookie' \in [Ips -> Cookies]
    BY <2>1, <2>3, Zenon
  <2> QED
    BY <1>1, <2>1, <2>2, <2>3, <2>4, Zenon DEF CookieIInv
<1>4. ASSUME NEW c \in Clients, NEW ip \in Ips, NEW shows \in BOOLEAN,
             OnConnectionRequest(c, ip, shows)
      PROVE  CookieIInv'
  <2>1. CASE RateNotExceeded
    BY <1>2, <1>4, <2>1, Zenon DEF OnConnectionRequest
  <2>2. CASE ~RateNotExceeded
    <3> DEFINE fresh == [index |-> NewKeyIndex, current |-> TRUE, age |-> 0]
    <3> DEFINE rotated == [i \in Ips |-> Rotated(cookie[i])]
    <3>1. /\ keyAge' = IF Rotates THEN 0 ELSE keyAge
          /\ LastUpdatedKeyIndex' = NewKeyIndex
          /\ cookie' = rotated \/ cookie' = [rotated EXCEPT ![ip] = fresh]
      BY <1>4, <2>2, Zenon DEF OnConnectionRequest
    <3>2. NewKeyIndex \in 0 .. 1
      BY <1>1 DEF NewKeyIndex
    <3>3. keyAge' \in 0 .. KeyInterval
      BY <1>1, <3>1, KeyIntervalPositive
    <3>4. \A i \in Ips : /\ rotated[i] \in Cookies
                         /\ CookieOK(rotated[i], LastUpdatedKeyIndex', keyAge')
      BY <1>1, <3>1, CookieRotates, Zenon
    <3>5. fresh \in Cookies /\ CookieOK(fresh, NewKeyIndex, keyAge')
      <4>1. 0 \in 0 .. 2 * KeyInterval
        BY KeyIntervalPositive
      <4> QED
        BY <3>2, <4>1, Zenon DEF Cookies, CookieOK
    <3>6. rotated = [i \in Ips |-> rotated[i]]
      BY Zenon
    <3> HIDE DEF fresh, rotated
    <3>7. /\ cookie' \in [Ips -> Cookies]
          /\ \A i \in Ips : cookie'[i] = rotated[i] \/ cookie'[i] = fresh
      BY <3>1, <3>4, <3>5, <3>6, Zenon
    <3>8. \A i \in Ips : CookieOK(cookie'[i], LastUpdatedKeyIndex', keyAge')
      BY <3>1, <3>4, <3>5, <3>7, Zenon
    <3> QED
      BY <3>1, <3>2, <3>3, <3>7, <3>8, Zenon DEF CookieIInv
  <2> QED
    BY <2>1, <2>2, Zenon
<1>5. CASE AllowConnection
  BY <1>2, <1>5, Zenon DEF AllowConnection
<1>6. CASE FailToAllocate
  BY <1>2, <1>6, Zenon DEF FailToAllocate
<1>7. ASSUME NEW c \in Clients, OnDisconnect(c) \/ Uncount(c)
      PROVE  CookieIInv'
  BY <1>2, <1>7, Zenon DEF OnDisconnect, Uncount
<1>8. CASE UNCHANGED floodVars
  BY <1>2, <1>8, Zenon DEF floodVars
<1> QED
  BY <1>3, <1>4, <1>5, <1>6, <1>7, <1>8, Zenon DEF FloodNext

(* FloodDetector::OnConnectionRequest() never replaces a key while a cookie *)
(* under it is younger than one rotation interval, whatever the times and   *)
(* the rates of requests.                                                   *)
THEOREM CookieOutlivesInterval == FloodSpec => []CookieLasts
<1>1. CookieIInv => CookieLasts
  BY Zenon DEF CookieIInv, CookieOK, CookieLasts
<1> QED
  BY CookieInitially, CookieNext, <1>1, PTL DEF FloodSpec

-----------------------------------------------------------------------------
(* The life of a session *)

(* Types of what the counter counts.                                        *)
Shape ==
    /\ stage \in {"new", "running", "released", "draining", "joined", "ended"}
    /\ shutdown \in BOOLEAN /\ firewall \in BOOLEAN /\ P2PSocketsInitialized \in BOOLEAN
    /\ refs \in Int /\ sends \in Nat
    /\ reading \subseteq Sockets
    /\ queue \in Seq(Tasks)
    /\ holding \subseteq Connections /\ starting \subseteq holding

Stages ==
    /\ stage \notin {"new", "running"} => shutdown
    /\ stage = "new" => /\ reading = {} /\ arrived = {} /\ firewall = FALSE
                      /\ queue = <<>> /\ holding = {} /\ inIds = {}
    /\ ~P2PSocketsInitialized => reading \cap Probes = {}
    /\ rejected \/ looseSends = 0

IInv == Shape /\ Stages /\ SessionRefsExact /\ EndsQuiet

-----------------------------------------------------------------------------
(* What holds references is finite.                                         *)
LEMMA Finite ==
    /\ \A R : R \subseteq Sockets => IsFiniteSet(R) /\ Cardinality(R) \in Nat
    /\ \A H : H \subseteq Connections => IsFiniteSet(H) /\ Cardinality(H) \in Nat
  <1>1. IsFiniteSet(Sockets)
    BY SocketsAssumption, FS_AddElement DEF Sockets
  <1> QED
    BY <1>1, ConnectionsAssumption, FS_Subset, FS_CardinalityType, Zenon

(* How the counted collections change by one.                               *)
LEMMA Counting ==
    ASSUME Shape
    PROVE  /\ IsFiniteSet(reading) /\ Cardinality(reading) \in Nat
           /\ IsFiniteSet(holding) /\ Cardinality(holding) \in Nat
           /\ Len(queue) \in Nat
           /\ \A s \in reading : Cardinality(reading \ {s}) = Cardinality(reading) - 1
           /\ \A c \in holding : Cardinality(holding \ {c}) = Cardinality(holding) - 1
           /\ \A c : c \notin holding =>
                 Cardinality(holding \cup {c}) = Cardinality(holding) + 1
           /\ \A t \in Tasks : /\ Append(queue, t) \in Seq(Tasks)
                               /\ Len(Append(queue, t)) = Len(queue) + 1
           /\ queue # <<>> => /\ Tail(queue) \in Seq(Tasks)
                              /\ Len(Tail(queue)) = Len(queue) - 1
  <1>2. IsFiniteSet(reading) /\ Cardinality(reading) \in Nat
    BY Finite, Zenon DEF Shape
  <1>3. IsFiniteSet(holding) /\ Cardinality(holding) \in Nat
    BY Finite, Zenon DEF Shape
  <1>4. \A s \in reading : Cardinality(reading \ {s}) = Cardinality(reading) - 1
    BY <1>2, FS_RemoveElement, Zenon
  <1>5. \A c \in holding : Cardinality(holding \ {c}) = Cardinality(holding) - 1
    BY <1>3, FS_RemoveElement, Zenon
  <1>6. \A c : c \notin holding => Cardinality(holding \cup {c}) = Cardinality(holding) + 1
    BY <1>3, FS_AddElement, Zenon
  <1>7. queue \in Seq(Tasks)
    BY Zenon DEF Shape
  <1>8. \A t \in Tasks : /\ Append(queue, t) \in Seq(Tasks)
                         /\ Len(Append(queue, t)) = Len(queue) + 1
    BY <1>7
  <1>9. queue # <<>> => Tail(queue) \in Seq(Tasks) /\ Len(Tail(queue)) = Len(queue) - 1
    BY <1>7
  <1>10. Len(queue) \in Nat
    BY <1>7
  <1> QED
    BY <1>2, <1>3, <1>4, <1>5, <1>6, <1>8, <1>9, <1>10

(* The probe sockets that are bound are counted once each.                  *)
LEMMA CountingBound ==
    ASSUME Shape, Stages, NEW bound, bound \subseteq Probes,
           IF P2PSocketsInitialized THEN bound = {} ELSE bound \subseteq Probes
    PROVE  /\ Cardinality(bound) \in Nat
           /\ Cardinality(reading \cup bound) = Cardinality(reading) + Cardinality(bound)
  <1>1. IsFiniteSet(bound) /\ Cardinality(bound) \in Nat
    BY SocketsAssumption, FS_Subset, FS_CardinalityType, Zenon
  <1>2. reading \cap bound = {}
    BY Zenon DEF Stages, Shape
  <1>3. IsFiniteSet(reading) /\ Cardinality(reading) \in Nat
    BY Counting, Zenon
  <1>4. Cardinality(reading \cup bound)
          = Cardinality(reading) + Cardinality(bound) - Cardinality(reading \cap bound)
    BY <1>1, <1>3, FS_Union, Zenon
  <1>5. Cardinality(reading \cap bound) = 0
    BY <1>2, FS_EmptySet, Zenon
  <1> QED
    BY <1>1, <1>3, <1>4, <1>5

(* The session's own reference is the only one at first.                    *)
LEMMA InitIInv == SessionInit => IInv
  <1> SUFFICES ASSUME SessionInit PROVE IInv
    OBVIOUS
  <1>1. Shape
    <2>1. queue \in Seq(Tasks)
      BY DEF SessionInit
    <2>2. shutdown \in BOOLEAN /\ firewall \in BOOLEAN /\ P2PSocketsInitialized \in BOOLEAN
      BY Zenon DEF SessionInit
    <2> QED
      BY <2>1, <2>2 DEF SessionInit, Shape
  <1>2. Stages
    BY Zenon DEF SessionInit, Stages
  <1>3. SessionRefsExact
    BY FS_EmptySet DEF SessionInit, SessionRefsExact, One
  <1>4. EndsQuiet
    BY Zenon DEF SessionInit, EndsQuiet, WorkersRun
  <1> QED
    BY <1>1, <1>2, <1>3, <1>4, Zenon DEF IInv

(* The other terms of the count.                                            *)
LEMMA Terms ==
    ASSUME Shape
    PROVE  /\ One(~shutdown) \in Nat /\ One(firewall) \in Nat
           /\ (One(firewall) = 0 => firewall = FALSE)
           /\ Cardinality(reading) \in Nat /\ Cardinality(holding) \in Nat
           /\ Len(queue) \in Nat /\ sends \in Nat /\ refs \in Int
  BY Counting DEF Shape, One

(* A step keeps the count exact when refs changes by as much as the terms.   *)
LEMMA Balance ==
    ASSUME Shape, Shape', SessionRefsExact,
           refs' = refs + (One(~shutdown') - One(~shutdown))
                        + (One(firewall') - One(firewall))
                        + (Cardinality(reading') - Cardinality(reading))
                        + (Len(queue') - Len(queue)) + (sends' - sends)
                        + (Cardinality(holding') - Cardinality(holding))
    PROVE  SessionRefsExact'
  <1> DEFINE a == One(~shutdown)
             b == One(firewall)
             r == Cardinality(reading)
             q == Len(queue)
             h == Cardinality(holding)
             a2 == One(~shutdown')
             b2 == One(firewall')
             r2 == Cardinality(reading')
             q2 == Len(queue')
             h2 == Cardinality(holding')
  <1>1. /\ a \in Nat /\ b \in Nat /\ r \in Nat /\ q \in Nat /\ h \in Nat
        /\ sends \in Nat /\ refs \in Int
    BY Terms, Zenon
  <1>2. a2 \in Nat /\ b2 \in Nat
    BY Zenon DEF One
  <1>3. r2 \in Nat /\ h2 \in Nat
    BY Finite, Zenon DEF Shape
  <1>4. q2 \in Nat /\ sends' \in Nat
    BY DEF Shape
  <1>5. refs = a + r + q + b + sends + h
    BY Zenon DEF SessionRefsExact
  <1>6. refs' = refs + (a2 - a) + (b2 - b) + (r2 - r) + (q2 - q) + (sends' - sends) + (h2 - h)
    BY Zenon
  <1>7. SessionRefsExact' <=> refs' = a2 + r2 + q2 + b2 + sends' + h2
    BY Zenon DEF SessionRefsExact
  <1> HIDE DEF a, b, r, q, h, a2, b2, r2, q2, h2
  <1>8. a + r + q + b + sends + h + (a2 - a) + (b2 - b) = a2 + r + q + b2 + sends + h
    BY <1>1, <1>2
  <1>9. a2 + r + q + b2 + sends + h + (r2 - r) + (q2 - q) = a2 + r2 + q2 + b2 + sends + h
    BY <1>1, <1>2, <1>3, <1>4
  <1>10. a2 + r2 + q2 + b2 + sends + h + (sends' - sends) + (h2 - h)
           = a2 + r2 + q2 + b2 + sends' + h2
    BY <1>1, <1>2, <1>3, <1>4
  <1> QED
    BY <1>5, <1>6, <1>7, <1>8, <1>9, <1>10, Zenon

(* The form for a step that leaves the two flags alone.                     *)
LEMMA BalanceSame ==
    ASSUME Shape, Shape', SessionRefsExact, UNCHANGED <<shutdown, firewall>>,
           refs' = refs + (Cardinality(reading') - Cardinality(reading))
                        + (Len(queue') - Len(queue)) + (sends' - sends)
                        + (Cardinality(holding') - Cardinality(holding))
    PROVE  SessionRefsExact'
  <1>1. One(~shutdown') = One(~shutdown) /\ One(firewall') = One(firewall)
    BY Zenon DEF One
  <1>2. (One(~shutdown') - One(~shutdown)) = 0 /\ (One(firewall') - One(firewall)) = 0
    BY <1>1, Terms
  <1>3. refs + 0 + 0 = refs
    BY Terms
  <1> QED
    BY <1>2, <1>3, Balance, Zenon

-----------------------------------------------------------------------------
(* The steps of the app, and of the thread in Shutdown().                   *)
LEMMA InitializeIInv == ASSUME IInv, NEW upnp \in BOOLEAN, Initialize(upnp) PROVE IInv'
  <1> USE DEF IInv, counter, socketVars, connectionVars
  <1>a. One(firewall) = 0 /\ Cardinality(reading) = 0 /\ Cardinality(reading') = 1
    <2>1. reading = {} /\ reading' = {Main} /\ firewall = FALSE
      BY Zenon DEF Initialize, OpenSockets, Stages
    <2> QED
      BY <2>1, FS_EmptySet, FS_Singleton, Zenon DEF One
  <1>b. refs' = refs + 1 + One(firewall') /\ One(firewall') \in Nat
    BY Terms DEF Initialize, OpenSockets, Count, One
  <1>c. One(~shutdown') = One(~shutdown)
    BY Zenon DEF Initialize, OpenSockets, Count, One
  <1>1. Shape'
    BY DEF Initialize, OpenSockets, Shape, Count, One, Sockets
  <1>2. Stages'
    BY SocketsAssumption, Zenon DEF Initialize, OpenSockets, Stages, Count
  <1>3. SessionRefsExact'
    <2>1. /\ One(~shutdown') - One(~shutdown) = 0 /\ One(firewall') - One(firewall) = One(firewall')
          /\ Cardinality(reading') - Cardinality(reading) = 1 /\ Len(queue') - Len(queue) = 0
          /\ sends' - sends = 0 /\ Cardinality(holding') - Cardinality(holding) = 0
      BY <1>a, <1>b, <1>c, Terms DEF Initialize, OpenSockets, Count
    <2>2. refs' = refs + (0) + (One(firewall')) + 1 + 0 + 0 + 0
      BY <1>a, <1>b, <1>c, Terms DEF Initialize, OpenSockets, Count
    <2> QED
      BY <1>1, <2>1, <2>2, Balance, Zenon
  <1>4. EndsQuiet'
    BY Zenon DEF Initialize, OpenSockets, EndsQuiet, WorkersRun
  <1> QED
    BY <1>1, <1>2, <1>3, <1>4, Zenon

(* tonk_socket_destroy() latches the shutdown. *)
LEMMA AppReleaseIInv == ASSUME IInv, AppRelease PROVE IInv'
  <1> USE DEF IInv, counter, socketVars, connectionVars
  <1>c. One(~shutdown') = 0 /\ One(firewall') = One(firewall)
    BY Zenon DEF AppRelease, CountAndShutdown, One
  <1>1. Shape'
    BY DEF AppRelease, Shape, CountAndShutdown, One
  <1>2. Stages'
    BY Zenon DEF AppRelease, Stages, CountAndShutdown
  <1>3. SessionRefsExact'
    <2>1. /\ One(~shutdown') - One(~shutdown) = 0 - One(~shutdown) /\ One(firewall') - One(firewall) = 0
          /\ Cardinality(reading') - Cardinality(reading) = 0 /\ Len(queue') - Len(queue) = 0
          /\ sends' - sends = 0 /\ Cardinality(holding') - Cardinality(holding) = 0
      BY <1>c, Terms DEF AppRelease, CountAndShutdown
    <2>2. refs' = refs + (0 - One(~shutdown)) + (0) + 0 + 0 + 0 + 0
      BY <1>c, Terms DEF AppRelease, CountAndShutdown
    <2> QED
      BY <1>1, <2>1, <2>2, Balance, Zenon
  <1>4. EndsQuiet'
    BY Zenon DEF AppRelease, EndsQuiet, WorkersRun
  <1> QED
    BY <1>1, <1>2, <1>3, <1>4, Zenon

(* tonk_advertise() starts a send. *)
LEMMA TonkAdvertiseIInv == ASSUME IInv, TonkAdvertise PROVE IInv'
  <1> USE DEF IInv, counter, socketVars, connectionVars
  <1>1. Shape'
    BY DEF TonkAdvertise, Shape, Count
  <1>2. Stages'
    BY Zenon DEF TonkAdvertise, Stages, Count
  <1>3. SessionRefsExact'
    <2>1. /\ UNCHANGED <<shutdown, firewall>>
          /\ refs' = refs + (Cardinality(reading') - Cardinality(reading))
                       + (Len(queue') - Len(queue)) + (sends' - sends)
                       + (Cardinality(holding') - Cardinality(holding))
      BY Terms DEF TonkAdvertise, Count
    <2> QED
      BY <1>1, <2>1, BalanceSame, Zenon
  <1>4. EndsQuiet'
    BY Zenon DEF TonkAdvertise, EndsQuiet, WorkersRun
  <1> QED
    BY <1>1, <1>2, <1>3, <1>4, Zenon

(* tonk_connect() adds a connection that holds the session. *)
LEMMA TonkConnectIInv == ASSUME IInv, NEW c \in Connections, TonkConnect(c) PROVE IInv'
  <1> USE DEF IInv, counter, socketVars, connectionVars
  <1>a. Cardinality(holding') = Cardinality(holding) + 1
    BY Counting, Zenon DEF TonkConnect
  <1>1. Shape'
    BY DEF TonkConnect, Shape, Count
  <1>2. Stages'
    BY Zenon DEF TonkConnect, Stages, Count
  <1>3. SessionRefsExact'
    <2>1. /\ UNCHANGED <<shutdown, firewall>>
          /\ refs' = refs + (Cardinality(reading') - Cardinality(reading))
                       + (Len(queue') - Len(queue)) + (sends' - sends)
                       + (Cardinality(holding') - Cardinality(holding))
      BY <1>a, Terms DEF TonkConnect, Count
    <2> QED
      BY <1>1, <2>1, BalanceSame, Zenon
  <1>4. EndsQuiet'
    BY Zenon DEF TonkConnect, EndsQuiet, WorkersRun
  <1> QED
    BY <1>1, <1>2, <1>3, <1>4, Zenon

(* tonk_inject() posts to the connect strand. *)
LEMMA TonkInjectIInv == ASSUME IInv, NEW task \in Errands, TonkInject(task) PROVE IInv'
  <1> USE DEF IInv, counter, socketVars, connectionVars
  <1>a. task \in Tasks
    BY Zenon DEF Tasks
  <1>b. queue' \in Seq(Tasks) /\ Len(queue') = Len(queue) + 1
    BY <1>a, Counting, Zenon DEF TonkInject, Post
  <1>1. Shape'
    BY <1>b DEF TonkInject, Shape, Post, Count
  <1>2. Stages'
    BY Zenon DEF TonkInject, Stages, Post, Count
  <1>3. SessionRefsExact'
    <2>1. /\ UNCHANGED <<shutdown, firewall>>
          /\ refs' = refs + (Cardinality(reading') - Cardinality(reading))
                       + (Len(queue') - Len(queue)) + (sends' - sends)
                       + (Cardinality(holding') - Cardinality(holding))
      BY <1>b, Terms DEF TonkInject, Post, Count
    <2> QED
      BY <1>1, <2>1, BalanceSame, Zenon
  <1>4. EndsQuiet'
    BY Zenon DEF TonkInject, EndsQuiet, WorkersRun
  <1> QED
    BY <1>1, <1>2, <1>3, <1>4, Zenon

(* Shutdown() posts the task that closes the sockets. *)
LEMMA CloseSocketsIInv == ASSUME IInv, CloseSockets PROVE IInv'
  <1> USE DEF IInv, counter, socketVars, connectionVars
  <1>a. "close" \in Tasks
    BY Zenon DEF Tasks
  <1>b. queue' \in Seq(Tasks) /\ Len(queue') = Len(queue) + 1
    BY <1>a, Counting, Zenon DEF CloseSockets
  <1>1. Shape'
    BY <1>b DEF CloseSockets, Shape, Count
  <1>2. Stages'
    BY Zenon DEF CloseSockets, Stages, Count
  <1>3. SessionRefsExact'
    <2>1. /\ UNCHANGED <<shutdown, firewall>>
          /\ refs' = refs + (Cardinality(reading') - Cardinality(reading))
                       + (Len(queue') - Len(queue)) + (sends' - sends)
                       + (Cardinality(holding') - Cardinality(holding))
      BY <1>b, Terms DEF CloseSockets, Count
    <2> QED
      BY <1>1, <2>1, BalanceSame, Zenon
  <1>4. EndsQuiet'
    BY Zenon DEF CloseSockets, EndsQuiet, WorkersRun
  <1> QED
    BY <1>1, <1>2, <1>3, <1>4, Zenon

(* The references are gone: so is everything that holds one.                *)
LEMMA DrainedIInv == ASSUME IInv, Drained PROVE IInv'
  <1> USE DEF IInv, counter, socketVars, connectionVars
  <1>1. Shape'
    BY Zenon DEF Drained, Shape
  <1>2. Stages'
    BY Zenon DEF Drained, Stages
  <1>3. SessionRefsExact'
    BY Zenon DEF Drained, SessionRefsExact
  <1>4. EndsQuiet'
    <2>1. /\ Cardinality(reading) = 0 /\ Len(queue) = 0 /\ sends = 0
          /\ Cardinality(holding) = 0 /\ One(firewall) = 0
      BY Terms DEF Drained, SessionRefsExact
    <2>2. reading = {} /\ holding = {}
      BY <2>1, Counting, FS_EmptySet, Zenon
    <2>3. queue = <<>>
      BY <2>1 DEF Shape
    <2>4. firewall = FALSE
      BY <2>1, Terms, Zenon
    <2> QED
      BY <2>1, <2>2, <2>3, <2>4, Zenon DEF Drained, EndsQuiet, Stages
  <1> QED
    BY <1>1, <1>2, <1>3, <1>4, Zenon

(* Shutdown() has joined the workers; the sockets go with the session. *)
LEMMA EndShutdownIInv == ASSUME IInv, EndShutdown PROVE IInv'
  <1> USE DEF IInv, counter, socketVars, connectionVars
  <1>1. Shape'
    BY Zenon DEF EndShutdown, Shape
  <1>2. Stages'
    BY Zenon DEF EndShutdown, Stages
  <1>3. SessionRefsExact'
    BY Zenon DEF EndShutdown, SessionRefsExact
  <1>4. EndsQuiet'
    BY Zenon DEF EndShutdown, EndsQuiet, WorkersRun
  <1> QED
    BY <1>1, <1>2, <1>3, <1>4, Zenon

-----------------------------------------------------------------------------
(* The steps of worker threads, of the connect strand and of connections.   *)
LEMMA ReadIInv == ASSUME IInv, NEW s, ReadCompletes(s) PROVE IInv'
  <1> USE DEF IInv, counter, socketVars, connectionVars
  <1>1. Shape'
    BY Zenon DEF ReadCompletes, Shape
  <1>2. Stages'
    BY Zenon DEF ReadCompletes, Stages
  <1>3. SessionRefsExact'
    BY Zenon DEF ReadCompletes, SessionRefsExact
  <1>4. EndsQuiet'
    BY Zenon DEF ReadCompletes, EndsQuiet, WorkersRun
  <1> QED
    BY <1>1, <1>2, <1>3, <1>4, Zenon

(* A read completes: the socket reads again. *)
LEMMA OnUDPDatagramIInv == ASSUME IInv, NEW s, OnUDPDatagram(s) PROVE IInv'
  <1> USE DEF IInv, counter, socketVars, connectionVars
  <1>a. \/ UNCHANGED <<counter, queue>>
        \/ /\ queue' \in Seq(Tasks) /\ Len(queue') = Len(queue) + 1
           /\ refs' = refs + 1 /\ shutdown' = shutdown
    BY Counting, Zenon DEF OnUDPDatagram, Post, Count, Tasks
  <1>1. Shape'
    BY <1>a DEF OnUDPDatagram, Shape
  <1>2. Stages'
    BY <1>a, Zenon DEF OnUDPDatagram, Stages
  <1>3. SessionRefsExact'
    <2>1. /\ UNCHANGED <<shutdown, firewall>>
          /\ refs' = refs + (Cardinality(reading') - Cardinality(reading))
                       + (Len(queue') - Len(queue)) + (sends' - sends)
                       + (Cardinality(holding') - Cardinality(holding))
      BY <1>a, Terms DEF OnUDPDatagram
    <2> QED
      BY <1>1, <2>1, BalanceSame, Zenon
  <1>4. EndsQuiet'
    BY Zenon DEF OnUDPDatagram, EndsQuiet, WorkersRun
  <1> QED
    BY <1>1, <1>2, <1>3, <1>4, Zenon

(* A read of a closed socket fails and lets go. *)
LEMMA FailReadIInv == ASSUME IInv, NEW s, FailRead(s) PROVE IInv'
  <1> USE DEF IInv, counter, socketVars, connectionVars
  <1>a. Cardinality(reading') = Cardinality(reading) - 1
    BY Counting, Zenon DEF FailRead
  <1>c. One(~shutdown') = 0 /\ One(firewall') = One(firewall)
    BY Zenon DEF FailRead, CountAndShutdown, One
  <1>1. Shape'
    BY DEF FailRead, Shape, CountAndShutdown, One
  <1>2. Stages'
    BY Zenon DEF FailRead, Stages, CountAndShutdown
  <1>3. SessionRefsExact'
    <2>1. /\ One(~shutdown') - One(~shutdown) = 0 - One(~shutdown) /\ One(firewall') - One(firewall) = 0
          /\ Cardinality(reading') - Cardinality(reading) = (-1) /\ Len(queue') - Len(queue) = 0
          /\ sends' - sends = 0 /\ Cardinality(holding') - Cardinality(holding) = 0
      BY <1>a, <1>c, Terms DEF FailRead, CountAndShutdown
    <2>2. refs' = refs + (0 - One(~shutdown)) + (0) + (-1) + 0 + 0 + 0
      BY <1>a, <1>c, Terms DEF FailRead, CountAndShutdown
    <2> QED
      BY <1>1, <2>1, <2>2, Balance, Zenon
  <1>4. EndsQuiet'
    BY Zenon DEF FailRead, EndsQuiet, WorkersRun
  <1> QED
    BY <1>1, <1>2, <1>3, <1>4, Zenon

(* A send completes and lets go. *)
LEMMA CompleteSendIInv == ASSUME IInv, CompleteSend PROVE IInv'
  <1> USE DEF IInv, counter, socketVars, connectionVars
  <1>1. Shape'
    BY DEF CompleteSend, Shape, Count
  <1>2. Stages'
    BY Zenon DEF CompleteSend, Stages, Count
  <1>3. SessionRefsExact'
    <2>1. /\ UNCHANGED <<shutdown, firewall>>
          /\ refs' = refs + (Cardinality(reading') - Cardinality(reading))
                       + (Len(queue') - Len(queue)) + (sends' - sends)
                       + (Cardinality(holding') - Cardinality(holding))
      BY Terms, SMTT(30) DEF CompleteSend, Count
    <2> QED
      BY <1>1, <2>1, BalanceSame, Zenon
  <1>4. EndsQuiet'
    BY Zenon DEF CompleteSend, EndsQuiet, WorkersRun
  <1> QED
    BY <1>1, <1>2, <1>3, <1>4, Zenon

(* A send completes whose connection has let go of the session. *)
LEMMA CompleteLooseSendIInv == ASSUME IInv, CompleteLooseSend PROVE IInv'
  <1> USE DEF IInv, counter, socketVars, connectionVars
  <1>1. Shape'
    BY Zenon DEF CompleteLooseSend, Shape
  <1>2. Stages'
    <2>1. rejected' \/ looseSends' = 0
      BY DEF CompleteLooseSend, Stages
    <2> QED
      BY <2>1, Zenon DEF CompleteLooseSend, Stages
  <1>3. SessionRefsExact'
    BY Zenon DEF CompleteLooseSend, SessionRefsExact
  <1>4. EndsQuiet'
    BY Zenon DEF CompleteLooseSend, EndsQuiet, WorkersRun
  <1> QED
    BY <1>1, <1>2, <1>3, <1>4, Zenon

(* The firewall task ends. *)
LEMMA FirewallIInv == ASSUME IInv, AddFirewallRule PROVE IInv'
  <1> USE DEF IInv, counter, socketVars, connectionVars
  <1>a. One(firewall) = 1 /\ One(firewall') = 0
    BY Zenon DEF AddFirewallRule, One
  <1>b. One(~shutdown') = One(~shutdown) /\ refs' = refs + (-1)
    BY Zenon DEF AddFirewallRule, Count, One
  <1>c. UNCHANGED <<stage, shutdown, socketVars, queue, sends, connectionVars>>
    BY Zenon DEF AddFirewallRule, Count
  <1>d. firewall' \in BOOLEAN
    BY Zenon DEF AddFirewallRule
  <1>1. Shape'
    BY <1>b, <1>c, <1>d DEF Shape
  <1>2. Stages'
    BY Zenon DEF AddFirewallRule, Stages, Count
  <1>3. SessionRefsExact'
    <2>1. /\ One(~shutdown') - One(~shutdown) = 0 /\ One(firewall') - One(firewall) = -1
          /\ Cardinality(reading') - Cardinality(reading) = 0 /\ Len(queue') - Len(queue) = 0
          /\ sends' - sends = 0 /\ Cardinality(holding') - Cardinality(holding) = 0
      BY <1>a, <1>b, <1>c, Terms
    <2>2. refs' = refs + (0) + (-1) + 0 + 0 + 0 + 0
      BY <1>a, <1>b, <1>c, Terms
    <2> QED
      BY <1>1, <2>1, <2>2, Balance, Zenon
  <1>4. EndsQuiet'
    BY Zenon DEF AddFirewallRule, EndsQuiet, WorkersRun
  <1> QED
    BY <1>1, <1>2, <1>3, <1>4, Zenon

(* A task of the connect strand that touches no connection. *)
LEMMA RunErrandIInv == ASSUME IInv, RunErrand PROVE IInv'
  <1> USE DEF IInv, counter, socketVars, connectionVars
  <1>a. queue' \in Seq(Tasks) /\ Len(queue') = Len(queue) - 1 /\ WorkersRun
    BY Counting, Zenon DEF RunErrand, Run
  <1>1. Shape'
    BY <1>a DEF RunErrand, Shape, Count
  <1>2. Stages'
    BY DEF RunErrand, Stages, Count, Run
  <1>3. SessionRefsExact'
    <2>1. /\ UNCHANGED <<shutdown, firewall>>
          /\ refs' = refs + (Cardinality(reading') - Cardinality(reading))
                       + (Len(queue') - Len(queue)) + (sends' - sends)
                       + (Cardinality(holding') - Cardinality(holding))
      BY <1>a, Terms, SMTT(30) DEF RunErrand, Count
    <2> QED
      BY <1>1, <2>1, BalanceSame, Zenon
  <1>4. EndsQuiet'
    BY <1>a, Zenon DEF RunErrand, EndsQuiet, WorkersRun
  <1> QED
    BY <1>1, <1>2, <1>3, <1>4, Zenon

(* A connection request creates a connection. *)
LEMMA OnConnectRequestIInv == ASSUME IInv, NEW c \in Connections, OnConnectRequest(c) PROVE IInv'
  <1> USE DEF IInv, counter, socketVars, connectionVars
  <1>a. queue' \in Seq(Tasks) /\ Len(queue') = Len(queue) - 1 /\ WorkersRun
    BY Counting, Zenon DEF OnConnectRequest, Run
  <1>b. Cardinality(holding') = Cardinality(holding) + 1
    BY Counting, Zenon DEF OnConnectRequest
  <1>1. Shape'
    BY <1>a DEF OnConnectRequest, Shape, Count
  <1>2. Stages'
    BY Zenon DEF OnConnectRequest, Stages, Count, Run
  <1>3. SessionRefsExact'
    <2>1. /\ UNCHANGED <<shutdown, firewall>>
          /\ refs' = refs + (Cardinality(reading') - Cardinality(reading))
                       + (Len(queue') - Len(queue)) + (sends' - sends)
                       + (Cardinality(holding') - Cardinality(holding))
      BY <1>a, <1>b, Terms, SMTT(90) DEF OnConnectRequest, Count
    <2> QED
      BY <1>1, <2>1, BalanceSame, Zenon
  <1>4. EndsQuiet'
    BY <1>a, Zenon DEF OnConnectRequest, EndsQuiet, WorkersRun
  <1> QED
    BY <1>1, <1>2, <1>3, <1>4, Zenon

(* A P2P start that is ignored. *)
LEMMA IgnoreP2PIInv == ASSUME IInv, IgnoreP2P PROVE IInv'
  <1> USE DEF IInv, counter, socketVars, connectionVars
  <1>a. queue' \in Seq(Tasks) /\ Len(queue') = Len(queue) - 1 /\ WorkersRun
    BY Counting, Zenon DEF IgnoreP2P, Run
  <1>1. Shape'
    BY <1>a DEF IgnoreP2P, Shape, Count
  <1>2. Stages'
    BY Zenon DEF IgnoreP2P, Stages, Count, Run
  <1>3. SessionRefsExact'
    <2>1. /\ UNCHANGED <<shutdown, firewall>>
          /\ refs' = refs + (Cardinality(reading') - Cardinality(reading))
                       + (Len(queue') - Len(queue)) + (sends' - sends)
                       + (Cardinality(holding') - Cardinality(holding))
      BY <1>a, Terms DEF IgnoreP2P, Count
    <2> QED
      BY <1>1, <2>1, BalanceSame, Zenon
  <1>4. EndsQuiet'
    BY <1>a, Zenon DEF IgnoreP2P, EndsQuiet, WorkersRun
  <1> QED
    BY <1>1, <1>2, <1>3, <1>4, Zenon

(* A P2P start opens probe sockets, with or without a connection. *)
LEMMA P2PIInv == ASSUME IInv, NEW c \in Connections, NEW bound \in SUBSET Probes,
                           OnP2PStartConnect(c, bound) PROVE IInv'
  <1> USE DEF IInv, counter, socketVars, connectionVars
  <1>a. queue' \in Seq(Tasks) /\ Len(queue') = Len(queue) - 1 /\ WorkersRun
    BY Counting, Zenon DEF OnP2PStartConnect, Run
  <1>b. /\ Cardinality(bound) \in Nat
        /\ Cardinality(reading') = Cardinality(reading) + Cardinality(bound)
    BY CountingBound, Zenon DEF OnP2PStartConnect, InitializeP2PSockets, OpenSockets
  <1>c. \/ refs' = refs + Cardinality(bound) - 1 /\ UNCHANGED connectionVars
        \/ /\ refs' = refs + Cardinality(bound) /\ holding' = holding \cup {c}
           /\ UNCHANGED starting
           /\ Cardinality(holding') = Cardinality(holding) + 1
    BY <1>b, Terms, Counting, Zenon DEF OnP2PStartConnect, Count
  <1>d. shutdown' = shutdown /\ UNCHANGED <<stage, firewall, sends, looseSends, rejected>>
    BY Zenon DEF OnP2PStartConnect, Count
  <1>1. Shape'
    <2>1. reading' \subseteq Sockets /\ P2PSocketsInitialized' \in BOOLEAN
      BY Zenon DEF OnP2PStartConnect, InitializeP2PSockets, OpenSockets, Shape, Sockets
    <2> QED
      BY <1>a, <1>b, <1>c, <1>d, <2>1, Terms, SMTT(30) DEF Shape
  <1>2. Stages'
    <2>1. stage # "new" /\ P2PSocketsInitialized' = TRUE
      BY Zenon DEF OnP2PStartConnect, InitializeP2PSockets, OpenSockets, Run, Stages
    <2>2. stage' \notin {"new", "running"} => shutdown'
      BY <1>d, Zenon DEF Stages
    <2> QED
      BY <1>d, <2>1, <2>2, Zenon DEF Stages
  <1>3. SessionRefsExact'
    <2>1. refs' = refs + (Cardinality(reading') - Cardinality(reading))
                       + (Len(queue') - Len(queue)) + (sends' - sends)
                       + (Cardinality(holding') - Cardinality(holding))
      BY <1>a, <1>b, <1>c, <1>d, Terms, SMTT(30)
    <2> QED
      BY <1>1, <1>d, <2>1, BalanceSame, Zenon
  <1>4. EndsQuiet'
    BY <1>a, <1>d, Zenon DEF EndsQuiet, WorkersRun
  <1> QED
    BY <1>1, <1>2, <1>3, <1>4, Zenon

(* The task of Shutdown() on the connect strand closes the sockets. *)
LEMMA RunCloseIInv == ASSUME IInv, RunClose PROVE IInv'
  <1> USE DEF IInv, counter, socketVars, connectionVars
  <1>a. queue' \in Seq(Tasks) /\ Len(queue') = Len(queue) - 1 /\ WorkersRun
    BY Counting, Zenon DEF RunClose, Run
  <1>1. Shape'
    BY <1>a DEF RunClose, Shape, Count
  <1>2. Stages'
    BY Zenon DEF RunClose, Stages, Count, Run
  <1>3. SessionRefsExact'
    <2>1. /\ UNCHANGED <<shutdown, firewall>>
          /\ refs' = refs + (Cardinality(reading') - Cardinality(reading))
                       + (Len(queue') - Len(queue)) + (sends' - sends)
                       + (Cardinality(holding') - Cardinality(holding))
      BY <1>a, Terms DEF RunClose, Count
    <2> QED
      BY <1>1, <2>1, BalanceSame, Zenon
  <1>4. EndsQuiet'
    BY <1>a, Zenon DEF RunClose, EndsQuiet, WorkersRun
  <1> QED
    BY <1>1, <1>2, <1>3, <1>4, Zenon

(* The first task of an incoming connection. *)
LEMMA CompleteIncomingIInv == ASSUME IInv, NEW c, CompleteIncomingConnection(c) PROVE IInv'
  <1> USE DEF IInv, counter, socketVars, connectionVars
  <1>1. Shape'
    BY Zenon DEF CompleteIncomingConnection, Shape
  <1>2. Stages'
    BY Zenon DEF CompleteIncomingConnection, Stages, Shape
  <1>3. SessionRefsExact'
    BY Zenon DEF CompleteIncomingConnection, SessionRefsExact
  <1>4. EndsQuiet'
    BY Zenon DEF CompleteIncomingConnection, EndsQuiet, WorkersRun
  <1> QED
    BY <1>1, <1>2, <1>3, <1>4, Zenon

(* An incoming connection is denied. *)
LEMMA DenyIInv == ASSUME IInv, NEW c, DenyIncomingConnection(c) PROVE IInv'
  <1> USE DEF IInv, counter, socketVars, connectionVars
  <1>a. Cardinality(holding') = Cardinality(holding) - 1
    BY Counting, Zenon DEF DenyIncomingConnection, Shape
  <1>1. Shape'
    BY DEF DenyIncomingConnection, Shape, Count
  <1>2. Stages'
    BY Zenon DEF DenyIncomingConnection, Stages, Count
  <1>3. SessionRefsExact'
    <2>1. /\ UNCHANGED <<shutdown, firewall>>
          /\ refs' = refs + (Cardinality(reading') - Cardinality(reading))
                       + (Len(queue') - Len(queue)) + (sends' - sends)
                       + (Cardinality(holding') - Cardinality(holding))
      BY <1>a, Terms, SMTT(30) DEF DenyIncomingConnection, Count
    <2> QED
      BY <1>1, <2>1, BalanceSame, Zenon
  <1>4. EndsQuiet'
    BY Zenon DEF DenyIncomingConnection, EndsQuiet, WorkersRun
  <1> QED
    BY <1>1, <1>2, <1>3, <1>4, Zenon

(* A rendezvous server asks for a P2P start. *)
LEMMA RequestP2PIInv == ASSUME IInv, NEW c, RequestP2P(c) PROVE IInv'
  <1> USE DEF IInv, counter, socketVars, connectionVars
  <1>a. "p2p" \in Tasks
    BY Zenon DEF Tasks
  <1>b. queue' \in Seq(Tasks) /\ Len(queue') = Len(queue) + 1
    BY <1>a, Counting, Zenon DEF RequestP2P, Post
  <1>1. Shape'
    BY <1>b DEF RequestP2P, Shape, Post, Count
  <1>2. Stages'
    BY Zenon DEF RequestP2P, Stages, Post, Count
  <1>3. SessionRefsExact'
    <2>1. /\ UNCHANGED <<shutdown, firewall>>
          /\ refs' = refs + (Cardinality(reading') - Cardinality(reading))
                       + (Len(queue') - Len(queue)) + (sends' - sends)
                       + (Cardinality(holding') - Cardinality(holding))
      BY <1>b, Terms DEF RequestP2P, Post, Count
    <2> QED
      BY <1>1, <2>1, BalanceSame, Zenon
  <1>4. EndsQuiet'
    BY Zenon DEF RequestP2P, EndsQuiet, WorkersRun
  <1> QED
    BY <1>1, <1>2, <1>3, <1>4, Zenon

(* A connection leaves the maps. *)
LEMMA RemoveFromMapsIInv == ASSUME IInv, NEW c, RemoveFromMaps(c) PROVE IInv'
  <1> USE DEF IInv, counter, socketVars, connectionVars
  <1>1. Shape'
    BY Zenon DEF RemoveFromMaps, Shape
  <1>2. Stages'
    BY Zenon DEF RemoveFromMaps, Stages
  <1>3. SessionRefsExact'
    BY Zenon DEF RemoveFromMaps, SessionRefsExact
  <1>4. EndsQuiet'
    BY Zenon DEF RemoveFromMaps, EndsQuiet, WorkersRun
  <1> QED
    BY <1>1, <1>2, <1>3, <1>4, Zenon

(* A connection lets the session go. *)
LEMMA ConnectionShutdownIInv == ASSUME IInv, NEW c, ConnectionShutdown(c) PROVE IInv'
  <1> USE DEF IInv, counter, socketVars, connectionVars
  <1>a. Cardinality(holding') = Cardinality(holding) - 1
    BY Counting, Zenon DEF ConnectionShutdown, Shape
  <1>1. Shape'
    BY DEF ConnectionShutdown, Shape, Count
  <1>2. Stages'
    BY Zenon DEF ConnectionShutdown, Stages, Count
  <1>3. SessionRefsExact'
    <2>1. /\ UNCHANGED <<shutdown, firewall>>
          /\ refs' = refs + (Cardinality(reading') - Cardinality(reading))
                       + (Len(queue') - Len(queue)) + (sends' - sends)
                       + (Cardinality(holding') - Cardinality(holding))
      BY <1>a, Terms DEF ConnectionShutdown, Count
    <2> QED
      BY <1>1, <2>1, BalanceSame, Zenon
  <1>4. EndsQuiet'
    BY Zenon DEF ConnectionShutdown, EndsQuiet, WorkersRun
  <1> QED
    BY <1>1, <1>2, <1>3, <1>4, Zenon

-----------------------------------------------------------------------------
(* Every step preserves the invariant.                                      *)
LEMMA NextIInv == IInv /\ [SessionNext]_sessionVars => IInv'
  <1> SUFFICES ASSUME IInv, [SessionNext]_sessionVars PROVE IInv'
    BY Zenon
  <1>1. CASE SessionNext
    BY <1>1, InitializeIInv, AppReleaseIInv, TonkAdvertiseIInv, TonkConnectIInv, TonkInjectIInv,
       CloseSocketsIInv, DrainedIInv, EndShutdownIInv, ReadIInv, OnUDPDatagramIInv,
       FailReadIInv, CompleteSendIInv, CompleteLooseSendIInv, FirewallIInv, RunErrandIInv,
       OnConnectRequestIInv, IgnoreP2PIInv, P2PIInv, RunCloseIInv, CompleteIncomingIInv,
       DenyIInv, RequestP2PIInv, RemoveFromMapsIInv, ConnectionShutdownIInv, Zenon
       DEF SessionNext, RunTask
  <1>2. CASE UNCHANGED sessionVars
    BY <1>2, Zenon DEF sessionVars, counter, socketVars, connectionVars, IInv, Shape, Stages,
       SessionRefsExact, EndsQuiet, WorkersRun
  <1> QED
    BY <1>1, <1>2, Zenon

(* The invariant holds from the creation of the session on. *)
LEMMA SessionInvariant == SessionSpec => []IInv
  BY InitIInv, NextIInv, PTL DEF SessionSpec

(* Every IncrementReferences() on a session has one DecrementReferences():  *)
(* at any time the count is the number of operations that hold one.         *)
THEOREM SessionCounted == SessionSpec => []SessionRefsExact
  BY SessionInvariant, PTL DEF IInv

(* When Shutdown() stops the workers, the session is not in use: what       *)
(* UDPSocket::Shutdown() asserts.  Sends are all completed unless an        *)
(* incoming connection was denied.                                          *)
THEOREM SessionEndsQuiet == SessionSpec => []EndsQuiet
  BY SessionInvariant, PTL DEF IInv

(* Sockets stay closed once the close task has run, whatever P2P requests   *)
(* are still queued.                                                        *)
THEOREM SessionNeverReopened == SessionSpec => NeverReopened
  <1>1. IInv /\ [SessionNext]_sessionVars =>
          [SocketsClosed => opened' \subseteq opened]_sessionVars
    <2> SUFFICES ASSUME IInv, SessionNext, SocketsClosed
                 PROVE  opened' \subseteq opened
      BY Zenon DEF sessionVars
    <2>1. shutdown /\ stage # "new"
      BY Zenon DEF IInv, Stages, SocketsClosed
    <2>2. CASE UNCHANGED opened
      BY <2>2, Zenon
    <2>3. CASE RunClose \/ EndShutdown
      BY <2>3, Zenon DEF RunClose, EndShutdown
    <2> QED
      BY <2>1, <2>2, <2>3, Zenon
      DEF SessionNext, RunTask, socketVars, Initialize, OpenSockets, AppRelease,
         TonkAdvertise, TonkInject, ReadCompletes, OnUDPDatagram, FailRead, CompleteSend,
         CompleteLooseSend, AddFirewallRule, RunErrand, IgnoreP2P, OnConnectRequest,
         OnP2PStartConnect, TonkConnect, CompleteIncomingConnection, DenyIncomingConnection,
         RequestP2P, RemoveFromMaps, ConnectionShutdown, CloseSockets, Drained
  <1> QED
    BY <1>1, SessionInvariant, PTL DEF SessionSpec, NeverReopened

=============================================================================
