--------------------------- MODULE StrikeRegister ---------------------------
(***************************************************************************)
(* The anti-replay filter of SessionIncoming (StrikeRegister.{h,cpp}).     *)
(*                                                                         *)
(* The receiver keeps a window of WordCount words of WordBits bits (64     *)
(* words of 64 bits in the code).  The window is never shifted: it is a    *)
(* ring whose first bit sits at WindowBitRotation and stands for the nonce *)
(* WindowBase.  SlidingWindow is the set of the positions of its one bits. *)
(*                                                                         *)
(* A datagram whose nonce is not a duplicate and whose tag is right is     *)
(* accepted (TonkineseIncoming.cpp:143-167).  A duplicate, and a datagram  *)
(* with a bad tag, leave the register as it is, so the only steps are the  *)
(* three ways in which Accept() strikes a nonce.                           *)
(***************************************************************************)
EXTENDS Integers

CONSTANTS
    WordBits,   \* bits per word of the window (64)
    WordCount,  \* words in the window, kWordCount (64)
    Nonces      \* the nonces a peer may use

ASSUME WordBitsAssumption == WordBits \in Nat \ {0}
ASSUME WordCountAssumption == WordCount \in Nat \ {0}
ASSUME NoncesAssumption == Nonces \subseteq Nat

Bits == WordBits * WordCount

VARIABLES
    WindowBase,         \* nonce of the first bit of the window
    WindowBitRotation,  \* where that bit sits in the ring
    LargestSequence,    \* largest nonce accepted so far
    SlidingWindow,      \* positions of the bits that are set
    struck              \* history: every nonce ever accepted

vars == <<WindowBase, WindowBitRotation, LargestSequence, SlidingWindow, struck>>

-----------------------------------------------------------------------------
(* Ring position of the nonce at this distance from the window base. *)
BitOf(distance) == (distance + WindowBitRotation) % Bits

IsDuplicate(sequence) ==
    \/ sequence < WindowBase
    \/ /\ sequence - WindowBase < Bits
       /\ BitOf(sequence - WindowBase) \in SlidingWindow

Larger(sequence) ==
    IF LargestSequence < sequence THEN sequence ELSE LargestSequence

(* Whole words the window has to advance for the sequence to fit. *)
SlideWords(sequence) ==
    (sequence - WindowBase - Bits) \div WordBits + 1

(* Fault: the last reused word keeps its old bits. *)
BugReusedBits(slideBits) == {BitOf(ii) : ii \in 0 .. slideBits - WordBits - 1}

(* The bits of the words that slide out at the front, in ring order. *)
ReusedBits(slideBits) == {BitOf(ii) : ii \in 0 .. slideBits - 1}

-----------------------------------------------------------------------------
Init ==
    /\ WindowBase = 0
    /\ WindowBitRotation = 0
    /\ LargestSequence = 0
    /\ SlidingWindow = {}
    /\ struck = {}

(* The nonce falls inside the window: its bit is set. *)
StrikeInWindow(sequence) ==
    /\ sequence - WindowBase < Bits
    /\ SlidingWindow' = SlidingWindow \cup {BitOf(sequence - WindowBase)}
    /\ LargestSequence' = Larger(sequence)
    /\ UNCHANGED <<WindowBase, WindowBitRotation>>

(* The nonce is ahead of the window by less than a whole window: the front *)
(* words are cleared and reused, and the base moves up by whole words.     *)
SlideAndStrike(sequence) ==
    LET slideBits == SlideWords(sequence) * WordBits
        rotated == WindowBitRotation + slideBits
    IN  /\ sequence - WindowBase >= Bits
        /\ SlideWords(sequence) < WordCount
        /\ WindowBase' = WindowBase + slideBits
        /\ WindowBitRotation' = IF rotated >= Bits THEN rotated - Bits ELSE rotated
        /\ SlidingWindow' = (SlidingWindow \ ReusedBits(slideBits))
                              \cup {(sequence - WindowBase' + WindowBitRotation') % Bits}
        /\ LargestSequence' = Larger(sequence)

(* Fault: the nonce that restarts the window is not struck. *)
BugResetAndStrike(sequence) ==
    /\ sequence - WindowBase >= Bits
    /\ SlideWords(sequence) >= WordCount
    /\ WindowBase' = sequence
    /\ LargestSequence' = sequence
    /\ WindowBitRotation' = 0
    /\ SlidingWindow' = {}

(* No bit of the window would survive the slide: it restarts at the nonce. *)
ResetAndStrike(sequence) ==
    /\ sequence - WindowBase >= Bits
    /\ SlideWords(sequence) >= WordCount
    /\ WindowBase' = sequence
    /\ LargestSequence' = sequence
    /\ WindowBitRotation' = 0
    /\ SlidingWindow' = {0}

Accept(sequence) ==
    \/ StrikeInWindow(sequence)
    \/ SlideAndStrike(sequence)
    \/ ResetAndStrike(sequence)

(* A datagram with this nonce passes the duplicate check and the tag check. *)
Receive(sequence) ==
    /\ ~IsDuplicate(sequence)
    /\ Accept(sequence)
    /\ struck' = struck \cup {sequence}

Next == \E sequence \in Nonces : Receive(sequence)

Spec == Init /\ [][Next]_vars
-----------------------------------------------------------------------------
TypeOK ==
    /\ WindowBase \in Nat
    /\ WindowBitRotation \in 0 .. Bits - 1
    /\ LargestSequence \in Nat
    /\ SlidingWindow \subseteq 0 .. Bits - 1
    /\ struck \subseteq Nat

(* The bits of the window are exactly the accepted nonces it covers, and   *)
(* no accepted nonce lies beyond it.                                       *)
WindowExact ==
    /\ \A sequence \in struck : sequence < WindowBase + Bits
    /\ \A sequence \in WindowBase .. WindowBase + Bits - 1 :
          BitOf(sequence - WindowBase) \in SlidingWindow <=> sequence \in struck

(* Every nonce that was ever accepted is reported as a duplicate from then *)
(* on, however the window has slid, wrapped around or been reset since:    *)
(* the same datagram is never processed twice (StrikeRegister::Accept and  *)
(* IsDuplicate agree on the rotated positions).                            *)
StruckIsDuplicate == \A sequence \in struck : IsDuplicate(sequence)

(* A nonce that was never accepted and is not older than the window is not *)
(* reported as a duplicate: no bit left over from a reused word shadows a  *)
(* fresh datagram.                                                         *)
FreshIsNotDuplicate ==
    \A sequence \in Nonces :
        sequence >= WindowBase /\ sequence \notin struck => ~IsDuplicate(sequence)

(* As the window advances without a reset, the base trails the newest nonce *)
(* by at least the whole window less one word: Accept() slides no further   *)
(* than the new nonce needs.                                                *)
SlidesNoFurtherThanNeeded ==
    [][WindowBase' # WindowBase /\ WindowBase' # LargestSequence'
         => LargestSequence' - WindowBase' >= Bits - WordBits]_vars
=============================================================================
