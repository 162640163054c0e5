---------------------------- MODULE MCStructures ----------------------------
(* The data structures of an endpoint, for TLC.  They share no state, so    *)
(* each behaviour exercises one of them and leaves the others as they are.  *)
(*                                                                         *)
(* strike: three words of two bits, so that a slide can reuse one word, two *)
(*   words, or wrap around the ring, and nonces far enough out for a reset  *)
(*   followed by further slides.                                            *)
(* heap: two windows of twelve units, blocks of two and three units, and    *)
(*   one size that falls back to calloc().                                  *)
(* time: timestamps that wrap at 32, a window of four steps, gaps on both   *)
(*   sides of its quarter and its half, and clocks that differ by a delay.  *)
(* flood: two addresses, a rate that passes the threshold, and keys that are *)
(*   replaced every two ticks.                                              *)
(* file: views that end inside and between chunks and inside an alignment   *)
(*   unit, two files in a row and one failure of any kind.                  *)
(* hash: three keys in tables of four and eight slots: neighbours that      *)
(*   collide in the small table and separate in the large one, and a slot   *)
(*   at the wrap.                                                           *)
EXTENDS StrikeRegister, PacketAllocator, TimeSync, FloodDetector, FileTransfer,
        LightHashMap

CONSTANTS MaxNonce, MaxReorderedDatagrams

VARIABLE structure   \* the one in use

MCNonces == 0 .. MaxNonce
MCOffsets == {-9, 2}
MCHashes == {0, 1, 7}

StructuresInit ==
    /\ structure \in {"strike", "heap", "time", "flood", "file", "hash"}
    /\ Init /\ AllocatorInit /\ TimeInit /\ FloodInit /\ FileInit
    /\ HashInit
    /\ structure # "time" => offset = 2
    /\ structure # "hash" => \A k \in Keys : hash[k] = 0

StructuresNext ==
    /\ \/ /\ structure = "strike" /\ Next
          /\ UNCHANGED <<allocatorVars, timeVars, floodVars, fileVars, hashVars>>
       \/ /\ structure = "heap" /\ AllocatorNext
          /\ UNCHANGED <<vars, timeVars, floodVars, fileVars, hashVars>>
       \/ /\ structure = "time" /\ TimeNext
          /\ UNCHANGED <<vars, allocatorVars, floodVars, fileVars, hashVars>>
       \/ /\ structure = "flood" /\ FloodNext
          /\ UNCHANGED <<vars, allocatorVars, timeVars, fileVars, hashVars>>
       \/ /\ structure = "file" /\ FileNext
          /\ UNCHANGED <<vars, allocatorVars, timeVars, floodVars,
                         hashVars>>
       \/ /\ structure = "hash" /\ HashNext
          /\ UNCHANGED <<vars, allocatorVars, timeVars, floodVars, fileVars>>
    /\ UNCHANGED structure

StructuresSpec ==
    StructuresInit
      /\ [][StructuresNext]_<<structure, vars, allocatorVars, timeVars,
                              floodVars, fileVars, hashVars>>

(* TonkineseProtocol.h:330-333 states the re-ordering limit of the nonce   *)
(* window: only a datagram that is out of order by more than that many     *)
(* datagrams is refused.  A fresh nonce within the limit is therefore not  *)
(* called a duplicate.  The limit is twice the size of the window there.   *)
ReorderLimitHonoured ==
    \A sequence \in Nonces :
        /\ sequence \notin struck
        /\ sequence <= LargestSequence
        /\ LargestSequence - sequence <= MaxReorderedDatagrams
        => ~IsDuplicate(sequence)
=============================================================================
