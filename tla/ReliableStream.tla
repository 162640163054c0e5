--------------------------- MODULE ReliableStream ---------------------------
(***************************************************************************)
(* What a reliable channel promises to the application, from the two       *)
(* functions of tonk.h it sees: what tonk_send() accepted is sent, and     *)
(* OnData() delivers a growing prefix of it.                               *)
(***************************************************************************)
EXTENDS Naturals, Sequences

CONSTANT Messages

VARIABLES
    sent,       \* messages accepted, in order
    delivered   \* messages handed to OnData(), in order

streamVars == <<sent, delivered>>

StreamInit == sent = <<>> /\ delivered = <<>>

Send ==
    /\ \E m \in Messages : sent' = Append(sent, m)
    /\ UNCHANGED delivered

(* One datagram may complete a run of messages. *)
Deliver ==
    /\ \E n \in Len(delivered) + 1 .. Len(sent) :
          delivered' = SubSeq(sent, 1, n)
    /\ UNCHANGED sent

StreamSpec == StreamInit /\ [][Send \/ Deliver]_streamVars
=============================================================================
