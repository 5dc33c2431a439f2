------------------------ MODULE MCEncodedPacketQueue ------------------------
(***************************************************************************)
(* Small instances of EncodedPacketQueue.  A header of two bytes, payloads *)
(* of one, two and three bytes, one empty packet and one longer than a     *)
(* header can say, and a size_t of a few bits so that counters wrap.       *)
(***************************************************************************)
EXTENDS EncodedPacketQueue

Lengths == [a |-> 1, b |-> 2, c |-> 3, empty |-> 0, huge |-> 5]
Ids     == DOMAIN Lengths
=============================================================================
