----------------------------- MODULE PacketFifo -----------------------------
(***************************************************************************)
(* What EncodedPacketQueue promises to the two sides that use it, with no  *)
(* ring, no byte counters and no threads: a first-in first-out sequence of *)
(* whole packets, which clear() empties at one instant.                    *)
(*                                                                         *)
(* EncodedPacketQueue (the byte ring) is shown to implement this module.   *)
(***************************************************************************)
EXTENDS Naturals, Sequences

CONSTANTS Packets,      \* the packets a Source may deliver
          Acceptable(_), \* whether push() may ever take the packet
          NoPacket      \* what `output' is before the first pop()

VARIABLES fifo,         \* the packets stored, oldest first
          output        \* the packet the last pop() handed out

vars == <<fifo, output>>

Init == fifo = <<>> /\ output = NoPacket

(* push() took the packet: it is stored whole, behind every older one. *)
Accept(p) ==
    /\ Acceptable(p)
    /\ fifo' = Append(fifo, p)
    /\ UNCHANGED output

(* pop() hands out the oldest packet, unaltered, and removes it. *)
Take ==
    /\ fifo # <<>>
    /\ output' = Head(fifo)
    /\ fifo' = Tail(fifo)

(* drop() removes the oldest packet without handing it out. *)
Discard ==
    /\ fifo # <<>>
    /\ fifo' = Tail(fifo)
    /\ UNCHANGED output

(* clear(), begin() and end() leave nothing stored. *)
Empty == fifo' = <<>> /\ UNCHANGED output

Next == (\E p \in Packets : Accept(p)) \/ Take \/ Discard \/ Empty

Spec == Init /\ [][Next]_vars
=============================================================================
