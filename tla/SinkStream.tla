----------------------------- MODULE SinkStream -----------------------------
(***************************************************************************)
(* What A2dpSinkStream promises to whoever feeds and controls it, the      *)
(* EspBle adapter first of all.  A stream that is not started stores       *)
(* nothing.  Packets are accepted only while it is started, leave in the   *)
(* order in which they came, or all at once.  A configuration in force is  *)
(* not applied again, and only one the decoder knows makes it ready.       *)
(***************************************************************************)
EXTENDS Sequences

CONSTANTS
    Packets,
    Formats,   \* EncodedAudioFormat values: records with a field `codec'
    NoFormat   \* the format of a stream that was not told any

VARIABLES
    started,   \* begin() succeeded, end() was not called since
    codec,     \* codecConfig()
    ready,     \* isReady()
    stored     \* packets accepted and not yet decoded or discarded

sink == <<started, codec, ready, stored>>

Init == started = FALSE /\ codec = NoFormat /\ ready = FALSE /\ stored = <<>>

Begun(ok) ==
    started' = ok /\ codec' = NoFormat /\ ready' = FALSE /\ stored' = <<>>

(* begin() gives a new stream or, like end(), none.                         *)
Start == Begun(TRUE)
Stop  == Begun(FALSE)

Renews(f) == f # codec \/ ~ready

(* setCodecConfig(); `ok' is whether it settles the PCM format.             *)
Negotiate(f, ok) ==
    /\ started /\ Renews(f)
    /\ ok => f.codec = "Sbc"
    /\ codec' = f /\ ready' = ok
    /\ UNCHANGED <<started, stored>>

(* reset(), and the end of a setCodecConfig() that applied something.       *)
Empty == stored' = <<>> /\ UNCHANGED <<started, codec, ready>>

Accept(p) ==
    /\ started
    /\ stored' = Append(stored, p)
    /\ UNCHANGED <<started, codec, ready>>

(* update() takes a packet only when it can decode it.                      *)
Take ==
    /\ ready /\ stored # <<>>
    /\ stored' = Tail(stored)
    /\ UNCHANGED <<started, codec, ready>>

Next ==
    \/ Start \/ Stop \/ Empty \/ Take
    \/ \E f \in Formats, ok \in BOOLEAN : Negotiate(f, ok)
    \/ \E p \in Packets : Accept(p)

Spec == Init /\ [][Next]_sink
=============================================================================
