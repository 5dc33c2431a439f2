----------------------- MODULE EspBleA2dpSinkAdapter -----------------------
(***************************************************************************)
(* src/EspBleA2dpSinkAdapter.{h,cpp}: an EspBle transport wired to an      *)
(* A2dpSinkStream.                                                         *)
(*                                                                         *)
(* Two tasks.  The Bluetooth task changes the links, posts a control event *)
(* for each change, and calls onMedia().  The application's task           *)
(* dispatches the posted events to the adapter's handlers and calls        *)
(* begin(), end() and update(); `todo' is what remains of the call it is   *)
(* in, cut wherever the media callback could see the difference.  The      *)
(* stream is the abstract SinkStream that A2dpSinkStream implements.       *)
(***************************************************************************)
EXTENDS Integers, Sequences

CONSTANTS
    Peers,         \* connection ids; 0 is none
    Codecs,        \* codec configurations a peer may negotiate: [codec, rate]
    Mtus,          \* media MTUs a connection may have
    Configured,    \* maximumPacketBytes the application may pass to begin()
    Room,          \* packets the encoded queue has room for
    OnePeer,       \* whether a peer connects only when no other is there
    AttachAnytime, \* whether begin() may come between codec and connection
    MaxPending     \* bound: events posted and not yet dispatched

NoCodec    == [codec |-> "Unknown", rate |-> 0]
KnownNames == {"Sbc", "Msbc", "Cvsd"}

(* toEncodedAudioFormat(): a codec the library does not name is Unknown.    *)
ToEncodedAudioFormat(c) ==
    [codec |-> IF c.codec \in KnownNames THEN c.codec ELSE "Unknown", rate |-> c.rate]

Formats == {ToEncodedAudioFormat(c) : c \in Codecs}
Packet  == [peer : Peers, codec : Codecs]

ASSUME AdapterAssumption ==
    /\ Peers \subseteq Nat \ {0}
    /\ Codecs \subseteq [codec : STRING, rate : Nat] /\ NoCodec \notin Codecs
    /\ Mtus \subseteq Nat /\ Configured \subseteq Nat
    /\ Room \in Nat
    /\ OnePeer \in BOOLEAN /\ AttachAnytime \in BOOLEAN
    /\ MaxPending \in Nat

VARIABLES
    (* the transport *)
    link,       \* for each peer: [up, codec, mtu, streaming]
    events,     \* control events posted and not yet dispatched
    (* the adapter *)
    attached,   \* transport_, and the control callbacks with it
    mediaOn,    \* the media callback is registered
    have,       \* haveConnection_
    connection, \* connectionId_
    connected,  \* connected_
    streaming,  \* streaming_
    (* its stream *)
    maxPacket,  \* config().maximumPacketBytes
    started, codec, ready, stored,
    (* the tasks *)
    todo,       \* the application: what remains of the call it is in
    media,      \* the Bluetooth task: where onMedia() is, and its locals
    stale,      \* history: how many of `stored' are of a session that is over
    dangling    \* history: what freed the storage under a running push()

transport == <<link, events>>
wiring    == <<attached, mediaOn>>
accepted  == <<have, connection, connected, streaming>>
stream    == <<maxPacket, started, codec, ready, stored, stale>>
vars      == <<transport, wiring, accepted, stream, todo, media, dangling>>

Sink == INSTANCE SinkStream
            WITH Packets <- Packet, NoFormat <- NoCodec

-----------------------------------------------------------------------------
(* The transport: EspBleClassicA2dpSink, and the peers behind it. *)

Down  == [up |-> FALSE, codec |-> NoCodec, mtu |-> 0, streaming |-> FALSE]
Links == [up : BOOLEAN, codec : Codecs \cup {NoCodec}, mtu : Mtus \cup {0},
          streaming : BOOLEAN]

(* A control event, and a step of the application's task; `codec' and       *)
(* `bytes' are what it carries.                                             *)
Call(do, p, c, n) == [do |-> do, peer |-> p, codec |-> c, bytes |-> n]

(* Its queries: connected() with connection(), and streaming().             *)
UpPeers       == {p \in Peers : link[p].up}
Streams       == \E p \in Peers : link[p].streaming
Negotiated(p) == link[p].codec # NoCodec
HalfOpen(p)   == ~link[p].up /\ Negotiated(p)
Reachable(p)  == OnePeer => \A q \in Peers \ {p} : link[q] = Down

(* The Bluetooth task changes the link of p and tells the application.      *)
Change(p, new, event) ==
    /\ media.pc = "idle" /\ Len(events) < MaxPending
    /\ link' = [link EXCEPT ![p] = new]
    /\ events' = Append(events, event)
    /\ stale' = IF event.do \in {"disconnected", "suspended"} THEN Len(stored) ELSE stale
    /\ UNCHANGED <<wiring, accepted, maxPacket, started, codec, ready, stored,
                   todo, media, dangling>>

(* The codec may be configured before the connection is reported.           *)
ConfigureCodec(p, c) ==
    /\ Reachable(p) /\ ~link[p].streaming /\ c # link[p].codec
    /\ Change(p, [link[p] EXCEPT !.codec = c], Call("codec", p, c, 0))

Connect(p, mtu) ==
    /\ Reachable(p) /\ ~link[p].up
    /\ Change(p, [link[p] EXCEPT !.up = TRUE, !.mtu = mtu], Call("connected", p, NoCodec, mtu))

StartStream(p) ==
    /\ link[p].up /\ Negotiated(p) /\ ~link[p].streaming
    /\ Change(p, [link[p] EXCEPT !.streaming = TRUE], Call("started", p, NoCodec, 0))

SuspendStream(p) ==
    /\ link[p].streaming
    /\ Change(p, [link[p] EXCEPT !.streaming = FALSE], Call("suspended", p, NoCodec, 0))

Disconnect(p) == link[p].up /\ Change(p, Down, Call("disconnected", p, NoCodec, 0))

-----------------------------------------------------------------------------
(* onMedia(), in the Bluetooth task. *)

NoMedia == [pc |-> "idle", peer |-> 0, read |-> {}, have |-> FALSE, id |-> 0]

MediaArrives(p) ==
    /\ mediaOn /\ media.pc = "idle" /\ link[p].streaming
    /\ media' = [NoMedia EXCEPT !.pc = "check", !.peer = p]
    /\ UNCHANGED <<transport, wiring, accepted, stream, todo, dangling>>

(* Two plain fields that the other task may be writing: each is loaded on   *)
(* its own, in either order.                                                *)
ReadHave ==
    /\ media.pc = "check" /\ "have" \notin media.read
    /\ media' = [media EXCEPT !.read = @ \cup {"have"}, !.have = have]
    /\ UNCHANGED <<transport, wiring, accepted, stream, todo, dangling>>

ReadId ==
    /\ media.pc = "check" /\ "id" \notin media.read
    /\ media' = [media EXCEPT !.read = @ \cup {"id"}, !.id = connection]
    /\ UNCHANGED <<transport, wiring, accepted, stream, todo, dangling>>

Checked   == media.pc = "check" /\ media.read = {"have", "id"}
IsForeign == media.have /\ media.peer # media.id

DropForeign ==
    /\ Checked /\ IsForeign
    /\ media' = NoMedia
    /\ UNCHANGED <<transport, wiring, accepted, stream, todo, dangling>>

(* An empty payload; pushEncoded() on a stream that is not started, or      *)
(* without room.                                                            *)
DropMedia ==
    /\ Checked /\ ~IsForeign
    /\ media' = NoMedia
    /\ UNCHANGED <<transport, wiring, accepted, stream, todo, dangling>>

(* pushEncoded() has found the stream started, and room in the storage.     *)
EnterPushUnbounded ==
    /\ Checked /\ ~IsForeign /\ started
    /\ media' = [media EXCEPT !.pc = "copy"]
    /\ UNCHANGED <<transport, wiring, accepted, stream, todo, dangling>>

EnterPush ==
    /\ Checked /\ ~IsForeign /\ started /\ Len(stored) < Room
    /\ media' = [media EXCEPT !.pc = "copy"]
    /\ UNCHANGED <<transport, wiring, accepted, stream, todo, dangling>>

Carried == [peer |-> media.peer, codec |-> link[media.peer].codec]

(* The copy is published.  When the storage it went to was freed meanwhile, *)
(* what is left behind is anything; here, the packet or nothing.            *)
FinishPush ==
    /\ media.pc = "copy"
    /\ \/ Sink!Accept(Carried)
       \/ dangling # "no" /\ UNCHANGED <<started, codec, ready, stored>>
    /\ media' = NoMedia /\ dangling' = "no"
    /\ UNCHANGED <<transport, wiring, accepted, maxPacket, stale, todo>>

MediaSteps == ReadHave \/ ReadId \/ DropForeign \/ DropMedia \/ EnterPush \/ FinishPush

-----------------------------------------------------------------------------
(* The application's task: the first step of what it has to do. *)

Own(do)         == Call(do, 0, NoCodec, 0)
Apply(c)        == Call("apply", 0, c, 0)
Restart(c, mtu) == Call("restart", 0, c, mtu)
Allocate(bytes) == Call("allocate", 0, NoCodec, bytes)

Doing(do)   == todo # <<>> /\ Head(todo).do = do
Then(steps) == todo' = steps \o Tail(todo)
Now         == Head(todo)

(* Every buffer is freed; the media callback may be copying into one.       *)
FreedBy(who) == dangling' = IF media.pc = "copy" THEN who ELSE dangling

(* reset() *)
EmptyStream ==
    /\ Doing("empty")
    /\ Sink!Empty /\ stale' = 0
    /\ Then(<<>>)
    /\ UNCHANGED <<transport, wiring, accepted, maxPacket, media, dangling>>

(* setCodecConfig(), up to the reset() with which it ends; without it when  *)
(* the PCM ring cannot be rebuilt.                                          *)
ApplyCodec ==
    /\ Doing("apply")
    /\ \/ /\ ~(started /\ Sink!Renews(Now.codec))
          /\ Then(<<>>)
          /\ UNCHANGED <<started, codec, ready, stored>>
       \/ /\ Sink!Negotiate(Now.codec, Now.codec.codec = "Sbc")
          /\ Then(<<Own("empty")>>)
       \/ /\ Now.codec.codec = "Sbc" /\ Sink!Negotiate(Now.codec, FALSE)
          /\ Then(<<>>)
    /\ UNCHANGED <<transport, wiring, accepted, maxPacket, stale, media, dangling>>

(* The restart for a larger MTU: stream_.begin() frees everything first.    *)
FreeStream ==
    /\ Doing("free")
    /\ Sink!Stop /\ stale' = 0
    /\ FreedBy("restart")
    /\ Then(<<>>)
    /\ UNCHANGED <<transport, wiring, accepted, maxPacket, media>>

RestartForgetsCodec ==
    /\ Doing("restart")
    /\ maxPacket' = Now.bytes /\ stale' = 0
    /\ Sink!Start \/ Sink!Stop
    /\ Then(<<>>)
    /\ UNCHANGED <<transport, wiring, accepted, media, dangling>>

RestartStream ==
    /\ Doing("restart")
    /\ maxPacket' = Now.bytes /\ stale' = 0
    /\ \/ Sink!Start /\ Then(IF Now.codec.codec # "Unknown" THEN <<Apply(Now.codec)>> ELSE <<>>)
       \/ Sink!Stop /\ Then(<<>>)
    /\ UNCHANGED <<transport, wiring, accepted, media, dangling>>

-----------------------------------------------------------------------------
(* The handlers.  What another peer than the accepted one reports is        *)
(* ignored.                                                                 *)

OfAnother(p) == have /\ p # connection

Ignore(do) ==
    /\ Doing(do) /\ OfAnother(Now.peer)
    /\ Then(<<>>)
    /\ UNCHANGED <<transport, wiring, accepted, stream, media, dangling>>

(* The new size is used from the restart on. *)
Grown == IF Now.bytes > maxPacket THEN <<Own("free"), Restart(codec, Now.bytes)>> ELSE <<>>

OnConnected ==
    /\ Doing("connected") /\ ~OfAnother(Now.peer)
    /\ connection' = Now.peer /\ have' = TRUE /\ connected' = TRUE
    /\ Then(Grown)
    /\ UNCHANGED <<transport, wiring, streaming, stream, media, dangling>>

OnDisconnected ==
    /\ Doing("disconnected") /\ ~OfAnother(Now.peer)
    /\ connection' = 0 /\ have' = FALSE /\ connected' = FALSE /\ streaming' = FALSE
    /\ Then(<<Own("empty")>>)
    /\ UNCHANGED <<transport, wiring, stream, media, dangling>>

OnCodecConfigured ==
    /\ Doing("codec") /\ ~OfAnother(Now.peer)
    /\ connection' = Now.peer /\ have' = TRUE
    /\ Then(<<Apply(ToEncodedAudioFormat(Now.codec))>>)
    /\ UNCHANGED <<transport, wiring, connected, streaming, stream, media, dangling>>

PauseKeepsBuffer ==
    /\ Doing("started") \/ Doing("suspended")
    /\ ~OfAnother(Now.peer)
    /\ streaming' = (Now.do = "started")
    /\ Then(<<>>)
    /\ UNCHANGED <<transport, wiring, have, connection, connected, stream, media, dangling>>

OnStreamStateChanged ==
    /\ Doing("started") \/ Doing("suspended")
    /\ ~OfAnother(Now.peer)
    /\ streaming' = (Now.do = "started")
    /\ Then(IF Now.do = "started" THEN <<>> ELSE <<Own("empty")>>)
    /\ UNCHANGED <<transport, wiring, have, connection, connected, stream,
                   media, dangling>>

Handlers ==
    \/ OnConnected \/ OnDisconnected \/ OnCodecConfigured \/ OnStreamStateChanged
    \/ \E do \in {"connected", "disconnected", "codec", "started", "suspended"} : Ignore(do)

(* EspBleClassic::update(): an event that nobody is registered for is lost. *)
Dispatch ==
    /\ todo = <<>> /\ events # <<>>
    /\ events' = Tail(events)
    /\ todo' = IF attached THEN <<Head(events)>> ELSE <<>>
    /\ UNCHANGED <<link, wiring, accepted, stream, media, dangling>>

-----------------------------------------------------------------------------
(* begin() and end(). *)

EndingBarrierLast == <<Own("release"), Own("unregister"), Own("barrier")>>

Ending == IF attached
          THEN <<Own("unregister"), Own("barrier"), Own("release")>>
          ELSE <<Own("release")>>

Begins(steps) ==
    /\ todo = <<>>
    /\ todo' = Ending \o steps
    /\ UNCHANGED <<transport, wiring, accepted, stream, media, dangling>>

Begin(bytes) ==
    /\ AttachAnytime \/ \A p \in Peers : ~HalfOpen(p)
    /\ Begins(<<Allocate(bytes), Own("register"), Own("query"), Own("queryStreaming")>>)

End == Begins(<<>>)

(* onMedia({}): no callback enters any more, and it waits for the last.     *)
UnregisterNothing ==
    /\ Doing("unregister")
    /\ Then(<<>>)
    /\ UNCHANGED <<transport, wiring, accepted, stream, media, dangling>>

Unregister ==
    /\ Doing("unregister")
    /\ mediaOn' = FALSE
    /\ Then(<<>>)
    /\ UNCHANGED <<transport, attached, accepted, stream, media, dangling>>

Barrier ==
    /\ Doing("barrier") /\ media.pc = "idle"
    /\ Then(<<>>)
    /\ UNCHANGED <<transport, wiring, accepted, stream, media, dangling>>

Release ==
    /\ Doing("release")
    /\ attached' = FALSE
    /\ have' = FALSE /\ connection' = 0 /\ connected' = FALSE /\ streaming' = FALSE
    /\ Sink!Stop /\ stale' = 0
    /\ FreedBy("end")
    /\ Then(<<>>)
    /\ UNCHANGED <<transport, mediaOn, maxPacket, media>>

(* stream_.begin(); when it fails begin() returns with nothing registered.  *)
AllocateGoesOn ==
    /\ Doing("allocate")
    /\ maxPacket' = Now.bytes /\ stale' = 0
    /\ \/ Sink!Start /\ attached' = TRUE
       \/ Sink!Stop /\ attached' = FALSE
    /\ Then(<<>>)
    /\ UNCHANGED <<transport, mediaOn, accepted, media, dangling>>

AllocateStream ==
    /\ Doing("allocate")
    /\ maxPacket' = Now.bytes /\ stale' = 0
    /\ \/ Sink!Start /\ attached' = TRUE /\ Then(<<>>)
       \/ Sink!Stop /\ attached' = FALSE /\ todo' = <<>>
    /\ UNCHANGED <<transport, mediaOn, accepted, media, dangling>>

Register ==
    /\ Doing("register")
    /\ mediaOn' = TRUE
    /\ Then(<<>>)
    /\ UNCHANGED <<transport, attached, accepted, stream, media, dangling>>

(* Control events are not replayed: the transport is asked for its state.   *)
QueryConnectionOnly ==
    /\ Doing("query")
    /\ \/ UpPeers = {} /\ Then(<<>>)
       \/ \E p \in UpPeers : Then(<<Call("connected", p, NoCodec, link[p].mtu)>>)
    /\ UNCHANGED <<transport, wiring, accepted, stream, media, dangling>>

Query ==
    /\ Doing("query")
    /\ \/ UpPeers = {} /\ Then(<<>>)
       \/ \E p \in UpPeers :
            Then(<<Call("connected", p, NoCodec, link[p].mtu), Own("queryCodec")>>)
    /\ UNCHANGED <<transport, wiring, accepted, stream, media, dangling>>


QueryCodec ==
    /\ Doing("queryCodec")
    /\ \/ (\A p \in Peers : ~Negotiated(p)) /\ Then(<<>>)
       \/ \E p \in Peers : Negotiated(p) /\ Then(<<Call("codec", p, link[p].codec, 0)>>)
    /\ UNCHANGED <<transport, wiring, accepted, stream, media, dangling>>

QueryStreaming ==
    /\ Doing("queryStreaming")
    /\ streaming' = Streams
    /\ Then(<<>>)
    /\ UNCHANGED <<transport, wiring, have, connection, connected, stream,
                   media, dangling>>

Lifetime ==
    \/ Unregister \/ Barrier \/ Release
    \/ AllocateStream \/ Register \/ Query \/ QueryCodec \/ QueryStreaming

(* update() takes a packet to decode. *)
Update ==
    /\ todo = <<>> /\ Sink!Take
    /\ stale' = IF stale = 0 THEN 0 ELSE stale - 1
    /\ UNCHANGED <<transport, wiring, accepted, maxPacket, todo, media, dangling>>

-----------------------------------------------------------------------------

Init ==
    /\ link = [p \in Peers |-> Down] /\ events = <<>>
    /\ attached = FALSE /\ mediaOn = FALSE
    /\ have = FALSE /\ connection = 0 /\ connected = FALSE /\ streaming = FALSE
    /\ maxPacket \in Configured /\ Sink!Init
    /\ todo = <<>> /\ media = NoMedia
    /\ stale = 0 /\ dangling = "no"

LinkSteps(p) ==
    \/ \E c \in Codecs : ConfigureCodec(p, c)
    \/ \E mtu \in Mtus : Connect(p, mtu)
    \/ StartStream(p) \/ SuspendStream(p) \/ Disconnect(p)

StreamSteps == EmptyStream \/ ApplyCodec \/ FreeStream \/ RestartStream
CallSteps   == StreamSteps \/ Handlers \/ Lifetime

Next ==
    \/ \E p \in Peers : LinkSteps(p) \/ MediaArrives(p)
    \/ MediaSteps \/ CallSteps \/ Update
    \/ Dispatch \/ \E bytes \in Configured : Begin(bytes)
    \/ End

Spec == Init /\ [][Next]_vars

(* The loop of the sketches dispatches what was posted, again and again     *)
(* between its other calls; a call that has begun, of either task, goes on  *)
(* until it ends.                                                           *)
Fairness == WF_vars(CallSteps) /\ WF_vars(MediaSteps) /\ SF_vars(Dispatch)

FairSpec == Spec /\ Fairness

-----------------------------------------------------------------------------
(* Properties. *)

AnyCodec == Codecs \cup Formats \cup {NoCodec}

Calls ==
    [do : {"connected", "disconnected", "codec", "started", "suspended",
           "unregister", "barrier", "release", "allocate", "register", "query",
           "queryCodec", "queryStreaming", "apply", "empty", "free", "restart"},
     peer : Peers \cup {0}, codec : AnyCodec, bytes : Mtus \cup Configured \cup {0}]

(* Type correctness; the queue never holds more than it has room for.       *)
TypeOK ==
    /\ link \in [Peers -> Links] /\ events \in Seq(Calls)
    /\ attached \in BOOLEAN /\ mediaOn \in BOOLEAN
    /\ have \in BOOLEAN /\ connection \in Peers \cup {0}
    /\ connected \in BOOLEAN /\ streaming \in BOOLEAN
    /\ maxPacket \in Mtus \cup Configured
    /\ started \in BOOLEAN /\ codec \in Formats \cup {NoCodec} /\ ready \in BOOLEAN
    /\ stored \in Seq([peer : Peers, codec : Codecs \cup {NoCodec}])
    /\ Len(stored) <= Room /\ stale \in 0 .. Len(stored)
    /\ todo \in Seq(Calls)
    /\ media \in [pc : {"idle", "check", "copy"}, peer : Peers \cup {0},
                  read : SUBSET {"have", "id"}, have : BOOLEAN, id : Peers \cup {0}]
    /\ dangling \in {"no", "end", "restart"}

(* "No callback can be running against the stream by the time it is torn    *)
(* down" (EspBleA2dpSinkAdapter.h:67-69): no end() frees the storage into   *)
(* which the media callback is copying, whenever it is called.              *)
EndIsABarrier == dangling # "end"

(* The same of every call: "a lifetime barrier that rules out               *)
(* use-after-free" (SPEC.md:282).                                           *)
NoUseAfterFree == dangling = "no"

(* After end(), or a begin() that returned false, nothing is registered, no *)
(* callback is inside and the stream holds nothing.                         *)
DetachedIsQuiet ==
    ~attached /\ todo = <<>> => ~mediaOn /\ media.pc = "idle" /\ ~started

Settled == attached /\ todo = <<>> /\ events = <<>>

(* The same decoder and its settings; a codec the library does not name has *)
(* no decoder, and the restart carries nothing over for it (line 133).      *)
Agrees(f, g) == f = g \/ (f.codec = "Unknown" /\ g.codec = "Unknown")

(* When everything that was posted has been handled, the adapter says what  *)
(* the transport says, and its stream, if it has one, is configured with    *)
(* the codec that the peer sends (whether the PCM ring for it could be      *)
(* allocated is another matter, and isReady() tells).  It takes one peer at *)
(* a time, an adapter not attached between a codec and its connection       *)
(* (AttachAnytime), and a stream that is asked to grow at most once.        *)
InSync ==
    Settled /\ started =>
        /\ connected = (UpPeers # {})
        /\ streaming = Streams
        /\ \A p \in UpPeers :
            Negotiated(p) => Agrees(codec, ToEncodedAudioFormat(link[p].codec))

(* "Nothing buffered belongs to the next session" (lines 150 and 180-182):  *)
(* when everything posted has been handled, no packet from before a pause,  *)
(* a disconnection or a renegotiation is left, so none is decoded with the  *)
(* configuration of another session.                                        *)
OneSession ==
    Settled /\ ready =>
        /\ stale = 0
        /\ \A i \in DOMAIN stored : ToEncodedAudioFormat(stored[i].codec) = codec

(* "A second one's audio is dropped rather than mixed into the first"       *)
(* (EspBleA2dpSinkAdapter.h:99-101).                                        *)
OnePeerStored == \A i, j \in DOMAIN stored : stored[i].peer = stored[j].peer

(* A configuration that a connected peer keeps reaches the stream, although *)
(* nobody reports it twice.                                                 *)
CodecArrives ==
    \A p \in Peers, c \in Codecs :
        (attached /\ link[p].up /\ link[p].codec = c)
            ~> \/ Agrees(codec, ToEncodedAudioFormat(c)) \/ link[p].codec # c
               \/ ~attached \/ ~started

(* begin(), end() and every handler return, although end() waits for the    *)
(* media callback, and never for ever.                                      *)
CallsReturn == todo # <<>> ~> todo = <<>>
=============================================================================
