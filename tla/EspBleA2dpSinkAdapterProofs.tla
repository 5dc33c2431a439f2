-------------------- MODULE EspBleA2dpSinkAdapterProofs --------------------
(***************************************************************************)
(* Theorems about EspBleA2dpSinkAdapter, for every number of peers, codecs *)
(* and packets, and for every order of connections, events and calls.      *)
(***************************************************************************)
EXTENDS EspBleA2dpSinkAdapter, SequenceTheorems, TLAPS

-----------------------------------------------------------------------------
(* The invariant of the types. *)

(* What the handlers and the stream are given is what they can take.        *)
Fitting ==
    {c \in Calls :
        /\ c.do \in {"allocate", "restart"} => c.bytes \in Mtus \cup Configured
        /\ c.do \in {"apply", "restart"} => c.codec \in Formats \cup {NoCodec}
        /\ c.do = "codec" => c.codec \in Codecs}

EventNames == {"connected", "disconnected", "codec", "started", "suspended"}
Posted     == {c \in Fitting : c.do \in EventNames}

StoredPacket == [peer : Peers, codec : Codecs \cup {NoCodec}]
MediaStates  == [pc : {"idle", "check", "copy"}, peer : Peers \cup {0},
                 read : SUBSET {"have", "id"}, have : BOOLEAN, id : Peers \cup {0}]

LinkType == link \in [Peers -> Links] /\ events \in Seq(Posted)

FlagsType ==
    /\ attached \in BOOLEAN /\ mediaOn \in BOOLEAN
    /\ have \in BOOLEAN /\ connection \in Peers \cup {0}
    /\ connected \in BOOLEAN /\ streaming \in BOOLEAN

StreamType ==
    /\ maxPacket \in Mtus \cup Configured
    /\ started \in BOOLEAN /\ codec \in Formats \cup {NoCodec} /\ ready \in BOOLEAN
    /\ stored \in Seq(StoredPacket) /\ Len(stored) <= Room
    /\ stale \in 0 .. Len(stored)

TodoType == todo \in Seq(Fitting)

(* The room that pushEncoded() has seen is not taken by anyone else.        *)
MediaType ==
    /\ media \in MediaStates
    /\ media.pc # "idle" => media.peer \in Peers
    /\ media.pc = "copy" => Len(stored) < Room
    /\ dangling \in {"no", "end", "restart"}

TypeInv == LinkType /\ FlagsType /\ StreamType /\ TodoType /\ MediaType

LEMMA TypeInvTypes == TypeInv => TypeOK
<1>1. SUFFICES ASSUME TypeInv PROVE TypeOK
  OBVIOUS
<1>2. Posted \subseteq Calls /\ Fitting \subseteq Calls
  BY DEF Posted, Fitting
<1>3. events \in Seq(Calls) /\ todo \in Seq(Calls)
  BY <1>1, <1>2, SeqMonotonic DEF TypeInv, LinkType, TodoType
<1>. QED BY <1>1, <1>3 DEF TypeInv, LinkType, FlagsType, StreamType, MediaType, TypeOK,
            StoredPacket, MediaStates

-----------------------------------------------------------------------------
(* Calls, and the queue of what is left to do. *)

LEMMA CallType ==
    ASSUME NEW name \in {"connected", "disconnected", "codec", "started", "suspended",
                         "unregister", "barrier", "release", "allocate", "register",
                         "query", "queryCodec", "queryStreaming", "apply", "empty",
                         "free", "restart"},
           NEW p \in Peers \cup {0}, NEW c \in AnyCodec,
           NEW n \in Mtus \cup Configured \cup {0},
           name \in {"allocate", "restart"} => n \in Mtus \cup Configured,
           name \in {"apply", "restart"} => c \in Formats \cup {NoCodec},
           name = "codec" => c \in Codecs
    PROVE  /\ Call(name, p, c, n) \in Fitting /\ Call(name, p, c, n).do = name
           /\ Call(name, p, c, n).bytes = n /\ Call(name, p, c, n).peer = p
           /\ name \in EventNames => Call(name, p, c, n) \in Posted
BY DEF Call, Calls, Fitting, Posted

LEMMA OwnType ==
    ASSUME NEW name \in {"unregister", "barrier", "release", "register", "query",
                         "queryCodec", "queryStreaming", "empty", "free"}
    PROVE  Own(name) \in Fitting /\ Own(name).do = name
<1>1. NoCodec \in AnyCodec
  BY DEF AnyCodec
<1>2. /\ name \notin {"allocate", "restart"} /\ name \notin {"apply", "restart"}
      /\ name # "codec"
  OBVIOUS
<1>. QED BY <1>1, <1>2, CallType DEF Own

LEMMA FormatType == \A c \in Codecs : ToEncodedAudioFormat(c) \in Formats
BY DEF Formats

LEMMA ThenType ==
    ASSUME NEW steps \in Seq(Fitting), todo \in Seq(Fitting), todo # <<>>, Then(steps)
    PROVE  /\ todo' \in Seq(Fitting)
           /\ Len(todo') = Len(steps) + Len(todo) - 1 /\ Len(steps) \in Nat /\ Len(todo) \in Nat
           /\ Len(todo) >= 1
           /\ \A k \in 1 .. Len(steps) : todo'[k] = steps[k]
           /\ \A k \in Len(steps) + 1 .. Len(todo') :
                 todo'[k] = todo[k - Len(steps) + 1]
<1>1. /\ Tail(todo) \in Seq(Fitting) /\ Len(Tail(todo)) = Len(todo) - 1
      /\ \A i \in 1 .. Len(Tail(todo)) : Tail(todo)[i] = todo[i + 1]
  BY HeadTailProperties
<1>2. Len(todo) \in Nat /\ Len(steps) \in Nat /\ Len(todo) >= 1
  BY LenProperties, EmptySeq, <1>1
<1>3. /\ steps \o Tail(todo) \in Seq(Fitting)
      /\ Len(steps \o Tail(todo)) = Len(steps) + Len(Tail(todo))
      /\ \A i \in 1 .. Len(steps) + Len(Tail(todo)) : (steps \o Tail(todo))[i] =
            IF i <= Len(steps) THEN steps[i] ELSE Tail(todo)[i - Len(steps)]
  BY <1>1, ConcatProperties
<1>. QED BY <1>1, <1>2, <1>3 DEF Then

LEMMA NoSteps == <<>> \in Seq(Fitting) /\ Len(<<>>) = 0
BY EmptySeq

LEMMA OneStep ==
    ASSUME NEW c \in Fitting
    PROVE  <<c>> \in Seq(Fitting) /\ Len(<<c>>) = 1 /\ <<c>>[1] = c
OBVIOUS

LEMMA TwoSteps ==
    ASSUME NEW c \in Fitting, NEW d \in Fitting
    PROVE  <<c, d>> \in Seq(Fitting) /\ Len(<<c, d>>) = 2 /\ <<c, d>>[1] = c /\ <<c, d>>[2] = d
OBVIOUS

LEMMA NowType ==
    ASSUME todo \in Seq(Fitting), todo # <<>>
    PROVE  Now \in Fitting /\ Now = todo[1] /\ Len(todo) \in Nat /\ Len(todo) >= 1
BY HeadTailProperties, LenProperties, EmptySeq DEF Now
-----------------------------------------------------------------------------
(* The stream. *)

LEMMA RestartedType ==
    ASSUME TypeInv, Sink!Start \/ Sink!Stop, stale' = 0, maxPacket' \in Mtus \cup Configured
    PROVE  StreamType' /\ stored' = <<>> /\ Len(stored') = 0
<1>1. started' \in BOOLEAN
  BY DEF Sink!Start, Sink!Stop, Sink!Begun
<1>2. codec' = NoCodec /\ stored' = <<>> /\ ready' \in BOOLEAN
  BY DEF Sink!Start, Sink!Stop, Sink!Begun
<1>3. stored' \in Seq(StoredPacket) /\ Len(stored') = 0
  BY <1>2, EmptySeq
<1>4. Room \in Nat
  BY AdapterAssumption
<1>. QED BY <1>1, <1>2, <1>3, <1>4 DEF StreamType

LEMMA EmptiedType ==
    ASSUME TypeInv, Sink!Empty, stale' = 0, UNCHANGED maxPacket
    PROVE  StreamType' /\ Len(stored') = 0
<1>1. /\ stored' = <<>> /\ UNCHANGED <<started, codec, ready>>
  BY DEF Sink!Empty
<1>2. stored' \in Seq(StoredPacket) /\ Len(stored') = 0
  BY <1>1, EmptySeq
<1>3. Room \in Nat
  BY AdapterAssumption
<1>. QED BY <1>1, <1>2, <1>3 DEF StreamType, TypeInv

LEMMA NegotiatedType ==
    ASSUME TypeInv, NEW f \in Formats \cup {NoCodec}, NEW ok \in BOOLEAN,
           Sink!Negotiate(f, ok), UNCHANGED <<maxPacket, stale>>
    PROVE  StreamType' /\ UNCHANGED stored
<1>1. codec' = f /\ UNCHANGED <<started, stored>>
  BY DEF Sink!Negotiate
<1>2. ready' \in BOOLEAN
  BY Zenon DEF Sink!Negotiate
<1>. QED BY <1>1, <1>2 DEF StreamType, TypeInv

LEMMA TakenType ==
    ASSUME TypeInv, Sink!Take, stale' = (IF stale = 0 THEN 0 ELSE stale - 1),
           UNCHANGED maxPacket
    PROVE  StreamType' /\ Len(stored') <= Len(stored) /\ Len(stored) \in Nat
<1>1. stored # <<>> /\ stored' = Tail(stored) /\ UNCHANGED <<started, codec, ready>>
  BY DEF Sink!Take
<1>2. stored \in Seq(StoredPacket) /\ Len(stored) \in Nat
  BY LenProperties DEF TypeInv, StreamType
<1>3. /\ Tail(stored) \in Seq(StoredPacket) /\ Len(Tail(stored)) = Len(stored) - 1
  BY <1>1, <1>2, HeadTailProperties
<1>4. stale' \in 0 .. Len(stored')
  BY <1>1, <1>2, <1>3 DEF TypeInv, StreamType
<1>5. Room \in Nat
  BY AdapterAssumption
<1>. QED BY <1>1, <1>2, <1>3, <1>4, <1>5 DEF StreamType, TypeInv

LEMMA AcceptedType ==
    ASSUME TypeInv, NEW p \in StoredPacket, Sink!Accept(p), UNCHANGED <<maxPacket, stale>>,
           Len(stored) < Room
    PROVE  StreamType'
<1>1. stored' = Append(stored, p) /\ UNCHANGED <<started, codec, ready>>
  BY DEF Sink!Accept
<1>2. stored \in Seq(StoredPacket) /\ Len(stored) \in Nat
  BY LenProperties DEF TypeInv, StreamType
<1>3. stored' \in Seq(StoredPacket) /\ Len(stored') = Len(stored) + 1
  BY <1>1, <1>2, AppendProperties
<1>4. Room \in Nat
  BY AdapterAssumption
<1>. QED BY <1>1, <1>2, <1>3, <1>4 DEF StreamType, TypeInv

-----------------------------------------------------------------------------
(* Type correctness of the Bluetooth task. *)

LEMMA ChangeTypes ==
    ASSUME TypeInv, NEW p \in Peers, NEW new \in Links, NEW event \in Posted,
           Change(p, new, event)
    PROVE  TypeInv'
<1>1. link' \in [Peers -> Links]
  BY DEF Change, TypeInv, LinkType
<1>2. events' \in Seq(Posted)
  BY AppendProperties DEF Change, TypeInv, LinkType
<1>3. StreamType'
  <2>1. Len(stored) \in Nat
    BY LenProperties DEF TypeInv, StreamType
  <2>2. stale' \in 0 .. Len(stored)
    BY <2>1 DEF Change, TypeInv, StreamType
  <2>. QED BY <2>2 DEF Change, TypeInv, StreamType
<1>4. FlagsType' /\ TodoType' /\ MediaType'
  BY DEF Change, TypeInv, FlagsType, wiring, accepted, TodoType, MediaType
<1>. QED BY <1>1, <1>2, <1>3, <1>4 DEF TypeInv, LinkType

LEMMA LinkStepsTypes ==
    ASSUME TypeInv, NEW p \in Peers, LinkSteps(p)
    PROVE  TypeInv'
<1>1. link[p] \in Links /\ NoCodec \in AnyCodec /\ Codecs \subseteq AnyCodec
  BY DEF TypeInv, LinkType, AnyCodec
<1>2. ASSUME NEW c \in Codecs, ConfigureCodec(p, c) PROVE TypeInv'
  <2>1. [link[p] EXCEPT !.codec = c] \in Links
    BY <1>1 DEF Links
  <2>2. Call("codec", p, c, 0) \in Posted
    BY <1>1, CallType DEF EventNames
  <2>. QED BY <1>2, <2>1, <2>2, ChangeTypes DEF ConfigureCodec
<1>3. ASSUME NEW mtu \in Mtus, Connect(p, mtu) PROVE TypeInv'
  <2>1. [link[p] EXCEPT !.up = TRUE, !.mtu = mtu] \in Links
    BY <1>1 DEF Links
  <2>2. Call("connected", p, NoCodec, mtu) \in Posted
    BY <1>1, CallType DEF EventNames
  <2>. QED BY <1>3, <2>1, <2>2, ChangeTypes DEF Connect
<1>4. CASE StartStream(p)
  <2>1. [link[p] EXCEPT !.streaming = TRUE] \in Links
    BY <1>1 DEF Links
  <2>2. Call("started", p, NoCodec, 0) \in Posted
    BY <1>1, CallType DEF EventNames
  <2>. QED BY <1>4, <2>1, <2>2, ChangeTypes DEF StartStream
<1>5. CASE SuspendStream(p)
  <2>1. [link[p] EXCEPT !.streaming = FALSE] \in Links
    BY <1>1 DEF Links
  <2>2. Call("suspended", p, NoCodec, 0) \in Posted
    BY <1>1, CallType DEF EventNames
  <2>. QED BY <1>5, <2>1, <2>2, ChangeTypes DEF SuspendStream
<1>6. CASE Disconnect(p)
  <2>1. Down \in Links
    BY DEF Down, Links
  <2>2. Call("disconnected", p, NoCodec, 0) \in Posted
    BY <1>1, CallType DEF EventNames
  <2>. QED BY <1>6, <2>1, <2>2, ChangeTypes DEF Disconnect
<1>. QED BY <1>2, <1>3, <1>4, <1>5, <1>6 DEF LinkSteps

(* onMedia() up to the copy changes only its own state.                     *)
LEMMA MediaFrame ==
    ASSUME TypeInv, UNCHANGED <<transport, wiring, accepted, stream, todo, dangling>>,
           media' \in MediaStates, media'.pc # "idle" => media'.peer \in Peers,
           media'.pc = "copy" => Len(stored) < Room
    PROVE  TypeInv'
BY DEF TypeInv, transport, LinkType, wiring, accepted, FlagsType, stream, StreamType,
       TodoType, MediaType

LEMMA MediaTypes ==
    ASSUME TypeInv, MediaSteps \/ \E p \in Peers : MediaArrives(p)
    PROVE  TypeInv'
<1>1. /\ media \in MediaStates /\ NoMedia \in MediaStates /\ NoMedia.pc = "idle"
      /\ media.pc # "idle" => media.peer \in Peers
  BY DEF TypeInv, MediaType, NoMedia, MediaStates
<1>2. ASSUME NEW p \in Peers, MediaArrives(p) PROVE TypeInv'
  <2>1. /\ media' = [NoMedia EXCEPT !.pc = "check", !.peer = p]
        /\ UNCHANGED <<transport, wiring, accepted, stream, todo, dangling>>
    BY <1>2 DEF MediaArrives
  <2>2. media' \in MediaStates /\ media'.peer = p /\ media'.pc = "check"
    BY <1>1, <2>1 DEF MediaStates, NoMedia
  <2>. QED BY <2>1, <2>2, MediaFrame
<1>3. CASE ReadHave
  <2>1. have \in BOOLEAN
    BY DEF TypeInv, FlagsType
  <2>2. /\ media' = [media EXCEPT !.read = media.read \cup {"have"}, !.have = have]
        /\ UNCHANGED <<transport, wiring, accepted, stream, todo, dangling>>
        /\ media.pc = "check"
    BY <1>3 DEF ReadHave
  <2>3. media' \in MediaStates /\ media'.pc = "check" /\ media'.peer = media.peer
    BY <1>1, <2>1, <2>2 DEF MediaStates
  <2>. QED BY <1>1, <2>2, <2>3, MediaFrame
<1>4. CASE ReadId
  <2>1. connection \in Peers \cup {0}
    BY DEF TypeInv, FlagsType
  <2>2. /\ media' = [media EXCEPT !.read = media.read \cup {"id"}, !.id = connection]
        /\ UNCHANGED <<transport, wiring, accepted, stream, todo, dangling>>
        /\ media.pc = "check"
    BY <1>4 DEF ReadId
  <2>3. media' \in MediaStates /\ media'.pc = "check" /\ media'.peer = media.peer
    BY <1>1, <2>1, <2>2 DEF MediaStates
  <2>. QED BY <1>1, <2>2, <2>3, MediaFrame
<1>5. CASE DropForeign \/ DropMedia
  BY <1>1, <1>5, MediaFrame DEF DropForeign, DropMedia
<1>6. CASE EnterPush
  <2>1. /\ media' = [media EXCEPT !.pc = "copy"] /\ media.pc = "check"
        /\ UNCHANGED <<transport, wiring, accepted, stream, todo, dangling>>
        /\ Len(stored) < Room
    BY <1>6 DEF EnterPush, Checked
  <2>2. media' \in MediaStates /\ media'.peer = media.peer
    BY <1>1, <2>1 DEF MediaStates
  <2>. QED BY <1>1, <2>1, <2>2, MediaFrame
<1>7. CASE FinishPush
  <2>1. media.peer \in Peers /\ Len(stored) < Room
    BY <1>7 DEF FinishPush, TypeInv, MediaType
  <2>2. Carried \in StoredPacket
    BY <2>1 DEF Carried, StoredPacket, TypeInv, LinkType, Links
  <2>3. StreamType'
    <3>1. CASE Sink!Accept(Carried)
      BY <1>7, <2>1, <2>2, <3>1, AcceptedType DEF FinishPush
    <3>2. CASE UNCHANGED <<started, codec, ready, stored>>
      BY <1>7, <3>2 DEF FinishPush, TypeInv, StreamType
    <3>. QED BY <1>7, <3>1, <3>2 DEF FinishPush
  <2>4. LinkType' /\ FlagsType' /\ TodoType'
    BY <1>7 DEF FinishPush, TypeInv, LinkType, transport, FlagsType, wiring, accepted, TodoType
  <2>5. MediaType'
    BY <1>1, <1>7 DEF FinishPush, MediaType
  <2>. QED BY <2>3, <2>4, <2>5 DEF TypeInv
<1>. QED BY <1>2, <1>3, <1>4, <1>5, <1>6, <1>7 DEF MediaSteps
-----------------------------------------------------------------------------
(* Type correctness of the application's task. *)

LEMMA ThenTodo ==
    ASSUME TypeInv, NEW steps \in Seq(Fitting), todo # <<>>, Then(steps)
    PROVE  TodoType'
BY ThenType DEF TypeInv, TodoType

LEMMA TodoFacts ==
    ASSUME TypeInv, todo # <<>>
    PROVE  /\ Now \in Fitting /\ Now \in Calls /\ Now = todo[1]
           /\ Now.peer \in Peers \cup {0}
           /\ Now.do \in {"allocate", "restart"} => Now.bytes \in Mtus \cup Configured
           /\ Now.do \in {"apply", "restart"} => Now.codec \in Formats \cup {NoCodec}
           /\ Now.do = "codec" => Now.codec \in Codecs
<1>1. Now \in Fitting /\ Now = todo[1]
  BY NowType DEF TypeInv, TodoType
<1>. QED BY <1>1 DEF Fitting, Calls

(* A step that changes the stream only as above.                            *)
LEMMA AppFrame ==
    ASSUME TypeInv, UNCHANGED <<transport, media>>, FlagsType', StreamType', TodoType',
           Len(stored') <= Len(stored), Len(stored') \in Nat,
           dangling' \in {"no", "end", "restart"}
    PROVE  TypeInv'
<1>1. Len(stored) \in Nat /\ Room \in Nat
  BY LenProperties, AdapterAssumption DEF TypeInv, StreamType
<1>. QED BY <1>1 DEF TypeInv, transport, LinkType, MediaType

LEMMA StoredLength == TypeInv => Len(stored) \in Nat /\ Len(stored) >= 0
BY LenProperties DEF TypeInv, StreamType

LEMMA FreedType ==
    ASSUME TypeInv, NEW who \in {"end", "restart"}, FreedBy(who)
    PROVE  dangling' \in {"no", "end", "restart"}
BY DEF FreedBy, TypeInv, MediaType

LEMMA StreamStepsTypes ==
    ASSUME TypeInv, StreamSteps
    PROVE  TypeInv'
<1>1. Len(stored) \in Nat /\ dangling \in {"no", "end", "restart"}
  BY StoredLength DEF TypeInv, MediaType
<1>2. CASE EmptyStream
  <2>1. TodoType'
    BY <1>2, NoSteps, ThenTodo DEF EmptyStream, Doing
  <2>2. StreamType' /\ Len(stored') = 0
    BY <1>2, EmptiedType DEF EmptyStream
  <2>3. FlagsType'
    BY <1>2 DEF EmptyStream, TypeInv, FlagsType, wiring, accepted
  <2>. QED BY <1>1, <1>2, <2>1, <2>2, <2>3, AppFrame DEF EmptyStream
<1>3. CASE ApplyCodec
  <2>1. Now.codec \in Formats \cup {NoCodec} /\ Own("empty") \in Fitting /\ todo # <<>>
    BY <1>3, TodoFacts, OwnType DEF ApplyCodec, Doing
  <2>2. TodoType'
    <3>1. <<Own("empty")>> \in Seq(Fitting)
      BY <2>1, OneStep
    <3>2. Then(<<>>) \/ Then(<<Own("empty")>>)
      BY <1>3 DEF ApplyCodec
    <3>. QED BY <2>1, <3>1, <3>2, NoSteps, ThenTodo
  <2>3. UNCHANGED <<maxPacket, stale, dangling, wiring, accepted, transport, media>>
    BY <1>3 DEF ApplyCodec
  <2>4. StreamType' /\ UNCHANGED stored
    <3>1. CASE UNCHANGED <<started, codec, ready, stored>>
      BY <2>3, <3>1 DEF TypeInv, StreamType
    <3>2. ASSUME NEW ok \in BOOLEAN, Sink!Negotiate(Now.codec, ok)
          PROVE  StreamType' /\ UNCHANGED stored
      BY <2>1, <2>3, <3>2, NegotiatedType
    <3>3. \/ UNCHANGED <<started, codec, ready, stored>>
          \/ Sink!Negotiate(Now.codec, Now.codec.codec = "Sbc")
          \/ Sink!Negotiate(Now.codec, FALSE)
      BY <1>3 DEF ApplyCodec
    <3>4. (Now.codec.codec = "Sbc") \in BOOLEAN /\ FALSE \in BOOLEAN
      OBVIOUS
    <3>. QED BY <3>1, <3>2, <3>3, <3>4, Zenon
  <2>5. FlagsType'
    BY <2>3 DEF TypeInv, FlagsType, wiring, accepted
  <2>. QED BY <1>1, <2>2, <2>3, <2>4, <2>5, AppFrame
<1>4. CASE FreeStream
  <2>1. TodoType'
    BY <1>4, NoSteps, ThenTodo DEF FreeStream, Doing
  <2>2. StreamType' /\ Len(stored') = 0
    BY <1>4, RestartedType DEF FreeStream, TypeInv, StreamType
  <2>3. FlagsType'
    BY <1>4 DEF FreeStream, TypeInv, FlagsType, wiring, accepted
  <2>4. dangling' \in {"no", "end", "restart"}
    BY <1>4, FreedType DEF FreeStream
  <2>. QED BY <1>1, <1>4, <2>1, <2>2, <2>3, <2>4, AppFrame DEF FreeStream
<1>5. CASE RestartStream
  <2>1. /\ Now.codec \in Formats \cup {NoCodec} /\ Now.bytes \in Mtus \cup Configured
        /\ todo # <<>>
    BY <1>5, TodoFacts DEF RestartStream, Doing
  <2>2. Apply(Now.codec) \in Fitting
    BY <2>1, CallType DEF Apply, AnyCodec
  <2>3. TodoType'
    <3>1. <<Apply(Now.codec)>> \in Seq(Fitting)
      BY <2>2, OneStep
    <3>2. Then(<<>>) \/ Then(<<Apply(Now.codec)>>)
      BY <1>5 DEF RestartStream
    <3>. QED BY <2>1, <3>1, <3>2, NoSteps, ThenTodo
  <2>4. StreamType' /\ Len(stored') = 0
    BY <1>5, <2>1, RestartedType DEF RestartStream
  <2>5. FlagsType'
    BY <1>5 DEF RestartStream, TypeInv, FlagsType, wiring, accepted
  <2>. QED BY <1>1, <1>5, <2>3, <2>4, <2>5, AppFrame DEF RestartStream
<1>. QED BY <1>2, <1>3, <1>4, <1>5 DEF StreamSteps

(* A step that only changes the flags.                                      *)
LEMMA FlagFrame ==
    ASSUME TypeInv, UNCHANGED <<transport, stream, media, dangling>>, FlagsType', TodoType'
    PROVE  TypeInv'
<1>1. StreamType' /\ UNCHANGED stored
  BY DEF TypeInv, stream, StreamType
<1>2. dangling' \in {"no", "end", "restart"} /\ Len(stored) \in Nat
  BY StoredLength DEF TypeInv, MediaType
<1>. QED BY <1>1, <1>2, AppFrame

LEMMA HandlersTypes ==
    ASSUME TypeInv, Handlers
    PROVE  TypeInv'
<1>1. todo # <<>> => Now.peer \in Peers \cup {0}
  BY TodoFacts
<1>2. CASE OnConnected
  <2>1. Grown \in Seq(Fitting)
    <3>1. CASE Now.bytes > maxPacket
      <4>1. Now.bytes \in Mtus \cup Configured \cup {0}
        BY <1>2, TodoFacts DEF OnConnected, Doing, Calls
      <4>2. maxPacket \in Nat
        BY AdapterAssumption DEF TypeInv, StreamType
      <4>3. Now.bytes \in Mtus \cup Configured
        BY <3>1, <4>1, <4>2
      <4>4. codec \in Formats \cup {NoCodec}
        BY DEF TypeInv, StreamType
      <4>5. Restart(codec, Now.bytes) \in Fitting
        BY <4>3, <4>4, CallType DEF Restart, AnyCodec
      <4>6. <<Own("free"), Restart(codec, Now.bytes)>> \in Seq(Fitting)
        BY <4>5, OwnType, TwoSteps
      <4>. QED BY <3>1, <4>6 DEF Grown
    <3>2. CASE ~(Now.bytes > maxPacket)
      BY <3>2, NoSteps DEF Grown
    <3>. QED BY <3>1, <3>2
  <2>2. TodoType'
    BY <1>2, <2>1, ThenTodo DEF OnConnected, Doing
  <2>3. FlagsType'
    <3>1. connection' \in Peers \cup {0} /\ UNCHANGED <<attached, mediaOn, streaming>>
      BY <1>1, <1>2 DEF OnConnected, Doing, wiring
    <3>2. have' \in BOOLEAN /\ connected' \in BOOLEAN
      BY <1>2 DEF OnConnected
    <3>. QED BY <3>1, <3>2 DEF TypeInv, FlagsType
  <2>. QED BY <1>2, <2>2, <2>3, FlagFrame DEF OnConnected
<1>3. CASE OnDisconnected
  <2>1. <<Own("empty")>> \in Seq(Fitting)
    BY OwnType, OneStep
  <2>2. TodoType'
    BY <1>3, <2>1, ThenTodo DEF OnDisconnected, Doing
  <2>3. FlagsType'
    BY <1>3 DEF OnDisconnected, TypeInv, FlagsType, wiring
  <2>. QED BY <1>3, <2>2, <2>3, FlagFrame DEF OnDisconnected
<1>4. CASE OnCodecConfigured
  <2>1. ToEncodedAudioFormat(Now.codec) \in Formats /\ todo # <<>>
    BY <1>4, TodoFacts, FormatType DEF OnCodecConfigured, Doing
  <2>2. Apply(ToEncodedAudioFormat(Now.codec)) \in Fitting
    BY <2>1, CallType DEF Apply, AnyCodec
  <2>3. <<Apply(ToEncodedAudioFormat(Now.codec))>> \in Seq(Fitting)
    BY <2>2, OneStep
  <2>4. TodoType'
    BY <1>4, <2>1, <2>3, ThenTodo DEF OnCodecConfigured
  <2>5. FlagsType'
    <3>1. connection' \in Peers \cup {0}
      BY <1>1, <1>4, <2>1 DEF OnCodecConfigured
    <3>2. have' \in BOOLEAN /\ UNCHANGED <<attached, mediaOn, connected, streaming>>
      BY <1>4 DEF OnCodecConfigured, wiring
    <3>. QED BY <3>1, <3>2 DEF TypeInv, FlagsType
  <2>. QED BY <1>4, <2>4, <2>5, FlagFrame DEF OnCodecConfigured
<1>5. CASE OnStreamStateChanged
  <2>1. <<Own("empty")>> \in Seq(Fitting) /\ <<>> \in Seq(Fitting)
    BY OwnType, OneStep, NoSteps
  <2>2. TodoType'
    <3>1. Then(<<>>) \/ Then(<<Own("empty")>>)
      BY <1>5 DEF OnStreamStateChanged
    <3>2. todo # <<>>
      BY <1>5 DEF OnStreamStateChanged, Doing
    <3>. QED BY <2>1, <3>1, <3>2, ThenTodo
  <2>3. FlagsType'
    <3>1. streaming' \in BOOLEAN
      BY <1>5, Zenon DEF OnStreamStateChanged
    <3>. QED BY <1>5, <3>1 DEF OnStreamStateChanged, TypeInv, FlagsType, wiring
  <2>. QED BY <1>5, <2>2, <2>3, FlagFrame DEF OnStreamStateChanged
<1>6. ASSUME NEW name \in EventNames, Ignore(name) PROVE TypeInv'
  <2>1. TodoType'
    BY <1>6, NoSteps, ThenTodo DEF Ignore, Doing
  <2>2. FlagsType'
    BY <1>6 DEF Ignore, TypeInv, FlagsType, wiring, accepted
  <2>. QED BY <1>6, <2>1, <2>2, FlagFrame DEF Ignore
<1>. QED BY <1>2, <1>3, <1>4, <1>5, <1>6 DEF Handlers, EventNames
LEMMA DispatchTypes ==
    ASSUME TypeInv, Dispatch
    PROVE  TypeInv'
<1>1. /\ Head(events) \in Posted /\ Tail(events) \in Seq(Posted)
      /\ events' = Tail(events)
  BY HeadTailProperties DEF Dispatch, TypeInv, LinkType
<1>2. Head(events) \in Fitting
  BY <1>1 DEF Posted
<1>3. todo' \in Seq(Fitting)
  BY <1>2, NoSteps, OneStep DEF Dispatch
<1>. QED BY <1>1, <1>3 DEF Dispatch, TypeInv, LinkType, FlagsType, wiring, accepted, stream,
            StreamType, TodoType, MediaType

Ended  == <<Own("unregister"), Own("barrier"), Own("release")>>
Steps(bytes) == <<Allocate(bytes), Own("register"), Own("query"), Own("queryStreaming")>>

LEMMA EndedType ==
    /\ Ended \in Seq(Fitting) /\ Len(Ended) = 3
    /\ Ended[1].do = "unregister" /\ Ended[2].do = "barrier" /\ Ended[3].do = "release"
    /\ <<Own("release")>> \in Seq(Fitting) /\ Len(<<Own("release")>>) = 1
    /\ <<Own("release")>>[1].do = "release"
<1>1. /\ Own("unregister") \in Fitting /\ Own("unregister").do = "unregister"
      /\ Own("barrier") \in Fitting /\ Own("barrier").do = "barrier"
      /\ Own("release") \in Fitting /\ Own("release").do = "release"
  BY OwnType
<1>. QED BY <1>1 DEF Ended

LEMMA StepsType ==
    ASSUME NEW bytes \in Configured
    PROVE  /\ Steps(bytes) \in Seq(Fitting) /\ Len(Steps(bytes)) = 4
           /\ Steps(bytes)[1].do = "allocate" /\ Steps(bytes)[2].do = "register"
           /\ Steps(bytes)[3].do = "query" /\ Steps(bytes)[4].do = "queryStreaming"
<1>1. Allocate(bytes) \in Fitting /\ Allocate(bytes).do = "allocate"
  BY CallType DEF Allocate, AnyCodec
<1>2. /\ Own("register") \in Fitting /\ Own("register").do = "register"
      /\ Own("query") \in Fitting /\ Own("query").do = "query"
      /\ Own("queryStreaming") \in Fitting /\ Own("queryStreaming").do = "queryStreaming"
  BY OwnType
<1>. QED BY <1>1, <1>2 DEF Steps

LEMMA EndingType == Ending = (IF attached THEN Ended ELSE <<Own("release")>>)
BY DEF Ending, Ended

LEMMA BeginsTypes ==
    ASSUME TypeInv, NEW steps \in Seq(Fitting), Begins(steps)
    PROVE  TypeInv'
<1>1. Ending \in Seq(Fitting)
  BY EndedType, EndingType
<1>2. todo' \in Seq(Fitting)
  BY <1>1, ConcatProperties DEF Begins
<1>. QED BY <1>2, FlagFrame DEF Begins, TodoType, TypeInv, FlagsType, wiring, accepted

LEMMA LifetimeTypes ==
    ASSUME TypeInv, Lifetime
    PROVE  TypeInv'
<1>1. Len(stored) \in Nat /\ dangling \in {"no", "end", "restart"}
  BY StoredLength DEF TypeInv, MediaType
<1>2. CASE Unregister
  BY <1>2, NoSteps, ThenTodo, FlagFrame DEF Unregister, Doing, TypeInv, FlagsType, accepted
<1>3. CASE Barrier
  BY <1>3, NoSteps, ThenTodo, FlagFrame DEF Barrier, Doing, TypeInv, FlagsType, wiring, accepted
<1>4. CASE Release
  <2>1. TodoType'
    BY <1>4, NoSteps, ThenTodo DEF Release, Doing
  <2>2. StreamType' /\ Len(stored') = 0
    BY <1>4, RestartedType DEF Release, TypeInv, StreamType
  <2>3. FlagsType'
    BY <1>4 DEF Release, TypeInv, FlagsType
  <2>4. dangling' \in {"no", "end", "restart"}
    BY <1>4, FreedType DEF Release
  <2>. QED BY <1>1, <1>4, <2>1, <2>2, <2>3, <2>4, AppFrame DEF Release
<1>5. CASE AllocateStream
  <2>1. todo # <<>> /\ Now.bytes \in Mtus \cup Configured
    BY <1>5, TodoFacts DEF AllocateStream, Doing
  <2>2. TodoType'
    <3>1. Then(<<>>) \/ todo' = <<>>
      BY <1>5 DEF AllocateStream
    <3>. QED BY <2>1, <3>1, NoSteps, ThenTodo DEF TodoType
  <2>3. StreamType' /\ Len(stored') = 0
    BY <1>5, <2>1, RestartedType DEF AllocateStream
  <2>4. FlagsType'
    BY <1>5 DEF AllocateStream, TypeInv, FlagsType, accepted
  <2>. QED BY <1>1, <1>5, <2>2, <2>3, <2>4, AppFrame DEF AllocateStream
<1>6. CASE Register
  BY <1>6, NoSteps, ThenTodo, FlagFrame DEF Register, Doing, TypeInv, FlagsType, accepted
<1>7. CASE Query
  <2>1. \A p \in Peers : link[p].mtu \in Mtus \cup {0}
    BY DEF TypeInv, LinkType, Links
  <2>2. \A p \in Peers : Call("connected", p, NoCodec, link[p].mtu) \in Fitting
    <3>1. TAKE p \in Peers
    <3>2. link[p].mtu \in Mtus \cup Configured \cup {0}
      BY <2>1
    <3>3. NoCodec \in AnyCodec
      BY DEF AnyCodec
    <3>. QED BY <3>2, <3>3, CallType
  <2>3. \A p \in Peers :
            <<Call("connected", p, NoCodec, link[p].mtu), Own("queryCodec")>> \in Seq(Fitting)
    BY <2>2, OwnType, TwoSteps
  <2>4. TodoType'
    <3>1. todo # <<>>
      BY <1>7 DEF Query, Doing
    <3>2. \/ Then(<<>>)
          \/ \E p \in Peers :
               Then(<<Call("connected", p, NoCodec, link[p].mtu), Own("queryCodec")>>)
      BY <1>7, Zenon DEF Query, UpPeers
    <3>. QED BY <2>3, <3>1, <3>2, NoSteps, ThenTodo
  <2>. QED BY <1>7, <2>4, FlagFrame DEF Query, TypeInv, FlagsType, wiring, accepted
<1>8. CASE QueryCodec
  <2>1. \A p \in Peers : Negotiated(p) => link[p].codec \in Codecs
    BY DEF TypeInv, LinkType, Links, Negotiated
  <2>2. \A p \in Peers : Negotiated(p) => Call("codec", p, link[p].codec, 0) \in Fitting
    <3>1. TAKE p \in Peers
    <3>2. HAVE Negotiated(p)
    <3>3. link[p].codec \in Codecs
      BY <2>1, <3>2
    <3>. QED BY <3>3, CallType DEF AnyCodec
  <2>3. TodoType'
    <3>1. todo # <<>>
      BY <1>8 DEF QueryCodec, Doing
    <3>2. \/ Then(<<>>)
          \/ \E p \in Peers : Negotiated(p) /\ Then(<<Call("codec", p, link[p].codec, 0)>>)
      BY <1>8, Zenon DEF QueryCodec
    <3>. QED BY <2>2, <3>1, <3>2, NoSteps, OneStep, ThenTodo
  <2>. QED BY <1>8, <2>3, FlagFrame DEF QueryCodec, TypeInv, FlagsType, wiring, accepted
<1>9. CASE QueryStreaming
  <2>1. TodoType'
    BY <1>9, NoSteps, ThenTodo DEF QueryStreaming, Doing
  <2>2. Streams \in BOOLEAN
    BY DEF Streams
  <2>3. FlagsType'
    BY <1>9, <2>2 DEF QueryStreaming, TypeInv, FlagsType, wiring
  <2>. QED BY <1>9, <2>1, <2>3, FlagFrame DEF QueryStreaming
<1>. QED BY <1>2, <1>3, <1>4, <1>5, <1>6, <1>7, <1>8, <1>9 DEF Lifetime

LEMMA UpdateTypes ==
    ASSUME TypeInv, Update
    PROVE  TypeInv'
<1>1. /\ Sink!Take /\ stale' = (IF stale = 0 THEN 0 ELSE stale - 1)
      /\ UNCHANGED <<transport, wiring, accepted, maxPacket, todo, media, dangling>>
  BY DEF Update
<1>2. StreamType' /\ Len(stored') <= Len(stored) /\ Len(stored') \in Nat
  <2>1. StreamType' /\ Len(stored') <= Len(stored)
    BY <1>1, TakenType
  <2>. QED BY <2>1, LenProperties DEF StreamType
<1>3. FlagsType' /\ TodoType' /\ dangling' \in {"no", "end", "restart"}
  BY <1>1 DEF TypeInv, FlagsType, TodoType, MediaType, wiring, accepted
<1>. QED BY <1>1, <1>2, <1>3, AppFrame

LEMMA TypesInit == Init => TypeInv
<1>1. SUFFICES ASSUME Init PROVE TypeInv
  OBVIOUS
<1>2. LinkType
  <2>1. Down \in Links
    BY DEF Down, Links
  <2>2. link \in [Peers -> Links]
    BY <1>1, <2>1 DEF Init
  <2>3. events \in Seq(Posted)
    BY <1>1, EmptySeq DEF Init
  <2>. QED BY <2>2, <2>3 DEF LinkType
<1>3. FlagsType
  BY <1>1 DEF Init, FlagsType
<1>4. StreamType
  <2>1. /\ started = FALSE /\ codec = NoCodec /\ ready = FALSE /\ stored = <<>>
        /\ stale = 0 /\ maxPacket \in Configured
    BY <1>1 DEF Init, Sink!Init
  <2>2. stored \in Seq(StoredPacket) /\ Len(stored) = 0 /\ Room \in Nat
    BY <2>1, EmptySeq, AdapterAssumption
  <2>3. started \in BOOLEAN /\ ready \in BOOLEAN
    BY <2>1
  <2>4. codec \in Formats \cup {NoCodec} /\ stale \in 0 .. Len(stored)
    BY <2>1, <2>2
  <2>5. maxPacket \in Mtus \cup Configured /\ Len(stored) <= Room
    BY <2>1, <2>2
  <2>. QED BY <2>2, <2>3, <2>4, <2>5 DEF StreamType
<1>5. TodoType
  BY <1>1, EmptySeq DEF Init, TodoType
<1>6. MediaType
  <2>1. media = NoMedia /\ NoMedia.pc = "idle" /\ NoMedia \in MediaStates /\ dangling = "no"
    BY <1>1 DEF Init, NoMedia, MediaStates
  <2>. QED BY <2>1 DEF MediaType
<1>. QED BY <1>2, <1>3, <1>4, <1>5, <1>6 DEF TypeInv

LEMMA TypesNext == TypeInv /\ [Next]_vars => TypeInv'
<1>1. SUFFICES ASSUME TypeInv, [Next]_vars PROVE TypeInv'
  OBVIOUS
<1>2. ASSUME NEW p \in Peers, LinkSteps(p) PROVE TypeInv'
  BY <1>1, <1>2, LinkStepsTypes
<1>3. CASE MediaSteps \/ \E p \in Peers : MediaArrives(p)
  BY <1>1, <1>3, MediaTypes
<1>4. CASE StreamSteps
  BY <1>1, <1>4, StreamStepsTypes
<1>5. CASE Handlers
  BY <1>1, <1>5, HandlersTypes
<1>6. CASE Lifetime
  BY <1>1, <1>6, LifetimeTypes
<1>7. CASE Update
  BY <1>1, <1>7, UpdateTypes
<1>8. CASE Dispatch
  BY <1>1, <1>8, DispatchTypes
<1>9. ASSUME NEW bytes \in Configured, Begin(bytes) PROVE TypeInv'
  BY <1>1, <1>9, StepsType, BeginsTypes DEF Begin, Steps
<1>10. CASE End
  BY <1>1, <1>10, NoSteps, BeginsTypes DEF End
<1>11. CASE UNCHANGED vars
  BY <1>1, <1>11 DEF vars, transport, wiring, accepted, stream, TypeInv, LinkType, FlagsType,
       StreamType, TodoType, MediaType
<1>. QED BY <1>1, <1>2, <1>3, <1>4, <1>5, <1>6, <1>7, <1>8, <1>9, <1>10, <1>11
     DEF Next, CallSteps

LEMMA TypesHold == Spec => []TypeInv
<1>. QED BY TypesInit, TypesNext, PTL DEF Spec

(* Every reachable state is well typed, and the queue never holds more than *)
(* it has room for, although pushEncoded() tests the room before it copies. *)
THEOREM TypeCorrect == Spec => []TypeOK
<1>. QED BY TypesHold, TypeInvTypes, PTL

-----------------------------------------------------------------------------
(* The invariant of the lifetime: which step of begin() and end() may come  *)
(* next, and what is registered and running when it comes.                  *)

Ordered == {"unregister", "barrier", "release", "allocate", "register"}

Predecessor(name) ==
    CASE name = "barrier"  -> "unregister"
      [] name = "release"  -> "barrier"
      [] name = "allocate" -> "release"
      [] OTHER             -> "allocate"

(* A step of begin() or end() that is not the first follows the one that    *)
(* makes it safe; nothing but the allocation follows the release.           *)
Chain ==
    \A i \in 2 .. Len(todo) :
        /\ todo[i].do # "unregister"
        /\ todo[i].do \in Ordered => todo[i - 1].do = Predecessor(todo[i].do)
        /\ todo[i - 1].do = "release" => todo[i].do = "allocate"

(* What the next step may rely on.                                          *)
First ==
    todo # <<>> =>
        /\ todo[1].do \notin {"release", "allocate"} => attached
        /\ todo[1].do \in {"barrier", "release", "allocate"} => ~mediaOn
        /\ todo[1].do = "release" => media.pc = "idle"
        /\ todo[1].do = "allocate" => ~attached

Quiet == ~attached => ~mediaOn /\ media.pc = "idle" /\ ~started

LifeInv == Quiet /\ First /\ Chain /\ EndIsABarrier

(* Steps of no order of their own, put before what is left, leave the order *)
(* of the rest.                                                             *)
LEMMA SteadyChain ==
    ASSUME TypeInv, Chain, todo # <<>>, Now.do \notin Ordered,
           NEW steps \in Seq(Fitting), Then(steps),
           \A k \in 1 .. Len(steps) : steps[k].do \notin Ordered
    PROVE  Chain' /\ (todo' # <<>> => todo'[1].do \notin Ordered)
<1>1. /\ Len(todo') = Len(steps) + Len(todo) - 1 /\ Len(steps) \in Nat /\ Len(todo) \in Nat
      /\ Len(todo) >= 1 /\ todo' \in Seq(Fitting)
      /\ \A k \in 1 .. Len(steps) : todo'[k] = steps[k]
      /\ \A k \in Len(steps) + 1 .. Len(todo') : todo'[k] = todo[k - Len(steps) + 1]
  BY ThenType DEF TypeInv, TodoType
<1>2. todo[1].do \notin Ordered
  BY NowType DEF TypeInv, TodoType
<1>3. 2 <= Len(todo) => todo[2].do \notin Ordered
  <2>1. SUFFICES ASSUME 2 <= Len(todo), todo[2].do \in Ordered PROVE FALSE
    OBVIOUS
  <2>2. todo[1].do = Predecessor(todo[2].do)
    BY <1>1, <2>1 DEF Chain
  <2>3. Predecessor(todo[2].do) \in Ordered
    BY <2>1 DEF Predecessor, Ordered
  <2>. QED BY <1>2, <2>2, <2>3
<1>4. ASSUME NEW k \in 1 .. Len(todo'), k <= Len(steps) + 1 PROVE todo'[k].do \notin Ordered
  <2>1. CASE k <= Len(steps)
    BY <1>1, <2>1
  <2>2. CASE k = Len(steps) + 1
    BY <1>1, <1>3, <2>2
  <2>. QED BY <1>1, <1>4, <2>1, <2>2
<1>5. ASSUME NEW k \in 2 .. Len(todo')
      PROVE  /\ todo'[k].do # "unregister"
             /\ todo'[k].do \in Ordered => todo'[k - 1].do = Predecessor(todo'[k].do)
             /\ todo'[k - 1].do = "release" => todo'[k].do = "allocate"
  <2>1. CASE k <= Len(steps) + 1
    <3>1. todo'[k].do \notin Ordered /\ todo'[k - 1].do \notin Ordered
      BY <1>1, <1>4, <2>1
    <3>. QED BY <3>1 DEF Ordered
  <2>2. CASE k > Len(steps) + 1
    <3>1. /\ k - Len(steps) + 1 \in 2 .. Len(todo)
          /\ todo'[k] = todo[k - Len(steps) + 1]
          /\ todo'[k - 1] = todo[(k - Len(steps) + 1) - 1]
      BY <1>1, <2>2
    <3>. QED BY <3>1 DEF Chain
  <2>. QED BY <1>1, <2>1, <2>2
<1>6. todo' # <<>> => 1 \in 1 .. Len(todo')
  BY <1>1, EmptySeq, LenProperties
<1>. QED BY <1>1, <1>4, <1>5, <1>6 DEF Chain

(* The first step is done and nothing is added.                             *)
LEMMA ShiftedChain ==
    ASSUME TypeInv, Chain, todo # <<>>, Then(<<>>)
    PROVE  Chain' /\ (todo' # <<>> => 2 \in 2 .. Len(todo) /\ todo'[1] = todo[2])
<1>1. /\ Len(todo') = Len(todo) - 1 /\ Len(todo) \in Nat /\ Len(todo) >= 1
      /\ todo' \in Seq(Fitting)
      /\ \A k \in 1 .. Len(todo') : todo'[k] = todo[k + 1]
  <2>1. /\ todo \in Seq(Fitting) /\ <<>> \in Seq(Fitting) /\ Len(<<>>) = 0
    BY NoSteps DEF TypeInv, TodoType
  <2>2. /\ Len(todo') = Len(<<>>) + Len(todo) - 1 /\ Len(todo) \in Nat /\ Len(todo) >= 1
        /\ todo' \in Seq(Fitting)
        /\ \A k \in Len(<<>>) + 1 .. Len(todo') : todo'[k] = todo[k - Len(<<>>) + 1]
    BY <2>1, ThenType
  <2>. QED BY <2>1, <2>2
<1>2. Chain'
  <2>1. \A k \in 2 .. Len(todo') :
            k + 1 \in 2 .. Len(todo) /\ todo'[k] = todo[k + 1] /\ todo'[k - 1] = todo[(k + 1) - 1]
    BY <1>1
  <2>. QED BY <2>1 DEF Chain
<1>3. todo' # <<>> => 1 \in 1 .. Len(todo')
  BY <1>1, EmptySeq, LenProperties
<1>. QED BY <1>1, <1>2, <1>3

(* A step of a handler or of the stream: nothing of the lifetime changes.   *)
LEMMA SteadyLife ==
    ASSUME TypeInv, LifeInv, todo # <<>>, Now.do \notin Ordered,
           NEW steps \in Seq(Fitting), Then(steps),
           \A k \in 1 .. Len(steps) : steps[k].do \notin Ordered,
           UNCHANGED <<wiring, media>>, dangling' # "end"
    PROVE  LifeInv'
<1>1. Chain' /\ (todo' # <<>> => todo'[1].do \notin Ordered)
  BY SteadyChain DEF LifeInv
<1>2. attached /\ attached' /\ UNCHANGED <<attached, mediaOn, media>>
  BY NowType DEF LifeInv, First, Ordered, TypeInv, TodoType, wiring
<1>3. First' /\ Quiet'
  BY <1>1, <1>2 DEF First, Quiet, Ordered
<1>. QED BY <1>1, <1>3 DEF LifeInv, EndIsABarrier

LEMMA NoneAreOrdered ==
    \A k \in 1 .. Len(<<>>) : <<>>[k].do \notin Ordered
BY EmptySeq

LEMMA OneIsSteady ==
    ASSUME NEW c \in Fitting, c.do \notin Ordered
    PROVE  <<c>> \in Seq(Fitting) /\ \A k \in 1 .. Len(<<c>>) : <<c>>[k].do \notin Ordered
BY OneStep

LEMMA TwoAreSteady ==
    ASSUME NEW c \in Fitting, c.do \notin Ordered, NEW d \in Fitting, d.do \notin Ordered
    PROVE  <<c, d>> \in Seq(Fitting) /\ \A k \in 1 .. Len(<<c, d>>) : <<c, d>>[k].do \notin Ordered
BY TwoSteps

LEMMA CallName ==
    ASSUME NEW name, NEW p, NEW c, NEW n
    PROVE  Call(name, p, c, n).do = name
BY DEF Call

(* The Bluetooth task: it enters only what is registered.                   *)
LEMMA MediaLife ==
    ASSUME TypeInv, LifeInv, MediaSteps \/ \E p \in Peers : MediaArrives(p) \/ LinkSteps(p)
    PROVE  LifeInv'
<1>1. UNCHANGED <<wiring, todo, started>> /\ dangling' # "end"
  <2>1. CASE FinishPush
    BY <2>1 DEF FinishPush, Sink!Accept
  <2>2. CASE ReadHave \/ ReadId \/ DropForeign \/ DropMedia \/ EnterPush
    BY <2>2 DEF ReadHave, ReadId, DropForeign, DropMedia, EnterPush, stream, LifeInv,
       EndIsABarrier
  <2>3. ASSUME NEW p \in Peers, MediaArrives(p) PROVE UNCHANGED <<wiring, todo, started>> /\ dangling' # "end"
    BY <2>3 DEF MediaArrives, stream, LifeInv, EndIsABarrier
  <2>4. ASSUME NEW p \in Peers, LinkSteps(p) PROVE UNCHANGED <<wiring, todo, started>> /\ dangling' # "end"
    BY <2>4 DEF LinkSteps, ConfigureCodec, Connect, StartStream, SuspendStream, Disconnect,
       Change, LifeInv, EndIsABarrier
  <2>. QED BY <2>1, <2>2, <2>3, <2>4, Zenon DEF MediaSteps
<1>2. media' = media \/ media.pc # "idle" \/ mediaOn
  BY DEF MediaSteps, ReadHave, ReadId, DropForeign, DropMedia, EnterPush, FinishPush, Checked,
     MediaArrives, LinkSteps, ConfigureCodec, Connect, StartStream, SuspendStream, Disconnect,
     Change
<1>3. UNCHANGED <<attached, mediaOn>>
  BY <1>1 DEF wiring
<1>4. Quiet' /\ First' /\ Chain'
  BY <1>1, <1>2, <1>3 DEF LifeInv, Quiet, First, Chain
<1>. QED BY <1>1, <1>4 DEF LifeInv, EndIsABarrier

LEMMA StreamLife ==
    ASSUME TypeInv, LifeInv, StreamSteps
    PROVE  LifeInv'
<1>1. /\ todo # <<>> /\ Now.do \notin Ordered /\ UNCHANGED <<wiring, media>>
      /\ dangling' # "end"
  <2>1. todo # <<>> /\ Now.do \in {"empty", "apply", "free", "restart"}
    BY DEF StreamSteps, EmptyStream, ApplyCodec, FreeStream, RestartStream, Doing, Now
  <2>2. /\ UNCHANGED <<wiring, media>>
        /\ UNCHANGED dangling \/ dangling' = "restart"
    BY DEF StreamSteps, EmptyStream, ApplyCodec, FreeStream, RestartStream, FreedBy
  <2>. QED BY <2>1, <2>2 DEF Ordered, LifeInv, EndIsABarrier
<1>2. Now.codec \in Formats \cup {NoCodec} \/ ~(Doing("apply") \/ Doing("restart"))
  BY TodoFacts DEF Doing
<1>3. CASE Then(<<>>)
  BY <1>1, <1>3, NoSteps, NoneAreOrdered, SteadyLife
<1>4. CASE Then(<<Own("empty")>>)
  <2>1. Own("empty") \in Fitting /\ Own("empty").do \notin Ordered
    BY OwnType DEF Ordered
  <2>. QED BY <1>1, <1>4, <2>1, OneIsSteady, SteadyLife
<1>5. CASE RestartStream /\ Then(<<Apply(Now.codec)>>)
  <2>1. Apply(Now.codec) \in Fitting /\ Apply(Now.codec).do \notin Ordered
    BY <1>1, <1>2, <1>5, CallType DEF Apply, AnyCodec, RestartStream, Ordered
  <2>. QED BY <1>1, <1>5, <2>1, OneIsSteady, SteadyLife
<1>. QED BY <1>3, <1>4, <1>5 DEF StreamSteps, EmptyStream, ApplyCodec, FreeStream, RestartStream

LEMMA HandlersLife ==
    ASSUME TypeInv, LifeInv, Handlers
    PROVE  LifeInv'
<1>1. /\ todo # <<>> /\ Now.do \in EventNames /\ UNCHANGED <<wiring, media, dangling>>
  BY DEF Handlers, OnConnected, OnDisconnected, OnCodecConfigured, OnStreamStateChanged, Ignore,
     Doing, Now, EventNames
<1>2. Now.do \notin Ordered /\ dangling' # "end"
  BY <1>1 DEF Ordered, EventNames, LifeInv, EndIsABarrier
<1>3. CASE Then(<<>>)
  BY <1>1, <1>2, <1>3, NoSteps, NoneAreOrdered, SteadyLife
<1>4. CASE Then(<<Own("empty")>>)
  <2>1. Own("empty") \in Fitting /\ Own("empty").do \notin Ordered
    BY OwnType DEF Ordered
  <2>. QED BY <1>1, <1>2, <1>4, <2>1, OneIsSteady, SteadyLife
<1>5. CASE OnCodecConfigured
  <2>1. ToEncodedAudioFormat(Now.codec) \in Formats
    BY <1>1, <1>5, TodoFacts, FormatType DEF OnCodecConfigured, Doing
  <2>2. Apply(ToEncodedAudioFormat(Now.codec)) \in Fitting
    BY <2>1, CallType DEF Apply, AnyCodec
  <2>3. Apply(ToEncodedAudioFormat(Now.codec)).do \notin Ordered
    BY CallName DEF Apply, Ordered
  <2>4. Then(<<Apply(ToEncodedAudioFormat(Now.codec))>>)
    BY <1>5 DEF OnCodecConfigured
  <2>. QED BY <1>1, <1>2, <2>2, <2>3, <2>4, OneIsSteady, SteadyLife
<1>6. CASE OnConnected /\ Now.bytes > maxPacket
  <2>1. Then(<<Own("free"), Restart(codec, Now.bytes)>>)
    BY <1>6 DEF OnConnected, Grown
  <2>2. Now.bytes \in Mtus \cup Configured
    <3>1. Now.bytes \in Mtus \cup Configured \cup {0}
      BY <1>1, TodoFacts DEF Calls
    <3>2. maxPacket \in Nat
      BY AdapterAssumption DEF TypeInv, StreamType
    <3>. QED BY <1>6, <3>1, <3>2
  <2>3. Restart(codec, Now.bytes) \in Fitting
    BY <2>2, CallType DEF Restart, AnyCodec, TypeInv, StreamType
  <2>4. /\ Own("free") \in Fitting /\ Own("free").do \notin Ordered
        /\ Restart(codec, Now.bytes).do \notin Ordered
    BY OwnType, CallName DEF Restart, Ordered
  <2>. QED BY <1>1, <1>2, <2>1, <2>3, <2>4, TwoAreSteady, SteadyLife
<1>7. CASE OnConnected /\ ~(Now.bytes > maxPacket)
  BY <1>3, <1>7 DEF OnConnected, Grown
<1>. QED BY <1>3, <1>4, <1>5, <1>6, <1>7 DEF Handlers, OnDisconnected, OnStreamStateChanged, Ignore

(* Every call begins with the steps of end().                               *)
LEMMA BeginsLife ==
    ASSUME TypeInv, LifeInv, NEW steps \in Seq(Fitting), Begins(steps),
           1 <= Len(steps) => steps[1].do = "allocate",
           \A k \in 2 .. Len(steps) : /\ k = 2 => steps[k].do = "register"
                                      /\ k # 2 => steps[k].do \notin Ordered
    PROVE  LifeInv'
<1>1. todo' = Ending \o steps /\ UNCHANGED <<attached, mediaOn, started, media, dangling>>
  BY DEF Begins, wiring, stream
<1>2. Len(steps) \in Nat
  BY LenProperties
<1>3. CASE attached
  <2>1. /\ Len(todo') = 3 + Len(steps) /\ todo' \in Seq(Fitting)
        /\ todo'[1].do = "unregister" /\ todo'[2].do = "barrier" /\ todo'[3].do = "release"
        /\ \A i \in 4 .. Len(todo') : todo'[i] = steps[i - 3]
    <3>1. /\ Ended \in Seq(Fitting) /\ todo' = Ended \o steps
      BY <1>1, <1>3, EndedType, EndingType
    <3>2. /\ Len(Ended \o steps) = Len(Ended) + Len(steps) /\ Ended \o steps \in Seq(Fitting)
          /\ \A i \in 1 .. Len(Ended) + Len(steps) :
                (Ended \o steps)[i] = IF i <= Len(Ended) THEN Ended[i] ELSE steps[i - Len(Ended)]
      BY <3>1, ConcatProperties
    <3>3. Len(Ended) = 3
      BY EndedType
    <3>4. /\ Len(todo') = 3 + Len(steps) /\ todo' \in Seq(Fitting)
          /\ \A i \in 1 .. 3 + Len(steps) :
                todo'[i] = IF i <= 3 THEN Ended[i] ELSE steps[i - 3]
      BY <3>1, <3>2, <3>3
    <3>. QED BY <1>2, <3>4, EndedType
  <2>2. First'
    BY <1>1, <1>3, <2>1 DEF First
  <2>3. ASSUME NEW i \in 2 .. Len(todo')
        PROVE  /\ todo'[i].do # "unregister"
               /\ todo'[i].do \in Ordered => todo'[i - 1].do = Predecessor(todo'[i].do)
               /\ todo'[i - 1].do = "release" => todo'[i].do = "allocate"
    <3>1. CASE i = 2
      BY <2>1, <3>1 DEF Predecessor
    <3>2. CASE i = 3
      BY <2>1, <3>2 DEF Predecessor
    <3>3. CASE i = 4
      <4>1. todo'[4].do = "allocate"
        BY <1>2, <2>1, <2>3, <3>3
      <4>. QED BY <2>1, <3>3, <4>1 DEF Predecessor
    <3>4. CASE i = 5
      <4>1. todo'[5].do = "register" /\ todo'[4].do = "allocate"
        BY <1>2, <2>1, <2>3, <3>4
      <4>. QED BY <3>4, <4>1 DEF Predecessor
    <3>5. CASE i > 5
      <4>1. todo'[i].do \notin Ordered /\ todo'[i - 1].do # "release"
        <5>1. /\ i - 3 \in 2 .. Len(steps) /\ i - 3 # 2 /\ i - 4 \in 2 .. Len(steps)
              /\ i \in 4 .. Len(todo') /\ i - 1 \in 4 .. Len(todo') /\ (i - 1) - 3 = i - 4
          BY <1>2, <2>1, <3>5
        <5>2. todo'[i] = steps[i - 3] /\ todo'[i - 1] = steps[i - 4]
          BY <2>1, <5>1
        <5>. QED BY <5>1, <5>2 DEF Ordered
      <4>. QED BY <4>1 DEF Ordered
    <3>. QED BY <1>2, <2>1, <3>1, <3>2, <3>3, <3>4, <3>5
  <2>4. Chain'
    BY <2>3 DEF Chain
  <2>. QED BY <1>1, <1>3, <2>2, <2>4 DEF LifeInv, Quiet, EndIsABarrier
<1>4. CASE ~attached
  <2>1. /\ Len(todo') = 1 + Len(steps) /\ todo' \in Seq(Fitting)
        /\ todo'[1].do = "release"
        /\ \A i \in 2 .. Len(todo') : todo'[i] = steps[i - 1]
    <3>1. /\ <<Own("release")>> \in Seq(Fitting) /\ todo' = <<Own("release")>> \o steps
      BY <1>1, <1>4, EndedType, EndingType
    <3>2. /\ Len(todo') = 1 + Len(steps) /\ todo' \in Seq(Fitting)
          /\ \A i \in 1 .. 1 + Len(steps) :
                todo'[i] = IF i <= 1 THEN <<Own("release")>>[i] ELSE steps[i - 1]
      BY <3>1, ConcatProperties, EndedType
    <3>. QED BY <1>2, <3>2, EndedType
  <2>2. First'
    BY <1>1, <1>4, <2>1 DEF First, LifeInv, Quiet
  <2>3. ASSUME NEW i \in 2 .. Len(todo')
        PROVE  /\ todo'[i].do # "unregister"
               /\ todo'[i].do \in Ordered => todo'[i - 1].do = Predecessor(todo'[i].do)
               /\ todo'[i - 1].do = "release" => todo'[i].do = "allocate"
    <3>1. CASE i = 2
      <4>1. todo'[2].do = "allocate"
        BY <1>2, <2>1, <2>3, <3>1
      <4>. QED BY <2>1, <3>1, <4>1 DEF Predecessor
    <3>2. CASE i = 3
      <4>1. todo'[3].do = "register" /\ todo'[2].do = "allocate"
        BY <1>2, <2>1, <2>3, <3>2
      <4>. QED BY <3>2, <4>1 DEF Predecessor
    <3>3. CASE i > 3
      <4>1. todo'[i].do \notin Ordered /\ todo'[i - 1].do # "release"
        <5>1. /\ i - 1 \in 2 .. Len(steps) /\ i - 1 # 2 /\ i - 2 \in 2 .. Len(steps)
              /\ i \in 2 .. Len(todo') /\ i - 1 \in 2 .. Len(todo') /\ (i - 1) - 1 = i - 2
          BY <1>2, <2>1, <3>3
        <5>2. todo'[i] = steps[i - 1] /\ todo'[i - 1] = steps[i - 2]
          BY <2>1, <5>1
        <5>. QED BY <5>1, <5>2 DEF Ordered
      <4>. QED BY <4>1 DEF Ordered
    <3>. QED BY <1>2, <2>1, <3>1, <3>2, <3>3
  <2>4. Chain'
    BY <2>3 DEF Chain
  <2>. QED BY <1>1, <1>4, <2>2, <2>4 DEF LifeInv, Quiet, EndIsABarrier
<1>. QED BY <1>3, <1>4

(* A step of begin() or end() that is not allowed to be followed by another *)
(* of them leaves a handler's step at the head.                             *)
LEMMA LifetimeLife ==
    ASSUME TypeInv, LifeInv, Lifetime
    PROVE  LifeInv'
<1>1. todo # <<>> /\ Now = todo[1]
  BY NowType DEF Lifetime, Unregister, Barrier, Release, AllocateStream, Register, Query,
     QueryCodec, QueryStreaming, Doing, TypeInv, TodoType
<1>2. ASSUME Then(<<>>)
      PROVE  /\ Chain'
             /\ todo' # <<>> =>
                  /\ todo'[1].do # "unregister"
                  /\ todo'[1].do \in Ordered => todo[1].do = Predecessor(todo'[1].do)
                  /\ todo[1].do = "release" => todo'[1].do = "allocate"
  <2>1. Chain' /\ (todo' # <<>> => 2 \in 2 .. Len(todo) /\ todo'[1] = todo[2])
    BY <1>1, <1>2, ShiftedChain DEF LifeInv
  <2>. QED BY <2>1 DEF LifeInv, Chain
<1>3. CASE Unregister
  <2>1. /\ todo[1].do = "unregister" /\ Then(<<>>) /\ mediaOn' = FALSE /\ attached
        /\ UNCHANGED <<attached, media, started, dangling>>
    BY <1>1, <1>3 DEF Unregister, Doing, Now, stream, LifeInv, First
  <2>2. todo' # <<>> => todo'[1].do \notin {"release", "allocate"}
    BY <1>2, <2>1 DEF Ordered, Predecessor
  <2>. QED BY <1>2, <2>1, <2>2 DEF LifeInv, Quiet, First, EndIsABarrier
<1>4. CASE Barrier
  <2>1. /\ todo[1].do = "barrier" /\ Then(<<>>) /\ ~mediaOn /\ attached /\ media.pc = "idle"
        /\ UNCHANGED <<attached, mediaOn, media, started, dangling>>
    BY <1>1, <1>4 DEF Barrier, Doing, Now, wiring, stream, LifeInv, First
  <2>2. todo' # <<>> => todo'[1].do # "allocate"
    BY <1>2, <2>1 DEF Ordered, Predecessor
  <2>. QED BY <1>2, <2>1, <2>2 DEF LifeInv, Quiet, First, EndIsABarrier
<1>5. CASE Release
  <2>1. /\ todo[1].do = "release" /\ Then(<<>>) /\ ~mediaOn /\ media.pc = "idle"
        /\ UNCHANGED <<mediaOn, media>>
    BY <1>1, <1>5 DEF Release, Doing, Now, LifeInv, First
  <2>2. ~attached' /\ ~started' /\ dangling' # "end"
    BY <1>5, <2>1 DEF Release, Sink!Stop, Sink!Begun, FreedBy, LifeInv, EndIsABarrier
  <2>3. todo' # <<>> => todo'[1].do = "allocate"
    BY <1>2, <2>1
  <2>. QED BY <1>2, <2>1, <2>2, <2>3 DEF LifeInv, Quiet, First, EndIsABarrier
<1>6. CASE AllocateStream
  <2>1. /\ todo[1].do = "allocate" /\ ~mediaOn /\ ~attached /\ media.pc = "idle"
        /\ UNCHANGED <<mediaOn, media, dangling>>
    BY <1>1, <1>6 DEF AllocateStream, Doing, Now, LifeInv, First, Quiet
  <2>2. CASE Then(<<>>) /\ attached' = TRUE
    <3>1. todo' # <<>> => todo'[1].do \notin {"barrier", "release", "allocate"}
      BY <1>2, <2>1, <2>2 DEF Ordered, Predecessor
    <3>. QED BY <1>2, <2>1, <2>2, <3>1 DEF LifeInv, Quiet, First, EndIsABarrier
  <2>3. CASE todo' = <<>> /\ Sink!Stop
    <3>1. Len(todo') = 0 /\ ~started'
      BY <2>3, EmptySeq DEF Sink!Stop, Sink!Begun
    <3>2. Chain' /\ First'
      BY <2>3, <3>1 DEF Chain, First
    <3>. QED BY <2>1, <3>1, <3>2 DEF LifeInv, Quiet, EndIsABarrier
  <2>. QED BY <1>6, <2>2, <2>3 DEF AllocateStream
<1>7. CASE Register
  <2>1. /\ todo[1].do = "register" /\ Then(<<>>) /\ attached
        /\ UNCHANGED <<attached, media, started, dangling>>
    BY <1>1, <1>7 DEF Register, Doing, Now, stream, LifeInv, First
  <2>2. todo' # <<>> => todo'[1].do \notin {"barrier", "release", "allocate"}
    BY <1>2, <2>1 DEF Ordered, Predecessor
  <2>. QED BY <1>2, <2>1, <2>2 DEF LifeInv, Quiet, First, EndIsABarrier
<1>8. CASE Query \/ QueryCodec \/ QueryStreaming
  <2>1. /\ Now.do \notin Ordered /\ UNCHANGED <<wiring, media>> /\ dangling' # "end"
    BY <1>8 DEF Query, QueryCodec, QueryStreaming, Doing, Now, Ordered, wiring, LifeInv,
       EndIsABarrier
  <2>2. CASE Then(<<>>)
    BY <1>1, <2>1, <2>2, NoSteps, NoneAreOrdered, SteadyLife
  <2>3. ASSUME NEW p \in Peers,
               Then(<<Call("connected", p, NoCodec, link[p].mtu), Own("queryCodec")>>)
        PROVE  LifeInv'
    <3>1. link[p].mtu \in Mtus \cup Configured \cup {0}
      BY DEF TypeInv, LinkType, Links
    <3>2. NoCodec \in AnyCodec
      BY DEF AnyCodec
    <3>3. /\ Call("connected", p, NoCodec, link[p].mtu) \in Fitting
          /\ Call("connected", p, NoCodec, link[p].mtu).do \notin Ordered
      BY <3>1, <3>2, CallType DEF Ordered
    <3>4. Own("queryCodec") \in Fitting /\ Own("queryCodec").do \notin Ordered
      BY OwnType DEF Ordered
    <3>. QED BY <1>1, <2>1, <2>3, <3>3, <3>4, TwoAreSteady, SteadyLife
  <2>4. ASSUME NEW p \in Peers, Negotiated(p), Then(<<Call("codec", p, link[p].codec, 0)>>)
        PROVE  LifeInv'
    <3>1. link[p].codec \in Codecs
      BY <2>4 DEF TypeInv, LinkType, Links, Negotiated
    <3>2. /\ Call("codec", p, link[p].codec, 0) \in Fitting
          /\ Call("codec", p, link[p].codec, 0).do \notin Ordered
      BY <3>1, CallType DEF AnyCodec, Ordered
    <3>. QED BY <1>1, <2>1, <2>4, <3>2, OneIsSteady, SteadyLife
  <2>. QED BY <1>8, <2>2, <2>3, <2>4, Zenon DEF Query, QueryCodec, QueryStreaming, UpPeers
<1>. QED BY <1>3, <1>4, <1>5, <1>6, <1>7, <1>8 DEF Lifetime

LEMMA DispatchLife ==
    ASSUME TypeInv, LifeInv, Dispatch
    PROVE  LifeInv'
<1>1. UNCHANGED <<attached, mediaOn, media, started, dangling>>
  BY DEF Dispatch, wiring, stream
<1>2. Head(events) \in Posted
  BY HeadTailProperties DEF Dispatch, TypeInv, LinkType
<1>3. \/ todo' = <<>>
      \/ attached /\ todo' = <<Head(events)>>
  BY DEF Dispatch
<1>4. CASE todo' = <<>>
  BY <1>1, <1>4, EmptySeq DEF LifeInv, Quiet, First, Chain, EndIsABarrier
<1>5. CASE attached /\ todo' = <<Head(events)>>
  <2>1. Len(todo') = 1 /\ todo'[1] = Head(events) /\ Head(events).do \in EventNames
    BY <1>2, <1>5 DEF Posted
  <2>2. Chain' /\ First'
    BY <1>1, <1>5, <2>1 DEF Chain, First, EventNames
  <2>. QED BY <1>1, <1>5, <2>2 DEF LifeInv, Quiet, EndIsABarrier
<1>. QED BY <1>3, <1>4, <1>5

LEMMA LifeInit == Init => LifeInv
<1>1. SUFFICES ASSUME Init PROVE LifeInv
  OBVIOUS
<1>2. todo = <<>> /\ Len(todo) = 0
  BY <1>1, EmptySeq DEF Init
<1>. QED BY <1>1, <1>2 DEF Init, Sink!Init, NoMedia, LifeInv, Quiet, First, Chain, EndIsABarrier

LEMMA LifeNext == TypeInv /\ LifeInv /\ [Next]_vars => LifeInv'
<1>1. SUFFICES ASSUME TypeInv, LifeInv, [Next]_vars PROVE LifeInv'
  OBVIOUS
<1>2. CASE MediaSteps \/ \E p \in Peers : MediaArrives(p) \/ LinkSteps(p)
  BY <1>1, <1>2, MediaLife
<1>3. CASE StreamSteps
  BY <1>1, <1>3, StreamLife
<1>4. CASE Handlers
  BY <1>1, <1>4, HandlersLife
<1>5. CASE Lifetime
  BY <1>1, <1>5, LifetimeLife
<1>6. CASE Update
  BY <1>1, <1>6 DEF Update, Sink!Take, wiring, LifeInv, Quiet, First, Chain, EndIsABarrier
<1>7. CASE Dispatch
  BY <1>1, <1>7, DispatchLife
<1>8. ASSUME NEW bytes \in Configured, Begin(bytes) PROVE LifeInv'
  <2>1. /\ Steps(bytes) \in Seq(Fitting) /\ Begins(Steps(bytes)) /\ Len(Steps(bytes)) = 4
    BY <1>8, StepsType DEF Begin, Steps
  <2>2. \A k \in 2 .. 4 : /\ k = 2 => Steps(bytes)[k].do = "register"
                          /\ k # 2 => Steps(bytes)[k].do \notin Ordered
    BY StepsType DEF Ordered
  <2>. QED BY <1>1, <2>1, <2>2, StepsType, BeginsLife
<1>9. CASE End
  <2>1. <<>> \in Seq(Fitting) /\ Len(<<>>) = 0 /\ Begins(<<>>)
    BY <1>9, NoSteps DEF End
  <2>2. ASSUME NEW steps \in Seq(Fitting), Begins(steps), Len(steps) = 0
        PROVE  LifeInv'
    <3>1. ~(1 <= Len(steps)) /\ \A k \in 2 .. Len(steps) : FALSE
      BY <2>2
    <3>. QED BY <1>1, <2>2, <3>1, BeginsLife
  <2>. QED BY <2>1, <2>2
<1>10. CASE UNCHANGED vars
  BY <1>1, <1>10 DEF vars, wiring, stream, LifeInv, Quiet, First, Chain, EndIsABarrier
<1>. QED BY <1>1, <1>2, <1>3, <1>4, <1>5, <1>6, <1>7, <1>8, <1>9, <1>10 DEF Next, CallSteps

LEMMA LifeHolds == Spec => []LifeInv
<1>. QED BY TypesHold, LifeInit, LifeNext, PTL DEF Spec

(* However begin() and end() are called, and whatever the Bluetooth task is *)
(* doing, end() never frees the storage under a running pushEncoded().      *)
THEOREM EndIsALifetimeBarrier == Spec => []EndIsABarrier
<1>1. LifeInv => EndIsABarrier
  BY DEF LifeInv
<1>. QED BY LifeHolds, <1>1, PTL

(* When end() has returned, or a begin() that could not allocate, nothing   *)
(* is registered, no callback is inside, and the stream is not started.     *)
THEOREM DetachedStaysQuiet == Spec => []DetachedIsQuiet
<1>1. LifeInv => DetachedIsQuiet
  BY DEF LifeInv, Quiet, DetachedIsQuiet
<1>. QED BY LifeHolds, <1>1, PTL
=============================================================================
