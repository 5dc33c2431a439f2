------------------ MODULE EspBleA2dpSinkAdapterSyncProofs ------------------
(***************************************************************************)
(* Why the adapter agrees with the transport when everything posted has    *)
(* been handled, for every number of peers, codecs and packets, and for    *)
(* any number of events on the way.                                        *)
(***************************************************************************)
EXTENDS EspBleA2dpSinkAdapterProofs

(* One peer at a time.  To be told everything that it needs, the adapter    *)
(* must also not be attached between the codec and the connection, and its  *)
(* stream must grow at most once: what comes while a restart has left no    *)
(* stream is not told again.                                                *)
GrowsOnce     == \A b \in Configured, m, n \in Mtus : ~ (b < m /\ m < n)
NothingMissed == ~AttachAnytime /\ GrowsOnce
SyncContract  == OnePeer /\ NothingMissed

-----------------------------------------------------------------------------
(* Where the application's task is in its call. *)

Has(name) == \E i \in 1 .. Len(todo) : todo[i].do = name

Stage       == IF todo = <<>> THEN "end" ELSE Now.do
Asking      == Has("queryStreaming")  \* a begin() has yet to ask what streams,
AskingCodec == Has("queryCodec")      \* which codec is configured,
Unasked     ==                        \* and who is connected
    Asking /\ Stage \in {"unregister", "barrier", "release", "allocate", "register", "query"}

(* A handler that was called with a posted event, and one that begin()      *)
(* calls with what it was told.                                             *)
Handling      == Stage \in EventNames /\ ~Asking
Seeding(name) == Stage = name /\ Asking

(* What has been posted and not yet handled: the event that the handler now *)
(* running was called with, then the queue.                                 *)
Pending == IF Handling THEN <<Now>> \o events ELSE events

Waiting(S)      == \E i \in 1 .. Len(Pending) : Pending[i].do \in S
WaitingOf(S, p) == \E i \in 1 .. Len(Pending) : Pending[i].do \in S /\ Pending[i].peer = p
Leaves(p)       == WaitingOf({"disconnected"}, p)

UpOrDown   == {"connected", "disconnected"}
CodecOrNot == {"codec", "disconnected"}
PlayOrNot  == {"started", "suspended", "disconnected"}

-----------------------------------------------------------------------------
(* The parts of the inductive invariant. *)

(* One peer at a time; what streams is connected and configured, and its    *)
(* link does not change under a media callback.                             *)
PeersInv ==
    /\ \A p, q \in Peers : p # q => link[p] = Down \/ link[q] = Down
    /\ \A p \in Peers : link[p].streaming => link[p].up /\ Negotiated(p)
    /\ media.pc # "idle" => link[media.peer].streaming

(* What the events posted say of the links.  Which of the events of a kind  *)
(* is the last one, it still holds of the link.                             *)
PostedAt(i) ==
    /\ Pending[i] \in Posted /\ Pending[i].peer \in Peers
    /\ Pending[i].do = "connected" => Pending[i].bytes \in Mtus \cup {0}

LeavesAfter(i) ==
    \E j \in i + 1 .. Len(Pending) :
        Pending[j].do = "disconnected" /\ Pending[j].peer = Pending[i].peer

LastOf(S, i) ==
    Pending[i].do \in S /\ \A j \in i + 1 .. Len(Pending) : Pending[j].do \notin S

(* Nobody's event is followed by the end of another's connection alone.     *)
OrderAt(i) ==
    /\ Pending[i].do # "disconnected" =>
          /\ link[Pending[i].peer] # Down \/ LeavesAfter(i)
          /\ Pending[i].do # "codec" => link[Pending[i].peer].up \/ LeavesAfter(i)
          /\ \A j \in i + 1 .. Len(Pending) :
                Pending[j].do = "disconnected" => LeavesAfter(i)
    /\ Pending[i].do \in {"started", "suspended"} =>
          \A j \in i + 1 .. Len(Pending) :
             Pending[j].do = "connected" => LeavesAfter(i)

LastAt(i) ==
    /\ LastOf(UpOrDown, i) =>
          IF Pending[i].do = "connected" THEN link[Pending[i].peer].up ELSE UpPeers = {}
    /\ LastOf(CodecOrNot, i) =>
          IF Pending[i].do = "codec" THEN link[Pending[i].peer].codec = Pending[i].codec
          ELSE \A p \in Peers : ~Negotiated(p)
    /\ LastOf(PlayOrNot, i) =>
          IF Pending[i].do = "started" THEN link[Pending[i].peer].streaming ELSE ~Streams

LogInv == \A i \in 1 .. Len(Pending) : PostedAt(i) /\ OrderAt(i) /\ LastAt(i)

(* What may follow a step of the application's task; "end" is its return.   *)
Follows(name) ==
    CASE name = "unregister" -> {"barrier"}
      [] name = "barrier"    -> {"release"}
      [] name = "release"    -> {"allocate", "end"}
      [] name = "allocate"   -> {"register"}
      [] name = "register"   -> {"query"}
      [] name = "query"      -> {"queryStreaming"}
      [] name = "connected"  -> {"queryCodec", "end"}
      [] name = "free"       -> {"restart"}
      [] name \in {"restart", "apply", "empty"} -> {"queryCodec", "queryStreaming", "end"}
      [] name = "queryCodec" -> {"queryStreaming"}
      [] name = "codec"      -> {"queryStreaming", "end"}
      [] OTHER               -> {"end"}

ShapeInv ==
    \A i \in 1 .. Len(todo) :
        (IF i < Len(todo) THEN todo[i + 1].do ELSE "end") \in Follows(todo[i].do)

(* Nothing of the session before is left while begin() has yet to ask.      *)
Fresh == ~attached \/ (Asking /\ Stage \in {"register", "query", "connected"})

(* Who was accepted is there, or its end is still to be handled.            *)
AcceptInv ==
    /\ Fresh => ~have /\ ~connected /\ ~streaming /\ ~ready /\ codec.codec = "Unknown"
    /\ have => connection \in Peers /\ (link[connection] # Down \/ Leaves(connection))
    /\ connected => have /\ (link[connection].up \/ Leaves(connection))
    /\ Seeding("connected") =>
          /\ Now.peer \in Peers /\ Now.bytes \in Mtus \cup {0}
          /\ link[Now.peer].up \/ Leaves(Now.peer)
    /\ Seeding("codec") => Now.peer \in Peers /\ (link[Now.peer] # Down \/ Leaves(Now.peer))
    /\ Seeding("codec") \/ (AskingCodec /\ Stage # "connected") => have

(* connected() is right once nothing about connections is left to handle.   *)
ConnInv ==
    attached /\ ~Unasked /\ ~Seeding("connected") /\ ~Waiting(UpOrDown) =>
        connected = (UpPeers # {})

(* The same of streaming().                                                 *)
PlayInv ==
    /\ attached /\ ~Asking /\ ~Waiting(PlayOrNot) => streaming = Streams
    /\ have /\ streaming /\ ~Leaves(connection) =>
          link[connection].streaming \/ WaitingOf({"started", "suspended"}, connection)
    /\ ~have /\ streaming => Waiting(PlayOrNot)
    /\ Asking /\ ~Unasked /\ ~Seeding("connected") /\ ~have /\ Streams => Waiting({"started"})

(* The format that the stream will have after the call now running.         *)
Coming ==
    CASE Stage \in {"apply", "restart"} -> Now.codec
      [] Stage = "free" -> todo[2].codec
      [] OTHER -> codec

Restarting == Stage \in {"free", "restart"}

(* A stream that missed the codec does not decode by another.               *)
Suits(f, g) == Agrees(f, g) \/ (~NothingMissed /\ f.codec = "Unknown")

(* The same of the codec, as long as there is a stream to tell.             *)
CodecInv ==
    /\ attached /\ (started \/ Restarting) /\ ~Unasked /\ ~AskingCodec
          /\ ~Seeding("codec") /\ ~Waiting(CodecOrNot) =>
       \A p \in Peers : Negotiated(p) => Suits(Coming, ToEncodedAudioFormat(link[p].codec))
    /\ Seeding("codec") /\ ~Waiting(CodecOrNot) => link[Now.peer].codec = Now.codec
    /\ Unasked /\ NothingMissed => \A p \in Peers : HalfOpen(p) => Waiting({"codec"})

(* Once the stream has grown, or failed to, no connection asks it to again. *)
Covers(bytes) == GrowsOnce => \A m \in Mtus : m <= bytes

GrowthInv ==
    /\ maxPacket \in Configured \/ Covers(maxPacket)
    /\ attached => started \/ Restarting \/ Covers(maxPacket)
    /\ \A i \in 1 .. Len(todo) :
          /\ todo[i].do = "restart" => Covers(todo[i].bytes)
          /\ todo[i].do = "allocate" => todo[i].bytes \in Configured

(* What is left of a session that is over will be discarded; the rest is    *)
(* the current one's.                                                       *)
SessionInv ==
    /\ ready => started /\ codec.codec = "Sbc"
    /\ ~started => codec.codec = "Unknown"
    /\ ready /\ stale > 0 /\ have /\ ~Leaves(connection) =>
          WaitingOf({"suspended"}, connection) \/ Stage = "empty"
    /\ ready /\ stale > 0 /\ ~have => Waiting({"suspended", "disconnected"}) \/ Stage = "empty"
    /\ \A i \in stale + 1 .. Len(stored) :
          link[stored[i].peer].streaming /\ stored[i].codec = link[stored[i].peer].codec

SyncInv ==
    /\ PeersInv /\ LogInv /\ ShapeInv /\ AcceptInv /\ ConnInv
    /\ PlayInv /\ CodecInv /\ GrowthInv /\ SessionInv

-----------------------------------------------------------------------------
(* The stages of a call. *)

(* What the stage says of the steps that are left.                          *)
View ==
    /\ todo # <<>> => Stage = todo[1].do /\ Stage # "end"
    /\ Stage \in {"allocate", "register", "query", "queryCodec", "queryStreaming"} => Asking
    /\ Stage \in {"disconnected", "started", "suspended", "end"} => ~Asking
    /\ AskingCodec =>
          Asking /\ Stage \in {"connected", "free", "restart", "apply", "empty", "queryCodec"}
    /\ Stage = "connected" /\ Asking => AskingCodec
    /\ Stage = "codec" => ~AskingCodec
    /\ Stage = "free" => Len(todo) > 1 /\ todo[2].do = "restart"


(* What every step of a call has to do with the next.                       *)
LEMMA StepFacts ==
    ASSUME TypeInv
    PROVE  /\ Len(todo) \in Nat /\ (todo = <<>> <=> Len(todo) = 0)
           /\ \A i \in 1 .. Len(todo) : todo[i] \in Fitting /\ todo[i].do # "end"
           /\ todo # <<>> => Now = todo[1] /\ Stage = todo[1].do
<1>1. todo \in Seq(Fitting)
  BY DEF TypeInv, TodoType
<1>2. Len(todo) \in Nat /\ (todo = <<>> <=> Len(todo) = 0)
  BY <1>1, EmptySeq, LenProperties
<1>3. \A i \in 1 .. Len(todo) : todo[i] \in Fitting
  BY <1>1, ElementOfSeq
<1>. QED BY <1>1, <1>2, <1>3, NowType DEF Fitting, Calls, Stage

LEMMA ViewHolds ==
    ASSUME TypeInv, ShapeInv
    PROVE  View
<1>0. /\ Len(todo) \in Nat /\ (todo = <<>> <=> Len(todo) = 0)
      /\ \A i \in 1 .. Len(todo) : todo[i].do # "end"
      /\ todo # <<>> => Stage = todo[1].do
  BY StepFacts
<1>1. ASSUME NEW i \in 1 .. Len(todo)
      PROVE  (IF i < Len(todo) THEN todo[i + 1].do ELSE "end") \in Follows(todo[i].do)
  BY DEF ShapeInv
<1>2. ASSUME NEW i \in 1 .. Len(todo), Follows(todo[i].do) \cap {"end"} = {}
      PROVE  i + 1 \in 1 .. Len(todo) /\ todo[i + 1].do \in Follows(todo[i].do)
  BY <1>0, <1>1, <1>2
<1>3. ASSUME NEW i \in 1 .. Len(todo)
      PROVE  /\ todo[i].do \in {"query", "queryCodec", "queryStreaming"} => Asking
             /\ todo[i].do \in {"register", "allocate"} => Asking
  <2>1. ASSUME NEW j \in 1 .. Len(todo), todo[j].do \in {"query", "queryCodec"} PROVE Asking
    BY <1>2, <2>1 DEF Follows, Asking, Has
  <2>2. ASSUME NEW j \in 1 .. Len(todo), todo[j].do = "register" PROVE Asking
    BY <1>2, <2>1, <2>2 DEF Follows
  <2>3. ASSUME todo[i].do = "allocate" PROVE Asking
    BY <1>2, <2>2, <2>3 DEF Follows
  <2>. QED BY <2>1, <2>2, <2>3 DEF Asking, Has
<1>4. todo # <<>> => Stage = todo[1].do /\ Stage # "end" /\ 1 \in 1 .. Len(todo)
  BY <1>0
<1>5. todo = <<>> => Stage = "end" /\ ~Asking /\ ~AskingCodec
  BY <1>0 DEF Stage, Asking, AskingCodec, Has
<1>6. Stage \in {"allocate", "register", "query", "queryCodec", "queryStreaming"} => Asking
  BY <1>3, <1>4, <1>5
<1>7. Stage \in {"disconnected", "started", "suspended"} => ~Asking
  <2>1. SUFFICES ASSUME Stage \in {"disconnected", "started", "suspended"} PROVE ~Asking
    OBVIOUS
  <2>2. 1 \in 1 .. Len(todo) /\ todo[1].do = Stage
    BY <1>4, <1>5, <2>1
  <2>3. (IF 1 < Len(todo) THEN todo[1 + 1].do ELSE "end") = "end"
    BY <1>1, <2>1, <2>2 DEF Follows
  <2>4. Len(todo) = 1
    BY <1>0, <2>2, <2>3
  <2>. QED BY <2>1, <2>2, <2>4 DEF Asking, Has
<1>8. Stage = "connected" /\ Asking => AskingCodec
  <2>1. SUFFICES ASSUME Stage = "connected", Asking PROVE AskingCodec
    OBVIOUS
  <2>2. 1 \in 1 .. Len(todo) /\ todo[1].do = Stage
    BY <1>4, <1>5, <2>1
  <2>3. 1 < Len(todo)
    BY <1>0, <2>1, <2>2 DEF Asking, Has
  <2>4. todo[1 + 1].do = "queryCodec" /\ 1 + 1 \in 1 .. Len(todo)
    BY <1>0, <1>1, <2>1, <2>2, <2>3 DEF Follows
  <2>. QED BY <2>4 DEF AskingCodec, Has
<1>9. Stage = "free" => Len(todo) > 1 /\ todo[2].do = "restart"
  <2>1. SUFFICES ASSUME Stage = "free" PROVE Len(todo) > 1 /\ todo[2].do = "restart"
    OBVIOUS
  <2>2. 1 \in 1 .. Len(todo) /\ todo[1].do = "free"
    BY <1>4, <1>5, <2>1
  <2>. QED BY <1>0, <1>1, <2>2 DEF Follows
<1>10. AskingCodec =>
          Asking /\ Stage \in {"connected", "free", "restart", "apply", "empty", "queryCodec"}
  <2>1. SUFFICES ASSUME NEW i \in 1 .. Len(todo), todo[i].do = "queryCodec"
                 PROVE  Stage \in {"connected", "free", "restart", "apply", "empty", "queryCodec"}
    BY <1>3 DEF AskingCodec, Has
  <2>2. CASE i = 1
    BY <1>4, <1>5, <2>1, <2>2
  <2>3. CASE i # 1
    <3>1. i - 1 \in 1 .. Len(todo) /\ (i - 1) + 1 = i /\ i - 1 < Len(todo)
      BY <1>0, <2>3
    <3>2. todo[i - 1].do \in {"connected", "restart", "apply", "empty"}
      BY <1>1, <2>1, <3>1 DEF Follows
    <3>3. CASE i - 1 = 1
      BY <1>4, <1>5, <3>1, <3>2, <3>3
    <3>4. CASE i - 1 # 1
      <4>1. i - 2 \in 1 .. Len(todo) /\ (i - 2) + 1 = i - 1 /\ i - 2 < Len(todo)
        BY <1>0, <3>1, <3>4
      <4>2. todo[i - 2].do = "free"
        BY <1>1, <3>2, <4>1 DEF Follows
      <4>3. CASE i - 2 = 1
        BY <1>4, <1>5, <4>1, <4>2, <4>3
      <4>4. CASE i - 2 # 1
        <5>1. i - 3 \in 1 .. Len(todo) /\ (i - 3) + 1 = i - 2 /\ i - 3 < Len(todo)
          BY <1>0, <4>1, <4>4
        <5>. QED BY <1>1, <4>2, <5>1 DEF Follows
      <4>. QED BY <4>3, <4>4
    <3>. QED BY <3>3, <3>4
  <2>. QED BY <2>2, <2>3
<1>11. Stage = "codec" => ~AskingCodec
  BY <1>10
<1>. QED BY <1>4, <1>5, <1>6, <1>7, <1>8, <1>9, <1>10, <1>11 DEF View

LEMMA Unknown == NoCodec.codec = "Unknown"
BY DEF NoCodec

LEMMA ViewImplied == TypeInv /\ ShapeInv => View
BY ViewHolds

LEMMA ViewHoldsNext == TypeInv' /\ ShapeInv' => View'
BY ViewImplied, PTL

(* The steps that a step puts in its own place, before the rest.            *)
LEMMA ThenNames ==
    ASSUME TypeInv, todo # <<>>, NEW steps \in Seq(Fitting), Then(steps)
    PROVE  /\ \A n : Has(n)' => (\E k \in 1 .. Len(steps) : steps[k].do = n) \/ Has(n)
           /\ \A n : n # Now.do /\ Has(n) => Has(n)'
           /\ \A k \in 1 .. Len(steps) : Has(steps[k].do)'
<1>1. /\ Len(todo') = Len(steps) + Len(todo) - 1 /\ Len(steps) \in Nat /\ Len(todo) \in Nat
      /\ Len(todo) >= 1 /\ Now = todo[1]
      /\ \A k \in 1 .. Len(steps) : todo'[k] = steps[k]
      /\ \A k \in Len(steps) + 1 .. Len(todo') : todo'[k] = todo[k - Len(steps) + 1]
  BY ThenType, NowType DEF TypeInv, TodoType
<1>2. ASSUME NEW n, Has(n)' PROVE (\E k \in 1 .. Len(steps) : steps[k].do = n) \/ Has(n)
  <2>1. PICK k \in 1 .. Len(todo') : todo'[k].do = n
    BY <1>2 DEF Has
  <2>2. CASE k \in 1 .. Len(steps)
    BY <1>1, <2>1, <2>2
  <2>3. CASE k \notin 1 .. Len(steps)
    <3>1. k \in Len(steps) + 1 .. Len(todo') /\ k - Len(steps) + 1 \in 1 .. Len(todo)
      BY <1>1, <2>1, <2>3
    <3>. QED BY <1>1, <2>1, <3>1 DEF Has
  <2>. QED BY <2>2, <2>3
<1>3. ASSUME NEW n, n # Now.do, Has(n) PROVE Has(n)'
  <2>1. PICK i \in 1 .. Len(todo) : todo[i].do = n
    BY <1>3 DEF Has
  <2>2. i # 1
    BY <1>1, <1>3, <2>1
  <2>3. /\ i + Len(steps) - 1 \in Len(steps) + 1 .. Len(todo')
        /\ (i + Len(steps) - 1) - Len(steps) + 1 = i
        /\ i + Len(steps) - 1 \in 1 .. Len(todo')
    BY <1>1, <2>1, <2>2
  <2>4. todo'[i + Len(steps) - 1].do = n
    BY <1>1, <2>1, <2>3
  <2>. QED BY <2>3, <2>4 DEF Has
<1>4. ASSUME NEW k \in 1 .. Len(steps) PROVE Has(steps[k].do)'
  <2>1. k \in 1 .. Len(todo') /\ todo'[k] = steps[k]
    BY <1>1
  <2>. QED BY <2>1 DEF Has
<1>. QED BY <1>2, <1>3, <1>4

Second == IF 1 < Len(todo) THEN todo[2].do ELSE "end"

LEMMA ThenShape ==
    ASSUME TypeInv, ShapeInv, todo # <<>>, NEW steps \in Seq(Fitting), Then(steps),
           \A k \in 1 .. Len(steps) - 1 : steps[k + 1].do \in Follows(steps[k].do),
           Len(steps) > 0 => Second \in Follows(steps[Len(steps)].do)
    PROVE  ShapeInv'
<1>1. /\ Len(todo') = Len(steps) + Len(todo) - 1 /\ Len(steps) \in Nat /\ Len(todo) \in Nat
      /\ Len(todo) >= 1
      /\ \A k \in 1 .. Len(steps) : todo'[k] = steps[k]
      /\ \A k \in Len(steps) + 1 .. Len(todo') : todo'[k] = todo[k - Len(steps) + 1]
  BY ThenType DEF TypeInv, TodoType
<1>. SUFFICES ASSUME NEW i \in 1 .. Len(todo')
              PROVE  (IF i < Len(todo') THEN todo'[i + 1].do ELSE "end") \in Follows(todo'[i].do)
  BY DEF ShapeInv, Follows
<1>2. CASE i < Len(steps)
  <2>1. i \in 1 .. Len(steps) - 1 /\ i \in 1 .. Len(steps) /\ i + 1 \in 1 .. Len(steps) /\ i < Len(todo')
    BY <1>1, <1>2
  <2>2. todo'[i] = steps[i] /\ todo'[i + 1] = steps[i + 1]
    BY <1>1, <2>1
  <2>. QED BY <2>1, <2>2
<1>3. CASE i = Len(steps)
  <2>1. todo'[i] = steps[i] /\ i \in 1 .. Len(steps)
    BY <1>1, <1>3
  <2>2. (IF i < Len(todo') THEN todo'[i + 1].do ELSE "end") = Second
    <3>1. CASE i < Len(todo')
      <4>1. i + 1 \in Len(steps) + 1 .. Len(todo') /\ (i + 1) - Len(steps) + 1 = 2 /\ 1 < Len(todo)
        BY <1>1, <1>3, <3>1
      <4>2. todo'[i + 1] = todo[2]
        BY <1>1, <4>1
      <4>. QED BY <3>1, <4>1, <4>2 DEF Second
    <3>2. CASE ~ (i < Len(todo'))
      <4>1. ~ (1 < Len(todo))
        BY <1>1, <1>3, <3>2
      <4>. QED BY <3>2, <4>1 DEF Second
    <3>. QED BY <3>1, <3>2
  <2>. QED BY <1>1, <1>3, <2>1, <2>2
<1>4. CASE i > Len(steps)
  <2> DEFINE j == i - Len(steps) + 1
  <2>1. /\ i \in Len(steps) + 1 .. Len(todo') /\ j \in 1 .. Len(todo)
        /\ i < Len(todo') <=> j < Len(todo)
    BY <1>1, <1>4
  <2>2. todo'[i] = todo[j]
    BY <1>1, <2>1
  <2>3. i < Len(todo') => todo'[i + 1] = todo[j + 1]
    <3>1. i < Len(todo') => /\ i + 1 \in Len(steps) + 1 .. Len(todo')
                            /\ (i + 1) - Len(steps) + 1 = j + 1
      BY <1>1, <2>1
    <3>. QED BY <1>1, <3>1
  <2>4. (IF j < Len(todo) THEN todo[j + 1].do ELSE "end") \in Follows(todo[j].do)
    BY <2>1 DEF ShapeInv
  <2> HIDE DEF j
  <2>. QED BY <2>1, <2>2, <2>3, <2>4
<1>. QED BY <1>1, <1>2, <1>3, <1>4

-----------------------------------------------------------------------------
(* From one stage to the next. *)

(* The call goes on with what was left.                                     *)
LEMMA NoMore ==
    ASSUME TypeInv, ShapeInv, TypeInv', todo # <<>>, Then(<<>>)
    PROVE  /\ ShapeInv' /\ Stage' \in Follows(Stage)
           /\ Asking' <=> Asking /\ Stage # "queryStreaming"
           /\ AskingCodec' <=> AskingCodec /\ Stage # "queryCodec"
           /\ Len(todo) > 1 => Stage' = todo[2].do /\ Now' = todo[2]
           /\ \A i \in 1 .. Len(todo') : \E j \in 1 .. Len(todo) : todo'[i] = todo[j]
<1>1. <<>> \in Seq(Fitting) /\ Len(<<>>) = 0
  BY NoSteps
<1>2. /\ Len(todo') = Len(todo) - 1 /\ Len(todo) \in Nat /\ Len(todo) >= 1
      /\ todo' \in Seq(Fitting)
      /\ \A k \in 1 .. Len(todo') : todo'[k] = todo[k + 1]
  <2>1. todo \in Seq(Fitting)
    BY DEF TypeInv, TodoType
  <2>2. /\ Len(todo') = Len(<<>>) + Len(todo) - 1 /\ Len(todo) \in Nat /\ Len(todo) >= 1
        /\ todo' \in Seq(Fitting)
        /\ \A k \in Len(<<>>) + 1 .. Len(todo') : todo'[k] = todo[k - Len(<<>>) + 1]
    BY <1>1, <2>1, ThenType
  <2>. QED BY <1>1, <2>2
<1>3. ShapeInv'
  <2>1. /\ ~ (Len(<<>>) > 0)
        /\ \A k \in 1 .. Len(<<>>) - 1 : <<>>[k + 1].do \in Follows(<<>>[k].do)
    BY <1>1
  <2>. QED BY <1>1, <2>1, ThenShape
<1>4. View /\ View'
  BY <1>3, ViewHolds, ViewHoldsNext
<1>5. Now = todo[1] /\ Stage = todo[1].do
  BY StepFacts
<1>6. Len(todo) > 1 => Stage' = todo[2].do /\ Now' = todo[2] /\ todo' # <<>>
  <2>1. SUFFICES ASSUME Len(todo) > 1 PROVE Stage' = todo[2].do /\ Now' = todo[2] /\ todo' # <<>>
    OBVIOUS
  <2>2. 1 \in 1 .. Len(todo') /\ todo'[1] = todo[2] /\ todo' # <<>>
    BY <1>2, <2>1, EmptySeq
  <2>3. Now' = todo'[1]
    BY <2>2 DEF Now
  <2>. QED BY <2>2, <2>3 DEF Stage
<1>7. Stage' \in Follows(Stage)
  <2>1. (IF 1 < Len(todo) THEN todo[1 + 1].do ELSE "end") \in Follows(todo[1].do)
    BY <1>2 DEF ShapeInv
  <2>2. CASE 1 < Len(todo)
    BY <1>2, <1>5, <1>6, <2>1, <2>2
  <2>3. CASE ~ (1 < Len(todo))
    <3>1. todo' = <<>>
      BY <1>2, <2>3, EmptySeq
    <3>. QED BY <1>5, <2>1, <2>3, <3>1 DEF Stage
  <2>. QED BY <2>2, <2>3
<1>8. /\ \A n : Has(n)' => Has(n)
      /\ \A n : n # Now.do /\ Has(n) => Has(n)'
  <2>1. /\ \A n : Has(n)' => (\E k \in 1 .. Len(<<>>) : <<>>[k].do = n) \/ Has(n)
        /\ \A n : n # Now.do /\ Has(n) => Has(n)'
    BY <1>1, ThenNames
  <2>2. \A k \in 1 .. Len(<<>>) : FALSE
    BY <1>1
  <2>. QED BY <2>1, <2>2
<1>9. Asking' <=> Asking /\ Stage # "queryStreaming"
  <2>1. Stage = "queryStreaming" => Stage' = "end"
    BY <1>7 DEF Follows
  <2>2. Stage = "queryStreaming" => ~Asking'
    BY <1>4, <2>1 DEF View
  <2>. QED BY <1>5, <1>8, <2>2 DEF Asking
<1>10. AskingCodec' <=> AskingCodec /\ Stage # "queryCodec"
  <2>1. Stage = "queryCodec" => Stage' = "queryStreaming"
    BY <1>7 DEF Follows
  <2>2. Stage = "queryCodec" => ~AskingCodec'
    BY <1>4, <2>1 DEF View
  <2>. QED BY <1>5, <1>8, <2>2 DEF AskingCodec
<1>11. \A i \in 1 .. Len(todo') : \E j \in 1 .. Len(todo) : todo'[i] = todo[j]
  <2>1. \A i \in 1 .. Len(todo') : i + 1 \in 1 .. Len(todo)
    BY <1>2
  <2>. QED BY <1>2, <2>1
<1>. QED BY <1>3, <1>6, <1>7, <1>9, <1>10, <1>11

(* It goes on with one step before that.                                    *)
LEMMA OneMore ==
    ASSUME TypeInv, ShapeInv, TypeInv', todo # <<>>, NEW c \in Fitting, Then(<<c>>),
           Second \in Follows(c.do),
           c.do \notin {"queryStreaming", "queryCodec"},
           Stage \notin {"queryStreaming", "queryCodec"}
    PROVE  /\ ShapeInv' /\ Stage' = c.do /\ Now' = c
           /\ Asking' <=> Asking
           /\ AskingCodec' <=> AskingCodec
           /\ \A i \in 1 .. Len(todo') :
                 todo'[i] = c \/ \E j \in 1 .. Len(todo) : todo'[i] = todo[j]
<1>1. <<c>> \in Seq(Fitting) /\ Len(<<c>>) = 1 /\ <<c>>[1] = c
  BY OneStep
<1>2. /\ Len(todo') = Len(todo) /\ Len(todo) \in Nat /\ Len(todo) >= 1
      /\ todo'[1] = c
      /\ \A k \in 2 .. Len(todo') : todo'[k] = todo[k]
  <2>1. todo \in Seq(Fitting)
    BY DEF TypeInv, TodoType
  <2>2. /\ Len(todo') = 1 + Len(todo) - 1 /\ Len(todo) \in Nat /\ Len(todo) >= 1
        /\ \A k \in 1 .. 1 : todo'[k] = <<c>>[k]
        /\ \A k \in 1 + 1 .. Len(todo') : todo'[k] = todo[k - 1 + 1]
    BY <1>1, <2>1, ThenType, Zenon
  <2>. QED BY <1>1, <2>2
<1>3. ShapeInv'
  BY <1>1, ThenShape
<1>4. todo' # <<>> /\ Now' = c /\ Stage' = c.do
  <2>1. todo' # <<>> /\ todo'[1] = c
    BY <1>2, EmptySeq
  <2>. QED BY <2>1 DEF Now, Stage
<1>5. Stage = Now.do
  BY DEF Stage
<1>6. /\ \A n : Has(n)' => c.do = n \/ Has(n)
      /\ \A n : n # Now.do /\ Has(n) => Has(n)'
  <2>1. /\ \A n : Has(n)' => (\E k \in 1 .. Len(<<c>>) : <<c>>[k].do = n) \/ Has(n)
        /\ \A n : n # Now.do /\ Has(n) => Has(n)'
    BY <1>1, ThenNames
  <2>2. \A k \in 1 .. Len(<<c>>) : <<c>>[k] = c
    BY <1>1
  <2>. QED BY <2>1, <2>2
<1>7. \A i \in 1 .. Len(todo') :
        todo'[i] = c \/ \E j \in 1 .. Len(todo) : todo'[i] = todo[j]
  <2>1. \A i \in 1 .. Len(todo') : i = 1 \/ i \in 2 .. Len(todo')
    BY <1>2
  <2>. QED BY <1>2, <2>1
<1>. QED BY <1>3, <1>4, <1>5, <1>6, <1>7 DEF Asking, AskingCodec

(* It goes on with two.                                                     *)
LEMMA TwoMore ==
    ASSUME TypeInv, ShapeInv, TypeInv', todo # <<>>, NEW c \in Fitting, NEW d \in Fitting,
           Then(<<c, d>>), d.do \in Follows(c.do), Second \in Follows(d.do),
           c.do \notin {"queryStreaming", "queryCodec"}, d.do # "queryStreaming",
           Stage \notin {"queryStreaming", "queryCodec"}
    PROVE  /\ ShapeInv' /\ Stage' = c.do /\ Now' = c /\ todo'[2] = d
           /\ Asking' <=> Asking
           /\ AskingCodec' <=> AskingCodec \/ d.do = "queryCodec"
           /\ \A i \in 1 .. Len(todo') :
                 todo'[i] \in {c, d} \/ \E j \in 1 .. Len(todo) : todo'[i] = todo[j]
<1>1. <<c, d>> \in Seq(Fitting) /\ Len(<<c, d>>) = 2 /\ <<c, d>>[1] = c /\ <<c, d>>[2] = d
  BY TwoSteps
<1>2. /\ Len(todo') = Len(todo) + 1 /\ Len(todo) \in Nat /\ Len(todo) >= 1
      /\ todo'[1] = c /\ todo'[2] = d
      /\ \A k \in 3 .. Len(todo') : todo'[k] = todo[k - 1]
  <2>1. todo \in Seq(Fitting)
    BY DEF TypeInv, TodoType
  <2>2. /\ Len(todo') = 2 + Len(todo) - 1 /\ Len(todo) \in Nat /\ Len(todo) >= 1
        /\ \A k \in 1 .. 2 : todo'[k] = <<c, d>>[k]
        /\ \A k \in 2 + 1 .. Len(todo') : todo'[k] = todo[k - 2 + 1]
    BY <1>1, <2>1, ThenType, Zenon
  <2>. QED BY <1>1, <2>2
<1>3. ShapeInv'
  <2>1. \A k \in 1 .. 2 - 1 : <<c, d>>[k + 1].do \in Follows(<<c, d>>[k].do)
    BY <1>1
  <2>. QED BY <1>1, <2>1, ThenShape
<1>4. todo' # <<>> /\ Now' = c /\ Stage' = c.do
  <2>1. todo' # <<>> /\ todo'[1] = c
    BY <1>2, EmptySeq
  <2>. QED BY <2>1 DEF Now, Stage
<1>5. Stage = Now.do
  BY DEF Stage
<1>6. /\ \A n : Has(n)' => c.do = n \/ d.do = n \/ Has(n)
      /\ \A n : n # Now.do /\ Has(n) => Has(n)'
      /\ Has(d.do)'
  <2>1. 2 \in 1 .. Len(<<c, d>>) /\ \A k \in 1 .. Len(<<c, d>>) : k = 1 \/ k = 2
    BY <1>1
  <2>2. /\ \A n : Has(n)' => (\E k \in 1 .. Len(<<c, d>>) : <<c, d>>[k].do = n) \/ Has(n)
        /\ \A n : n # Now.do /\ Has(n) => Has(n)'
        /\ \A k \in 1 .. Len(<<c, d>>) : Has(<<c, d>>[k].do)'
    BY <1>1, ThenNames
  <2>3. Has(<<c, d>>[2].do)'
    BY <2>1, <2>2
  <2>. QED BY <1>1, <2>1, <2>2, <2>3
<1>7. \A i \in 1 .. Len(todo') :
        todo'[i] \in {c, d} \/ \E j \in 1 .. Len(todo) : todo'[i] = todo[j]
  <2>1. \A i \in 1 .. Len(todo') :
          i = 1 \/ i = 2 \/ (i \in 3 .. Len(todo') /\ i - 1 \in 1 .. Len(todo))
    BY <1>2
  <2>. QED BY <1>2, <2>1
<1>8. Asking' <=> Asking
  BY <1>5, <1>6 DEF Asking
<1>9. AskingCodec' <=> AskingCodec \/ d.do = "queryCodec"
  <2>1. d.do = "queryCodec" => AskingCodec'
    BY <1>6 DEF AskingCodec
  <2>2. AskingCodec => AskingCodec'
    BY <1>5, <1>6 DEF AskingCodec
  <2>3. AskingCodec' => AskingCodec \/ d.do = "queryCodec"
    BY <1>6 DEF AskingCodec
  <2>. QED BY <2>1, <2>2, <2>3
<1>. QED BY <1>2, <1>3, <1>4, <1>7, <1>8, <1>9

(* What comes second is what may follow the first.                          *)
LEMMA SecondFollows ==
    ASSUME TypeInv, ShapeInv, todo # <<>>
    PROVE  Second \in Follows(Stage)
<1>1. Len(todo) \in Nat /\ Len(todo) # 0 /\ Stage = todo[1].do
  BY StepFacts
<1>2. (IF 1 < Len(todo) THEN todo[1 + 1].do ELSE "end") \in Follows(todo[1].do)
  BY <1>1 DEF ShapeInv
<1>. QED BY <1>1, <1>2 DEF Second


-----------------------------------------------------------------------------
(* What a step does to the events not yet handled. *)

Kept    == Pending' = Pending
Taken   == Pending # <<>> /\ Pending' = Tail(Pending)
Told(e) == Pending' = Append(Pending, e)

LEMMA PendingType ==
    ASSUME TypeInv
    PROVE  Pending \in Seq(Posted) /\ Len(Pending) \in Nat
<1>1. events \in Seq(Posted)
  BY DEF TypeInv, LinkType
<1>2. CASE Handling
  <2>1. Stage # "end"
    BY <1>2 DEF Handling, EventNames
  <2>2. todo # <<>> /\ Now.do \in EventNames
    BY <1>2, <2>1 DEF Handling, Stage
  <2>3. Now \in Posted
    BY <2>2, TodoFacts DEF Posted
  <2>. QED BY <1>1, <1>2, <2>3, LenProperties, ConcatProperties DEF Pending
<1>3. CASE ~Handling
  BY <1>1, <1>3, LenProperties DEF Pending
<1>. QED BY <1>2, <1>3

(* Between two stages of which neither handles an event the queue is all.   *)
LEMMA KeptOutside ==
    ASSUME ~Handling, ~Handling', UNCHANGED events
    PROVE  Kept
BY DEF Kept, Pending

LEMMA TakenByHandler ==
    ASSUME TypeInv, Handling, ~Handling', UNCHANGED events
    PROVE  Taken /\ Pending[1] = Now
<1>1. events \in Seq(Posted) /\ Pending = <<Now>> \o events /\ Pending' = events
  BY DEF TypeInv, LinkType, Pending
<1>2. Pending # <<>> /\ Tail(<<Now>> \o events) = events /\ (<<Now>> \o events)[1] = Now
  BY <1>1
<1>. QED BY <1>1, <1>2 DEF Taken

(* A step outside of the application's task.                                *)
LEMMA SameStage ==
    ASSUME UNCHANGED todo
    PROVE  /\ UNCHANGED <<Stage, Now, Asking, AskingCodec, Unasked, Handling>>
           /\ \A n : UNCHANGED Seeding(n)
           /\ UNCHANGED events => Kept
           /\ ShapeInv => ShapeInv'
BY DEF Stage, Now, Asking, AskingCodec, Has, Unasked, Handling, Seeding, Kept, Pending, ShapeInv

LEMMA ToldOutside ==
    ASSUME TypeInv, UNCHANGED todo, NEW e \in Posted, events' = Append(events, e)
    PROVE  Told(e)
<1>1. events \in Seq(Posted) /\ (Handling' <=> Handling) /\ Now' = Now
  BY SameStage DEF TypeInv, LinkType
<1>2. CASE Handling
  <2>1. <<Now>> \o Append(events, e) = Append(<<Now>> \o events, e)
    <3>1. \A w : <<w>> \o Append(events, e) = Append(<<w>> \o events, e)
      BY <1>1
    <3>. QED BY <3>1
  <2>2. Pending = <<Now>> \o events
    BY <1>2 DEF Pending
  <2>3. Pending' = <<Now>> \o Append(events, e)
    BY <1>1, <1>2 DEF Pending
  <2>. QED BY <2>1, <2>2, <2>3 DEF Told
<1>3. CASE ~Handling
  BY <1>1, <1>3 DEF Told, Pending
<1>. QED BY <1>2, <1>3

(* What waits after the step.                                               *)
LEMMA WaitingKept ==
    ASSUME Kept
    PROVE  /\ \A S : Waiting(S)' <=> Waiting(S)
           /\ \A S, p : WaitingOf(S, p)' <=> WaitingOf(S, p)
           /\ \A p : Leaves(p)' <=> Leaves(p)
BY DEF Kept, Waiting, WaitingOf, Leaves

LEMMA TakenPlaces ==
    ASSUME TypeInv, Taken
    PROVE  /\ Len(Pending) \in Nat /\ Len(Pending) >= 1 /\ Len(Pending') = Len(Pending) - 1
           /\ \A i \in 1 .. Len(Pending') : Pending'[i] = Pending[i + 1]
           /\ \A i \in 2 .. Len(Pending) : Pending[i] = Pending'[i - 1]
<1>1. Pending \in Seq(Posted)
  BY PendingType
<1>2. /\ Len(Pending) \in Nat /\ Len(Pending) >= 1 /\ Len(Pending') = Len(Pending) - 1
      /\ \A i \in 1 .. Len(Pending') : Pending'[i] = Pending[i + 1]
  BY <1>1, HeadTailProperties, LenProperties, EmptySeq DEF Taken
<1>3. \A i \in 2 .. Len(Pending) : i - 1 \in 1 .. Len(Pending') /\ (i - 1) + 1 = i
  BY <1>2
<1>4. \A i \in 2 .. Len(Pending) : Pending[i] = Pending'[i - 1]
  BY <1>2, <1>3
<1>. QED BY <1>2, <1>4

LEMMA WaitingTaken ==
    ASSUME TypeInv, Taken
    PROVE  /\ \A S : Waiting(S) <=> Pending[1].do \in S \/ Waiting(S)'
           /\ \A S, p : WaitingOf(S, p) <=>
                 (Pending[1].do \in S /\ Pending[1].peer = p) \/ WaitingOf(S, p)'
           /\ \A p : Leaves(p) <=>
                 (Pending[1].do = "disconnected" /\ Pending[1].peer = p) \/ Leaves(p)'
<1>1. /\ Len(Pending) \in Nat /\ Len(Pending) >= 1 /\ Len(Pending') = Len(Pending) - 1
      /\ \A i \in 1 .. Len(Pending') : Pending'[i] = Pending[i + 1]
      /\ \A i \in 2 .. Len(Pending) : Pending[i] = Pending'[i - 1]
  BY TakenPlaces
<1>2. \A i \in 1 .. Len(Pending) : i = 1 \/ (i \in 2 .. Len(Pending) /\ i - 1 \in 1 .. Len(Pending'))
  BY <1>1
<1>3. \A i \in 1 .. Len(Pending') : i + 1 \in 1 .. Len(Pending)
  BY <1>1
<1>4. 1 \in 1 .. Len(Pending)
  BY <1>1
<1>5. ASSUME NEW S PROVE Waiting(S) <=> Pending[1].do \in S \/ Waiting(S)'
  BY <1>1, <1>2, <1>3, <1>4 DEF Waiting
<1>6. ASSUME NEW S, NEW p
      PROVE  WaitingOf(S, p) <=>
                (Pending[1].do \in S /\ Pending[1].peer = p) \/ WaitingOf(S, p)'
  BY <1>1, <1>2, <1>3, <1>4 DEF WaitingOf
<1>7. ASSUME NEW p
      PROVE  Leaves(p) <=> (Pending[1].do = "disconnected" /\ Pending[1].peer = p) \/ Leaves(p)'
  BY <1>6 DEF Leaves
<1>. QED BY <1>5, <1>6, <1>7

LEMMA ToldPlaces ==
    ASSUME TypeInv, NEW e, Told(e)
    PROVE  /\ Len(Pending) \in Nat /\ Len(Pending') = Len(Pending) + 1
           /\ Pending'[Len(Pending')] = e
           /\ \A i \in 1 .. Len(Pending) : i \in 1 .. Len(Pending') /\ Pending'[i] = Pending[i]
           /\ \A i \in 1 .. Len(Pending') : i = Len(Pending') \/ i \in 1 .. Len(Pending)
<1>1. Pending \in Seq(Posted) /\ Len(Pending) \in Nat
  BY PendingType
<1>2. /\ Len(Pending') = Len(Pending) + 1
      /\ Pending'[Len(Pending) + 1] = e
      /\ \A i \in 1 .. Len(Pending) : Pending'[i] = Pending[i]
  BY <1>1 DEF Told
<1>. QED BY <1>1, <1>2

LEMMA WaitingTold ==
    ASSUME TypeInv, NEW e, Told(e)
    PROVE  /\ \A S : Waiting(S)' <=> e.do \in S \/ Waiting(S)
           /\ \A S, p : WaitingOf(S, p)' <=> (e.do \in S /\ e.peer = p) \/ WaitingOf(S, p)
           /\ \A p : Leaves(p)' <=> (e.do = "disconnected" /\ e.peer = p) \/ Leaves(p)
<1>1. /\ Len(Pending) \in Nat /\ Len(Pending') = Len(Pending) + 1
      /\ Pending'[Len(Pending')] = e
      /\ \A i \in 1 .. Len(Pending) : i \in 1 .. Len(Pending') /\ Pending'[i] = Pending[i]
      /\ \A i \in 1 .. Len(Pending') : i = Len(Pending') \/ i \in 1 .. Len(Pending)
      /\ Len(Pending') \in 1 .. Len(Pending')
  BY ToldPlaces
<1>2. ASSUME NEW S PROVE Waiting(S)' <=> e.do \in S \/ Waiting(S)
  BY <1>1 DEF Waiting
<1>3. ASSUME NEW S, NEW p
      PROVE  WaitingOf(S, p)' <=> (e.do \in S /\ e.peer = p) \/ WaitingOf(S, p)
  BY <1>1 DEF WaitingOf
<1>4. ASSUME NEW p PROVE Leaves(p)' <=> (e.do = "disconnected" /\ e.peer = p) \/ Leaves(p)
  BY <1>3 DEF Leaves
<1>. QED BY <1>2, <1>3, <1>4


-----------------------------------------------------------------------------
(* The Bluetooth task changes the link of p, and posts e about it.          *)

Unchanging ==
    /\ UNCHANGED <<wiring, accepted, maxPacket, started, codec, ready, stored, todo, media>>
    /\ media.pc = "idle"

LinkMove(p, e) ==
    /\ e \in Posted /\ e.peer = p /\ Told(e)
    /\ \A q \in Peers \ {p} : link[q] = Down /\ link'[q] = Down
    /\ \/ /\ e.do = "codec" /\ e.codec # NoCodec /\ link'[p].codec = e.codec
          /\ (link'[p].up <=> link[p].up) /\ ~link[p].streaming /\ ~link'[p].streaming
       \/ /\ e.do = "connected" /\ e.bytes \in Mtus /\ ~link[p].up /\ link'[p].up
          /\ link'[p].codec = link[p].codec /\ (link'[p].streaming <=> link[p].streaming)
       \/ /\ e.do = "started" /\ link[p].up /\ Negotiated(p) /\ link'[p].up
          /\ link'[p].codec = link[p].codec /\ ~link[p].streaming /\ link'[p].streaming
       \/ /\ e.do = "suspended" /\ link[p].streaming /\ (link'[p].up <=> link[p].up)
          /\ link'[p].codec = link[p].codec /\ ~link'[p].streaming
       \/ e.do = "disconnected" /\ link[p].up /\ link'[p] = Down
    /\ stale' = IF e.do \in {"disconnected", "suspended"} THEN Len(stored) ELSE stale

LEMMA LinkMoves ==
    ASSUME TypeInv, OnePeer, PeersInv, NEW p \in Peers, LinkSteps(p)
    PROVE  Unchanging /\ \E e \in Posted : LinkMove(p, e)
<1>0. link[p] \in Links /\ link \in [Peers -> Links] /\ Down.up = FALSE /\ Down.streaming = FALSE
      /\ NoCodec \in AnyCodec /\ Codecs \subseteq AnyCodec
  BY DEF TypeInv, LinkType, Down, AnyCodec
<1>1. ASSUME NEW new, NEW e \in Posted, Change(p, new, e),
             \A q \in Peers \ {p} : link[q] = Down
      PROVE  /\ Unchanging /\ Told(e) /\ link'[p] = new
             /\ \A q \in Peers \ {p} : link[q] = Down /\ link'[q] = Down
             /\ stale' = IF e.do \in {"disconnected", "suspended"} THEN Len(stored) ELSE stale
  <2>1. UNCHANGED todo /\ events' = Append(events, e) /\ link' = [link EXCEPT ![p] = new]
    BY <1>1 DEF Change
  <2>2. Told(e)
    BY <2>1, ToldOutside
  <2>3. link'[p] = new /\ \A q \in Peers \ {p} : link'[q] = link[q]
    BY <1>0, <2>1
  <2>. QED BY <1>1, <2>2, <2>3 DEF Change, Unchanging
<1>2. Reachable(p) => \A q \in Peers \ {p} : link[q] = Down
  BY DEF Reachable
<1>3. link[p] # Down => \A q \in Peers \ {p} : link[q] = Down
  BY DEF PeersInv
<1>4. ASSUME NEW c \in Codecs, ConfigureCodec(p, c)
      PROVE  Unchanging /\ \E e \in Posted : LinkMove(p, e)
  <2> DEFINE e == Call("codec", p, c, 0)
             new == [link[p] EXCEPT !.codec = c]
  <2>1. e \in Posted /\ e.do = "codec" /\ e.peer = p /\ e.codec = c
    BY <1>0, CallType DEF EventNames, Call
  <2>2. new.codec = c /\ new.up = link[p].up /\ new.streaming = link[p].streaming
    BY <1>0 DEF Links
  <2>3. Change(p, new, e) /\ \A q \in Peers \ {p} : link[q] = Down
    BY <1>2, <1>4 DEF ConfigureCodec
  <2>4. ~link[p].streaming /\ c # NoCodec
    BY <1>4, AdapterAssumption DEF ConfigureCodec
  <2> HIDE DEF e, new
  <2>5. LinkMove(p, e)
    BY <1>1, <2>1, <2>2, <2>3, <2>4 DEF LinkMove
  <2>. QED BY <1>1, <2>1, <2>3, <2>5
<1>5. ASSUME NEW mtu \in Mtus, Connect(p, mtu)
      PROVE  Unchanging /\ \E e \in Posted : LinkMove(p, e)
  <2> DEFINE e == Call("connected", p, NoCodec, mtu)
             new == [link[p] EXCEPT !.up = TRUE, !.mtu = mtu]
  <2>1. e \in Posted /\ e.do = "connected" /\ e.peer = p /\ e.bytes = mtu
    BY <1>0, CallType DEF EventNames
  <2>2. new.codec = link[p].codec /\ new.up /\ new.streaming = link[p].streaming
    BY <1>0 DEF Links
  <2>3. Change(p, new, e) /\ (\A q \in Peers \ {p} : link[q] = Down) /\ ~link[p].up
    BY <1>2, <1>5 DEF Connect
  <2> HIDE DEF e, new
  <2>5. LinkMove(p, e)
    BY <1>1, <2>1, <2>2, <2>3 DEF LinkMove
  <2>. QED BY <1>1, <2>1, <2>3, <2>5
<1>6. CASE StartStream(p)
  <2> DEFINE e == Call("started", p, NoCodec, 0)
             new == [link[p] EXCEPT !.streaming = TRUE]
  <2>1. e \in Posted /\ e.do = "started" /\ e.peer = p
    BY <1>0, CallType DEF EventNames
  <2>2. new.codec = link[p].codec /\ new.up = link[p].up /\ new.streaming
    BY <1>0 DEF Links
  <2>3. Change(p, new, e) /\ link[p].up /\ Negotiated(p) /\ ~link[p].streaming
    BY <1>6 DEF StartStream
  <2>4. \A q \in Peers \ {p} : link[q] = Down
    BY <1>0, <1>3, <2>3
  <2> HIDE DEF e, new
  <2>5. LinkMove(p, e)
    BY <1>1, <2>1, <2>2, <2>3, <2>4 DEF LinkMove
  <2>. QED BY <1>1, <2>1, <2>3, <2>4, <2>5
<1>7. CASE SuspendStream(p)
  <2> DEFINE e == Call("suspended", p, NoCodec, 0)
             new == [link[p] EXCEPT !.streaming = FALSE]
  <2>1. e \in Posted /\ e.do = "suspended" /\ e.peer = p
    BY <1>0, CallType DEF EventNames
  <2>2. new.codec = link[p].codec /\ new.up = link[p].up /\ ~new.streaming
    BY <1>0 DEF Links
  <2>3. Change(p, new, e) /\ link[p].streaming
    BY <1>7 DEF SuspendStream
  <2>4. \A q \in Peers \ {p} : link[q] = Down
    BY <1>0, <1>3, <2>3
  <2> HIDE DEF e, new
  <2>5. LinkMove(p, e)
    BY <1>1, <2>1, <2>2, <2>3, <2>4 DEF LinkMove
  <2>. QED BY <1>1, <2>1, <2>3, <2>4, <2>5
<1>8. CASE Disconnect(p)
  <2> DEFINE e == Call("disconnected", p, NoCodec, 0)
  <2>1. e \in Posted /\ e.do = "disconnected" /\ e.peer = p
    BY <1>0, CallType DEF EventNames
  <2>3. Change(p, Down, e) /\ link[p].up
    BY <1>8 DEF Disconnect
  <2>4. \A q \in Peers \ {p} : link[q] = Down
    BY <1>0, <1>3, <2>3
  <2> HIDE DEF e
  <2>5. LinkMove(p, e)
    BY <1>1, <2>1, <2>3, <2>4 DEF LinkMove
  <2>. QED BY <1>1, <2>1, <2>3, <2>4, <2>5
<1>. QED BY <1>4, <1>5, <1>6, <1>7, <1>8 DEF LinkSteps

(* Nothing is known of a peer that is not there.                            *)
LEMMA DownFacts ==
    /\ Down.up = FALSE /\ Down.streaming = FALSE /\ Down.codec = NoCodec
    /\ \A p \in Peers : link[p].up \/ link[p].streaming \/ Negotiated(p) => link[p] # Down
    /\ \A p \in Peers : link[p].up => UpPeers # {}
    /\ \A p \in Peers : link[p].streaming => Streams
BY DEF Down, Negotiated, UpPeers, Streams

(* Of the one that is there, the rest follows.                              *)
LEMMA OnlyOne ==
    ASSUME NEW p \in Peers, \A q \in Peers \ {p} : link[q] = Down
    PROVE  /\ UpPeers # {} <=> link[p].up
           /\ Streams <=> link[p].streaming
           /\ \A q \in Peers : Negotiated(q) => q = p
<1>1. \A q \in Peers : q # p => ~link[q].up /\ ~link[q].streaming /\ ~Negotiated(q)
  BY DEF Down, Negotiated
<1>. QED BY <1>1 DEF UpPeers, Streams

LEMMA OnlyOneNext ==
    ASSUME NEW p \in Peers, \A q \in Peers \ {p} : link'[q] = Down
    PROVE  /\ UpPeers' # {} <=> link'[p].up
           /\ Streams' <=> link'[p].streaming
           /\ \A q \in Peers : Negotiated(q)' => q = p
<1>1. \A q \in Peers : q # p => ~link'[q].up /\ ~link'[q].streaming /\ ~Negotiated(q)'
  BY DEF Down, Negotiated
<1>. QED BY <1>1 DEF UpPeers, Streams

LEMMA LinkPeers ==
    ASSUME TypeInv, PeersInv, NEW p \in Peers, NEW e, LinkMove(p, e), Unchanging
    PROVE  PeersInv'
<1>1. \A q \in Peers \ {p} : link'[q] = Down
  BY DEF LinkMove
<1>2. \A q \in Peers : link'[q].streaming => q = p
  BY <1>1 DEF Down
<1>3. link'[p].streaming => link'[p].up /\ link'[p].codec # NoCodec
  <2>1. link[p].streaming => link[p].up /\ link[p].codec # NoCodec
    BY DEF PeersInv, Negotiated
  <2>. QED BY <2>1 DEF LinkMove, Negotiated, Down
<1>. QED BY <1>1, <1>2, <1>3 DEF PeersInv, Negotiated, Unchanging


-----------------------------------------------------------------------------
(* What the log says of the links stays true. *)

LEMMA LogKept ==
    ASSUME LogInv, Kept, UNCHANGED link
    PROVE  LogInv'
<1>1. Pending' = Pending /\ link' = link
  BY DEF Kept
<1>2. ASSUME NEW i \in 1 .. Len(Pending) PROVE PostedAt(i)' /\ OrderAt(i)' /\ LastAt(i)'
  <2>1. PostedAt(i) /\ OrderAt(i) /\ LastAt(i)
    BY DEF LogInv
  <2>2. UpPeers' = UpPeers /\ (Streams' <=> Streams) /\ \A p \in Peers : Negotiated(p)' <=> Negotiated(p)
    BY <1>1 DEF UpPeers, Streams, Negotiated
  <2>3. (LeavesAfter(i)' <=> LeavesAfter(i)) /\ \A S : LastOf(S, i)' <=> LastOf(S, i)
    BY <1>1 DEF LeavesAfter, LastOf
  <2>4. LastAt(i)'
    BY <1>1, <2>1, <2>2, <2>3 DEF LastAt
  <2>. QED BY <1>1, <2>1, <2>3, <2>4 DEF PostedAt, OrderAt
<1>. QED BY <1>1, <1>2 DEF LogInv

LEMMA LogTaken ==
    ASSUME TypeInv, LogInv, Taken, UNCHANGED link
    PROVE  LogInv'
<1>1. /\ Len(Pending) \in Nat /\ Len(Pending) >= 1 /\ Len(Pending') = Len(Pending) - 1
      /\ \A i \in 1 .. Len(Pending') : Pending'[i] = Pending[i + 1]
      /\ \A i \in 2 .. Len(Pending) : Pending[i] = Pending'[i - 1]
  BY TakenPlaces
<1>2. UpPeers' = UpPeers /\ (Streams' <=> Streams) /\ \A p \in Peers : Negotiated(p)' <=> Negotiated(p)
  BY DEF UpPeers, Streams, Negotiated
<1>3. ASSUME NEW k \in 1 .. Len(Pending') PROVE PostedAt(k)' /\ OrderAt(k)' /\ LastAt(k)'
  <2> DEFINE i == k + 1
  <2>1. i \in 1 .. Len(Pending) /\ i \in 2 .. Len(Pending) /\ Pending'[k] = Pending[i]
    BY <1>1
  <2>2. PostedAt(i) /\ OrderAt(i) /\ LastAt(i)
    BY <2>1 DEF LogInv
  <2>3. \A j \in k + 1 .. Len(Pending') : j + 1 \in i + 1 .. Len(Pending) /\ Pending'[j] = Pending[j + 1]
    BY <1>1
  <2>4. \A j \in i + 1 .. Len(Pending) : j - 1 \in k + 1 .. Len(Pending') /\ Pending[j] = Pending'[j - 1]
    BY <1>1
  <2> HIDE DEF i
  <2>5. LeavesAfter(k)' <=> LeavesAfter(i)
    BY <2>1, <2>3, <2>4 DEF LeavesAfter
  <2>6. \A S : LastOf(S, k)' <=> LastOf(S, i)
    BY <2>1, <2>3, <2>4 DEF LastOf
  <2>7. PostedAt(k)'
    BY <2>1, <2>2 DEF PostedAt
  <2>8. LastAt(k)'
    BY <1>2, <2>1, <2>2, <2>6 DEF LastAt
  <2>9. OrderAt(k)'
    BY <2>1, <2>2, <2>3, <2>5 DEF OrderAt
  <2>. QED BY <2>7, <2>8, <2>9
<1>. QED BY <1>3 DEF LogInv

LEMMA LogTold ==
    ASSUME TypeInv, TypeInv', PeersInv, PeersInv', LogInv, NEW p \in Peers, NEW e, LinkMove(p, e)
    PROVE  LogInv'
<1>0. /\ Len(Pending) \in Nat /\ Len(Pending') = Len(Pending) + 1
      /\ Pending'[Len(Pending')] = e
      /\ \A i \in 1 .. Len(Pending) : i \in 1 .. Len(Pending') /\ Pending'[i] = Pending[i]
      /\ \A i \in 1 .. Len(Pending') : i = Len(Pending') \/ i \in 1 .. Len(Pending)
  BY ToldPlaces DEF LinkMove
<1>1. /\ e \in Posted /\ e.peer = p
      /\ e.do \in {"connected", "disconnected", "codec", "started", "suspended"}
  BY DEF LinkMove
<1>2. /\ UpPeers # {} <=> link[p].up
      /\ Streams <=> link[p].streaming
      /\ \A q \in Peers : Negotiated(q) => q = p
  BY OnlyOne DEF LinkMove
<1>3. /\ UpPeers' # {} <=> link'[p].up
      /\ Streams' <=> link'[p].streaming
      /\ \A q \in Peers : Negotiated(q)' => q = p
  BY OnlyOneNext DEF LinkMove
<1>4. ASSUME NEW i \in 1 .. Len(Pending) PROVE PostedAt(i)' /\ OrderAt(i)' /\ LastAt(i)'
  <2> DEFINE x == Pending[i]
  <2>1. PostedAt(i) /\ OrderAt(i) /\ LastAt(i) /\ Pending'[i] = x /\ x.peer \in Peers
    BY <1>0 DEF LogInv, PostedAt
  <2>2. \A j \in i + 1 .. Len(Pending') :
           (j = Len(Pending') /\ Pending'[j] = e) \/ (j \in i + 1 .. Len(Pending) /\ Pending'[j] = Pending[j])
    BY <1>0
  <2>3. /\ \A j \in i + 1 .. Len(Pending) : j \in i + 1 .. Len(Pending') /\ Pending'[j] = Pending[j]
        /\ Len(Pending') \in i + 1 .. Len(Pending')
    BY <1>0
  <2>4. LeavesAfter(i)' <=> LeavesAfter(i) \/ (e.do = "disconnected" /\ e.peer = x.peer)
    BY <1>0, <2>1, <2>2, <2>3 DEF LeavesAfter
  <2>5. \A S : LastOf(S, i)' <=> LastOf(S, i) /\ e.do \notin S
    BY <1>0, <2>1, <2>2, <2>3 DEF LastOf
  <2>6. PostedAt(i)'
    BY <2>1 DEF PostedAt
  <2>7. LastAt(i)'
    <3>0. x.peer # p => link[x.peer] = Down /\ link'[x.peer] = Down
      BY <2>1 DEF LinkMove
    <3>1. LastOf(UpOrDown, i)' => IF x.do = "connected" THEN link'[x.peer].up ELSE UpPeers' = {}
      <4>1. SUFFICES ASSUME LastOf(UpOrDown, i)'
                     PROVE  IF x.do = "connected" THEN link'[x.peer].up ELSE UpPeers' = {}
        OBVIOUS
      <4>2. LastOf(UpOrDown, i) /\ e.do \notin UpOrDown
        BY <2>5, <4>1
      <4>3. IF x.do = "connected" THEN link[x.peer].up ELSE UpPeers = {}
        BY <2>1, <4>2 DEF LastAt
      <4>4. link'[p].up <=> link[p].up
        BY <4>2 DEF LinkMove, UpOrDown
      <4>. QED BY <1>2, <1>3, <3>0, <4>3, <4>4
    <3>2. LastOf(CodecOrNot, i)' => IF x.do = "codec" THEN link'[x.peer].codec = x.codec
                                    ELSE \A q \in Peers : ~Negotiated(q)'
      <4>1. SUFFICES ASSUME LastOf(CodecOrNot, i)'
                     PROVE  IF x.do = "codec" THEN link'[x.peer].codec = x.codec
                            ELSE \A q \in Peers : ~Negotiated(q)'
        OBVIOUS
      <4>2. LastOf(CodecOrNot, i) /\ e.do \notin CodecOrNot
        BY <2>5, <4>1
      <4>3. IF x.do = "codec" THEN link[x.peer].codec = x.codec
            ELSE \A q \in Peers : ~Negotiated(q)
        BY <2>1, <4>2 DEF LastAt
      <4>4. link'[p].codec = link[p].codec
        BY <4>2 DEF LinkMove, CodecOrNot
      <4>. QED BY <1>3, <3>0, <4>3, <4>4 DEF Negotiated
    <3>3. LastOf(PlayOrNot, i)' => IF x.do = "started" THEN link'[x.peer].streaming ELSE ~Streams'
      <4>1. SUFFICES ASSUME LastOf(PlayOrNot, i)'
                     PROVE  IF x.do = "started" THEN link'[x.peer].streaming ELSE ~Streams'
        OBVIOUS
      <4>2. LastOf(PlayOrNot, i) /\ e.do \notin PlayOrNot
        BY <2>5, <4>1
      <4>3. IF x.do = "started" THEN link[x.peer].streaming ELSE ~Streams
        BY <2>1, <4>2 DEF LastAt
      <4>4. link'[p].streaming <=> link[p].streaming
        BY <4>2 DEF LinkMove, PlayOrNot
      <4>. QED BY <1>2, <1>3, <3>0, <4>3, <4>4
    <3>. QED BY <2>1, <3>1, <3>2, <3>3 DEF LastAt
  <2>8. OrderAt(i)'
    <3>1. x.do # "disconnected" => link'[x.peer] # Down \/ LeavesAfter(i)'
      <4>1. SUFFICES ASSUME x.do # "disconnected", ~LeavesAfter(i)' PROVE link'[x.peer] # Down
        OBVIOUS
      <4>2. link[x.peer] # Down
        BY <2>1, <2>4, <4>1 DEF OrderAt
      <4>3. x.peer = p
        BY <2>1, <4>2 DEF LinkMove
      <4>4. e.do # "disconnected"
        BY <1>1, <2>4, <4>1, <4>3
      <4>5. link'[p].up \/ link'[p].codec # NoCodec \/ link'[p].streaming
        <5>1. link[p].streaming => link[p].up
          BY DEF PeersInv
        <5>. QED BY <4>4, <5>1 DEF LinkMove
      <4>. QED BY <4>3, <4>5 DEF Down
    <3>2. x.do \notin {"disconnected", "codec"} => link'[x.peer].up \/ LeavesAfter(i)'
      <4>1. SUFFICES ASSUME x.do \notin {"disconnected", "codec"}, ~LeavesAfter(i)'
                     PROVE  link'[x.peer].up
        OBVIOUS
      <4>2. link[x.peer] # Down /\ link[x.peer].up
        BY <2>1, <2>4, <4>1 DEF OrderAt
      <4>3. x.peer = p
        BY <2>1, <4>2 DEF LinkMove
      <4>4. e.do # "disconnected"
        BY <1>1, <2>4, <4>1, <4>3
      <4>. QED BY <4>2, <4>3, <4>4 DEF LinkMove
    <3>3. ASSUME x.do # "disconnected", NEW j \in i + 1 .. Len(Pending'),
                 Pending'[j].do = "disconnected"
          PROVE  LeavesAfter(i)'
      <4>1. CASE Pending'[j] = e
        <5>1. e.peer = x.peer \/ link[x.peer] = Down
          BY <1>1, <2>1 DEF LinkMove
        <5>2. link[x.peer] = Down => LeavesAfter(i)
          BY <2>1, <3>3 DEF OrderAt
        <5>. QED BY <2>4, <3>3, <4>1, <5>1, <5>2
      <4>2. CASE j \in i + 1 .. Len(Pending) /\ Pending'[j] = Pending[j]
        BY <2>1, <2>4, <3>3, <4>2 DEF OrderAt
      <4>. QED BY <2>2, <3>3, <4>1, <4>2
    <3>4. ASSUME x.do \in {"started", "suspended"}, NEW j \in i + 1 .. Len(Pending'),
                 Pending'[j].do = "connected"
          PROVE  LeavesAfter(i)'
      <4>1. CASE Pending'[j] = e
        <5>1. ~link[p].up /\ \A q \in Peers \ {p} : link[q] = Down
          BY <3>4, <4>1 DEF LinkMove
        <5>2. ~link[x.peer].up
          BY <2>1, <5>1 DEF Down
        <5>. QED BY <2>1, <2>4, <3>4, <5>2 DEF OrderAt
      <4>2. CASE j \in i + 1 .. Len(Pending) /\ Pending'[j] = Pending[j]
        BY <2>1, <2>4, <3>4, <4>2 DEF OrderAt
      <4>. QED BY <2>2, <3>4, <4>1, <4>2
    <3>. QED BY <2>1, <3>1, <3>2, <3>3, <3>4 DEF OrderAt
  <2>. QED BY <2>6, <2>7, <2>8
<1>5. ASSUME NEW i, i = Len(Pending') PROVE PostedAt(i)' /\ OrderAt(i)' /\ LastAt(i)'
  <2>1. Pending'[i] = e /\ \A j \in i + 1 .. Len(Pending') : FALSE
    BY <1>0, <1>5
  <2>2. PostedAt(i)'
    BY <1>1, <2>1 DEF PostedAt, LinkMove
  <2>3. link[p].streaming => link[p].up /\ link[p].codec # NoCodec
    BY DEF PeersInv, Negotiated
  <2>4. OrderAt(i)'
    <3>1. e.do # "disconnected" => link'[p] # Down
      BY <2>3 DEF LinkMove, Down
    <3>2. e.do \notin {"disconnected", "codec"} => link'[p].up
      BY <2>3 DEF LinkMove
    <3>. QED BY <1>1, <2>1, <3>1, <3>2 DEF OrderAt
  <2>5. LastAt(i)'
    <3>1. e.do = "connected" => link'[p].up
      BY DEF LinkMove
    <3>2. e.do = "disconnected" => UpPeers' = {} /\ ~Streams' /\ \A q \in Peers : ~Negotiated(q)'
      <4>1. SUFFICES ASSUME e.do = "disconnected"
                     PROVE  UpPeers' = {} /\ ~Streams' /\ \A q \in Peers : ~Negotiated(q)'
        OBVIOUS
      <4>2. link'[p] = Down
        BY <4>1 DEF LinkMove
      <4>. QED BY <1>3, <4>2 DEF Down, Negotiated
    <3>3. e.do = "codec" => link'[p].codec = e.codec
      BY DEF LinkMove
    <3>4. e.do = "started" => link'[p].streaming
      BY DEF LinkMove
    <3>5. e.do = "suspended" => ~Streams'
      BY <1>3 DEF LinkMove
    <3>. QED BY <1>1, <2>1, <3>1, <3>2, <3>3, <3>4, <3>5 DEF LastAt, LastOf, UpOrDown, CodecOrNot, PlayOrNot
  <2>. QED BY <2>2, <2>4, <2>5
<1>6. ASSUME NEW i \in 1 .. Len(Pending') PROVE PostedAt(i)' /\ OrderAt(i)' /\ LastAt(i)'
  BY <1>0, <1>4, <1>5
<1>. QED BY <1>6 DEF LogInv


-----------------------------------------------------------------------------
(* A change of a link: everything else is as it was.                        *)
LEMMA LinkStepKeeps ==
    ASSUME TypeInv, TypeInv', OnePeer, SyncInv, NEW p \in Peers, LinkSteps(p)
    PROVE  SyncInv'
<1>1. Unchanging
  BY LinkMoves DEF SyncInv
<1>2. PICK e \in Posted : LinkMove(p, e)
  BY LinkMoves DEF SyncInv
<1>3. PeersInv'
  BY <1>1, <1>2, LinkPeers DEF SyncInv
<1>4. LogInv'
  BY <1>2, <1>3, LogTold DEF SyncInv
<1>5. /\ UNCHANGED <<Stage, Now, Asking, AskingCodec, Unasked, todo>>
      /\ \A n : UNCHANGED Seeding(n)
      /\ ShapeInv'
  BY <1>1, SameStage DEF Unchanging, SyncInv
<1>6. UNCHANGED <<attached, mediaOn, have, connection, connected, streaming,
                  maxPacket, started, codec, ready, stored>>
  BY <1>1 DEF Unchanging, wiring, accepted
<1>7. /\ \A S : Waiting(S)' <=> e.do \in S \/ Waiting(S)
      /\ \A S, q : WaitingOf(S, q)' <=> (e.do \in S /\ e.peer = q) \/ WaitingOf(S, q)
      /\ \A q : Leaves(q)' <=> (e.do = "disconnected" /\ e.peer = q) \/ Leaves(q)
  BY <1>2, WaitingTold DEF LinkMove
<1>8. e.peer = p /\ \A q \in Peers \ {p} : link[q] = Down /\ link'[q] = Down
  BY <1>2 DEF LinkMove
<1>9. ASSUME NEW q \in Peers
      PROVE  /\ link[q] # Down => link'[q] # Down \/ Leaves(q)'
             /\ link[q].up => link'[q].up \/ Leaves(q)'
             /\ link[q].up => link[q] # Down
  <2>1. link[q].up => link[q] # Down
    BY DownFacts
  <2>2. CASE q # p
    BY <1>8, <2>1, <2>2, DownFacts
  <2>3. CASE q = p /\ e.do = "disconnected"
    BY <1>7, <1>8, <2>1, <2>3
  <2>4. CASE q = p /\ e.do # "disconnected"
    <3>1. link[p].up => link'[p].up
      BY <1>2, <2>4 DEF LinkMove
    <3>2. link[p].streaming => link[p].up
      BY DEF SyncInv, PeersInv
    <3>3. link'[p].up \/ link'[p].codec # NoCodec
      BY <1>2, <2>4, <3>2 DEF LinkMove
    <3>4. link'[p] # Down
      BY <3>3 DEF Down
    <3>. QED BY <2>1, <2>4, <3>1, <3>4
  <2>. QED BY <2>2, <2>3, <2>4
<1>10. AcceptInv'
  <2>1. AcceptInv
    BY DEF SyncInv
  <2>2. UNCHANGED Fresh
    BY <1>5, <1>6 DEF Fresh
  <2>3. \A q : Leaves(q) => Leaves(q)'
    BY <1>7
  <2>. QED BY <1>5, <1>6, <1>9, <2>1, <2>2, <2>3 DEF AcceptInv
<1>11. ConnInv'
  <2>1. e.do \notin UpOrDown => (UpPeers' # {} <=> UpPeers # {})
    <3>1. SUFFICES ASSUME e.do \notin UpOrDown PROVE link'[p].up <=> link[p].up
      BY <1>8, OnlyOne, OnlyOneNext
    <3>. QED BY <1>2, <3>1 DEF LinkMove, UpOrDown
  <2>. QED BY <1>5, <1>6, <1>7, <2>1 DEF SyncInv, ConnInv
<1>12. PlayInv'
  <2>0. PlayInv
    BY DEF SyncInv
  <2>1. e.do \notin PlayOrNot => (Streams' <=> Streams)
    <3>1. SUFFICES ASSUME e.do \notin PlayOrNot PROVE link'[p].streaming <=> link[p].streaming
      BY <1>8, OnlyOne, OnlyOneNext
    <3>. QED BY <1>2, <3>1 DEF LinkMove, PlayOrNot
  <2>2. attached' /\ ~Asking' /\ ~Waiting(PlayOrNot)' => streaming' = Streams'
    <3>1. streaming \in BOOLEAN /\ Streams \in BOOLEAN /\ Streams' \in BOOLEAN
      BY DEF TypeInv, FlagsType, Streams
    <3>. QED BY <1>5, <1>6, <1>7, <2>0, <2>1, <3>1 DEF PlayInv
  <2>3. ASSUME have', streaming', ~Leaves(connection)'
        PROVE  link'[connection'].streaming \/ WaitingOf({"started", "suspended"}, connection)'
    <3>1. ~Leaves(connection) /\ connection \in Peers /\ connection' = connection
      BY <1>6, <1>7, <2>3 DEF SyncInv, AcceptInv
    <3>2. link[connection].streaming \/ WaitingOf({"started", "suspended"}, connection)
      BY <1>6, <2>0, <2>3, <3>1 DEF PlayInv
    <3>3. CASE WaitingOf({"started", "suspended"}, connection)
      BY <1>7, <3>1, <3>3
    <3>4. CASE link[connection].streaming
      <4>1. connection = p
        BY <1>8, <3>1, <3>4, DownFacts
      <4>2. e.do # "disconnected"
        BY <1>7, <1>8, <2>3, <3>1, <4>1
      <4>3. e.do = "suspended" => WaitingOf({"started", "suspended"}, connection)'
        BY <1>7, <1>8, <3>1, <4>1
      <4>4. e.do \notin {"suspended", "disconnected"} => link'[p].streaming
        BY <1>2, <3>4, <4>1 DEF LinkMove
      <4>. QED BY <3>1, <4>1, <4>2, <4>3, <4>4
    <3>. QED BY <3>2, <3>3, <3>4
  <2>4. ~have' /\ streaming' => Waiting(PlayOrNot)'
    BY <1>6, <1>7, <2>0 DEF PlayInv
  <2>5. Asking' /\ ~Unasked' /\ ~Seeding("connected")' /\ ~have' /\ Streams' => Waiting({"started"})'
    <3>1. Streams' => Streams \/ e.do = "started"
      <4>1. link'[p].streaming => link[p].streaming \/ e.do = "started"
        BY <1>2 DEF LinkMove, Down
      <4>. QED BY <1>8, <4>1, OnlyOne, OnlyOneNext
    <3>. QED BY <1>5, <1>6, <1>7, <2>0, <3>1 DEF PlayInv
  <2>. QED BY <2>2, <2>3, <2>4, <2>5 DEF PlayInv
<1>13. CodecInv'
  <2>0. CodecInv
    BY DEF SyncInv
  <2>1. UNCHANGED <<Coming, Restarting>>
    BY <1>5, <1>6 DEF Coming, Restarting
  <2>2. e.do \notin CodecOrNot => \A q \in Peers : link'[q].codec = link[q].codec
    <3>1. SUFFICES ASSUME e.do \notin CodecOrNot PROVE link'[p].codec = link[p].codec
      BY <1>8
    <3>. QED BY <1>2, <3>1 DEF LinkMove, CodecOrNot
  <2>3. attached' /\ (started' \/ Restarting') /\ ~Unasked' /\ ~AskingCodec'
          /\ ~Seeding("codec")' /\ ~Waiting(CodecOrNot)' =>
       \A q \in Peers : Negotiated(q)' => Suits(Coming', ToEncodedAudioFormat(link'[q].codec))
    BY <1>5, <1>6, <1>7, <2>0, <2>1, <2>2 DEF CodecInv, Negotiated
  <2>4. Seeding("codec")' /\ ~Waiting(CodecOrNot)' => link'[Now'.peer].codec = Now'.codec
    BY <1>5, <1>7, <2>0, <2>2 DEF CodecInv, SyncInv, AcceptInv
  <2>5. Unasked' /\ NothingMissed => \A q \in Peers : HalfOpen(q)' => Waiting({"codec"})'
    <3>1. SUFFICES ASSUME Unasked, NothingMissed, NEW q \in Peers, HalfOpen(q)'
                   PROVE  Waiting({"codec"})'
      BY <1>5
    <3>2. q = p
      BY <1>8, <3>1 DEF HalfOpen, Negotiated, Down
    <3>3. e.do = "codec" \/ HalfOpen(p)
      BY <1>2, <3>1, <3>2 DEF LinkMove, HalfOpen, Negotiated, Down
    <3>. QED BY <1>7, <2>0, <3>1, <3>3 DEF CodecInv
  <2>. QED BY <2>3, <2>4, <2>5 DEF CodecInv
<1>14. GrowthInv'
  <2>1. UNCHANGED Restarting
    BY <1>5 DEF Restarting
  <2>. QED BY <1>5, <1>6, <2>1 DEF SyncInv, GrowthInv
<1>15. SessionInv'
  <2>0. SessionInv /\ Len(stored) \in Nat /\ stale \in 0 .. Len(stored)
    BY StoredLength DEF SyncInv, TypeInv, StreamType
  <2>1. stale' = IF e.do \in {"disconnected", "suspended"} THEN Len(stored) ELSE stale
    BY <1>2 DEF LinkMove
  <2>2. (ready' => started' /\ codec'.codec = "Sbc") /\ (~started' => codec'.codec = "Unknown")
    BY <1>6, <2>0 DEF SessionInv
  <2>3. ASSUME ready', stale' > 0, have', ~Leaves(connection)'
        PROVE  WaitingOf({"suspended"}, connection)' \/ Stage' = "empty"
    <3>1. ~Leaves(connection) /\ connection \in Peers /\ connection' = connection
          /\ link[connection] # Down
      BY <1>6, <1>7, <2>3 DEF SyncInv, AcceptInv
    <3>2. CASE e.do \in {"disconnected", "suspended"}
      <4>1. link[p].up \/ link[p].streaming
        BY <1>2, <3>2 DEF LinkMove
      <4>2. connection = p
        BY <1>8, <3>1, <4>1
      <4>. QED BY <1>7, <1>8, <2>3, <3>1, <3>2, <4>2
    <3>3. CASE e.do \notin {"disconnected", "suspended"}
      BY <1>5, <1>6, <1>7, <2>0, <2>1, <2>3, <3>1, <3>3 DEF SessionInv
    <3>. QED BY <3>2, <3>3
  <2>4. ASSUME ready', stale' > 0, ~have'
        PROVE  Waiting({"suspended", "disconnected"})' \/ Stage' = "empty"
    BY <1>5, <1>6, <1>7, <2>0, <2>1, <2>4 DEF SessionInv
  <2>5. ASSUME NEW i \in stale' + 1 .. Len(stored')
        PROVE  /\ link'[stored'[i].peer].streaming
               /\ stored'[i].codec = link'[stored'[i].peer].codec
    <3>1. e.do \notin {"disconnected", "suspended"} /\ i \in stale + 1 .. Len(stored)
      BY <1>6, <2>0, <2>1, <2>5
    <3>2. stored[i].peer \in Peers
      <4>1. stored \in Seq(StoredPacket) /\ i \in 1 .. Len(stored)
        BY <2>0, <3>1 DEF TypeInv, StreamType
      <4>2. stored[i] \in StoredPacket
        BY <4>1, ElementOfSeq
      <4>. QED BY <4>2 DEF StoredPacket
    <3>3. link[stored[i].peer].streaming /\ stored[i].codec = link[stored[i].peer].codec
      BY <2>0, <3>1 DEF SessionInv
    <3>4. stored[i].peer = p
      BY <1>8, <3>2, <3>3, DownFacts
    <3>5. link'[p].streaming /\ link'[p].codec = link[p].codec
      BY <1>2, <3>1, <3>3, <3>4 DEF LinkMove
    <3>. QED BY <1>6, <3>3, <3>4, <3>5
  <2>. QED BY <2>2, <2>3, <2>4, <2>5 DEF SessionInv
<1>. QED BY <1>3, <1>4, <1>5, <1>10, <1>11, <1>12, <1>13, <1>14, <1>15 DEF SyncInv


-----------------------------------------------------------------------------
(* What the log says to the one who takes its first event. *)

(* While nobody's end is waiting, what waits is of the peer that is there.  *)
OfOne ==
    \A q \in Peers : \A S :
        link[q] # Down /\ ~Waiting({"disconnected"}) /\ Waiting(S) => WaitingOf(S, q)

LEMMA LogOfOne == TypeInv /\ PeersInv /\ LogInv => OfOne
<1> SUFFICES ASSUME TypeInv, PeersInv, LogInv, NEW q \in Peers, NEW S,
                    link[q] # Down, ~Waiting({"disconnected"}), Waiting(S)
             PROVE  WaitingOf(S, q)
  BY DEF OfOne
<1>1. PICK i \in 1 .. Len(Pending) : Pending[i].do \in S
  BY DEF Waiting
<1>2. Len(Pending) \in Nat
  BY PendingType
<1>3. \A j \in 1 .. Len(Pending) : Pending[j].do # "disconnected"
  BY DEF Waiting
<1>4. \A j \in i + 1 .. Len(Pending) : j \in 1 .. Len(Pending)
  BY <1>2
<1>5. ~LeavesAfter(i)
  BY <1>3, <1>4 DEF LeavesAfter
<1>6. link[Pending[i].peer] # Down /\ Pending[i].peer \in Peers
  BY <1>3, <1>5 DEF LogInv, OrderAt, PostedAt
<1>7. Pending[i].peer = q
  BY <1>6 DEF PeersInv
<1>. QED BY <1>1, <1>7 DEF WaitingOf

LEMMA LogOfOneNext == TypeInv' /\ PeersInv' /\ LogInv' => OfOne'
BY LogOfOne, PTL

(* An event that is taken, whatever waits behind it.                        *)
FirstSays(e) ==
    /\ e \in Posted /\ e.peer \in Peers
    /\ e.do = "connected" => e.bytes \in Mtus \cup {0}
    /\ e.do # "disconnected" /\ ~Leaves(e.peer)' =>
          /\ link[e.peer] # Down
          /\ e.do # "codec" => link[e.peer].up
          /\ ~Waiting({"disconnected"})'
    /\ e.do \in {"started", "suspended"} /\ ~Leaves(e.peer)' => ~Waiting({"connected"})'
    /\ e.do \in UpOrDown /\ ~Waiting(UpOrDown)' =>
          IF e.do = "connected" THEN link[e.peer].up ELSE UpPeers = {}
    /\ e.do \in CodecOrNot /\ ~Waiting(CodecOrNot)' =>
          IF e.do = "codec" THEN link[e.peer].codec = e.codec
          ELSE \A p \in Peers : ~Negotiated(p)
    /\ e.do \in PlayOrNot /\ ~Waiting(PlayOrNot)' =>
          IF e.do = "started" THEN link[e.peer].streaming ELSE ~Streams

LEMMA HeadFacts ==
    ASSUME TypeInv, LogInv, Taken, UNCHANGED link, NEW e, e = Pending[1]
    PROVE  FirstSays(e)
<1>1. /\ Len(Pending) \in Nat /\ Len(Pending) >= 1 /\ Len(Pending') = Len(Pending) - 1
      /\ \A i \in 1 .. Len(Pending') : Pending'[i] = Pending[i + 1]
      /\ \A i \in 2 .. Len(Pending) : Pending[i] = Pending'[i - 1]
  BY TakenPlaces
<1>2. PostedAt(1) /\ OrderAt(1) /\ LastAt(1)
  BY <1>1 DEF LogInv
<1>3. /\ \A j \in 1 + 1 .. Len(Pending) : j - 1 \in 1 .. Len(Pending') /\ Pending[j] = Pending'[j - 1]
      /\ \A i \in 1 .. Len(Pending') : i + 1 \in 1 + 1 .. Len(Pending) /\ Pending'[i] = Pending[i + 1]
  BY <1>1
<1>4. LeavesAfter(1) <=> Leaves(e.peer)'
  BY <1>3 DEF LeavesAfter, Leaves, WaitingOf
<1>5. \A S : LastOf(S, 1) <=> e.do \in S /\ ~Waiting(S)'
  BY <1>3 DEF LastOf, Waiting
<1>6. \A n : Waiting({n})' => \E j \in 1 + 1 .. Len(Pending) : Pending[j].do = n
  BY <1>3 DEF Waiting
<1>7. ASSUME e.do # "disconnected", ~Leaves(e.peer)'
      PROVE  /\ link[e.peer] # Down
             /\ e.do # "codec" => link[e.peer].up
             /\ ~Waiting({"disconnected"})'
  BY <1>2, <1>4, <1>6, <1>7 DEF OrderAt
<1>8. ASSUME e.do \in {"started", "suspended"}, ~Leaves(e.peer)'
      PROVE  ~Waiting({"connected"})'
  BY <1>2, <1>4, <1>6, <1>8 DEF OrderAt
<1>9. /\ e \in Posted /\ e.peer \in Peers
      /\ e.do = "connected" => e.bytes \in Mtus \cup {0}
  BY <1>2 DEF PostedAt
<1>10. /\ e.do \in UpOrDown /\ ~Waiting(UpOrDown)' =>
             IF e.do = "connected" THEN link[e.peer].up ELSE UpPeers = {}
       /\ e.do \in CodecOrNot /\ ~Waiting(CodecOrNot)' =>
             IF e.do = "codec" THEN link[e.peer].codec = e.codec
             ELSE \A p \in Peers : ~Negotiated(p)
       /\ e.do \in PlayOrNot /\ ~Waiting(PlayOrNot)' =>
             IF e.do = "started" THEN link[e.peer].streaming ELSE ~Streams
  BY <1>2, <1>5 DEF LastAt
<1>. QED BY <1>7, <1>8, <1>9, <1>10 DEF FirstSays


-----------------------------------------------------------------------------
(* Steps of the application's task that leave what was accepted alone.      *)

LEMMA Steady ==
    ASSUME TypeInv, SyncInv, Kept, UNCHANGED <<link, accepted, attached, media>>,
           Asking' <=> Asking, Unasked' <=> Unasked,
           Seeding("connected")' <=> Seeding("connected")
    PROVE  PeersInv' /\ LogInv' /\ ConnInv' /\ PlayInv'
<1>1. UpPeers' = UpPeers /\ Streams' = Streams /\ link' = link /\ media' = media
      /\ UNCHANGED <<have, connection, connected, streaming>>
  BY DEF UpPeers, Streams, accepted
<1>2. /\ \A S : Waiting(S)' <=> Waiting(S)
      /\ \A S, p : WaitingOf(S, p)' <=> WaitingOf(S, p)
      /\ \A p : Leaves(p)' <=> Leaves(p)
  BY WaitingKept
<1>3. PeersInv'
  BY <1>1 DEF SyncInv, PeersInv, Negotiated
<1>4. LogInv'
  BY LogKept DEF SyncInv
<1>5. ConnInv'
  BY <1>1, <1>2 DEF SyncInv, ConnInv
<1>6. PlayInv'
  BY <1>1, <1>2 DEF SyncInv, PlayInv
<1>. QED BY <1>3, <1>4, <1>5, <1>6

(* Who was accepted stays so, while begin() is not asking for a connection. *)
LEMMA SteadyAccept ==
    ASSUME TypeInv, SyncInv, Kept, UNCHANGED <<link, accepted, attached>>,
           Fresh' => Fresh /\ ~ready' /\ codec'.codec = "Unknown",
           ~Seeding("connected")', ~Seeding("codec")',
           AskingCodec' => AskingCodec /\ Stage # "connected"
    PROVE  AcceptInv'
<1>1. link' = link /\ UNCHANGED <<have, connection, connected, streaming>>
  BY DEF accepted
<1>2. \A p : Leaves(p)' <=> Leaves(p)
  BY WaitingKept
<1>. QED BY <1>1, <1>2 DEF SyncInv, AcceptInv

LEMMA DoingStage == \A name : Doing(name) => todo # <<>> /\ Stage = name /\ Now.do = name
BY DEF Doing, Stage, Now

LEMMA StreamStepKeeps ==
    ASSUME TypeInv, TypeInv', LifeInv, SyncInv, StreamSteps
    PROVE  SyncInv'
<1>1. /\ todo # <<>> /\ Stage \in {"empty", "apply", "free", "restart"} /\ Stage = Now.do
      /\ UNCHANGED <<link, events, attached, mediaOn, accepted, media>>
  <2>1. Doing("empty") \/ Doing("apply") \/ Doing("free") \/ Doing("restart")
    BY DEF StreamSteps, EmptyStream, ApplyCodec, FreeStream, RestartStream
  <2>2. UNCHANGED <<transport, wiring, accepted, media>>
    BY DEF StreamSteps, EmptyStream, ApplyCodec, FreeStream, RestartStream
  <2>. QED BY <2>1, <2>2, DoingStage DEF transport, wiring, Stage
<1>2. Stage = todo[1].do /\ attached /\ View /\ Second \in Follows(Stage)
      /\ Now \in Fitting /\ ShapeInv
  BY <1>1, StepFacts, ViewHolds, SecondFollows, TodoFacts DEF LifeInv, First, SyncInv
<1>3. UNCHANGED <<have, connection, connected, streaming>>
  BY <1>1 DEF accepted
<1>4. ~Handling /\ ~Unasked /\ ~Seeding("connected") /\ ~Seeding("codec") /\ ~Fresh
  BY <1>1, <1>2 DEF Handling, EventNames, Unasked, Seeding, Fresh
<1>5. /\ GrowthInv /\ SessionInv /\ CodecInv /\ stale \in Nat /\ Len(stored) \in Nat
      /\ stale \in 0 .. Len(stored)
  BY StoredLength DEF SyncInv, TypeInv, StreamType
<1>6. Then(<<>>) =>
        /\ ShapeInv' /\ Stage' \in Follows(Stage)
        /\ Asking' <=> Asking
        /\ AskingCodec' <=> AskingCodec
        /\ Len(todo) > 1 => Stage' = todo[2].do /\ Now' = todo[2]
        /\ \A i \in 1 .. Len(todo') : \E j \in 1 .. Len(todo) : todo'[i] = todo[j]
  BY <1>1, <1>2, NoMore DEF SyncInv
<1>7. ASSUME NEW c \in Fitting, Then(<<c>>), c.do \in {"apply", "empty"},
             Stage \in {"apply", "restart"}
      PROVE  /\ ShapeInv' /\ Stage' = c.do /\ Now' = c
             /\ Asking' <=> Asking
             /\ AskingCodec' <=> AskingCodec
             /\ \A i \in 1 .. Len(todo') :
                   todo'[i] = c \/ \E j \in 1 .. Len(todo) : todo'[i] = todo[j]
  <2>1. Second \in Follows(c.do)
    BY <1>2, <1>7 DEF Follows
  <2>. QED BY <1>1, <1>2, <1>7, <2>1, OneMore DEF SyncInv
<1>8. ASSUME ShapeInv', Asking' <=> Asking, AskingCodec' <=> AskingCodec,
             Stage' \in {"apply", "empty", "restart", "queryCodec", "queryStreaming", "end"},
             (started' \/ Restarting') /\ ~AskingCodec =>
                 (started \/ Restarting) /\ \A f : Suits(Coming, f) => Suits(Coming', f),
             GrowthInv', SessionInv'
      PROVE  SyncInv'
  <2>1. ~Handling' /\ ~Unasked' /\ ~Seeding("connected")' /\ ~Seeding("codec")' /\ ~Fresh'
    BY <1>1, <1>2, <1>8 DEF Handling, EventNames, Unasked, Seeding, Fresh
  <2>2. Kept
    BY <1>1, <1>4, <2>1, KeptOutside
  <2>3. PeersInv' /\ LogInv' /\ ConnInv' /\ PlayInv'
    BY <1>1, <1>4, <1>8, <2>1, <2>2, Steady
  <2>4. AcceptInv'
    BY <1>1, <1>2, <1>8, <2>1, <2>2, SteadyAccept
  <2>5. CodecInv'
    <3>1. \A S : Waiting(S)' <=> Waiting(S)
      BY <2>2, WaitingKept
    <3>. QED BY <1>1, <1>2, <1>4, <1>5, <1>8, <2>1, <3>1 DEF CodecInv, Negotiated
  <2>. QED BY <1>8, <2>3, <2>4, <2>5 DEF SyncInv
<1>9. CASE EmptyStream
  <2>1. Stage = "empty" /\ Then(<<>>) /\ stored' = <<>> /\ stale' = 0
        /\ UNCHANGED <<started, codec, ready, maxPacket>>
    BY <1>1, <1>9, DoingStage DEF EmptyStream, Sink!Empty
  <2>2. Stage' \in {"queryCodec", "queryStreaming", "end"}
    BY <1>6, <2>1 DEF Follows
  <2>3. ~Restarting /\ ~Restarting' /\ Coming = codec /\ Coming' = codec'
    BY <2>1, <2>2 DEF Restarting, Coming
  <2>4. GrowthInv'
    BY <1>1, <1>2, <1>5, <1>6, <2>1, <2>3 DEF GrowthInv
  <2>5. SessionInv'
    <3>1. Len(stored') = 0
      BY <2>1, EmptySeq
    <3>. QED BY <1>5, <2>1, <3>1 DEF SessionInv
  <2>. QED BY <1>6, <1>8, <2>1, <2>2, <2>3, <2>4, <2>5
<1>10. CASE ApplyCodec
  <2>1. Stage = "apply" /\ UNCHANGED <<maxPacket, stale>> /\ ~Restarting /\ Coming = Now.codec
    BY <1>1, <1>10, DoingStage DEF ApplyCodec, Restarting, Coming
  <2>2. CASE /\ ~(started /\ Sink!Renews(Now.codec)) /\ Then(<<>>)
             /\ UNCHANGED <<started, codec, ready, stored>>
    <3>1. Stage' \in {"queryCodec", "queryStreaming", "end"}
      BY <1>6, <2>1, <2>2 DEF Follows
    <3>2. ~Restarting' /\ Coming' = codec'
      BY <3>1 DEF Restarting, Coming
    <3>3. started => Now.codec = codec
      BY <2>2 DEF Sink!Renews
    <3>4. GrowthInv'
      BY <1>1, <1>2, <1>5, <1>6, <2>1, <2>2, <3>2 DEF GrowthInv
    <3>5. SessionInv'
      <4>1. ~Handling'
        BY <3>1 DEF Handling, EventNames
      <4>2. Kept
        BY <1>1, <1>4, <4>1, KeptOutside
      <4>3. /\ \A S : Waiting(S)' <=> Waiting(S)
            /\ \A S, p : WaitingOf(S, p)' <=> WaitingOf(S, p)
            /\ \A p : Leaves(p)' <=> Leaves(p)
        BY <4>2, WaitingKept
      <4>. QED BY <1>1, <1>3, <1>5, <2>1, <2>2, <4>3 DEF SessionInv
    <3>. QED BY <1>6, <1>8, <2>1, <2>2, <3>1, <3>2, <3>3, <3>4, <3>5
  <2>3. ASSUME NEW ok \in BOOLEAN, Sink!Negotiate(Now.codec, ok),
               \/ ok /\ Then(<<Own("empty")>>)
               \/ ~ok /\ (Then(<<Own("empty")>>) \/ Then(<<>>))
        PROVE  SyncInv'
    <3>1. started /\ started' /\ codec' = Now.codec /\ ready' = ok /\ UNCHANGED stored
          /\ (ok => Now.codec.codec = "Sbc")
      BY <2>3 DEF Sink!Negotiate
    <3>2. Own("empty") \in Fitting /\ Own("empty").do = "empty"
      BY OwnType
    <3>3. /\ ShapeInv' /\ Stage' \in {"empty", "queryCodec", "queryStreaming", "end"}
          /\ Asking' <=> Asking
          /\ AskingCodec' <=> AskingCodec
          /\ ok => Stage' = "empty"
          /\ \A i \in 1 .. Len(todo') :
                todo'[i] = Own("empty") \/ \E j \in 1 .. Len(todo) : todo'[i] = todo[j]
      <4>1. CASE Then(<<>>) /\ ~ok
        BY <1>6, <2>1, <4>1 DEF Follows
      <4>2. CASE Then(<<Own("empty")>>)
        BY <1>7, <2>1, <3>2, <4>2
      <4>. QED BY <2>3, <4>1, <4>2
    <3>4. ~Restarting' /\ Coming' = codec'
      BY <3>3 DEF Restarting, Coming
    <3>5. GrowthInv'
      BY <1>1, <1>2, <1>5, <2>1, <3>1, <3>2, <3>3, <3>4 DEF GrowthInv
    <3>6. SessionInv'
      BY <1>1, <1>5, <2>1, <3>1, <3>3 DEF SessionInv
    <3>. QED BY <1>8, <2>1, <3>1, <3>3, <3>4, <3>5, <3>6
  <2>4. \/ /\ ~(started /\ Sink!Renews(Now.codec)) /\ Then(<<>>)
           /\ UNCHANGED <<started, codec, ready, stored>>
        \/ Sink!Negotiate(Now.codec, Now.codec.codec = "Sbc") /\ Then(<<Own("empty")>>)
        \/ Sink!Negotiate(Now.codec, FALSE) /\ Then(<<>>)
    BY <1>10, Zenon DEF ApplyCodec
  <2>. QED BY <2>2, <2>3, <2>4
<1>11. CASE FreeStream
  <2>1. Stage = "free" /\ Then(<<>>) /\ stale' = 0 /\ ~started' /\ codec' = NoCodec
        /\ ready' = FALSE /\ stored' = <<>> /\ UNCHANGED maxPacket
    BY <1>1, <1>11, DoingStage DEF FreeStream, Sink!Stop, Sink!Begun
  <2>2. Stage' = "restart" /\ Now' = todo[2]
    BY <1>2, <1>6, <2>1 DEF View
  <2>3. Restarting /\ Restarting' /\ Coming = todo[2].codec /\ Coming' = Now'.codec
    BY <2>1, <2>2 DEF Restarting, Coming
  <2>4. GrowthInv'
    BY <1>1, <1>2, <1>5, <1>6, <2>1, <2>3 DEF GrowthInv
  <2>5. SessionInv'
    <3>1. Len(stored') = 0
      BY <2>1, EmptySeq
    <3>. QED BY <1>5, <2>1, <3>1, Unknown DEF SessionInv
  <2>. QED BY <1>6, <1>8, <2>1, <2>2, <2>3, <2>4, <2>5
<1>12. CASE RestartStream
  <2>1. Stage = "restart" /\ stale' = 0 /\ maxPacket' = Now.bytes /\ Restarting
        /\ Coming = Now.codec
    BY <1>1, <1>12, DoingStage DEF RestartStream, Restarting, Coming
  <2>2. Covers(Now.bytes)
    <3>1. 1 \in 1 .. Len(todo) /\ Now = todo[1]
      BY <1>1, StepFacts
    <3>. QED BY <1>2, <1>5, <2>1, <3>1 DEF GrowthInv
  <2>3. ready' = FALSE /\ stored' = <<>> /\ codec' = NoCodec
    BY <1>12 DEF RestartStream, Sink!Start, Sink!Stop, Sink!Begun
  <2>4. SessionInv'
    <3>1. Len(stored') = 0
      BY <2>3, EmptySeq
    <3>. QED BY <1>5, <2>1, <2>3, <3>1, Unknown DEF SessionInv
  <2>5. CASE Then(<<>>) /\ (Sink!Stop \/ (Sink!Start /\ Now.codec.codec = "Unknown"))
    <3>1. Stage' \in {"queryCodec", "queryStreaming", "end"}
      BY <1>6, <2>1, <2>5 DEF Follows
    <3>2. ~Restarting' /\ Coming' = NoCodec
      BY <2>3, <3>1 DEF Restarting, Coming
    <3>3. started' => \A f : Suits(Coming, f) => Suits(Coming', f)
      <4>1. SUFFICES ASSUME started' PROVE \A f : Suits(Coming, f) => Suits(Coming', f)
        OBVIOUS
      <4>2. Now.codec.codec = "Unknown"
        BY <2>5, <4>1 DEF Sink!Stop, Sink!Begun
      <4>3. NoCodec.codec = "Unknown"
        BY DEF NoCodec
      <4>. QED BY <2>1, <3>2, <4>2, <4>3 DEF Suits, Agrees
    <3>4. GrowthInv'
      BY <1>1, <1>2, <1>5, <1>6, <2>1, <2>2, <2>5 DEF GrowthInv, Covers
    <3>. QED BY <1>6, <1>8, <2>1, <2>4, <2>5, <3>1, <3>2, <3>3, <3>4
  <2>6. CASE Then(<<Apply(Now.codec)>>) /\ Sink!Start
    <3>1. /\ Apply(Now.codec) \in Fitting /\ Apply(Now.codec).do = "apply"
          /\ Apply(Now.codec).codec = Now.codec
      <4>1. /\ Now.codec \in AnyCodec /\ Now.codec \in Formats \cup {NoCodec}
        BY <1>1, <1>2, <2>1 DEF Fitting, Calls
      <4>. QED BY <4>1, CallType DEF Apply, Call
    <3>2. /\ ShapeInv' /\ Stage' = "apply" /\ Now' = Apply(Now.codec)
          /\ Asking' <=> Asking
          /\ AskingCodec' <=> AskingCodec
          /\ \A i \in 1 .. Len(todo') :
                todo'[i] = Apply(Now.codec) \/ \E j \in 1 .. Len(todo) : todo'[i] = todo[j]
      BY <1>7, <2>1, <2>6, <3>1
    <3>3. ~Restarting' /\ Coming' = Now.codec
      BY <3>1, <3>2 DEF Restarting, Coming
    <3>4. GrowthInv'
      BY <1>1, <1>2, <1>5, <2>1, <2>2, <3>1, <3>2 DEF GrowthInv, Covers
    <3>. QED BY <1>8, <2>1, <2>4, <3>2, <3>3, <3>4
  <2>7. \/ Then(<<>>) /\ (Sink!Stop \/ (Sink!Start /\ Now.codec.codec = "Unknown"))
        \/ Then(<<Apply(Now.codec)>>) /\ Sink!Start
    BY <1>12 DEF RestartStream
  <2>. QED BY <2>5, <2>6, <2>7
<1>. QED BY <1>9, <1>10, <1>11, <1>12 DEF StreamSteps


-----------------------------------------------------------------------------
(* The steps of begin() and end(). *)

(* The first steps of end(), and the registration: nothing that the         *)
(* invariant is about changes but the stage.                                *)
LEMMA WiringStepKeeps ==
    ASSUME TypeInv, TypeInv', LifeInv, SyncInv, Unregister \/ Barrier \/ Register
    PROVE  SyncInv'
<1>1. /\ todo # <<>> /\ Stage \in {"unregister", "barrier", "register"} /\ Then(<<>>)
      /\ UNCHANGED <<link, events, attached, accepted, stream, media>>
  BY DoingStage DEF Unregister, Barrier, Register, transport, wiring
<1>2. /\ UNCHANGED <<have, connection, connected, streaming>>
      /\ UNCHANGED <<maxPacket, started, codec, ready, stored, stale>>
  BY <1>1 DEF accepted, stream
<1>3. /\ ShapeInv' /\ Stage' \in Follows(Stage)
      /\ Asking' <=> Asking
      /\ AskingCodec' <=> AskingCodec
      /\ \A i \in 1 .. Len(todo') : \E j \in 1 .. Len(todo) : todo'[i] = todo[j]
  BY <1>1, NoMore DEF SyncInv
<1>4. /\ Stage = "unregister" => Stage' = "barrier"
      /\ Stage = "barrier" => Stage' = "release"
      /\ Stage = "register" => Stage' = "query"
  BY <1>3 DEF Follows
<1>5. View
  BY ViewHolds DEF SyncInv
<1>6. /\ ~Handling /\ ~Handling' /\ (Unasked' <=> Unasked)
      /\ ~Restarting /\ ~Restarting' /\ Coming = codec /\ Coming' = codec
      /\ \A n \in EventNames : ~Seeding(n) /\ ~Seeding(n)'
      /\ Fresh' <=> Fresh
      /\ ~AskingCodec
  <2>1. ~Handling /\ ~Handling'
    BY <1>1, <1>4 DEF Handling, EventNames
  <2>2. Unasked' <=> Unasked
    BY <1>1, <1>3, <1>4 DEF Unasked
  <2>3. ~Restarting /\ ~Restarting' /\ Coming = codec /\ Coming' = codec
    BY <1>1, <1>2, <1>4 DEF Restarting, Coming
  <2>4. \A n \in EventNames : ~Seeding(n) /\ ~Seeding(n)'
    BY <1>1, <1>4 DEF Seeding, EventNames
  <2>5. Fresh' <=> Fresh
    BY <1>1, <1>3, <1>4 DEF Fresh
  <2>6. ~AskingCodec
    BY <1>1, <1>5 DEF View
  <2>. QED BY <2>1, <2>2, <2>3, <2>4, <2>5, <2>6
<1>7. Kept
  BY <1>1, <1>6, KeptOutside
<1>8. ~Seeding("connected") /\ ~Seeding("codec") /\ ~Seeding("connected")' /\ ~Seeding("codec")'
  BY <1>6 DEF EventNames
<1>9. PeersInv' /\ LogInv' /\ ConnInv' /\ PlayInv'
  BY <1>1, <1>3, <1>6, <1>7, <1>8, Steady
<1>10. AcceptInv'
  <2>1. Fresh => ~ready /\ codec.codec = "Unknown"
    BY DEF SyncInv, AcceptInv
  <2>. QED BY <1>1, <1>2, <1>3, <1>6, <1>7, <1>8, <2>1, SteadyAccept
<1>11. /\ \A S : Waiting(S)' <=> Waiting(S)
       /\ \A S, p : WaitingOf(S, p)' <=> WaitingOf(S, p)
       /\ \A p : Leaves(p)' <=> Leaves(p)
  BY <1>7, WaitingKept
<1>12. CodecInv'
  BY <1>1, <1>2, <1>3, <1>6, <1>8, <1>11 DEF SyncInv, CodecInv, HalfOpen, Negotiated
<1>13. GrowthInv'
  BY <1>1, <1>2, <1>3, <1>6 DEF SyncInv, GrowthInv
<1>14. SessionInv'
  BY <1>1, <1>2, <1>4, <1>11 DEF SyncInv, SessionInv
<1>. QED BY <1>3, <1>9, <1>10, <1>12, <1>13, <1>14 DEF SyncInv

LEMMA ReleaseKeeps ==
    ASSUME TypeInv, TypeInv', LifeInv, SyncInv, Release
    PROVE  SyncInv'
<1>1. /\ todo # <<>> /\ Stage = "release" /\ Then(<<>>)
      /\ UNCHANGED <<link, events, media, maxPacket>>
      /\ ~attached' /\ ~have' /\ ~connected' /\ ~streaming'
      /\ ~started' /\ ~ready' /\ stored' = <<>> /\ stale' = 0 /\ codec'.codec = "Unknown"
  BY DoingStage, Unknown DEF Release, transport, Sink!Stop, Sink!Begun
<1>2. /\ ShapeInv' /\ Stage' \in Follows(Stage)
      /\ Asking' <=> Asking
      /\ AskingCodec' <=> AskingCodec
      /\ \A i \in 1 .. Len(todo') : \E j \in 1 .. Len(todo) : todo'[i] = todo[j]
  BY <1>1, NoMore DEF SyncInv
<1>3. Stage' \in {"allocate", "end"}
  BY <1>1, <1>2 DEF Follows
<1>4. View /\ View'
  BY <1>2, ViewHolds, ViewHoldsNext DEF SyncInv
<1>5. /\ ~Handling /\ ~Handling' /\ (Asking' => Unasked') /\ (Unasked' => Unasked)
      /\ ~Seeding("connected")' /\ ~Seeding("codec")' /\ ~AskingCodec'
  BY <1>1, <1>2, <1>3, <1>4 DEF Handling, EventNames, Unasked, Seeding, View
<1>6. Kept
  BY <1>1, <1>5, KeptOutside
<1>7. \A S : Waiting(S)' <=> Waiting(S)
  BY <1>6, WaitingKept
<1>8. PeersInv'
  BY <1>1 DEF SyncInv, PeersInv, Negotiated
<1>9. LogInv'
  BY <1>1, <1>6, LogKept DEF SyncInv
<1>10. AcceptInv' /\ ConnInv'
  BY <1>1, <1>5 DEF AcceptInv, ConnInv
<1>11. PlayInv'
  BY <1>1, <1>5 DEF PlayInv
<1>12. CodecInv'
  BY <1>1, <1>5, <1>7 DEF SyncInv, CodecInv, HalfOpen, Negotiated
<1>13. GrowthInv'
  BY <1>1, <1>2 DEF SyncInv, GrowthInv
<1>14. SessionInv'
  <2>1. Len(stored') = 0
    BY <1>1, EmptySeq
  <2>. QED BY <1>1, <2>1 DEF SessionInv
<1>. QED BY <1>2, <1>8, <1>9, <1>10, <1>11, <1>12, <1>13, <1>14 DEF SyncInv

LEMMA AllocateKeeps ==
    ASSUME TypeInv, TypeInv', LifeInv, SyncInv, AllocateStream
    PROVE  SyncInv'
<1>1. /\ todo # <<>> /\ Stage = "allocate" /\ maxPacket' = Now.bytes
      /\ UNCHANGED <<link, events, media, have, connection, connected, streaming>>
      /\ ~ready' /\ stored' = <<>> /\ stale' = 0 /\ codec'.codec = "Unknown"
  BY DoingStage, Unknown DEF AllocateStream, transport, accepted, Sink!Start, Sink!Stop, Sink!Begun
<1>2. Stage = todo[1].do /\ Now = todo[1] /\ 1 \in 1 .. Len(todo) /\ ~attached
  BY <1>1, StepFacts DEF LifeInv, First
<1>3. Fresh /\ ~have /\ ~connected /\ ~streaming
  BY <1>2 DEF Fresh, SyncInv, AcceptInv
<1>4. Now.bytes \in Configured
  BY <1>1, <1>2 DEF SyncInv, GrowthInv
<1>5. View
  BY ViewHolds DEF SyncInv
<1>6. PeersInv'
  BY <1>1 DEF SyncInv, PeersInv, Negotiated
<1>7. SessionInv'
  <2>1. Len(stored') = 0
    BY <1>1, EmptySeq
  <2>. QED BY <1>1, <2>1 DEF SessionInv
<1>8. CASE Sink!Start /\ attached' = TRUE /\ Then(<<>>)
  <2>1. /\ ShapeInv' /\ Stage' \in Follows(Stage)
        /\ Asking' <=> Asking
        /\ AskingCodec' <=> AskingCodec
        /\ \A i \in 1 .. Len(todo') : \E j \in 1 .. Len(todo) : todo'[i] = todo[j]
    BY <1>1, <1>8, NoMore DEF SyncInv
  <2>2. Stage' = "register" /\ Asking /\ ~AskingCodec
    BY <1>1, <1>5, <2>1 DEF Follows, View
  <2>3. ~Handling /\ ~Handling' /\ Unasked /\ Unasked' /\ Asking'
        /\ ~Seeding("connected")' /\ ~Seeding("codec")' /\ ~AskingCodec'
    BY <1>1, <2>1, <2>2 DEF Handling, EventNames, Unasked, Seeding
  <2>4. Kept
    BY <1>1, <2>3, KeptOutside
  <2>5. \A S : Waiting(S)' <=> Waiting(S)
    BY <2>4, WaitingKept
  <2>6. LogInv'
    BY <1>1, <2>4, LogKept DEF SyncInv
  <2>7. AcceptInv' /\ ConnInv' /\ PlayInv'
    BY <1>1, <1>3, <2>3 DEF AcceptInv, ConnInv, PlayInv
  <2>8. CodecInv'
    BY <1>1, <2>3, <2>5 DEF SyncInv, CodecInv, HalfOpen, Negotiated
  <2>9. GrowthInv'
    <3>1. started'
      BY <1>8 DEF Sink!Start, Sink!Begun
    <3>. QED BY <1>1, <1>4, <2>1, <3>1 DEF SyncInv, GrowthInv
  <2>. QED BY <1>6, <1>7, <2>1, <2>6, <2>7, <2>8, <2>9 DEF SyncInv
<1>9. CASE Sink!Stop /\ attached' = FALSE /\ todo' = <<>>
  <2>1. Len(todo') = 0
    BY <1>9, EmptySeq
  <2>2. ShapeInv'
    BY <2>1 DEF ShapeInv
  <2>3. Stage' = "end" /\ ~Asking' /\ ~AskingCodec'
    BY <1>9, <2>1 DEF Stage, Asking, AskingCodec, Has
  <2>4. ~Handling /\ ~Handling' /\ ~Unasked' /\ ~Seeding("connected")' /\ ~Seeding("codec")'
    BY <1>1, <2>3 DEF Handling, EventNames, Unasked, Seeding
  <2>5. Kept
    BY <1>1, <2>4, KeptOutside
  <2>6. LogInv'
    BY <1>1, <2>5, LogKept DEF SyncInv
  <2>7. AcceptInv' /\ ConnInv' /\ PlayInv' /\ CodecInv'
    BY <1>1, <1>3, <1>9, <2>3, <2>4 DEF AcceptInv, ConnInv, PlayInv, CodecInv
  <2>8. GrowthInv'
    BY <1>1, <1>4, <1>9, <2>1 DEF GrowthInv
  <2>. QED BY <1>6, <1>7, <2>2, <2>6, <2>7, <2>8 DEF SyncInv
<1>. QED BY <1>8, <1>9 DEF AllocateStream


LEMMA QueryKeeps ==
    ASSUME TypeInv, TypeInv', LifeInv, SyncInv, Query
    PROVE  SyncInv'
<1>1. /\ todo # <<>> /\ Stage = "query"
      /\ UNCHANGED <<link, events, attached, media, have, connection, connected, streaming,
                     maxPacket, started, codec, ready, stored, stale>>
  BY DoingStage DEF Query, transport, wiring, accepted, stream
<1>2. View
  BY ViewHolds DEF SyncInv
<1>3. Asking /\ ~AskingCodec /\ ~Handling /\ Unasked /\ Fresh /\ Second \in Follows("query")
  <2>1. Second \in Follows(Stage)
    BY <1>1, SecondFollows DEF SyncInv
  <2>. QED BY <1>1, <1>2, <2>1 DEF View, Handling, EventNames, Unasked, Fresh
<1>4. ~have /\ ~connected /\ ~streaming /\ ~ready
  BY <1>3 DEF SyncInv, AcceptInv
<1>5. PeersInv'
  BY <1>1 DEF SyncInv, PeersInv, Negotiated
<1>6. SessionInv'
  BY <1>1, <1>4 DEF SyncInv, SessionInv
<1>7. ASSUME ShapeInv', ~Handling', ~Unasked', Asking', ~Restarting', AcceptInv',
             \A i \in 1 .. Len(todo') :
                 \/ todo'[i].do \in {"connected", "queryCodec"}
                 \/ \E j \in 1 .. Len(todo) : todo'[i] = todo[j],
             \/ Seeding("connected")' /\ AskingCodec' /\ ~Seeding("codec")'
             \/ ~Seeding("codec")' /\ UpPeers = {} /\ Coming' = codec'
      PROVE  SyncInv'
  <2>1. Kept
    BY <1>1, <1>3, <1>7, KeptOutside
  <2>2. \A S : Waiting(S)' <=> Waiting(S)
    BY <2>1, WaitingKept
  <2>3. LogInv'
    BY <1>1, <2>1, LogKept DEF SyncInv
  <2>4. UpPeers' = UpPeers /\ Streams' = Streams
    BY <1>1 DEF UpPeers, Streams
  <2>5. UpPeers = {} => ~Streams
    BY DEF UpPeers, Streams, SyncInv, PeersInv
  <2>6. ConnInv'
    <3>1. connected = FALSE
      BY <1>4 DEF TypeInv, FlagsType
    <3>2. UpPeers = {} => connected' = (UpPeers' # {})
      BY <1>1, <2>4, <3>1
    <3>. QED BY <1>7, <3>2 DEF ConnInv
  <2>7. PlayInv'
    BY <1>1, <1>4, <1>7, <2>4, <2>5 DEF PlayInv
  <2>8. CodecInv'
    <3>1. ASSUME UpPeers = {}, ~Waiting(CodecOrNot), NEW p \in Peers, Negotiated(p)
          PROVE  ~NothingMissed /\ codec.codec = "Unknown"
      <4>1. HalfOpen(p)
        BY <3>1 DEF HalfOpen, UpPeers
      <4>2. NothingMissed => Waiting({"codec"})
        BY <1>3, <4>1 DEF SyncInv, CodecInv
      <4>3. codec.codec = "Unknown"
        BY <1>3 DEF SyncInv, AcceptInv
      <4>. QED BY <3>1, <4>2, <4>3 DEF Waiting, CodecOrNot
    <3>2. AskingCodec' \/ (UpPeers = {} /\ Coming' = codec)
      BY <1>1, <1>7
    <3>3. ~Seeding("codec")' /\ ~Unasked' /\ link' = link
      BY <1>1, <1>7
    <3>. QED BY <2>2, <3>1, <3>2, <3>3 DEF CodecInv, Negotiated, Suits
  <2>9. GrowthInv'
    <3>1. ~Restarting
      BY <1>1 DEF Restarting
    <3>. QED BY <1>1, <1>7, <3>1 DEF SyncInv, GrowthInv
  <2>. QED BY <1>5, <1>6, <1>7, <2>3, <2>6, <2>7, <2>8, <2>9 DEF SyncInv
<1>8. CASE UpPeers = {} /\ Then(<<>>)
  <2>1. /\ ShapeInv' /\ Stage' \in Follows(Stage)
        /\ Asking' <=> Asking
        /\ AskingCodec' <=> AskingCodec
        /\ \A i \in 1 .. Len(todo') : \E j \in 1 .. Len(todo) : todo'[i] = todo[j]
    BY <1>1, <1>8, NoMore DEF SyncInv
  <2>2. Stage' = "queryStreaming"
    BY <1>1, <2>1 DEF Follows
  <2>3. ~Handling' /\ ~Unasked' /\ Asking' /\ ~Restarting' /\ Coming' = codec'
        /\ ~Seeding("codec")' /\ ~Seeding("connected")' /\ ~AskingCodec'
    BY <1>3, <2>1, <2>2 DEF Handling, EventNames, Unasked, Restarting, Coming, Seeding
  <2>4. AcceptInv'
    <3>1. codec.codec = "Unknown"
      BY <1>3 DEF SyncInv, AcceptInv
    <3>. QED BY <1>1, <1>4, <2>3, <3>1 DEF AcceptInv
  <2>. QED BY <1>7, <1>8, <2>1, <2>3, <2>4
<1>9. ASSUME NEW p \in UpPeers,
             Then(<<Call("connected", p, NoCodec, link[p].mtu), Own("queryCodec")>>)
      PROVE  SyncInv'
  <2> DEFINE c == Call("connected", p, NoCodec, link[p].mtu)
             d == Own("queryCodec")
  <2>0. p \in Peers /\ link[p].up /\ link[p].mtu \in Mtus \cup {0}
    BY DEF UpPeers, TypeInv, LinkType, Links
  <2>1. /\ c \in Fitting /\ c.do = "connected" /\ c.peer = p /\ c.bytes = link[p].mtu
        /\ d \in Fitting /\ d.do = "queryCodec"
    <3>1. NoCodec \in AnyCodec
      BY DEF AnyCodec
    <3>. QED BY <2>0, <3>1, CallType, OwnType
  <2>2. d.do \in Follows(c.do) /\ Second \in Follows(d.do)
    BY <1>3, <2>1 DEF Follows
  <2>3. Then(<<c, d>>)
    BY <1>9
  <2> HIDE DEF c, d
  <2>4. /\ ShapeInv' /\ Stage' = c.do /\ Now' = c
        /\ Asking' <=> Asking
        /\ AskingCodec' <=> AskingCodec \/ d.do = "queryCodec"
        /\ \A i \in 1 .. Len(todo') :
              todo'[i] \in {c, d} \/ \E j \in 1 .. Len(todo) : todo'[i] = todo[j]
    BY <1>1, <2>1, <2>2, <2>3, TwoMore DEF SyncInv
  <2>5. ~Handling' /\ ~Unasked' /\ Asking' /\ AskingCodec' /\ Seeding("connected")' /\ ~Restarting'
        /\ ~Seeding("codec")'
    BY <1>3, <2>1, <2>4 DEF Handling, EventNames, Unasked, Seeding, Restarting
  <2>6. AcceptInv'
    <3>1. codec.codec = "Unknown"
      BY <1>3 DEF SyncInv, AcceptInv
    <3>. QED BY <1>1, <1>4, <2>0, <2>1, <2>4, <2>5, <3>1 DEF AcceptInv, Seeding
  <2>. QED BY <1>7, <2>1, <2>4, <2>5, <2>6
<1>. QED BY <1>8, <1>9, Zenon DEF Query

LEMMA QueryCodecKeeps ==
    ASSUME TypeInv, TypeInv', LifeInv, SyncInv, QueryCodec
    PROVE  SyncInv'
<1>1. /\ todo # <<>> /\ Stage = "queryCodec"
      /\ UNCHANGED <<link, events, attached, media, accepted, have, connection, connected,
                     streaming, maxPacket, started, codec, ready, stored, stale>>
  BY DoingStage DEF QueryCodec, transport, wiring, accepted, stream
<1>2. View
  BY ViewHolds DEF SyncInv
<1>3. Asking /\ AskingCodec /\ ~Handling /\ ~Unasked /\ ~Seeding("connected") /\ ~Restarting
      /\ attached /\ have
  <2>1. attached
    BY <1>1, StepFacts DEF LifeInv, First
  <2>2. Asking
    BY <1>1, <1>2 DEF View
  <2>3. 1 \in 1 .. Len(todo) /\ todo[1].do = "queryCodec"
    BY <1>1, StepFacts
  <2>4. AskingCodec
    BY <2>3 DEF AskingCodec, Has
  <2>. QED BY <1>1, <2>1, <2>2, <2>4 DEF Handling, EventNames, Unasked, Seeding, Restarting,
              SyncInv, AcceptInv
<1>4. ASSUME ShapeInv', ~Handling', ~Unasked', Asking', ~Restarting', ~Seeding("connected")',
             ~Fresh', ~AskingCodec', Stage' # "empty",
             \A i \in 1 .. Len(todo') :
                 \/ todo'[i].do = "codec"
                 \/ \E j \in 1 .. Len(todo) : todo'[i] = todo[j],
             \/ ~Seeding("codec")' /\ \A p \in Peers : ~Negotiated(p)
             \/ /\ Seeding("codec")' /\ Now'.peer \in Peers /\ Negotiated(Now'.peer)
                /\ link[Now'.peer].codec = Now'.codec
      PROVE  SyncInv'
  <2>1. Kept
    BY <1>1, <1>3, <1>4, KeptOutside
  <2>2. /\ \A S : Waiting(S)' <=> Waiting(S)
        /\ \A S, p : WaitingOf(S, p)' <=> WaitingOf(S, p)
        /\ \A p : Leaves(p)' <=> Leaves(p)
    BY <2>1, WaitingKept
  <2>3. PeersInv' /\ LogInv' /\ ConnInv' /\ PlayInv'
    BY <1>1, <1>3, <1>4, <2>1, Steady
  <2>4. AcceptInv'
    <3>1. AcceptInv
      BY DEF SyncInv
    <3>2. \A p \in Peers : Negotiated(p) => link[p] # Down
      BY DownFacts
    <3>3. Seeding("codec")' => Now'.peer \in Peers /\ link'[Now'.peer] # Down
      BY <1>1, <1>4, <3>2
    <3>. QED BY <1>1, <1>3, <1>4, <2>2, <3>1, <3>3 DEF AcceptInv
  <2>5. CodecInv'
    BY <1>1, <1>4 DEF CodecInv, Negotiated
  <2>6. GrowthInv'
    BY <1>1, <1>3, <1>4 DEF SyncInv, GrowthInv
  <2>7. SessionInv'
    BY <1>1, <1>4, <2>2 DEF SyncInv, SessionInv
  <2>. QED BY <1>4, <2>3, <2>4, <2>5, <2>6, <2>7 DEF SyncInv
<1>5. CASE (\A p \in Peers : ~Negotiated(p)) /\ Then(<<>>)
  <2>1. /\ ShapeInv' /\ Stage' \in Follows(Stage)
        /\ Asking' <=> Asking
        /\ AskingCodec' <=> AskingCodec /\ Stage # "queryCodec"
        /\ \A i \in 1 .. Len(todo') : \E j \in 1 .. Len(todo) : todo'[i] = todo[j]
    BY <1>1, <1>5, NoMore DEF SyncInv
  <2>2. Stage' = "queryStreaming"
    BY <1>1, <2>1 DEF Follows
  <2>3. ~Handling' /\ ~Unasked' /\ Asking' /\ ~Restarting' /\ ~Fresh'
        /\ ~Seeding("codec")' /\ ~Seeding("connected")' /\ ~AskingCodec'
    BY <1>1, <1>3, <2>1, <2>2 DEF Handling, EventNames, Unasked, Restarting, Fresh, Seeding
  <2>. QED BY <1>4, <1>5, <2>1, <2>2, <2>3
<1>6. ASSUME NEW p \in Peers, Negotiated(p), Then(<<Call("codec", p, link[p].codec, 0)>>)
      PROVE  SyncInv'
  <2> DEFINE c == Call("codec", p, link[p].codec, 0)
  <2>1. c \in Fitting /\ c.do = "codec" /\ c.peer = p /\ c.codec = link[p].codec
    <3>1. link[p].codec \in Codecs
      BY <1>6 DEF TypeInv, LinkType, Links, Negotiated
    <3>. QED BY <3>1, CallType DEF AnyCodec, Call
  <2>2. Then(<<c>>)
    BY <1>6
  <2> HIDE DEF c
  <2>3. <<c>> \in Seq(Fitting) /\ Len(<<c>>) = 1 /\ <<c>>[1] = c
    BY <2>1, OneStep
  <2>4. Second = "queryStreaming"
    BY <1>1, SecondFollows DEF SyncInv, Follows
  <2>5. ShapeInv'
    <3>1. Second \in Follows(c.do)
      BY <2>1, <2>4 DEF Follows
    <3>2. /\ Len(<<c>>) > 0 => Second \in Follows(<<c>>[Len(<<c>>)].do)
          /\ \A k \in 1 .. Len(<<c>>) - 1 : <<c>>[k + 1].do \in Follows(<<c>>[k].do)
      BY <2>3, <3>1
    <3>3. ShapeInv
      BY DEF SyncInv
    <3>. QED BY <1>1, <2>2, <2>3, <3>2, <3>3, ThenShape
  <2>6. View'
    BY <2>5, ViewHoldsNext
  <2>7. todo' # <<>> /\ Now' = c /\ Stage' = "codec"
        /\ \A i \in 1 .. Len(todo') : todo'[i] = c \/ \E j \in 1 .. Len(todo) : todo'[i] = todo[j]
    <3>1. /\ Len(todo') = Len(todo) /\ Len(todo) \in Nat /\ Len(todo) >= 1
          /\ todo'[1] = c
          /\ \A k \in 2 .. Len(todo') : todo'[k] = todo[k]
      <4>1. todo \in Seq(Fitting)
        BY DEF TypeInv, TodoType
      <4>2. /\ Len(todo') = 1 + Len(todo) - 1 /\ Len(todo) \in Nat /\ Len(todo) >= 1
            /\ \A k \in 1 .. 1 : todo'[k] = <<c>>[k]
            /\ \A k \in 1 + 1 .. Len(todo') : todo'[k] = todo[k - 1 + 1]
        BY <1>1, <2>2, <2>3, <4>1, ThenType, Zenon
      <4>. QED BY <2>3, <4>2
    <3>2. todo' # <<>>
      BY <3>1, EmptySeq
    <3>3. Now' = c
      BY <3>1, <3>2 DEF Now
    <3>4. \A i \in 1 .. Len(todo') : i = 1 \/ i \in 2 .. Len(todo')
      BY <3>1
    <3>. QED BY <2>1, <3>1, <3>2, <3>3, <3>4 DEF Stage
  <2>8. Asking'
    <3>1. /\ \A n : n # Now.do /\ Has(n) => Has(n)'
      BY <1>1, <2>1, <2>2, <2>3, ThenNames
    <3>2. Now.do = "queryCodec"
      BY <1>1 DEF Stage
    <3>. QED BY <1>3, <3>1, <3>2 DEF Asking
  <2>9. ~Handling' /\ ~Unasked' /\ ~Restarting' /\ ~Fresh' /\ ~AskingCodec'
        /\ Seeding("codec")' /\ ~Seeding("connected")'
    BY <1>1, <1>3, <2>6, <2>7, <2>8 DEF Handling, Unasked, Restarting, Fresh, Seeding, View
  <2>. QED BY <1>4, <1>6, <2>1, <2>5, <2>7, <2>8, <2>9
<1>. QED BY <1>5, <1>6, Zenon DEF QueryCodec

LEMMA QueryStreamingKeeps ==
    ASSUME TypeInv, TypeInv', LifeInv, SyncInv, QueryStreaming
    PROVE  SyncInv'
<1>1. /\ todo # <<>> /\ Stage = "queryStreaming" /\ Then(<<>>) /\ streaming' = Streams
      /\ UNCHANGED <<link, events, attached, media, have, connection, connected,
                     maxPacket, started, codec, ready, stored, stale>>
  BY DoingStage DEF QueryStreaming, transport, wiring, stream
<1>2. View
  BY ViewHolds DEF SyncInv
<1>3. /\ ShapeInv' /\ Stage' \in Follows(Stage)
      /\ Asking' <=> Asking /\ Stage # "queryStreaming"
      /\ AskingCodec' <=> AskingCodec /\ Stage # "queryCodec"
      /\ \A i \in 1 .. Len(todo') : \E j \in 1 .. Len(todo) : todo'[i] = todo[j]
  BY <1>1, NoMore DEF SyncInv
<1>4. Stage' = "end" /\ Asking /\ ~Asking' /\ ~AskingCodec /\ ~AskingCodec'
  BY <1>1, <1>2, <1>3 DEF Follows, View
<1>5. /\ ~Handling /\ ~Handling' /\ ~Unasked /\ ~Unasked' /\ ~Restarting /\ ~Restarting'
      /\ Coming = codec /\ Coming' = codec
      /\ ~Seeding("connected") /\ ~Seeding("codec") /\ ~Seeding("connected")' /\ ~Seeding("codec")'
  BY <1>1, <1>4 DEF Handling, EventNames, Unasked, Restarting, Coming, Seeding
<1>6. attached /\ ~Fresh'
  <2>1. attached
    BY <1>1, StepFacts DEF LifeInv, First
  <2>. QED BY <1>1, <1>4, <2>1 DEF Fresh
<1>7. Kept
  BY <1>1, <1>5, KeptOutside
<1>8. /\ \A S : Waiting(S)' <=> Waiting(S)
      /\ \A S, p : WaitingOf(S, p)' <=> WaitingOf(S, p)
      /\ \A p : Leaves(p)' <=> Leaves(p)
  BY <1>7, WaitingKept
<1>9. UpPeers' = UpPeers /\ Streams' = Streams
  BY <1>1 DEF UpPeers, Streams
<1>10. PeersInv'
  BY <1>1 DEF SyncInv, PeersInv, Negotiated
<1>11. LogInv'
  BY <1>1, <1>7, LogKept DEF SyncInv
<1>12. AcceptInv'
  BY <1>1, <1>4, <1>5, <1>6, <1>8 DEF SyncInv, AcceptInv
<1>13. ConnInv'
  BY <1>1, <1>5, <1>8, <1>9 DEF SyncInv, ConnInv
<1>14. PlayInv'
  <2>1. ASSUME have, Streams, ~Leaves(connection) PROVE link[connection].streaming
    <3>1. connection \in Peers /\ link[connection] # Down
      BY <2>1 DEF SyncInv, AcceptInv
    <3>2. PICK p \in Peers : link[p].streaming
      BY <2>1 DEF Streams
    <3>3. p = connection
      BY <3>1, <3>2, DownFacts DEF SyncInv, PeersInv
    <3>. QED BY <3>2, <3>3
  <2>2. ASSUME ~have, Streams PROVE Waiting(PlayOrNot)
    <3>1. Waiting({"started"})
      BY <1>4, <1>5, <2>2 DEF SyncInv, PlayInv
    <3>. QED BY <3>1 DEF Waiting, PlayOrNot
  <2>. QED BY <1>1, <1>4, <1>8, <1>9, <2>1, <2>2 DEF PlayInv
<1>15. CodecInv'
  BY <1>1, <1>4, <1>5, <1>8 DEF SyncInv, CodecInv, Negotiated
<1>16. GrowthInv'
  BY <1>1, <1>3, <1>5 DEF SyncInv, GrowthInv
<1>17. SessionInv'
  BY <1>1, <1>4, <1>8 DEF SyncInv, SessionInv
<1>. QED BY <1>3, <1>10, <1>11, <1>12, <1>13, <1>14, <1>15, <1>16, <1>17 DEF SyncInv


-----------------------------------------------------------------------------
(* The handlers, called with a posted event. *)

(* The handler was called with e, and what it leaves to do is of its own.   *)
Handled(e) ==
    /\ e = Now /\ e.do = Stage /\ FirstSays(e)
    /\ Stage \in EventNames /\ attached
    /\ UNCHANGED <<link, attached, media, maxPacket, started, codec, ready, stored, stale>>
    /\ ~Asking /\ ~Asking' /\ ~AskingCodec /\ ~AskingCodec'
    /\ ~Unasked /\ ~Unasked' /\ ~Restarting /\ Coming = codec
    /\ ~Seeding("connected") /\ ~Seeding("codec") /\ ~Seeding("connected")' /\ ~Seeding("codec")'
    /\ ~Fresh' /\ ~Fresh
    /\ \A S : Waiting(S) <=> e.do \in S \/ Waiting(S)'
    /\ \A S, p : WaitingOf(S, p) <=> (e.do \in S /\ e.peer = p) \/ WaitingOf(S, p)'
    /\ \A p : Leaves(p) <=> (e.do = "disconnected" /\ e.peer = p) \/ Leaves(p)'
    /\ \A p : Leaves(p)' => Waiting({"disconnected"})'

LEMMA HandledFacts ==
    ASSUME TypeInv, TypeInv', LifeInv, SyncInv, Handling, ShapeInv',
           ~Asking', ~AskingCodec', Stage' \notin EventNames,
           UNCHANGED <<link, events, attached, media, maxPacket, started, codec, ready,
                       stored, stale>>,
           NEW e, e = Now
    PROVE  Handled(e) /\ PeersInv' /\ LogInv' /\ OfOne'
<1>1. Stage \in EventNames /\ ~Asking /\ View
  BY ViewHolds DEF Handling, SyncInv
<1>2. todo # <<>> /\ Stage = Now.do /\ attached /\ Stage = todo[1].do
  <2>1. todo # <<>>
    BY <1>1 DEF Stage, EventNames
  <2>2. Stage = todo[1].do /\ Stage = Now.do
    BY <2>1, StepFacts
  <2>. QED BY <1>1, <2>1, <2>2 DEF LifeInv, First, EventNames
<1>3. ~Handling'
  BY DEF Handling
<1>4. Taken /\ Pending[1] = Now
  BY <1>3, TakenByHandler
<1>5. FirstSays(e)
  BY <1>4, HeadFacts DEF SyncInv
<1>6. LogInv'
  BY <1>4, LogTaken DEF SyncInv
<1>7. PeersInv'
  BY DEF SyncInv, PeersInv, Negotiated
<1>8. OfOne'
  BY <1>6, <1>7, LogOfOneNext
<1>9. ~AskingCodec /\ ~Unasked /\ ~Unasked' /\ ~Restarting /\ Coming = codec
      /\ ~Seeding("connected") /\ ~Seeding("codec") /\ ~Seeding("connected")' /\ ~Seeding("codec")'
      /\ ~Fresh' /\ ~Fresh
  BY <1>1, <1>2 DEF View, Unasked, Restarting, Coming, Seeding, Fresh, EventNames
<1>10. /\ \A S : Waiting(S) <=> e.do \in S \/ Waiting(S)'
       /\ \A S, p : WaitingOf(S, p) <=> (e.do \in S /\ e.peer = p) \/ WaitingOf(S, p)'
       /\ \A p : Leaves(p) <=> (e.do = "disconnected" /\ e.peer = p) \/ Leaves(p)'
  BY <1>4, WaitingTaken
<1>11. \A p : Leaves(p)' => Waiting({"disconnected"})'
  BY DEF Leaves, WaitingOf, Waiting
<1>. QED BY <1>1, <1>2, <1>5, <1>6, <1>7, <1>8, <1>9, <1>10, <1>11 DEF Handled

(* What is there is the only one that is there.                             *)
LEMMA HandledPeers ==
    ASSUME TypeInv, SyncInv, NEW e, Handled(e)
    PROVE  /\ UpPeers' = UpPeers /\ Streams' = Streams
           /\ \A p \in Peers : Negotiated(p)' <=> Negotiated(p)
           /\ \A p \in Peers : Negotiated(p) \/ link[p].up \/ link[p].streaming => link[p] # Down
           /\ \A p, q \in Peers : link[p] # Down /\ link[q] # Down => p = q
           /\ \A p \in Peers : link[p].up => UpPeers # {}
           /\ \A p \in Peers : link[p].streaming => Streams
           /\ have => connection \in Peers
<1>1. link' = link
  BY DEF Handled
<1>. QED BY <1>1, DownFacts DEF UpPeers, Streams, Negotiated, SyncInv, PeersInv, AcceptInv

(* The parts that a handler may disturb, as far as it may.                  *)
LEMMA HandledParts ==
    ASSUME TypeInv, SyncInv, PeersInv', LogInv', ShapeInv', NEW e, Handled(e),
           (* AcceptInv *)
           have' => connection' \in Peers /\ (link[connection'] # Down \/ Leaves(connection)'),
           connected' => have' /\ (link[connection'].up \/ Leaves(connection)'),
           (* ConnInv *)
           ~Waiting(UpOrDown)' => connected' = (UpPeers # {}),
           (* PlayInv *)
           ~Waiting(PlayOrNot)' => streaming' = Streams,
           have' /\ streaming' /\ ~Leaves(connection)' =>
              link[connection'].streaming \/ WaitingOf({"started", "suspended"}, connection)',
           ~have' /\ streaming' => Waiting(PlayOrNot)',
           (* CodecInv *)
           (started \/ Restarting') /\ ~Waiting(CodecOrNot)' =>
              \A p \in Peers : Negotiated(p) => Suits(Coming', ToEncodedAudioFormat(link[p].codec)),
           (* GrowthInv *)
           \A i \in 1 .. Len(todo') :
              \/ todo'[i].do \in {"free", "apply", "empty"}
              \/ todo'[i].do = "restart" /\ Covers(todo'[i].bytes)
              \/ \E j \in 1 .. Len(todo) : todo'[i] = todo[j],
           (* SessionInv *)
           ready /\ stale > 0 /\ have' /\ ~Leaves(connection)' =>
              WaitingOf({"suspended"}, connection)' \/ Stage' = "empty",
           ready /\ stale > 0 /\ ~have' =>
              Waiting({"suspended", "disconnected"})' \/ Stage' = "empty"
    PROVE  SyncInv'
<1>1. UpPeers' = UpPeers /\ Streams' = Streams /\ \A p \in Peers : Negotiated(p)' <=> Negotiated(p)
  BY HandledPeers
<1>2. AcceptInv'
  BY DEF Handled, AcceptInv
<1>3. ConnInv'
  BY <1>1 DEF Handled, ConnInv
<1>4. PlayInv'
  BY <1>1 DEF Handled, PlayInv
<1>5. CodecInv'
  BY <1>1 DEF Handled, CodecInv
<1>6. GrowthInv'
  BY DEF Handled, SyncInv, GrowthInv, Covers
<1>7. SessionInv'
  BY DEF Handled, SyncInv, SessionInv
<1>. QED BY <1>2, <1>3, <1>4, <1>5, <1>6, <1>7 DEF SyncInv


(* A stream that grows is started, and grows for the last time.             *)
LEMMA GrowsForAll ==
    ASSUME TypeInv, SyncInv, attached, ~Restarting,
           Now.bytes \in Mtus \cup {0}, Now.bytes > maxPacket
    PROVE  (started \/ ~GrowsOnce) /\ Covers(Now.bytes)
<1>1. Mtus \subseteq Nat /\ Configured \subseteq Nat /\ maxPacket \in Nat
  BY AdapterAssumption DEF TypeInv, StreamType
<1>2. SUFFICES ASSUME GrowsOnce PROVE started /\ Covers(Now.bytes)
  BY DEF Covers
<1>3. Now.bytes \in Mtus /\ ~Covers(maxPacket)
  <2>1. ASSUME NEW b \in Mtus \cup {0}, b > maxPacket PROVE b \in Mtus /\ ~ (b <= maxPacket)
    BY <1>1, <2>1
  <2>. QED BY <1>2, <2>1 DEF Covers
<1>4. started /\ maxPacket \in Configured
  BY <1>3 DEF SyncInv, GrowthInv
<1>5. \A n \in Mtus : n <= Now.bytes
  <2>1. ASSUME NEW b \in Mtus, b > maxPacket, NEW n \in Mtus PROVE n <= b
    BY <1>1, <1>2, <1>4, <2>1 DEF GrowsOnce
  <2>. QED BY <1>3, <2>1
<1>. QED BY <1>4, <1>5 DEF Covers

LEMMA GrownSteps ==
    ASSUME TypeInv, TypeInv', SyncInv, attached, todo # <<>>, Stage = "connected",
           Now.bytes \in Mtus \cup {0}, Then(Grown)
    PROVE  /\ ShapeInv' /\ Stage' \in {"free", "queryCodec", "end"}
           /\ Asking' <=> Asking
           /\ AskingCodec' <=> AskingCodec
           /\ Restarting' => started \/ ~GrowsOnce
           /\ Stage' = "free" => Coming' = codec
           /\ \A i \in 1 .. Len(todo') :
                 \/ todo'[i].do = "free"
                 \/ todo'[i].do = "restart" /\ Covers(todo'[i].bytes)
                 \/ \E j \in 1 .. Len(todo) : todo'[i] = todo[j]
<1>1. ~Restarting
  BY DEF Restarting
<1>2. ShapeInv
  BY DEF SyncInv
<1>3. CASE Now.bytes > maxPacket
  <2> DEFINE c == Own("free")
             d == Restart(codec, Now.bytes)
  <2>1. (started \/ ~GrowsOnce) /\ Covers(Now.bytes)
    BY <1>1, <1>3, GrowsForAll
  <2>2. /\ c \in Fitting /\ c.do = "free" /\ d \in Fitting /\ d.do = "restart"
        /\ d.bytes = Now.bytes /\ d.codec = codec
    <3>1. codec \in Formats \cup {NoCodec} /\ codec \in AnyCodec
      BY DEF TypeInv, StreamType, AnyCodec
    <3>2. Now.bytes \in Mtus \cup Configured
      <4>1. Mtus \subseteq Nat /\ maxPacket \in Nat
        BY AdapterAssumption DEF TypeInv, StreamType
      <4>. QED BY <1>3, <4>1
    <3>. QED BY <3>1, <3>2, CallType, OwnType DEF Restart, Call
  <2>3. Then(<<c, d>>)
    BY <1>3 DEF Grown
  <2>4. Second \in {"queryCodec", "end"}
    BY <1>2, SecondFollows DEF Follows
  <2> HIDE DEF c, d
  <2>5. d.do \in Follows(c.do) /\ Second \in Follows(d.do)
    BY <2>2, <2>4 DEF Follows
  <2>6. /\ ShapeInv' /\ Stage' = c.do /\ Now' = c /\ todo'[2] = d
        /\ Asking' <=> Asking
        /\ AskingCodec' <=> AskingCodec \/ d.do = "queryCodec"
        /\ \A i \in 1 .. Len(todo') :
              todo'[i] \in {c, d} \/ \E j \in 1 .. Len(todo) : todo'[i] = todo[j]
    BY <1>2, <2>2, <2>3, <2>5, TwoMore
  <2>7. Coming' = codec
    BY <2>2, <2>6 DEF Coming
  <2>. QED BY <2>1, <2>2, <2>6, <2>7
<1>4. CASE ~ (Now.bytes > maxPacket)
  <2>1. Then(<<>>)
    BY <1>4 DEF Grown
  <2>2. /\ ShapeInv' /\ Stage' \in Follows(Stage)
        /\ Asking' <=> Asking
        /\ AskingCodec' <=> AskingCodec
        /\ \A i \in 1 .. Len(todo') : \E j \in 1 .. Len(todo) : todo'[i] = todo[j]
    BY <1>2, <2>1, NoMore
  <2>3. Stage' \in {"queryCodec", "end"}
    BY <2>2 DEF Follows
  <2>. QED BY <2>2, <2>3 DEF Restarting
<1>. QED BY <1>3, <1>4

(* What an event of the accepted peer, or of the first one, leaves true.    *)
LEMMA AcceptedKeeps ==
    ASSUME TypeInv, SyncInv, OfOne', NEW e, Handled(e), e.do \in {"connected", "codec"},
           ~have \/ e.peer = connection, ~Leaves(e.peer)'
    PROVE  /\ streaming => link[e.peer].streaming \/ WaitingOf({"started", "suspended"}, e.peer)'
           /\ ready /\ stale > 0 => WaitingOf({"suspended"}, e.peer)'
<1>1. e.peer \in Peers /\ link[e.peer] # Down /\ ~Waiting({"disconnected"})' /\ link' = link
      /\ Stage # "empty"
  BY DEF Handled, FirstSays
<1>2. \A S : Waiting(S)' => WaitingOf(S, e.peer)'
  BY <1>1 DEF OfOne
<1>3. CASE have
  <2>1. ~Leaves(e.peer) /\ e.peer = connection
    BY <1>3 DEF Handled
  <2>2. \A S : "connected" \notin S /\ "codec" \notin S =>
                  (WaitingOf(S, e.peer) <=> WaitingOf(S, e.peer)')
    BY DEF Handled
  <2>3. "connected" \notin {"started", "suspended"} /\ "codec" \notin {"started", "suspended"}
        /\ "connected" \notin {"suspended"} /\ "codec" \notin {"suspended"}
    OBVIOUS
  <2>4. streaming => link[e.peer].streaming \/ WaitingOf({"started", "suspended"}, e.peer)
    BY <1>3, <2>1 DEF SyncInv, PlayInv
  <2>5. ready /\ stale > 0 => WaitingOf({"suspended"}, e.peer)
    BY <1>1, <1>3, <2>1 DEF SyncInv, SessionInv
  <2>. QED BY <2>2, <2>3, <2>4, <2>5
<1>4. CASE ~have
  <2>1. \A S : "connected" \notin S /\ "codec" \notin S /\ Waiting(S) => Waiting(S)'
    BY DEF Handled
  <2>2. streaming => Waiting(PlayOrNot)
    BY <1>4 DEF SyncInv, PlayInv
  <2>3. ready /\ stale > 0 => Waiting({"suspended", "disconnected"})
    BY <1>1, <1>4 DEF SyncInv, SessionInv
  <2>4. Waiting(PlayOrNot)' => Waiting({"started", "suspended"})'
    BY <1>1 DEF Waiting, PlayOrNot
  <2>5. Waiting({"suspended", "disconnected"})' => Waiting({"suspended"})'
    BY <1>1 DEF Waiting
  <2>6. /\ "connected" \notin PlayOrNot /\ "codec" \notin PlayOrNot
        /\ "connected" \notin {"suspended", "disconnected"}
        /\ "codec" \notin {"suspended", "disconnected"}
    BY DEF PlayOrNot
  <2>. QED BY <1>2, <2>1, <2>2, <2>3, <2>4, <2>5, <2>6
<1>. QED BY <1>3, <1>4


(* Whatever a handler puts in its place, nothing else follows it.           *)
LEMMA HandlingNone ==
    ASSUME TypeInv, TypeInv', SyncInv, Handling, Then(<<>>)
    PROVE  /\ ShapeInv' /\ Stage' = "end" /\ ~Asking' /\ ~AskingCodec'
           /\ \A i \in 1 .. Len(todo') : \E j \in 1 .. Len(todo) : todo'[i] = todo[j]
<1>1. todo # <<>> /\ Stage \in EventNames /\ ~Asking /\ ShapeInv
  BY DEF Handling, Stage, EventNames, SyncInv
<1>2. /\ ShapeInv' /\ Stage' \in Follows(Stage)
      /\ Asking' <=> Asking /\ Stage # "queryStreaming"
      /\ AskingCodec' <=> AskingCodec /\ Stage # "queryCodec"
      /\ \A i \in 1 .. Len(todo') : \E j \in 1 .. Len(todo) : todo'[i] = todo[j]
  BY <1>1, NoMore
<1>3. View'
  BY <1>2, ViewHoldsNext
<1>4. Stage' \in {"queryCodec", "queryStreaming", "end"}
  BY <1>1, <1>2 DEF Follows, EventNames
<1>. QED BY <1>1, <1>2, <1>3, <1>4 DEF View

LEMMA HandlingOne ==
    ASSUME TypeInv, TypeInv', SyncInv, Handling, NEW c \in Fitting, Then(<<c>>),
           c.do \in {"apply", "empty"}
    PROVE  /\ ShapeInv' /\ Stage' = c.do /\ Now' = c /\ ~Asking' /\ ~AskingCodec'
           /\ \A i \in 1 .. Len(todo') :
                 todo'[i] = c \/ \E j \in 1 .. Len(todo) : todo'[i] = todo[j]
<1>1. todo # <<>> /\ Stage \in EventNames /\ ~Asking /\ ShapeInv
  BY DEF Handling, Stage, EventNames, SyncInv
<1>2. Second \in {"queryCodec", "queryStreaming", "end"}
  BY <1>1, SecondFollows DEF Follows, EventNames
<1>3. Second \in Follows(c.do)
  BY <1>2 DEF Follows
<1>4. /\ ShapeInv' /\ Stage' = c.do /\ Now' = c
      /\ Asking' <=> Asking
      /\ AskingCodec' <=> AskingCodec
      /\ \A i \in 1 .. Len(todo') :
            todo'[i] = c \/ \E j \in 1 .. Len(todo) : todo'[i] = todo[j]
  BY <1>1, <1>3, OneMore DEF EventNames
<1>5. View
  BY <1>1, ViewHolds
<1>. QED BY <1>1, <1>4, <1>5 DEF View

LEMMA HandledConnected ==
    ASSUME TypeInv, TypeInv', LifeInv, SyncInv, Handling, OnConnected
    PROVE  SyncInv'
<1> PICK e : e = Now
  OBVIOUS
<1>1. /\ todo # <<>> /\ Stage = "connected" /\ e.do = "connected" /\ Then(Grown)
      /\ ~have \/ e.peer = connection
      /\ connection' = e.peer /\ have' = TRUE /\ connected' = TRUE /\ streaming' = streaming
      /\ UNCHANGED <<link, events, attached, media, maxPacket, started, codec, ready,
                     stored, stale>>
  BY DoingStage DEF OnConnected, OfAnother, transport, wiring, stream
<1>2. attached /\ ~Asking
  BY <1>1, StepFacts DEF LifeInv, First, Handling
<1>3. Taken /\ Pending[1] = e
  <2>1. ~Handling'
    <3>2. Now.bytes \in Mtus \cup {0}
      <4>1. 1 \in 1 .. Len(Pending) /\ Pending[1] = Now
        <5>1. Pending = <<Now>> \o events /\ events \in Seq(Posted)
          BY DEF Pending, TypeInv, LinkType
        <5>2. \A w : 1 \in 1 .. Len(<<w>> \o events) /\ (<<w>> \o events)[1] = w
          BY <5>1, LenProperties
        <5>. QED BY <5>1, <5>2
      <4>. QED BY <1>1, <4>1 DEF SyncInv, LogInv, PostedAt
    <3>3. Stage' \in {"free", "queryCodec", "end"}
      BY <1>1, <1>2, <3>2, GrownSteps
    <3>. QED BY <3>3 DEF Handling, EventNames
  <2>. QED BY <1>1, <2>1, TakenByHandler
<1>4. FirstSays(e)
  BY <1>1, <1>3, HeadFacts DEF SyncInv
<1>5. /\ ShapeInv' /\ Stage' \in {"free", "queryCodec", "end"}
      /\ Asking' <=> Asking
      /\ AskingCodec' <=> AskingCodec
      /\ Restarting' => started \/ ~GrowsOnce
      /\ Stage' = "free" => Coming' = codec
      /\ \A i \in 1 .. Len(todo') :
            \/ todo'[i].do = "free"
            \/ todo'[i].do = "restart" /\ Covers(todo'[i].bytes)
            \/ \E j \in 1 .. Len(todo) : todo'[i] = todo[j]
  BY <1>1, <1>2, <1>4, GrownSteps DEF FirstSays
<1>6. View /\ View'
  BY <1>5, ViewHolds, ViewHoldsNext DEF SyncInv
<1>7. ~Asking' /\ ~AskingCodec' /\ Stage' \notin EventNames /\ Coming' = codec
  BY <1>1, <1>2, <1>5, <1>6 DEF View, EventNames, Coming
<1>8. Handled(e) /\ PeersInv' /\ LogInv' /\ OfOne'
  BY <1>1, <1>5, <1>7, HandledFacts
<1>9. e.peer \in Peers /\ (link[e.peer].up \/ Leaves(e.peer)') /\ (link[e.peer] # Down \/ Leaves(e.peer)')
  BY <1>1, <1>4 DEF FirstSays
<1>10. /\ ~Leaves(e.peer)' =>
            /\ streaming => link[e.peer].streaming \/ WaitingOf({"started", "suspended"}, e.peer)'
            /\ ready /\ stale > 0 => WaitingOf({"suspended"}, e.peer)'
  BY <1>1, <1>8, AcceptedKeeps
<1>11. ~Waiting(UpOrDown)' => UpPeers # {}
  BY <1>1, <1>4, <1>9, HandledPeers, <1>8 DEF FirstSays, UpOrDown
<1>12. ~Waiting(PlayOrNot)' => streaming = Streams
  BY <1>1, <1>8 DEF Handled, PlayOrNot, SyncInv, PlayInv
<1>13. (started \/ Restarting') /\ ~Waiting(CodecOrNot)' =>
          \A p \in Peers : Negotiated(p) => Suits(codec, ToEncodedAudioFormat(link[p].codec))
  <2>1. CASE started
    BY <1>1, <1>8, <2>1 DEF Handled, CodecOrNot, SyncInv, CodecInv
  <2>2. CASE ~started
    BY <1>5, <2>2 DEF SyncInv, SessionInv, Suits, NothingMissed
  <2>. QED BY <2>1, <2>2
<1>. QED BY <1>1, <1>5, <1>7, <1>8, <1>9, <1>10, <1>11, <1>12, <1>13, HandledParts


LEMMA HandledDisconnected ==
    ASSUME TypeInv, TypeInv', LifeInv, SyncInv, Handling, OnDisconnected
    PROVE  SyncInv'
<1> PICK e : e = Now
  OBVIOUS
<1>1. /\ todo # <<>> /\ Stage = "disconnected" /\ e.do = "disconnected" /\ Then(<<Own("empty")>>)
      /\ connection' = 0 /\ ~have' /\ connected' = FALSE /\ streaming' = FALSE
      /\ UNCHANGED <<link, events, attached, media, maxPacket, started, codec, ready,
                     stored, stale>>
  BY DoingStage DEF OnDisconnected, OfAnother, transport, wiring, stream
<1>2. Own("empty") \in Fitting /\ Own("empty").do = "empty"
  BY OwnType
<1>3. /\ ShapeInv' /\ Stage' = "empty" /\ ~Asking' /\ ~AskingCodec'
      /\ \A i \in 1 .. Len(todo') :
            todo'[i] = Own("empty") \/ \E j \in 1 .. Len(todo) : todo'[i] = todo[j]
  BY <1>1, <1>2, HandlingOne
<1>4. Handled(e) /\ PeersInv' /\ LogInv' /\ OfOne'
  BY <1>1, <1>3, HandledFacts DEF EventNames
<1>5. /\ ~Waiting(UpOrDown)' => UpPeers = {}
      /\ ~Waiting(PlayOrNot)' => ~Streams
      /\ ~Waiting(CodecOrNot)' => \A p \in Peers : ~Negotiated(p)
  BY <1>1, <1>4 DEF Handled, FirstSays, UpOrDown, CodecOrNot, PlayOrNot
<1>6. UpPeers = {} => connected' = (UpPeers # {})
  BY <1>1
<1>7. ~Streams => streaming' = Streams'
  <2>1. Streams' = Streams /\ Streams \in BOOLEAN
    BY <1>4, HandledPeers DEF Streams
  <2>. QED BY <1>1, <2>1
<1>8. Streams' = Streams
  BY <1>4, HandledPeers
<1>. QED BY <1>1, <1>2, <1>3, <1>4, <1>5, <1>6, <1>7, <1>8, HandledParts

LEMMA HandledCodec ==
    ASSUME TypeInv, TypeInv', LifeInv, SyncInv, Handling, OnCodecConfigured
    PROVE  SyncInv'
<1> PICK e : e = Now
  OBVIOUS
<1> DEFINE f == ToEncodedAudioFormat(Now.codec)
<1>1. /\ todo # <<>> /\ Stage = "codec" /\ e.do = "codec" /\ Then(<<Apply(f)>>)
      /\ ~have \/ e.peer = connection
      /\ connection' = e.peer /\ have' = TRUE /\ connected' = connected /\ streaming' = streaming
      /\ UNCHANGED <<link, events, attached, media, maxPacket, started, codec, ready,
                     stored, stale>>
  BY DoingStage DEF OnCodecConfigured, OfAnother, transport, wiring, stream
<1>2. e.codec \in Codecs /\ Apply(f) \in Fitting /\ Apply(f).do = "apply" /\ Apply(f).codec = f
  <2>1. Now.codec \in Codecs
    BY <1>1, TodoFacts
  <2>2. f \in Formats
    BY <2>1, FormatType
  <2>. QED BY <2>1, <2>2, CallType DEF Apply, Call, AnyCodec
<1> HIDE DEF f
<1>3. /\ ShapeInv' /\ Stage' = "apply" /\ Now' = Apply(f) /\ ~Asking' /\ ~AskingCodec'
      /\ \A i \in 1 .. Len(todo') :
            todo'[i] = Apply(f) \/ \E j \in 1 .. Len(todo) : todo'[i] = todo[j]
  BY <1>1, <1>2, HandlingOne
<1>4. Handled(e) /\ PeersInv' /\ LogInv' /\ OfOne'
  BY <1>1, <1>3, HandledFacts DEF EventNames
<1>5. Coming' = f
  BY <1>2, <1>3 DEF Coming
<1>6. e.peer \in Peers /\ (link[e.peer] # Down \/ Leaves(e.peer)')
  BY <1>1, <1>4 DEF Handled, FirstSays
<1>7. connected => link[e.peer].up \/ Leaves(e.peer)'
  <2>1. connected => have /\ (link[connection].up \/ Leaves(connection))
    BY DEF SyncInv, AcceptInv
  <2>2. \A p : Leaves(p) => Leaves(p)'
    BY <1>1, <1>4 DEF Handled
  <2>. QED BY <1>1, <2>1, <2>2
<1>8. ~Leaves(e.peer)' =>
        /\ streaming => link[e.peer].streaming \/ WaitingOf({"started", "suspended"}, e.peer)'
        /\ ready /\ stale > 0 => WaitingOf({"suspended"}, e.peer)'
  BY <1>1, <1>4, AcceptedKeeps
<1>9. ~Waiting(UpOrDown)' => connected' = (UpPeers # {})
  BY <1>1, <1>4 DEF Handled, UpOrDown, SyncInv, ConnInv
<1>10. ~Waiting(PlayOrNot)' => streaming' = Streams'
  BY <1>1, <1>4, HandledPeers DEF Handled, PlayOrNot, SyncInv, PlayInv
<1>11. ASSUME ~Waiting(CodecOrNot)', NEW p \in Peers, Negotiated(p)
       PROVE  Suits(Coming', ToEncodedAudioFormat(link[p].codec))
  <2>1. link[e.peer].codec = e.codec
    BY <1>1, <1>4, <1>11 DEF Handled, FirstSays, CodecOrNot
  <2>2. Negotiated(e.peer)
    BY <1>2, <2>1, AdapterAssumption DEF Negotiated
  <2>3. p = e.peer
    BY <1>4, <1>6, <1>11, <2>2, HandledPeers
  <2>. QED BY <1>5, <2>1, <2>3 DEF Suits, Agrees, f
<1>12. Streams' = Streams
  BY <1>4, HandledPeers
<1>. QED BY <1>1, <1>2, <1>3, <1>4, <1>6, <1>7, <1>8, <1>9, <1>10, <1>11, <1>12, HandledParts

LEMMA HandledStreamState ==
    ASSUME TypeInv, TypeInv', LifeInv, SyncInv, Handling, OnStreamStateChanged
    PROVE  SyncInv'
<1> PICK e : e = Now
  OBVIOUS
<1>1. /\ todo # <<>> /\ Stage \in {"started", "suspended"} /\ e.do = Stage
      /\ Then(IF e.do = "started" THEN <<>> ELSE <<Own("empty")>>)
      /\ ~have \/ e.peer = connection
      /\ streaming' = (e.do = "started")
      /\ UNCHANGED <<link, events, attached, media, maxPacket, started, codec, ready,
                     stored, stale, have, connection, connected>>
  BY DoingStage DEF OnStreamStateChanged, OfAnother, transport, wiring, stream
<1>2. Own("empty") \in Fitting /\ Own("empty").do = "empty"
  BY OwnType
<1>3. /\ ShapeInv' /\ ~Asking' /\ ~AskingCodec' /\ Stage' \in {"empty", "end"}
      /\ Stage = "suspended" => Stage' = "empty"
      /\ \A i \in 1 .. Len(todo') :
            todo'[i] = Own("empty") \/ \E j \in 1 .. Len(todo) : todo'[i] = todo[j]
  <2>1. CASE Stage = "started"
    <3>1. Then(<<>>)
      BY <1>1, <2>1
    <3>. QED BY <2>1, <3>1, HandlingNone
  <2>2. CASE Stage = "suspended"
    <3>1. Then(<<Own("empty")>>)
      BY <1>1, <2>2
    <3>. QED BY <1>2, <2>2, <3>1, HandlingOne
  <2>. QED BY <1>1, <2>1, <2>2
<1>4. Handled(e) /\ PeersInv' /\ LogInv' /\ OfOne'
  BY <1>1, <1>3, HandledFacts DEF EventNames
<1>5. Coming' = codec /\ ~Restarting'
  BY <1>1, <1>3 DEF Coming, Restarting
<1>6. /\ e.peer \in Peers
      /\ ~Leaves(e.peer)' => /\ link[e.peer].up /\ link[e.peer] # Down
                             /\ ~Waiting({"disconnected"})' /\ ~Waiting({"connected"})'
      /\ ~Waiting(PlayOrNot)' => IF e.do = "started" THEN link[e.peer].streaming ELSE ~Streams
  BY <1>1, <1>4 DEF Handled, FirstSays, PlayOrNot
<1>7. \A p : Leaves(p)' <=> Leaves(p)
  BY <1>1, <1>4 DEF Handled
<1>8. have => connection \in Peers /\ (link[connection] # Down \/ Leaves(connection)')
  <2>1. have => connection \in Peers /\ (link[connection] # Down \/ Leaves(connection))
    BY DEF SyncInv, AcceptInv
  <2>2. Leaves(connection)' <=> Leaves(connection)
    BY <1>1, <1>7
  <2>. QED BY <2>1, <2>2
<1>9. connected => have /\ (link[connection].up \/ Leaves(connection)')
  <2>1. connected => have /\ (link[connection].up \/ Leaves(connection))
    BY DEF SyncInv, AcceptInv
  <2>2. Leaves(connection)' <=> Leaves(connection)
    BY <1>1, <1>7
  <2>. QED BY <2>1, <2>2
<1>10. ~Waiting(UpOrDown)' => connected' = (UpPeers # {})
  BY <1>1, <1>4 DEF Handled, UpOrDown, SyncInv, ConnInv
<1>11. ~Waiting(PlayOrNot)' => streaming' = Streams'
  <2>1. Streams' = Streams /\ Streams \in BOOLEAN /\ (link[e.peer].streaming => Streams)
    BY <1>4, <1>6, HandledPeers DEF Streams
  <2>. QED BY <1>1, <1>6, <2>1
<1>12. ASSUME have, e.do = "started", ~Leaves(connection)'
       PROVE  link[connection].streaming \/ WaitingOf({"started", "suspended"}, connection)'
  <2>1. e.peer = connection /\ link[connection] # Down /\ ~Waiting({"disconnected"})'
    BY <1>1, <1>6, <1>12
  <2>2. CASE Waiting(PlayOrNot)'
    <3>1. Waiting({"started", "suspended"})'
      BY <2>1, <2>2 DEF Waiting, PlayOrNot
    <3>2. WaitingOf({"started", "suspended"}, e.peer)'
      BY <1>4, <1>6, <2>1, <3>1 DEF Handled, OfOne
    <3>. QED BY <1>1, <2>1, <3>2
  <2>3. CASE ~Waiting(PlayOrNot)'
    BY <1>6, <1>12, <2>1, <2>3
  <2>. QED BY <2>2, <2>3
<1>13. ASSUME ~have, e.do = "started" PROVE Waiting(PlayOrNot)'
  <2>1. SUFFICES ASSUME ~Waiting(PlayOrNot)' PROVE FALSE
    OBVIOUS
  <2>2. ~Leaves(e.peer)'
    BY <2>1 DEF Leaves, WaitingOf, Waiting, PlayOrNot
  <2>3. link[e.peer].up /\ ~Waiting({"disconnected"})' /\ ~Waiting({"connected"})'
    BY <1>6, <2>2
  <2>4. ~Waiting(UpOrDown)'
    BY <2>3 DEF Waiting, UpOrDown
  <2>5. connected' = (UpPeers # {})
    BY <1>10, <2>4
  <2>6. UpPeers # {}
    BY <1>6, <2>3 DEF UpPeers
  <2>7. (UpPeers # {}) = TRUE
    BY <2>6
  <2>8. connected = TRUE
    BY <1>1, <2>5, <2>7, Zenon
  <2>. QED BY <1>9, <1>13, <2>8
<1>14. started /\ ~Waiting(CodecOrNot)' =>
          \A p \in Peers : Negotiated(p) => Suits(codec, ToEncodedAudioFormat(link[p].codec))
  BY <1>1, <1>4 DEF Handled, CodecOrNot, SyncInv, CodecInv
<1>15. e.do = "started" /\ ready /\ stale > 0 /\ have /\ ~Leaves(connection)' =>
          WaitingOf({"suspended"}, connection)'
  <2>1. e.do = "started" => (WaitingOf({"suspended"}, connection) => WaitingOf({"suspended"}, connection)')
    BY <1>1, <1>4 DEF Handled
  <2>. QED BY <1>1, <1>7, <2>1 DEF SyncInv, SessionInv
<1>16. e.do = "started" /\ ready /\ stale > 0 /\ ~have => Waiting({"suspended", "disconnected"})'
  BY <1>1, <1>4 DEF Handled, SyncInv, SessionInv
<1>17. Streams' = Streams
  BY <1>4, HandledPeers
<1>. QED BY <1>1, <1>2, <1>3, <1>4, <1>5, <1>8, <1>9, <1>10, <1>11, <1>12, <1>13, <1>14,
            <1>15, <1>16, <1>17, HandledParts


(* An event of a peer that was not accepted: the accepted one is there no   *)
(* more, or nobody's event is the last.                                     *)
LEMMA HandledIgnored ==
    ASSUME TypeInv, TypeInv', LifeInv, SyncInv, Handling, NEW do, Ignore(do)
    PROVE  SyncInv'
<1> PICK e : e = Now
  OBVIOUS
<1>1. /\ todo # <<>> /\ e.do = Stage /\ Then(<<>>) /\ have /\ e.peer # connection
      /\ UNCHANGED <<link, events, attached, media, maxPacket, started, codec, ready,
                     stored, stale, have, connection, connected, streaming>>
  BY DoingStage DEF Ignore, OfAnother, transport, wiring, accepted, stream
<1>2. /\ ShapeInv' /\ Stage' = "end" /\ ~Asking' /\ ~AskingCodec'
      /\ \A i \in 1 .. Len(todo') : \E j \in 1 .. Len(todo) : todo'[i] = todo[j]
  BY <1>1, HandlingNone
<1>3. Handled(e) /\ PeersInv' /\ LogInv' /\ OfOne'
  BY <1>1, <1>2, HandledFacts DEF EventNames
<1>4. Coming' = codec /\ ~Restarting'
  BY <1>1, <1>2 DEF Coming, Restarting
<1>5. \A S : WaitingOf(S, connection)' <=> WaitingOf(S, connection)
  BY <1>1, <1>3 DEF Handled
<1>6. Leaves(connection)' <=> Leaves(connection)
  BY <1>1, <1>3 DEF Handled
<1>7. have => connection \in Peers /\ (link[connection] # Down \/ Leaves(connection)')
  BY <1>6 DEF SyncInv, AcceptInv
<1>8. connected => have /\ (link[connection].up \/ Leaves(connection)')
  BY <1>6 DEF SyncInv, AcceptInv
(* Without an end to wait for there is nobody but the accepted peer.        *)
<1>9. ASSUME ~Waiting({"disconnected"})'
      PROVE  /\ ~Leaves(connection)' /\ ~Leaves(e.peer)'
             /\ e.do = "disconnected"
  <2>1. ~Leaves(connection)' /\ ~Leaves(e.peer)'
    BY <1>9 DEF Leaves, WaitingOf, Waiting
  <2>2. connection \in Peers /\ link[connection] # Down
    BY <1>1, <1>7, <2>1
  <2>3. e.peer \in Peers /\ (e.do # "disconnected" => link[e.peer] # Down)
    BY <1>3, <2>1 DEF Handled, FirstSays
  <2>. QED BY <1>1, <1>3, <2>1, <2>2, <2>3, HandledPeers
<1>10. ~Waiting(UpOrDown)' => connected' = (UpPeers # {})
  <2>1. SUFFICES ASSUME ~Waiting(UpOrDown)' PROVE connected' = (UpPeers # {})
    OBVIOUS
  <2>2. ~Waiting({"disconnected"})'
    BY <2>1 DEF Waiting, UpOrDown
  <2>3. e.do = "disconnected" /\ ~Leaves(connection)'
    BY <1>9, <2>2
  <2>4. UpPeers = {}
    BY <1>3, <2>1, <2>3 DEF Handled, FirstSays, UpOrDown
  <2>5. ~connected
    BY <1>7, <1>8, <2>3, <2>4 DEF UpPeers
  <2>6. connected' = FALSE
    BY <1>1, <2>5 DEF TypeInv, FlagsType
  <2>. QED BY <2>4, <2>6
<1>11. ~Waiting(PlayOrNot)' => streaming' = Streams'
  <2>1. SUFFICES ASSUME ~Waiting(PlayOrNot)' PROVE streaming' = Streams'
    OBVIOUS
  <2>2. ~Waiting({"disconnected"})' /\ ~WaitingOf({"started", "suspended"}, connection)'
    BY <2>1 DEF Waiting, WaitingOf, PlayOrNot
  <2>3. e.do = "disconnected" /\ ~Leaves(connection)'
    BY <1>9, <2>2
  <2>4. ~Streams
    BY <1>3, <2>1, <2>3 DEF Handled, FirstSays, PlayOrNot
  <2>5. streaming => link[connection].streaming
    BY <1>1, <1>5, <1>6, <2>2, <2>3 DEF SyncInv, PlayInv
  <2>6. ~streaming
    BY <1>1, <1>7, <2>4, <2>5 DEF Streams
  <2>7. Streams' = Streams /\ Streams \in BOOLEAN
    BY <1>3, HandledPeers DEF Streams
  <2>. QED BY <1>1, <2>4, <2>6, <2>7 DEF TypeInv, FlagsType
<1>12. streaming /\ ~Leaves(connection)' =>
          link[connection].streaming \/ WaitingOf({"started", "suspended"}, connection)'
  BY <1>1, <1>5, <1>6 DEF SyncInv, PlayInv
<1>13. ASSUME ~Waiting(CodecOrNot)', NEW p \in Peers PROVE ~Negotiated(p)
  <2>1. ~Waiting({"disconnected"})'
    BY <1>13 DEF Waiting, CodecOrNot
  <2>. QED BY <1>3, <1>9, <1>13, <2>1 DEF Handled, FirstSays, CodecOrNot
<1>14. ready /\ stale > 0 /\ ~Leaves(connection)' => WaitingOf({"suspended"}, connection)'
  <2>1. Stage # "empty"
    BY <1>3 DEF Handled, EventNames
  <2>. QED BY <1>1, <1>5, <1>6, <2>1 DEF SyncInv, SessionInv
<1>15. Streams' = Streams
  BY <1>3, HandledPeers
<1>. QED BY <1>1, <1>2, <1>3, <1>4, <1>7, <1>8, <1>10, <1>11, <1>12, <1>13, <1>14, <1>15,
            HandledParts


-----------------------------------------------------------------------------
(* The handlers, called by begin(). *)

LEMMA SeededConnected ==
    ASSUME TypeInv, TypeInv', LifeInv, SyncInv, Asking, OnConnected
    PROVE  SyncInv'
<1> PICK e : e = Now
  OBVIOUS
<1>1. /\ todo # <<>> /\ Stage = "connected" /\ Then(Grown)
      /\ connection' = e.peer /\ have' = TRUE /\ connected' = TRUE /\ streaming' = streaming
      /\ UNCHANGED <<link, events, attached, media, maxPacket, started, codec, ready,
                     stored, stale>>
  BY DoingStage DEF OnConnected, transport, wiring, stream
<1>2. attached /\ View
  BY <1>1, StepFacts, ViewHolds DEF LifeInv, First, SyncInv
<1>3. AskingCodec /\ Fresh /\ Seeding("connected") /\ ~Handling
  BY <1>1, <1>2 DEF View, Fresh, Seeding, Handling
<1>4. ~have /\ ~connected /\ ~streaming /\ ~ready
  BY <1>3 DEF SyncInv, AcceptInv
<1>5. e.peer \in Peers /\ e.bytes \in Mtus \cup {0} /\ (link[e.peer].up \/ Leaves(e.peer))
  BY <1>3 DEF SyncInv, AcceptInv
<1>6. /\ ShapeInv' /\ Stage' \in {"free", "queryCodec", "end"}
      /\ Asking' <=> Asking
      /\ AskingCodec' <=> AskingCodec
      /\ Restarting' => started \/ ~GrowsOnce
      /\ \A i \in 1 .. Len(todo') :
            \/ todo'[i].do = "free"
            \/ todo'[i].do = "restart" /\ Covers(todo'[i].bytes)
            \/ \E j \in 1 .. Len(todo) : todo'[i] = todo[j]
  BY <1>1, <1>2, <1>5, GrownSteps
<1>7. View'
  BY <1>6, ViewHoldsNext
<1>8. /\ Stage' \in {"free", "queryCodec"} /\ Asking' /\ AskingCodec' /\ ~Handling'
      /\ ~Unasked' /\ ~Seeding("connected")' /\ ~Seeding("codec")' /\ ~Fresh'
  BY <1>1, <1>2, <1>3, <1>6, <1>7 DEF View, Handling, Unasked, Seeding, Fresh
<1>9. Kept
  BY <1>1, <1>3, <1>8, KeptOutside
<1>10. /\ \A S : Waiting(S)' <=> Waiting(S)
       /\ \A p : Leaves(p)' <=> Leaves(p)
  BY <1>9, WaitingKept
<1>11. PeersInv'
  BY <1>1 DEF SyncInv, PeersInv, Negotiated
<1>12. LogInv'
  BY <1>1, <1>9, LogKept DEF SyncInv
<1>13. AcceptInv'
  <2>1. link[e.peer].up => link[e.peer] # Down
    BY <1>5, DownFacts
  <2>2. Leaves(connection)' <=> Leaves(e.peer)
    BY <1>1, <1>10
  <2>. QED BY <1>1, <1>5, <1>8, <2>1, <2>2 DEF AcceptInv
<1>14. ConnInv'
  <2>1. ASSUME ~Waiting(UpOrDown)' PROVE UpPeers # {}
    <3>1. ~Leaves(e.peer)
      BY <1>10, <2>1 DEF Leaves, WaitingOf, Waiting, UpOrDown
    <3>. QED BY <1>5, <3>1 DEF UpPeers
  <2>2. UpPeers' = UpPeers
    BY <1>1 DEF UpPeers
  <2>. QED BY <1>1, <2>1, <2>2 DEF ConnInv
<1>15. PlayInv'
  BY <1>1, <1>4, <1>8 DEF PlayInv
<1>16. CodecInv'
  BY <1>8 DEF CodecInv
<1>17. GrowthInv'
  BY <1>1, <1>6 DEF SyncInv, GrowthInv, Covers, Restarting
<1>18. SessionInv'
  BY <1>1, <1>4 DEF SyncInv, SessionInv
<1>. QED BY <1>6, <1>11, <1>12, <1>13, <1>14, <1>15, <1>16, <1>17, <1>18 DEF SyncInv

(* The peer whose codec was asked for is the accepted one, or one of the    *)
(* two has left.                                                            *)
LEMMA SeededCodec ==
    ASSUME TypeInv, TypeInv', LifeInv, SyncInv, Asking, OnCodecConfigured \/ Ignore("codec")
    PROVE  SyncInv'
<1> PICK e : e = Now
  OBVIOUS
<1> DEFINE f == ToEncodedAudioFormat(Now.codec)
<1>1. todo # <<>> /\ Stage = "codec"
      /\ UNCHANGED <<link, events, attached, media, maxPacket, started, codec, ready,
                     stored, stale, connected, streaming>>
  BY DoingStage DEF OnCodecConfigured, Ignore, transport, wiring, accepted, stream
<1>2. attached /\ View
  BY <1>1, StepFacts, ViewHolds DEF LifeInv, First, SyncInv
<1>3. /\ ~AskingCodec /\ Seeding("codec") /\ ~Handling /\ ~Unasked /\ ~Restarting
      /\ ~Seeding("connected") /\ ~Fresh
  BY <1>1, <1>2 DEF View, Seeding, Handling, Unasked, Restarting, Fresh
<1>4. have /\ e.peer \in Peers /\ (link[e.peer] # Down \/ Leaves(e.peer))
      /\ connection \in Peers /\ (link[connection] # Down \/ Leaves(connection))
  BY <1>3 DEF SyncInv, AcceptInv
<1>5. e.codec \in Codecs /\ Apply(f) \in Fitting /\ Apply(f).do = "apply" /\ Apply(f).codec = f
  <2>1. Now.do = "codec"
    BY <1>1 DEF Stage
  <2>2. Now.codec \in Codecs
    BY <1>1, <2>1, TodoFacts
  <2>3. f \in Formats
    BY <2>2, FormatType
  <2>. QED BY <2>2, <2>3, CallType DEF Apply, Call, AnyCodec
<1> HIDE DEF f
<1>6. ASSUME UNCHANGED accepted, ShapeInv', Asking', ~AskingCodec',
             Stage' \in {"apply", "queryStreaming"},
             \A i \in 1 .. Len(todo') :
                todo'[i].do = "apply" \/ \E j \in 1 .. Len(todo) : todo'[i] = todo[j],
             ~Waiting(CodecOrNot) =>
                \A p \in Peers : Negotiated(p) =>
                    Suits(Coming', ToEncodedAudioFormat(link[p].codec))
      PROVE  SyncInv'
  <2>1. /\ ~Handling' /\ ~Unasked' /\ ~Restarting' /\ ~Fresh'
        /\ ~Seeding("connected")' /\ ~Seeding("codec")'
    BY <1>1, <1>2, <1>6 DEF Handling, Unasked, Restarting, Fresh, Seeding
  <2>2. Kept
    BY <1>1, <1>3, <2>1, KeptOutside
  <2>3. /\ \A S : Waiting(S)' <=> Waiting(S)
        /\ \A S, p : WaitingOf(S, p)' <=> WaitingOf(S, p)
        /\ \A p : Leaves(p)' <=> Leaves(p)
    BY <2>2, WaitingKept
  <2>4. PeersInv' /\ LogInv' /\ ConnInv' /\ PlayInv'
    BY <1>1, <1>3, <1>6, <2>1, <2>2, Steady
  <2>5. AcceptInv'
    BY <1>1, <1>6, <2>1, <2>2, SteadyAccept
  <2>6. CodecInv'
    BY <1>1, <2>1, <2>3, <1>6 DEF CodecInv, Negotiated
  <2>7. GrowthInv'
    BY <1>1, <1>3, <1>6, <2>1 DEF SyncInv, GrowthInv
  <2>8. SessionInv'
    BY <1>1, <1>6, <2>3 DEF SyncInv, SessionInv, accepted
  <2>. QED BY <1>6, <2>4, <2>5, <2>6, <2>7, <2>8 DEF SyncInv
<1>7. ASSUME ~Waiting(CodecOrNot), NEW p \in Peers, Negotiated(p)
      PROVE  link[p].codec = e.codec /\ e.peer = connection
  <2>1. link[e.peer].codec = e.codec
    BY <1>3, <1>7 DEF SyncInv, CodecInv
  <2>2. Negotiated(e.peer)
    BY <1>5, <2>1, AdapterAssumption DEF Negotiated
  <2>3. ~Leaves(connection)
    BY <1>7 DEF Leaves, WaitingOf, Waiting, CodecOrNot
  <2>4. link[p] # Down /\ link[e.peer] # Down /\ link[connection] # Down
    BY <1>4, <1>7, <2>2, <2>3, DownFacts
  <2>. QED BY <1>4, <2>1, <2>4 DEF SyncInv, PeersInv
<1>8. CASE OnCodecConfigured
  <2>1. Then(<<Apply(f)>>) /\ UNCHANGED accepted
    BY <1>1, <1>4, <1>8 DEF OnCodecConfigured, OfAnother, accepted, FlagsType, TypeInv, f
  <2>2. Second \in Follows("apply")
    <3>1. Second \in Follows("codec")
      BY <1>1, SecondFollows DEF SyncInv
    <3>. QED BY <3>1 DEF Follows
  <2>3. /\ ShapeInv' /\ Stage' = "apply" /\ Now' = Apply(f)
        /\ Asking' <=> Asking
        /\ AskingCodec' <=> AskingCodec
        /\ \A i \in 1 .. Len(todo') :
              todo'[i] = Apply(f) \/ \E j \in 1 .. Len(todo) : todo'[i] = todo[j]
    BY <1>1, <1>5, <2>1, <2>2, OneMore DEF SyncInv
  <2>4. Coming' = f
    BY <1>5, <2>3 DEF Coming
  <2>. QED BY <1>3, <1>5, <1>6, <1>7, <2>1, <2>3, <2>4 DEF Suits, Agrees, f
<1>9. CASE Ignore("codec")
  <2>1. Then(<<>>) /\ UNCHANGED accepted /\ e.peer # connection
    BY <1>9 DEF Ignore, OfAnother
  <2>2. /\ ShapeInv' /\ Stage' \in Follows(Stage)
        /\ Asking' <=> Asking
        /\ AskingCodec' <=> AskingCodec
        /\ \A i \in 1 .. Len(todo') : \E j \in 1 .. Len(todo) : todo'[i] = todo[j]
    BY <1>1, <2>1, NoMore DEF SyncInv
  <2>3. View'
    BY <2>2, ViewHoldsNext
  <2>4. Stage' = "queryStreaming"
    BY <1>1, <2>2, <2>3 DEF Follows, View
  <2>. QED BY <1>3, <1>6, <1>7, <2>1, <2>2, <2>4
<1>. QED BY <1>8, <1>9

(* Nothing but these two is called by begin(), and the first is never       *)
(* refused.                                                                 *)
LEMMA HandlersKeep ==
    ASSUME TypeInv, TypeInv', LifeInv, SyncInv, Handlers
    PROVE  SyncInv'
<1>1. View
  BY ViewHolds DEF SyncInv
<1>2. Stage \in EventNames
  BY DoingStage DEF Handlers, OnConnected, OnDisconnected, OnCodecConfigured,
     OnStreamStateChanged, Ignore, EventNames
<1>3. CASE ~Asking
  <2>1. Handling
    BY <1>2, <1>3 DEF Handling
  <2>. QED BY <2>1, HandledConnected, HandledDisconnected, HandledCodec, HandledStreamState,
              HandledIgnored DEF Handlers
<1>4. CASE Asking
  <2>1. Stage \in {"connected", "codec"}
    BY <1>1, <1>2, <1>4 DEF View, EventNames
  <2>2. CASE Stage = "connected"
    <3>1. Fresh
      BY <1>4, <2>2 DEF Fresh
    <3>2. ~have
      BY <3>1 DEF SyncInv, AcceptInv
    <3>3. OnConnected
      BY <2>2, <3>2, DoingStage DEF Handlers, OnDisconnected, OnCodecConfigured,
         OnStreamStateChanged, Ignore, OfAnother
    <3>. QED BY <1>4, <3>3, SeededConnected
  <2>3. CASE Stage = "codec"
    <3>1. OnCodecConfigured \/ Ignore("codec")
      BY <2>3, DoingStage DEF Handlers, OnConnected, OnDisconnected,
         OnStreamStateChanged, Ignore
    <3>. QED BY <1>4, <3>1, SeededCodec
  <2>. QED BY <2>1, <2>2, <2>3
<1>. QED BY <1>3, <1>4


-----------------------------------------------------------------------------
(* Between the calls of the application, and beside them. *)

(* The task is in no call.                                                  *)
LEMMA IdleStage ==
    ASSUME todo = <<>>
    PROVE  /\ Stage = "end" /\ ~Asking /\ ~AskingCodec /\ ~Handling /\ ~Unasked /\ ~Restarting
           /\ ~Seeding("connected") /\ ~Seeding("codec") /\ Coming = codec
           /\ Fresh <=> ~attached
<1>1. Len(todo) = 0
  BY EmptySeq
<1>2. Stage = "end" /\ ~Asking /\ ~AskingCodec
  BY <1>1 DEF Stage, Asking, AskingCodec, Has
<1>. QED BY <1>2 DEF Handling, EventNames, Unasked, Restarting, Seeding, Coming, Fresh

LEMMA DispatchKeeps ==
    ASSUME TypeInv, TypeInv', LifeInv, SyncInv, Dispatch
    PROVE  SyncInv'
<1>1. /\ todo = <<>> /\ events # <<>> /\ events' = Tail(events)
      /\ todo' = (IF attached THEN <<Head(events)>> ELSE <<>>)
      /\ UNCHANGED <<link, attached, accepted, have, connection, connected, streaming, media,
                     maxPacket, started, codec, ready, stored, stale>>
  BY DEF Dispatch, wiring, accepted, stream
<1>2. /\ Stage = "end" /\ ~Asking /\ ~AskingCodec /\ ~Handling /\ ~Unasked /\ ~Restarting
      /\ ~Seeding("connected") /\ ~Seeding("codec") /\ Coming = codec
      /\ Fresh <=> ~attached
  BY <1>1, IdleStage
<1>3. Pending = events /\ events \in Seq(Posted) /\ Head(events) \in Posted
  BY <1>1, <1>2, HeadTailProperties DEF Pending, TypeInv, LinkType
<1>4. CASE attached
  <2> PICK e : e = Head(events)
    OBVIOUS
  <2>1. todo' = <<e>> /\ e.do \in EventNames /\ Len(todo') = 1 /\ todo'[1] = e
    BY <1>1, <1>3, <1>4 DEF Posted
  <2>2. Stage' = e.do /\ Now' = e
    BY <2>1 DEF Stage, Now
  <2>3. ~Asking' /\ ~AskingCodec'
    BY <2>1 DEF Asking, AskingCodec, Has, EventNames
  <2>4. /\ Handling' /\ ~Unasked' /\ ~Restarting' /\ ~Fresh' /\ ~Fresh
        /\ ~Seeding("connected")' /\ ~Seeding("codec")' /\ Coming' = codec
    BY <1>1, <1>2, <1>4, <2>1, <2>2, <2>3
       DEF Handling, Unasked, Restarting, Fresh, Seeding, Coming, EventNames
  <2>5. Kept
    <3>1. Pending' = <<e>> \o Tail(events)
      BY <1>1, <2>2, <2>4 DEF Pending
    <3>2. <<e>> \o Tail(events) = events
      BY <1>1, <1>3
    <3>. QED BY <1>3, <3>1, <3>2 DEF Kept
  <2>6. ShapeInv'
    BY <2>1 DEF ShapeInv, Follows, EventNames
  <2>7. PeersInv' /\ LogInv' /\ ConnInv' /\ PlayInv'
    BY <1>1, <1>2, <2>3, <2>4, <2>5, Steady
  <2>8. AcceptInv'
    BY <1>1, <2>3, <2>4, <2>5, SteadyAccept
  <2>9. \A S : Waiting(S)' <=> Waiting(S)
    BY <2>5, WaitingKept
  <2>10. /\ \A S, p : WaitingOf(S, p)' <=> WaitingOf(S, p)
         /\ \A p : Leaves(p)' <=> Leaves(p)
    BY <2>5, WaitingKept
  <2>11. CodecInv'
    BY <1>1, <1>2, <2>3, <2>4, <2>9 DEF SyncInv, CodecInv, Negotiated
  <2>12. GrowthInv'
    BY <1>1, <1>2, <2>1, <2>4 DEF SyncInv, GrowthInv, EventNames
  <2>13. SessionInv'
    BY <1>1, <1>2, <2>9, <2>10 DEF SyncInv, SessionInv
  <2>. QED BY <2>6, <2>7, <2>8, <2>11, <2>12, <2>13 DEF SyncInv
<1>5. CASE ~attached
  <2>1. todo' = <<>> /\ Len(todo') = 0 /\ UNCHANGED todo
    BY <1>1, <1>5, EmptySeq
  <2>2. /\ ~Asking' /\ ~Handling' /\ ~Unasked' /\ ~Seeding("connected")' /\ ~Seeding("codec")'
        /\ Fresh' /\ ~AskingCodec'
    BY <1>1, <1>2, <1>5, <2>1, SameStage DEF Fresh
  <2>3. ~have /\ ~connected /\ ~streaming /\ ~ready /\ codec.codec = "Unknown"
    BY <1>2, <1>5 DEF SyncInv, AcceptInv
  <2>4. Taken
    BY <1>1, <1>3, <2>2 DEF Pending, Taken
  <2>5. LogInv'
    BY <1>1, <2>4, LogTaken DEF SyncInv
  <2>6. PeersInv'
    BY <1>1 DEF SyncInv, PeersInv, Negotiated
  <2>7. ShapeInv'
    BY <2>1 DEF ShapeInv
  <2>8. AcceptInv' /\ ConnInv' /\ PlayInv' /\ CodecInv'
    BY <1>1, <1>5, <2>2, <2>3 DEF AcceptInv, ConnInv, PlayInv, CodecInv
  <2>9. GrowthInv'
    BY <1>1, <1>5, <2>1 DEF SyncInv, GrowthInv
  <2>10. SessionInv'
    BY <1>1, <2>3 DEF SyncInv, SessionInv
  <2>. QED BY <2>5, <2>6, <2>7, <2>8, <2>9, <2>10 DEF SyncInv
<1>. QED BY <1>4, <1>5

(* When begin() comes and nobody is between the codec and the connection,   *)
(* what it will ask for is all there is.                                    *)
LEMMA BeginsKeep ==
    ASSUME TypeInv, TypeInv', LifeInv, SyncInv, NEW steps \in Seq(Fitting), Begins(steps),
           NEW bytes,
           \/ steps = <<>>
           \/ bytes \in Configured /\ steps = Steps(bytes)
              /\ (~AttachAnytime => \A p \in Peers : ~HalfOpen(p))
    PROVE  SyncInv'
<1>1. /\ todo = <<>> /\ todo' = Ending \o steps
      /\ UNCHANGED <<link, events, attached, accepted, have, connection, connected, streaming,
                     media, maxPacket, started, codec, ready, stored, stale>>
  BY DEF Begins, transport, wiring, accepted, stream
<1>2. /\ Stage = "end" /\ ~Asking /\ ~AskingCodec /\ ~Handling /\ ~Unasked /\ ~Restarting
      /\ ~Seeding("connected") /\ ~Seeding("codec") /\ Coming = codec
      /\ Fresh <=> ~attached
  BY <1>1, IdleStage
<1>3. /\ Ending \in Seq(Fitting)
      /\ \/ /\ attached /\ Len(Ending) = 3
            /\ Ending[1].do = "unregister" /\ Ending[2].do = "barrier"
            /\ Ending[3].do = "release"
         \/ ~attached /\ Len(Ending) = 1 /\ Ending[1].do = "release"
  BY EndedType, EndingType
<1>4. /\ Len(steps) \in {0, 4}
      /\ Len(steps) = 4 =>
            /\ bytes \in Configured
            /\ ~AttachAnytime => \A p \in Peers : ~HalfOpen(p)
            /\ steps[1].do = "allocate" /\ steps[2].do = "register"
            /\ steps[3].do = "query" /\ steps[4].do = "queryStreaming"
            /\ steps[1].bytes = bytes
  <2>1. Allocate(bytes) = Steps(bytes)[1]
    BY DEF Steps
  <2>2. Allocate(bytes).bytes = bytes
    BY DEF Allocate, Call
  <2>3. CASE steps = <<>>
    BY <2>3, EmptySeq
  <2>4. CASE /\ bytes \in Configured /\ steps = Steps(bytes)
             /\ ~AttachAnytime => \A p \in Peers : ~HalfOpen(p)
    BY <2>1, <2>2, <2>4, StepsType
  <2>. QED BY <2>3, <2>4
<1>5. /\ Len(todo') = Len(Ending) + Len(steps)
      /\ \A i \in 1 .. Len(todo') :
            todo'[i] = IF i <= Len(Ending) THEN Ending[i] ELSE steps[i - Len(Ending)]
  BY <1>1, <1>3, ConcatProperties
<1>6. /\ Len(todo') >= 1 /\ todo'[1].do \in {"unregister", "release"}
      /\ \A i \in 1 .. Len(todo') :
            /\ todo'[i].do \in {"unregister", "barrier", "release", "allocate", "register",
                                "query", "queryStreaming"}
            /\ todo'[i].do = "allocate" => todo'[i].bytes = bytes /\ Len(steps) = 4
            /\ todo'[i].do = "queryStreaming" => Len(steps) = 4
            /\ (IF i < Len(todo') THEN todo'[i + 1].do ELSE "end") \in Follows(todo'[i].do)
  <2>1. CASE attached /\ Len(steps) = 4
    <3>1. /\ Len(todo') = 7 /\ todo'[1].do = "unregister" /\ todo'[2].do = "barrier"
          /\ todo'[3].do = "release" /\ todo'[4].do = "allocate" /\ todo'[5].do = "register"
          /\ todo'[6].do = "query" /\ todo'[7].do = "queryStreaming" /\ todo'[4].bytes = bytes
      <4>1. Len(todo') = Len(Ending) + Len(steps)
        BY <1>5
      <4>2. Len(Ending) = 3
        BY <1>3, <2>1
      <4>3. Len(todo') = 7
        BY <2>1, <4>1, <4>2
      <4>4. \A i \in 1 .. 7 : todo'[i] = IF i <= 3 THEN Ending[i] ELSE steps[i - 3]
        BY <1>5, <4>2, <4>3
      <4>5. todo'[1] = Ending[1] /\ todo'[2] = Ending[2] /\ todo'[3] = Ending[3]
        BY <4>4
      <4>6. todo'[4] = steps[1] /\ todo'[5] = steps[2] /\ todo'[6] = steps[3]
            /\ todo'[7] = steps[4]
        BY <4>4
      <4>. QED BY <1>3, <1>4, <2>1, <4>3, <4>5, <4>6
    <3>2. \A i \in 1 .. Len(todo') : i \in {1, 2, 3, 4, 5, 6, 7}
      BY <3>1
    <3>. QED BY <2>1, <3>1, <3>2 DEF Follows
  <2>2. CASE ~attached /\ Len(steps) = 4
    <3>1. /\ Len(todo') = 5 /\ todo'[1].do = "release" /\ todo'[2].do = "allocate"
          /\ todo'[3].do = "register" /\ todo'[4].do = "query"
          /\ todo'[5].do = "queryStreaming" /\ todo'[2].bytes = bytes
      BY <1>3, <1>4, <1>5, <2>2
    <3>2. \A i \in 1 .. Len(todo') : i \in {1, 2, 3, 4, 5}
      BY <3>1
    <3>. QED BY <2>2, <3>1, <3>2 DEF Follows
  <2>3. CASE attached /\ Len(steps) = 0
    <3>1. /\ Len(todo') = 3 /\ todo'[1].do = "unregister" /\ todo'[2].do = "barrier"
          /\ todo'[3].do = "release"
      BY <1>3, <1>5, <2>3
    <3>2. \A i \in 1 .. Len(todo') : i \in {1, 2, 3}
      BY <3>1
    <3>. QED BY <2>3, <3>1, <3>2 DEF Follows
  <2>4. CASE ~attached /\ Len(steps) = 0
    <3>1. Len(todo') = 1 /\ todo'[1].do = "release"
      BY <1>3, <1>5, <2>4
    <3>. QED BY <2>4, <3>1 DEF Follows
  <2>. QED BY <1>3, <1>4, <2>1, <2>2, <2>3, <2>4
<1>7. ShapeInv'
  BY <1>6 DEF ShapeInv
<1>8. Stage' \in {"unregister", "release"} /\ ~AskingCodec' /\ (Asking' => Len(steps) = 4)
  <2>1. todo' # <<>> /\ Now' = todo'[1]
    BY <1>6, EmptySeq DEF Now
  <2>. QED BY <1>6, <2>1 DEF Stage, AskingCodec, Asking, Has
<1>9. /\ ~Handling' /\ (Unasked' <=> Asking') /\ ~Restarting' /\ (Fresh' <=> ~attached)
      /\ ~Seeding("connected")' /\ ~Seeding("codec")' /\ Coming' = codec
  BY <1>1, <1>8 DEF Handling, EventNames, Unasked, Restarting, Fresh, Seeding, Coming
<1>10. Kept
  BY <1>1, <1>2, <1>9, KeptOutside
<1>11. /\ \A S : Waiting(S)' <=> Waiting(S)
       /\ \A S, p : WaitingOf(S, p)' <=> WaitingOf(S, p)
       /\ \A p : Leaves(p)' <=> Leaves(p)
  BY <1>10, WaitingKept
<1>12. PeersInv' /\ LogInv'
  BY <1>1, <1>10, LogKept DEF SyncInv, PeersInv, Negotiated
<1>13. AcceptInv'
  <2>1. Fresh' => Fresh /\ ~ready' /\ codec'.codec = "Unknown"
    BY <1>1, <1>2, <1>9 DEF SyncInv, AcceptInv
  <2>. QED BY <1>1, <1>8, <1>9, <1>10, <2>1, SteadyAccept
<1>14. UpPeers' = UpPeers /\ Streams' = Streams
  BY <1>1 DEF UpPeers, Streams
<1>15. ConnInv'
  BY <1>1, <1>2, <1>9, <1>11, <1>14 DEF SyncInv, ConnInv
<1>16. PlayInv'
  BY <1>1, <1>2, <1>9, <1>11, <1>14 DEF SyncInv, PlayInv
<1>17. CodecInv'
  BY <1>1, <1>2, <1>4, <1>8, <1>9, <1>11 DEF SyncInv, CodecInv, HalfOpen, Negotiated, NothingMissed
<1>18. GrowthInv'
  BY <1>1, <1>2, <1>4, <1>6, <1>9 DEF SyncInv, GrowthInv
<1>19. SessionInv'
  BY <1>1, <1>2, <1>8, <1>11 DEF SyncInv, SessionInv
<1>. QED BY <1>7, <1>12, <1>13, <1>15, <1>16, <1>17, <1>18, <1>19 DEF SyncInv

(* A step beside the calls changes no more than what is stored and where    *)
(* the media callback is.                                                   *)
LEMMA IdleStepKeeps ==
    ASSUME TypeInv, TypeInv', SyncInv,
           UNCHANGED <<link, events, attached, accepted, maxPacket, started, codec, ready, todo>>,
           media'.pc # "idle" => link[media'.peer].streaming,
           \A i \in stale' + 1 .. Len(stored') :
              link[stored'[i].peer].streaming /\ stored'[i].codec = link[stored'[i].peer].codec,
           stale' > 0 => stale > 0
    PROVE  SyncInv'
<1>1. /\ UNCHANGED <<Stage, Now, Asking, AskingCodec, Unasked, Handling>>
      /\ \A n : UNCHANGED Seeding(n)
      /\ Kept /\ ShapeInv'
  BY SameStage DEF SyncInv
<1>2. /\ \A S : Waiting(S)' <=> Waiting(S)
      /\ \A S, p : WaitingOf(S, p)' <=> WaitingOf(S, p)
      /\ \A p : Leaves(p)' <=> Leaves(p)
  BY <1>1, WaitingKept
<1>3. /\ UpPeers' = UpPeers /\ Streams' = Streams
      /\ UNCHANGED <<have, connection, connected, streaming>>
  BY DEF UpPeers, Streams, accepted
<1>4. PeersInv'
  BY DEF SyncInv, PeersInv, Negotiated
<1>5. LogInv'
  BY <1>1, LogKept DEF SyncInv
<1>6. Fresh' <=> Fresh
  BY <1>1 DEF Fresh
<1>7. AcceptInv'
  BY <1>1, <1>2, <1>3, <1>6 DEF SyncInv, AcceptInv
<1>8. ConnInv' /\ PlayInv'
  BY <1>1, <1>2, <1>3 DEF SyncInv, ConnInv, PlayInv
<1>9. CodecInv'
  <2>1. (Restarting' <=> Restarting) /\ Coming' = Coming
    BY <1>1 DEF Restarting, Coming
  <2>. QED BY <1>1, <1>2, <2>1 DEF SyncInv, CodecInv, HalfOpen, Negotiated
<1>10. GrowthInv'
  BY <1>1 DEF SyncInv, GrowthInv, Restarting
<1>11. SessionInv'
  BY <1>1, <1>2, <1>3 DEF SyncInv, SessionInv
<1>. QED BY <1>1, <1>4, <1>5, <1>7, <1>8, <1>9, <1>10, <1>11 DEF SyncInv

(* The Bluetooth task in onMedia(): what it stores is of the session that   *)
(* streams.                                                                 *)
LEMMA MediaKeeps ==
    ASSUME TypeInv, TypeInv', LifeInv, SyncInv,
           MediaSteps \/ \E p \in Peers : MediaArrives(p)
    PROVE  SyncInv'
<1>1. UNCHANGED <<link, events, attached, accepted, have, connection, connected, streaming,
                  maxPacket, started, codec, ready, stale, todo>>
  BY DEF MediaSteps, MediaArrives, ReadHave, ReadId, DropForeign, DropMedia, EnterPush,
         FinishPush, Sink!Accept, transport, wiring, accepted, stream
<1>2. media'.pc # "idle" => link[media'.peer].streaming
  <2>1. media.pc # "idle" => link[media.peer].streaming
    BY DEF SyncInv, PeersInv
  <2>2. media \in MediaStates /\ NoMedia.pc = "idle"
    BY DEF TypeInv, MediaType, NoMedia
  <2>3. CASE \E p \in Peers : MediaArrives(p)
    BY <2>3 DEF MediaArrives, NoMedia
  <2>4. CASE ReadHave \/ ReadId \/ EnterPush
    BY <2>1, <2>2, <2>4 DEF ReadHave, ReadId, EnterPush, Checked, MediaStates
  <2>5. CASE DropForeign \/ DropMedia \/ FinishPush
    BY <2>2, <2>5 DEF DropForeign, DropMedia, FinishPush
  <2>. QED BY <2>3, <2>4, <2>5 DEF MediaSteps
<1>3. \A i \in stale + 1 .. Len(stored') :
         link[stored'[i].peer].streaming /\ stored'[i].codec = link[stored'[i].peer].codec
  <2>1. \A i \in stale + 1 .. Len(stored) :
           link[stored[i].peer].streaming /\ stored[i].codec = link[stored[i].peer].codec
    BY DEF SyncInv, SessionInv
  <2>2. stored \in Seq(StoredPacket) /\ Len(stored) \in Nat /\ stale \in Nat
    BY LenProperties DEF TypeInv, StreamType
  <2>3. CASE stored' = stored
    BY <2>1, <2>3
  <2>4. CASE FinishPush /\ Sink!Accept(Carried)
    <3>1. link[media.peer].streaming /\ media.peer \in Peers
      BY <2>4 DEF FinishPush, SyncInv, PeersInv, TypeInv, MediaType
    <3>2. /\ Carried.peer = media.peer /\ Carried.codec = link[media.peer].codec
          /\ Carried \in StoredPacket
      BY <3>1 DEF Carried, StoredPacket, TypeInv, LinkType, Links
    <3>3. stored' = Append(stored, Carried)
      BY <2>4 DEF Sink!Accept
    <3>4. /\ Len(stored') = Len(stored) + 1 /\ stored'[Len(stored) + 1] = Carried
          /\ \A i \in 1 .. Len(stored) : stored'[i] = stored[i]
      BY <2>2, <3>2, <3>3, AppendProperties
    <3>5. \A i \in stale + 1 .. Len(stored') :
             i = Len(stored) + 1 \/ (i \in 1 .. Len(stored) /\ i \in stale + 1 .. Len(stored))
      BY <2>2, <3>4
    <3>. QED BY <2>1, <3>1, <3>2, <3>4, <3>5
  <2>. QED BY <2>3, <2>4 DEF MediaSteps, MediaArrives, ReadHave, ReadId, DropForeign, DropMedia,
              EnterPush, FinishPush, stream
<1>. QED BY <1>1, <1>2, <1>3, IdleStepKeeps

LEMMA UpdateKeeps ==
    ASSUME TypeInv, TypeInv', LifeInv, SyncInv, Update
    PROVE  SyncInv'
<1>1. /\ UNCHANGED <<link, events, attached, accepted, have, connection, connected, streaming,
                     maxPacket, started, codec, ready, media, todo>>
      /\ stored # <<>> /\ stored' = Tail(stored)
      /\ stale' = IF stale = 0 THEN 0 ELSE stale - 1
  BY DEF Update, Sink!Take, transport, wiring, accepted
<1>2. stored \in Seq(StoredPacket) /\ Len(stored) \in Nat /\ stale \in Nat
  BY LenProperties DEF TypeInv, StreamType
<1>3. /\ Len(stored') = Len(stored) - 1
      /\ \A i \in 1 .. Len(stored') : stored'[i] = stored[i + 1]
  BY <1>1, <1>2, HeadTailProperties
<1>4. ASSUME NEW i \in stale' + 1 .. Len(stored')
      PROVE  link[stored'[i].peer].streaming /\ stored'[i].codec = link[stored'[i].peer].codec
  <2>1. i \in 1 .. Len(stored') /\ i + 1 \in stale + 1 .. Len(stored)
    BY <1>1, <1>2, <1>3
  <2>. QED BY <1>3, <2>1 DEF SyncInv, SessionInv
<1>5. stale' > 0 => stale > 0
  BY <1>1, <1>2
<1>6. media'.pc # "idle" => link[media'.peer].streaming
  BY <1>1 DEF SyncInv, PeersInv
<1>. QED BY <1>1, <1>4, <1>5, <1>6, IdleStepKeeps


-----------------------------------------------------------------------------
(* The inductive invariant. *)

LEMMA SyncInit == Init => SyncInv
<1>1. SUFFICES ASSUME Init PROVE SyncInv
  OBVIOUS
<1>2. /\ todo = <<>> /\ events = <<>> /\ ~attached /\ ~have /\ ~connected /\ ~streaming
      /\ ~ready /\ ~started /\ stored = <<>> /\ stale = 0 /\ maxPacket \in Configured
      /\ media.pc = "idle" /\ (\A p \in Peers : link[p] = Down) /\ codec.codec = "Unknown"
  BY <1>1, Unknown DEF Init, Sink!Init, NoMedia
<1>3. Len(todo) = 0 /\ Len(stored) = 0 /\ Len(events) = 0
  BY <1>2, EmptySeq
<1>4. /\ Stage = "end" /\ ~Asking /\ ~AskingCodec /\ ~Handling /\ ~Unasked /\ ~Restarting
      /\ ~Seeding("connected") /\ ~Seeding("codec") /\ Pending = events
  BY <1>2, IdleStage DEF Pending
<1>5. PeersInv
  <2>1. Down.streaming = FALSE
    BY DEF Down
  <2>2. \A p \in Peers : link[p] = Down /\ ~link[p].streaming
    BY <1>2, <2>1
  <2>. QED BY <1>2, <2>2 DEF PeersInv
<1>6. LogInv
  BY <1>3, <1>4 DEF LogInv
<1>7. ShapeInv /\ GrowthInv
  BY <1>2, <1>3 DEF ShapeInv, GrowthInv
<1>8. AcceptInv /\ ConnInv /\ PlayInv /\ CodecInv
  BY <1>2, <1>4 DEF AcceptInv, ConnInv, PlayInv, CodecInv
<1>9. SessionInv
  BY <1>2, <1>3 DEF SessionInv
<1>. QED BY <1>5, <1>6, <1>7, <1>8, <1>9 DEF SyncInv

LEMMA SyncNext ==
    ASSUME OnePeer
    PROVE  TypeInv /\ TypeInv' /\ LifeInv /\ SyncInv /\ [Next]_vars => SyncInv'
<1>1. SUFFICES ASSUME TypeInv, TypeInv', LifeInv, SyncInv, [Next]_vars PROVE SyncInv'
  OBVIOUS
<1>2. ASSUME NEW p \in Peers, LinkSteps(p) PROVE SyncInv'
  BY <1>1, <1>2, LinkStepKeeps
<1>3. CASE MediaSteps \/ \E p \in Peers : MediaArrives(p)
  BY <1>1, <1>3, MediaKeeps
<1>4. CASE StreamSteps
  BY <1>1, <1>4, StreamStepKeeps
<1>5. CASE Handlers
  BY <1>1, <1>5, HandlersKeep
<1>6. CASE Lifetime
  BY <1>1, <1>6, WiringStepKeeps, ReleaseKeeps, AllocateKeeps, QueryKeeps, QueryCodecKeeps,
     QueryStreamingKeeps DEF Lifetime
<1>7. CASE Update
  BY <1>1, <1>7, UpdateKeeps
<1>8. CASE Dispatch
  BY <1>1, <1>8, DispatchKeeps
<1>9. ASSUME NEW bytes \in Configured, Begin(bytes) PROVE SyncInv'
  <2>1. /\ Steps(bytes) \in Seq(Fitting) /\ Begins(Steps(bytes))
        /\ ~AttachAnytime => \A p \in Peers : ~HalfOpen(p)
    BY <1>9, StepsType DEF Begin, Steps
  <2>. QED BY <1>1, <2>1, BeginsKeep
<1>10. CASE End
  <2>1. <<>> \in Seq(Fitting) /\ Begins(<<>>)
    BY <1>10, NoSteps DEF End
  <2>. QED BY <1>1, <2>1, BeginsKeep
<1>11. CASE UNCHANGED vars
  <2>1. /\ UNCHANGED <<link, events, attached, accepted, maxPacket, started, codec, ready, todo>>
        /\ UNCHANGED <<media, stored, stale>>
    BY <1>11 DEF vars, transport, wiring, stream
  <2>2. PeersInv /\ SessionInv
    BY <1>1 DEF SyncInv
  <2>3. /\ media'.pc # "idle" => link[media'.peer].streaming
        /\ \A i \in stale' + 1 .. Len(stored') :
              link[stored'[i].peer].streaming /\ stored'[i].codec = link[stored'[i].peer].codec
        /\ stale' > 0 => stale > 0
    BY <2>1, <2>2 DEF PeersInv, SessionInv
  <2>. QED BY <1>1, <2>1, <2>3, IdleStepKeeps
<1>. QED BY <1>1, <1>2, <1>3, <1>4, <1>5, <1>6, <1>7, <1>8, <1>9, <1>10, <1>11
     DEF Next, CallSteps

LEMMA SyncHolds ==
    ASSUME OnePeer
    PROVE  Spec => []SyncInv
<1>1. TypeInv /\ TypeInv' /\ LifeInv /\ SyncInv /\ [Next]_vars => SyncInv'
  BY SyncNext
<1>. QED BY <1>1, TypesHold, LifeHolds, SyncInit, PTL DEF Spec

(* Nothing is left to handle.                                               *)
LEMMA SettledFacts ==
    ASSUME Settled
    PROVE  /\ attached /\ Stage = "end" /\ ~Asking /\ ~AskingCodec /\ ~Unasked /\ ~Restarting
           /\ ~Seeding("connected") /\ ~Seeding("codec") /\ Coming = codec
           /\ \A S : ~Waiting(S)
           /\ \A p : ~Leaves(p)
           /\ \A S, p : ~WaitingOf(S, p)
<1>1. attached /\ todo = <<>> /\ events = <<>>
  BY DEF Settled
<1>2. Pending = <<>> /\ Len(Pending) = 0
  BY <1>1, IdleStage, EmptySeq DEF Pending
<1>. QED BY <1>1, <1>2, IdleStage DEF Waiting, WaitingOf, Leaves

(* When everything that was posted has been handled, connected() and        *)
(* streaming() say what the transport says, whenever the adapter was        *)
(* attached, and also when it has missed the codec or lost its stream.      *)
FlagsInSync == Settled => connected = (UpPeers # {}) /\ streaming = Streams

THEOREM FlagsWhenSettled ==
    ASSUME OnePeer
    PROVE  Spec => []FlagsInSync
<1>1. SyncInv => FlagsInSync
  BY SettledFacts DEF SyncInv, ConnInv, PlayInv, FlagsInSync
<1>. QED BY <1>1, SyncHolds, PTL

(* When nothing is missed either, the stream also has the codec of the peer *)
(* that is connected, however many events, renegotiations, restarts for a   *)
(* larger MTU, end()s and begin()s came before, and in whatever order they  *)
(* met.                                                                     *)
THEOREM AgreesWhenSettled ==
    ASSUME SyncContract
    PROVE  Spec => []InSync
<1>1. SyncInv => InSync
  <2>1. SUFFICES ASSUME SyncInv, Settled, started
                 PROVE  /\ connected = (UpPeers # {})
                        /\ streaming = Streams
                        /\ \A p \in UpPeers : Negotiated(p) =>
                              Agrees(codec, ToEncodedAudioFormat(link[p].codec))
    BY DEF InSync
  <2>2. \A f, g : Suits(f, g) => Agrees(f, g)
    BY DEF Suits, SyncContract
  <2>. QED BY <2>1, <2>2, SettledFacts DEF SyncInv, ConnInv, PlayInv, CodecInv, UpPeers
<1>2. OnePeer
  BY DEF SyncContract
<1>. QED BY <1>1, <1>2, SyncHolds, PTL

(* When everything that was posted has been handled, every packet the queue *)
(* holds is of the session that now streams, and the decoder is set up for  *)
(* it: nothing buffered before a pause, an end or a renegotiation is ever   *)
(* decoded with the settings of the next session.  A stream that has missed *)
(* the codec is not ready and decodes nothing.                              *)
THEOREM NothingOfAnotherSession ==
    ASSUME OnePeer
    PROVE  Spec => []OneSession
<1>1. TypeInv /\ SyncInv => OneSession
  <2>1. SUFFICES ASSUME TypeInv, SyncInv, Settled, ready
                 PROVE  /\ stale = 0
                        /\ \A i \in DOMAIN stored : ToEncodedAudioFormat(stored[i].codec) = codec
    BY DEF OneSession
  <2>2. stale \in Nat /\ stored \in Seq(StoredPacket)
    BY <2>1, StoredLength DEF TypeInv, StreamType
  <2>3. stale = 0
    BY <2>1, <2>2, SettledFacts DEF SyncInv, SessionInv
  <2>4. ASSUME NEW i \in DOMAIN stored PROVE ToEncodedAudioFormat(stored[i].codec) = codec
    <3>1. i \in stale + 1 .. Len(stored) /\ stored[i].peer \in Peers
      <4>1. DOMAIN stored = 1 .. Len(stored)
        BY <2>2, LenProperties
      <4>2. stored[i] \in StoredPacket
        BY <2>2, <4>1, ElementOfSeq
      <4>. QED BY <2>3, <4>1, <4>2 DEF StoredPacket
    <3>2. link[stored[i].peer].streaming /\ stored[i].codec = link[stored[i].peer].codec
      BY <2>1, <3>1 DEF SyncInv, SessionInv
    <3>3. Negotiated(stored[i].peer)
      BY <2>1, <3>1, <3>2 DEF SyncInv, PeersInv
    <3>4. started /\ codec.codec = "Sbc"
      BY <2>1 DEF SyncInv, SessionInv
    <3>5. Suits(codec, ToEncodedAudioFormat(link[stored[i].peer].codec))
      BY <2>1, <3>1, <3>3, <3>4, SettledFacts DEF SyncInv, CodecInv
    <3>. QED BY <3>2, <3>4, <3>5 DEF Suits, Agrees
  <2>. QED BY <2>3, <2>4
<1>. QED BY <1>1, SyncHolds, TypesHold, PTL
=============================================================================
