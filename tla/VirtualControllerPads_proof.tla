---------------------- MODULE VirtualControllerPads_proof ----------------------
(***************************************************************************)
(* What the player sees of the virtual controller service: its pads         *)
(* implement the board of pads, a packet that is reported as flushed is     *)
(* shown, and hid is asked for a device only when it has one to give.       *)
(***************************************************************************)
EXTENDS VirtualControllerService_proof

\* hid has no handle that stands for none.
LEMMA AttachedHandles == ServiceInv => attached \subseteq Handles /\ NoHandle \notin attached
  BY HandleAssumption DEF ServiceInv, TypeOK, VCTypeOK

\* A client without a pad has no state to show.
LEMMA PadTypes ==
  ASSUME ServiceInv, NEW c \in Clients
  PROVE  /\ PadOf(c) \in HidStates \cup {NoHandle}
         /\ PadOf(c) = NoHandle <=> hdlsHandle[c] \notin attached
         /\ ~Connected(c) => PadOf(c) = NoHandle
  BY AttachedHandles, StateAssumption DEF ServiceInv, TypeOK, VCTypeOK, PadOf, Connected

--------------------------------------------------------------------------------
\* What the calls to hid do to the pads.

\* Disconnecting controllers takes away their pads and no others.
LEMMA DisconnectPads ==
  ASSUME ServiceInv, NEW S \in SUBSET controllers, Disconnect(S)
  PROVE  /\ \A c \in Clients : PadOf(c)' = IF c \in S THEN NoHandle ELSE PadOf(c)
         /\ \A h \in Handles : shown'[h] \in {shown[h], Blank}
<1> DEFINE held == {hdlsHandle[c] : c \in S} \cap attached
<1>1. PICK stuck \in SUBSET held :
        /\ attached' = attached \ (held \ stuck)
        /\ shown' = [h \in Handles |-> IF h \in held \ stuck THEN Blank ELSE shown[h]]
  BY DEF Disconnect, DetachAll
<1>2. /\ \A c \in Clients : hdlsHandle'[c] = IF c \in S THEN NoHandle ELSE hdlsHandle[c]
      /\ controllers \subseteq Clients
  BY DEF Disconnect, ServiceInv, TypeOK
<1>3. ASSUME NEW c \in S PROVE PadOf(c)' = NoHandle
  BY <1>1, <1>2, AttachedHandles DEF PadOf
<1>4. ASSUME NEW c \in Clients \ S PROVE PadOf(c)' = PadOf(c)
  <2>1. CASE hdlsHandle[c] \in attached
    <3>1. c \in controllers /\ Connected(c)
      BY <2>1, AttachedHandles DEF ServiceInv, PacketInv, Connected
    <3>2. hdlsHandle[c] \notin held
      BY <1>4, <3>1 DEF ServiceInv, DeviceInv, NoOrphanDevice
    <3> QED
      BY <1>1, <1>2, <2>1, <3>2, AttachedHandles DEF PadOf
  <2>2. CASE hdlsHandle[c] \notin attached
    BY <1>1, <1>2, <2>2 DEF PadOf
  <2> QED
    BY <2>1, <2>2
<1> QED
  BY <1>1, <1>3, <1>4

\* Attaching a device for a controller without one gives it a blank pad.
LEMMA ConnectPads ==
  ASSUME ServiceInv, NEW c \in Clients, ~Connected(c), ConnectOk(c)
  PROVE  /\ PadOf(c) = NoHandle
         /\ \A d \in Clients : PadOf(d)' = IF d = c THEN Blank ELSE PadOf(d)
         /\ \A h \in Handles : shown'[h] \in {shown[h], Blank}
<1>1. PICK h \in FreshHandles : /\ attached' = attached \cup {h}
                                /\ shown' = [shown EXCEPT ![h] = Blank]
                                /\ hdlsHandle' = [hdlsHandle EXCEPT ![c] = h]
  BY DEF ConnectOk
<1>2. h \in Handles /\ \A d \in Clients : hdlsHandle[d] # h
  BY DEF FreshHandles
<1> QED
  BY <1>1, <1>2, PadTypes DEF ServiceInv, TypeOK, VCTypeOK, PadOf

\* A state that is pushed is shown on the pad of its controller and no other.
LEMMA PushPads ==
  ASSUME ServiceInv, NEW c \in Clients, PushOk(c)
  PROVE  /\ PadOf(c) # NoHandle
         /\ \A d \in Clients : PadOf(d)' = IF d = c THEN hidState[c] ELSE PadOf(d)
         /\ \A h \in Handles : shown'[h] \in {shown[h], hidState[c]}
<1>1. \A d \in Clients : Connected(d) /\ hdlsHandle[c] = hdlsHandle[d] => c = d
  BY DEF ServiceInv, PacketInv, DeviceInv, NoOrphanDevice, Connected
<1> QED
  BY <1>1, AttachedHandles, PadTypes DEF PushOk, ServiceInv, TypeOK, VCTypeOK, PadOf, Connected

\* A device that the console detaches takes away at most the pad it shows.
LEMMA DetachedPads ==
  ASSUME ServiceInv, ExternalDetach
  PROVE  /\ \A c \in Clients : PadOf(c)' \in {PadOf(c), NoHandle}
         /\ \A h \in Handles : shown'[h] \in {shown[h], Blank}
  BY DEF ExternalDetach, ServiceInv, TypeOK, VCTypeOK, PadOf

\* Blank and merged states report no sensor vector of another packet.
LEMMA ConsistentStates ==
  /\ Consistent(Blank)
  /\ \A p \in Packets, old \in HidStates : Consistent(Merge(old, p))
  BY DEF Consistent, Blank, Merge, Packets

\* At first there are no pads and no packet.
LEMMA InitPadInv == Init => PadInv
<1> SUFFICES ASSUME Init PROVE PadInv
  OBVIOUS
<1>1. \A c \in Clients : StateInv(c) /\ ShownInv(c)
  BY ConsistentStates DEF Init, VCInit, StateInv, ShownInv, PadOf, InputOfClient, Blank
<1>2. \A h \in Handles : Consistent(shown[h])
  BY ConsistentStates DEF Init, VCInit
<1>3. PushInv
  BY DEF Init, PushInv
<1> QED
  BY <1>1, <1>2, <1>3 DEF PadInv

\* SetState stores the input of a packet of the controller's client, or has a
\* newer one, and then what it has is an input.
LEMMA SetStatePads ==
  ASSUME ServiceInv, PadInv, NEW p \in Packets, SetState(p.src, p)
  PROVE  /\ \A c \in Clients : StateInv(c)' /\ ShownInv(c)'
         /\ hidState'[p.src].main # NoInput
         /\ hidState'[p.src].main.tick >= p.tick
<1>1. p.src \in Clients /\ p.tick \in Ticks
  BY DEF Packets
<1>2. TypeOK
  BY DEF ServiceInv
<1>3. \A c \in Clients : PadOf(c)' = PadOf(c)
  BY DEF SetState, PadOf
<1>4. CASE Outdated(p.src, p)
  BY <1>1, <1>2, <1>3, <1>4
     DEF PadInv, SetState, Outdated, StateInv, ShownInv, TypeOK, VCTypeOK, Ticks
<1>5. CASE ~Outdated(p.src, p)
  <2>1. /\ clientTick'[p.src] = p.tick /\ p.tick >= clientTick[p.src]
        /\ hidState'[p.src] = Merge(hidState[p.src], p)
        /\ \A c \in Clients \ {p.src} : clientTick'[c] = clientTick[c] /\ hidState'[c] = hidState[c]
    BY <1>1, <1>2, <1>5 DEF SetState, Outdated, TypeOK, VCTypeOK, Ticks
  <2>2. /\ Consistent(hidState'[p.src])
        /\ hidState'[p.src].main = InputOf(p)
    BY <1>1, <1>2, <2>1, ConsistentStates DEF TypeOK, VCTypeOK, Merge
  <2>3. InputOf(p) # NoInput /\ InputOf(p).src = p.src /\ InputOf(p).tick = p.tick
    BY InputOfType, InputAssumption DEF InputOf
  <2>4. StateInv(p.src)'
    BY <1>1, <2>1, <2>2, <2>3 DEF StateInv, InputOfClient, Ticks
  <2>5. ShownInv(p.src)'
    BY <1>1, <1>2, <1>3, <2>1, PadTypes
       DEF PadInv, ShownInv, InputOfClient, TypeOK, VCTypeOK, Ticks, HidStates, Inputs
  <2>6. \A c \in Clients \ {p.src} : StateInv(c)' /\ ShownInv(c)'
    BY <1>3, <2>1 DEF PadInv, StateInv, ShownInv
  <2> QED
    BY <1>1, <2>1, <2>2, <2>3, <2>4, <2>5, <2>6 DEF Ticks
<1> QED
  BY <1>4, <1>5

\* The pads and what their controllers hold stay, and the packet in hand with
\* them, or none is about to be pushed any more.
LEMMA SamePads ==
  ASSUME PadInv, UNCHANGED <<hdlsHandle, hidState, clientTick, attached, shown>>,
         \/ UNCHANGED <<pc, pkt>>
         \/ pc' \notin {"flush", "reconnect", "push"}
  PROVE  PadInv'
  BY DEF PadInv, StateInv, ShownInv, PushInv, PadOf, Consistent, InputOfClient

\* Pads vanish or appear blank, and the controllers keep what they hold.
LEMMA BlankPads ==
  ASSUME PadInv, UNCHANGED <<hidState, clientTick>>,
         \A c \in Clients : PadOf(c)' \in {PadOf(c), NoHandle, Blank},
         \A h \in Handles : shown'[h] \in {shown[h], Blank},
         PushInv'
  PROVE  PadInv'
<1>1. \A c \in Clients : StateInv(c)'
  BY DEF PadInv, StateInv
<1>2. \A c \in Clients : ShownInv(c)'
  BY DEF PadInv, ShownInv, InputOfClient, Blank
<1>3. \A h \in Handles : Consistent(shown[h])'
  BY ConsistentStates DEF PadInv, Consistent
<1> QED
  BY <1>1, <1>2, <1>3 DEF PadInv

\* Controllers are deleted while no packet is about to be pushed.
LEMMA DeletePads ==
  ASSUME ServiceInv, PadInv, NEW S \in SUBSET controllers, Delete(S),
         pc' \notin {"flush", "reconnect", "push"}
  PROVE  /\ PadInv'
         /\ \A c \in Clients : PadOf(c)' = IF c \in S THEN NoHandle ELSE PadOf(c)
<1>1. /\ \A c \in Clients : PadOf(c)' = IF c \in S THEN NoHandle ELSE PadOf(c)
      /\ \A h \in Handles : shown'[h] \in {shown[h], Blank}
  BY DisconnectPads DEF Delete
<1>2. \A c \in S : StateInv(c)' /\ ShownInv(c)'
  BY <1>1, ConsistentStates DEF Delete, StateInv, ShownInv, InputOfClient, Blank, ServiceInv, TypeOK
<1>3. \A c \in Clients \ S : StateInv(c)' /\ ShownInv(c)'
  BY <1>1 DEF PadInv, Delete, StateInv, ShownInv
<1>4. \A h \in Handles : Consistent(shown[h])'
  BY <1>1, ConsistentStates DEF PadInv, Consistent
<1> QED
  BY <1>1, <1>2, <1>3, <1>4 DEF PadInv, PushInv

\* Each step keeps pads, controllers and the packet in hand together.
LEMMA NextPadInv == ServiceInv /\ PadInv /\ [Next]_vars => PadInv'
<1> SUFFICES ASSUME ServiceInv, PadInv, [Next]_vars PROVE PadInv'
  OBVIOUS
<1> USE DEF vcVars, thread, ownerVars, netVars
<1>0. \A p \in pkt : p \in Packets /\ p.src \in Clients
  BY DEF ServiceInv, TypeOK, Packets
\* Steps that leave the pads and their controllers alone.
<1>1. CASE Start \/ Stop \/ StopReturns
  BY <1>1, SamePads DEF Start, Stop, StopReturns
<1>2. CASE WakeUp \/ Initialize \/ LoopHead \/ ReceiveFails \/ LookupKnown \/ HandleError \/ Exit
  BY <1>2, SamePads DEF WakeUp, Initialize, LoopHead, ReceiveFails, LookupKnown, HandleError, Exit
<1>3. CASE InitializeFails \/ LookupAborts
  BY <1>3, SamePads DEF InitializeFails, LookupAborts, Abort
<1>4. ASSUME NEW c \in Clients, ReceiveFrom(c) PROVE PadInv'
  BY <1>4, SamePads DEF ReceiveFrom
<1>5. ASSUME NEW c \in Clients,
             SendState(c) \/ SendExit(c) \/ ClientCrashes(c) \/ ClientRestarts(c) \/ SendNoise(c)
      PROVE  PadInv'
  BY <1>5, SamePads DEF SendState, SendExit, ClientCrashes, ClientRestarts, SendNoise
<1>6. CASE Duplicate \/ SocketBreaks \/ ClockTicks \/ UNCHANGED vars
  BY <1>6, SamePads DEF Duplicate, SocketBreaks, ClockTicks, vars
\* Steps by which pads appear and vanish.
<1>7. CASE LookupNew
  <2>1. PICK p \in pkt : p.src \notin controllers /\ ConnectOk(p.src)
    BY <1>7 DEF LookupNew
  <2>2. p.src \in Clients /\ ~Connected(p.src)
    BY <1>0, <2>1 DEF ServiceInv, PacketInv
  <2> QED
    BY <1>7, <2>1, <2>2, ConnectPads, BlankPads DEF LookupNew, PushInv
<1>8. CASE DispatchExit
  <2>1. PICK p \in pkt : Delete({p.src})
    BY <1>8 DEF DispatchExit
  <2>2. {p.src} \in SUBSET controllers
    BY <1>8 DEF DispatchExit, ServiceInv, PacketInv, Handling
  <2> QED
    BY <1>8, <2>1, <2>2, DeletePads DEF DispatchExit
<1>9. CASE Tidy \/ FinalCleanup
  <2>1. CASE UNCHANGED vcVars
    BY <1>9, <2>1, SamePads DEF Tidy, FinalCleanup
  <2>2. ASSUME NEW f \in BOOLEAN, Cleanup(f) PROVE PadInv'
    BY <1>9, <2>2, DeletePads DEF Tidy, FinalCleanup, Cleanup, CleanupVictims
  <2> QED
    BY <1>9, <2>1, <2>2 DEF Tidy, FinalCleanup
<1>10. CASE ConsoleDetaches
  BY <1>10, DetachedPads, BlankPads DEF PadInv, ConsoleDetaches, ExternalDetach, PushInv
\* Steps of the packet in hand.
<1>11. CASE DispatchState
  <2>1. PICK p \in pkt : /\ SetState(p.src, p)
                         /\ \/ pc' = "flush" /\ UNCHANGED pkt
                            \/ pc' = "tidy"
    BY <1>11 DEF DispatchState
  <2>2. /\ \A c \in Clients : StateInv(c)' /\ ShownInv(c)'
        /\ hidState'[p.src].main # NoInput /\ hidState'[p.src].main.tick >= p.tick
    BY <1>0, <2>1, SetStatePads
  <2>3. PushInv'
    BY <2>1, <2>2 DEF PushInv, ServiceInv, PacketInv
  <2>4. \A h \in Handles : Consistent(shown[h])'
    BY <2>1 DEF PadInv, SetState, Consistent
  <2> QED
    BY <2>2, <2>3, <2>4 DEF PadInv
<1>12. CASE FlushQuery
  <2>1. PICK p \in pkt : QuerySaysAttached(p.src) \/ QuerySaysGone(p.src)
    BY <1>12 DEF FlushQuery
  <2>2. PushInv'
    BY <1>12
       DEF PadInv, FlushQuery, QuerySaysAttached, QuerySaysGone, PushInv
  <2>3. CASE QuerySaysAttached(p.src)
    BY <2>2, <2>3, BlankPads DEF QuerySaysAttached, PadOf
  <2>4. CASE QuerySaysGone(p.src)
    <3>1. {p.src} \in SUBSET controllers
      BY <1>12 DEF FlushQuery, ServiceInv, PacketInv, Handling
    <3> QED
      BY <2>2, <2>4, <3>1, DisconnectPads, BlankPads DEF QuerySaysGone
  <2> QED
    BY <2>1, <2>3, <2>4
<1>13. CASE FlushReconnect
  <2>1. PICK p \in pkt : \/ ConnectOk(p.src) /\ UNCHANGED pkt
                         \/ ConnectFails(p.src) /\ pkt' = {}
    BY <1>13 DEF FlushReconnect
  <2>2. p.src \in Clients /\ ~Connected(p.src)
    BY <1>0, <1>13 DEF FlushReconnect, ServiceInv, PacketInv
  <2>3. PushInv'
    BY <1>13 DEF PadInv, FlushReconnect, PushInv
  <2>4. CASE ConnectOk(p.src)
    BY <1>13, <2>2, <2>3, <2>4, ConnectPads, BlankPads DEF FlushReconnect
  <2>5. CASE ConnectFails(p.src)
    <3>1. hdlsHandle' = hdlsHandle
      BY <2>2, <2>5 DEF ConnectFails, Connected, ServiceInv, TypeOK, VCTypeOK
    <3> QED
      BY <1>13, <2>3, <2>5, <3>1, BlankPads DEF FlushReconnect, ConnectFails, PadOf
  <2> QED
    BY <2>1, <2>4, <2>5
<1>14. CASE FlushPush
  <2>1. PICK p \in pkt : PushOk(p.src) \/ PushFails(p.src)
    BY <1>14 DEF FlushPush
  <2>2. PushInv'
    BY <1>14 DEF FlushPush, PushInv
  <2>3. CASE PushOk(p.src)
    <3>1. /\ \A d \in Clients : PadOf(d)' = IF d = p.src THEN hidState[p.src] ELSE PadOf(d)
          /\ \A h \in Handles : shown'[h] \in {shown[h], hidState[p.src]}
      BY <1>0, <2>3, PushPads
    <3>2. \A c \in Clients : StateInv(c)' /\ ShownInv(c)'
      BY <2>3, <3>1 DEF PadInv, PushOk, StateInv, ShownInv
    <3>3. \A h \in Handles : Consistent(shown[h])'
      BY <1>0, <3>1 DEF PadInv, StateInv, Consistent
    <3> QED
      BY <2>2, <3>2, <3>3 DEF PadInv
  <2>4. CASE PushFails(p.src)
    BY <2>2, <2>4, BlankPads DEF PushFails, PadOf
  <2> QED
    BY <2>1, <2>3, <2>4
<1> QED
  BY <1>1, <1>2, <1>3, <1>4, <1>5, <1>6, <1>7, <1>8, <1>9, <1>10, <1>11, <1>12, <1>13, <1>14
     DEF Next, ServiceThread, Environment

\* The inductive invariant of the pads.
THEOREM PadInvariant == Spec => [](ServiceInv /\ PadInv)
<1>1. Init => PadInv
  BY InitPadInv
<1>2. ServiceInv /\ PadInv /\ [Next]_vars => PadInv'
  BY NextPadInv
<1> QED
  BY <1>1, <1>2, ServiceInvariant, PTL DEF Spec

\* A pad never reports a sensor vector that came with other buttons.
THEOREM SensorsAreCurrent == Spec => []SensorsMatchInput
<1>1. ServiceInv /\ PadInv => SensorsMatchInput
  BY AttachedHandles DEF PadInv, SensorsMatchInput
<1> QED
  BY <1>1, PadInvariant, PTL

\* FlushState returns success for a packet either after it has pushed its input
\* or a newer one to its client's pad, or at once for want of a handle.
LEMMA FlushedPackets ==
  ASSUME ServiceInv, PadInv, [Next]_vars, NEW p \in pkt, Flushes(p)
  PROVE  ShowsPacket(p)' \/ Stranded(p.src)
<1>1. p.src \in Clients /\ p.src \in controllers /\ \A q \in pkt : q = p
  BY DEF ServiceInv, TypeOK, Packets, PacketInv, Handling, Flushes
<1>2. FlushPush \/ DispatchState
  BY <1>1
  DEF Flushes, Next, vars, thread, ownerVars, netVars, ServiceThread, Environment,
      Start, Stop, StopReturns, WakeUp, Initialize, InitializeFails, LoopHead, ReceiveFrom,
      ReceiveFails, LookupKnown, LookupNew, LookupAborts, Abort, DispatchExit,
      FlushQuery, FlushReconnect, HandleError, Tidy, FinalCleanup, Exit, SendState, SendExit,
      ClientCrashes, ClientRestarts, SendNoise, Duplicate, SocketBreaks, ClockTicks,
      ConsoleDetaches
<1>3. CASE FlushPush
  <2>1. pc = "push" /\ PushOk(p.src) /\ controllers' = controllers
    BY <1>1, <1>3 DEF FlushPush, Flushes
  <2>2. /\ hdlsHandle'[p.src] \in attached'
        /\ shown'[hdlsHandle'[p.src]] = hidState[p.src]
    BY <2>1 DEF PushOk, ServiceInv, TypeOK, VCTypeOK
  <2>3. /\ hidState[p.src].main # NoInput /\ hidState[p.src].main.tick >= p.tick
        /\ hidState[p.src].main.src = p.src
    BY <1>1, <2>1 DEF PadInv, PushInv, StateInv, InputOfClient
  <2> QED
    BY <1>1, <2>1, <2>2, <2>3 DEF ShowsPacket
<1>4. CASE DispatchState
  <2>1. pc = "dispatch" /\ ~Connected(p.src)
    BY <1>1, <1>4 DEF DispatchState, Flushes
  <2> QED
    BY <1>1, <2>1 DEF Stranded
<1> QED
  BY <1>2, <1>3, <1>4

\* A controller loses its handle for good only when its reconnection fails.
LEMMA OnlyReconnectionsStrand ==
  ASSUME ServiceInv, [Next]_vars, NEW c \in Clients, Stranded(c)', ~Stranded(c)
  PROVE  pc = "reconnect" /\ pc' = "error" /\ ConnectMayFail
<1> USE DEF vcVars, thread, ownerVars, netVars
<1>0. c \in controllers' /\ hdlsHandle'[c] = NoHandle
  BY DEF Stranded, Connected
<1>a. ASSUME UNCHANGED <<hdlsHandle, controllers>>, pc # "reconnect" \/ UNCHANGED <<pc, pkt>>
      PROVE  FALSE
  BY <1>a DEF Stranded, Connected
\* Steps that leave controllers and handles alone.
<1>1. ~(Start \/ Stop \/ StopReturns \/ WakeUp \/ Initialize \/ InitializeFails \/ LoopHead)
  BY <1>a DEF Start, Stop, StopReturns, WakeUp, Initialize, InitializeFails, Abort, LoopHead,
              ServiceInv, SessionInv
<1>2. ~(ReceiveFails \/ LookupKnown \/ LookupAborts \/ DispatchState \/ FlushPush)
  BY <1>a DEF ReceiveFails, LookupKnown, LookupAborts, Abort, DispatchState, SetState, FlushPush,
              PushOk, PushFails
<1>3. ~(HandleError \/ Exit \/ \E d \in Clients : ReceiveFrom(d))
  BY <1>a DEF HandleError, Exit, ReceiveFrom
<1>4. ~(\E d \in Clients : SendState(d) \/ SendExit(d) \/ ClientCrashes(d) \/ ClientRestarts(d)
                           \/ SendNoise(d))
  BY <1>a DEF SendState, SendExit, ClientCrashes, ClientRestarts, SendNoise
<1>5. ~(Duplicate \/ SocketBreaks \/ ClockTicks \/ ConsoleDetaches \/ UNCHANGED vars)
  BY <1>a DEF Duplicate, SocketBreaks, ClockTicks, ConsoleDetaches, ExternalDetach, vars
\* Steps that create, delete or reconnect controllers.
<1>6. ~LookupNew
  <2> SUFFICES ASSUME LookupNew PROVE FALSE
    OBVIOUS
  <2>1. PICK p \in pkt : ConnectOk(p.src) /\ controllers' = controllers \cup {p.src}
    BY DEF LookupNew
  <2>2. PICK h \in Handles : hdlsHandle' = [hdlsHandle EXCEPT ![p.src] = h]
    BY <2>1 DEF ConnectOk, FreshHandles
  <2>3. c # p.src
    BY <1>0, <2>2, HandleAssumption DEF ServiceInv, TypeOK, VCTypeOK
  <2>4. c \in controllers /\ hdlsHandle[c] = NoHandle /\ pc = "lookup"
    BY <1>0, <2>1, <2>2, <2>3 DEF LookupNew, ServiceInv, TypeOK, VCTypeOK
  <2> QED
    BY <2>4 DEF Stranded, Connected
<1>7. ASSUME NEW S, Delete(S), controllers' = controllers \ S, pc # "reconnect" PROVE FALSE
  BY <1>0, <1>7 DEF Delete, Disconnect, Stranded, Connected
<1>8. ~(DispatchExit \/ Tidy \/ FinalCleanup)
  BY <1>7, <1>a DEF DispatchExit, Tidy, FinalCleanup, Cleanup
<1>9. ~FlushQuery
  <2> SUFFICES ASSUME FlushQuery PROVE FALSE
    OBVIOUS
  <2>1. PICK p \in pkt : \/ QuerySaysAttached(p.src)
                         \/ QuerySaysGone(p.src) /\ pc' = "reconnect"
    BY DEF FlushQuery
  <2>2. CASE QuerySaysAttached(p.src)
    BY <1>a, <2>2 DEF FlushQuery, QuerySaysAttached
  <2>3. CASE QuerySaysGone(p.src) /\ pc' = "reconnect"
    <3>1. c # p.src
      BY <2>3 DEF FlushQuery, Stranded
    <3>2. c \in controllers /\ hdlsHandle[c] = NoHandle /\ pc = "flush"
      BY <1>0, <2>3, <3>1 DEF FlushQuery, QuerySaysGone, Disconnect
    <3> QED
      BY <3>2 DEF Stranded, Connected
  <2> QED
    BY <2>1, <2>2, <2>3
<1>10. CASE FlushReconnect
  <2>1. PICK p \in pkt : \/ ConnectOk(p.src) /\ pc' = "push" /\ UNCHANGED pkt
                         \/ ConnectFails(p.src) /\ pc' = "error"
    BY <1>10 DEF FlushReconnect
  <2>2. pc = "reconnect" /\ p.src \in Clients /\ \A q \in pkt : q = p
    BY <1>10 DEF FlushReconnect, ServiceInv, TypeOK, Packets, PacketInv
  <2>3. CASE ConnectOk(p.src)
    <3>1. PICK h \in Handles : hdlsHandle' = [hdlsHandle EXCEPT ![p.src] = h]
      BY <2>3 DEF ConnectOk, FreshHandles
    <3>2. c # p.src
      BY <1>0, <2>2, <3>1, HandleAssumption DEF ServiceInv, TypeOK, VCTypeOK
    <3>3. c \in controllers /\ hdlsHandle[c] = NoHandle
      BY <1>0, <1>10, <3>1, <3>2 DEF FlushReconnect, ServiceInv, TypeOK, VCTypeOK
    <3> QED
      BY <2>2, <3>2, <3>3 DEF Stranded, Connected
  <2>4. CASE ConnectFails(p.src) /\ pc' = "error"
    BY <2>2, <2>4 DEF ConnectFails
  <2> QED
    BY <2>1, <2>3, <2>4
<1> QED
  BY <1>1, <1>2, <1>3, <1>4, <1>5, <1>6, <1>8, <1>9, <1>10 DEF Next, ServiceThread, Environment

\* A packet that FlushState reports as flushed is on its client's pad, which
\* shows it or a newer input, unless an earlier reconnection has failed.
THEOREM FlushedIsShown == Spec => HandledMeansShown
<1> DEFINE Shown == /\ \A p \in pkt : Flushes(p) => ShowsPacket(p)' \/ Stranded(p.src)
                    /\ \A c \in Clients : Stranded(c)' /\ ~Stranded(c) =>
                         pc = "reconnect" /\ pc' = "error" /\ ConnectMayFail
<1>1. ServiceInv /\ PadInv /\ [Next]_vars => [Shown]_vars
  BY FlushedPackets, OnlyReconnectionsStrand
<1>2. Spec => [][Shown]_vars
  BY <1>1, PadInvariant, PTL DEF Spec
<1> QED
  BY <1>2 DEF HandledMeansShown

--------------------------------------------------------------------------------
\* The board's pads, with what the service gives for its constants.
BoardPads == [c \in Clients |-> PadOf(c)]

\* Every step of the service is a step of the board or leaves it alone.
LEMMA BoardStep ==
  ASSUME ServiceInv, PadInv, [Next]_vars
  PROVE  Board!BoardNext \/ UNCHANGED BoardPads
<1> USE DEF vcVars, thread, ownerVars, netVars
<1>0. \A p \in pkt : p \in Packets /\ p.src \in Clients
  BY DEF ServiceInv, TypeOK, Packets
<1>a. ASSUME UNCHANGED <<hdlsHandle, attached, shown>> PROVE UNCHANGED BoardPads
  BY <1>a DEF BoardPads, PadOf
<1>b. ASSUME NEW S \in SUBSET controllers,
             \A c \in Clients : PadOf(c)' = IF c \in S THEN NoHandle ELSE PadOf(c)
      PROVE  Board!BoardNext
  <2>1. Board!Vanish(S)
    BY <1>b DEF Board!Vanish
  <2> QED
    BY <2>1 DEF Board!BoardNext, ServiceInv, TypeOK
<1>c. ASSUME NEW c \in Clients, ~Connected(c), ConnectOk(c) PROVE Board!BoardNext
  <2>1. Board!Appear(c)
    BY <1>c, ConnectPads DEF Board!Appear
  <2> QED
    BY <2>1 DEF Board!BoardNext
\* Steps that leave the devices alone.
<1>1. CASE Start \/ Stop \/ StopReturns
  BY <1>1, <1>a DEF Start, Stop, StopReturns
<1>2. CASE WakeUp \/ Initialize \/ LoopHead \/ ReceiveFails \/ LookupKnown \/ HandleError \/ Exit
  BY <1>2, <1>a DEF WakeUp, Initialize, LoopHead, ReceiveFails, LookupKnown, HandleError, Exit
<1>3. CASE InitializeFails \/ LookupAborts
  BY <1>3, <1>a DEF InitializeFails, LookupAborts, Abort
<1>4. ASSUME NEW c \in Clients, ReceiveFrom(c) PROVE UNCHANGED BoardPads
  BY <1>4, <1>a DEF ReceiveFrom
<1>5. ASSUME NEW c \in Clients,
             SendState(c) \/ SendExit(c) \/ ClientCrashes(c) \/ ClientRestarts(c) \/ SendNoise(c)
      PROVE  UNCHANGED BoardPads
  BY <1>5, <1>a DEF SendState, SendExit, ClientCrashes, ClientRestarts, SendNoise
<1>6. CASE Duplicate \/ SocketBreaks \/ ClockTicks \/ UNCHANGED vars
  BY <1>6, <1>a DEF Duplicate, SocketBreaks, ClockTicks, vars
<1>7. CASE DispatchState
  BY <1>7, <1>a DEF DispatchState, SetState
\* Steps by which pads appear and vanish.
<1>8. CASE LookupNew
  <2>1. PICK p \in pkt : p.src \notin controllers /\ ConnectOk(p.src)
    BY <1>8 DEF LookupNew
  <2> QED
    BY <1>0, <1>c, <2>1 DEF ServiceInv, PacketInv
<1>9. CASE DispatchExit
  <2>1. PICK p \in pkt : Delete({p.src})
    BY <1>9 DEF DispatchExit
  <2>2. {p.src} \in SUBSET controllers
    BY <1>9 DEF DispatchExit, ServiceInv, PacketInv, Handling
  <2> QED
    BY <1>b, <2>1, <2>2, DisconnectPads DEF Delete
<1>10. CASE Tidy \/ FinalCleanup
  <2>1. CASE UNCHANGED vcVars
    BY <1>a, <2>1
  <2>2. ASSUME NEW f \in BOOLEAN, Cleanup(f) PROVE Board!BoardNext
    BY <1>b, <2>2, DisconnectPads DEF Cleanup, CleanupVictims, Delete
  <2> QED
    BY <1>10, <2>1, <2>2 DEF Tidy, FinalCleanup
<1>11. CASE ConsoleDetaches
  <2> DEFINE gone == {c \in Clients : PadOf(c)' = NoHandle}
  <2>1. \A c \in Clients : PadOf(c)' = IF c \in gone THEN NoHandle ELSE PadOf(c)
    BY <1>11, DetachedPads DEF ConsoleDetaches
  <2>2. Board!Vanish(gone)
    BY <2>1 DEF Board!Vanish
  <2> QED
    BY <2>2 DEF Board!BoardNext
\* Steps of the packet in hand.
<1>12. CASE FlushQuery
  <2>1. PICK p \in pkt : QuerySaysAttached(p.src) \/ QuerySaysGone(p.src)
    BY <1>12 DEF FlushQuery
  <2>2. {p.src} \in SUBSET controllers
    BY <1>12 DEF FlushQuery, ServiceInv, PacketInv, Handling
  <2> QED
    BY <1>a, <1>b, <2>1, <2>2, DisconnectPads DEF QuerySaysAttached, QuerySaysGone
<1>13. CASE FlushReconnect
  <2>1. PICK p \in pkt : ConnectOk(p.src) \/ ConnectFails(p.src)
    BY <1>13 DEF FlushReconnect
  <2>2. p.src \in Clients /\ ~Connected(p.src)
    BY <1>0, <1>13 DEF FlushReconnect, ServiceInv, PacketInv
  <2>3. ConnectFails(p.src) => UNCHANGED <<hdlsHandle, attached, shown>>
    BY <2>2 DEF ConnectFails, Connected, ServiceInv, TypeOK, VCTypeOK
  <2> QED
    BY <1>a, <1>c, <2>1, <2>2, <2>3
<1>14. CASE FlushPush
  <2>1. PICK p \in pkt : PushOk(p.src) \/ PushFails(p.src)
    BY <1>14 DEF FlushPush
  <2>2. CASE PushOk(p.src)
    <3>1. /\ PadOf(p.src) # NoHandle
          /\ \A d \in Clients : PadOf(d)' = IF d = p.src THEN hidState[p.src] ELSE PadOf(d)
      BY <1>0, <2>2, PushPads
    <3>2. hidState[p.src] \in HidStates
      BY <1>0 DEF ServiceInv, TypeOK, VCTypeOK
    <3>3. Board!Follows(p.src, hidState[p.src], PadOf(p.src))
      <4>1. /\ hidState[p.src].main # NoInput
            /\ hidState[p.src].main.src = p.src
            /\ hidState[p.src].main.tick = clientTick[p.src]
        BY <1>0, <1>14 DEF FlushPush, PadInv, PushInv, StateInv, InputOfClient
      <4>2. PadOf(p.src).main # NoInput => PadOf(p.src).main.tick <= clientTick[p.src]
        BY <1>0, <3>1 DEF PadInv, ShownInv, InputOfClient
      <4>3. PadOf(p.src).main # NoInput => PadOf(p.src).main.tick \in Ticks
        BY <1>0, <3>1, PadTypes DEF HidStates, Inputs
      <4> QED
        BY <1>0, <4>1, <4>2, <4>3 DEF Board!Follows, Ticks, ServiceInv, TypeOK, VCTypeOK
    <3>4. Board!Show(p.src)
      BY <1>0, <3>1, <3>2, <3>3 DEF Board!Show
    <3> QED
      BY <1>0, <3>4 DEF Board!BoardNext
  <2>3. CASE PushFails(p.src)
    BY <1>a, <2>3 DEF PushFails
  <2> QED
    BY <2>1, <2>2, <2>3
<1> QED
  BY <1>1, <1>2, <1>3, <1>4, <1>5, <1>6, <1>7, <1>8, <1>9, <1>10, <1>11, <1>12, <1>13, <1>14
     DEF Next, ServiceThread, Environment

\* The service implements the board of pads.
THEOREM ServiceImplementsBoard == Spec => BoardSpec
<1>1. Init => Board!BoardInit
  BY HandleAssumption DEF Init, VCInit, Board!BoardInit, PadOf
<1>2. ServiceInv /\ PadInv /\ [Next]_vars => [Board!BoardNext]_BoardPads
  BY BoardStep
<1> QED
  BY <1>1, <1>2, PadInvariant, PTL DEF Spec, BoardSpec, Board!BoardSpec, BoardPads

--------------------------------------------------------------------------------
\* While no device was left behind and hid has a handle for every client, it
\* has one for a client without.
LEMMA HandleToConnect ==
  ASSUME ServiceInv, leaked = {}, NEW c \in Clients, ~Connected(c),
         Cardinality(Handles) >= Cardinality(Clients)
  PROVE  FreshHandles # {}
<1> SUFFICES ASSUME FreshHandles = {} PROVE FALSE
  OBVIOUS
<1> DEFINE connected == controllers \ {c}
           Owner(h) == CHOOSE d \in connected : hdlsHandle[d] = h
           owner_of == [h \in Handles |-> Owner(h)]
<1>1. \A h \in Handles : \E d \in connected : hdlsHandle[d] = h
  <2> SUFFICES ASSUME NEW h \in Handles PROVE \E d \in connected : hdlsHandle[d] = h
    OBVIOUS
  <2>1. PICK d \in controllers : hdlsHandle[d] = h
    <3>1. CASE h \in attached
      BY <3>1 DEF ServiceInv, DeviceInv, NoOrphanDevice, OwnedHandles
    <3>2. CASE h \notin attached
      <4>1. PICK d \in Clients : hdlsHandle[d] = h
        BY <3>2 DEF FreshHandles
      <4> QED
        BY <4>1, HandleAssumption DEF ServiceInv, PacketInv, Connected
    <3> QED
      BY <3>1, <3>2
  <2>2. d # c
    BY <2>1, HandleAssumption DEF Connected
  <2> QED
    BY <2>1, <2>2
<1>2. \A h \in Handles : Owner(h) \in connected /\ hdlsHandle[Owner(h)] = h
  BY <1>1
<1>3. owner_of \in Injection(Handles, connected)
  BY <1>2 DEF Injection, IsInjective
<1>4. connected \in SUBSET Clients
  BY DEF ServiceInv, TypeOK
<1>5. IsFiniteSet(connected) /\ Cardinality(connected) <= Cardinality(Clients)
  BY <1>4, FS_Subset, FiniteAssumption
<1>6. Cardinality(Handles) <= Cardinality(connected)
  BY <1>3, <1>5, FS_Injection
<1>7. Cardinality(Clients) = Cardinality(connected)
  BY <1>5, <1>6, FS_CardinalityType, FiniteAssumption
<1> QED
  BY <1>4, <1>7, FS_Subset, FiniteAssumption

\* While hid detaches what it is asked to, no step leaves a device behind.
LEMMA NextAbortInv == AbortInv /\ [Next]_vars => AbortInv'
  BY DEF AbortInv, Next, vars, vcVars, thread, ownerVars, netVars, ServiceThread, Environment,
         Start, Stop, StopReturns, WakeUp, Initialize, InitializeFails, LoopHead, ReceiveFrom,
         ReceiveFails, LookupKnown, LookupNew, LookupAborts, Abort, DispatchExit, DispatchState,
         FlushQuery, FlushReconnect, FlushPush, HandleError, Tidy, FinalCleanup, Exit, Cleanup,
         SendState, SendExit, ClientCrashes, ClientRestarts, SendNoise, Duplicate, SocketBreaks,
         ClockTicks, ConsoleDetaches, Delete, Disconnect, DetachAll, SetState, ExternalDetach,
         QuerySaysAttached, QuerySaysGone, PushOk, PushFails

\* Whenever a device is about to be asked for, hid has a handle for it.
LEMMA RoomToConnect == ServiceInv /\ AbortInv /\ HidHasRoom /\ Connecting => FreshHandles # {}
<1> SUFFICES ASSUME ServiceInv, AbortInv, HidHasRoom, Connecting PROVE FreshHandles # {}
  OBVIOUS
<1>1. leaked = {} /\ Cardinality(Handles) >= Cardinality(Clients)
  BY DEF AbortInv, HidHasRoom
<1>2. PICK p \in pkt : \/ pc = "lookup" /\ p.src \notin controllers
                    \/ pc = "reconnect"
  BY DEF Connecting
<1>3. p.src \in Clients /\ ~Connected(p.src)
  BY <1>2 DEF ServiceInv, TypeOK, Packets, PacketInv
<1> QED
  BY <1>1, <1>3, HandleToConnect

\* While hid has room it has a handle whenever one is asked for, and the
\* process aborts only where hid itself fails.
THEOREM AbortsOnlyForHid == Spec => []NoNeedlessAbort
<1> DEFINE NotAborted == HidHasRoom /\ MayFail \cap {"init", "attach"} = {} => pc # "aborted"
<1>1. Init => AbortInv /\ NotAborted
  BY DEF Init, VCInit, AbortInv
<1>2. ServiceInv /\ AbortInv /\ NotAborted /\ [Next]_vars => AbortInv' /\ NotAborted'
  <2> SUFFICES ASSUME ServiceInv, AbortInv, NotAborted, [Next]_vars,
                      HidHasRoom, MayFail \cap {"init", "attach"} = {}
               PROVE  pc' # "aborted"
    BY NextAbortInv DEF HidHasRoom
  <2>1. ~InitializeFails
    BY DEF InitializeFails
  <2>2. ~LookupAborts
    BY RoomToConnect DEF LookupAborts, ConnectMayFail, Connecting
  <2> QED
    BY <2>1, <2>2
    DEF Next, vars, thread, ownerVars, netVars, ServiceThread, Environment,
        Start, Stop, StopReturns, WakeUp, Initialize, LoopHead, ReceiveFrom, ReceiveFails,
        LookupKnown, LookupNew, DispatchExit, DispatchState, FlushQuery, FlushReconnect, FlushPush,
        HandleError, Tidy, FinalCleanup, Exit, SendState, SendExit, ClientCrashes, ClientRestarts,
        SendNoise, Duplicate, SocketBreaks, ClockTicks, ConsoleDetaches
<1>3. ServiceInv /\ AbortInv /\ NotAborted => NoNeedlessAbort
  BY RoomToConnect DEF NoNeedlessAbort
<1> QED
  BY <1>1, <1>2, <1>3, ServiceInvariant, PTL DEF Spec
================================================================================
