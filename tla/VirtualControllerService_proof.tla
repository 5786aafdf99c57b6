-------------------- MODULE VirtualControllerService_proof --------------------
(***************************************************************************)
(* Safety of the virtual controller service, for all clients, handles,      *)
(* limits and failures.                                                     *)
(***************************************************************************)
EXTENDS VirtualControllerService, FiniteSetTheorems, TLAPS

--------------------------------------------------------------------------------
\* The input a packet carries is an input.
LEMMA InputOfType ==
  ASSUME NEW p \in Packets
  PROVE  InputOf(p) \in Inputs
  BY DEF Packets, InputOf, Inputs, Ticks

\* What SetState stores is a hid state.
LEMMA MergeType ==
  ASSUME NEW p \in Packets, NEW old \in HidStates
  PROVE  Merge(old, p) \in HidStates
  BY InputOfType DEF Packets, Merge, HidStates, Sensors

\* The state of a new pad is a hid state.
LEMMA BlankType == Blank \in HidStates
  BY DEF Blank, HidStates

\* Ages stay below their bound.
LEMMA OlderIdleType ==
  ASSUME NEW a \in 0 .. InactiveLimit + 1
  PROVE  OlderIdle(a) \in 0 .. InactiveLimit + 1
  BY BoundAssumption DEF OlderIdle

--------------------------------------------------------------------------------
\* Disconnecting the controllers of S keeps the types of what it changes.
LEMMA DisconnectType ==
  ASSUME VCTypeOK, NEW S \in SUBSET Clients, Disconnect(S)
  PROVE  /\ hdlsHandle' \in [Clients -> Handles \cup {NoHandle}]
         /\ attached' \subseteq Handles
         /\ shown' \in [Handles -> HidStates]
         /\ leaked' \subseteq Handles
  BY BlankType DEF VCTypeOK, Disconnect, DetachAll

\* Deleting controllers keeps the types.
LEMMA DeleteType ==
  ASSUME VCTypeOK, NEW S \in SUBSET Clients, Delete(S)
  PROVE  VCTypeOK'
<1>1. Disconnect(S)
  BY DEF Delete
<1>2. /\ hidState' \in [Clients -> HidStates]
      /\ clientTick' \in [Clients -> Ticks]
      /\ idle' \in [Clients -> 0 .. InactiveLimit + 1]
  BY BlankType, BoundAssumption DEF Delete, VCTypeOK, Ticks
<1> QED
  BY <1>1, <1>2, DisconnectType DEF VCTypeOK

\* Attaching a device keeps the types of what it changes.
LEMMA ConnectType ==
  ASSUME VCTypeOK, NEW c \in Clients, ConnectOk(c)
  PROVE  /\ hdlsHandle' \in [Clients -> Handles \cup {NoHandle}]
         /\ attached' \subseteq Handles
         /\ shown' \in [Handles -> HidStates]
  BY BlankType DEF VCTypeOK, ConnectOk, FreshHandles

\* Storing an input keeps the types.
LEMMA SetStateType ==
  ASSUME VCTypeOK, NEW c \in Clients, NEW p \in Packets, SetState(c, p)
  PROVE  VCTypeOK'
<1>1. CASE Outdated(c, p)
  BY <1>1 DEF SetState, VCTypeOK
<1>2. CASE ~Outdated(c, p)
  <2>1. idle' \in [Clients -> 0 .. InactiveLimit + 1]
    BY <1>2, BoundAssumption DEF SetState, VCTypeOK
  <2>2. clientTick' \in [Clients -> Ticks]
    BY <1>2 DEF SetState, VCTypeOK, Packets
  <2>3. hidState' \in [Clients -> HidStates]
    BY <1>2, MergeType DEF SetState, VCTypeOK
  <2> QED
    BY <2>1, <2>2, <2>3 DEF SetState, VCTypeOK
<1> QED
  BY <1>1, <1>2

\* Cleanup keeps the types.
LEMMA CleanupType ==
  ASSUME TypeOK, NEW f \in BOOLEAN, Cleanup(f)
  PROVE  VCTypeOK' /\ controllers' \subseteq Clients
  BY DeleteType DEF TypeOK, Cleanup, CleanupVictims

\* A packet made by a client is a packet.
LEMMA PacketOfType ==
  ASSUME TypeOK, NEW c \in Clients, NEW kind \in {"state", "exit", "short", "foreign"},
         NEW tick \in Ticks, NEW attributes \in SUBSET AttributeBits
  PROVE  PacketOf(c, kind, tick, attributes) \in Packets
  BY DEF TypeOK, PacketOf, Packets

--------------------------------------------------------------------------------
\* The values at first have their types.
LEMMA InitTypeOK == Init => TypeOK
<1> SUFFICES ASSUME Init PROVE TypeOK
  OBVIOUS
<1>1. VCTypeOK
  BY BlankType, BoundAssumption DEF Init, VCInit, VCTypeOK, Ticks
<1>2. client \in [Clients -> [epoch : 1 .. MaxEpoch, tick : Ticks, live : BOOLEAN]]
  BY BoundAssumption DEF Init, Ticks
<1>3. errorCount \in 0 .. MaxErrors - 1 /\ sinceCleanup \in 0 .. CleanupPeriod + 1
  BY LimitAssumption DEF Init
<1> QED
  BY <1>1, <1>2, <1>3 DEF Init, TypeOK, Points

\* The values of the other variables of the service thread and its owner.
LEMMA NextTypeOK == TypeOK /\ [Next]_vars => TypeOK'
<1> SUFFICES ASSUME TypeOK, [Next]_vars PROVE TypeOK'
  OBVIOUS
<1> USE DEF vcVars, thread, ownerVars, netVars
<1>0. ASSUME UNCHANGED vcVars PROVE VCTypeOK'
  BY <1>0 DEF TypeOK, VCTypeOK
<1>1. CASE Start
  BY <1>1, <1>0 DEF Start, TypeOK, Points
<1>2. CASE Stop \/ StopReturns
  BY <1>2, <1>0 DEF Stop, StopReturns, TypeOK
<1>3. CASE WakeUp \/ LoopHead \/ ReceiveFails \/ LookupKnown
  BY <1>3, <1>0 DEF WakeUp, LoopHead, ReceiveFails, LookupKnown, TypeOK, Points
<1>4. CASE Initialize \/ InitializeFails \/ LookupAborts
  <2>1. CASE Initialize
    <3>1. sock' \in {"none", "unbound", "bound", "broken"}
      BY <2>1 DEF Initialize, BindServer, BindOutcomes
    <3>2. errorCount' \in 0 .. MaxErrors - 1 /\ sinceCleanup' \in 0 .. CleanupPeriod + 1
      BY <2>1, LimitAssumption DEF Initialize
    <3> QED
      BY <2>1, <1>0, <3>1, <3>2 DEF Initialize, TypeOK, Points
  <2>2. CASE Abort
    BY <2>2, <1>0 DEF Abort, TypeOK, Points
  <2> QED
    BY <1>4, <2>1, <2>2 DEF InitializeFails, LookupAborts
<1>5. ASSUME NEW c \in Clients, ReceiveFrom(c) PROVE TypeOK'
  BY <1>5, <1>0 DEF ReceiveFrom, TypeOK, Points
<1>6. CASE LookupNew
  <2>1. PICK p \in pkt : ConnectOk(p.src) /\ controllers' = controllers \cup {p.src}
    BY <1>6 DEF LookupNew
  <2>2. p.src \in Clients
    BY DEF TypeOK, Packets
  <2>3. VCTypeOK'
    BY <1>6, <2>1, <2>2, ConnectType DEF LookupNew, TypeOK, VCTypeOK
  <2> QED
    BY <1>6, <2>1, <2>2, <2>3 DEF LookupNew, TypeOK, Points
<1>7. CASE DispatchExit
  <2>1. PICK p \in pkt : Delete({p.src}) /\ controllers' = controllers \ {p.src}
    BY <1>7 DEF DispatchExit
  <2>2. p.src \in Clients
    BY DEF TypeOK, Packets
  <2>3. VCTypeOK'
    BY <2>1, <2>2, DeleteType DEF TypeOK
  <2> QED
    BY <1>7, <2>1, <2>3 DEF DispatchExit, TypeOK, Points
<1>8. CASE DispatchState
  <2>1. PICK p \in pkt : SetState(p.src, p)
    BY <1>8 DEF DispatchState
  <2>2. p \in Packets /\ p.src \in Clients
    BY DEF TypeOK, Packets
  <2>3. VCTypeOK'
    BY <2>1, <2>2, SetStateType DEF TypeOK
  <2> QED
    BY <1>8, <2>3 DEF DispatchState, TypeOK, Points
<1>9. CASE FlushQuery
  <2>1. PICK p \in pkt : \/ QuerySaysAttached(p.src) /\ pc' = "push"
                         \/ QuerySaysGone(p.src) /\ pc' = "reconnect"
    BY <1>9 DEF FlushQuery
  <2>2. p.src \in Clients
    BY DEF TypeOK, Packets
  <2>3. VCTypeOK'
    BY <1>0, <2>1, <2>2, DisconnectType DEF QuerySaysAttached, QuerySaysGone, TypeOK, VCTypeOK
  <2> QED
    BY <1>9, <2>1, <2>3 DEF FlushQuery, TypeOK, Points
<1>10. CASE FlushReconnect
  <2>1. PICK p \in pkt : \/ ConnectOk(p.src) /\ pc' = "push" /\ UNCHANGED pkt
                         \/ ConnectFails(p.src) /\ pc' = "error" /\ pkt' = {}
    BY <1>10 DEF FlushReconnect
  <2>2. p.src \in Clients
    BY DEF TypeOK, Packets
  <2>3. VCTypeOK'
    BY <1>10, <2>1, <2>2, ConnectType DEF FlushReconnect, ConnectFails, TypeOK, VCTypeOK
  <2> QED
    BY <1>10, <2>1, <2>3 DEF FlushReconnect, TypeOK, Points
<1>11. CASE FlushPush
  <2>1. PICK p \in pkt : \/ PushOk(p.src) /\ pc' = "tidy"
                         \/ PushFails(p.src) /\ pc' = "error"
    BY <1>11 DEF FlushPush
  <2>2. p.src \in Clients
    BY DEF TypeOK, Packets
  <2>3. VCTypeOK'
    BY <1>0, <2>1, <2>2 DEF PushOk, PushFails, TypeOK, VCTypeOK
  <2> QED
    BY <1>11, <2>1, <2>3 DEF FlushPush, TypeOK, Points
<1>12. CASE HandleError
  BY <1>12, <1>0, LimitAssumption
     DEF HandleError, ReplacesSocket, BindServer, BindOutcomes, TypeOK, Points
<1>13. CASE Tidy
  <2>1. VCTypeOK' /\ controllers' \subseteq Clients /\ sinceCleanup' \in 0 .. CleanupPeriod + 1
    <3>1. CASE sinceCleanup > CleanupPeriod
      <4>1. Cleanup(FALSE) /\ sinceCleanup' = 0
        BY <1>13, <3>1 DEF Tidy
      <4>2. VCTypeOK' /\ controllers' \subseteq Clients
        BY <4>1, CleanupType
      <4> QED
        BY <4>1, <4>2, LimitAssumption
    <3>2. CASE ~(sinceCleanup > CleanupPeriod)
      BY <1>13, <3>2, <1>0 DEF Tidy, TypeOK
    <3> QED
      BY <3>1, <3>2
  <2> QED
    BY <1>13, <2>1 DEF Tidy, TypeOK, Points
<1>14. CASE FinalCleanup
  BY <1>14, CleanupType DEF FinalCleanup, TypeOK, Points
<1>15. CASE Exit
  BY <1>15, <1>0 DEF Exit, CloseServer, TypeOK, Points
<1>16. ASSUME NEW c \in Clients, SendState(c) PROVE TypeOK'
  <2>1. PICK tick \in Ticks, attributes \in Attributes :
          /\ Transmit(PacketOf(c, "state", tick, attributes))
          /\ client' = [client EXCEPT ![c].tick = tick]
    BY <1>16 DEF SendState
  <2>2. PacketOf(c, "state", tick, attributes) \in Packets
    BY PacketOfType, AttributesAssumption
  <2> QED
    BY <1>16, <1>0, <2>1, <2>2 DEF SendState, Transmit, TypeOK
<1>17. ASSUME NEW c \in Clients, SendExit(c) PROVE TypeOK'
  <2>1. PacketOf(c, "exit", client[c].tick, {}) \in Packets
    BY PacketOfType DEF TypeOK
  <2> QED
    BY <1>17, <1>0, <2>1 DEF SendExit, Transmit, TypeOK
<1>18. ASSUME NEW c \in Clients, ClientCrashes(c) \/ ClientRestarts(c) PROVE TypeOK'
  <2>1. client' \in [Clients -> [epoch : 1 .. MaxEpoch, tick : Ticks, live : BOOLEAN]]
    <3>1. CASE ClientCrashes(c)
      BY <3>1 DEF ClientCrashes, TypeOK
    <3>2. CASE ClientRestarts(c)
      <4>1. client[c].epoch + 1 \in 1 .. MaxEpoch /\ 0 \in Ticks
        BY <3>2, BoundAssumption DEF ClientRestarts, TypeOK, Ticks
      <4> QED
        BY <3>2, <4>1 DEF ClientRestarts, TypeOK
    <3> QED
      BY <1>18, <3>1, <3>2
  <2> QED
    BY <1>18, <1>0, <2>1 DEF ClientCrashes, ClientRestarts, TypeOK
<1>19. ASSUME NEW c \in Clients, SendNoise(c) PROVE TypeOK'
  <2>1. PICK kind \in Noise : Transmit(PacketOf(c, kind, 0, {}))
    BY <1>19 DEF SendNoise
  <2>2. PacketOf(c, kind, 0, {}) \in Packets
    BY PacketOfType, NoiseAssumption, BoundAssumption DEF Ticks
  <2> QED
    BY <1>19, <1>0, <2>1, <2>2 DEF SendNoise, Transmit, TypeOK
<1>20. CASE Duplicate
  <2>1. \A p \in Packets : [p EXCEPT !.copy = 2] \in Packets /\ [p EXCEPT !.copy = 3] \in Packets
    BY DEF Packets
  <2>2. net' \subseteq Packets
    <3>1. PICK p \in net : net' = (net \ {p}) \cup {[p EXCEPT !.copy = 2], [p EXCEPT !.copy = 3]}
      BY <1>20 DEF Duplicate
    <3>2. [p EXCEPT !.copy = 2] \in Packets /\ [p EXCEPT !.copy = 3] \in Packets
      BY <2>1 DEF TypeOK
    <3> QED
      BY <3>1, <3>2 DEF TypeOK
  <2> QED
    BY <1>20, <1>0, <2>2 DEF Duplicate, TypeOK
<1>21. CASE SocketBreaks
  BY <1>21, <1>0 DEF SocketBreaks, TypeOK
<1>22. CASE ClockTicks
  <2>1. idle' \in [Clients -> 0 .. InactiveLimit + 1]
    BY <1>22, OlderIdleType, BoundAssumption DEF ClockTicks, TypeOK, VCTypeOK
  <2>2. sinceCleanup' \in 0 .. CleanupPeriod + 1
    BY <1>22, LimitAssumption DEF ClockTicks, TypeOK
  <2> QED
    BY <1>22, <2>1, <2>2 DEF ClockTicks, TypeOK, VCTypeOK
<1>23. CASE ConsoleDetaches
  <2>1. VCTypeOK'
    BY <1>23, BlankType DEF ConsoleDetaches, ExternalDetach, TypeOK, VCTypeOK
  <2> QED
    BY <1>23, <2>1 DEF ConsoleDetaches, TypeOK
<1>24. CASE UNCHANGED vars
  BY <1>24, <1>0 DEF vars, TypeOK
<1> QED
  BY <1>1, <1>2, <1>3, <1>4, <1>5, <1>6, <1>7, <1>8, <1>9, <1>10, <1>11, <1>12, <1>13,
     <1>14, <1>15, <1>16, <1>17, <1>18, <1>19, <1>20, <1>21, <1>22, <1>23, <1>24
     DEF Next, ServiceThread, Environment

\* Every variable keeps a value of its type: in particular errorCount never
\* reaches the limit outside HandleError.
THEOREM TypeCorrect == Spec => []TypeOK
  BY InitTypeOK, NextTypeOK, PTL DEF Spec

--------------------------------------------------------------------------------
\* Disconnecting controllers of the map, and perhaps removing them from it,
\* leaves no orphan device and no handle with a removed controller.
LEMMA DisconnectDevices ==
  ASSUME TypeOK, DeviceInv, NEW S \in SUBSET controllers, Disconnect(S),
         \/ controllers' = controllers
         \/ controllers' = controllers \ S
  PROVE  /\ DeviceInv'
         /\ \A c \in S : ~Connected(c)'
         /\ \A c \in Clients \ S : hdlsHandle'[c] = hdlsHandle[c]
<1> DEFINE held == {hdlsHandle[c] : c \in S} \cap attached
<1>1. PICK stuck \in SUBSET held : attached' = attached \ (held \ stuck) /\ leaked' = leaked \cup stuck
  BY DEF Disconnect, DetachAll
<1>2. /\ controllers \subseteq Clients
      /\ S \subseteq Clients
      /\ \A c \in S : hdlsHandle'[c] = NoHandle
      /\ \A c \in Clients \ S : hdlsHandle'[c] = hdlsHandle[c]
  BY DEF Disconnect, TypeOK
<1>3. NoHandle \notin attached
  BY HandleAssumption DEF TypeOK, VCTypeOK
<1>4. \A h \in OwnedHandles : h \in OwnedHandles' \/ \E c \in S : h = hdlsHandle[c]
  BY <1>2 DEF OwnedHandles
<1>5. \A h \in OwnedHandles' : h \in OwnedHandles /\ \A c \in S : h # hdlsHandle[c]
  <2> SUFFICES ASSUME NEW h \in OwnedHandles'
               PROVE  h \in OwnedHandles /\ \A c \in S : h # hdlsHandle[c]
    OBVIOUS
  <2>1. PICK d \in controllers' : h = hdlsHandle'[d] /\ h # NoHandle
    BY DEF OwnedHandles
  <2>2. d \in controllers /\ d \notin S /\ h = hdlsHandle[d]
    BY <1>2, <2>1
  <2>3. \A c \in S : h # hdlsHandle[c]
    BY <2>1, <2>2 DEF DeviceInv, NoOrphanDevice, Connected
  <2> QED
    BY <2>1, <2>2, <2>3 DEF OwnedHandles
<1>6. attached' \subseteq OwnedHandles' \cup leaked'
  <2> SUFFICES ASSUME NEW h \in attached', h \notin leaked' PROVE h \in OwnedHandles'
    OBVIOUS
  <2>1. h \in OwnedHandles
    BY <1>1 DEF DeviceInv, NoOrphanDevice
  <2>2. \A c \in S : h # hdlsHandle[c]
    BY <1>1
  <2> QED
    BY <1>4, <2>1, <2>2
<1>7. OwnedHandles' \cap leaked' = {}
  BY <1>1, <1>5 DEF DeviceInv, NoOrphanDevice
<1>8. leaked' \subseteq attached'
  <2>1. leaked \cap held = {}
    <3> SUFFICES ASSUME NEW c \in S, hdlsHandle[c] \in attached PROVE hdlsHandle[c] \notin leaked
      OBVIOUS
    <3>1. hdlsHandle[c] \in OwnedHandles
      BY <1>3 DEF OwnedHandles
    <3> QED
      BY <3>1 DEF DeviceInv, NoOrphanDevice
  <2> QED
    BY <1>1, <2>1 DEF DeviceInv
<1>9. \A c, d \in controllers' : Connected(c)' /\ hdlsHandle'[c] = hdlsHandle'[d] => c = d
  BY <1>2 DEF DeviceInv, NoOrphanDevice, Connected
<1> QED
  BY <1>2, <1>6, <1>7, <1>8, <1>9 DEF DeviceInv, NoOrphanDevice, Connected

\* Attaching a device for a controller without a handle, new or in the map.
LEMMA ConnectDevices ==
  ASSUME TypeOK, DeviceInv, NEW c \in Clients, ~Connected(c), ConnectOk(c),
         controllers' = controllers \cup {c}, leaked' = leaked
  PROVE  /\ DeviceInv'
         /\ \A d \in Clients \ {c} : hdlsHandle'[d] = hdlsHandle[d]
<1>1. PICK h \in FreshHandles : /\ attached' = attached \cup {h}
                                /\ hdlsHandle' = [hdlsHandle EXCEPT ![c] = h]
  BY DEF ConnectOk
<1>2. /\ controllers \subseteq Clients
      /\ hdlsHandle'[c] = h
      /\ \A d \in Clients \ {c} : hdlsHandle'[d] = hdlsHandle[d]
  BY <1>1 DEF TypeOK, VCTypeOK
<1>3. h # NoHandle /\ h \notin attached /\ \A d \in Clients : hdlsHandle[d] # h
  BY HandleAssumption DEF FreshHandles
<1>4. OwnedHandles' = OwnedHandles \cup {h}
  <2>1. OwnedHandles' \subseteq OwnedHandles \cup {h}
    BY <1>2 DEF OwnedHandles
  <2>2. OwnedHandles \subseteq OwnedHandles'
    BY <1>2 DEF OwnedHandles, Connected
  <2>3. h \in OwnedHandles'
    BY <1>2, <1>3 DEF OwnedHandles
  <2> QED
    BY <2>1, <2>2, <2>3
<1>5. \A a, b \in controllers' : Connected(a)' /\ hdlsHandle'[a] = hdlsHandle'[b] => a = b
  BY <1>2, <1>3 DEF DeviceInv, NoOrphanDevice, Connected
<1> QED
  BY <1>1, <1>2, <1>3, <1>4, <1>5 DEF DeviceInv, NoOrphanDevice

\* Nothing about the devices changes with the variables it reads.
LEMMA SameDevices ==
  ASSUME DeviceInv, hdlsHandle' = hdlsHandle, attached' = attached,
         leaked' = leaked, controllers' = controllers
  PROVE  DeviceInv'
  BY DEF DeviceInv, NoOrphanDevice, OwnedHandles, Connected

--------------------------------------------------------------------------------
\* At first nothing is acquired.
LEMMA InitServiceInv == Init => ServiceInv
<1> SUFFICES ASSUME Init PROVE ServiceInv
  OBVIOUS
<1>1. TypeOK
  BY InitTypeOK
<1>2. PacketInv
  BY DEF Init, VCInit, PacketInv, Handling, Connected
<1>3. DeviceInv
  BY DEF Init, VCInit, DeviceInv, NoOrphanDevice
<1>4. SessionInv
  BY DEF Init, SessionInv, InLoop
<1> QED
  BY <1>1, <1>2, <1>3, <1>4 DEF ServiceInv

\* Each step keeps the invariant of the service.
LEMMA NextServiceInv == ServiceInv /\ [Next]_vars => ServiceInv'
<1> SUFFICES ASSUME ServiceInv, [Next]_vars PROVE ServiceInv'
  OBVIOUS
<1> USE DEF vcVars, thread, ownerVars, netVars
<1>0. TypeOK /\ PacketInv /\ DeviceInv /\ SessionInv /\ TypeOK'
  BY NextTypeOK DEF ServiceInv
<1> SUFFICES PacketInv' /\ DeviceInv' /\ SessionInv'
  BY <1>0 DEF ServiceInv
\* Steps of the service thread that call no hid function and of its owner.
<1>1. CASE Start
  BY <1>1, <1>0, SameDevices DEF Start, PacketInv, SessionInv, InLoop, Handling, Connected
<1>2. CASE Stop \/ StopReturns
  BY <1>2, <1>0, SameDevices
     DEF Stop, StopReturns, Alive, PacketInv, SessionInv, InLoop, Handling, Connected
<1>3. CASE WakeUp \/ LoopHead \/ ReceiveFails \/ LookupKnown
  BY <1>3, <1>0, SameDevices
     DEF WakeUp, LoopHead, ReceiveFails, LookupKnown, PacketInv, SessionInv, InLoop, Handling, Connected
<1>4. CASE Initialize
  BY <1>4, <1>0, SameDevices DEF Initialize, PacketInv, SessionInv, InLoop, Handling, Connected
<1>5. CASE Abort /\ pc \in {"init", "lookup"}
  BY <1>5, <1>0, SameDevices DEF Abort, PacketInv, SessionInv, InLoop, Handling, Connected
<1>6. ASSUME NEW c \in Clients, ReceiveFrom(c) PROVE PacketInv' /\ DeviceInv' /\ SessionInv'
  BY <1>6, <1>0, SameDevices DEF ReceiveFrom, PacketInv, SessionInv, InLoop, Handling, Connected
<1>7. CASE HandleError
  BY <1>7, <1>0, SameDevices DEF HandleError, PacketInv, SessionInv, InLoop, Handling, Connected
<1>8. CASE Exit
  BY <1>8, <1>0, SameDevices DEF Exit, CloseServer, PacketInv, SessionInv, InLoop, Handling, Connected
\* Steps of the service thread that call hid.
<1>9. CASE LookupNew
  <2>1. PICK p \in pkt : /\ p.src \notin controllers
                         /\ ConnectOk(p.src)
                         /\ controllers' = controllers \cup {p.src}
    BY <1>9 DEF LookupNew
  <2>2. p.src \in Clients /\ ~Connected(p.src)
    BY <1>0, <2>1 DEF TypeOK, Packets, PacketInv
  <2>3. DeviceInv' /\ \A d \in Clients \ {p.src} : hdlsHandle'[d] = hdlsHandle[d]
    BY <1>0, <1>9, <2>1, <2>2, ConnectDevices DEF LookupNew
  <2>4. PacketInv'
    BY <1>0, <1>9, <2>1, <2>2, <2>3 DEF LookupNew, PacketInv, Handling, Connected
  <2>5. SessionInv'
    BY <1>0, <1>9 DEF LookupNew, SessionInv, InLoop
  <2> QED
    BY <2>3, <2>4, <2>5
<1>10. CASE DispatchExit
  <2>1. PICK p \in pkt : Delete({p.src}) /\ controllers' = controllers \ {p.src}
    BY <1>10 DEF DispatchExit
  <2>2. p.src \in Clients /\ p.src \in controllers
    BY <1>0, <1>10 DEF TypeOK, Packets, PacketInv, Handling, DispatchExit
  <2>3. /\ DeviceInv'
        /\ ~Connected(p.src)'
        /\ \A d \in Clients \ {p.src} : hdlsHandle'[d] = hdlsHandle[d]
    BY <1>0, <2>1, <2>2, DisconnectDevices DEF Delete
  <2>4. PacketInv'
    BY <1>0, <1>10, <2>1, <2>2, <2>3 DEF DispatchExit, PacketInv, Handling, Connected
  <2>5. SessionInv'
    BY <1>0, <1>10, <2>1 DEF DispatchExit, SessionInv, InLoop
  <2> QED
    BY <2>3, <2>4, <2>5
<1>11. CASE DispatchState
  <2>1. hdlsHandle' = hdlsHandle /\ attached' = attached /\ leaked' = leaked
    BY <1>11 DEF DispatchState, SetState
  <2>2. DeviceInv'
    BY <1>0, <1>11, <2>1, SameDevices DEF DispatchState
  <2>3. PacketInv'
    BY <1>0, <1>11, <2>1 DEF DispatchState, PacketInv, Handling, Connected
  <2>4. SessionInv'
    BY <1>0, <1>11 DEF DispatchState, SessionInv, InLoop
  <2> QED
    BY <2>2, <2>3, <2>4
<1>12. CASE FlushQuery
  <2>1. PICK p \in pkt : \/ QuerySaysAttached(p.src) /\ pc' = "push"
                         \/ QuerySaysGone(p.src) /\ pc' = "reconnect"
    BY <1>12 DEF FlushQuery
  <2>2. p.src \in Clients /\ p.src \in controllers /\ \A q \in pkt : q = p
    BY <1>0, <1>12 DEF TypeOK, Packets, PacketInv, Handling, FlushQuery
  <2>3. SessionInv'
    BY <1>0, <1>12, <2>1 DEF FlushQuery, SessionInv, InLoop
  <2>4. CASE QuerySaysAttached(p.src) /\ pc' = "push"
    BY <1>0, <1>12, <2>2, <2>3, <2>4, SameDevices
       DEF FlushQuery, QuerySaysAttached, PacketInv, Handling, Connected
  <2>5. CASE QuerySaysGone(p.src) /\ pc' = "reconnect"
    <3>1. /\ DeviceInv'
          /\ ~Connected(p.src)'
          /\ \A d \in Clients \ {p.src} : hdlsHandle'[d] = hdlsHandle[d]
      BY <1>0, <1>12, <2>2, <2>5, DisconnectDevices DEF FlushQuery, QuerySaysGone
    <3>2. PacketInv'
      BY <1>0, <1>12, <2>2, <2>5, <3>1 DEF FlushQuery, PacketInv, Handling, Connected
    <3> QED
      BY <2>3, <3>1, <3>2
  <2> QED
    BY <2>1, <2>4, <2>5
<1>13. CASE FlushReconnect
  <2>1. PICK p \in pkt : \/ ConnectOk(p.src) /\ pc' = "push" /\ UNCHANGED pkt
                         \/ ConnectFails(p.src) /\ pc' = "error" /\ pkt' = {}
    BY <1>13 DEF FlushReconnect
  <2>2. p.src \in Clients /\ p.src \in controllers /\ ~Connected(p.src)
    BY <1>0, <1>13 DEF TypeOK, Packets, PacketInv, Handling, FlushReconnect
  <2>3. SessionInv'
    BY <1>0, <1>13, <2>1 DEF FlushReconnect, SessionInv, InLoop
  <2>4. CASE ConnectOk(p.src) /\ pc' = "push" /\ UNCHANGED pkt
    <3>1. DeviceInv' /\ \A d \in Clients \ {p.src} : hdlsHandle'[d] = hdlsHandle[d]
      BY <1>0, <1>13, <2>2, <2>4, ConnectDevices DEF FlushReconnect
    <3>2. PacketInv'
      BY <1>0, <1>13, <2>2, <2>4, <3>1 DEF FlushReconnect, PacketInv, Handling, Connected
    <3> QED
      BY <2>3, <3>1, <3>2
  <2>5. CASE ConnectFails(p.src) /\ pc' = "error" /\ pkt' = {}
    <3>1. hdlsHandle' = hdlsHandle
      BY <1>0, <2>2, <2>5 DEF ConnectFails, Connected, TypeOK, VCTypeOK
    <3>2. DeviceInv'
      BY <1>0, <1>13, <2>5, <3>1, SameDevices DEF FlushReconnect, ConnectFails
    <3>3. PacketInv'
      BY <1>0, <1>13, <2>5, <3>1 DEF FlushReconnect, PacketInv, Handling, Connected
    <3> QED
      BY <2>3, <3>2, <3>3
  <2> QED
    BY <2>1, <2>4, <2>5
<1>14. CASE FlushPush
  <2>1. hdlsHandle' = hdlsHandle /\ attached' = attached /\ leaked' = leaked
    BY <1>14 DEF FlushPush, PushOk, PushFails
  <2>2. DeviceInv'
    BY <1>0, <1>14, <2>1, SameDevices DEF FlushPush
  <2>3. PacketInv' /\ SessionInv'
    BY <1>0, <1>14, <2>1 DEF FlushPush, PacketInv, Handling, Connected, SessionInv, InLoop
  <2> QED
    BY <2>2, <2>3
<1>15. ASSUME NEW f \in BOOLEAN, Cleanup(f)
       PROVE  DeviceInv' /\ \A c \in Clients \ controllers' : ~Connected(c)'
  <2>1. CleanupVictims(f) \in SUBSET controllers
    BY DEF CleanupVictims
  <2>2. /\ DeviceInv'
        /\ \A c \in CleanupVictims(f) : ~Connected(c)'
        /\ \A c \in Clients \ CleanupVictims(f) : hdlsHandle'[c] = hdlsHandle[c]
    BY <1>0, <1>15, <2>1, DisconnectDevices DEF Cleanup, Delete
  <2> QED
    BY <1>0, <1>15, <2>2 DEF Cleanup, PacketInv, Connected
<1>16. CASE Tidy
  <2>1. DeviceInv' /\ \A c \in Clients \ controllers' : ~Connected(c)'
    <3>1. CASE Cleanup(FALSE)
      BY <3>1, <1>15
    <3>2. CASE UNCHANGED <<vcVars, controllers>>
      BY <3>2, <1>0, SameDevices DEF PacketInv, Connected
    <3> QED
      BY <1>16, <3>1, <3>2 DEF Tidy
  <2>2. PacketInv'
    BY <1>0, <1>16, <2>1 DEF Tidy, PacketInv, Handling
  <2>3. controllers' \subseteq controllers
    BY <1>16 DEF Tidy, Cleanup
  <2>4. SessionInv'
    BY <1>0, <1>16, <2>3 DEF Tidy, SessionInv, InLoop
  <2> QED
    BY <2>1, <2>2, <2>4
<1>17. CASE FinalCleanup
  <2>1. DeviceInv' /\ \A c \in Clients \ controllers' : ~Connected(c)'
    BY <1>15, <1>17 DEF FinalCleanup
  <2>2. PacketInv'
    BY <1>0, <1>17, <2>1 DEF FinalCleanup, PacketInv, Handling
  <2>3. controllers' = {}
    BY <1>17 DEF FinalCleanup, Cleanup, CleanupVictims
  <2>4. SessionInv'
    BY <1>0, <1>17, <2>3 DEF FinalCleanup, SessionInv, InLoop
  <2> QED
    BY <2>1, <2>2, <2>4
\* Steps of the environment.
<1>18. ASSUME UNCHANGED <<hdlsHandle, attached, leaked, controllers, pc, pkt, hidSession, owner>>,
              pc = "done" => sock' = sock
       PROVE  PacketInv' /\ DeviceInv' /\ SessionInv'
  BY <1>18, <1>0, SameDevices DEF PacketInv, SessionInv, InLoop, Handling, Connected
<1>19. ASSUME NEW c \in Clients,
              SendState(c) \/ SendExit(c) \/ ClientCrashes(c) \/ ClientRestarts(c) \/ SendNoise(c)
       PROVE  PacketInv' /\ DeviceInv' /\ SessionInv'
  BY <1>18, <1>19 DEF SendState, SendExit, ClientCrashes, ClientRestarts, SendNoise
<1>20. CASE Duplicate \/ ClockTicks
  BY <1>18, <1>20 DEF Duplicate, ClockTicks
<1>21. CASE SocketBreaks
  BY <1>0, <1>18, <1>21 DEF SocketBreaks, SessionInv
<1>22. CASE ConsoleDetaches
  <2>1. PICK h \in attached : attached' = attached \ {h} /\ leaked' = leaked \ {h}
    BY <1>22 DEF ConsoleDetaches, ExternalDetach
  <2>2. hdlsHandle' = hdlsHandle /\ controllers' = controllers
    BY <1>22 DEF ConsoleDetaches, ExternalDetach
  <2>3. DeviceInv'
    BY <1>0, <2>1, <2>2 DEF DeviceInv, NoOrphanDevice, OwnedHandles, Connected
  <2>4. PacketInv' /\ SessionInv'
    BY <1>0, <1>22, <2>2 DEF ConsoleDetaches, PacketInv, SessionInv, InLoop, Handling, Connected
  <2> QED
    BY <2>3, <2>4
<1>23. CASE UNCHANGED vars
  BY <1>18, <1>23 DEF vars
<1>24. (InitializeFails \/ LookupAborts) => Abort /\ pc \in {"init", "lookup"}
  BY DEF InitializeFails, LookupAborts
<1> QED
  BY <1>1, <1>2, <1>3, <1>4, <1>5, <1>6, <1>7, <1>8, <1>9, <1>10, <1>11, <1>12, <1>13,
     <1>14, <1>16, <1>17, <1>19, <1>20, <1>21, <1>22, <1>23, <1>24
     DEF Next, ServiceThread, Environment

\* The inductive invariant: the packet in hand, the devices and the session.
THEOREM ServiceInvariant == Spec => []ServiceInv
  BY InitServiceInv, NextServiceInv, PTL DEF Spec

\* No packet, disconnection, timeout or shutdown leaves a device attached
\* without its controller or gives two controllers one device.
THEOREM DevicesAreOwned == Spec => []NoOrphanDevice
<1>1. ServiceInv => NoOrphanDevice
  BY DEF ServiceInv, DeviceInv
<1> QED
  BY <1>1, ServiceInvariant, PTL

\* hid:dbg is only used between VirtualController::Initialize and ::Exit.
THEOREM SessionCoversDevices == Spec => []HidOnlyInSession
<1>1. ServiceInv => HidOnlyInSession
  BY DEF ServiceInv, DeviceInv, SessionInv, InLoop, NoOrphanDevice, OwnedHandles, HidOnlyInSession
<1> QED
  BY <1>1, ServiceInvariant, PTL

\* When Stop() has returned, everything has been given back.
THEOREM StopReleases == Spec => []StopReleasesEverything
<1>1. ServiceInv => StopReleasesEverything
  BY DEF ServiceInv, DeviceInv, SessionInv, NoOrphanDevice, OwnedHandles, StopReleasesEverything
<1> QED
  BY <1>1, ServiceInvariant, PTL
================================================================================
