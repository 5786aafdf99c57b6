--------------------------- MODULE VirtualController ---------------------------
(***************************************************************************)
(* The class VirtualController (virtual_controller.cpp): one virtual pad    *)
(* per client address, kept attached to the console through hid:dbg.        *)
(*                                                                          *)
(* A VirtualController object is the value of four functions at its         *)
(* client's address.  An address with no object has the values a new object *)
(* would have, so that creating one changes only the handle.                *)
(*                                                                          *)
(* The hid:dbg service is not part of the repository: it is modelled from   *)
(* the calls made to it.  Handles are assumed not to be given to two live   *)
(* users: a handle still remembered by a controller is never given out.     *)
(***************************************************************************)
EXTENDS Integers, FiniteSets

CONSTANTS
  Clients,       \* client IP addresses, the keys of the service's map
  Handles,       \* handles hid can give to attached devices
  NoHandle,      \* hdlsHandle.handle = 0
  NoInput,       \* the zeroed input of a new controller
  MaxTick,       \* bound: the largest client tick
  MaxEpoch,      \* bound: how often a client program is started
  InactiveLimit, \* 10 s in the code, in units of the model's clock
  MayFail        \* which external calls may fail in this instance

Sensors == {"accel", "angle"}

\* The bits of ControllerPacket.attributes: the two sensor bits and the others.
AttributeBits == Sensors \cup {"other"}

Ticks == 0 .. MaxTick

\* Where an input came from: the client, which of its program runs, its tick.
Inputs == [src : Clients, epoch : 1 .. MaxEpoch, tick : Ticks]

HidStates == [main : Inputs \cup {NoInput},
              attribute : SUBSET Sensors,
              vec : [Sensors -> Inputs \cup {NoInput}]]

ASSUME HandleAssumption == NoHandle \notin Handles
ASSUME InputAssumption == NoInput \notin Inputs
ASSUME StateAssumption == NoHandle \notin HidStates  \* no pad is not a pad's state
ASSUME BoundAssumption ==
  /\ MaxTick \in Nat
  /\ MaxEpoch \in Nat \ {0}
  /\ InactiveLimit \in Nat
ASSUME FiniteAssumption == IsFiniteSet(Clients) /\ IsFiniteSet(Handles)

VARIABLES
  hdlsHandle,  \* [Clients -> Handles \cup {NoHandle}]
  hidState,    \* [Clients -> HidStates]
  clientTick,  \* [Clients -> Ticks]
  idle,        \* [Clients -> age of lastUpdateTick, saturating]
  attached,    \* hid: the devices attached now
  shown,       \* hid: the state each attached device reports to the console
  leaked       \* history: devices left attached by a failed Detach

vcVars == <<hdlsHandle, hidState, clientTick, idle, attached, shown, leaked>>

--------------------------------------------------------------------------------
\* memset(&hidState, 0): no input, no attribute, no sensor vector.
Blank == [main |-> NoInput, attribute |-> {}, vec |-> [s \in Sensors |-> NoInput]]

VCInit ==
  /\ hdlsHandle = [c \in Clients |-> NoHandle]
  /\ hidState = [c \in Clients |-> Blank]
  /\ clientTick = [c \in Clients |-> 0]
  /\ idle = [c \in Clients |-> 0]
  /\ attached = {}
  /\ shown = [h \in Handles |-> Blank]
  /\ leaked = {}

Connected(c) == hdlsHandle[c] # NoHandle

\* armGetSystemTick() - lastUpdateTick > 10 s
Inactive(c) == idle[c] > InactiveLimit

OlderIdle(a) == IF a > InactiveLimit THEN a ELSE a + 1

FreshHandles == {h \in Handles \ attached : \A c \in Clients : hdlsHandle[c] # h}

\* Connect() on a controller with no handle, the only way the code calls it.
ConnectOk(c) ==
  \E h \in FreshHandles :
    /\ attached' = attached \cup {h}
    /\ shown' = [shown EXCEPT ![h] = Blank]
    /\ hdlsHandle' = [hdlsHandle EXCEPT ![c] = h]

ConnectMayFail == "attach" \in MayFail \/ FreshHandles = {}

ConnectFails(c) ==
  /\ ConnectMayFail
  /\ hdlsHandle' = [hdlsHandle EXCEPT ![c] = NoHandle]
  /\ UNCHANGED <<attached, shown>>

\* The hid side of Disconnect() for the controllers of S.  The result of Detach
\* is ignored by the code: a device whose Detach fails stays attached.
DetachAll(S) ==
  LET held == {hdlsHandle[c] : c \in S} \cap attached
  IN  \E stuck \in SUBSET held :
        /\ "detach" \notin MayFail => stuck = {}
        /\ attached' = attached \ (held \ stuck)
        /\ shown' = [h \in Handles |-> IF h \in held \ stuck THEN Blank ELSE shown[h]]
        /\ leaked' = leaked \cup stuck

\* Mutant: the handle is forgotten and the device never detached.
DisconnectForgets(S) ==
  /\ hdlsHandle' = [c \in Clients |-> IF c \in S THEN NoHandle ELSE hdlsHandle[c]]
  /\ UNCHANGED <<attached, shown, leaked>>

\* Disconnect(): detach and forget the handle.
Disconnect(S) ==
  /\ DetachAll(S)
  /\ hdlsHandle' = [c \in Clients |-> IF c \in S THEN NoHandle ELSE hdlsHandle[c]]

\* delete controller, for the controllers of S: ~VirtualController() disconnects.
Delete(S) ==
  /\ Disconnect(S)
  /\ hidState' = [c \in Clients |-> IF c \in S THEN Blank ELSE hidState[c]]
  /\ clientTick' = [c \in Clients |-> IF c \in S THEN 0 ELSE clientTick[c]]
  /\ idle' = [c \in Clients |-> IF c \in S THEN 0 ELSE idle[c]]

InputOf(p) == [src |-> p.src, epoch |-> p.epoch, tick |-> p.tick]

\* Mutant: attribute bits accumulate as the sensor vectors do.
MergeKeepsAttributes(old, p) ==
  [main |-> InputOf(p),
   attribute |-> old.attribute \cup (p.attributes \cap Sensors),
   vec |-> [s \in Sensors |-> IF s \in p.attributes THEN InputOf(p) ELSE old.vec[s]]]

\* The state SetState writes: buttons and sticks always, a sensor vector only
\* when its attribute bit is set; the other vectors keep their old values.
Merge(old, p) ==
  [main |-> InputOf(p),
   attribute |-> p.attributes \cap Sensors,
   vec |-> [s \in Sensors |-> IF s \in p.attributes THEN InputOf(p) ELSE old.vec[s]]]

\* Mutants: late packets are accepted; packets with the current tick are refused.
OutdatedNever(c, p) == FALSE
OutdatedOrSame(c, p) == p.tick <= clientTick[c]

Outdated(c, p) == p.tick < clientTick[c]

\* Mutant: lastUpdateTick is refreshed before the tick is checked.
SetStateRefreshes(c, p) ==
  /\ idle' = [idle EXCEPT ![c] = 0]
  /\ IF Outdated(c, p)
       THEN UNCHANGED <<clientTick, hidState>>
       ELSE /\ clientTick' = [clientTick EXCEPT ![c] = p.tick]
            /\ hidState' = [hidState EXCEPT ![c] = Merge(@, p)]
  /\ UNCHANGED <<hdlsHandle, attached, shown, leaked>>

SetState(c, p) ==
  /\ IF Outdated(c, p)
       THEN UNCHANGED <<idle, clientTick, hidState>>
       ELSE /\ idle' = [idle EXCEPT ![c] = 0]
            /\ clientTick' = [clientTick EXCEPT ![c] = p.tick]
            /\ hidState' = [hidState EXCEPT ![c] = Merge(@, p)]
  /\ UNCHANGED <<hdlsHandle, attached, shown, leaked>>

\* FlushState() is three hid calls; other processes run between them.
\* The query finds the device attached ...
QuerySaysAttached(c) ==
  /\ hdlsHandle[c] \in attached
  /\ UNCHANGED vcVars

\* ... or fails or finds it gone, and then FlushState disconnects first.
QuerySaysGone(c) ==
  /\ hdlsHandle[c] \notin attached \/ "query" \in MayFail
  /\ Disconnect({c})
  /\ UNCHANGED <<hidState, clientTick, idle>>

\* hiddbgSetHdlsState: fails when the device has gone since the query.
PushOk(c) ==
  /\ hdlsHandle[c] \in attached
  /\ shown' = [shown EXCEPT ![hdlsHandle[c]] = hidState[c]]
  /\ UNCHANGED <<hdlsHandle, hidState, clientTick, idle, attached, leaked>>

PushFails(c) ==
  /\ hdlsHandle[c] \notin attached \/ "set" \in MayFail
  /\ UNCHANGED vcVars

\* The console detaches a device by itself (sleep, the controller menu).
ExternalDetach ==
  /\ \E h \in attached :
       /\ attached' = attached \ {h}
       /\ shown' = [shown EXCEPT ![h] = Blank]
       /\ leaked' = leaked \ {h}
  /\ UNCHANGED <<hdlsHandle, hidState, clientTick, idle>>

VCTypeOK ==
  /\ hdlsHandle \in [Clients -> Handles \cup {NoHandle}]
  /\ hidState \in [Clients -> HidStates]
  /\ clientTick \in [Clients -> Ticks]
  /\ idle \in [Clients -> 0 .. InactiveLimit + 1]
  /\ attached \subseteq Handles
  /\ shown \in [Handles -> HidStates]
  /\ leaked \subseteq Handles
================================================================================
