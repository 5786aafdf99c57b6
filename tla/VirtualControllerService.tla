----------------------- MODULE VirtualControllerService -----------------------
(***************************************************************************)
(* The class VirtualControllerService (virtual_controller_service.cpp):     *)
(* the thread that receives controller packets on a UDP socket and keeps    *)
(* the map from client addresses to virtual controllers, with the thread    *)
(* that starts and stops it, the clients, and the network between them.     *)
(*                                                                          *)
(* pc is the point the service thread has reached.  ReceiveMessages is cut  *)
(* at its calls to hid, because the console, the clock, the network and     *)
(* Stop() may all act while the thread waits for an answer.                 *)
(*                                                                          *)
(* The network reorders packets (net is a set), delays them without bound,  *)
(* loses them (one that is never received) and delivers each at most twice  *)
(* (field copy).                                                            *)
(***************************************************************************)
EXTENDS VirtualController

CONSTANTS
  Attributes,     \* attribute sets the clients send, a subset of SUBSET AttributeBits
  Noise,          \* malformed datagrams sent: a subset of {"short", "foreign"}
  MaxInFlight,    \* bound: packets in the network at once
  MaxErrors,      \* 100 in the code
  CleanupPeriod   \* 1 s in the code, in units of the model's clock

ASSUME AttributesAssumption == Attributes \subseteq SUBSET AttributeBits
ASSUME NoiseAssumption == Noise \subseteq {"short", "foreign"}
ASSUME LimitAssumption ==
  /\ MaxInFlight \in Nat
  /\ MaxErrors \in Nat \ {0}
  /\ CleanupPeriod \in Nat

Packets == [kind : {"state", "exit", "short", "foreign"}, src : Clients,
            epoch : 1 .. MaxEpoch, tick : Ticks,
            attributes : SUBSET AttributeBits, copy : 1 .. 3]

VARIABLES
  controllers,   \* the keys of the map `controllers'
  pc,            \* program point of the service thread
  pkt,           \* ReceiveMessages: the packet being handled ({} or one packet)
  sock,          \* the socket: "none" is -1
  errorCount,    \* ProcessThreadFunc: errorCount
  sinceCleanup,  \* age of lastCleanupTicks, saturating
  hidSession,    \* between VirtualController::Initialize and ::Exit
  running,       \* the flag `running'
  owner,         \* program point of the thread that owns the service
  net,           \* packets in the network
  client         \* [Clients -> the state of the client program there]

thread == <<pc, pkt, sock, errorCount, sinceCleanup, hidSession>>
ownerVars == <<running, owner>>
netVars == <<net, client>>
vars == <<vcVars, controllers, thread, ownerVars, netVars>>

--------------------------------------------------------------------------------
Points == {"created", "sleep", "init", "loop", "recv", "lookup", "dispatch",
           "flush", "reconnect", "push", "error", "tidy", "final", "exit",
           "done", "aborted"}

\* Points inside the loop of ProcessThreadFunc.
InLoop == pc \in {"loop", "recv", "lookup", "dispatch", "flush", "reconnect",
                  "push", "error", "tidy"}

Alive == pc \notin {"done", "aborted"}

Init ==
  /\ VCInit
  /\ controllers = {}
  /\ pc = "created"
  /\ pkt = {}
  /\ sock = "none"
  /\ errorCount = 0
  /\ sinceCleanup = 0
  /\ hidSession = FALSE
  /\ running = FALSE
  /\ owner = "created"
  /\ net = {}
  /\ client = [c \in Clients |-> [epoch |-> 1, tick |-> 0, live |-> TRUE]]

--------------------------------------------------------------------------------
\* The owner of the service.

\* Start(): set running and start the thread.
Start ==
  /\ owner = "created"
  /\ ~running
  /\ running' = TRUE
  /\ owner' = "started"
  /\ pc' = "sleep"
  /\ UNCHANGED <<vcVars, controllers, pkt, sock, errorCount, sinceCleanup, hidSession, netVars>>

\* Stop(): clear running, then WaitThread with the mutex held.
Stop ==
  /\ owner = "started"
  /\ Alive
  /\ running
  /\ running' = FALSE
  /\ owner' = "waiting"
  /\ UNCHANGED <<vcVars, controllers, thread, netVars>>

\* Mutant: Stop() does not wait for the thread.
StopReturnsEarly ==
  /\ owner = "waiting"
  /\ owner' = "joined"
  /\ UNCHANGED <<vcVars, controllers, thread, running, netVars>>

StopReturns ==
  /\ owner = "waiting"
  /\ pc = "done"
  /\ owner' = "joined"
  /\ UNCHANGED <<vcVars, controllers, thread, running, netVars>>

--------------------------------------------------------------------------------
\* The service thread.

\* What socket() and bind() may leave in sock; neither result is checked.
BindOutcomes ==
  {"bound"} \cup (IF "bind" \in MayFail THEN {"unbound"} ELSE {})
            \cup (IF "socket" \in MayFail THEN {"none"} ELSE {})

BindServer == sock' \in BindOutcomes

CloseServer == sock' = "none"

\* recvfrom fails at once on a socket that was never opened or has been reset.
SocketFails == sock \in {"none", "broken"}

\* svcSleepThread(6000000000)
WakeUp ==
  /\ pc = "sleep"
  /\ pc' = "init"
  /\ UNCHANGED <<vcVars, controllers, pkt, sock, errorCount, sinceCleanup, hidSession, ownerVars, netVars>>

\* socketInitialize, VirtualController::Initialize, BindServer and the locals of the loop.
Initialize ==
  /\ pc = "init"
  /\ pc' = "loop"
  /\ hidSession' = TRUE
  /\ BindServer
  /\ errorCount' = 0
  /\ sinceCleanup' = 0
  /\ UNCHANGED <<vcVars, controllers, pkt, ownerVars, netVars>>

\* R_ABORT_UNLESS ends the whole process.
Abort ==
  /\ pc' = "aborted"
  /\ pkt' = {}
  /\ UNCHANGED <<vcVars, controllers, sock, errorCount, sinceCleanup, hidSession, ownerVars, netVars>>

InitializeFails ==
  /\ pc = "init"
  /\ "init" \in MayFail
  /\ Abort

\* Mutant: the flag is read once, as the compiler may do with a plain bool.
LoopHeadHoisted ==
  /\ pc = "loop"
  /\ pc' = "recv"
  /\ UNCHANGED <<vcVars, controllers, pkt, sock, errorCount, sinceCleanup, hidSession, ownerVars, netVars>>

\* while(service->running)
LoopHead ==
  /\ pc = "loop"
  /\ pc' = IF running THEN "recv" ELSE "final"
  /\ UNCHANGED <<vcVars, controllers, pkt, sock, errorCount, sinceCleanup, hidSession, ownerVars, netVars>>

\* recvfrom blocks until a datagram has come in.
ReceiveFrom(c) ==
  /\ pc = "recv"
  /\ sock = "bound"
  /\ \E p \in net :
       /\ p.src = c
       /\ net' = net \ {p}
       /\ CASE p.kind = "short"   -> pc' = "error" /\ pkt' = {}
            [] p.kind = "foreign" -> pc' = "tidy" /\ pkt' = {}
            [] OTHER              -> pc' = "lookup" /\ pkt' = {p}
  /\ UNCHANGED <<vcVars, controllers, sock, errorCount, sinceCleanup, hidSession, ownerVars, client>>

ReceiveFails ==
  /\ pc = "recv"
  /\ SocketFails
  /\ pc' = "error"
  /\ UNCHANGED <<vcVars, controllers, pkt, sock, errorCount, sinceCleanup, hidSession, ownerVars, netVars>>

\* controllers.find(address) succeeds ...
LookupKnown ==
  /\ pc = "lookup"
  /\ \E p \in pkt : p.src \in controllers
  /\ pc' = "dispatch"
  /\ UNCHANGED <<vcVars, controllers, pkt, sock, errorCount, sinceCleanup, hidSession, ownerVars, netVars>>

\* ... or a controller is created, attached and inserted ...
LookupNew ==
  /\ pc = "lookup"
  /\ \E p \in pkt :
       /\ p.src \notin controllers
       /\ ConnectOk(p.src)
       /\ controllers' = controllers \cup {p.src}
  /\ pc' = "dispatch"
  /\ UNCHANGED <<hidState, clientTick, idle, leaked, pkt, sock, errorCount, sinceCleanup, hidSession, ownerVars, netVars>>

\* ... and when it cannot be attached the process is aborted.
LookupAborts ==
  /\ pc = "lookup"
  /\ \E p \in pkt : p.src \notin controllers
  /\ ConnectMayFail
  /\ Abort

\* The EXIT key: delete the controller, whatever the packet's tick.
DispatchExit ==
  /\ pc = "dispatch"
  /\ \E p \in pkt :
       /\ p.kind = "exit"
       /\ Delete({p.src})
       /\ controllers' = controllers \ {p.src}
  /\ pc' = "tidy"
  /\ pkt' = {}
  /\ UNCHANGED <<sock, errorCount, sinceCleanup, hidSession, ownerVars, netVars>>

\* SetState; FlushState then returns at once when the controller has no handle.
DispatchState ==
  /\ pc = "dispatch"
  /\ \E p \in pkt :
       /\ p.kind = "state"
       /\ SetState(p.src, p)
       /\ IF Connected(p.src)
            THEN pc' = "flush" /\ UNCHANGED pkt
            ELSE pc' = "tidy" /\ pkt' = {}
  /\ UNCHANGED <<controllers, sock, errorCount, sinceCleanup, hidSession, ownerVars, netVars>>

FlushQuery ==
  /\ pc = "flush"
  /\ \E p \in pkt : \/ QuerySaysAttached(p.src) /\ pc' = "push"
                    \/ QuerySaysGone(p.src) /\ pc' = "reconnect"
  /\ UNCHANGED <<controllers, pkt, sock, errorCount, sinceCleanup, hidSession, ownerVars, netVars>>

FlushReconnect ==
  /\ pc = "reconnect"
  /\ \E p \in pkt : \/ ConnectOk(p.src) /\ pc' = "push" /\ UNCHANGED pkt
                    \/ ConnectFails(p.src) /\ pc' = "error" /\ pkt' = {}
  /\ UNCHANGED <<hidState, clientTick, idle, leaked, controllers, sock, errorCount, sinceCleanup, hidSession, ownerVars, netVars>>

FlushPush ==
  /\ pc = "push"
  /\ \E p \in pkt : \/ PushOk(p.src) /\ pc' = "tidy"
                    \/ PushFails(p.src) /\ pc' = "error"
  /\ pkt' = {}
  /\ UNCHANGED <<controllers, sock, errorCount, sinceCleanup, hidSession, ownerVars, netVars>>

\* ReceiveMessages returned false: count, and replace the socket at MaxErrors.
ReplacesSocket == errorCount + 1 >= MaxErrors

\* Mutant: the errors are not counted.
HandleErrorUncounted ==
  /\ pc = "error"
  /\ pc' = "tidy"
  /\ UNCHANGED <<vcVars, controllers, pkt, sock, errorCount, sinceCleanup, hidSession, ownerVars, netVars>>

HandleError ==
  /\ pc = "error"
  /\ pc' = "tidy"
  /\ IF ReplacesSocket
       THEN errorCount' = 0 /\ BindServer
       ELSE errorCount' = errorCount + 1 /\ UNCHANGED sock
  /\ UNCHANGED <<vcVars, controllers, pkt, sinceCleanup, hidSession, ownerVars, netVars>>

\* Mutant: inactivity is not looked at.
CleanupVictimsForced(force) == {c \in controllers : force}

\* The controllers Cleanup(force) deletes.
CleanupVictims(force) == {c \in controllers : force \/ Inactive(c)}

Cleanup(force) ==
  /\ Delete(CleanupVictims(force))
  /\ controllers' = controllers \ CleanupVictims(force)

\* The end of the loop's body: Cleanup(false) when it is due.
Tidy ==
  /\ pc = "tidy"
  /\ pc' = "loop"
  /\ IF sinceCleanup > CleanupPeriod
       THEN Cleanup(FALSE) /\ sinceCleanup' = 0
       ELSE UNCHANGED <<vcVars, controllers, sinceCleanup>>
  /\ UNCHANGED <<pkt, sock, errorCount, hidSession, ownerVars, netVars>>

\* Mutant: the last cleanup is not forced.
FinalCleanupLazy ==
  /\ pc = "final"
  /\ pc' = "exit"
  /\ Cleanup(FALSE)
  /\ UNCHANGED <<pkt, sock, errorCount, sinceCleanup, hidSession, ownerVars, netVars>>

FinalCleanup ==
  /\ pc = "final"
  /\ pc' = "exit"
  /\ Cleanup(TRUE)
  /\ UNCHANGED <<pkt, sock, errorCount, sinceCleanup, hidSession, ownerVars, netVars>>

\* VirtualController::Exit, socketExit, CloseServer: the thread ends.
Exit ==
  /\ pc = "exit"
  /\ pc' = "done"
  /\ hidSession' = FALSE
  /\ CloseServer
  /\ UNCHANGED <<vcVars, controllers, pkt, errorCount, sinceCleanup, ownerVars, netVars>>

ServiceThread ==
  \/ WakeUp \/ Initialize \/ InitializeFails \/ LoopHead
  \/ (\E c \in Clients : ReceiveFrom(c)) \/ ReceiveFails
  \/ LookupKnown \/ LookupNew \/ LookupAborts
  \/ DispatchExit \/ DispatchState
  \/ FlushQuery \/ FlushReconnect \/ FlushPush
  \/ HandleError \/ Tidy \/ FinalCleanup \/ Exit

--------------------------------------------------------------------------------
\* The clients, the network, the clock and the console.

PacketOf(c, kind, tick, attributes) ==
  [kind |-> kind, src |-> c, epoch |-> client[c].epoch, tick |-> tick,
   attributes |-> attributes, copy |-> 1]

\* Packets sent once the service has ended reach nobody and are left out.
Transmit(p) ==
  /\ Alive
  /\ Cardinality(net) < MaxInFlight
  /\ net' = net \cup {p}

\* A client sends its input; its tick may or may not have advanced.
SendState(c) ==
  /\ client[c].live
  /\ \E tick \in Ticks, attributes \in Attributes :
       /\ tick - client[c].tick \in {0, 1}
       /\ Transmit(PacketOf(c, "state", tick, attributes))
       /\ client' = [client EXCEPT ![c].tick = tick]
  /\ UNCHANGED <<vcVars, controllers, thread, ownerVars>>

\* A client leaves: an EXIT packet, or none (a crash, or a lost EXIT).
SendExit(c) ==
  /\ client[c].live
  /\ Transmit(PacketOf(c, "exit", client[c].tick, {}))
  /\ client' = [client EXCEPT ![c].live = FALSE]
  /\ UNCHANGED <<vcVars, controllers, thread, ownerVars>>

ClientCrashes(c) ==
  /\ client[c].live
  /\ client' = [client EXCEPT ![c].live = FALSE]
  /\ UNCHANGED <<vcVars, controllers, thread, ownerVars, net>>

\* A client program is started again: its ticks start from 0.
ClientRestarts(c) ==
  /\ ~client[c].live
  /\ client[c].epoch < MaxEpoch
  /\ client' = [client EXCEPT ![c] = [epoch |-> @.epoch + 1, tick |-> 0, live |-> TRUE]]
  /\ UNCHANGED <<vcVars, controllers, thread, ownerVars, net>>

\* A datagram of another size, or one with another magic number.
SendNoise(c) ==
  /\ \E kind \in Noise : Transmit(PacketOf(c, kind, 0, {}))
  /\ UNCHANGED <<vcVars, controllers, thread, ownerVars, client>>

\* The network doubles a packet, once: the doubles have their own copy numbers.
Duplicate ==
  /\ Alive
  /\ Cardinality(net) < MaxInFlight
  /\ \E p \in net :
       /\ p.copy = 1
       /\ net' = (net \ {p}) \cup {[p EXCEPT !.copy = 2], [p EXCEPT !.copy = 3]}
  /\ UNCHANGED <<vcVars, controllers, thread, ownerVars, client>>

\* The network stack drops the service's socket (a sleep of the console).
SocketBreaks ==
  /\ "reset" \in MayFail
  /\ sock = "bound"
  /\ sock' = "broken"
  /\ UNCHANGED <<vcVars, controllers, pc, pkt, errorCount, sinceCleanup, hidSession, ownerVars, netVars>>

ClockTicks ==
  /\ Alive
  /\ idle' = [c \in Clients |-> IF c \in controllers THEN OlderIdle(idle[c]) ELSE 0]
  /\ sinceCleanup' = IF InLoop /\ sinceCleanup <= CleanupPeriod THEN sinceCleanup + 1 ELSE sinceCleanup
  /\ UNCHANGED <<hdlsHandle, hidState, clientTick, attached, shown, leaked, controllers,
                 pc, pkt, sock, errorCount, hidSession, ownerVars, netVars>>

ConsoleDetaches ==
  /\ ExternalDetach
  /\ UNCHANGED <<controllers, thread, ownerVars, netVars>>

Environment ==
  \/ \E c \in Clients : SendState(c) \/ SendExit(c) \/ ClientCrashes(c) \/ ClientRestarts(c) \/ SendNoise(c)
  \/ Duplicate \/ SocketBreaks \/ ClockTicks \/ ConsoleDetaches

Next == Start \/ Stop \/ StopReturns \/ ServiceThread \/ Environment

Spec == Init /\ [][Next]_vars

--------------------------------------------------------------------------------
\* Fairness.  The service thread is scheduled and its calls return; the clock
\* runs; a client that is there keeps sending, and the network delivers some of
\* what it sends (strong: sending is not possible while the network is full).
Fairness ==
  /\ WF_vars(WakeUp \/ Initialize \/ InitializeFails \/ LoopHead \/ ReceiveFails
             \/ LookupKnown \/ LookupNew \/ LookupAborts \/ DispatchExit \/ DispatchState
             \/ FlushQuery \/ FlushReconnect \/ FlushPush \/ HandleError \/ Tidy
             \/ FinalCleanup \/ Exit)
  /\ WF_vars(ClockTicks)
  /\ \A c \in Clients : SF_vars(SendState(c)) /\ SF_vars(ReceiveFrom(c))

FairSpec == Spec /\ Fairness

--------------------------------------------------------------------------------
\* Every variable has a value of its type; errorCount stays below the limit.
TypeOK ==
  /\ VCTypeOK
  /\ controllers \subseteq Clients
  /\ pc \in Points
  /\ pkt \in SUBSET Packets
  /\ sock \in {"none", "unbound", "bound", "broken"}
  /\ errorCount \in 0 .. MaxErrors - 1
  /\ sinceCleanup \in 0 .. CleanupPeriod + 1
  /\ hidSession \in BOOLEAN
  /\ running \in BOOLEAN
  /\ owner \in {"created", "started", "waiting", "joined"}
  /\ net \subseteq Packets
  /\ client \in [Clients -> [epoch : 1 .. MaxEpoch, tick : Ticks, live : BOOLEAN]]

OwnedHandles == {hdlsHandle[c] : c \in controllers} \ {NoHandle}

\* A device stays attached only for a controller in the map, which no other
\* controller shares, or because hid refused to detach it: creating, EXIT,
\* reconnecting, cleanup and shutdown neither leak a pad nor mix two up.
NoOrphanDevice ==
  /\ attached \subseteq OwnedHandles \cup leaked
  /\ OwnedHandles \cap leaked = {}
  /\ \A c, d \in controllers : Connected(c) /\ hdlsHandle[c] = hdlsHandle[d] => c = d

\* The pads live inside the hid:dbg session: one exists, and hid is called on
\* one, only between VirtualController::Initialize and VirtualController::Exit.
HidOnlyInSession ==
  /\ controllers # {} => hidSession
  /\ attached \ leaked # {} => hidSession
  /\ pc \in {"dispatch", "flush", "reconnect", "push", "tidy", "final", "exit"} => hidSession

\* Stop() returns with everything given back: no controller, no device that
\* Detach could remove, no socket, no session.
StopReleasesEverything ==
  owner = "joined" =>
    controllers = {} /\ attached \subseteq leaked /\ sock = "none" /\ ~hidSession

\* The sensor vectors a state reports as present came with its buttons.
Consistent(state) == \A s \in state.attribute : state.vec[s] = state.main

\* A sensor vector a pad reports as present was sent with the buttons it is
\* reported with, although SetState keeps the vectors of older packets.
SensorsMatchInput ==
  \A h \in attached : Consistent(shown[h])

\* hid removes what it is asked to and has a handle for every client.
HidHasRoom == "detach" \notin MayFail /\ Cardinality(Handles) >= Cardinality(Clients)

\* A device is about to be asked for: by a first packet, or by a reconnection.
Connecting ==
  \E p \in pkt : \/ pc = "lookup" /\ p.src \notin controllers
                \/ pc = "reconnect"

\* While hid has room no sequence of packets, detachments, failed reconnections
\* and timeouts uses its handles up: whenever a device is about to be asked for
\* there is a handle for it, and R_ABORT_UNLESS is reached only where hid fails.
NoNeedlessAbort ==
  HidHasRoom => /\ Connecting => FreshHandles # {}
                /\ MayFail \cap {"init", "attach"} = {} => pc # "aborted"

\* The client's own pad shows an input of that client at least as new as p.
ShowsPacket(p) ==
  /\ p.src \in controllers
  /\ hdlsHandle[p.src] \in attached
  /\ LET main == shown[hdlsHandle[p.src]].main
     IN  main # NoInput /\ main.src = p.src /\ main.tick >= p.tick

\* FlushState returns success for the packet in hand.
Flushes(p) == p.kind = "state" /\ pc \in {"dispatch", "push"} /\ pc' = "tidy"

\* A controller without a handle, other than between the two calls of its
\* reconnection.
Stranded(c) ==
  c \in controllers /\ ~Connected(c) /\ ~(pc = "reconnect" /\ \E p \in pkt : p.src = c)

\* A state packet for which FlushState returns success is shown, except that
\* FlushState also returns success, and shows nothing, for a controller without
\* a handle.  A controller comes to that only by a reconnection that hid
\* refused, and of that step an error is reported.
HandledMeansShown ==
  [][/\ \A p \in pkt : Flushes(p) => ShowsPacket(p)' \/ Stranded(p.src)
     /\ \A c \in Clients : Stranded(c)' /\ ~Stranded(c) =>
          pc = "reconnect" /\ pc' = "error" /\ ConnectMayFail]_vars

--------------------------------------------------------------------------------
\* The parts of the inductive invariant behind these properties.

\* Points of ReceiveMessages with a packet whose controller has been found.
Handling == pc \in {"dispatch", "flush", "reconnect", "push"}

\* The packet in hand, its controller, and which controllers have no handle.
PacketInv ==
  /\ \A p, q \in pkt : p = q
  /\ pkt # {} => Handling \/ pc = "lookup"
  /\ Handling => \A p \in pkt : p.src \in controllers
  /\ pc \in {"reconnect"} => \A p \in pkt : ~Connected(p.src)
  /\ \A c \in Clients \ controllers : ~Connected(c)

DeviceInv == NoOrphanDevice /\ leaked \subseteq attached

\* What has been acquired at each point of ProcessThreadFunc.
SessionInv ==
  /\ ~hidSession => controllers = {}
  /\ InLoop \/ pc \in {"final", "exit"} => hidSession
  /\ pc \in {"exit", "done"} => controllers = {}
  /\ pc = "done" => sock = "none" /\ ~hidSession
  /\ owner = "created" => pc = "created"
  /\ owner = "joined" => pc = "done"

\* Inductive: the safety invariants above follow from it.
ServiceInv == TypeOK /\ PacketInv /\ DeviceInv /\ SessionInv

\* What the console's player sees: one pad or none per client.
PadOf(c) == IF hdlsHandle[c] \in attached THEN shown[hdlsHandle[c]] ELSE NoHandle

\* The state shows an input of client c, of tick `tick' or older, or nothing.
InputOfClient(state, c, tick) ==
  state.main # NoInput => state.main.src = c /\ state.main.tick <= tick

\* A controller's state is its client's input of tick clientTick ...
StateInv(c) ==
  /\ Consistent(hidState[c])
  /\ InputOfClient(hidState[c], c, clientTick[c])
  /\ IF hidState[c].main = NoInput THEN clientTick[c] = 0
                                   ELSE hidState[c].main.tick = clientTick[c]

\* ... its pad shows none that is newer ...
ShownInv(c) == PadOf(c) # NoHandle => InputOfClient(PadOf(c), c, clientTick[c])

\* ... and what FlushState is to push is no older than the packet in hand.
PushInv ==
  pc \in {"flush", "reconnect", "push"} => \A p \in pkt :
    hidState[p.src].main # NoInput /\ hidState[p.src].main.tick >= p.tick

\* Inductive with ServiceInv: controllers, pads and the packet in hand agree at
\* each point between the hid calls.
PadInv ==
  /\ \A c \in Clients : StateInv(c) /\ ShownInv(c)
  /\ \A h \in Handles : Consistent(shown[h])
  /\ PushInv

\* When hid detaches what it is asked to, no device is left behind that could
\* use up the handles.
AbortInv == "detach" \notin MayFail => leaked = {}

--------------------------------------------------------------------------------
Board == INSTANCE PadBoard WITH
           pads <- [c \in Clients |-> PadOf(c)], NoPad <- NoHandle

\* The service implements the board of pads: a pad appears blank, shows only
\* inputs of its own client, never goes back to an older one, and vanishes.
BoardSpec == Board!BoardSpec

--------------------------------------------------------------------------------
Ended == ~running \/ ~Alive

\* The pad of client c shows an input of the program that runs there now.
ShowsCurrent(c) ==
  hdlsHandle[c] \in attached /\
  LET main == shown[hdlsHandle[c]].main
  IN  main # NoInput /\ main.src = c /\ main.epoch = client[c].epoch

\* A client that keeps sending is shown, also after it restarted with ticks
\* lower than those its controller has seen and ignores, and after the console
\* detached its pad (unless the console detaches pads, or the network resets
\* sockets, for ever).  What can go wrong is what nobody looks at: a failed
\* reconnection, until the controller is removed, and a failed bind.
LiveClientIsShown ==
  []<><<ConsoleDetaches>>_vars \/ []<>SocketFails \/
  \A c \in Clients :
    (running /\ client[c].live) ~>
      (ShowsCurrent(c) \/ ~client[c].live \/ Ended \/ Stranded(c) \/ sock = "unbound")

\* A controller that has been inactive too long goes away (or hears from its
\* client): that of a client that left without EXIT, or of which a packet came
\* in after it had left, and a stranded one.  As recvfrom blocks, another client
\* has to send, and on an unbound socket no packet comes in at all.
InactiveIsRemoved ==
  \A c \in Clients :
    (c \in controllers /\ Inactive(c)) ~>
      (c \notin controllers \/ ~Inactive(c) \/ Ended \/ sock = "unbound" \/ \A d \in Clients : ~client[d].live)

\* Stop() is answered: the thread ends, as long as some client sends to a
\* socket that is bound.
StopEndsThread ==
  (owner = "waiting") ~> (pc \in {"done", "aborted"} \/ sock = "unbound" \/ \A d \in Clients : ~client[d].live)

\* A socket on which recvfrom fails is replaced, once MaxErrors errors are counted.
FailingSocketIsReplaced ==
  (InLoop /\ SocketFails) ~> ((pc = "error" /\ ReplacesSocket) \/ Ended)
================================================================================
