# Verification of switch-sys-tweak

TLA+ models of switch-sys-tweak, the TLC configurations that check them on
small instances, and proofs, checked by TLAPS, that hold for all values of the
constants. Paths below are relative to the repository; `ams/` stands for
`lib/ams/libstratosphere/`.

Contents: 1 the system, 2 the modules, 3 how states and actions correspond to
the code, 4 the runs, 5 fairness, 6 the proofs, 7 findings, 8 limits, 9 plan.

## 1. The system

switch-sys-tweak is a background process of the console. `main`
(`src/main.cpp`) starts up to four activities, which share little state:

| part | source | state it keeps | operations | correct when |
|---|---|---|---|---|
| VirtualController | `src/virtual_controller.cpp` | handle, last input (`hidState`), `clientTick`, `lastUpdateTick` | Connect, Disconnect, SetState, FlushState | a pad shows its own client's inputs, never an older one after a newer; no device is left attached |
| VirtualControllerService | `src/virtual_controller_service.cpp` | map address -> controller, socket, error count, `running` | Start, Stop, the receive loop, Cleanup | a live client is shown in the end; a silent one removed; Stop gives everything back |
| HotkeyService | `src/hotkey_service.cpp` | per pad and combination: first tick, `longPressed` | Start, Stop, the polling loop | each press seen gets one action, long or short |
| service threads | both services, `ams/source/os/impl/os_thread_manager.cpp` | `running`, `threadMutex`, thread state, `cs_thread` | Start, Stop, destructor | the loop never outlives its service; every call returns |
| MitmManager and query server | `src/mitm_manager.cpp`, `ams/source/sf/hipc/sf_hipc_server_manager.cpp`, `ams/source/os/impl/os_waitable_manager_impl.cpp` | wait lists, events, session pool | RegisterServers, LoopProcess, OnNeedsToAccept, RegisterMitmQueryHandle | no port, session or wake-up is forgotten; no handle leaks |
| FileUtils | `src/file_utils.cpp` | `g_has_initialized`, the initialisation thread, the log mutex | InitializeAsync, WaitInitialized, LogLine, Exit | nothing uses the file system before it is there; nobody waits for ever |
| mitm services | `src/nsvm_mitm_service.cpp`, `src/ns_srvget_mitm_service.cpp` | forwarded service objects | filters, hooks, forwards | the reported size fits the buffer; overrides do not disturb other fields |
| inih | `lib/inih/ini.c` | none (a parser) | ini_parse | each line gives its handler call |
| expandable heap | `ams/source/lmem/impl/lmem_impl_exp_heap.cpp` | free list, used list, mode | allocate, free, resize, adjust | blocks never overlap and stay in place, memory is lost only where the code drops it |
| read-write lock | `ams/source/os/impl/os_rw_lock_target_impl.os.horizon.cpp` | one word of counters and a handle, two condition variables | acquire, try and release, for reading and writing | a writer is alone |

The last two belong to the vendored library; the program creates no such heap
and takes no such lock.

How they interact:

* A client program (3dsnxcontroller) sends `ControllerPacket` datagrams to UDP
  port 4123. The service thread receives them, finds or creates the controller
  of the sender's address, and hands the input to hid:dbg; the console shows it
  to games as a pad.
* The console may detach a pad at any time; `FlushState` finds out with its
  next packet.
* The polling thread of HotkeyService reads the pads through hid and sends
  button presses through appletAE's debug functions.
* The owner of a service (the main thread) starts and stops it; `running` is
  read by the loop without the mutex.
* Client processes of the console call the mitm services through sessions
  which the main thread serves one at a time (`LoopProcess`); the control data
  hook, called from there, waits for FileUtils.
* The query server's thread asks `ShouldMitm` of the services; the thread that
  registers servers hands it one session per service.

What is hard here: packets lost, doubled, late or reordered; a client that
restarts with lower ticks; devices that vanish between two hid calls; hid calls
that fail half-way; a blocking receive that everything else in the loop waits
for; presses that must be neither lost nor doubled when a pad is swapped while
held; Start, Stop and destruction from several threads; an event cleared, a list
taken and a wait begun while another thread registers a session; a session slot
that is free before its handle is closed. `PROJECT.json` lists each hazard at
its line, with the properties that cover it.

## 2. Modules

| module | models |
|---|---|
| `VirtualController` | the class, as functions from client addresses to its members, and hid:dbg |
| `VirtualControllerService` | the service: EXTENDS `VirtualController`; the thread, its owner, the clients, the network, the clock |
| `PadBoard` | what the player is promised: the abstract specification of the service |
| `HotkeyService` | the polling thread, the cache of combinations, the players |
| `ServiceThread` | Start, Stop and the destructor on libstratosphere's threads |
| `ServerManager` | the server loop, its wait on ports and sessions, the session pool, registration from another thread, the clients |
| `FileUtils` | the thread that mounts the card, the flag, the log of all threads |
| `Ini` | the parser, and a reference definition of the calls it makes |
| `MitmServices` | `main` and the commands of the mitm services: EXTENDS `FileUtils` and `Ini`, which they wait for, log to and read with |
| `Allocator` | what a heap promises its users: the abstract specification of `ExpHeap` |
| `ExpHeap` | the expandable heap |
| `ReadWriteLock` | the read-write lock |
| `MC...`, one per component | values of the constants for TLC |
| `VirtualControllerService_proof`, `HotkeyService_proof`, `ServerManager_proof`, `MitmServices_proof`, `ServiceThread_proof`, `ExpHeap_proof`, `Ini_proof` | theorems and proofs of one module each; `MitmServices_proof` EXTENDS `Ini_proof` too |
| `VirtualControllerPads_proof` | what the pads show, and the refinement of `PadBoard`: EXTENDS `VirtualControllerService_proof` |

Each module declares its parameters as CONSTANTS with a named ASSUME, has one
action per operation or atomic step of one, and states its properties at the
end. Definitions whose comment begins with "Mutant" are not part of the
specification: each is a plausible bug in the definition that follows it, used
to see that a property can fail. `PROJECT.json` maps every definition to its
lines of source.

## 3. State and actions

### VirtualController and VirtualControllerService

A `VirtualController` object is the value of `hdlsHandle`, `hidState`,
`clientTick` and `idle` (the age of `lastUpdateTick`) at its client's address.
`Connect`, `Disconnect`, `Delete`, `SetState` are operators; `FlushState` is
three hid calls, and the console, the clock, the network and `Stop` may act
between them, so it is three actions (`FlushQuery`, `FlushReconnect`,
`FlushPush`). An input is an identity (client, program run, tick) rather than
stick positions and buttons; a sensor vector is the identity of the input it
came with, so that a stale vector can be told from a current one.

`pc` is the point of `ProcessThreadFunc` and `ReceiveMessages`: sleep, init,
loop (`while(service->running)`), recv, lookup (the map), dispatch (EXIT or
state), flush, reconnect, push, error (count, replace the socket), tidy
(`Cleanup(false)` when due), final (`Cleanup(true)`), exit. Failures of
external calls are choices, switched on by `MayFail`: init, attach, query,
detach, set, socket, bind, reset.

The network is a set (reordered, delayed without bound, lost when never
received), and each packet may be doubled once. The clients send inputs with
the same or the next tick, leave with or without EXIT, and start again with
tick 0.

### PadBoard

One pad or none per client: a pad appears blank, then shows only inputs of its
client, never one with a lower tick than the one before, and vanishes. The
service implements it under the mapping `PadOf(c)`: the state hid shows for the
handle of c's controller while that is attached, else no pad. A restart of the
client or a removal for inactivity is a pad that vanishes and appears.

### HotkeyService

`combos` is `hotkeyCache`: per pad and combination the age of its first tick
(`NoTick` is the tick 0) and `longPressed`. `ProcessHidState` is one step, for
it reads the clock once. Buttons and style are two calls (`ReadButtons`,
`Process`), with the players between them. `owed`, `sinceUp` and `sampledOn`
are history variables, read by no guard: presses seen minus actions taken, the
time since the last poll that saw the combination up, and whose buttons were
read.

### ServiceThread

Program points of any number of callers of Start and Stop, of the owner that
destroys the service, and of the created thread (`InvokeThread`). The locks
are `threadMutex` and `cs_thread`; `StopReturns` waits for the kernel's
thread with `threadMutex` held, as `Stop` does. `R_ABORT_UNLESS` is the point
"aborted".

### ServerManager

A holder is a server (it owns a port) or a slot of the session pool. It is
linked to `waitable_manager` (`linked`, in order), stands in `waitlist`, or is
in the hands of a thread (`cur`, `fresh`, `incoming`). `slot` is the pool:
`AllocateSession` takes the lowest free slot, the model any, because nothing
depends on which. `sess` is the kernel's session as its client sees it: none,
given (in an answer not sent yet), idle, sent (a request waits), serving,
gone (closed by the client).

| action | code |
|---|---|
| `ProcessWaitList`, `ClearNotify`, `TakeSelected` | `WaitSignaled` |
| `LinkHolders`, `CheckSignaled`, `WaitFindsReady`, `Sleep`, `WakeUp`, `WaitCancelled`, `UnlinkHolders` | `WaitAnyImpl`, `WaitAnyHandleImpl` and the kernel's wait |
| `AcceptSession`, `AcceptAborts` | `OnNeedsToAccept`, `AcceptMitmSessionImpl` |
| `ReceiveRequest`, `ReceiveClosed` | `ReceiveRequestImpl`, `is_closed` in `ProcessRequest` |
| `DispatchRequest`, `DispatchNewObject`, `DispatchCloses`, `DispatchAborts` | a command answered with data; one that hands out an object or a clone; a Close or a failure; the pool used up, or no session to be had |
| `Reply`, `RegisterFresh`, `RegisterSelected` | `hipc::Reply`; `RegisterSessionToWaitList` and `RegisterToWaitList` |
| `DestroySession`, `CloseHandle` | `CloseSessionImpl`, cut where the slot is free and the handle still open |
| `RegistrarCreates`, `RegistrarLinks`, `RegistrarSignals`, `RegistrarReturns` | `RegisterMitmQueryHandle` in another thread, cut inside the critical section of `RegisterToWaitList` |

`SignalNotify` models `SignalEvent` with `SignalAndWakeupThread`: a signal that
finds the event watched sets `signaled_holder` and cancels the wait. The
cancellation stays pending until a wait sees it, as the kernel's does, so a
wait may be cancelled by a signal of an earlier round. The processing thread's
own calls of `RegisterToWaitList` are one step: it is not waiting then, and
holds `waitlist_mutex`.

### FileUtils, Ini and MitmServices

`boot` is the point of `g_init_thread`, `mounted` whether the card is there,
`initialized` the flag `g_has_initialized`. `LogLine` is cut where another
thread can come in between: the flag, which is read without the mutex, the
mutex, `fopen`, the write with `fclose`, and the unlock; `at` is where each
thread is in it, and a log line is its thread and number. `main` starts the
initialisation thread, registers the servers, starts the services and serves
requests; its own steps go on when its line has been logged.

| action | code |
|---|---|
| `InitializeTime`, `InitializeFs`, `MountCard`, `SetInitialized`, `InitializeReturns`, `InitializeFails` | `FileUtils::Initialize` in its thread, which aborts on a failure |
| `NeedsUpdateVulnerability` | the answer of ns:vm, given without asking the service |
| `ForwardFails`, `Forward` | `serviceDispatch` to ns, and the lines about it |
| `WaitsForFiles`, `WaitReturns` | `FileUtils::WaitInitialized`, by the thread that serves all sessions |
| `TooSmall`, `ReadConfig`, `ReadIcon`, `NoIconThere` | `_ProcessControlData` |

The answer's buffer is the fields that can be overridden and, per byte behind
the Nacp, where the byte comes from (ns, the card, nobody); so a size that
covers bytes of two pictures can be told. The lines of `config.ini` are records
of the kinds that `ini_parse_stream` tells apart; `Parse` folds `ParseLine`
over them, `Handler` folds over the calls. A line is what `fgets` returns: a
longer one comes in pieces, and a read error ends the file. A name is kept for
the next lines within `MAX_SECTION` and `MAX_NAME` (`cut`), the handler gets it
whole. `Files` is the set of files that are parsed.

### ExpHeap and Allocator

Addresses are in units of `MinimumAlignment`, 4 bytes. A free block is its
region; the free list is a sequence, for the search takes the first that fits
in its direction. A used block is its memory and the padding in its attributes.
`Position` and the joins of `CoalesceFreedRegion` are those of the loop over
the free list. `lost` is a history variable: the addresses behind a block that
are neither kept as a free block nor remembered, and the head of a block that
was resized to nothing (`Emptied`) and is freed with nothing free beside it
(section 7). `Allocator` sees of the heap the place and the size of each used
block: a block appears apart from all others and not empty, keeps its place
when resized, also when it is resized to nothing, and vanishes.

### ReadWriteLock

`lock_count` is the word the code changes with compare-and-exchange: its
counters and the thread handle with the wait bit. A loop that computes the new
word from the one it finds is one step; where the code goes on from a word it
read before, that word is state (`expected`, `local`). The kernel's arbitration
and the two condition variables are modelled from their use. `AMS_ASSERT` is
compiled out.

## 4. Runs

A passing run checks each property for all behaviours of its instance; every
one of these properties fails for at least one mutant of the code.
`CHECK_DEADLOCK FALSE` is set where the system may really stop: services are
stopped, threads end, `R_ABORT_UNLESS` ends the process, the bounded clients
have asked all they ask. `eh_heap` checks deadlock. The type invariants are
parts of the inductive invariants (`ServiceInv`, `HotkeyInv`, `ServerInv`,
`HeapInv`), which the runs check, or proved (`MitmInv`, `LifeInv`, `PadInv`,
`HolderInv`).

| run | instance | what it shows |
|---|---|---|
| `vc_devices` | 2 clients, 2 handles, every hid call may fail, tick constant, 1 packet in flight | no pad is leaked, shared or outlives the session (`NoOrphanDevice`, `HidOnlyInSession`); Stop gives everything back (`StopReleasesEverything`); the inductive invariant `ServiceInv`; the controller of a client that is silent, has crashed or has left, and a stranded one, is removed while the other client sends (`InactiveIsRemoved`) |
| `vc_inputs` | 1 client, 2 handles, ticks 0..2, sensor bits, 2 packets in flight, attach and set may fail | the service implements `PadBoard`: no reordering or doubling takes a pad back (`BoardSpec`); a sensor vector belongs to the input shown (`SensorsMatchInput`); a packet reported as flushed is on the pad, but for a controller that lost its handle in a failed reconnection (`HandledMeansShown`); a handle is there whenever a device is asked for (`NoNeedlessAbort`) |
| `vc_live` | 1 client started twice, ticks 0..1; attach, socket, bind, reset and hiddbg's initialisation may fail; foreign and short datagrams | a restarted client, ignored at first because of its lower ticks, is shown in the end unless its reconnection fails or bind did (`LiveClientIsShown`); Stop is answered (`StopEndsThread`), a socket on which recvfrom fails is replaced (`FailingSocketIsReplaced`) |
| `hk_press` | 1 pad, 5 sets of buttons, durations 1 and 2, ages to 3 | each press seen gets one action; a long one was held long enough; one held without end becomes long; one let go is forgotten |
| `hk_style_race` | 1 pad, 2 sets of buttons | violated: see section 7 |
| `st_calls` | 3 callers, 2 calls each | the loop runs only between Start and the end of Stop, the thread is closed after its end, only a Start after a finished Stop aborts, calls return |
| `sm_mitm` | 2 servers, 2 slots, 3 kernel sessions | every server and session is in exactly one place (`NoHolderLost`), handles have owners (`SessionsAreOwned`); requests are received, connections accepted, closed sessions freed |
| `sm_query` | no server, 3 slots, 4 kernel sessions, 3 registrations by the other thread | no registration is slept over (`NoLostWakeup`), the inductive invariant `ServerInv`, `ClosesOnlyServed` |
| `ms_requests` | `main`, the initialisation thread, 1 logging thread, 1 request of 9, every card call may fail | files are used on a mounted card and the log by one thread at a time (`FilesWhileMounted`), no line is lost (`NoLineLost`); the size of an answer fits (`SizeFits`), its icon is one picture (`OnePicture`), its fields are ns's or all of `config.ini`'s (`FieldsAreOneFiles`); each request is answered (`EveryRequestAnswered`); the parser agrees with its reference on every file of `Files` (`ParserMeetsReference`) |
| `eh_heap` | 16 units of memory, heads of 2, blocks of 1, 2 and 5, alignments 1 and 4, both directions and modes, resizes to 0, 1, 2 and 5 | regions are apart and in order (`HeapInv`), memory is lost only behind a block at its allocation and with emptied blocks (`BytesAreAccounted`), `GetExpHeapAllocatableSize` is true (`AllocatableIsFound`), the heap implements `Allocator` (`AllocatorSpec`) |
| `eh_assertion` | the same with 14 units | violated: see section 7 |
| `rw_assertion` | 2 threads, each takes the lock once | violated: see section 7 |

Why the bounds are enough:

* Clients are independent except for the handles they share and the one packet
  in hand, so two of them show every way to mix two up; two handles are one for
  each, of which a failed detach takes one away. The safety properties of
  `vc_devices` are proved for any number of either. With two packets in flight
  (`vc_inputs`) every reordering of two inputs and a double of one occurs;
  three ticks give an older, an equal and a newer one. `MaxEpoch` 2 is one
  restart.
* `InactiveIsRemoved` needs two clients: the one whose controller is to go is
  silent, has crashed or has left, and the other drives `recvfrom`. One packet in
  flight is enough: a packet sent before a crash and received after it leaves
  the state that one coming in after EXIT does, a controller whose client is
  not there. Attach may fail, so the controller may also be a stranded one.
* `InactiveLimit`, `CleanupPeriod`, `Duration` are in units of the model's
  clock; with limits of 0, 1 and 2 the ages lie just before, at and just after
  each limit. Ages saturate one above the largest limit, where the code can no longer tell
  them apart.
* `MaxErrors` is 100 in the code, 2 in `vc_live`: an error below the limit and
  one at it; the count does not matter to the properties of the runs with 1. `TypeOK` keeps the count below the limit for any
  value.
* The pads of HotkeyService do not interact, so a run has one; the theorems
  hold for any number.
* The loop of the server touches at most two slots at a time (the session in
  hand and a new one); with the two slots of `sm_mitm` the pool is empty,
  partly used and used up. `sm_query` adds a third that the other thread
  takes between `DestroySession` and `CloseHandle`. There is one kernel
  session more than slots, since a handle outlives its slot by one step.
  Slots and handles are permuted by `Symmetry` in `sm_query`, which has no
  liveness property; no definition names one of them.
* `ms_requests`: with `main`, the initialisation thread and one more, three
  threads meet at the log, so that two can wait for the mutex and a line can
  come before, while and after the card is mounted. Each request starts from a
  fresh buffer and no request leaves state behind, so one is enough; the 9
  differ in the command, in buffers smaller than, equal to and larger than the
  Nacp, in icons smaller and larger than ns's and the room, and in overrides
  inside, outside and after their section. The parser's state after a line is
  the section, the name before and the first error; every file of up to four
  lines over 15 (`AllFiles`: each kind, indented or not, names empty, long or in
  the section) reaches each of its values from each other. The theorems hold for
  files of any length.
* `eh_heap`: 16 units hold up to five blocks, so a freed region has free blocks
  on neither, either and both sides; blocks of 5 leave margins too small to
  keep; alignment 4 gives paddings of 0 to 3.
  `MinimumFreeBlockSize` 1, `HeadSize` 2 and `MaximumPaddingAlignment` 4 keep
  the order of the real 1, 8 and 32.
* `vc_live` has one handle, for one client has one controller at a time; its
  two ticks and two starts let a restarted client be older than its controller.

## 5. Fairness

* `VirtualControllerService`: weak fairness of the thread (its calls return
  and it is scheduled) and of the clock; strong fairness of sending and
  receiving for each live client. Strong because sending is disabled while
  the bounded network is full. A client does send for ever: 3dsnxcontroller
  sends its state periodically. That some packets arrive is necessary, for
  `recvfrom` blocks without a timeout and nothing else drives the loop; the
  liveness properties end with "no client is live" where that matters.
  Nothing is assumed of crashes, restarts, failures or detachments;
  `LiveClientIsShown` excepts a console that detaches pads or resets the
  socket for ever, a controller whose reconnection failed, and a socket that
  could not be bound, on which `recvfrom` waits for ever.
* `HotkeyService`: the thread and the clock. `HeldBecomesLong` and
  `ReleaseIsSeen` except pads swapped for ever.
* `ServiceThread`: the created thread, each call once begun, and the
  destruction; a lock that is free again and again goes to each waiter. No
  caller is obliged to call.
* `ServerManager`: weak fairness of the processing thread and of the
  registering thread once it has begun. Nothing is assumed of clients.
  `RequestIsReceived` needs no fairness between sessions: a served holder is
  registered again at the end of the list, and the wait returns the first
  ready one, so the order of the list itself prevents starvation (the mutant
  that registers at the front starves a session).
* `MitmServices`: weak fairness of `main`, of the initialisation thread and of
  each thread in `LogLine`; strong fairness of taking the log's mutex, because
  other threads may take it again and again in between. Nothing is assumed of
  clients, nor that anybody logs.

## 6. Proofs

TLAPS checks these theorems, for every value of the constants that meets the
modules' assumptions (finite sets of clients, handles, slots; distinct special
values; limits that are naturals).

| theorem | says |
|---|---|
| `VirtualControllerService_proof!TypeCorrect` | `Spec => []TypeOK`: in particular `errorCount` stays below `MaxErrors` |
| `ServiceInvariant` | `Spec => []ServiceInv` |
| `DevicesAreOwned`, `SessionCoversDevices`, `StopReleases` | `NoOrphanDevice`, `HidOnlyInSession`, `StopReleasesEverything` |
| `VirtualControllerPads_proof!PadInvariant` | `Spec => [](ServiceInv /\ PadInv)` |
| `SensorsAreCurrent`, `FlushedIsShown`, `AbortsOnlyForHid` | `SensorsMatchInput`, `HandledMeansShown`, `NoNeedlessAbort` |
| `ServiceImplementsBoard` | `Spec => BoardSpec`: the service implements `PadBoard` |
| `HotkeyInvariant` | `Spec => []HotkeyInv` |
| `EveryPressActsOnce`, `LongPressesAreLong` | `OneActionPerPress`, `LongPressWasHeld` |
| `SnesWithoutSwaps` | `SnesButtonsOnly`, when no pad is swapped between the two calls that read it |
| `ServerManager_proof!TypeCorrect` | `Spec => []TypeOK` |
| `ServerInvariant` | `Spec => []ServerInv` |
| `WakeupsAreKept`, `SessionsHaveOwners`, `ClosesOnlyItsOwn` | `NoLostWakeup`, `SessionsAreOwned`, `ClosesOnlyServed` |
| `HoldersArePlaced` | `NoHolderLost` |
| `MitmInvariant` | `Spec => []MitmInv` |
| `FilesAreThere`, `LinesAreKept`, `SizesFit`, `IconsAreWhole` | `FilesWhileMounted`, `NoLineLost`, `SizeFits`, `OnePicture` |
| `FieldsAreWhole` | `FieldsAreOneFiles`: an answer has the overrides of the whole file or none |
| `ParserIsRight` | `ParserMeetsReference` |
| `Ini_proof!CallsAreTheFiles`, `ErrorIsTheFiles` | for a file of any number of lines, `Parse` makes the calls and reports the line that the file as a whole says |
| `LifeInvariant` | `Spec => []LifeInv` of `ServiceThread` |
| `AssertionAlwaysFails` | the assertion of `DestroyThread` (`DestroyAssertion`) is false whenever the destructor reaches it |
| `ServiceOutlivesLoop`, `ExitBeforeClose`, `OnlyRestartAborts` | `LoopOnlyWhileServiceLives`, `ClosedAfterExit`, `AbortsOnlyOnRestart` |
| `ExpHeap_proof!RegionsStayApart` | `Spec => []HeapInv` |
| `BytesAreKept`, `AllocatableIsRight` | `BytesAreAccounted`, `AllocatableIsFound` |
| `HeapImplementsAllocator` | `Spec => AllocatorSpec`: the heap implements `Allocator` |
| `FreeIsAsserted` | `NothingEmptied` implies `Spec => []FreeSucceeds` |

`FilesAssumption` says that files are sequences of `IniLine`, with no bound on
their number or length; an `IniLine` keeps something of a name if and only if it
has one, for `strncpy0` keeps at least a character. `StateAssumption` (`NoHandle` is no hid state) only keeps the two values of a
pad in `PadBoard` apart. `HeapAssumption` asks that requested sizes hold a
block, for `AllocateFromExpHeap` raises 0 to 1, and that a margin that holds no
block fits the padding; sizes of resizes are any naturals. `NothingEmptied` says
that resizes, too, leave room for a block. The code does not establish it
(section 7), so it is a hypothesis of `FreeIsAsserted` alone, which says that
such resizes are the only way to a false assertion; `eh_assertion` shows one.

The inductive invariants, each checked by TLC before its proof (`PadInv`,
`HolderInv`, `FreeSucceeds`, `MitmInv` and `LifeInv` on the instances of the
runs, which list only what follows from them):

* `ServiceInv` adds to `TypeOK` and `NoOrphanDevice`: the packet in hand has
  its controller in the map, and one being reconnected has no handle
  (`PacketInv`; without it a reconnection could overwrite a handle and leak
  the device); leaked devices are attached; what has been acquired at each
  point of the thread (`SessionInv`; `StopReleasesEverything` follows from
  its last lines, because Stop returns only when the thread is done).
* `HotkeyInv` adds to `OneActionPerPress`: `longPressed` is only set for a
  combination being held, and its tick is no older than the time since it was
  last seen up. The second gives `LongPressWasHeld`; without the first a
  release would lose the action it owes.
* `ServerInv` is `TypeOK`, `WakeupInv`, `SessionInv`, `SessionsAreOwned`.
  `WakeupInv` is the argument for `NoLostWakeup`: a holder to link keeps the
  event signalled until the list is taken again, a signal that finds the event
  watched chooses the holder and cancels the wait, and `LinkHolders` sees a
  signal from before it. `SessionInv` says that the session in hand has a slot
  and is being served or closed by its client; `ClosesOnlyServed` and the
  ownership of handles rest on it.
* `MitmInv` adds to the four properties the types and `BufferInv`: what is
  known of the buffer between the wait for the card and the change of its
  icon. Mutual exclusion at the log is `LogInv`: who is between lock and unlock
  holds the mutex, and the file is open exactly while its holder writes; that
  is why `fopen` never finds the file open, and why no line is lost.
* `Knows(s, file, n)` is the induction for the parser: after n lines the section
  and the name kept are those of the last lines of their kind, a value may go on
  where the file says so, the error is the first bad line, and the calls are
  those of the calling lines in their order. `KnowsNext` carries it over a line,
  with one lemma for each part of the reference (`OpenStep`, `LastKeyStep`,
  `BadStep`, `CallingStep`). Two things come before it. The library's induction
  takes a predicate as parameter, so `NatSetInduction` says the same of a set
  and is proved from the well-foundedness of the naturals. And the fold of the
  community modules is a recursive function, given by CHOOSE: `FoldExists` shows
  that there is one, by the same induction, before `ParsingExists` may use it.
* `FieldsInv` adds to `FieldsAreOneFiles` that the fields are ns's until
  `ReadConfig`, which acts for control data only and with the card mounted; `ConfigOverrides` says what `Handler` makes of all calls
  (induction over their number, `HandlerStep`), with `CallsAreTheFiles` for the
  calls themselves.
* `SnesWithoutSwaps` uses `HotkeyInv` and that the style at the second read is
  the one at the first. The finding `hk_style_race` thus has that race as its
  only cause.
* `LifeInv` relates the holders of `threadMutex` and `cs_thread` to the callers'
  program points (`LockInv`), says that the destructor runs alone and what it
  knows of the thread at each point (`OwnerInv`), ties libstratosphere's state
  to the kernel's thread (`StateInv`), and says that a thread that runs is
  wanted or waited for (`WaitInv`). The last gives
  `LoopOnlyWhileServiceLives`; it holds because `running` changes only under
  `threadMutex`, and `Stop` keeps the mutex until the thread has ended.
* `PadInv` joins three places that hold an input: the controller
  (`StateInv`: its state is an input of its client with tick `clientTick`, and
  its sensor vectors came with it), the pad (`ShownInv`: nothing newer than the
  controller), and the packet in hand (`PushInv`: what a flush is about to push
  is no older). `SetState` changes only the first, `FlushPush` the second, and
  hid calls of `FlushState` come in between; so `BoardSpec` needs that what is
  pushed is at least as new as what is shown, for which `PushInv` and
  `PacketInv` are needed together with the check of ticks in `SetState`.
  `HandledMeansShown` has two parts: `FlushedPackets` (the push, and the early
  return) and `OnlyReconnectionsStrand` (no other step takes a handle away and
  leaves the controller in the map), for which `PacketInv` is needed.
  `NoNeedlessAbort` follows from `AbortInv` (nothing is leaked while hid
  detaches) by counting: when all handles are taken, there is an injection of
  handles to the controllers that have one, so every client has one and none is
  left to ask.
* `HolderInv` adds to `NoHolderLost` that nothing is `incoming` outside the
  critical section. The proof counts: `Times(list, x)` of a concatenation, an
  append, a tail and a list without an element are lemmas, and each step moves
  one occurrence of a holder from one place to another.
* `HeapInv` is inductive: the free list in the order of addresses with
  something between neighbours, all regions inside the heap and apart, and each
  free block large enough to be cut into a used one. The lemmas follow the code: `Replaced` and
  `ReplacedInOrder` say what an exchange of part of a list is and when it keeps
  the order, `Coalesced` what `CoalesceFreedRegion` returns for a region that is
  apart from the list (its place, the two joins, the case that is too small),
  `Leftovers` how a free block is cut into margins, padding and a used block,
  and `Freed` and `Pieces` what that means for all other regions. The cells of
  these lemmas give `BytesAreAccounted`. `Min` and `Max` are CHOOSE expressions;
  that they exist is proved from the well-foundedness of the naturals.
* The refinement of `Allocator` maps each used block to its place and size. It
  needs `HeapInv` before and after a step: places of different blocks differ,
  because heads lie between them even when a block is empty.

Only model-checked: liveness (fairness and ENABLED are outside of the prover's
reach). Beside the runs that expect a violation, `SnesWithoutSwaps` and
`FreeIsAsserted` say what alone leads to it; `rw_assertion` has no theorem.

## 7. Findings

* `hk_style_race` (`SnesButtonsOnly`): README.md:14 promises CAPTURE and HOME
  for NSO SNES controllers. `PollHidStates` reads the buttons first and the
  style set with a second call; when an NSO SNES controller takes the place of
  another pad in between, the other pad's ZL + L begin a CAPTURE press. There
  is no other way to one (`SnesWithoutSwaps`).
* `eh_assertion` (`FreeSucceeds`): `AllocateFromExpHeap` raises a size of 0 to
  1 (`lmem_impl_exp_heap.cpp:432`), `ResizeExpHeapMemoryBlock` does not
  (`:477`), so a block can be shrunk to its head. When the memory it gave back
  is allocated again, `CoalesceFreedRegion` finds its region too small (`:236`),
  and `FreeToExpHeap` fails its assertion (`:464`) or, without assertions, loses
  the head. Three calls lead there: allocate 1, resize to 0, allocate 1.
  There is no other way to it (`FreeIsAsserted`). The program creates no such
  heap.
* `rw_assertion` (`WriterIsAlone`): `AcquireWriteLock` marks a free lock with
  `SetWriteLocked` only (`os_rw_lock_target_impl.os.horizon.cpp:261`) and does
  not set the thread handle, by which alone the next call sees a writer
  (`:249`); `TryAcquireWriteLock` sets it (`:326`). A second thread gets the
  write lock while the first has it, and the assertion of `:298` is false. (With
  assertions compiled in, that of `:248`, which this second thread passes first,
  stops it already; the model has none.) Nothing in the repository takes the
  lock.

Met while modelling, without a run:

* `DestroyThread` asserts, after waiting for the thread's end, that its state is
  Initialized (`os_thread_manager.cpp:125`), but a thread that has ended is
  Terminated. A build with assertions stops in every destructor; release builds
  compile the assertion out. `AssertionAlwaysFails` proves it.
* README.md:18 names the log `sdmc:/sys-tweak.log`, `src/file_utils.hpp:27`
  writes `/sys-tweak.txt`.
* The read-write lock, with the handle set as `TryAcquireWriteLock` does it,
  shows more: the last reader's `ReleaseReadLock` takes its count off twice
  (`:195`-`:213`, against the assertion of `:211`; without assertions the count
  wraps and a writer waits for ever); `ReleaseWriteLockImpl` (`:62`-`:65`) and
  `AcquireReadLock` (`:130`-`:139`) go on from the word they read before a
  failed exchange, and a waiter can sleep for ever.
* The expandable heap forgets the margin behind an allocated block that is too
  small to keep (`lmem_impl_exp_heap.cpp:272`-`:275`): freeing the block does not
  give it back. `BytesAreAccounted` counts those bytes in `lost`.
  `AllocateFromTail` puts a block at the aligned start of the last free block
  that fits, not at its end.
  `CreateExpHeap` (`:371`-`:376`) checks the size for a block head and 4 bytes,
  not for the head of the heap itself.

## 8. Limits of the models

* A reconnection that fails leaves a controller with handle 0 in the map;
  `FlushState` then returns success and shows nothing until the client is
  silent for ten seconds. The model has this (`Stranded`): `HandledMeansShown`
  and `LiveClientIsShown` except such a controller, `HandledMeansShown` also says
  that nothing but a failed reconnection makes one, and `InactiveIsRemoved` that
  it goes away once its client is silent and another sends.
* `bind` may fail unnoticed; `recvfrom` then blocks for ever on an unbound
  socket (`sock = "unbound"`). The model has this too, and
  `LiveClientIsShown` excepts it.
* hid:dbg is modelled from its use, with the assumption that a handle some
  controller remembers is not given to another device.
* Each packet is doubled at most once, and packets of a service that has ended
  are left out.
* `ServiceThread` takes a step under `cs_thread` as atomic where the lock is
  taken and released with no wait between.
* `request_stop_event` is never signalled in this program (`LoopProcess` does
  not return, so `main.cpp:114` is not reached) and is left out; so are
  domains (`MaxDomains` is 0), deferral (no service here returns
  RequestDeferred or RequestInvalidated), and destruction of servers.
* A pool of sessions that is used up aborts the process, and so does a kernel or
  a forwarded service that fails to give a session (`AcceptAborts`,
  `DispatchAborts`: at any time). The pool counts the services' sessions, not the objects
  they hand out; whether it suffices depends on the console's programs.
* `MitmServices` models a build with logging. `FileUtils::Exit` is never
  called and left out. `main` calls `InitializeAsync` before anything waits,
  so the FALSE of `WaitInitialized` is in the model and not reached. The result
  of `ini_parse` is ignored by the code. `ini_parse_string`, which nothing
  calls, and options the build does not set are left out. Commands that are forwarded without a hook answer what ns answers.
* A field's value is a member of a small set; that `strncpy` and the sizes of
  the Nacp's fields cut it is left out.
* `ExpHeap` leaves out group ids, magic numbers, visiting, the fill patterns
  and the wrapper that locks a heap with a mutex; `Resize` to the block's own
  size and calls that fail change nothing and are no steps. The arithmetic does
  not wrap: addresses lie within the heap.

### Not modelled

* `__appInit`, `__appExit` and what follows `LoopProcess` in `main`:
  libnx calls in a row without state of this program.
* The rest of the vendored library: IPC marshalling and message buffers
  (templates that compute a layout at compile time), service types and headers
  of constants, the intrusive containers, the TLS heap, frame and unit heaps,
  tipc, capabilities, the loader and boot images. The program does not reach
  them, or they keep no state beyond a call. They are most of the
  implementation's lines, so the models cover a small share of it: all of
  the program's own source that changes state, and of the library what runs
  under it (threads, wait lists, sessions) with two components that have
  behaviour of their own.
* Generated headers and build files.

## 9. Plan

Done: the modules of section 2, in the order of their importance to a user:
virtual controllers, hotkeys, service threads, server manager, the file system
with the requests that wait for it, then the library's heap and lock.

All safety properties of the passing runs are proved, the parser's for files of
any length, and so are both refinements.

Left: a lock that keeps its promise (`ReadWriteLock` stops at its finding), and
the slots that objects and clones take of the session pool, which depend on the
console's programs.

## 10. Running

    tlc -config VCDevices.cfg MCVirtualControllerService.tla
    tlapm ServerManager_proof.tla

`PROJECT.json` lists the module and configuration of each run. Each takes
between seconds and two minutes; the proofs take a few minutes each.
