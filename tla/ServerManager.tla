----------------------------- MODULE ServerManager -----------------------------
(***************************************************************************)
(* ServerManager of libstratosphere, as MitmManager and the query server    *)
(* of mitm_manager.cpp use it: one thread waits for ports and sessions and  *)
(* serves them one at a time; another may register sessions meanwhile.      *)
(*                                                                          *)
(* A holder (a server, which owns a port, or a session's slot in the pool)  *)
(* is linked to waitable_manager, or stands in the waitlist, or is in the   *)
(* hands of a thread.  request_stop_event is never signalled in this        *)
(* program and is left out.  Clients and the kernel's sessions (Handles)    *)
(* are modelled from their use.                                             *)
(***************************************************************************)
EXTENDS Integers, Sequences, FiniteSets

CONSTANTS
  Servers,           \* the registered servers
  Slots,             \* the pool of session objects
  Handles,           \* bound on the kernel sessions that exist at a time
  MaxRegistrations,  \* sessions the other thread registers (RegisterMitmQueryHandle)
  Notify,            \* notify_event_holder
  Nobody

Holders == Servers \cup Slots

ASSUME ServerAssumption ==
  /\ IsFiniteSet(Servers) /\ IsFiniteSet(Slots) /\ IsFiniteSet(Handles)
  /\ Servers \cap Slots = {}
  /\ Cardinality(Handles) > Cardinality(Slots)
  /\ MaxRegistrations \in Nat
  /\ Notify \notin Holders \cup {Nobody}
  /\ Nobody \notin Holders \cup Handles

VARIABLES
  linked,      \* waitable_manager's list, after the two events
  waitlist,    \* the holders to link
  mutex,       \* the other thread holds waitlist_mutex
  notify,      \* notify_event is signalled
  watched,     \* notify_event_holder is in the event's object list
  signaled,    \* signaled_holder
  cancel,      \* a CancelSynchronization the thread has not seen yet
  slot,        \* [Slots -> session_handle, Nobody when free]
  pc,          \* program point of the processing thread
  cur,         \* the holder selected
  fresh,       \* the session it registers, or the handle it closes
  registrar,   \* program point of the registering thread
  incoming,    \* the slot that thread registers
  registrations,
  sess,        \* [Handles -> the kernel session, seen from its client]
  pending      \* [Servers -> a connection waits on the port]

waitVars  == <<linked, waitlist, mutex, notify, watched, signaled, cancel>>
loopVars  == <<pc, cur, fresh>>
otherVars == <<registrar, incoming, registrations>>
vars == <<waitVars, loopVars, otherVars, slot, sess, pending>>

--------------------------------------------------------------------------------
\* RegisterServers has linked every server.  A query server's thread is
\* started by the first registration.
Init ==
  /\ linked \in {s \in [1..Cardinality(Servers) -> Servers] :
                   \A i, j \in DOMAIN s : s[i] = s[j] => i = j}
  /\ waitlist = <<>>
  /\ mutex = FALSE
  /\ notify = FALSE
  /\ watched = FALSE
  /\ signaled = Nobody
  /\ cancel = FALSE
  /\ slot = [s \in Slots |-> Nobody]
  /\ pc = IF MaxRegistrations = 0 THEN "move" ELSE "unstarted"
  /\ cur = Nobody
  /\ fresh = Nobody
  /\ registrar = "idle"
  /\ incoming = Nobody
  /\ registrations = 0
  /\ sess = [h \in Handles |-> "none"]
  /\ pending = [p \in Servers |-> FALSE]

Goto(from, to) == pc = from /\ pc' = to

FreeSlots == {s \in Slots : slot[s] = Nobody}
Unused == {h \in Handles : sess[h] = "none"}

\* What the kernel says of a holder's handle.
Ready(x) == IF x \in Servers THEN pending[x]
            ELSE slot[x] # Nobody /\ sess[slot[x]] \in {"sent", "gone"}

\* SignalEvent, and SignalAndWakeupThread for a manager that watches the event.
SignalNotify ==
  /\ notify' = TRUE
  /\ IF ~notify /\ watched /\ signaled = Nobody
       THEN signaled' = Notify /\ cancel' = TRUE
       ELSE UNCHANGED <<signaled, cancel>>

\* RegisterToWaitList by the processing thread, which does not wait meanwhile.
RegisterToWaitList(x) ==
  /\ ~mutex
  /\ waitlist' = Append(waitlist, x)
  /\ SignalNotify
  /\ UNCHANGED <<linked, mutex, watched>>

--------------------------------------------------------------------------------
(* WaitSignaled, with the WaitAny of WaitableManagerImpl. *)

\* Mutant: a session stays in front after it was served.
ProcessWaitListInFront ==
  /\ Goto("move", "link")
  /\ ~mutex
  /\ linked' = waitlist \o linked
  /\ waitlist' = <<>>
  /\ signaled' = Nobody
  /\ UNCHANGED <<mutex, notify, watched, cancel, cur, fresh, otherVars, slot, sess, pending>>

\* ProcessWaitList.
ProcessWaitList ==
  /\ Goto("move", "link")
  /\ ~mutex
  /\ linked' = linked \o waitlist
  /\ waitlist' = <<>>
  /\ signaled' = Nobody
  /\ UNCHANGED <<mutex, notify, watched, cancel, cur, fresh, otherVars, slot, sess, pending>>

\* Mutant: notify_event is cleared after the wait list has been taken.
LinkHoldersClears ==
  /\ Goto("link", "check")
  /\ watched' = TRUE
  /\ notify' = FALSE
  /\ cur' = Nobody
  /\ UNCHANGED <<linked, waitlist, mutex, signaled, cancel, fresh, otherVars,
                 slot, sess, pending>>

\* LinkHoldersToObjectList: cur is what it found signalled.
LinkHolders ==
  /\ Goto("link", "check")
  /\ watched' = TRUE
  /\ cur' = IF notify THEN Notify ELSE Nobody
  /\ UNCHANGED <<linked, waitlist, mutex, notify, signaled, cancel, fresh, otherVars,
                 slot, sess, pending>>

\* "Check if we've been signaled."
CheckSignaled ==
  /\ pc = "check"
  /\ cur' = IF signaled # Nobody THEN signaled ELSE cur
  /\ pc' = IF cur' # Nobody THEN "unlink" ELSE "wait"
  /\ UNCHANGED <<waitVars, fresh, otherVars, slot, sess, pending>>

\* A wait returns holder x; signaled_holder is set under cs_wait.
WaitReturns(x) ==
  /\ pc' = "unlink"
  /\ cur' = x
  /\ signaled' = x
  /\ UNCHANGED <<linked, waitlist, mutex, notify, watched, cancel, fresh, otherVars,
                 slot, sess, pending>>

\* svcWaitSynchronization returns the first handle that is ready ...
WaitFindsReady ==
  /\ pc = "wait"
  /\ \E i \in DOMAIN linked :
       /\ Ready(linked[i])
       /\ \A j \in 1..(i - 1) : ~Ready(linked[j])
       /\ WaitReturns(linked[i])

\* ... or sleeps until one gets ready ...
Sleep ==
  /\ Goto("wait", "asleep")
  /\ ~cancel
  /\ \A i \in DOMAIN linked : ~Ready(linked[i])
  /\ UNCHANGED <<waitVars, cur, fresh, otherVars, slot, sess, pending>>

WakeUp ==
  /\ pc = "asleep"
  /\ \E i \in DOMAIN linked : Ready(linked[i]) /\ WaitReturns(linked[i])

\* ... or says WaitCancelled, which an earlier wait may have left behind.
WaitCancelled ==
  /\ \/ pc = "wait" /\ \A i \in DOMAIN linked : ~Ready(linked[i])
     \/ pc = "asleep"
  /\ cancel
  /\ cancel' = FALSE
  /\ IF signaled # Nobody
       THEN cur' = signaled /\ pc' = "unlink"
       ELSE pc' = "wait" /\ UNCHANGED cur
  /\ UNCHANGED <<linked, waitlist, mutex, notify, watched, signaled, fresh, otherVars,
                 slot, sess, pending>>

\* UnlinkHoldersFromObjectList.
UnlinkHolders ==
  /\ Goto("unlink", "selected")
  /\ watched' = FALSE
  /\ UNCHANGED <<linked, waitlist, mutex, notify, signaled, cancel, cur, fresh, otherVars,
                 slot, sess, pending>>

\* notify_event.Clear(), and once more from the wait list.
ClearNotify ==
  /\ Goto("selected", "move")
  /\ cur = Notify
  /\ notify' = FALSE
  /\ cur' = Nobody
  /\ UNCHANGED <<linked, waitlist, mutex, watched, signaled, cancel, fresh, otherVars,
                 slot, sess, pending>>

\* Mutant: the selected holder stays linked while it is processed.
TakeSelectedLinked ==
  /\ Goto("selected", "process")
  /\ cur # Notify
  /\ UNCHANGED <<waitVars, cur, fresh, otherVars, slot, sess, pending>>

\* UnlinkWaitableHolder(selected).
TakeSelected ==
  /\ Goto("selected", "process")
  /\ cur # Notify
  /\ \E i \in DOMAIN linked :
       /\ linked[i] = cur
       /\ linked' = SubSeq(linked, 1, i - 1) \o SubSeq(linked, i + 1, Len(linked))
  /\ UNCHANGED <<waitlist, mutex, notify, watched, signaled, cancel, cur, fresh, otherVars,
                 slot, sess, pending>>

--------------------------------------------------------------------------------
(* Process *)

\* Mutant: AllocateSession returns a slot in use.
CreateSessionAnywhere(s, st) ==
  \E h \in Unused : /\ slot' = [slot EXCEPT ![s] = h]
                    /\ sess' = [sess EXCEPT ![h] = st]

\* CreateSessionImpl: a free slot for a kernel session in state st.  Which of
\* the free slots it is makes no difference.
CreateSession(s, st) ==
  /\ s \in FreeSlots
  /\ \E h \in Unused : /\ slot' = [slot EXCEPT ![s] = h]
                       /\ sess' = [sess EXCEPT ![h] = st]

\* OnNeedsToAccept: the session is registered, then the server again.
AcceptSession ==
  /\ cur \in Servers
  /\ Goto("process", "register_session")
  /\ \E s \in Slots : CreateSession(s, "idle") /\ fresh' = s
  /\ pending' = [pending EXCEPT ![cur] = FALSE]
  /\ UNCHANGED <<waitVars, cur, otherVars>>

\* R_ABORT_UNLESS: the kernel fails, or the pool is used up.
AcceptAborts ==
  /\ cur \in Servers
  /\ Goto("process", "aborted")
  /\ UNCHANGED <<waitVars, cur, fresh, otherVars, slot, sess, pending>>

\* ReceiveRequest.
ReceiveRequest ==
  /\ Goto("process", "dispatch")
  /\ cur \in Slots
  /\ sess[slot[cur]] = "sent"
  /\ sess' = [sess EXCEPT ![slot[cur]] = "serving"]
  /\ UNCHANGED <<waitVars, cur, fresh, otherVars, slot, pending>>

\* Mutant: a closed session is taken for a request that failed to come in.
ReceiveClosedKeeps ==
  /\ Goto("process", "register")
  /\ cur \in Slots
  /\ sess[slot[cur]] = "gone"
  /\ UNCHANGED <<waitVars, cur, fresh, otherVars, slot, sess, pending>>

\* ReceiveResult::Closed.
ReceiveClosed ==
  /\ Goto("process", "close")
  /\ cur \in Slots
  /\ sess[slot[cur]] = "gone"
  /\ UNCHANGED <<waitVars, cur, fresh, otherVars, slot, sess, pending>>

\* A command with an answer of data only.
DispatchRequest ==
  /\ Goto("dispatch", "reply")
  /\ UNCHANGED <<waitVars, cur, fresh, otherVars, slot, sess, pending>>

\* SetOutObjectImpl, CloneCurrentObject: the answer gives the client a session.
DispatchNewObject ==
  /\ Goto("dispatch", "register_session")
  /\ \E s \in Slots : CreateSession(s, "given") /\ fresh' = s
  /\ UNCHANGED <<waitVars, cur, otherVars, pending>>

\* R_ABORT_UNLESS: the kernel or the forwarded service fails to give a session,
\* or the pool is used up.
DispatchAborts ==
  /\ Goto("dispatch", "aborted")
  /\ UNCHANGED <<waitVars, cur, fresh, otherVars, slot, sess, pending>>

\* CmifCommandType_Close, and a request that cannot be handled or forwarded.
DispatchCloses ==
  /\ Goto("dispatch", "close")
  /\ UNCHANGED <<waitVars, cur, fresh, otherVars, slot, sess, pending>>

\* Mutant: the server is not waited for again.
RegisterFreshOnly ==
  /\ Goto("register_session", IF cur \in Servers THEN "move" ELSE "reply")
  /\ RegisterToWaitList(fresh)
  /\ fresh' = Nobody
  /\ UNCHANGED <<cur, otherVars, slot, sess, pending>>

\* RegisterSessionToWaitList(session_memory).
RegisterFresh ==
  /\ Goto("register_session", IF cur \in Servers THEN "register" ELSE "reply")
  /\ RegisterToWaitList(fresh)
  /\ fresh' = Nobody
  /\ UNCHANGED <<cur, otherVars, slot, sess, pending>>

\* hipc::Reply succeeds whether or not the client is still there.
Reply ==
  /\ Goto("reply", "register")
  /\ LET gone == sess[slot[cur]] = "gone"
     IN  sess' = [h \in Handles |->
                    IF h = slot[cur] \/ sess[h] = "given"
                      THEN IF gone THEN "gone" ELSE "idle"
                      ELSE sess[h]]
  /\ UNCHANGED <<waitVars, cur, fresh, otherVars, slot, pending>>

\* The server or the session is waited for again.
RegisterSelected ==
  /\ Goto("register", "move")
  /\ RegisterToWaitList(cur)
  /\ cur' = Nobody
  /\ UNCHANGED <<fresh, otherVars, slot, sess, pending>>

\* CloseSessionImpl: the slot is free for others before the handle is closed.
DestroySession ==
  /\ Goto("close", "close_handle")
  /\ fresh' = slot[cur]
  /\ slot' = [slot EXCEPT ![cur] = Nobody]
  /\ UNCHANGED <<waitVars, cur, otherVars, sess, pending>>

\* Mutant: the handle is read from the slot after the slot was freed.
CloseHandleOfSlot ==
  /\ Goto("close_handle", "move")
  /\ sess' = [sess EXCEPT ![IF slot[cur] = Nobody THEN fresh ELSE slot[cur]] = "none"]
  /\ cur' = Nobody
  /\ fresh' = Nobody
  /\ UNCHANGED <<waitVars, otherVars, slot, pending>>

CloseHandle ==
  /\ Goto("close_handle", "move")
  /\ sess' = [sess EXCEPT ![fresh] = "none"]
  /\ cur' = Nobody
  /\ fresh' = Nobody
  /\ UNCHANGED <<waitVars, otherVars, slot, pending>>

--------------------------------------------------------------------------------
(* RegisterMitmQueryHandle, in another thread *)

Register(from, to) == pc # "aborted" /\ registrar = from /\ registrar' = to

RegistrarCreates ==
  /\ Register("idle", "link")
  /\ registrations < MaxRegistrations
  /\ registrations' = registrations + 1
  /\ \E s \in Slots : CreateSession(s, "idle") /\ incoming' = s
  /\ UNCHANGED <<waitVars, loopVars, pending>>

RegistrarLinks ==
  /\ Register("link", "signal")
  /\ ~mutex
  /\ mutex' = TRUE
  /\ waitlist' = Append(waitlist, incoming)
  /\ incoming' = Nobody
  /\ UNCHANGED <<linked, notify, watched, signaled, cancel, loopVars, registrations,
                 slot, sess, pending>>

RegistrarSignals ==
  /\ Register("signal", "return")
  /\ SignalNotify
  /\ mutex' = FALSE
  /\ UNCHANGED <<linked, waitlist, watched, loopVars, incoming, registrations,
                 slot, sess, pending>>

\* The first registration starts the thread.
RegistrarReturns ==
  /\ Register("return", "idle")
  /\ pc' = IF pc = "unstarted" THEN "move" ELSE pc
  /\ UNCHANGED <<waitVars, cur, fresh, incoming, registrations, slot, sess, pending>>

--------------------------------------------------------------------------------
(* The clients, through the kernel *)

ClientConnects(p) ==
  /\ pc # "aborted"
  /\ ~pending[p]
  /\ pending' = [pending EXCEPT ![p] = TRUE]
  /\ UNCHANGED <<waitVars, loopVars, otherVars, slot, sess>>

ClientCalls(h) ==
  /\ pc # "aborted"
  /\ sess[h] = "idle"
  /\ sess' = [sess EXCEPT ![h] = "sent"]
  /\ UNCHANGED <<waitVars, loopVars, otherVars, slot, pending>>

\* A client closes its session or is killed, whatever it was doing.
ClientCloses(h) ==
  /\ pc # "aborted"
  /\ sess[h] \in {"idle", "sent", "serving"}
  /\ sess' = [sess EXCEPT ![h] = "gone"]
  /\ UNCHANGED <<waitVars, loopVars, otherVars, slot, pending>>

--------------------------------------------------------------------------------
WaitAny == LinkHolders \/ CheckSignaled \/ WaitFindsReady \/ Sleep \/ WakeUp
             \/ WaitCancelled \/ UnlinkHolders

Process == AcceptSession \/ AcceptAborts \/ ReceiveRequest \/ ReceiveClosed
             \/ DispatchRequest \/ DispatchNewObject \/ DispatchAborts \/ DispatchCloses
             \/ RegisterFresh \/ Reply \/ RegisterSelected \/ DestroySession \/ CloseHandle

LoopProcess == ProcessWaitList \/ WaitAny \/ ClearNotify \/ TakeSelected \/ Process

RegisterSession == RegistrarLinks \/ RegistrarSignals \/ RegistrarReturns

Clients == \/ \E p \in Servers : ClientConnects(p)
           \/ \E h \in Handles : ClientCalls(h) \/ ClientCloses(h)

Next == LoopProcess \/ RegistrarCreates \/ RegisterSession \/ Clients

Spec == Init /\ [][Next]_vars

\* Both threads are scheduled; nobody has to call or to register.
FairSpec == Spec /\ WF_vars(LoopProcess) /\ WF_vars(RegisterSession)

--------------------------------------------------------------------------------
(* Properties *)

LoopPoints == {"unstarted", "move", "link", "check", "wait", "asleep", "unlink", "selected",
               "process", "dispatch", "register_session", "reply", "register", "close",
               "close_handle", "aborted"}

\* The points at which the processing thread has a holder in its hands.
Processing == {"process", "dispatch", "register_session", "reply", "register", "close"}

ListTypes == linked \in Seq(Holders) /\ waitlist \in Seq(Holders)

FlagTypes ==
  /\ mutex \in BOOLEAN /\ notify \in BOOLEAN /\ watched \in BOOLEAN /\ cancel \in BOOLEAN
  /\ signaled \in Holders \cup {Notify, Nobody}

LoopTypes ==
  /\ pc \in LoopPoints
  /\ cur \in Holders \cup {Notify, Nobody}
  /\ fresh \in Slots \cup Handles \cup {Nobody}
  /\ pc \in Processing => cur \in Holders
  /\ pc \in {"dispatch", "reply", "close"} => cur \in Slots
  /\ pc \in {"unlink", "selected"} => cur # Nobody
  /\ pc = "register_session" => fresh \in Slots

RegistrarTypes ==
  /\ registrar \in {"idle", "link", "signal", "return"}
  /\ incoming \in Slots \cup {Nobody}
  /\ registrations \in 0..MaxRegistrations
  /\ registrar = "link" => incoming \in Slots

KernelTypes ==
  /\ slot \in [Slots -> Handles \cup {Nobody}]
  /\ sess \in [Handles -> {"none", "given", "idle", "sent", "serving", "gone"}]
  /\ pending \in [Servers -> BOOLEAN]

\* Values have their types: a holder is processed, never the event.
TypeOK == ListTypes /\ FlagTypes /\ LoopTypes /\ RegistrarTypes /\ KernelTypes

\* How often x is on a list, and a place that holds it once or not at all.
Times(list, x) == Cardinality({i \in DOMAIN list : list[i] = x})
Once(P) == IF P THEN 1 ELSE 0

\* Where holder x is: how often it is linked, waits to be, or is in hand.
Places(x) ==
  Times(linked, x) + Times(waitlist, x)
    + Once(pc \in Processing /\ cur = x)
    + Once(pc = "register_session" /\ fresh = x)
    + Once(incoming = x)

\* Each server and each session of the pool is in exactly one place, and a
\* free slot in none: no port and no session is forgotten, linked twice, or
\* waited for after it was destroyed.
NoHolderLost ==
  pc # "aborted" =>
    \A x \in Holders : Places(x) = IF x \in FreeSlots THEN 0 ELSE 1

\* With it, what is incoming is never overwritten.
HolderInv == NoHolderLost /\ (registrar # "link" => incoming = Nobody)

\* The slots hold different open sessions, and every open session has a slot
\* unless CloseSessionImpl is about to close it: no handle leaks and none is
\* used after it was closed, although a slot may be taken again before.
SessionsAreOwned ==
  /\ \A s \in Slots \ FreeSlots : sess[slot[s]] # "none"
  /\ \A s, t \in Slots \ FreeSlots : slot[s] = slot[t] => s = t
  /\ \A h \in Handles \ Unused :
       (\E s \in Slots : slot[s] = h) <=> ~(pc = "close_handle" /\ fresh = h)

\* The thread does not sleep over a holder that waits to be linked: clearing
\* the event, linking it and looking at it race with RegisterToWaitList.
NoLostWakeup ==
  pc = "asleep" /\ waitlist # <<>> => cancel \/ mutex

\* Why: a holder to link keeps the event signalled until the wait list is taken
\* again, and an event signalled while it is watched has chosen the holder to
\* return, and cancelled the wait.
WakeupInv ==
  /\ watched <=> pc \in {"check", "wait", "asleep", "unlink"}
  /\ pc \in {"wait", "asleep"} => cur = Nobody
  /\ waitlist # <<>> /\ ~mutex => notify \/ pc = "move"
  /\ watched /\ notify => signaled # Nobody \/ cur = Notify
  /\ pc \in {"wait", "asleep"} /\ signaled # Nobody => cancel

\* What the thread knows of the session in its hands.
SessionInv ==
  /\ pc \in {"link", "check", "wait", "asleep"} => signaled \in {Notify, Nobody}
  /\ pc = "check" => cur \in {Notify, Nobody}
  /\ pc \in {"unlink", "selected"} \cup Processing /\ cur \in Slots => slot[cur] # Nobody
  /\ pc \in {"dispatch", "reply", "register_session", "close"} /\ cur \in Slots
       => sess[slot[cur]] \in {"serving", "gone"}
  /\ pc = "close_handle" => fresh \in Handles /\ sess[fresh] \in {"serving", "gone"}

\* The inductive invariant.
ServerInv == TypeOK /\ WakeupInv /\ SessionInv /\ SessionsAreOwned

\* A session is closed only after its client has closed it or while it waits
\* for the answer to the request being served.
ClosesOnlyServed ==
  [][\A h \in Handles : sess[h] # "none" /\ sess'[h] = "none"
                          => sess[h] \in {"serving", "gone"}]_vars

\* Every request is received, however busy the other sessions are.
RequestIsReceived ==
  \A h \in Handles : sess[h] = "sent" ~> (sess[h] # "sent" \/ pc = "aborted")

\* Every connection is accepted.
ConnectionIsAccepted ==
  \A p \in Servers : pending[p] ~> (~pending[p] \/ pc = "aborted")

\* Every session its client has closed gives its handle back.
ClosedIsFreed ==
  \A h \in Handles : sess[h] = "gone" ~> (sess[h] = "none" \/ pc = "aborted")
================================================================================
