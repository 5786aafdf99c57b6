----------------------------- MODULE ServiceThread -----------------------------
(***************************************************************************)
(* The life of the thread of VirtualControllerService or HotkeyService: the *)
(* members Start, Stop and the destructor of the class, on the threads of   *)
(* libstratosphere (os_thread_manager.cpp).                                 *)
(*                                                                          *)
(* Any thread of Callers may call Start and Stop; Owner then destroys the   *)
(* service, once the other callers are through.  The kernel's thread object *)
(* (svc) is not in the repository; state is libstratosphere's field.        *)
(***************************************************************************)
EXTENDS Integers, FiniteSets

CONSTANTS Callers, Owner, MaxCalls   \* MaxCalls: bound on the calls of each caller

Nobody == "nobody"

ASSUME CallersAssumption ==
  IsFiniteSet(Callers) /\ Owner \in Callers /\ Nobody \notin Callers /\ MaxCalls \in Nat

VARIABLES
  running,   \* the flag `running'
  mutex,     \* holder of threadMutex
  cs,        \* holder of thread->cs_thread
  state,     \* thread->state
  kernel,    \* svc thread: "created", "running", "exited", "closed"
  at,        \* the created thread's program point
  pc,        \* [Callers -> program point]
  calls      \* [Callers -> calls made]

vars == <<running, mutex, cs, state, kernel, at, pc, calls>>

--------------------------------------------------------------------------------
\* The constructor has called CreateThread.
Init ==
  /\ running = FALSE
  /\ mutex = Nobody
  /\ cs = Nobody
  /\ state = "Initialized"
  /\ kernel = "created"
  /\ at = "none"
  /\ pc = [c \in Callers |-> "idle"]
  /\ calls = [c \in Callers |-> 0]

Goto(c, from, to) == pc[c] = from /\ pc' = [pc EXCEPT ![c] = to]

LockMutex(c) == mutex = Nobody /\ mutex' = c
UnlockMutex(c) == mutex = c /\ mutex' = Nobody

LockCs(t) == cs = Nobody /\ cs' = t

\* Start() and Stop() take the mutex first.
CallStart(c) ==
  /\ Goto(c, "idle", "Start")
  /\ calls[c] < MaxCalls
  /\ calls' = [calls EXCEPT ![c] = @ + 1]
  /\ LockMutex(c)
  /\ UNCHANGED <<running, cs, state, kernel, at>>

CallStop(c) ==
  /\ Goto(c, "idle", "Stop")
  /\ calls[c] < MaxCalls
  /\ calls' = [calls EXCEPT ![c] = @ + 1]
  /\ LockMutex(c)
  /\ UNCHANGED <<running, cs, state, kernel, at>>

\* if(this->running) return;
StartReturnsEarly(c) ==
  /\ running
  /\ Goto(c, "Start", "idle")
  /\ UnlockMutex(c)
  /\ UNCHANGED <<running, cs, state, kernel, at, calls>>

\* os::StartThread: lock cs_thread ...
StartThread(c) ==
  /\ ~running
  /\ Goto(c, "Start", "StartThread")
  /\ running' = TRUE
  /\ LockCs(c)
  /\ UNCHANGED <<mutex, state, kernel, at, calls>>

\* ... start the svc thread, which the kernel refuses for one started before ...
StartKernel(c) ==
  /\ Goto(c, "StartThread", "Started")
  /\ kernel = "created"
  /\ kernel' = "running"
  /\ at' = "enter"
  /\ UNCHANGED <<running, mutex, cs, state, calls>>

StartAborts(c) ==
  /\ Goto(c, "StartThread", "aborted")
  /\ kernel # "created"
  /\ UNCHANGED <<running, mutex, cs, state, kernel, at, calls>>

\* cv_thread.Signal(): the created thread, if it waits, goes on.
Wakes == IF at = "wait" THEN "enter" ELSE at

\* ... set the state, signal, unlock, return.
StartReturns(c) ==
  /\ Goto(c, "Started", "idle")
  /\ state' = "Started"
  /\ at' = Wakes
  /\ cs' = Nobody
  /\ UnlockMutex(c)
  /\ UNCHANGED <<running, kernel, calls>>

\* if(!this->running) return;
StopReturnsEarly(c) ==
  /\ ~running
  /\ Goto(c, "Stop", "idle")
  /\ UnlockMutex(c)
  /\ UNCHANGED <<running, cs, state, kernel, at, calls>>

StopClears(c) ==
  /\ running
  /\ Goto(c, "Stop", "WaitThread")
  /\ running' = FALSE
  /\ UNCHANGED <<mutex, cs, state, kernel, at, calls>>

\* Mutant: Stop() does not wait for the thread.
StopReturnsUnwaited(c) ==
  /\ Goto(c, "WaitThread", "idle")
  /\ UnlockMutex(c)
  /\ UNCHANGED <<running, cs, state, kernel, at, calls>>

\* os::WaitThread, with threadMutex held: the svc handle, then cs_thread for a moment.
StopReturns(c) ==
  /\ Goto(c, "WaitThread", "idle")
  /\ kernel = "exited"
  /\ cs = Nobody
  /\ UnlockMutex(c)
  /\ UNCHANGED <<running, cs, state, kernel, at, calls>>

--------------------------------------------------------------------------------
\* The destructor: Stop(), then os::DestroyThread.
OthersAreThrough == \A c \in Callers \ {Owner} : pc[c] = "idle" /\ calls[c] = MaxCalls

Destructor ==
  /\ Goto(Owner, "idle", "~Stop")
  /\ OthersAreThrough
  /\ LockMutex(Owner)
  /\ UNCHANGED <<running, cs, state, kernel, at, calls>>

DestructorNeedsNoStop ==
  /\ Goto(Owner, "~Stop", "DestroyThread")
  /\ ~running
  /\ UnlockMutex(Owner)
  /\ UNCHANGED <<running, cs, state, kernel, at, calls>>

DestructorStops ==
  /\ Goto(Owner, "~Stop", "~WaitThread")
  /\ running
  /\ running' = FALSE
  /\ UNCHANGED <<mutex, cs, state, kernel, at, calls>>

DestructorStopped ==
  /\ Goto(Owner, "~WaitThread", "DestroyThread")
  /\ kernel = "exited"
  /\ cs = Nobody
  /\ UnlockMutex(Owner)
  /\ UNCHANGED <<running, cs, state, kernel, at, calls>>

\* Mutant: a thread never started is waited for without being started.
DestroyUnstartedWaits ==
  /\ Goto(Owner, "DestroyThread", "WaitForThreadExit")
  /\ state = "Initialized"
  /\ cs = Nobody
  /\ UNCHANGED <<running, mutex, cs, state, kernel, at, calls>>

\* A thread never started is started to end at once, under cs_thread.
DestroyUnstarted ==
  /\ Goto(Owner, "DestroyThread", "WaitForThreadExit")
  /\ state = "Initialized"
  /\ cs = Nobody
  /\ state' = "DestroyedBeforeStarted"
  /\ kernel' = "running"
  /\ at' = "enter"
  /\ UNCHANGED <<running, mutex, cs, calls>>

DestroyStarted ==
  /\ Goto(Owner, "DestroyThread", "WaitForThreadExit")
  /\ state # "Initialized"
  /\ cs = Nobody
  /\ UNCHANGED <<running, mutex, cs, state, kernel, at, calls>>

\* Mutant: the thread is closed without a wait for its end.
DestroyExitedEarly ==
  /\ Goto(Owner, "WaitForThreadExit", "assert")
  /\ UNCHANGED <<running, mutex, cs, state, kernel, at, calls>>

DestroyExited ==
  /\ Goto(Owner, "WaitForThreadExit", "assert")
  /\ kernel = "exited"
  /\ UNCHANGED <<running, mutex, cs, state, kernel, at, calls>>

\* AMS_ASSERT is compiled out of release builds; then close and forget the thread.
DestroyCloses ==
  /\ Goto(Owner, "assert", "destroyed")
  /\ cs = Nobody
  /\ kernel' = "closed"
  /\ state' = "NotInitialized"
  /\ UNCHANGED <<running, mutex, cs, at, calls>>

--------------------------------------------------------------------------------
\* The created thread: InvokeThread, the service's loop, CleanupThread.

\* Wait on cv_thread while the state is Initialized; run the function if Started.
InvokeChecks ==
  /\ at = "enter"
  /\ cs = Nobody
  /\ at' = CASE state = "Initialized" -> "wait"
             [] state = "Started"     -> "body"
             [] OTHER                 -> "cleanup"
  /\ UNCHANGED <<running, mutex, cs, state, kernel, pc, calls>>

\* while(service->running): the flag is read without the mutex.
BodyEnds ==
  /\ at = "body"
  /\ ~running
  /\ at' = "cleanup"
  /\ UNCHANGED <<running, mutex, cs, state, kernel, pc, calls>>

Cleanup ==
  /\ at = "cleanup"
  /\ cs = Nobody
  /\ state' = "Terminated"
  /\ at' = "exit"
  /\ UNCHANGED <<running, mutex, cs, kernel, pc, calls>>

ThreadExits ==
  /\ at = "exit"
  /\ at' = "none"
  /\ kernel' = "exited"
  /\ UNCHANGED <<running, mutex, cs, state, pc, calls>>

CreatedThread == InvokeChecks \/ BodyEnds \/ Cleanup \/ ThreadExits

Call(c) == CallStart(c) \/ CallStop(c)

InCall(c) ==
  \/ StartReturnsEarly(c) \/ StartThread(c) \/ StartKernel(c) \/ StartAborts(c) \/ StartReturns(c)
  \/ StopReturnsEarly(c) \/ StopClears(c) \/ StopReturns(c)

Destroy ==
  \/ Destructor \/ DestructorNeedsNoStop \/ DestructorStops \/ DestructorStopped
  \/ DestroyUnstarted \/ DestroyStarted \/ DestroyExited \/ DestroyCloses

\* After R_ABORT_UNLESS nothing moves any more: the caller holds both locks.
Next == (\E c \in Callers : Call(c) \/ InCall(c)) \/ Destroy \/ CreatedThread

Spec == Init /\ [][Next]_vars

\* Threads are scheduled; a free lock is given to each that waits for it; the
\* owner destroys the service in the end.  No caller has to make a call.
FairSpec ==
  /\ Spec
  /\ WF_vars(CreatedThread)
  /\ \A c \in Callers : WF_vars(InCall(c))
  /\ WF_vars(Destroy)

--------------------------------------------------------------------------------
\* Every variable has a value of its type; the created thread holds cs_thread
\* only within a step, never while the service's function runs.
TypeOK ==
  /\ running \in BOOLEAN
  /\ mutex \in Callers \cup {Nobody}
  /\ cs \in Callers \cup {Nobody}
  /\ state \in {"NotInitialized", "Initialized", "DestroyedBeforeStarted", "Started", "Terminated"}
  /\ kernel \in {"created", "running", "exited", "closed"}
  /\ at \in {"none", "enter", "wait", "body", "cleanup", "exit"}
  /\ pc \in [Callers -> {"idle", "Start", "StartThread", "Started", "Stop", "WaitThread", "aborted",
                         "~Stop", "~WaitThread", "DestroyThread", "WaitForThreadExit", "assert",
                         "destroyed"}]
  /\ calls \in [Callers -> 0 .. MaxCalls]

\* The service's members are used by its loop only while the service exists and
\* no Stop() has returned since it was started.
LoopOnlyWhileServiceLives ==
  at = "body" => /\ kernel = "running"
                 /\ pc[Owner] \notin {"DestroyThread", "WaitForThreadExit", "assert", "destroyed"}
                 /\ running \/ \E c \in Callers : mutex = c /\ pc[c] \in {"WaitThread", "~WaitThread"}

\* The thread object is given up only after the thread has ended.
ClosedAfterExit == state = "NotInitialized" => at = "none" /\ kernel = "closed"

\* The process is aborted only by a Start() after a Stop() that has seen the
\* thread end: racing calls of Start() and Stop() never start it twice.
AbortsOnlyOnRestart ==
  (\E c \in Callers : pc[c] = "aborted") => kernel = "exited"

\* Who holds the locks, and what the flag says there.
LockInv ==
  /\ \A c \in Callers : mutex = c <=> pc[c] \in {"Start", "StartThread", "Started", "Stop", "WaitThread",
                                                "aborted", "~Stop", "~WaitThread"}
  /\ \A c \in Callers : cs = c <=> pc[c] \in {"StartThread", "Started", "aborted"}
  /\ \A c \in Callers : pc[c] \in {"StartThread", "Started", "aborted"} => running
  /\ \A c \in Callers : pc[c] \in {"WaitThread", "~WaitThread"} => ~running

\* The owner destroys alone.
Destroying == pc[Owner] \in {"~Stop", "~WaitThread", "DestroyThread", "WaitForThreadExit", "assert",
                             "destroyed"}

OwnerInv ==
  /\ \A c \in Callers \ {Owner} :
       pc[c] \notin {"~Stop", "~WaitThread", "DestroyThread", "WaitForThreadExit", "assert", "destroyed"}
  /\ Destroying => OthersAreThrough
  /\ pc[Owner] = "DestroyThread" => kernel \in {"created", "exited"}
  /\ pc[Owner] = "assert" => kernel = "exited"
  /\ pc[Owner] = "WaitForThreadExit" => at # "body" /\ state \in {"DestroyedBeforeStarted", "Terminated"}
  /\ pc[Owner] \in {"DestroyThread", "WaitForThreadExit", "assert", "destroyed"} => ~running

\* libstratosphere's state and the kernel's thread.
StateInv ==
  /\ kernel = "running" <=> at # "none"
  /\ kernel = "closed" <=> pc[Owner] = "destroyed"
  /\ kernel = "closed" <=> state = "NotInitialized"
  /\ kernel = "created" => state = "Initialized"
  /\ kernel = "exited" <=> state = "Terminated" /\ at = "none"
  /\ kernel = "running" /\ state = "Initialized" => \E c \in Callers : pc[c] = "Started"
  /\ \A c \in Callers : pc[c] = "Started" => state = "Initialized" /\ at = "enter"
  /\ \A c \in Callers : pc[c] = "StartThread" => kernel \in {"created", "exited"}
  /\ \A c \in Callers : pc[c] = "aborted" => kernel = "exited"
  /\ state = "DestroyedBeforeStarted" => pc[Owner] = "WaitForThreadExit"
  /\ at = "enter" => state \in {"Initialized", "DestroyedBeforeStarted", "Started"}
  /\ at = "body" => state = "Started"
  /\ at = "cleanup" => state \in {"DestroyedBeforeStarted", "Started"} /\ ~running
  /\ at = "exit" => state = "Terminated" /\ ~running
  /\ at # "wait"

\* A thread that runs is wanted, or somebody waits for its end.
WaitInv ==
  kernel = "running" => \/ running \/ pc[Owner] = "WaitForThreadExit"
                        \/ \E c \in Callers : pc[c] \in {"WaitThread", "~WaitThread"}

\* Inductive: the safety of the thread's life follows from it.
LifeInv == TypeOK /\ LockInv /\ OwnerInv /\ StateInv /\ WaitInv

\* Every call returns: nobody waits for a thread that waits for nobody, and the
\* created thread never misses its start.
CallsReturn ==
  \A c \in Callers : pc[c] # "idle" ~> pc[c] \in {"idle", "destroyed"} \/ \E d \in Callers : pc[d] = "aborted"

\* DestroyThread asserts, after the wait, that the thread is Initialized: a
\* thread that has ended is Terminated.
DestroyAssertion == pc[Owner] = "assert" => state = "Initialized"
================================================================================
