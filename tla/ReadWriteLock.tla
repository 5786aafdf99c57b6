----------------------------- MODULE ReadWriteLock -----------------------------
(***************************************************************************)
(* libstratosphere's read-write lock (os_rw_lock_target_impl.os.horizon.cpp)*)
(* in a build without assertions, as threads that take and release it.      *)
(*                                                                          *)
(* lock_count is one word of 64 bits, changed by compare-and-exchange.  A   *)
(* loop that computes it from the word it finds is one step; where the code *)
(* goes on from what it read before, expected and lock_count are state.     *)
(* The kernel's arbitration and its condition variables are modelled from   *)
(* their use.                                                               *)
(***************************************************************************)
EXTENDS Integers

CONSTANTS
  Threads,
  InvalidHandle,
  MaxCalls   \* bound: times each thread takes the lock

VARIABLES
  lock_count,        \* the word: counters, and the handle with HandleWaitMask
  owner_thread,
  write_lock_count,
  pc,                \* [Threads -> program point]
  expected, local,   \* [Threads -> the locals expected and lock_count]
  arbitrated,        \* [Threads -> the local of this name]
  holds,             \* [Threads -> what a thread has taken]
  calls,             \* [Threads -> number of calls that take the lock]
  arbiters,          \* the threads that sleep in svc::ArbitrateLock
  cv_read_lock, cv_write_lock  \* the threads that sleep on them

locals == <<expected, local, arbitrated>>
kernel == <<arbiters, cv_read_lock, cv_write_lock>>
writer == <<owner_thread, write_lock_count>>
users == <<holds, calls>>
vars == <<lock_count, writer, pc, locals, users, kernel>>

Unlocked == [reads |-> 0, locked |-> FALSE, readWaiters |-> 0, writeWaiters |-> 0,
             handle |-> InvalidHandle, wait |-> FALSE]

Init ==
  /\ lock_count = Unlocked
  /\ owner_thread = InvalidHandle
  /\ write_lock_count = 0
  /\ pc = [t \in Threads |-> "idle"]
  /\ expected = [t \in Threads |-> Unlocked]
  /\ local = [t \in Threads |-> Unlocked]
  /\ arbitrated = [t \in Threads |-> FALSE]
  /\ holds = [t \in Threads |-> [read |-> 0, write |-> 0]]
  /\ calls = [t \in Threads |-> 0]
  /\ arbiters = {}
  /\ cv_read_lock = {}
  /\ cv_write_lock = {}

--------------------------------------------------------------------------------
(* The word.  Read counts have 15 bits, counts of waiters 8. *)

Reads(lc, n) == [lc EXCEPT !.reads = (@ + n) % 2^15]
ReadWaiters(lc, n) == [lc EXCEPT !.readWaiters = (@ + n) % 2^8]
WriteWaiters(lc, n) == [lc EXCEPT !.writeWaiters = (@ + n) % 2^8]

\* A handle with the mask stays, for the kernel passes it on; others go.
ClearHandle(lc) == IF lc.wait THEN lc ELSE [lc EXCEPT !.handle = InvalidHandle]

\* A thread that has to wait marks the handle, or leaves its own.
Queue(lc, t) == IF lc.handle # InvalidHandle THEN [lc EXCEPT !.wait = TRUE]
                                             ELSE [lc EXCEPT !.handle = t]

--------------------------------------------------------------------------------
(* The kernel *)

\* svc::ArbitrateUnlock: the lock goes to a thread that waits for it, if any.
Passed(lc, w) ==
  IF w = InvalidHandle THEN [lc EXCEPT !.handle = InvalidHandle, !.wait = FALSE]
                       ELSE [lc EXCEPT !.handle = w, !.wait = arbiters # {w}]

NextHolder == IF arbiters = {} THEN {InvalidHandle} ELSE arbiters

ArbitrateUnlock(lc) ==
  \E w \in NextHolder : lock_count' = Passed(lc, w) /\ arbiters' = arbiters \ {w}

\* A thread that is woken from a condition variable needs the handle first.
Woken(set) ==
  LET free == lock_count.handle = InvalidHandle
  IN  IF set = {} THEN UNCHANGED <<lock_count, arbiters>>
      ELSE \E first \in set :
             /\ lock_count' = IF free THEN [lock_count EXCEPT !.handle = first, !.wait = set # {first}]
                              ELSE [lock_count EXCEPT !.wait = TRUE]
             /\ arbiters' = arbiters \cup (IF free THEN set \ {first} ELSE set)

\* Signal of cv_write_lock wakes one thread.
Signal ==
  \E set \in IF cv_write_lock = {} THEN {{}} ELSE {{w} : w \in cv_write_lock} :
    Woken(set) /\ cv_write_lock' = cv_write_lock \ set

Asleep(t) == t \in arbiters \cup cv_read_lock \cup cv_write_lock

At(t, from) == pc[t] = from /\ ~Asleep(t)
GoTo(t, to) == pc' = [pc EXCEPT ![t] = to]
Step(t, from, to) == At(t, from) /\ GoTo(t, to)

\* expected and lock_count are set to the word.
Remember(t, lc) ==
  /\ local' = [local EXCEPT ![t] = lc]
  /\ expected' = [expected EXCEPT ![t] = lc]

\* Wait on a condition variable passes the lock on.
WaitOn(t, cv) == cv' = cv \cup {t} /\ ArbitrateUnlock(lock_count)

\* A compare-and-exchange that may fail without a reason.
Exchange(t, desired, then) ==
  \/ lock_count = expected[t] /\ lock_count' = desired /\ then
  \/ /\ expected' = [expected EXCEPT ![t] = lock_count]
     /\ local' = [local EXCEPT ![t] = desired]
     /\ UNCHANGED <<lock_count, pc, users, arbiters>>

Calls(t) == calls[t] < MaxCalls /\ calls' = [calls EXCEPT ![t] = @ + 1]

Takes(t, kind, n) == holds' = [holds EXCEPT ![t][kind] = @ + n]

--------------------------------------------------------------------------------
(* AcquireReadLock, TryAcquireReadLock *)

ReadersWait == lock_count.locked \/ lock_count.writeWaiters # 0

\* The writer takes a read lock.
AcquireReadLockWriteLocked(t) ==
  /\ At(t, "idle") /\ owner_thread = t
  /\ lock_count' = Reads(lock_count, 1)
  /\ Takes(t, "read", 1)
  /\ Calls(t)
  /\ UNCHANGED <<writer, pc, locals, kernel>>

AcquireReadLock(t) ==
  /\ Step(t, "idle", "read")
  /\ owner_thread # t
  /\ Calls(t)
  /\ arbitrated' = [arbitrated EXCEPT ![t] = FALSE]
  /\ UNCHANGED <<lock_count, writer, expected, local, holds, kernel>>

ReadLocked(t, lc) ==
  /\ lock_count' = Reads(lc, 1)
  /\ Takes(t, "read", 1)
  /\ GoTo(t, "idle")

ReadLockFree(t) ==
  /\ At(t, "read") /\ ~ReadersWait
  /\ ReadLocked(t, IF arbitrated[t] THEN ReadWaiters(lock_count, -1) ELSE lock_count)
  /\ UNCHANGED <<writer, locals, calls, kernel>>

ReadLockBusy(t) ==
  LET lc == Queue(IF arbitrated[t] THEN lock_count ELSE ReadWaiters(lock_count, 1), t)
  IN  /\ Step(t, "read", IF lock_count.handle = InvalidHandle THEN "readers" ELSE "arbitrate read")
      /\ ReadersWait
      /\ lock_count' = lc
      /\ Remember(t, lc)
      /\ UNCHANGED <<writer, arbitrated, users, kernel>>

\* svc::ArbitrateLock sleeps if the word still has the handle it was given.
ArbitrateLock(t, from, to) ==
  /\ Step(t, from, to)
  /\ IF lock_count.handle = local[t].handle /\ lock_count.wait
     THEN arbiters' = arbiters \cup {t} ELSE UNCHANGED arbiters
  /\ UNCHANGED <<lock_count, writer, locals, users, cv_read_lock, cv_write_lock>>

ReadArbitrated(t) ==
  /\ Step(t, "read arbitrated", IF lock_count.handle = t THEN "readers" ELSE "read")
  /\ arbitrated' = [arbitrated EXCEPT ![t] = @ \/ lock_count.handle # t]
  /\ Remember(t, lock_count)
  /\ UNCHANGED <<lock_count, writer, users, kernel>>

\* while (GetWriteLockWaiterCount(lock_count)) wait, read the word again ...
WaitForWriters(t) ==
  /\ Step(t, "readers", "read again")
  /\ local[t].writeWaiters # 0
  /\ WaitOn(t, cv_read_lock)
  /\ UNCHANGED <<writer, locals, users, cv_write_lock>>

ReadAgain(t) ==
  /\ Step(t, "read again", "readers")
  /\ Remember(t, lock_count)
  /\ UNCHANGED <<lock_count, writer, arbitrated, users, kernel>>

\* ... then exchange; a failed exchange goes on from the changed lock_count.
ReadersEnter(t) ==
  LET lc == ClearHandle(Reads(ReadWaiters(local[t], -1), 1))
  IN  /\ At(t, "readers") /\ local[t].writeWaiters = 0
      /\ Exchange(t, lc, /\ GoTo(t, IF lc.wait THEN "unlock" ELSE "idle")
                         /\ Takes(t, "read", 1)
                         /\ UNCHANGED <<expected, local, calls, arbiters>>)
      /\ UNCHANGED <<writer, arbitrated, cv_read_lock, cv_write_lock>>

\* The svc::ArbitrateUnlock that ends several functions.
Unlock(t) ==
  /\ Step(t, "unlock", "idle")
  /\ ArbitrateUnlock(lock_count)
  /\ UNCHANGED <<writer, locals, users, cv_read_lock, cv_write_lock>>

\* Returns false, which changes nothing, or takes the lock.
TryAcquireReadLock(t) ==
  /\ At(t, "idle") /\ owner_thread # t /\ ~ReadersWait
  /\ ReadLocked(t, lock_count)
  /\ Calls(t)
  /\ UNCHANGED <<writer, locals, kernel>>

--------------------------------------------------------------------------------
(* ReleaseReadLock *)

LastReader(lc) == lc.reads = 0 /\ lc.writeWaiters # 0

ReleaseReadLockWriteLocked(t) ==
  /\ Step(t, "idle", "release write")
  /\ owner_thread = t /\ holds[t].read > 0
  /\ lock_count' = Reads(lock_count, -1)
  /\ Takes(t, "read", -1)
  /\ UNCHANGED <<writer, locals, calls, kernel>>

ReleaseReadLock(t) ==
  LET lc == Reads(lock_count, -1)
  IN  /\ At(t, "idle") /\ owner_thread # t /\ holds[t].read > 0
      /\ Takes(t, "read", -1)
      /\ IF LastReader(lc)
         THEN /\ GoTo(t, "take handle")
              /\ local' = [local EXCEPT ![t] = lc]
              /\ expected' = [expected EXCEPT ![t] = lock_count]
              /\ UNCHANGED lock_count
         ELSE /\ lock_count' = lc
              /\ UNCHANGED <<pc, expected, local>>
      /\ UNCHANGED <<writer, arbitrated, calls, kernel>>

\* The last reader takes the handle: the exchange writes the lock_count from
\* which it has taken its read lock off already, and leaves expected behind.
TakeHandle(t) ==
  LET lc == Queue(local[t], t)
  IN  /\ At(t, "take handle")
      /\ Exchange(t, lc, /\ GoTo(t, IF lc.handle = t /\ ~lc.wait THEN "count" ELSE "arbitrate release")
                         /\ local' = [local EXCEPT ![t] = lc]
                         /\ UNCHANGED <<expected, users, arbiters>>)
      /\ UNCHANGED <<writer, arbitrated, cv_read_lock, cv_write_lock>>

ReleaseArbitrated(t) ==
  /\ Step(t, "release arbitrated", IF lock_count.handle = t THEN "count" ELSE "take handle")
  /\ expected' = [expected EXCEPT ![t] = lock_count]
  /\ UNCHANGED <<lock_count, writer, local, arbitrated, users, kernel>>

\* AMS_ASSERT(GetReadLockCount(lock_count) == 1 ...), DecReadLockCount
TakeReadOff(t) ==
  /\ Step(t, "count", "signal")
  /\ lock_count' = Reads(lock_count, -1)
  /\ UNCHANGED <<writer, locals, users, kernel>>

SignalWriter(t) ==
  /\ Step(t, "signal", "drop handle")
  /\ Signal
  /\ UNCHANGED <<writer, locals, users, cv_read_lock>>

DropHandle(t) ==
  /\ Step(t, "drop handle", IF lock_count.wait THEN "unlock" ELSE "idle")
  /\ lock_count' = ClearHandle(lock_count)
  /\ UNCHANGED <<writer, locals, users, kernel>>

--------------------------------------------------------------------------------
(* AcquireWriteLock, TryAcquireWriteLock, ReleaseWriteLock *)

WriterWaits == lock_count.reads > 0 \/ lock_count.handle # InvalidHandle

AcquireWriteLockAgain(t) ==
  /\ At(t, "idle") /\ owner_thread = t
  /\ write_lock_count' = write_lock_count + 1
  /\ Takes(t, "write", 1)
  /\ Calls(t)
  /\ UNCHANGED <<lock_count, owner_thread, pc, locals, kernel>>

AcquireWriteLock(t) ==
  /\ Step(t, "idle", "write")
  /\ owner_thread # t
  /\ Calls(t)
  /\ arbitrated' = [arbitrated EXCEPT ![t] = FALSE]
  /\ UNCHANGED <<lock_count, writer, expected, local, holds, kernel>>

\* The free lock is marked as locked; the handle is not set.
WriteLockFree(t) ==
  /\ Step(t, "write", "written")
  /\ ~WriterWaits
  /\ lock_count' = [(IF arbitrated[t] THEN WriteWaiters(lock_count, -1) ELSE lock_count)
                     EXCEPT !.locked = TRUE]
  /\ UNCHANGED <<writer, locals, users, kernel>>

WriteLockBusy(t) ==
  LET lc == Queue(IF arbitrated[t] THEN lock_count ELSE WriteWaiters(lock_count, 1), t)
  IN  /\ Step(t, "write", IF lock_count.handle = InvalidHandle THEN "writers" ELSE "arbitrate write")
      /\ WriterWaits
      /\ lock_count' = lc
      /\ local' = [local EXCEPT ![t] = lc]
      /\ expected' = [expected EXCEPT ![t] = lock_count]
      /\ UNCHANGED <<writer, arbitrated, users, kernel>>

WriteArbitrated(t) ==
  /\ Step(t, "write arbitrated", IF lock_count.handle = t THEN "writers" ELSE "write")
  /\ arbitrated' = [arbitrated EXCEPT ![t] = TRUE]
  /\ expected' = [expected EXCEPT ![t] = lock_count]
  /\ UNCHANGED <<lock_count, writer, local, users, kernel>>

\* while (GetReadLockCount(lock_count) > 0), of the word as it was read, wait ...
WaitForReaders(t) ==
  /\ Step(t, "writers", "write again")
  /\ expected[t].reads > 0
  /\ WaitOn(t, cv_write_lock)
  /\ UNCHANGED <<writer, locals, users, cv_read_lock>>

WriteAgain(t) ==
  /\ Step(t, "write again", "writers")
  /\ expected' = [expected EXCEPT ![t] = lock_count]
  /\ UNCHANGED <<lock_count, writer, local, arbitrated, users, kernel>>

\* ... then exchange, from the word as it is.
WriterEnters(t) ==
  /\ At(t, "writers") /\ expected[t].reads = 0
  /\ \/ /\ lock_count = expected[t]
        /\ lock_count' = [WriteWaiters(lock_count, -1) EXCEPT !.locked = TRUE]
        /\ GoTo(t, "written")
        /\ UNCHANGED expected
     \/ /\ expected' = [expected EXCEPT ![t] = lock_count]
        /\ UNCHANGED <<lock_count, pc>>
  /\ UNCHANGED <<writer, local, arbitrated, users, kernel>>

\* AMS_ASSERT(GetWriteLockCount(*rw_lock) == 0), IncWriteLockCount, owner_thread
WriteLocked(t) ==
  /\ write_lock_count' = write_lock_count + 1
  /\ owner_thread' = t
  /\ Takes(t, "write", 1)
  /\ GoTo(t, "idle")

Written(t) ==
  /\ At(t, "written")
  /\ WriteLocked(t)
  /\ UNCHANGED <<lock_count, locals, calls, kernel>>

TryAcquireWriteLock(t) ==
  /\ At(t, "idle") /\ owner_thread # t /\ ~WriterWaits
  /\ lock_count' = [lock_count EXCEPT !.locked = TRUE, !.handle = t]
  /\ WriteLocked(t)
  /\ Calls(t)
  /\ UNCHANGED <<locals, kernel>>

ReleaseWriteLock(t) ==
  /\ Step(t, "idle", "release write")
  /\ holds[t].write > 0
  /\ write_lock_count' = write_lock_count - 1
  /\ Takes(t, "write", -1)
  /\ UNCHANGED <<lock_count, owner_thread, locals, calls, kernel>>

\* ReleaseWriteLockImpl: nothing while the writer has other locks ...
ReleaseKeeps(t) ==
  /\ Step(t, "release write", "idle")
  /\ (lock_count.reads # 0 \/ write_lock_count # 0)
  /\ UNCHANGED <<lock_count, writer, locals, users, kernel>>

\* ... else the word is read, a writer is woken, or all readers ...
ReleaseReads(t) ==
  /\ Step(t, "release write", "wake")
  /\ lock_count.reads = 0 /\ write_lock_count = 0
  /\ owner_thread' = InvalidHandle
  /\ Remember(t, lock_count)
  /\ UNCHANGED <<lock_count, write_lock_count, arbitrated, users, kernel>>

ReleaseSignals(t) ==
  /\ Step(t, "wake", "clear")
  /\ \/ local[t].writeWaiters > 0 /\ Signal /\ UNCHANGED cv_read_lock
     \/ /\ local[t].writeWaiters = 0 /\ local[t].readWaiters > 0
        /\ Woken(cv_read_lock) /\ cv_read_lock' = {}
        /\ UNCHANGED cv_write_lock
     \/ /\ local[t].writeWaiters = 0 /\ local[t].readWaiters = 0
        /\ UNCHANGED <<lock_count, kernel>>
  /\ UNCHANGED <<writer, locals, users>>

\* ... and the word is unlocked, from the lock_count read before.
ReleaseClears(t) ==
  LET lc == ClearHandle([local[t] EXCEPT !.locked = FALSE])
  IN  /\ At(t, "clear")
      /\ Exchange(t, lc, /\ GoTo(t, IF lc.wait THEN "unlock" ELSE "idle")
                         /\ UNCHANGED <<expected, local, users, arbiters>>)
      /\ UNCHANGED <<writer, arbitrated, cv_read_lock, cv_write_lock>>

--------------------------------------------------------------------------------
Reader(t) ==
  \/ AcquireReadLockWriteLocked(t) \/ AcquireReadLock(t) \/ ReadLockFree(t) \/ ReadLockBusy(t)
  \/ ArbitrateLock(t, "arbitrate read", "read arbitrated") \/ ReadArbitrated(t)
  \/ WaitForWriters(t) \/ ReadAgain(t) \/ ReadersEnter(t) \/ Unlock(t) \/ TryAcquireReadLock(t)
  \/ ReleaseReadLockWriteLocked(t) \/ ReleaseReadLock(t) \/ TakeHandle(t)
  \/ ArbitrateLock(t, "arbitrate release", "release arbitrated") \/ ReleaseArbitrated(t)
  \/ TakeReadOff(t) \/ SignalWriter(t) \/ DropHandle(t)

Writer(t) ==
  \/ AcquireWriteLockAgain(t) \/ AcquireWriteLock(t) \/ WriteLockFree(t) \/ WriteLockBusy(t)
  \/ ArbitrateLock(t, "arbitrate write", "write arbitrated") \/ WriteArbitrated(t)
  \/ WaitForReaders(t) \/ WriteAgain(t) \/ WriterEnters(t) \/ Written(t) \/ TryAcquireWriteLock(t)
  \/ ReleaseWriteLock(t) \/ ReleaseKeeps(t) \/ ReleaseReads(t) \/ ReleaseSignals(t) \/ ReleaseClears(t)

Next == \E t \in Threads : Reader(t) \/ Writer(t)

Spec == Init /\ [][Next]_vars

--------------------------------------------------------------------------------
\* The assertion at the end of AcquireWriteLock: who has got the write lock has
\* got it from nobody.
WriterIsAlone == \A t \in Threads : pc[t] = "written" => write_lock_count = 0
================================================================================
