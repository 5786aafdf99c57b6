------------------------------- MODULE FileUtils -------------------------------
(***************************************************************************)
(* FileUtils (file_utils.cpp), in a build with logging: the thread that     *)
(* brings up the file system, the flag g_has_initialized, and the log that  *)
(* all threads of the process write.                                        *)
(*                                                                          *)
(* A line is identified by its thread and number.  The card and the         *)
(* console's services are modelled from their use: a call may fail, and a   *)
(* file cannot be opened for writing twice at a time.                       *)
(***************************************************************************)
EXTENDS Integers, FiniteSets

CONSTANTS
  Main,       \* the thread of main()
  Loggers,    \* the other threads: the services', the query server's
  InitThread, \* g_init_thread
  Nobody,
  MaxLines,   \* bound: lines each of Loggers writes
  CardFails   \* the calls that may fail: a subset of {"init", "open", "read"}

Threads == Loggers \cup {Main, InitThread}

ASSUME ThreadsAssumption ==
  /\ IsFiniteSet(Loggers)
  /\ Main # InitThread /\ {Main, InitThread} \cap Loggers = {} /\ Nobody \notin Threads
  /\ MaxLines \in Nat

ASSUME CardAssumption == CardFails \subseteq {"init", "open", "read"}

VARIABLES
  boot,         \* program point of g_init_thread; "none" is State_NotInitialized
  mounted,      \* the file system is there
  initialized,  \* g_has_initialized
  at,           \* [Threads -> the point in LogLine]
  lines,        \* [Threads -> number of calls of LogLine]
  mutex,        \* holder of g_log_mutex
  file,         \* who has the log open
  logged,       \* the lines in the log
  dropped       \* the lines that came too early, or that the card refused

logVars == <<at, lines, mutex, file, logged, dropped>>
fsVars == <<boot, mounted, initialized>>
fileVars == <<fsVars, logVars>>

Running == boot # "aborted"

FileInit ==
  /\ boot = "none"
  /\ mounted = FALSE
  /\ initialized = FALSE
  /\ at = [t \in Threads |-> "idle"]
  /\ lines = [t \in Threads |-> 0]
  /\ mutex = Nobody
  /\ file = Nobody
  /\ logged = {}
  /\ dropped = {}

--------------------------------------------------------------------------------
(* LogLine *)

LineOf(t) == <<t, lines[t]>>

Moves(t, from, to) == Running /\ at[t] = from /\ at' = [at EXCEPT ![t] = to]

\* A thread calls LogLine; it goes on when at[t] is "idle" again.
CallLogLine(t) ==
  /\ Moves(t, "idle", "check")
  /\ lines' = [lines EXCEPT ![t] = @ + 1]
  /\ UNCHANGED <<mutex, file, logged, dropped>>

\* if (g_has_initialized), without the mutex
CheckFlag(t) ==
  /\ Moves(t, "check", IF initialized THEN "lock" ELSE "idle")
  /\ dropped' = IF initialized THEN dropped ELSE dropped \cup {LineOf(t)}
  /\ UNCHANGED <<fsVars, lines, mutex, file, logged>>

\* Mutant: the lock is forgotten.
LockNothing(t) ==
  /\ Moves(t, "lock", "open")
  /\ UNCHANGED <<fsVars, lines, mutex, file, logged, dropped>>

Lock(t) ==
  /\ Moves(t, "lock", "open")
  /\ mutex = Nobody
  /\ mutex' = t
  /\ UNCHANGED <<fsVars, lines, file, logged, dropped>>

\* fopen(FILE_LOG_FILE_PATH, "a") ...
OpenLog(t) ==
  /\ Moves(t, "open", "write")
  /\ file = Nobody
  /\ file' = t
  /\ UNCHANGED <<fsVars, lines, mutex, logged, dropped>>

\* ... does not open a file that is open, and may fail for other reasons.
OpenLogFails(t) ==
  /\ Moves(t, "open", "unlock")
  /\ file # Nobody \/ "open" \in CardFails
  /\ dropped' = IF file = Nobody THEN dropped \cup {LineOf(t)} ELSE dropped
  /\ UNCHANGED <<fsVars, lines, mutex, file, logged>>

\* fclose writes what was printed.
WriteLog(t) ==
  /\ Moves(t, "write", "unlock")
  /\ file' = Nobody
  /\ logged' = logged \cup {LineOf(t)}
  /\ UNCHANGED <<fsVars, lines, mutex, dropped>>

\* Mutant: a line that could not be written leaves the mutex locked.
UnlockWritten(t) ==
  /\ Moves(t, "unlock", "idle")
  /\ mutex' = IF LineOf(t) \in logged THEN Nobody ELSE mutex
  /\ UNCHANGED <<fsVars, lines, file, logged, dropped>>

Unlock(t) ==
  /\ Moves(t, "unlock", "idle")
  /\ mutex' = Nobody
  /\ UNCHANGED <<fsVars, lines, file, logged, dropped>>

LogLine(t) == \/ CheckFlag(t) \/ Lock(t) \/ OpenLog(t) \/ OpenLogFails(t)
              \/ WriteLog(t) \/ Unlock(t)

--------------------------------------------------------------------------------
(* Initialize, in g_init_thread *)

Boots(from, to) == boot = from /\ boot' = to

\* InitializeAsync: create and start the thread.
InitializeAsync == Boots("none", "time") /\ UNCHANGED <<mounted, initialized>>

InitializeTime ==
  /\ Boots("time", "fs")
  /\ UNCHANGED <<mounted, initialized, logVars>>

InitializeFs ==
  /\ Boots("fs", "mount")
  /\ UNCHANGED <<mounted, initialized, logVars>>

MountCard ==
  /\ Boots("mount", "flag")
  /\ mounted' = TRUE
  /\ UNCHANGED <<initialized, logVars>>

\* R_ABORT_UNLESS(FileUtils::Initialize())
InitializeFails ==
  /\ boot \in {"time", "fs", "mount"}
  /\ "init" \in CardFails
  /\ boot' = "aborted"
  /\ UNCHANGED <<mounted, initialized, logVars>>

\* The flag, then the line with the program's name.
SetInitialized ==
  /\ Boots("flag", "header")
  /\ initialized' = TRUE
  /\ CallLogLine(InitThread)
  /\ UNCHANGED mounted

InitializeReturns ==
  /\ Boots("header", "done")
  /\ at[InitThread] = "idle"
  /\ UNCHANGED <<mounted, initialized, logVars>>

Initialize == \/ InitializeTime \/ InitializeFs \/ MountCard \/ InitializeFails
              \/ SetInitialized \/ InitializeReturns

\* Mutant: nobody waits for the thread.
WaitInitializedGoesOn(yes, wait, no) ==
  IF initialized THEN yes ELSE IF boot = "none" THEN no ELSE yes

\* WaitInitialized returns TRUE at once, or waits for the thread, or returns
\* FALSE because there is no thread.
WaitInitialized(yes, wait, no) ==
  IF initialized THEN yes ELSE IF boot = "none" THEN no ELSE wait

--------------------------------------------------------------------------------
FileTypes ==
  /\ boot \in {"none", "time", "fs", "mount", "flag", "header", "done", "aborted"}
  /\ mounted \in BOOLEAN /\ initialized \in BOOLEAN
  /\ at \in [Threads -> {"idle", "check", "lock", "open", "write", "unlock"}]
  /\ lines \in [Threads -> Nat]
  /\ mutex \in Threads \cup {Nobody} /\ file \in Threads \cup {Nobody}
  /\ logged \subseteq Threads \X Nat /\ dropped \subseteq Threads \X Nat

\* The log is opened only on a mounted card, by one thread at a time.
LogInv ==
  /\ initialized => mounted
  /\ boot \in {"flag", "header", "done"} => mounted
  /\ \A t \in Threads : at[t] \in {"lock", "open", "write", "unlock"} => initialized
  /\ \A t \in Threads : at[t] \in {"open", "write", "unlock"} <=> mutex = t
  /\ \A t \in Threads : at[t] = "write" <=> file = t

\* Each line ends up in the log, whoever else is logging, unless it came before
\* the file system was there or the card refused the file.
NoLineLost ==
  \A t \in Threads : \A n \in 1..lines[t] :
    \/ <<t, n>> \in logged \cup dropped
    \/ n = lines[t] /\ at[t] \in {"check", "lock", "open", "write"}
================================================================================
