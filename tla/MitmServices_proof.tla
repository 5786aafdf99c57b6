--------------------------- MODULE MitmServices_proof ---------------------------
(***************************************************************************)
(* The safety of MitmServices for any threads, requests and bounds: files   *)
(* are used when they are there, no line is lost, sizes and pictures fit.   *)
(***************************************************************************)
EXTENDS MitmServices, Ini_proof

\* The file part of the invariant.
FilesInv == FileTypes /\ LogInv /\ NoLineLost

\* In the first state nothing is there, and no line is lost.
LEMMA InitOK == Init => MitmInv
<1> SUFFICES ASSUME Init PROVE MitmInv
  OBVIOUS
<1> USE ThreadsAssumption, SizesAssumption DEF Init, FileInit
<1>1. FileTypes
  BY DEF FileTypes
<1>2. LogInv
  BY DEF LogInv
<1>3. TypeOK
  BY <1>1 DEF TypeOK
<1>4. NoLineLost
  BY DEF NoLineLost
<1>5. BufferInv /\ SizeFits
  BY DEF BufferInv, SizeFits, NoRequest
<1>6. OnePicture
  BY DEF OnePicture
<1> QED
  BY <1>2, <1>3, <1>4, <1>5, <1>6 DEF MitmInv, FilesWhileMounted

\* A call of LogLine keeps the log in order, whether it sets the flag or not.
LEMMA CallKeepsLog ==
  ASSUME FilesInv, NEW t \in Threads, CallLogLine(t), UNCHANGED mounted,
         boot' = boot \/ (boot = "flag" /\ boot' = "header"),
         initialized' = initialized \/ (mounted /\ initialized' = TRUE)
  PROVE  FilesInv'
<1>1. FileTypes'
  <2>1. boot' \in {"none", "time", "fs", "mount", "flag", "header", "done", "aborted"}
    BY DEF FilesInv, FileTypes
  <2>2. mounted' \in BOOLEAN /\ initialized' \in BOOLEAN
    BY DEF FilesInv, FileTypes
  <2>3. UNCHANGED <<mutex, file, logged, dropped>>
    BY DEF CallLogLine
  <2>4. at' \in [Threads -> {"idle", "check", "lock", "open", "write", "unlock"}]
    BY DEF FilesInv, FileTypes, CallLogLine, Moves
  <2>5. lines' \in [Threads -> Nat]
    BY DEF FilesInv, FileTypes, CallLogLine
  <2> QED
    BY <2>1, <2>2, <2>3, <2>4, <2>5 DEF FilesInv, FileTypes
<1>2. LogInv'
  BY DEF FilesInv, FileTypes, LogInv, CallLogLine, Moves
<1>3. ASSUME NEW u \in Threads, NEW n \in 1 .. lines'[u]
      PROVE  \/ <<u, n>> \in logged' \cup dropped'
             \/ n = lines'[u] /\ at'[u] \in {"check", "lock", "open", "write"}
  <2>1. CASE u # t
    BY <1>3, <2>1 DEF FilesInv, FileTypes, NoLineLost, CallLogLine, Moves
  <2>2. CASE u = t
    <3>1. n \in 1 .. lines[t] + 1
      BY <1>3, <2>2 DEF FilesInv, FileTypes, CallLogLine
    <3>2. CASE n = lines[t] + 1
      BY <2>2, <3>2 DEF FilesInv, FileTypes, CallLogLine, Moves
    <3>3. CASE n \in 1 .. lines[t]
      BY <2>2, <3>3 DEF FilesInv, FileTypes, NoLineLost, CallLogLine, Moves
    <3> QED
      BY <3>1, <3>2, <3>3 DEF FilesInv, FileTypes
  <2> QED
    BY <2>1, <2>2
<1> QED
  BY <1>1, <1>2, <1>3 DEF FilesInv, NoLineLost

\* So do the steps of LogLine itself.
LEMMA LogKeepsLog ==
  ASSUME FilesInv, NEW t \in Threads, LogLine(t)
  PROVE  FilesInv'
<1> USE ThreadsAssumption DEF FilesInv, FileTypes, fsVars, LineOf
<1>0. UNCHANGED <<boot, mounted, initialized, lines>>
  BY DEF LogLine, CheckFlag, Lock, OpenLog, OpenLogFails, WriteLog, Unlock
<1>1. CASE CheckFlag(t)
  <2>1. FileTypes'
    BY <1>1 DEF CheckFlag, Moves
  <2>2. LogInv'
    BY <1>1 DEF CheckFlag, Moves, LogInv
  <2>3. NoLineLost'
    BY <1>1 DEF CheckFlag, Moves, NoLineLost
  <2> QED
    BY <2>1, <2>2, <2>3
<1>2. CASE Lock(t)
  BY <1>2 DEF Lock, Moves, LogInv, NoLineLost
<1>3. CASE OpenLog(t)
  BY <1>3 DEF OpenLog, Moves, LogInv, NoLineLost
<1>4. CASE OpenLogFails(t)
  <2>1. file = Nobody
    BY <1>4 DEF OpenLogFails, Moves, LogInv
  <2>2. FileTypes'
    BY <1>4, <2>1 DEF OpenLogFails, Moves
  <2>3. LogInv'
    BY <1>4, <2>1 DEF OpenLogFails, Moves, LogInv
  <2>4. NoLineLost'
    BY <1>4, <2>1 DEF OpenLogFails, Moves, NoLineLost
  <2> QED
    BY <2>2, <2>3, <2>4
<1>5. CASE WriteLog(t)
  <2>1. FileTypes'
    BY <1>5 DEF WriteLog, Moves
  <2>2. LogInv'
    BY <1>5 DEF WriteLog, Moves, LogInv
  <2>3. NoLineLost'
    BY <1>5 DEF WriteLog, Moves, NoLineLost
  <2> QED
    BY <2>1, <2>2, <2>3
<1>6. CASE Unlock(t)
  BY <1>6 DEF Unlock, Moves, LogInv, NoLineLost
<1> QED
  BY <1>1, <1>2, <1>3, <1>4, <1>5, <1>6 DEF LogLine

\* And those of the thread that brings up the file system.
LEMMA InitializeKeepsLog ==
  ASSUME FilesInv, Initialize
  PROVE  FilesInv'
<1>1. CASE SetInitialized
  <2>1. /\ CallLogLine(InitThread) /\ UNCHANGED mounted /\ InitThread \in Threads
        /\ boot = "flag" /\ boot' = "header" /\ initialized' = TRUE
    BY <1>1 DEF SetInitialized, Boots, Threads
  <2>2. mounted
    BY <2>1 DEF FilesInv, LogInv
  <2> QED
    BY <2>1, <2>2, CallKeepsLog
<1>2. CASE InitializeTime \/ InitializeFs \/ MountCard \/ InitializeFails \/ InitializeReturns
  <2>1. UNCHANGED <<initialized, at, lines, mutex, file, logged, dropped>>
    BY <1>2 DEF InitializeTime, InitializeFs, MountCard, InitializeFails, InitializeReturns, logVars
  <2>2. FileTypes'
    BY <1>2, <2>1 DEF FilesInv, FileTypes, InitializeTime, InitializeFs, MountCard,
                      InitializeFails, InitializeReturns, Boots
  <2>3. LogInv'
    BY <1>2, <2>1 DEF FilesInv, FileTypes, LogInv, InitializeTime, InitializeFs, MountCard,
                      InitializeFails, InitializeReturns, Boots
  <2>4. NoLineLost'
    BY <2>1 DEF FilesInv, NoLineLost
  <2> QED
    BY <2>2, <2>3, <2>4 DEF FilesInv
<1> QED
  BY <1>1, <1>2 DEF Initialize

\* Every step keeps the file part: main and the loggers only call LogLine.
LEMMA FilesStep ==
  ASSUME FilesInv, [Next]_vars
  PROVE  FilesInv'
<1>1. CASE UNCHANGED fileVars
  BY <1>1 DEF FilesInv, FileTypes, LogInv, NoLineLost, fileVars, fsVars, logVars
<1>2. ASSUME NEW t \in Threads, CallLogLine(t), UNCHANGED fsVars PROVE FilesInv'
  BY <1>2, CallKeepsLog DEF fsVars
<1>3. CASE StartInitialization
  <2>1. boot' = "time" /\ UNCHANGED <<mounted, initialized, logVars>> /\ boot = "none"
    BY <1>3 DEF StartInitialization, InitializeAsync, Boots
  <2> QED
    BY <2>1 DEF FilesInv, FileTypes, LogInv, NoLineLost, logVars
<1>4. ASSUME NEW from, NEW to, MainLogs(from, to) PROVE FilesInv'
  BY <1>4, <1>2 DEF MainLogs, Threads
<1>5. CASE Initialize
  BY <1>5, InitializeKeepsLog
<1>6. CASE \E t \in Threads : LogLine(t)
  BY <1>6, LogKeepsLog
<1>7. CASE \E t \in Loggers : OthersLog(t)
  BY <1>7, <1>2 DEF OthersLog, Threads
<1>8. CASE RegisterServers \/ StartServices \/ EnterLoop
  BY <1>8, <1>4 DEF RegisterServers, StartServices, EnterLoop
<1>9. CASE Serves
  BY <1>9, <1>1, <1>4 DEF Serves, NeedsUpdateVulnerability, ForwardFails, Forward,
       WaitsForFiles, WaitReturns, TooSmall, ReadConfig, ReadIcon, NoIconThere
<1>10. CASE ReceiveRequest
  BY <1>10, <1>1 DEF ReceiveRequest
<1>11. CASE UNCHANGED vars
  BY <1>11, <1>1 DEF vars
<1> QED
  BY <1>3, <1>5, <1>6, <1>7, <1>8, <1>9, <1>10, <1>11 DEF Next, main

\* What main and its requests add to it.
MainTypes ==
  /\ step \in {"main", "register", "start", "loop", "serve", "call", "wait", "waiting",
               "config", "icon"}
  /\ request \in Requests \cup {NoRequest} /\ out \in Nat /\ served \in 0 .. MaxRequests

MainInv == MainTypes /\ BufferInv /\ SizeFits /\ OnePicture
           /\ (step \in {"config", "icon"} => mounted)

\* Sizes are numbers.
LEMMA SizeIsNat == ASSUME NEW r \in Requests \cup {NoRequest}
                   PROVE  r.size \in Nat /\ r.icon \in Nat \cup {NoIcon}
<1>1. NoRequest.size = 0 /\ NoRequest.icon = NoIcon
  BY DEF NoRequest
<1>2. CASE r = NoRequest
  BY <1>1, <1>2
<1>3. CASE r \in Requests
  BY <1>3, RequestsAssumption
<1> QED
  BY <1>2, <1>3

\* So is the room behind the Nacp.
LEMMA RoomIsNat == ASSUME request \in Requests \cup {NoRequest}
                   PROVE  Room(request) \in Nat /\ request.size \in Nat
  BY SizeIsNat, SizesAssumption DEF Room

\* The buffer is filled by ns and by the two files: each keeps size and picture.
LEMMA ForwardStep == ASSUME MainInv, Forward PROVE MainInv'
<1> USE SizesAssumption
<1>1. PICK size \in 0 .. Room(request) :
        /\ out' = IF request.size < NacpSize THEN 0 ELSE NacpSize + size
        /\ icon' = [b \in 1 .. Room(request) |-> IF b <= size THEN "ns" ELSE "none"]
  BY DEF Forward
<1>2. UNCHANGED <<request, served, boot, mounted, initialized>> /\ step' \in {"wait", "serve"}
  BY DEF Forward, MainLogs, Goes, fsVars
<1>3. Room(request) \in Nat /\ request.size \in Nat
  BY RoomIsNat DEF MainInv, MainTypes
<1>4. MainTypes' /\ BufferInv'
  BY <1>1, <1>2, <1>3 DEF MainInv, MainTypes, BufferInv, Room
<1>5. SizeFits'
  BY <1>1, <1>2, <1>3 DEF SizeFits, Room
<1>6. OnePicture'
  BY <1>1, <1>2, <1>3 DEF OnePicture, Room
<1> QED
  BY <1>2, <1>4, <1>5, <1>6 DEF MainInv

\* ... and the icon on the card, whatever part of it is read.
LEMMA ReadIconStep == ASSUME MainInv, ReadIcon PROVE MainInv'
<1> USE SizesAssumption
<1>1. /\ request.icon # NoIcon /\ step = "icon" /\ step' = "serve"
      /\ UNCHANGED <<request, served, boot, mounted, initialized>>
  BY DEF ReadIcon, MainLogs, Goes, fsVars
<1>2. /\ Room(request) \in Nat /\ request.size \in Nat
      /\ DOMAIN icon = 1 .. Room(request) /\ request.size >= NacpSize
  BY <1>1, RoomIsNat DEF MainInv, MainTypes, BufferInv
<1>3. request.icon \in Nat
  BY <1>1, SizeIsNat DEF MainInv, MainTypes
<1>4. PICK n \in 0 .. Smaller(request.icon, Room(request)) : IconRead(n)
  BY <1>2, <1>3 DEF ReadIcon, Smaller
<1>5. n \in Nat /\ n <= Room(request) /\ out' = NacpSize + n
  BY <1>2, <1>3, <1>4 DEF IconRead, Smaller
<1>6. icon' = [b \in 1 .. Room(request) |-> IF b <= n THEN "card" ELSE icon[b]]
  BY <1>2, <1>4 DEF IconRead
<1>7. MainTypes' /\ BufferInv'
  BY <1>1, <1>5 DEF MainInv, MainTypes, BufferInv
<1>8. SizeFits'
  BY <1>1, <1>2, <1>5 DEF SizeFits, Room
<1>9. OnePicture'
  BY <1>2, <1>5, <1>6 DEF OnePicture
<1> QED
  BY <1>1, <1>7, <1>8, <1>9 DEF MainInv

\* No step brings main to the card before it is mounted.
LEMMA MainStep ==
  ASSUME FilesInv, MainInv, [Next]_vars
  PROVE  MainInv'
<1> USE DEF MainInv, MainTypes
<1>0. mounted => mounted'
  BY DEF Next, main, StartInitialization, RegisterServers, StartServices, EnterLoop, MainLogs,
     Serves, NeedsUpdateVulnerability, ForwardFails, Forward, WaitsForFiles, WaitReturns, TooSmall,
     ReadConfig, ReadIcon, NoIconThere, ReceiveRequest, Initialize, InitializeAsync, InitializeTime,
     InitializeFs, MountCard, InitializeFails, SetInitialized, InitializeReturns, LogLine, CheckFlag,
     Lock, OpenLog, OpenLogFails, WriteLog, Unlock, OthersLog, fsVars, fileVars, vars
<1>1. CASE UNCHANGED mainVars
  BY <1>0, <1>1 DEF mainVars, answerVars, BufferInv, SizeFits, OnePicture, Room
<1>2. ASSUME UNCHANGED <<request, icon, out, served>>,
             step' \in {"main", "register", "start", "loop", "serve", "call"}
      PROVE  MainInv'
  BY <1>2 DEF BufferInv, SizeFits, OnePicture
<1>3. CASE StartInitialization \/ RegisterServers \/ StartServices \/ EnterLoop
           \/ NeedsUpdateVulnerability \/ ForwardFails \/ TooSmall \/ NoIconThere
  BY <1>2, <1>3 DEF StartInitialization, RegisterServers, StartServices, EnterLoop, MainLogs, Goes,
     NeedsUpdateVulnerability, ForwardFails, TooSmall, NoIconThere, answerVars
<1>4. CASE ReceiveRequest
  <2>1. request' \in Requests /\ icon' = <<>> /\ out' = 0 /\ step' = "call" /\ served' \in 0 .. MaxRequests
    BY <1>4, SizesAssumption DEF ReceiveRequest, Goes
  <2> QED
    <3>1. request'.size \in Nat
      BY <2>1, SizeIsNat
    <3>2. SizeFits' /\ BufferInv'
      BY <2>1, <3>1 DEF BufferInv, SizeFits
    <3>3. OnePicture'
      BY <2>1 DEF OnePicture
    <3> QED
      BY <2>1, <3>2, <3>3
<1>5. CASE Forward
  BY <1>5, ForwardStep
<1>6. CASE WaitsForFiles
  <2>1. step = "wait" /\ UNCHANGED <<fileVars, request, icon, out, served>>
    BY <1>6 DEF WaitsForFiles, Goes, answerVars
  <2>2. step' \in {"config", "waiting", "serve"} /\ (step' = "config" => initialized)
    BY <1>6 DEF WaitsForFiles, Goes, WaitInitialized
  <2>3. initialized => mounted
    BY DEF FilesInv, LogInv
  <2> QED
    BY <2>1, <2>2, <2>3 DEF BufferInv, SizeFits, OnePicture, fileVars, fsVars
<1>7. CASE WaitReturns
  <2>1. step = "waiting" /\ step' = "config" /\ UNCHANGED <<fileVars, request, icon, out, served>>
    BY <1>7 DEF WaitReturns, Goes, answerVars
  <2>2. mounted
    BY <1>7 DEF WaitReturns, FilesInv, LogInv
  <2> QED
    BY <2>1, <2>2 DEF BufferInv, SizeFits, OnePicture, fileVars, fsVars
<1>8. CASE ReadConfig
  <2>1. /\ step = "config" /\ step' = "icon" /\ request.size >= NacpSize
        /\ UNCHANGED <<fileVars, request, icon, out, served>>
    BY <1>8 DEF ReadConfig, Goes
  <2> QED
    BY <2>1 DEF BufferInv, SizeFits, OnePicture, fileVars, fsVars
<1>9. CASE ReadIcon
  BY <1>9, ReadIconStep
<1> QED
  BY <1>1, <1>3, <1>4, <1>5, <1>6, <1>7, <1>8, <1>9 DEF Next, main, Serves, OthersLog, vars

\* MitmInv is inductive: files are used by main and by the log only when they
\* are there, and the answer is whole.
THEOREM MitmInvariant == Spec => []MitmInv
<1>1. MitmInv <=> FilesInv /\ MainInv
  BY DEF MitmInv, FilesInv, MainInv, MainTypes, TypeOK, FilesWhileMounted
<1>2. MitmInv /\ [Next]_vars => MitmInv'
  <2>1. (MitmInv <=> FilesInv /\ MainInv)'
    BY DEF MitmInv, FilesInv, MainInv, MainTypes, TypeOK, FilesWhileMounted
  <2> QED
    BY <1>1, <2>1, FilesStep, MainStep
<1> QED
  BY <1>2, InitOK, PTL DEF Spec

\* The card is read, and the log written, only on a mounted card.
THEOREM FilesAreThere == Spec => []FilesWhileMounted
  BY MitmInvariant, PTL DEF MitmInv

\* Each line called for is in the log, dropped for a reason, or on its way.
THEOREM LinesAreKept == Spec => []NoLineLost
  BY MitmInvariant, PTL DEF MitmInv

\* The size reported for control data lies within the client's buffer.
THEOREM SizesFit == Spec => []SizeFits
  BY MitmInvariant, PTL DEF MitmInv

\* The icon reported is ns's or the card's, never parts of both.
THEOREM IconsAreWhole == Spec => []OnePicture
  BY MitmInvariant, PTL DEF MitmInv

--------------------------------------------------------------------------------
(* What config.ini says: the fields, after each call of the handler. *)

\* g is what the fold of Handler is over the subsets of the first n calls.
IsHandlerFold(g, nacp, calls, n) ==
  g = [s \in SUBSET (1 .. n) |->
        IF s = {} THEN nacp ELSE Handler(g[s \ {Max(s)}], calls[Max(s)])]

\* The fold is defined, whatever the number of calls.
LEMMA HandlerFoldExists ==
  ASSUME NEW nacp, NEW calls, NEW n \in Nat
  PROVE  \E g : IsHandlerFold(g, nacp, calls, n)
<1> DEFINE S == {k \in Nat : \E g : IsHandlerFold(g, nacp, calls, k)}
<1>1. 0 \in S
  <2> DEFINE g == [s \in SUBSET (1 .. 0) |-> nacp]
  <2>1. SUBSET (1 .. 0) = {{}}
    OBVIOUS
  <2>2. IsHandlerFold(g, nacp, calls, 0)
    BY <2>1 DEF IsHandlerFold
  <2> QED
    BY <2>2
<1>2. ASSUME NEW k \in Nat, NEW g, IsHandlerFold(g, nacp, calls, k)
      PROVE  \E h : IsHandlerFold(h, nacp, calls, k + 1)
  <2> DEFINE h == [s \in SUBSET (1 .. k + 1) |->
                    IF k + 1 \in s THEN Handler(g[s \ {k + 1}], calls[k + 1]) ELSE g[s]]
  <2>1. ASSUME NEW s \in SUBSET (1 .. k + 1)
        PROVE  h[s] = IF s = {} THEN nacp ELSE Handler(h[s \ {Max(s)}], calls[Max(s)])
    <3>1. CASE k + 1 \in s
      <4>1. Max(s) = k + 1
        BY <3>1, MaxOfPrefix
      <4>2. s \ {k + 1} \in SUBSET (1 .. k + 1) /\ k + 1 \notin s \ {k + 1}
        OBVIOUS
      <4> QED
        BY <3>1, <4>1, <4>2
    <3>2. CASE k + 1 \notin s
      <4>1. s \in SUBSET (1 .. k)
        BY <3>2
      <4>2. s \ {Max(s)} \in SUBSET (1 .. k + 1) /\ k + 1 \notin s \ {Max(s)}
        BY <3>2
      <4>3. h[s \ {Max(s)}] = g[s \ {Max(s)}]
        BY <4>2
      <4>4. h[s] = g[s]
        BY <3>2
      <4>5. g[s] = IF s = {} THEN nacp ELSE Handler(g[s \ {Max(s)}], calls[Max(s)])
        BY <1>2, <4>1 DEF IsHandlerFold
      <4> QED
        BY <4>3, <4>4, <4>5
    <3> QED
      BY <3>1, <3>2
  <2>2. h = [s \in SUBSET (1 .. k + 1) |-> h[s]]
    OBVIOUS
  <2> HIDE DEF h
  <2>3. IsHandlerFold(h, nacp, calls, k + 1)
    BY <2>1, <2>2 DEF IsHandlerFold
  <2> QED
    BY <2>3
<1>3. \A k \in Nat : k \in S => k + 1 \in S
  BY <1>2
<1>4. Nat \subseteq S
  <2> HIDE DEF S
  <2> QED
    BY <1>1, <1>3, NatSetInduction
<1> QED
  BY <1>4

\* What the first n calls say of a field: the last of them in its section.
Said(field, calls, n) ==
  {k \in 1 .. n : calls[k].section = "override_nacp" /\ calls[k].name = field}

SaidValue(field, calls, n) ==
  IF Said(field, calls, n) = {} THEN "ns"
  ELSE IF field = "startup_user_account" THEN IsTrue(calls[Max(Said(field, calls, n))].value)
       ELSE calls[Max(Said(field, calls, n))].value

\* The fields are those the first n calls say.
Holds(nacp, calls, n) ==
  nacp = [f \in Fields |-> SaidValue(f, calls, n)]

\* One call overrides its field, in its section, and no other.
LEMMA HandlerStep ==
  ASSUME NEW calls, NEW n \in Nat, NEW nacp, Holds(nacp, calls, n)
  PROVE  Holds(Handler(nacp, calls[n + 1]), calls, n + 1)
<1> DEFINE call == calls[n + 1]
           next == Handler(nacp, call)
<1>1. \A k : k \in 1 .. n + 1 <=> k \in 1 .. n \/ k = n + 1
  OBVIOUS
<1>2. nacp = [f \in Fields |-> SaidValue(f, calls, n)]
  BY DEF Holds
<1>3. DOMAIN next = Fields /\ next = [f \in Fields |-> next[f]]
  BY <1>2 DEF Handler
<1>4. ASSUME NEW f \in Fields
      PROVE  next[f] = SaidValue(f, calls, n + 1)
  <2>1. CASE call.section = "override_nacp" /\ call.name = f
    <3> DEFINE T == Said(f, calls, n + 1)
    <3>1. n + 1 \in T /\ T \subseteq 1 .. n + 1
      BY <1>1, <2>1 DEF Said
    <3> HIDE DEF T
    <3>2. Max(T) = n + 1 /\ T # {}
      BY <3>1, MaxOfPrefix
    <3>3. SaidValue(f, calls, n + 1) =
            IF f = "startup_user_account" THEN IsTrue(call.value) ELSE call.value
      BY <3>2 DEF SaidValue, T
    <3>4. next[f] = IF f = "startup_user_account" THEN IsTrue(call.value) ELSE call.value
      BY <1>2, <2>1 DEF Handler
    <3> QED
      BY <3>3, <3>4
  <2>2. CASE ~(call.section = "override_nacp" /\ call.name = f)
    <3>1. Said(f, calls, n + 1) = Said(f, calls, n)
      BY <1>1, <2>2 DEF Said
    <3>2. SaidValue(f, calls, n + 1) = SaidValue(f, calls, n)
      BY <3>1 DEF SaidValue
    <3>3. next[f] = nacp[f]
      BY <1>2, <2>2 DEF Handler
    <3> QED
      BY <1>2, <3>2, <3>3
  <2> QED
    BY <2>1, <2>2
<1> HIDE DEF next
<1>5. next = [f \in Fields |-> SaidValue(f, calls, n + 1)]
  BY <1>3, <1>4
<1> QED
  BY <1>5 DEF Holds, next

\* The calls of a file override the fields as the file says.
LEMMA CallsOverride ==
  ASSUME NEW calls, Len(calls) \in Nat, DOMAIN calls = 1 .. Len(calls)
  PROVE  FoldLeft(Handler, [f \in Fields |-> "ns"], calls) = [f \in Fields |-> Overridden(f, calls)]
<1> DEFINE ns == [f \in Fields |-> "ns"]
           iter == CHOOSE g : IsHandlerFold(g, ns, calls, Len(calls))
           S == {n \in Nat : n <= Len(calls) => Holds(iter[1 .. n], calls, n)}
<1>1. IsHandlerFold(iter, ns, calls, Len(calls))
  <2> HIDE DEF ns
  <2> QED
    BY HandlerFoldExists
<1>2. FoldLeft(Handler, ns, calls) = iter[1 .. Len(calls)]
  BY DEF FoldLeft, MapThenFoldSet, IsHandlerFold
<1> HIDE DEF iter
<1>3. 0 \in S
  <2>1. 1 .. 0 = {} /\ {} \in SUBSET (1 .. Len(calls))
    OBVIOUS
  <2>2. iter[1 .. 0] = ns
    <3> HIDE DEF ns
    <3> QED
      BY <1>1, <2>1 DEF IsHandlerFold
  <2>3. \A f \in Fields : SaidValue(f, calls, 0) = "ns"
    BY <2>1 DEF SaidValue, Said
  <2> QED
    BY <2>2, <2>3 DEF Holds
<1>4. ASSUME NEW n \in Nat, n \in S
      PROVE  n + 1 \in S
  <2> SUFFICES ASSUME n + 1 <= Len(calls) PROVE Holds(iter[1 .. n + 1], calls, n + 1)
    OBVIOUS
  <2>1. Holds(iter[1 .. n], calls, n)
    BY <1>4
  <2>2. n + 1 \in 1 .. n + 1 /\ 1 .. n + 1 \subseteq 1 .. n + 1
    OBVIOUS
  <2>3. 1 .. n + 1 \in SUBSET (1 .. Len(calls)) /\ 1 .. n + 1 # {}
    <3>1. \A x \in 1 .. n + 1 : x \in 1 .. Len(calls)
      OBVIOUS
    <3> QED
      BY <2>2, <3>1
  <2>4. (1 .. n + 1) \ {n + 1} = 1 .. n
    OBVIOUS
  <2>5. Max(1 .. n + 1) = n + 1
    BY <2>2, MaxOfPrefix
  <2>6. iter[1 .. n + 1] = Handler(iter[1 .. n], calls[n + 1])
    <3> HIDE DEF ns
    <3> QED
      BY <1>1, <2>3, <2>4, <2>5 DEF IsHandlerFold
  <2> QED
    BY <2>1, <2>6, HandlerStep
<1>5. Nat \subseteq S
  <2> HIDE DEF S
  <2> QED
    BY <1>3, <1>4, NatSetInduction
<1>6. Holds(iter[1 .. Len(calls)], calls, Len(calls))
  BY <1>5
<1>7. ASSUME NEW f \in Fields
      PROVE  SaidValue(f, calls, Len(calls)) = Overridden(f, calls)
  BY DEF SaidValue, Overridden, Said
<1> QED
  BY <1>2, <1>6, <1>7 DEF Holds

\* What is known of the fields before the answer goes back.
FieldsInv ==
  /\ boot \in {"header", "done"} => initialized
  /\ step \in {"call", "wait", "waiting", "config"} => fields = [f \in Fields |-> "ns"]
  /\ step \in {"wait", "waiting", "config"} => request.cmd = "control data"
  /\ step = "config" => initialized
  /\ FieldsAreOneFiles

\* Reading a title's config.ini overrides each of its fields, or none.
LEMMA ConfigOverrides ==
  ASSUME NEW config \in Files
  PROVE  FoldLeft(Handler, [f \in Fields |-> "ns"], Parse(config).calls)
           = [f \in Fields |-> Overridden(f, CallsOf(config))]
<1>1. config \in Seq(IniLine)
  BY FilesAssumption
<1>2. Parse(config).calls = CallsOf(config) /\ Parse(config).calls \in Seq(CallTypes)
  BY <1>1, CallsAreTheFiles, ParsedCalls
<1>3. Len(Parse(config).calls) \in Nat /\ DOMAIN Parse(config).calls = 1 .. Len(Parse(config).calls)
  BY <1>2
<1> QED
  BY <1>2, <1>3, CallsOverride

\* In the first state the fields are ns's.
LEMMA FieldsInit == Init => FieldsInv
  BY DEF Init, FileInit, FieldsInv, FieldsAreOneFiles

\* The flag, once set, stays; the thread ends after it is set.
LEMMA FlagStep ==
  ASSUME FieldsInv, [Next]_vars
  PROVE  /\ initialized => initialized'
         /\ boot' \in {"header", "done"} => initialized'
<1>1. CASE UNCHANGED <<boot, initialized>>
  BY <1>1 DEF FieldsInv
<1>2. CASE StartInitialization \/ Initialize
  BY <1>2 DEF FieldsInv, StartInitialization, InitializeAsync, Initialize, InitializeTime,
     InitializeFs, MountCard, InitializeFails, SetInitialized, InitializeReturns, Boots
<1>3. CASE \E t \in Threads : LogLine(t)
  BY <1>1, <1>3 DEF LogLine, CheckFlag, Lock, OpenLog, OpenLogFails, WriteLog, Unlock, fsVars
<1>4. CASE RegisterServers \/ StartServices \/ EnterLoop \/ Serves \/ ReceiveRequest
           \/ (\E t \in Loggers : OthersLog(t)) \/ UNCHANGED vars
  BY <1>1, <1>4 DEF RegisterServers, StartServices, EnterLoop, MainLogs, OthersLog, vars, fileVars,
     fsVars, Serves, NeedsUpdateVulnerability, ForwardFails, Forward, WaitsForFiles, WaitReturns,
     TooSmall, ReadConfig, ReadIcon, NoIconThere, ReceiveRequest
<1> QED
  BY <1>2, <1>3, <1>4 DEF Next, main

\* Every step of main keeps the fields one file's.
LEMMA FieldsStep ==
  ASSUME MainTypes, FieldsInv, [Next]_vars
  PROVE  FieldsInv'
<1> USE DEF FieldsInv, FieldsAreOneFiles
<1>0. /\ initialized => initialized'
      /\ boot' \in {"header", "done"} => initialized'
  BY FlagStep
<1>1. CASE UNCHANGED mainVars
  BY <1>0, <1>1 DEF mainVars, answerVars
<1>2. ASSUME UNCHANGED <<request, fields>>,
             step' \in {"main", "register", "start", "loop", "serve", "icon"}
      PROVE  FieldsInv'
  BY <1>0, <1>2
<1>3. CASE StartInitialization \/ RegisterServers \/ StartServices \/ EnterLoop
           \/ NeedsUpdateVulnerability \/ ForwardFails \/ TooSmall \/ ReadIcon \/ NoIconThere
  BY <1>2, <1>3 DEF StartInitialization, RegisterServers, StartServices, EnterLoop, MainLogs, Goes,
     NeedsUpdateVulnerability, ForwardFails, TooSmall, ReadIcon, NoIconThere, answerVars
<1>4. CASE ReceiveRequest
  <2>1. fields' = [f \in Fields |-> "ns"] /\ step' = "call"
    BY <1>4 DEF ReceiveRequest, Goes
  <2> QED
    BY <1>0, <2>1
<1>5. CASE Forward
  <2>1. /\ UNCHANGED <<request, fields>> /\ step = "call"
        /\ step' = IF request.cmd = "control data" THEN "wait" ELSE "serve"
    BY <1>5 DEF Forward, MainLogs, Goes
  <2> QED
    BY <1>0, <2>1
<1>6. CASE WaitsForFiles
  <2>1. /\ UNCHANGED <<request, fields>> /\ step = "wait"
        /\ step' \in {"config", "waiting", "serve"} /\ (step' = "config" => initialized)
    BY <1>6 DEF WaitsForFiles, Goes, WaitInitialized, answerVars
  <2> QED
    BY <1>0, <2>1
<1>7. CASE WaitReturns
  <2>1. UNCHANGED <<request, fields>> /\ step = "waiting" /\ step' = "config" /\ boot = "done"
    BY <1>7 DEF WaitReturns, Goes, answerVars
  <2> QED
    BY <1>0, <2>1
<1>8. CASE ReadConfig
  <2>1. /\ UNCHANGED request /\ step = "config" /\ step' = "icon"
        /\ fields' = FoldLeft(Handler, fields, Parse(request.config).calls) \/ UNCHANGED fields
    BY <1>8 DEF ReadConfig, Goes
  <2>2. fields = [f \in Fields |-> "ns"] /\ request.cmd = "control data" /\ initialized
    BY <2>1
  <2>3. CASE UNCHANGED fields
    BY <1>2, <2>1, <2>3
  <2>4. CASE fields' = FoldLeft(Handler, fields, Parse(request.config).calls)
    <3>1. request \in Requests
      <4>1. NoRequest.cmd = "none"
        BY DEF NoRequest
      <4>2. NoRequest.cmd # "control data"
        BY <4>1, Zenon
      <4> QED
        BY <2>2, <4>2 DEF MainTypes
    <3>2. request.config \in Files
      BY <3>1, RequestsAssumption
    <3>3. fields' = [f \in Fields |-> Overridden(f, CallsOf(request.config))]
      BY <2>2, <2>4, <3>2, ConfigOverrides
    <3> QED
      BY <1>0, <2>1, <2>2, <3>3
  <2> QED
    BY <2>1, <2>3, <2>4
<1> QED
  BY <1>1, <1>3, <1>4, <1>5, <1>6, <1>7, <1>8 DEF Next, main, Serves, OthersLog, vars

\* An answer's fields are ns's, or all of them those of the title's config.ini:
\* the last value in the section, whatever the file's length and its lines.
THEOREM FieldsAreWhole == Spec => []FieldsAreOneFiles
<1>1. MitmInv => MainTypes
  BY DEF MitmInv, TypeOK, MainTypes
<1>2. MitmInv /\ FieldsInv /\ [Next]_vars => FieldsInv'
  BY <1>1, FieldsStep
<1>3. FieldsInv => FieldsAreOneFiles
  BY DEF FieldsInv
<1> QED
  BY <1>2, <1>3, FieldsInit, MitmInvariant, PTL DEF Spec

\* For any set of files, the parser's calls and error are the reference's.
THEOREM ParserIsRight == Spec => []ParserMeetsReference
<1>1. ParserMeetsReference
  BY FilesAssumption, CallsAreTheFiles, ErrorIsTheFiles DEF ParserMeetsReference
<1> QED
  BY <1>1, PTL DEF Spec
================================================================================
