------------------------------ MODULE MitmServices ------------------------------
(***************************************************************************)
(* main (main.cpp) from its start to the requests it serves: ns:vm          *)
(* (nsvm_mitm_service.cpp) and the control data of ns:am2 and ns:ro         *)
(* (ns_srvget_mitm_service.cpp), with the file system they wait for and the *)
(* log they share with the other threads.                                   *)
(*                                                                          *)
(* A buffer is the Nacp, of which the fields that can be overridden are     *)
(* modelled, and the bytes of the icon behind it, each by where it came     *)
(* from.  ServerManager models how requests get here.                       *)
(***************************************************************************)
EXTENDS FileUtils, Ini

CONSTANTS
  NacpSize,     \* sizeof(Nacp)
  Files,        \* what config.ini may hold: sequences of lines
  Requests,     \* what clients may ask
  MaxRequests   \* bound: requests served

Fields == {"name", "author", "display_version", "startup_user_account"}
NoIcon == -1
NoRequest == [cmd |-> "none", size |-> 0, config |-> <<>>, icon |-> NoIcon]

ASSUME FilesAssumption == Files \subseteq Seq(IniLine)

\* Of a request count the command, the size of the buffer, and the title's
\* files: the lines of config.ini, and the size of icon.jpg or NoIcon.
ASSUME RequestsAssumption ==
  \A r \in Requests : /\ r.cmd \in {"vulnerability", "other", "control data"}
                      /\ r.size \in Nat /\ r.icon \in Nat \cup {NoIcon}
                      /\ r.config \in Files

ASSUME SizesAssumption == NacpSize \in Nat \ {0} /\ MaxRequests \in Nat

VARIABLES
  step,     \* program point of main
  request,  \* the request being served
  fields,   \* [Fields -> values], in the buffer
  icon,     \* [1 .. bytes behind the Nacp -> where the byte comes from]
  out,      \* *out_size
  served    \* number of requests

answerVars == <<fields, icon, out>>
mainVars == <<step, request, answerVars, served>>
vars == <<fileVars, mainVars>>

Room(r) == IF r.size > NacpSize THEN r.size - NacpSize ELSE 0

Init ==
  /\ FileInit
  /\ step = "main"
  /\ request = NoRequest
  /\ fields = [f \in Fields |-> "ns"]
  /\ icon = <<>>
  /\ out = 0
  /\ served = 0

--------------------------------------------------------------------------------
(* main *)

\* Main goes on, once LogLine has returned.
Goes(from, to) == Running /\ step = from /\ at[Main] = "idle" /\ step' = to

MainLogs(from, to) == Goes(from, to) /\ CallLogLine(Main) /\ UNCHANGED fsVars

StartInitialization ==
  /\ Goes("main", "register")
  /\ InitializeAsync
  /\ UNCHANGED <<logVars, request, answerVars, served>>

\* RegisterServers, the services, LoopProcess.
RegisterServers == MainLogs("register", "start") /\ UNCHANGED <<request, answerVars, served>>
StartServices   == MainLogs("start", "loop") /\ UNCHANGED <<request, answerVars, served>>
EnterLoop       == MainLogs("loop", "serve") /\ UNCHANGED <<request, answerVars, served>>

Up == step \notin {"main", "register"} /\ (step = "start" => at[Main] = "idle")

\* A service, or the query server in ShouldMitm, has something to log.
OthersLog(t) ==
  /\ t \in Loggers /\ Up /\ lines[t] < MaxLines
  /\ CallLogLine(t)
  /\ UNCHANGED <<fsVars, mainVars>>

--------------------------------------------------------------------------------
(* Requests *)

ReceiveRequest ==
  /\ Goes("serve", "call")
  /\ served < MaxRequests
  /\ served' = served + 1
  /\ request' \in Requests
  /\ fields' = [f \in Fields |-> "ns"] /\ icon' = <<>> /\ out' = 0
  /\ UNCHANGED fileVars

\* NeedsUpdateVulnerability answers 0 without asking ns:vm.
NeedsUpdateVulnerability ==
  /\ request.cmd = "vulnerability"
  /\ MainLogs("call", "serve")
  /\ UNCHANGED <<request, answerVars, served>>

\* serviceDispatch: ns fails, or fills the buffer.
ForwardFails ==
  /\ request.cmd # "vulnerability"
  /\ MainLogs("call", "serve")
  /\ UNCHANGED <<request, answerVars, served>>

Forward ==
  /\ request.cmd # "vulnerability"
  /\ MainLogs("call", IF request.cmd = "control data" THEN "wait" ELSE "serve")
  /\ \E size \in 0 .. Room(request) :
       /\ out' = IF request.size < NacpSize THEN 0 ELSE NacpSize + size
       /\ icon' = [b \in 1 .. Room(request) |-> IF b <= size THEN "ns" ELSE "none"]
  /\ UNCHANGED <<request, fields, served>>

WaitsForFiles ==
  /\ Goes("wait", WaitInitialized("config", "waiting", "serve"))
  /\ UNCHANGED <<fileVars, request, answerVars, served>>

\* WaitThread returns when g_init_thread has ended.
WaitReturns ==
  /\ Goes("waiting", "config")
  /\ boot = "done"
  /\ UNCHANGED <<fileVars, request, answerVars, served>>

IsTrue(value) == IF value \in {"true", "1"} THEN "true" ELSE "false"

\* Mutant: the section is not looked at.
HandlerOfAnySection(nacp, call) ==
  IF call.name \in Fields
  THEN [nacp EXCEPT ![call.name] =
          IF call.name = "startup_user_account" THEN IsTrue(call.value) ELSE call.value]
  ELSE nacp

\* _ProcessControlDataIniHandler
Handler(nacp, call) ==
  IF call.section = "override_nacp" /\ call.name \in Fields
  THEN [nacp EXCEPT ![call.name] =
          IF call.name = "startup_user_account" THEN IsTrue(call.value) ELSE call.value]
  ELSE nacp

\* _ProcessControlData: a buffer too small is left alone ...
TooSmall ==
  /\ request.size < NacpSize
  /\ Goes("config", "serve")
  /\ UNCHANGED <<fileVars, request, answerVars, served>>

\* ... config.ini, if it opens, changes fields ...
ReadConfig ==
  /\ request.size >= NacpSize
  /\ Goes("config", "icon")
  /\ \/ fields' = FoldLeft(Handler, fields, Parse(request.config).calls)
     \/ "open" \in CardFails /\ UNCHANGED fields
  /\ UNCHANGED <<fileVars, request, icon, out, served>>

Smaller(a, b) == IF a < b THEN a ELSE b

\* Mutant: the size is that of the file.
IconReadWhole(n) ==
  /\ icon' = [b \in DOMAIN icon |-> IF b <= n THEN "card" ELSE icon[b]]
  /\ out' = NacpSize + request.icon

\* Mutant: the size is only changed for a larger icon.
IconReadLarger(n) ==
  /\ icon' = [b \in DOMAIN icon |-> IF b <= n THEN "card" ELSE icon[b]]
  /\ out' = IF out < NacpSize + n THEN NacpSize + n ELSE out

\* ... and icon.jpg, if it opens, replaces the icon.  n is what fread got.
IconRead(n) ==
  /\ icon' = [b \in DOMAIN icon |-> IF b <= n THEN "card" ELSE icon[b]]
  /\ out' = NacpSize + n

ReadIcon ==
  /\ request.icon # NoIcon
  /\ MainLogs("icon", "serve")
  /\ LET all == Smaller(request.icon, Room(request))
     IN  \E n \in IF "read" \in CardFails THEN 0 .. all ELSE {all} : IconRead(n)
  /\ UNCHANGED <<request, fields, served>>

NoIconThere ==
  /\ request.icon = NoIcon \/ "open" \in CardFails
  /\ MainLogs("icon", "serve")
  /\ UNCHANGED <<request, answerVars, served>>

Serves == \/ NeedsUpdateVulnerability \/ ForwardFails \/ Forward \/ WaitsForFiles \/ WaitReturns
          \/ TooSmall \/ ReadConfig \/ ReadIcon \/ NoIconThere

main == StartInitialization \/ RegisterServers \/ StartServices \/ EnterLoop \/ Serves

--------------------------------------------------------------------------------
Next ==
  \/ main \/ ReceiveRequest
  \/ Initialize /\ UNCHANGED mainVars
  \/ \E t \in Threads : LogLine(t) /\ UNCHANGED mainVars
  \/ \E t \in Loggers : OthersLog(t)

Spec == Init /\ [][Next]_vars

\* Threads are scheduled, the console's services and the card answer, and the
\* mutex, when free again and again, is given to each thread that waits for it.
Fairness ==
  /\ WF_vars(main)
  /\ WF_vars(Initialize /\ UNCHANGED mainVars)
  /\ \A t \in Threads : /\ WF_vars(LogLine(t) /\ UNCHANGED mainVars)
                        /\ SF_vars(Lock(t) /\ UNCHANGED mainVars)

FairSpec == Spec /\ Fairness

--------------------------------------------------------------------------------
TypeOK ==
  /\ FileTypes
  /\ step \in {"main", "register", "start", "loop", "serve", "call", "wait", "waiting",
               "config", "icon"}
  /\ request \in Requests \cup {NoRequest}
  /\ out \in Nat
  /\ served \in 0 .. MaxRequests

\* The card is read and the log opened only when the file system is there, and
\* the log by the holder of the mutex alone.
FilesWhileMounted ==
  /\ LogInv
  /\ step \in {"config", "icon"} => mounted

\* The size reported lies within the client's buffer.
SizeFits == out <= request.size

\* The bytes of the icon that are reported are one picture, ns's or the card's:
\* no tail of the one is left behind a shorter other.
OnePicture ==
  \A a, b \in DOMAIN icon :
    NacpSize + a <= out /\ NacpSize + b <= out => icon[a] = icon[b] /\ icon[a] # "none"

\* What is known of the buffer where it is changed.
BufferInv ==
  /\ step \in {"wait", "waiting", "config", "icon"} => DOMAIN icon = 1 .. Room(request)
  /\ step = "icon" => request.size >= NacpSize

\* Inductive: the safety of files, lines and sizes follows from it.
MitmInv == TypeOK /\ FilesWhileMounted /\ NoLineLost /\ BufferInv /\ SizeFits /\ OnePicture

\* What config.ini says of a field: the last value in its section, or ns's.
Overridden(field, calls) ==
  LET said == {n \in DOMAIN calls : calls[n].section = "override_nacp" /\ calls[n].name = field}
      value == calls[Max(said)].value
  IN  IF said = {} THEN "ns"
      ELSE IF field = "startup_user_account" THEN IsTrue(value) ELSE value

\* The fields of an answer are ns's or those of config.ini, and then all of
\* them; without the card, for other commands and failures, they are ns's.
FieldsAreOneFiles ==
  \/ \A f \in Fields : fields[f] = "ns"
  \/ /\ request.cmd = "control data" /\ initialized
     /\ \A f \in Fields : fields[f] = Overridden(f, CallsOf(request.config))

\* The parser goes line by line and remembers a section, a name and an error:
\* its calls and the line it reports are those of the file as a whole.  Stated
\* at main's start, for it is about files, not states.
ParserMeetsReference ==
  step = "main" =>
    \A config \in Files : /\ Parse(config).calls = CallsOf(config)
                          /\ Parse(config).error = ErrorOf(config)

\* A request is answered, whoever logs and however long the card takes.
EveryRequestAnswered == (step = "call") ~> (step = "serve" \/ ~Running)
================================================================================
