----------------------------- MODULE HotkeyService -----------------------------
(***************************************************************************)
(* The class HotkeyService (hotkey_service.cpp): a thread polls the four    *)
(* npads and turns button combinations into presses of the CAPTURE and HOME *)
(* buttons, or into the custom action: a long press while the combination   *)
(* is held longer than its duration, else a short press on release.         *)
(*                                                                          *)
(* The tick a combination was first seen at is modelled by its age, NoTick  *)
(* standing for the value 0 that means "not held".  ProcessHidState reads   *)
(* the clock once, so it is one step; the buttons and the style of a pad    *)
(* are read by two calls, and the pad may change in between.                *)
(***************************************************************************)
EXTENDS Integers

CONSTANTS
  NumPads,     \* 4 in the code
  Duration,    \* [Types -> Nat]: ComboLongPressDuration in units of the clock
  MaxAge,      \* bound: where ages saturate, above every duration
  ButtonSets   \* the sets of buttons the players hold down

Types == {"capture", "home", "custom"}
Buttons == {"ZL", "ZR", "L", "R", "StickL", "StickR"}
Pads == 1 .. NumPads

\* hidGetNpadStyleSet: the bit NpadLucia (NSO SNES), other bits, or none.
Styles == {"lucia", "other", "none"}

NoTick == -1
Combos == [tick : NoTick .. MaxAge, longPressed : BOOLEAN]

ASSUME NumPadsAssumption == NumPads \in Nat \ {0}
ASSUME DurationAssumption ==
  /\ MaxAge \in Nat
  /\ Duration \in [Types -> Nat]
  /\ \A t \in Types : Duration[t] < MaxAge
ASSUME ButtonAssumption == ButtonSets \subseteq SUBSET Buttons

VARIABLES
  combos,    \* hotkeyCache: [Pads -> [Types -> Combos]]
  pc,        \* program point of the polling thread
  i,         \* PollHidStates: the pad being polled
  sample,    \* PollHidStates: the buttons read
  rc,        \* ProcessThreadFunc: the result of Initialize, "ok" or "failed"
  running,   \* the flag `running'
  pad,       \* the players' pads: [Pads -> their style and the buttons held]
  owed,      \* history: presses seen minus actions taken, by pad and type
  sampledOn, \* history: the style of the pad whose buttons are in sample
  sinceUp    \* history: time since the last poll that saw the combination up

vars == <<combos, pc, i, sample, rc, running, pad, owed, sampledOn, sinceUp>>

--------------------------------------------------------------------------------
ComboPressed(type, style, buttons) ==
  \/ type = "capture" /\ style = "lucia" /\ {"ZL", "L"} \subseteq buttons
  \/ type = "home" /\ style = "lucia" /\ {"ZR", "R"} \subseteq buttons
  \/ type = "custom" /\ style = "lucia" /\ {"ZL", "ZR"} \subseteq buttons
  \/ type = "custom" /\ style # "lucia" /\ {"StickL", "StickR"} \subseteq buttons

\* Mutant: a combination that has turned long is not told from the others.
FiresLongAgain(combo, type, pressed) ==
  pressed /\ combo.tick # NoTick /\ combo.tick > Duration[type]

\* Mutant: never long.
FiresLongNever(combo, type, pressed) == FALSE

\* Action(type, true)
FiresLong(combo, type, pressed) ==
  pressed /\ combo.tick # NoTick /\ ~combo.longPressed /\ combo.tick > Duration[type]

\* Action(type, false)
FiresShort(combo, pressed) == ~pressed /\ combo.tick # NoTick /\ ~combo.longPressed

Begins(combo, pressed) == pressed /\ combo.tick = NoTick

\* Mutant: the tick is not reset after a long press.
NextComboKeepsTick(combo, type, pressed) ==
  IF pressed
    THEN [tick |-> IF combo.tick = NoTick THEN 0 ELSE combo.tick,
          longPressed |-> combo.longPressed \/ FiresLong(combo, type, pressed)]
    ELSE [tick |-> IF combo.longPressed THEN combo.tick ELSE NoTick, longPressed |-> FALSE]

\* Mutant: longPressed is not reset with the tick.
NextComboKeepsLong(combo, type, pressed) ==
  IF pressed
    THEN [tick |-> IF combo.tick = NoTick THEN 0 ELSE combo.tick,
          longPressed |-> combo.longPressed \/ FiresLong(combo, type, pressed)]
    ELSE [tick |-> NoTick, longPressed |-> combo.longPressed]

\* Mutant: a disconnected or released pad is not processed.
NextComboIgnoresRelease(combo, type, pressed) ==
  IF pressed
    THEN [tick |-> IF combo.tick = NoTick THEN 0 ELSE combo.tick,
          longPressed |-> combo.longPressed \/ FiresLong(combo, type, pressed)]
    ELSE combo

NextCombo(combo, type, pressed) ==
  IF pressed
    THEN [tick |-> IF combo.tick = NoTick THEN 0 ELSE combo.tick,
          longPressed |-> combo.longPressed \/ FiresLong(combo, type, pressed)]
    ELSE [tick |-> NoTick, longPressed |-> FALSE]

ProcessHidState(n, style, buttons) ==
  LET pressed == [t \in Types |-> ComboPressed(t, style, buttons)]
      old == combos[n]
      started(t) == IF Begins(old[t], pressed[t]) THEN 1 ELSE 0
      acted(t) == IF FiresLong(old[t], t, pressed[t]) \/ FiresShort(old[t], pressed[t]) THEN 1 ELSE 0
  IN  /\ combos' = [combos EXCEPT ![n] = [t \in Types |-> NextCombo(old[t], t, pressed[t])]]
      /\ owed' = [owed EXCEPT ![n] = [t \in Types |-> @[t] + started(t) - acted(t)]]
      /\ sinceUp' = [sinceUp EXCEPT ![n] = [t \in Types |-> IF pressed[t] THEN @[t] ELSE 0]]

--------------------------------------------------------------------------------
Init ==
  /\ combos = [n \in Pads |-> [t \in Types |-> [tick |-> NoTick, longPressed |-> FALSE]]]
  /\ pc = "created"
  /\ i = 1
  /\ sample = {}
  /\ rc = "failed"
  /\ running = FALSE
  /\ pad = [n \in Pads |-> [style |-> "none", buttons |-> {}]]
  /\ owed = [n \in Pads |-> [t \in Types |-> 0]]
  /\ sampledOn = "none"
  /\ sinceUp = [n \in Pads |-> [t \in Types |-> 0]]

Start ==
  /\ pc = "created"
  /\ ~running
  /\ running' = TRUE
  /\ pc' = "start"
  /\ UNCHANGED <<combos, i, sample, rc, pad, owed, sampledOn, sinceUp>>

\* Stop() then waits for the thread; it touches nothing else.
Stop ==
  /\ running
  /\ running' = FALSE
  /\ UNCHANGED <<combos, pc, i, sample, rc, pad, owed, sampledOn, sinceUp>>

\* The six seconds' sleep, then Initialize(): hid, then appletAE and its domain.
Initialize ==
  /\ pc = "start"
  /\ pc' = "loop"
  /\ rc' \in {"ok", "failed"}
  /\ UNCHANGED <<combos, i, sample, running, pad, owed, sampledOn, sinceUp>>

\* while(service->running): poll only if Initialize succeeded, then sleep 4 ms.
LoopHead ==
  /\ pc = "loop"
  /\ pc' = CASE ~running                -> "exit"
             [] running /\ rc = "ok"    -> "read"
             [] running /\ rc # "ok"    -> "loop"
  /\ i' = 1
  /\ UNCHANGED <<combos, sample, rc, running, pad, owed, sampledOn, sinceUp>>

NextPad ==
  IF i < NumPads THEN pc' = "read" /\ i' = i + 1 ELSE pc' = "loop" /\ i' = i

\* hidGetNpadStatesSystemExt: a connected pad's buttons ...
ReadButtons ==
  /\ pc = "read"
  /\ pad[i].style # "none"
  /\ sample' = pad[i].buttons
  /\ sampledOn' = pad[i].style
  /\ pc' = "style"
  /\ UNCHANGED <<combos, i, rc, running, pad, owed, sinceUp>>

\* ... or no connected pad: processed as one with nothing pressed.
ReadNothing ==
  /\ pc = "read"
  /\ pad[i].style = "none"
  /\ ProcessHidState(i, "none", {})
  /\ NextPad
  /\ UNCHANGED <<sample, sampledOn, rc, running, pad>>

\* hidGetNpadStyleSet, of whatever the pad is by now, and ProcessHidState.
Process ==
  /\ pc = "style"
  /\ ProcessHidState(i, pad[i].style, sample)
  /\ sample' = {}
  /\ sampledOn' = "none"
  /\ NextPad
  /\ UNCHANGED <<rc, running, pad>>

Exit ==
  /\ pc = "exit"
  /\ pc' = "done"
  /\ UNCHANGED <<combos, i, sample, rc, running, pad, owed, sampledOn, sinceUp>>

HotkeyThread == Initialize \/ LoopHead \/ ReadButtons \/ ReadNothing \/ Process \/ Exit

--------------------------------------------------------------------------------
\* The players: press and release, connect, disconnect.
Press ==
  /\ \E n \in Pads, buttons \in ButtonSets :
       /\ pad[n].style # "none"
       /\ pad' = [pad EXCEPT ![n].buttons = buttons]
  /\ UNCHANGED <<combos, pc, i, sample, rc, running, owed, sampledOn, sinceUp>>

Reconnect ==
  /\ \E n \in Pads, style \in Styles : pad' = [pad EXCEPT ![n] = [style |-> style, buttons |-> {}]]
  /\ UNCHANGED <<combos, pc, i, sample, rc, running, owed, sampledOn, sinceUp>>

Older(age) == IF age < MaxAge THEN age + 1 ELSE age

ClockTicks ==
  /\ pc # "done"
  /\ combos' = [n \in Pads |-> [t \in Types |->
                  IF combos[n][t].tick = NoTick THEN combos[n][t]
                  ELSE [combos[n][t] EXCEPT !.tick = Older(@)]]]
  /\ sinceUp' = [n \in Pads |-> [t \in Types |-> Older(sinceUp[n][t])]]
  /\ UNCHANGED <<pc, i, sample, rc, running, pad, owed, sampledOn>>

Next == Start \/ Stop \/ HotkeyThread \/ Press \/ Reconnect \/ ClockTicks

Spec == Init /\ [][Next]_vars

\* The thread is scheduled, the clock runs.
FairSpec == Spec /\ WF_vars(HotkeyThread) /\ WF_vars(ClockTicks)

--------------------------------------------------------------------------------
\* Every variable has a value of its type.
TypeOK ==
  /\ combos \in [Pads -> [Types -> Combos]]
  /\ pc \in {"created", "start", "loop", "read", "style", "exit", "done"}
  /\ i \in Pads
  /\ sample \subseteq Buttons
  /\ rc \in {"ok", "failed"}
  /\ running \in BOOLEAN
  /\ pad \in [Pads -> [style : Styles, buttons : SUBSET Buttons]]
  /\ sampledOn \in Styles
  /\ owed \in [Pads -> [Types -> Int]]
  /\ sinceUp \in [Pads -> [Types -> 0 .. MaxAge]]

\* Held, and no action taken for it yet.
Pending(combo) == combo.tick # NoTick /\ ~combo.longPressed

\* Each press the poll sees gets exactly one action, long or short: none is
\* lost and none is doubled, whatever is pressed, swapped or disconnected, and
\* the only one owed is for a combination still held.
OneActionPerPress ==
  \A n \in Pads, t \in Types : owed[n][t] = IF Pending(combos[n][t]) THEN 1 ELSE 0

\* A long press is only sent for a combination that every poll has seen held
\* for longer than its duration: an earlier press never counts.
LongPressWasHeld ==
  [][\A n \in Pads, t \in Types :
       ~combos[n][t].longPressed /\ combos'[n][t].longPressed => sinceUp[n][t] > Duration[t]]_vars

\* Inductive: the cache says "long" only of a held combination, and a tick is
\* never older than the time since the combination was last seen up.
HotkeyInv ==
  /\ TypeOK
  /\ OneActionPerPress
  /\ \A n \in Pads, t \in Types : combos[n][t].longPressed => combos[n][t].tick # NoTick
  /\ \A n \in Pads, t \in Types : combos[n][t].tick <= sinceUp[n][t]

\* The combination is held down on pad n now.
Held(n, t) == pad[n].style # "none" /\ ComboPressed(t, pad[n].style, pad[n].buttons)

\* A combination held without end is sent as a long press, unless pads are
\* swapped for ever.
HeldBecomesLong ==
  []<><<Reconnect>>_vars \/
  \A n \in Pads, t \in Types :
    (Held(n, t) /\ rc = "ok") ~> (combos[n][t].longPressed \/ ~Held(n, t) \/ ~running)

\* A combination let go, or whose pad is gone, is forgotten, so that the next
\* press starts anew, unless pads are swapped for ever.
ReleaseIsSeen ==
  []<><<Reconnect>>_vars \/
  \A n \in Pads, t \in Types :
    (combos[n][t].tick # NoTick /\ ~Held(n, t)) ~> (combos[n][t].tick = NoTick \/ Held(n, t) \/ ~running)

\* CAPTURE and HOME are for NSO SNES controllers: their presses begin only with
\* buttons read from one.  (The code reads the style after the buttons, and a
\* pad swapped in between lends its style to the other pad's buttons.)
SnesButtonsOnly ==
  [][\A n \in Pads, t \in {"capture", "home"} :
       combos[n][t].tick = NoTick /\ combos'[n][t].tick # NoTick => sampledOn = "lucia"]_vars
================================================================================
