------------------------- MODULE HotkeyService_proof -------------------------
(***************************************************************************)
(* One action per press, for any number of pads and any durations.          *)
(***************************************************************************)
EXTENDS HotkeyService, TLAPS

\* The history of one combination through one call of ProcessHidState: what is
\* owed after it is what is pending, a long combination is held, and its tick is
\* no older than the time since it was seen up.
LEMMA ComboStep ==
  ASSUME NEW t \in Types, NEW combo \in Combos, NEW pressed \in BOOLEAN,
         NEW owes, owes = (IF Pending(combo) THEN 1 ELSE 0),
         NEW up \in 0 .. MaxAge, combo.tick <= up,
         combo.longPressed => combo.tick # NoTick
  PROVE  LET new == NextCombo(combo, t, pressed)
             started == IF Begins(combo, pressed) THEN 1 ELSE 0
             acted == IF FiresLong(combo, t, pressed) \/ FiresShort(combo, pressed) THEN 1 ELSE 0
         IN  /\ new \in Combos
             /\ owes + started - acted = (IF Pending(new) THEN 1 ELSE 0)
             /\ new.longPressed => new.tick # NoTick
             /\ new.tick <= (IF pressed THEN up ELSE 0)
             /\ ~combo.longPressed /\ new.longPressed => up > Duration[t]
<1> DEFINE new == NextCombo(combo, t, pressed)
           started == IF Begins(combo, pressed) THEN 1 ELSE 0
           acted == IF FiresLong(combo, t, pressed) \/ FiresShort(combo, pressed) THEN 1 ELSE 0
<1>1. /\ combo.tick \in NoTick .. MaxAge
      /\ combo.longPressed \in BOOLEAN
      /\ combo = [tick |-> combo.tick, longPressed |-> combo.longPressed]
      /\ Duration[t] \in Nat
  BY DurationAssumption DEF Combos
<1>2. CASE pressed /\ combo.tick = NoTick
  <2>1. new = [tick |-> 0, longPressed |-> FALSE]
    BY <1>1, <1>2 DEF NextCombo, FiresLong
  <2>2. started = 1 /\ acted = 0 /\ owes = 0
    BY <1>2 DEF Begins, FiresLong, FiresShort, Pending
  <2>3. new.tick = 0 /\ new.longPressed = FALSE /\ new \in Combos
    BY <2>1, DurationAssumption DEF Combos, NoTick
  <2>4. Pending(new)
    BY <2>3 DEF Pending, NoTick
  <2> HIDE DEF new, started, acted
  <2>5. owes + started - acted = 1
    BY <2>2
  <2>6. new.tick <= up /\ new.tick # NoTick
    BY <2>3, DurationAssumption DEF NoTick
  <2> QED
    BY <1>2, <2>3, <2>4, <2>5, <2>6 DEF new, started, acted
<1>3. CASE pressed /\ FiresLong(combo, t, pressed)
  <2>1. new = [tick |-> combo.tick, longPressed |-> TRUE]
    BY <1>1, <1>3 DEF NextCombo, FiresLong
  <2>2. started = 0 /\ acted = 1 /\ owes = 1 /\ combo.tick > Duration[t] /\ combo.tick # NoTick
    BY <1>3 DEF Begins, FiresLong, FiresShort, Pending
  <2>3. new.tick = combo.tick /\ new.longPressed = TRUE /\ new \in Combos
    BY <1>1, <2>1 DEF Combos
  <2>4. ~Pending(new)
    BY <2>3 DEF Pending
  <2>5. up > Duration[t]
    BY <1>1, <2>2, DurationAssumption DEF NoTick
  <2> HIDE DEF new, started, acted
  <2>6. owes + started - acted = 0
    BY <2>2
  <2> QED
    BY <1>3, <2>2, <2>3, <2>4, <2>5, <2>6 DEF new, started, acted
<1>4. CASE pressed /\ combo.tick # NoTick /\ ~FiresLong(combo, t, pressed)
  <2>1. new = combo
    BY <1>1, <1>4 DEF NextCombo
  <2>2. started = 0 /\ acted = 0
    BY <1>4 DEF Begins, FiresShort
  <2> HIDE DEF new, started, acted
  <2>3. owes + started - acted = (IF Pending(new) THEN 1 ELSE 0)
    BY <2>1, <2>2
  <2> QED
    BY <1>4, <2>1, <2>3 DEF new, started, acted
<1>5. CASE ~pressed
  <2>1. new = [tick |-> NoTick, longPressed |-> FALSE]
    BY <1>5 DEF NextCombo
  <2>2. started = 0 /\ acted = owes
    BY <1>5 DEF Begins, FiresLong, FiresShort, Pending
  <2>3. new.tick = NoTick /\ new.longPressed = FALSE /\ new \in Combos
    BY <2>1, DurationAssumption DEF Combos, NoTick
  <2>4. ~Pending(new)
    BY <2>3 DEF Pending
  <2>5. owes \in {0, 1}
    OBVIOUS
  <2> HIDE DEF new, started, acted
  <2>6. owes + started - acted = 0
    BY <2>2, <2>5
  <2>7. new.tick <= 0
    BY <2>3 DEF NoTick
  <2> QED
    BY <1>5, <2>3, <2>4, <2>6, <2>7 DEF new, started, acted
<1> QED
  BY <1>2, <1>3, <1>4, <1>5 DEF FiresLong

\* ProcessHidState keeps the invariant and sends long presses only for
\* combinations held longer than their duration.
LEMMA ProcessStep ==
  ASSUME HotkeyInv, NEW n \in Pads, NEW style, NEW buttons, ProcessHidState(n, style, buttons)
  PROVE  /\ combos' \in [Pads -> [Types -> Combos]]
         /\ owed' \in [Pads -> [Types -> Int]]
         /\ sinceUp' \in [Pads -> [Types -> 0 .. MaxAge]]
         /\ OneActionPerPress'
         /\ \A m \in Pads, t \in Types : combos'[m][t].longPressed => combos'[m][t].tick # NoTick
         /\ \A m \in Pads, t \in Types : combos'[m][t].tick <= sinceUp'[m][t]
         /\ \A m \in Pads, t \in Types :
              ~combos[m][t].longPressed /\ combos'[m][t].longPressed => sinceUp[m][t] > Duration[t]
<1> DEFINE pressed(t) == ComboPressed(t, style, buttons)
           started(t) == IF Begins(combos[n][t], pressed(t)) THEN 1 ELSE 0
           acted(t) == IF FiresLong(combos[n][t], t, pressed(t)) \/ FiresShort(combos[n][t], pressed(t))
                       THEN 1 ELSE 0
<1>1. /\ combos \in [Pads -> [Types -> Combos]]
      /\ owed \in [Pads -> [Types -> Int]]
      /\ sinceUp \in [Pads -> [Types -> 0 .. MaxAge]]
  BY DEF HotkeyInv, TypeOK
<1>2. \A t \in Types : pressed(t) \in BOOLEAN
  BY DEF ComboPressed
<1>3. /\ combos' = [combos EXCEPT ![n] = [t \in Types |-> NextCombo(combos[n][t], t, pressed(t))]]
      /\ owed' = [owed EXCEPT ![n] = [t \in Types |-> owed[n][t] + started(t) - acted(t)]]
      /\ sinceUp' = [sinceUp EXCEPT ![n] = [t \in Types |-> IF pressed(t) THEN sinceUp[n][t] ELSE 0]]
  BY DEF ProcessHidState
<1> HIDE DEF pressed
<1>4. ASSUME NEW t \in Types
      PROVE  /\ NextCombo(combos[n][t], t, pressed(t)) \in Combos
             /\ owed[n][t] + started(t) - acted(t)
                  = (IF Pending(NextCombo(combos[n][t], t, pressed(t))) THEN 1 ELSE 0)
             /\ NextCombo(combos[n][t], t, pressed(t)).longPressed
                  => NextCombo(combos[n][t], t, pressed(t)).tick # NoTick
             /\ NextCombo(combos[n][t], t, pressed(t)).tick <= (IF pressed(t) THEN sinceUp[n][t] ELSE 0)
             /\ ~combos[n][t].longPressed /\ NextCombo(combos[n][t], t, pressed(t)).longPressed
                  => sinceUp[n][t] > Duration[t]
  <2>1. /\ combos[n][t] \in Combos
        /\ sinceUp[n][t] \in 0 .. MaxAge
        /\ owed[n][t] = (IF Pending(combos[n][t]) THEN 1 ELSE 0)
        /\ combos[n][t].tick <= sinceUp[n][t]
        /\ combos[n][t].longPressed => combos[n][t].tick # NoTick
    BY <1>1 DEF HotkeyInv, OneActionPerPress
  <2> QED
    BY <1>2, <2>1, ComboStep
<1>5. \A t \in Types : /\ combos'[n][t] = NextCombo(combos[n][t], t, pressed(t))
                       /\ owed'[n][t] = owed[n][t] + started(t) - acted(t)
                       /\ sinceUp'[n][t] = IF pressed(t) THEN sinceUp[n][t] ELSE 0
  BY <1>1, <1>3
<1>6. \A m \in Pads \ {n} : /\ combos'[m] = combos[m]
                            /\ owed'[m] = owed[m]
                            /\ sinceUp'[m] = sinceUp[m]
  BY <1>1, <1>3
<1>7. combos' \in [Pads -> [Types -> Combos]]
  BY <1>1, <1>3, <1>4
<1>8. sinceUp' \in [Pads -> [Types -> 0 .. MaxAge]]
  <2>1. [t \in Types |-> IF pressed(t) THEN sinceUp[n][t] ELSE 0] \in [Types -> 0 .. MaxAge]
    BY <1>1, DurationAssumption
  <2> QED
    BY <1>1, <1>3, <2>1
<1>9. owed' \in [Pads -> [Types -> Int]]
  <2>1. [t \in Types |-> owed[n][t] + started(t) - acted(t)] \in [Types -> Int]
    BY <1>1
  <2> QED
    BY <1>1, <1>3, <2>1
<1>10. ASSUME NEW m \in Pads, NEW t \in Types
       PROVE  /\ owed'[m][t] = (IF Pending(combos'[m][t]) THEN 1 ELSE 0)
              /\ combos'[m][t].longPressed => combos'[m][t].tick # NoTick
              /\ combos'[m][t].tick <= sinceUp'[m][t]
              /\ ~combos[m][t].longPressed /\ combos'[m][t].longPressed => sinceUp[m][t] > Duration[t]
  <2>1. CASE m = n
    BY <1>4, <1>5, <2>1
  <2>2. CASE m # n
    BY <1>6, <2>2 DEF HotkeyInv, OneActionPerPress
  <2> QED
    BY <2>1, <2>2
<1> QED
  BY <1>7, <1>8, <1>9, <1>10 DEF OneActionPerPress

--------------------------------------------------------------------------------
\* At first no combination is held.
LEMMA InitHotkey == Init => HotkeyInv
<1> SUFFICES ASSUME Init PROVE HotkeyInv
  OBVIOUS
<1>1. TypeOK
  <2>1. [tick |-> NoTick, longPressed |-> FALSE] \in Combos
    BY DurationAssumption DEF Combos, NoTick
  <2>2. 1 \in Pads /\ 0 \in 0 .. MaxAge
    BY NumPadsAssumption, DurationAssumption DEF Pads
  <2>3. pad \in [Pads -> [style : Styles, buttons : SUBSET Buttons]]
    BY DEF Init, Styles
  <2>4. combos \in [Pads -> [Types -> Combos]]
    BY <2>1 DEF Init
  <2>5. owed \in [Pads -> [Types -> Int]] /\ sinceUp \in [Pads -> [Types -> 0 .. MaxAge]]
    BY <2>2 DEF Init
  <2> QED
    BY <2>2, <2>3, <2>4, <2>5 DEF Init, TypeOK, Styles
<1> QED
  BY <1>1 DEF Init, HotkeyInv, OneActionPerPress, Pending, NoTick

\* One step, for the invariant and for the action property together.
LEMMA NextHotkey ==
  ASSUME HotkeyInv, [Next]_vars
  PROVE  /\ HotkeyInv'
         /\ \A n \in Pads, t \in Types :
              ~combos[n][t].longPressed /\ combos'[n][t].longPressed => sinceUp[n][t] > Duration[t]
<1>1. TypeOK
  BY DEF HotkeyInv
<1>2. ASSUME UNCHANGED <<combos, owed, sinceUp>>, TypeOK'
      PROVE  /\ HotkeyInv'
             /\ \A n \in Pads, t \in Types :
                  ~combos[n][t].longPressed /\ combos'[n][t].longPressed => sinceUp[n][t] > Duration[t]
  BY <1>2 DEF HotkeyInv, OneActionPerPress
<1>3. CASE Start \/ Stop \/ Initialize \/ LoopHead \/ Exit
  <2>1. UNCHANGED <<combos, owed, sinceUp, pad, sample, sampledOn>>
    BY <1>3 DEF Start, Stop, Initialize, LoopHead, Exit
  <2>2. 1 \in Pads
    BY NumPadsAssumption DEF Pads
  <2>3. i' \in Pads /\ rc' \in {"ok", "failed"} /\ running' \in BOOLEAN
    BY <1>1, <1>3, <2>2 DEF Start, Stop, Initialize, LoopHead, Exit, TypeOK
  <2>4. pc' \in {"created", "start", "loop", "read", "style", "exit", "done"}
    BY <1>1, <1>3 DEF Start, Stop, Initialize, LoopHead, Exit, TypeOK
  <2> QED
    BY <1>1, <1>2, <2>1, <2>3, <2>4 DEF TypeOK
<1>4. CASE ReadButtons
  BY <1>1, <1>2, <1>4 DEF ReadButtons, TypeOK
<1>5. ASSUME NextPad PROVE i' \in Pads /\ pc' \in {"read", "loop"}
  BY <1>1, <1>5, NumPadsAssumption DEF NextPad, TypeOK, Pads
<1>6. CASE ReadNothing
  <2>1. i \in Pads /\ ProcessHidState(i, "none", {})
    BY <1>1, <1>6 DEF ReadNothing, TypeOK
  <2> QED
    BY <1>1, <1>5, <1>6, <2>1, ProcessStep DEF ReadNothing, HotkeyInv, TypeOK
<1>7. CASE Process
  <2>1. i \in Pads /\ ProcessHidState(i, pad[i].style, sample)
    BY <1>1, <1>7 DEF Process, TypeOK
  <2>2. sample' = {} /\ sampledOn' = "none"
    BY <1>7 DEF Process
  <2> QED
    BY <1>1, <1>5, <1>7, <2>1, <2>2, ProcessStep DEF Process, HotkeyInv, TypeOK, Styles
<1>8. CASE Press \/ Reconnect
  <2>1. pad' \in [Pads -> [style : Styles, buttons : SUBSET Buttons]]
    <3>1. CASE Press
      <4>1. PICK n \in Pads, buttons \in ButtonSets : pad' = [pad EXCEPT ![n].buttons = buttons]
        BY <3>1 DEF Press
      <4>2. buttons \in SUBSET Buttons
        BY ButtonAssumption
      <4> QED
        BY <1>1, <4>1, <4>2 DEF TypeOK
    <3>2. CASE Reconnect
      <4>1. PICK n \in Pads, style \in Styles : pad' = [pad EXCEPT ![n] = [style |-> style, buttons |-> {}]]
        BY <3>2 DEF Reconnect
      <4> QED
        BY <1>1, <4>1 DEF TypeOK
    <3> QED
      BY <1>8, <3>1, <3>2
  <2> QED
    BY <1>1, <1>2, <1>8, <2>1 DEF Press, Reconnect, TypeOK
<1>9. CASE ClockTicks
  <2>1. \A a \in 0 .. MaxAge : Older(a) \in 0 .. MaxAge /\ a <= Older(a)
    BY DurationAssumption DEF Older
  <2>2. \A a, b \in 0 .. MaxAge : a <= b => Older(a) <= Older(b)
    BY DurationAssumption DEF Older
  <2>3. sinceUp' \in [Pads -> [Types -> 0 .. MaxAge]]
    BY <1>1, <1>9, <2>1 DEF ClockTicks, TypeOK
  <2>4. ASSUME NEW n \in Pads, NEW t \in Types
        PROVE  /\ combos'[n][t] \in Combos
               /\ combos'[n][t].longPressed = combos[n][t].longPressed
               /\ combos'[n][t].tick = NoTick <=> combos[n][t].tick = NoTick
               /\ combos'[n][t].tick <= sinceUp'[n][t]
    <3>1. /\ combos[n][t] \in Combos
          /\ sinceUp[n][t] \in 0 .. MaxAge
          /\ combos[n][t].tick <= sinceUp[n][t]
          /\ sinceUp'[n][t] = Older(sinceUp[n][t])
      BY <1>1, <1>9 DEF TypeOK, HotkeyInv, ClockTicks
    <3>2. CASE combos[n][t].tick = NoTick
      <4>1. combos'[n][t] = combos[n][t]
        BY <1>9, <3>2 DEF ClockTicks
      <4> QED
        BY <2>1, <3>1, <3>2, <4>1, DurationAssumption DEF NoTick
    <3>3. CASE combos[n][t].tick # NoTick
      <4>1. combos'[n][t] = [combos[n][t] EXCEPT !.tick = Older(combos[n][t].tick)]
        BY <1>9, <3>3 DEF ClockTicks
      <4>2. combos[n][t].tick \in 0 .. MaxAge
        BY <3>1, <3>3, DurationAssumption DEF Combos, NoTick
      <4>3. Older(combos[n][t].tick) \in 0 .. MaxAge /\ Older(combos[n][t].tick) <= Older(sinceUp[n][t])
        BY <2>1, <2>2, <3>1, <4>2
      <4> QED
        BY <3>1, <3>3, <4>1, <4>3, DurationAssumption DEF Combos, NoTick
    <3> QED
      BY <3>2, <3>3
  <2>5. combos' \in [Pads -> [Types -> Combos]]
    <3>1. combos' = [n \in Pads |-> [t \in Types |-> combos'[n][t]]]
      BY <1>9 DEF ClockTicks
    <3> QED
      BY <2>4, <3>1
  <2>6. TypeOK'
    BY <1>1, <1>9, <2>3, <2>5 DEF ClockTicks, TypeOK
  <2>7. OneActionPerPress'
    BY <1>9, <2>4 DEF ClockTicks, HotkeyInv, OneActionPerPress, Pending
  <2> QED
    BY <2>4, <2>6, <2>7 DEF HotkeyInv
<1>10. CASE UNCHANGED vars
  BY <1>1, <1>2, <1>10 DEF vars, TypeOK
<1> QED
  BY <1>3, <1>4, <1>6, <1>7, <1>8, <1>9, <1>10 DEF Next, HotkeyThread

\* The type invariant, one action per press, and what makes them inductive.
THEOREM HotkeyInvariant == Spec => []HotkeyInv
<1>1. HotkeyInv /\ [Next]_vars => HotkeyInv'
  BY NextHotkey
<1> QED
  BY <1>1, InitHotkey, PTL DEF Spec

\* Each press the poll sees gets exactly one action, long or short.
THEOREM EveryPressActsOnce == Spec => []OneActionPerPress
<1>1. HotkeyInv => OneActionPerPress
  BY DEF HotkeyInv
<1> QED
  BY <1>1, HotkeyInvariant, PTL

\* A long press is sent only after the combination's whole duration.
THEOREM LongPressesAreLong == Spec => LongPressWasHeld
<1>1. HotkeyInv /\ [Next]_vars =>
        [\A n \in Pads, t \in Types :
           ~combos[n][t].longPressed /\ combos'[n][t].longPressed => sinceUp[n][t] > Duration[t]]_vars
  BY NextHotkey
<1> QED
  BY <1>1, HotkeyInvariant, PTL DEF Spec, LongPressWasHeld

--------------------------------------------------------------------------------
(* SnesButtonsOnly, which the code does not keep, fails for one reason only. *)

\* No pad gives way to one of another style between the two calls that read it.
NoSwapBetweenReads == [][pc = "style" => pad'[i].style = pad[i].style]_vars

\* The style that was there when the buttons were read is still there.
StyleIsRead == pc = "style" => sampledOn = pad[i].style

\* Only the reading of the buttons leads to the point before the style's.
LEMMA StyleStep ==
  ASSUME StyleIsRead, [Next]_vars, [pc = "style" => pad'[i].style = pad[i].style]_vars
  PROVE  StyleIsRead'
<1>1. CASE UNCHANGED vars
  BY <1>1 DEF StyleIsRead, vars
<1>2. CASE ~UNCHANGED vars
  <2>1. pc = "style" => pad'[i].style = pad[i].style
    BY <1>2
  <2>2. CASE ReadButtons
    BY <2>2 DEF ReadButtons, StyleIsRead
  <2>3. CASE ReadNothing \/ Process
    BY <2>3 DEF ReadNothing, Process, NextPad, StyleIsRead
  <2>4. CASE Start \/ Initialize \/ LoopHead \/ Exit
    BY <2>4 DEF Start, Initialize, LoopHead, Exit, StyleIsRead
  <2>5. CASE Stop \/ Press \/ Reconnect \/ ClockTicks
    <3>1. UNCHANGED <<pc, i, sampledOn>>
      BY <2>5 DEF Stop, Press, Reconnect, ClockTicks
    <3> QED
      BY <2>1, <3>1 DEF StyleIsRead
  <2> QED
    BY <1>2, <2>2, <2>3, <2>4, <2>5 DEF Next, HotkeyThread
<1> QED
  BY <1>1, <1>2

\* A press of CAPTURE or HOME begins with a poll of an NSO SNES controller.
LEMMA SnesStep ==
  ASSUME HotkeyInv, StyleIsRead, [Next]_vars,
         NEW n \in Pads, NEW t \in {"capture", "home"},
         combos[n][t].tick = NoTick, combos'[n][t].tick # NoTick
  PROVE  sampledOn = "lucia"
<1>0. t \in Types /\ combos \in [Pads -> [Types -> Combos]] /\ i \in Pads
  BY DEF HotkeyInv, TypeOK, Types
<1>1. ASSUME NEW style, NEW buttons, ProcessHidState(i, style, buttons)
      PROVE  style = "lucia"
  <2>1. combos' = [combos EXCEPT ![i] =
          [u \in Types |-> NextCombo(combos[i][u], u, ComboPressed(u, style, buttons))]]
    BY <1>1 DEF ProcessHidState
  <2>2. n = i
    BY <1>0, <2>1
  <2>3. combos'[n][t] = NextCombo(combos[i][t], t, ComboPressed(t, style, buttons))
    BY <1>0, <2>1, <2>2
  <2>4. ComboPressed(t, style, buttons)
    BY <2>3 DEF NextCombo
  <2> QED
    BY <2>4 DEF ComboPressed
<1>2. CASE Process
  BY <1>1, <1>2 DEF Process, StyleIsRead
<1>3. CASE ReadNothing
  BY <1>1, <1>3 DEF ReadNothing
<1>4. CASE ClockTicks
  BY <1>0, <1>4 DEF ClockTicks
<1>5. CASE UNCHANGED combos
  BY <1>5
<1> QED
  BY <1>2, <1>3, <1>4, <1>5 DEF Next, HotkeyThread, Start, Stop, Initialize, LoopHead, ReadButtons,
     Exit, Press, Reconnect, vars

\* CAPTURE and HOME are for NSO SNES controllers as long as none is swapped in
\* between hidGetNpadStatesSystemExt and hidGetNpadStyleSet (PollHidStates).
THEOREM SnesWithoutSwaps == Spec /\ NoSwapBetweenReads => SnesButtonsOnly
<1>1. Init => StyleIsRead
  BY DEF Init, StyleIsRead
<1>2. StyleIsRead /\ [Next]_vars /\ [pc = "style" => pad'[i].style = pad[i].style]_vars => StyleIsRead'
  BY StyleStep
<1>3. HotkeyInv /\ StyleIsRead /\ [Next]_vars =>
        [\A n \in Pads, t \in {"capture", "home"} :
           combos[n][t].tick = NoTick /\ combos'[n][t].tick # NoTick => sampledOn = "lucia"]_vars
  BY SnesStep
<1> QED
  BY <1>1, <1>2, <1>3, HotkeyInvariant, PTL DEF Spec, NoSwapBetweenReads, SnesButtonsOnly
================================================================================
