-------------------------------- MODULE PadBoard --------------------------------
(***************************************************************************)
(* What the virtual controllers promise to the player: each client address  *)
(* has one pad or none; a pad appears with no input, then shows inputs of   *)
(* its own client that are never older than the one before, and vanishes.   *)
(***************************************************************************)
EXTENDS Integers

CONSTANTS Clients, HidStates, Blank, NoInput, NoPad

VARIABLE pads   \* [Clients -> HidStates \cup {NoPad}]

\* The input s comes from client c and is no older than the input of old.
Follows(c, s, old) ==
  /\ s.main # NoInput
  /\ s.main.src = c
  /\ old.main # NoInput => s.main.tick >= old.main.tick

Appear(c) ==
  /\ pads[c] = NoPad
  /\ pads' = [pads EXCEPT ![c] = Blank]

Show(c) ==
  /\ pads[c] # NoPad
  /\ pads'[c] \in HidStates
  /\ Follows(c, pads'[c], pads[c])
  /\ pads' = [pads EXCEPT ![c] = pads'[c]]

Vanish(S) ==
  pads' = [c \in Clients |-> IF c \in S THEN NoPad ELSE pads[c]]

BoardInit == pads = [c \in Clients |-> NoPad]

BoardNext ==
  \/ \E c \in Clients : Appear(c) \/ Show(c)
  \/ \E S \in SUBSET Clients : Vanish(S)

BoardSpec == BoardInit /\ [][BoardNext]_pads
================================================================================
