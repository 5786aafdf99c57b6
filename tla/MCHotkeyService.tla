--------------------------- MODULE MCHotkeyService ---------------------------
(* Instances of HotkeyService for TLC. *)
EXTENDS HotkeyService

Durations == [t \in Types |-> IF t = "capture" THEN 1 ELSE 2]

\* Each combination, and two of them at once that share a button.
AllSets == {{}, {"ZL", "L"}, {"ZR", "R"}, {"StickL", "StickR"}, {"ZL", "ZR", "L"}}

TwoSets == {{}, {"ZL", "L"}}
================================================================================
