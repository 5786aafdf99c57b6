---------------------- MODULE MCVirtualControllerService ----------------------
(* Instances of VirtualControllerService for TLC. *)
EXTENDS VirtualControllerService, TLC

CONSTANTS c1, c2, h1, h2

OneSensor == {{}, {"accel", "other"}}
Plain == {{}}

HandleSymmetry == Permutations(Handles)
================================================================================
