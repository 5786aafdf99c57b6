--------------------------- MODULE MCServiceThread ---------------------------
(* Instances of ServiceThread for TLC. *)
EXTENDS ServiceThread

CONSTANTS t1, t2, t3
================================================================================
