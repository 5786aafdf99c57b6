---------------------------- MODULE MCReadWriteLock ----------------------------
(* Instances of ReadWriteLock for TLC. *)
EXTENDS ReadWriteLock

CONSTANTS t1, t2
================================================================================
