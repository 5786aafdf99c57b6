------------------------------- MODULE MCExpHeap -------------------------------
(* Instances of ExpHeap for TLC. *)
EXTENDS ExpHeap
================================================================================
