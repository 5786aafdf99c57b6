--------------------------- MODULE MCServerManager ---------------------------
(* Instances of ServerManager for TLC. *)
EXTENDS ServerManager, TLC

CONSTANTS p1, p2, s1, s2, s3, h1, h2, h3, h4

\* Slots are interchangeable, and so are handles.
Symmetry == Permutations(Slots) \cup Permutations(Handles)
================================================================================
