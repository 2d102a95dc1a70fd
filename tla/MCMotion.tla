------------------------------ MODULE MCMotion ------------------------------
(* Instances of Motion for TLC. *)
EXTENDS Motion, TLC

\* Webserver threads are interchangeable (safety runs only).
Symmetry == Permutations(Handlers)
=============================================================================
