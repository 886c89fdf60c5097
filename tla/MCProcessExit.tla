---------------------------- MODULE MCProcessExit ----------------------------
(* Instances of ProcessExit for TLC: backends and requests are interchangeable. *)
EXTENDS ProcessExit, TLC

Symmetry == Permutations(Backends) \cup Permutations(Requests)
=============================================================================
