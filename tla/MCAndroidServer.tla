--------------------------- MODULE MCAndroidServer ---------------------------
(* Instances of AndroidServer for TLC: its server runs are interchangeable, and
   so are the threads that control them. *)
EXTENDS AndroidServer, TLC

Symmetry == Permutations(Servers) \cup Permutations(Controllers)

=============================================================================
