----------------------------- MODULE MCLiveView -----------------------------
(* Instances of LiveView for TLC: the symmetry of its interchangeable clients,
   senders and loops, sound for the safety runs only. *)
EXTENDS LiveView, TLC

Symmetry == Permutations(Clients) \cup Permutations(Senders) \cup Permutations(Loops)
=============================================================================
