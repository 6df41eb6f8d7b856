----------------------------- MODULE MCBroadcast -----------------------------
(* Instances of Broadcast for TLC. *)
EXTENDS Broadcast, TLC

Symmetry == Permutations(Procs)
==============================================================================
