-------------------------- MODULE MCBroadcastSync --------------------------
(* Instances of BroadcastSync for TLC. *)
EXTENDS BroadcastSync, TLC

Symmetry == Permutations(Tab) \cup Permutations(Event)
=============================================================================
