---------------------------- MODULE MCAuditFlush ----------------------------
(* Instances of AuditFlush for TLC. *)
EXTENDS AuditFlush, TLC

Symmetry == Permutations(Tab) \cup Permutations(Event)
EventSymmetry == Permutations(Event)
=============================================================================
