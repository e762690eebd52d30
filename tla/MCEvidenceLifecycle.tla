------------------------ MODULE MCEvidenceLifecycle ------------------------
(* Instances of EvidenceLifecycle for TLC. *)
EXTENDS EvidenceLifecycle, TLC

Symmetry == Permutations(Caller) \cup Permutations(Artifact)
=============================================================================
