---------------------------- MODULE MCTerminalJob ----------------------------
(* Instances of TerminalJob for TLC. *)
EXTENDS TerminalJob, TLC

CallerSymmetry == Permutations(Caller)
=============================================================================
