---------------------------- MODULE MCSharedPipe ----------------------------
(* SharedPipe for TLC: symmetric outputs for the safety run.               *)
EXTENDS SharedPipe, TLC

OutputSymmetry == Permutations(Outputs)

=============================================================================
