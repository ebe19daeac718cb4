---------------------------- MODULE MCDeadLetters ----------------------------
(* Small instances of DeadLetters for TLC.                                 *)
EXTENDS DeadLetters, TLC

Symmetry == Permutations(Keys) \cup Permutations(Events) \cup Permutations(Requests)

=============================================================================
