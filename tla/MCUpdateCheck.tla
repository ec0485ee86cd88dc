--------------------------- MODULE MCUpdateCheck ----------------------------
(***************************************************************************)
(* UpdateCheck with interchangeable runs.                                  *)
(***************************************************************************)
EXTENDS UpdateCheck, TLC

Symmetric == Permutations(Runs)

=============================================================================
