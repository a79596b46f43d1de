--------------------------- MODULE MCJsonFileState ---------------------------
(* The instance of JsonFileState for TLC.                                  *)
EXTENDS JsonFileState, TLC

Symmetry == Permutations(Mutations) \cup Permutations(Readers)
=============================================================================
