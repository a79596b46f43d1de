----------------------------- MODULE MCBlastRadius -----------------------------
(* Instances of BlastRadius for TLC.                                       *)
EXTENDS BlastRadius, TLC

Symmetry == Permutations(Evidence) \cup Permutations(Runs) \cup Permutations(Agents)
            \cup Permutations(Sources)
=============================================================================
