-------------------------------- MODULE MCPage --------------------------------
(* The instance of Page for TLC.                                           *)
EXTENDS Page, TLC

Symmetry == Permutations(Agents)
=============================================================================
