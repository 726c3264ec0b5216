-------------------------- MODULE MCOneTimeCodes ---------------------------
(* Instance of OneTimeCodes for model checking.                            *)
EXTENDS OneTimeCodes, TLC

Symmetry == Permutations(Codes) \cup Permutations(Asks) \cup Permutations(Checks)
=============================================================================
