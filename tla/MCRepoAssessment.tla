--------------------------- MODULE MCRepoAssessment ---------------------------
(***************************************************************************)
(* Two runs of one assessment id, of any two modes and targets.            *)
(***************************************************************************)
EXTENDS RepoAssessment, TLC

Symmetry == Permutations(Runs) \cup Permutations(Targets)
=============================================================================
