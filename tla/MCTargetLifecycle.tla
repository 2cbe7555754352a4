-------------------------- MODULE MCTargetLifecycle --------------------------
(***************************************************************************)
(* Instances of TargetLifecycle for TLC: two targets, a base branch of two *)
(* commits.                                                                *)
(***************************************************************************)
EXTENDS TargetLifecycle, TLC

OnlyTarget == {"target"}
\* repository-owned specs that pin the newest commit of the base
OwnedOfLatest == [target : Targets, base : {MaxBase}, owned : {TRUE}]

Symmetry == Permutations(Targets) \cup Permutations(Calls)
=============================================================================
