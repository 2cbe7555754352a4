----------------------------- MODULE MCQuarantine -----------------------------
(* Instances of Quarantine. *)
EXTENDS Quarantine, TLC

Symmetry == Permutations(Ops) \cup Permutations(Paths) \cup Permutations(Contents) \cup Permutations(Calls)
=============================================================================
