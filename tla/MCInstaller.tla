----------------------------- MODULE MCInstaller -----------------------------
(* Instances of Installer: two promotions, three invocations. *)
EXTENDS Installer, TLC

Symmetry == Permutations(Invocations) \cup Permutations(Receipts)
=============================================================================
