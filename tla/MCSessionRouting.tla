--------------------------- MODULE MCSessionRouting ---------------------------
(***************************************************************************)
(* An instance of SessionRouting for TLC.                                  *)
(***************************************************************************)
EXTENDS SessionRouting, TLC

Symmetry == Permutations(ToolCalls) \cup Permutations(Hooks) \cup Permutations(Dirs \ {Fallback})
=============================================================================
