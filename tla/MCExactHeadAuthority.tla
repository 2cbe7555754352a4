------------------------ MODULE MCExactHeadAuthority ------------------------
(***************************************************************************)
(* Instances of ExactHeadAuthority for TLC.                                *)
(***************************************************************************)
EXTENDS ExactHeadAuthority, TLC

BothModes == {"target", "strict-start"}
TargetMode == {"target"}

Symmetry == Permutations(Heads) \cup Permutations(Primaries)
=============================================================================
