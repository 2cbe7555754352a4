---------------------------- MODULE MCSafetyStore ----------------------------
(***************************************************************************)
(* The instance of SafetyStore for TLC.  No symmetry: one run checks       *)
(* liveness.                                                               *)
(***************************************************************************)
EXTENDS SafetyStore
CONSTANTS s1, s2, c1, c2
TwoSessions == {s1, s2}
TwoCalls == {c1, c2}
=============================================================================
