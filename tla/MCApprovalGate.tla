--------------------------- MODULE MCApprovalGate ---------------------------
(***************************************************************************)
(* The approval gate on a small instance: a local fact the policy may       *)
(* approve by itself and a firm-wide one it may not, two levels of          *)
(* confidence around the threshold.  Two proposals are enough for a         *)
(* candidate and a later version of the same fact, or for two facts.        *)
(***************************************************************************)
EXTENDS ApprovalGate

CONSTANTS local, firmwide

MCFacts == {local, firmwide}
MCFirmWide == {firmwide}
=============================================================================
