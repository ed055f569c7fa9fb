--------------------------- MODULE MCApprovalGate ---------------------------
(***************************************************************************)
(* Constants of the model-checked instances of ApprovalGate.               *)
(***************************************************************************)
EXTENDS ApprovalGate, TLC

CONSTANTS f1, f2, f3, s1, s2

ThreeFounders == {f1, f2, f3}
TwoSweepers == {s1, s2}

=============================================================================
