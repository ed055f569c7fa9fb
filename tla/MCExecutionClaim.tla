-------------------------- MODULE MCExecutionClaim --------------------------
(***************************************************************************)
(* Constants of the model-checked instances of ExecutionClaim.  With a     *)
(* timeout of one second the lease lives 16, longer than its threshold and *)
(* cadence together, so every pressure and several renewals occur.         *)
(***************************************************************************)
EXTENDS ExecutionClaim, TLC

CONSTANTS t1, t2, t3

ThreeTasks == {t1, t2, t3}
TwoTasks == {t1, t2}
MCTimeout == 1
Symmetry == Permutations(ThreeTasks)

=============================================================================
