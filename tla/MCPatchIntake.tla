--------------------------- MODULE MCPatchIntake ---------------------------
(***************************************************************************)
(* Constants of the model-checked instances of PatchIntake.                *)
(***************************************************************************)
EXTENDS PatchIntake, TLC

CONSTANTS t1, t2, t3, r1, r2, nobody

TwoTasks == {t1, t2}
ThreeTasks == {t1, t2, t3}
TwoFounders == {r1, r2}
OneFile == {"a"}
OneFileModule == [f \in OneFile |-> "m"]
Symmetry == Permutations(ThreeTasks) \cup Permutations(TwoFounders)

=============================================================================
