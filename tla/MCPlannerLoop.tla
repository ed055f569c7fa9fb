--------------------------- MODULE MCPlannerLoop ---------------------------
(***************************************************************************)
(* Constants of the model-checked instance of PlannerLoop.                 *)
(***************************************************************************)
EXTENDS PlannerLoop

CONSTANTS p1, p2, f1, nobody, execute, replan, again

TwoPlanners == {p1, p2}
OneFounder == {f1}
ThreeProposals == {execute, replan, again}
MCActionOf == [x \in ThreeProposals |->
                 IF x = execute THEN "execute_bounded_task" ELSE "replan_from_failed_execution"]
MCIntentOf == [x \in ThreeProposals |-> x]
MCKeyOf == [x \in ThreeProposals |-> IF x = again THEN "key" ELSE "none"]
MCStarts == {[status |-> "ready", patch |-> "none", streak |-> 0],
             [status |-> "ready", patch |-> "pending", streak |-> 1],
             [status |-> "ready", patch |-> "rejected", streak |-> 2]}

\* The explored part of the state space: a visit of p2 to a run that neither
\* founders nor deaths nor its own progress have changed, before the last unit
\* of the budget, that leaves at most one mark; and all that p1 can do when p2
\* has left none, under two of the three disturbances, in a run that moves on
\* when p1 has left at most one mark.
VisitorsMarks == segments[0].used - segments[0].wrong[p1] + segments[0].selected[p2] + help[0][p2]
Explored ==
  \/ /\ stage[p2] = "idle" /\ VisitorsMarks = 0
     /\ phase = 0 \/ segments[0].used + segments[0].selected[p1] + help[0][p1] <= 1
     /\ phase + replies + deaths <= 2
  \/ /\ phase = 0 /\ replies = 0 /\ deaths = 0 /\ VisitorsMarks <= 1
     /\ segments[0].used <= 1 /\ view[p2].malformed + view[p2].tries = 0

=============================================================================
