--------------------------- MODULE FounderVerdict ---------------------------
(***************************************************************************)
(* What the approval gate promises: a run is judged once, by the founder   *)
(* or by the clock, and is executed only while the verdict is an approval. *)
(***************************************************************************)

VARIABLES
  verdict,    \* "pending" until the one decision
  executing   \* a task of the run is dispatched and not yet over

vars == <<verdict, executing>>

Init ==
  /\ verdict = "pending"
  /\ executing = FALSE

Judge(v) ==
  /\ verdict = "pending"
  /\ verdict' = v
  /\ UNCHANGED executing

Begin ==
  /\ verdict = "approved"
  /\ ~executing
  /\ executing' = TRUE
  /\ UNCHANGED verdict

End ==
  /\ executing
  /\ executing' = FALSE
  /\ UNCHANGED verdict

Next == (\E v \in {"approved", "rejected", "expired"} : Judge(v)) \/ Begin \/ End

Spec == Init /\ [][Next]_vars

=============================================================================
