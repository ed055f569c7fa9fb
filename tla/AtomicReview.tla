---------------------------- MODULE AtomicReview ----------------------------
(***************************************************************************)
(* What the patch intake promises: a worker's patch is judged once, and to *)
(* judge it and to change the files is one step.  The files never show a   *)
(* patch that nobody has accepted, and never lose one that somebody has.   *)
(***************************************************************************)

CONSTANT Tasks

VARIABLES
  verdict,  \* of each task's patch: none yet, pending review, or the one verdict
  content   \* the patches that are in the files

vars == <<verdict, content>>

Init ==
  /\ verdict = [t \in Tasks |-> "none"]
  /\ content = {}

Open(t) == verdict[t] \in {"none", "pending"}

Submit(t) ==
  /\ verdict[t] = "none"
  /\ verdict' = [verdict EXCEPT ![t] = "pending"]
  /\ UNCHANGED content

Accept(t) ==
  /\ Open(t)
  /\ verdict' = [verdict EXCEPT ![t] = "applied"]
  /\ content' = content \cup {t}

Reject(t) ==
  /\ Open(t)
  /\ verdict' = [verdict EXCEPT ![t] = "rejected"]
  /\ UNCHANGED content

Next == \E t \in Tasks : Submit(t) \/ Accept(t) \/ Reject(t)

Spec == Init /\ [][Next]_vars

=============================================================================
