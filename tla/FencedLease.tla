---------------------------- MODULE FencedLease ----------------------------
(***************************************************************************)
(* What an execution claim promises, without leases, sessions or rows: a   *)
(* run is held by at most one task at a time, each grant, settlement and   *)
(* revocation moves the fence forward, a task is granted the run once, and *)
(* it is either settled by its own result or revoked, never both.          *)
(***************************************************************************)
EXTENDS Integers

CONSTANT Tasks

VARIABLES
  holder,   \* the task that holds the run: {} or a singleton
  fence,    \* the newest fencing token handed out for the run
  settled,  \* tasks whose own result was accepted
  revoked   \* tasks whose claim was taken away before they settled

vars == <<holder, fence, settled, revoked>>

Init ==
  /\ holder = {}
  /\ fence = 0
  /\ settled = {}
  /\ revoked = {}

Grant(t) ==
  /\ holder = {}
  /\ t \notin settled \cup revoked
  /\ holder' = {t}
  /\ fence' = fence + 1
  /\ UNCHANGED <<settled, revoked>>

Settle(t) ==
  /\ holder = {t}
  /\ holder' = {}
  /\ fence' = fence + 1
  /\ settled' = settled \cup {t}
  /\ UNCHANGED revoked

Revoke(t) ==
  /\ holder = {t}
  /\ holder' = {}
  /\ fence' = fence + 1
  /\ revoked' = revoked \cup {t}
  /\ UNCHANGED settled

Next == \E t \in Tasks : Grant(t) \/ Settle(t) \/ Revoke(t)

Spec == Init /\ [][Next]_vars

=============================================================================
