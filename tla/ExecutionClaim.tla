--------------------------- MODULE ExecutionClaim ---------------------------
(***************************************************************************)
(* Execution of one approved run: controller processes (one CLI command    *)
(* each) dispatch a task, run its worker outside any transaction, and come *)
(* back to record the result.  The claim row of the run is the lease that  *)
(* decides whose result may still land.                                    *)
(*                                                                         *)
(* An action is one database transaction, except where a transaction reads *)
(* without a lock what it later writes: a finalizer reads the claim        *)
(* (CheckClaim), then locks the run and the claim rows and writes          *)
(* (LandSuccess, LandFailure).  The session keeps the run and the task as  *)
(* they were read first, and writes the columns it has changed; the claim  *)
(* is read anew under the lock.                                            *)
(*                                                                         *)
(* A task is acquired once and its lease_token is a fresh UUID, so a token *)
(* is equal to the claim's exactly when the claim names the task; lease    *)
(* tokens are therefore not kept beside claim.task.                        *)
(*                                                                         *)
(* A definition marked "fault" is not part of the specification: it is a   *)
(* plausible bug in the definition that follows it, and some property is   *)
(* there to notice the difference.                                         *)
(***************************************************************************)
EXTENDS LeaseTiming

CONSTANTS
  Tasks,    \* task records, one per dispatching controller process
  NoTask,   \* the claim's task before the first acquisition
  Lanes,    \* the lanes controllers dispatch on, a subset of AllLanes
  Timeout   \* timeout_seconds of every task

WorkerLanes == {"isolated", "containerized"}
AllLanes == WorkerLanes \cup {"bounded"}

ASSUME NoTaskAssumption == NoTask \notin Tasks
ASSUME LanesAssumption == Lanes \subseteq AllLanes
ASSUME TimeoutAssumption == Timeout \in Nat

VARIABLES
  runStatus,  \* RunRecord.status, from the approval on
  claim,      \* the one ExecutionClaimRecord of the run
  task,       \* TaskRecord of each controller: status, lane, fencing token
  ctl,        \* where each controller process stands
  seen,       \* the run's status in the session of each worker's finalizer
  ledger      \* append-only claim and task events, without their order

vars == <<runStatus, claim, task, ctl, seen, ledger>>

Ttl == LeaseTtl(Timeout)

RunStatuses == {"ready", "running", "completed", "failed"}
ClaimStatuses == {"none", "active", "released", "reclaimed"}
TaskStatuses == {"none", "running", "completed", "failed"}

Claims == [status : ClaimStatuses, task : Tasks \cup {NoTask}, version : Nat,
           left : 0..Ttl, age : 0..Ttl]
TaskRecords == [status : TaskStatuses, lane : AllLanes \cup {"none"}, fence : Nat]

Finalizing == {"landing_success", "landing_failure"}
Alive == {"routed", "working", "success", "failure"} \cup Finalizing
Phases == {"idle", "done", "refused", "rejected", "crashed"} \cup Alive

ClaimEvents == {"claim_acquired", "claim_released", "claim_reclaimed"}
Verdicts == {"task_completed", "task_failed", "task_reclaimed"}
Events == [event : ClaimEvents \cup Verdicts \cup {"result_rejected"},
           task : Tasks, token : Nat]

TypeOK ==
  /\ runStatus \in RunStatuses
  /\ claim \in Claims
  /\ task \in [Tasks -> TaskRecords]
  /\ ctl \in [Tasks -> Phases]
  /\ seen \in [Tasks -> RunStatuses \cup {"none"}]
  /\ ledger \in SUBSET Events

Init ==
  /\ runStatus = "ready"
  /\ claim = [status |-> "none", task |-> NoTask, version |-> 0,
              left |-> 0, age |-> 0]
  /\ task = [t \in Tasks |-> [status |-> "none", lane |-> "none", fence |-> 0]]
  /\ ctl = [t \in Tasks |-> "idle"]
  /\ seen = [t \in Tasks |-> "none"]
  /\ ledger = {}

Event(kind, t, token) == [event |-> kind, task |-> t, token |-> token]

ClaimActive == claim.status = "active"
Worker(t) == task[t].lane \in WorkerLanes

\* Fault: a lease is still alive in the second in which it ends.
ExpiredStrictly == claim.left < 0
Expired == claim.left = 0

\* Fault: only claims of unfinished tasks are swept.
OrphanReclaimable == ClaimActive /\ Expired /\ task[claim.task].status = "running"
Reclaimable == ClaimActive /\ Expired

\* Fault: the sweep cares for worker tasks only.
OrphanWorker(t) == Worker(t) /\ task[t].status = "running"
Orphan(t) == task[t].status = "running"

\* Fault: the version stays when the claim changes hands.
SameToken == claim.version
NextToken == claim.version + 1

\* Fault: a renewal fences off the worker that asked for it.
FencingRenewal == [claim EXCEPT !.left = Ttl, !.age = 0, !.version = @ + 1]
RenewedClaim == [claim EXCEPT !.left = Ttl, !.age = 0]

\* Fault: any active claim will do.
CurrentForAnyone(t) == ClaimActive
\* Fault: the claim may have been released or reclaimed.
CurrentOnceHeld(t) == claim.task = t
\* The claim the task was given is still the one in force.
Current(t) ==
  /\ ClaimActive
  /\ claim.task = t
  /\ claim.version = task[t].fence

\* A worker's result was accepted and its patch intake recorded.
HasPatchIntake(t) == Worker(t) /\ task[t].status = "completed"

-----------------------------------------------------------------------------
(* Dispatch.                                                               *)

\* The route inspection before a worker dispatch: EXECUTE_BOUNDED_TASK is
\* offered.  A pending intake blocks it, a rejected one leaves replanning as
\* the only action, and an applied one has completed the run.
Route(t) ==
  /\ ctl[t] = "idle"
  /\ runStatus = "ready"
  /\ \A u \in Tasks : task[u].status # "running" /\ ~HasPatchIntake(u)
  /\ ctl' = [ctl EXCEPT ![t] = "routed"]
  /\ UNCHANGED <<runStatus, claim, task, seen, ledger>>

\* What a reclaim makes of the holder's task, and what it records.
TasksAfterReclaim ==
  IF Orphan(claim.task) THEN [task EXCEPT ![claim.task].status = "failed"] ELSE task
ReclaimEvents ==
  {Event("claim_reclaimed", claim.task, NextToken)}
    \cup (IF Orphan(claim.task) THEN {Event("task_reclaimed", claim.task, 0)} ELSE {})

\* The controllers that may see their worker fail as the claim is reclaimed: a
\* container is removed by force first, if it can be.
Stoppable == {t \in {claim.task} : task[t].lane = "containerized" /\ ctl[t] = "working"}
WithFailed(stopped) == [t \in Tasks |-> IF t \in stopped THEN "failure" ELSE ctl[t]]

\* The run and its claim go to t, with the token given.
Grant(t, lane, token, tasks) ==
  /\ runStatus' = "running"
  /\ claim' = [status |-> "active", task |-> t, version |-> token,
               left |-> Ttl, age |-> 0]
  /\ task' = [tasks EXCEPT ![t] = [status |-> "running", lane |-> lane,
                                   fence |-> token]]

\* The dispatch transaction takes the run's row first, by an UPDATE that
\* requires READY.  An expired claim that it finds is reclaimed on the way.
AcquireFree(t, lane) ==
  /\ runStatus = "ready"
  /\ ~ClaimActive
  /\ Grant(t, lane, NextToken, task)
  /\ ctl' = [ctl EXCEPT ![t] = "working"]
  /\ ledger' = ledger \cup {Event("claim_acquired", t, NextToken)}
  /\ UNCHANGED seen

AcquireOverdue(t, lane) ==
  /\ runStatus = "ready"
  /\ Reclaimable
  /\ Grant(t, lane, NextToken + 1, TasksAfterReclaim)
  /\ \E stopped \in SUBSET Stoppable :
       ctl' = [WithFailed(stopped) EXCEPT ![t] = "working"]
  /\ ledger' = ledger \cup ReclaimEvents \cup {Event("claim_acquired", t, NextToken + 1)}
  /\ UNCHANGED seen

Acquire(t, lane) == AcquireFree(t, lane) \/ AcquireOverdue(t, lane)

DispatchWorker(t) ==
  /\ ctl[t] = "routed"
  /\ \E lane \in Lanes \cap WorkerLanes : Acquire(t, lane)

\* The run changed after the inspection and the guarded UPDATE matches no row,
\* or it is READY under a claim that is still alive.
DispatchRefused(t) ==
  /\ ctl[t] = "routed"
  /\ runStatus # "ready" \/ (ClaimActive /\ ~Reclaimable)
  /\ ctl' = [ctl EXCEPT ![t] = "refused"]
  /\ UNCHANGED <<runStatus, claim, task, seen, ledger>>

\* The bounded executor inspects no route; it wants a run without any task.
DispatchBounded(t) ==
  /\ ctl[t] = "idle"
  /\ "bounded" \in Lanes
  /\ \A u \in Tasks : task[u].status = "none"
  /\ Acquire(t, "bounded")

\* The worker runs outside the database and its receipt says how it ended.
WorkerReturns(t) ==
  /\ ctl[t] = "working"
  /\ \E outcome \in {"success", "failure"} : ctl' = [ctl EXCEPT ![t] = outcome]
  /\ UNCHANGED <<runStatus, claim, task, seen, ledger>>

-----------------------------------------------------------------------------
(* Finalizers of the worker lanes.                                         *)

\* The finalizer's unlocked reads of the run and the claim.  A stale result
\* only leaves evidence, committed in the same transaction.
CheckClaim(t) ==
  /\ ctl[t] \in {"success", "failure"}
  /\ Worker(t)
  /\ IF Current(t)
       THEN /\ ctl' = [ctl EXCEPT ![t] =
                         IF @ = "success" THEN "landing_success" ELSE "landing_failure"]
            /\ seen' = [seen EXCEPT ![t] = runStatus]
            /\ UNCHANGED ledger
       ELSE /\ ctl' = [ctl EXCEPT ![t] = "rejected"]
            /\ ledger' = ledger \cup {Event("result_rejected", t, task[t].fence)}
            /\ UNCHANGED seen
  /\ UNCHANGED <<runStatus, claim, task>>

\* Fault: the result is recorded and the claim stays with the task.
LandHoldingClaim(t, verdict, status) ==
  /\ task' = [task EXCEPT ![t].status = status]
  /\ ledger' = ledger \cup {Event(verdict, t, 0)}
  /\ UNCHANGED claim

\* Fault: the release does not ask whose claim it is.
LandOverAnyClaim(t, verdict, status) ==
  /\ claim' = IF ClaimActive THEN [claim EXCEPT !.status = "released", !.version = NextToken]
                             ELSE claim
  /\ task' = [task EXCEPT ![t].status = status]
  /\ ledger' = ledger \cup {Event(verdict, t, 0)}

\* The rest of the finalizer, from the row locks to the commit: the claim is
\* released if it is still the task's, and left alone if it was reclaimed or
\* has gone to another task; the result lands all the same.
Land(t, verdict, status) ==
  IF ClaimActive /\ claim.task = t
    THEN /\ claim' = [claim EXCEPT !.status = "released", !.version = NextToken]
         /\ task' = [task EXCEPT ![t].status = status, ![t].fence = NextToken]
         /\ ledger' = ledger \cup {Event("claim_released", t, NextToken),
                                   Event(verdict, t, 0)}
    ELSE /\ task' = [task EXCEPT ![t].status = status]
         /\ ledger' = ledger \cup {Event(verdict, t, 0)}
         /\ UNCHANGED claim

\* The run's status after the finalizer set it: it is not written if the
\* finalizer has read that very status.
Written(t, status) == IF seen[t] = status THEN runStatus ELSE status

\* The intake is left for the founder or its automatic application fails
\* validation (READY), or it is applied at once (COMPLETED).  In the
\* containerized lane the trust record of the success is written after the
\* commit; if that fails, the dispatcher reports the task as failed.
LandSuccess(t) ==
  /\ ctl[t] = "landing_success"
  /\ Land(t, "task_completed", "completed")
  /\ runStatus' \in {Written(t, "ready"), "completed"}
  /\ UNCHANGED seen
  /\ \E next \in {"done"} \cup (IF task[t].lane = "containerized" THEN {"failure"} ELSE {}) :
       ctl' = [ctl EXCEPT ![t] = next]

LandFailure(t) ==
  /\ ctl[t] = "landing_failure"
  /\ Land(t, "task_failed", "failed")
  /\ runStatus' = Written(t, "failed")
  /\ ctl' = [ctl EXCEPT ![t] = "done"]
  /\ UNCHANGED seen

\* Recording a success raises before its commit: the transaction is rolled
\* back and the dispatcher finalizes the task as failed.
PersistenceFails(t) ==
  /\ ctl[t] \in {"success", "landing_success"}
  /\ ctl' = [ctl EXCEPT ![t] = "failure"]
  /\ UNCHANGED <<runStatus, claim, task, seen, ledger>>

-----------------------------------------------------------------------------
(* The bounded executor's finalizers: they do not look at the claim.       *)

FinalizeBounded(t) ==
  /\ ctl[t] \in {"success", "failure"}
  /\ task[t].lane = "bounded"
  /\ LET status == IF ctl[t] = "success" THEN "completed" ELSE "failed" IN
       /\ task' = [task EXCEPT ![t].status = status]
       /\ runStatus' = status
       /\ ledger' = ledger \cup
            {Event(IF status = "completed" THEN "task_completed" ELSE "task_failed", t, 0)}
  /\ ctl' = [ctl EXCEPT ![t] = "done"]
  /\ UNCHANGED <<claim, seen>>

-----------------------------------------------------------------------------
(* The lease: heartbeats, expiry, reclaim; and the death of a controller.  *)

\* A heartbeat that is worth a write.  A lease that has run out but was not
\* reclaimed yet is extended like any other.
Renew(t) ==
  /\ ctl[t] = "working"
  /\ Current(t)
  /\ RenewalPressure(Timeout, claim.left, claim.age) = "renew_window"
  /\ claim' = RenewedClaim
  /\ UNCHANGED <<runStatus, task, ctl, seen, ledger>>

\* An expired claim is reclaimed by the reconciliation sweep or by a founder
\* mutation that finds it in its way.
Reclaim ==
  /\ Reclaimable
  /\ claim' = [claim EXCEPT !.status = "reclaimed", !.version = NextToken, !.age = 0]
  /\ task' = TasksAfterReclaim
  /\ runStatus' = IF Orphan(claim.task) /\ runStatus = "running" THEN "ready" ELSE runStatus
  /\ ledger' = ledger \cup ReclaimEvents
  /\ \E stopped \in SUBSET Stoppable : ctl' = WithFailed(stopped)
  /\ UNCHANGED seen

Crash(t) ==
  /\ ctl[t] \in Alive
  /\ ctl' = [ctl EXCEPT ![t] = "crashed"]
  /\ UNCHANGED <<runStatus, claim, task, seen, ledger>>

\* One second passes.  Nothing depends on how long ago a lease ran out.
Tick ==
  /\ ClaimActive
  /\ ~Expired
  /\ claim' = [claim EXCEPT !.left = @ - 1, !.age = @ + 1]
  /\ UNCHANGED <<runStatus, task, ctl, seen, ledger>>

-----------------------------------------------------------------------------
Step(t) ==
  \/ Route(t) \/ DispatchWorker(t) \/ DispatchRefused(t) \/ DispatchBounded(t)
  \/ WorkerReturns(t) \/ CheckClaim(t)
  \/ LandSuccess(t) \/ LandFailure(t) \/ PersistenceFails(t)
  \/ FinalizeBounded(t) \/ Renew(t) \/ Crash(t)

Next == (\E t \in Tasks : Step(t)) \/ Reclaim \/ Tick

\* Every interleaving of the transactions' statements.
Spec == Init /\ [][Next]_vars

\* The interleavings in which nothing else commits between a finalizer's read
\* of the claim and its own commit.
Serialised == \A t \in Tasks : ctl[t] \in Finalizing => ctl'[t] # ctl[t]
SerialNext == Next /\ Serialised
SerialSpec == Init /\ [][SerialNext]_vars

\* The interleavings in which a result is recorded only while its task holds
\* the claim of the run: no finalizer's read has gone stale by the time it
\* commits, and no bounded task finishes under a claim it has lost.
RecordsResult(t) == LandSuccess(t) \/ LandFailure(t) \/ FinalizeBounded(t)
Fenced == \A t \in Tasks : RecordsResult(t) => Current(t)
FencedNext == Next /\ Fenced
FencedSpec == Init /\ [][FencedNext]_vars

\* Clocks run, workers are bounded by their timeout and a live controller
\* goes on to its next statement; an operator keeps reconciling claims.
\* Nobody is obliged to dispatch, and heartbeats may stop.
Fairness ==
  /\ WF_vars(Tick)
  /\ WF_vars(Reclaim)
  /\ \A t \in Tasks :
       /\ WF_vars(WorkerReturns(t))
       /\ WF_vars(CheckClaim(t) \/ LandSuccess(t) \/ LandFailure(t) \/ FinalizeBounded(t))
FairSpec == Spec /\ Fairness

-----------------------------------------------------------------------------
(* Properties of every interleaving, in all lanes.                         *)

\* The task that holds the run, if any.
Holder == IF ClaimActive THEN {claim.task} ELSE {}

TasksIn(status) == {t \in Tasks : task[t].status = status}
Executing == {t \in Holder : task[t].status = "running"}

\* A task runs only while it holds the claim of the run, so at most one does,
\* and the run is not RUNNING unless one does: whatever a late result does to
\* the run and to its own task, no task is stranded.
RunningTasksHold ==
  /\ TasksIn("running") = Executing
  /\ runStatus = "running" => Executing # {}

\* The holder of an active claim carries its token, so that no live holder is
\* ever fenced off, and it is running or a bounded task that has finished: a
\* late result of another task does not touch it.
ActiveClaimIsBacked ==
  ClaimActive => /\ task[claim.task].fence = claim.version
                 /\ \/ task[claim.task].status = "running"
                    \/ task[claim.task].lane = "bounded"

\* No two claim transitions were ever given the same fencing token.
TokensNeverReused ==
  \A e, f \in ledger : e.event \in ClaimEvents /\ f.event \in ClaimEvents
                        /\ e.token = f.token => e = f

\* The cadence check of renew_execution_claim never suppresses a renewal and
\* the "coalesced" pressure is never shown: by the time the lease is inside
\* the renewal threshold, the last heartbeat is older than the cadence.
RenewalNeverCoalesced ==
  ClaimActive => RenewalPressure(Timeout, claim.left, claim.age) # "coalesced"

(***************************************************************************)
(* Properties of serialised finalizers.                                    *)
(***************************************************************************)

\* The run, its claim and its tasks agree on who executes: the holder of the
\* active claim is the only running task, and the run is RUNNING exactly
\* while there is one.
ExclusiveExecution ==
  /\ TasksIn("running") = Holder
  /\ runStatus = "running" <=> ClaimActive

\* Replaying the append-only events gives every task the status its row has,
\* and no failure is told twice: as the task's own and as a reclaim.
TasksWith(events) == {t \in Tasks : \E e \in ledger : e.task = t /\ e.event \in events}
LedgerTellsOneStory ==
  /\ TasksWith({"task_completed"}) = TasksIn("completed")
  /\ TasksWith({"task_failed", "task_reclaimed"}) = TasksIn("failed")
  /\ TasksWith({"task_failed"}) \cap TasksWith({"task_reclaimed"}) = {}

\* Once a task is dispatched its status changes only while it holds the claim
\* of the run; in particular a reclaimed task stays failed, whatever its worker
\* returns and whoever holds the run by then.
LateResultsRejected ==
  [][\A t \in Tasks : task[t].status # "none" /\ task'[t].status # task[t].status
                       => t \in Holder]_vars

\* The claim is a fenced lease: rows, sessions and heartbeats implement the
\* grants, settlements and revocations of FencedLease.
Lease == INSTANCE FencedLease WITH
  holder  <- Holder,
  fence   <- claim.version,
  settled <- TasksWith({"task_completed", "task_failed"}),
  revoked <- TasksWith({"task_reclaimed"})
ImplementsLease == Lease!Spec

(***************************************************************************)
(* Properties of fenced results, in all lanes.                             *)
(***************************************************************************)

\* The run is RUNNING exactly while a task holds it and runs, and only a
\* bounded task leaves its claim behind, until the lease runs out.
StatusIsTruthful ==
  /\ TasksIn("running") = Executing
  /\ runStatus = "running" <=> Executing # {}
  /\ \A t \in Holder \ Executing : task[t].lane = "bounded"

\* The claim is a fenced lease in all lanes, when the one that a bounded task
\* has left behind counts as given up, with the token of its coming reclaim.
Given == INSTANCE FencedLease WITH
  holder  <- Executing,
  fence   <- IF Holder = Executing THEN claim.version ELSE NextToken,
  settled <- TasksWith({"task_completed", "task_failed"}),
  revoked <- TasksWith({"task_reclaimed"})
ImplementsLeaseInAllLanes == Given!Spec

(***************************************************************************)
(* Progress, when claims are reconciled.                                   *)
(***************************************************************************)

\* Every claim is given up: by its task's result, or by a reclaim when the
\* controller died, the result was lost or the lane never releases it.
ClaimsAreGivenUp ==
  \A t \in Tasks : t \in Holder ~> t \notin Holder

\* No task is left RUNNING, whatever became of its controller.
RunningTaskSettles == \A t \in Tasks : t \in TasksIn("running") ~> t \notin TasksIn("running")

=============================================================================
