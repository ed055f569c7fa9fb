------------------------ MODULE ExecutionClaimProofs ------------------------
(***************************************************************************)
(* Proofs about ExecutionClaim, for any set of tasks and any timeout.      *)
(***************************************************************************)
EXTENDS ExecutionClaim, TLAPS

LEMMA TtlType == Ttl \in Nat
  BY TimeoutAssumption DEF Ttl, LeaseTtl, LeaseSlack

-----------------------------------------------------------------------------
(* Types.                                                                  *)

LEMMA InitTyped == Init => TypeOK
  BY TtlType DEF Init, TypeOK, RunStatuses, Claims, ClaimStatuses, TaskRecords,
     TaskStatuses, Phases, Events

LEMMA EventTyped ==
  ASSUME NEW kind \in ClaimEvents \cup Verdicts \cup {"result_rejected"},
         NEW t \in Tasks, NEW token \in Nat
  PROVE  Event(kind, t, token) \in Events
  BY DEF Event, Events

\* What a reclaim makes of the tasks, the controllers and the ledger.
LEMMA ReclaimParts ==
  ASSUME TypeOK, claim.task \in Tasks
  PROVE  /\ TasksAfterReclaim \in [Tasks -> TaskRecords]
         /\ ReclaimEvents \in SUBSET Events
         /\ \A stopped \in SUBSET Stoppable : WithFailed(stopped) \in [Tasks -> Phases]
  <1>1. NextToken \in Nat
    BY DEF TypeOK, Claims, NextToken
  <1>2. TasksAfterReclaim \in [Tasks -> TaskRecords]
    BY DEF TypeOK, TasksAfterReclaim, TaskRecords, TaskStatuses
  <1>3. /\ Event("claim_reclaimed", claim.task, NextToken) \in Events
        /\ Event("task_reclaimed", claim.task, 0) \in Events
    BY <1>1, EventTyped DEF ClaimEvents, Verdicts
  <1>4. \A stopped \in SUBSET Stoppable : WithFailed(stopped) \in [Tasks -> Phases]
    BY DEF TypeOK, WithFailed, Phases, Alive
  <1> QED BY <1>2, <1>3, <1>4 DEF ReclaimEvents

\* The only controllers that a reclaim moves are working ones.
LEMMA StoppedWereWorking ==
  ASSUME NEW stopped \in SUBSET Stoppable, NEW u \in Tasks
  PROVE  \/ WithFailed(stopped)[u] = ctl[u]
         \/ ctl[u] = "working" /\ WithFailed(stopped)[u] = "failure"
  BY DEF Stoppable, WithFailed

LEMMA GrantTyped ==
  ASSUME TypeOK, NEW t \in Tasks, NEW lane \in Lanes, NEW token \in Nat,
         NEW tasks \in [Tasks -> TaskRecords], Grant(t, lane, token, tasks)
  PROVE  /\ runStatus' \in RunStatuses
         /\ claim' \in Claims
         /\ task' \in [Tasks -> TaskRecords]
  <1>1. runStatus' \in RunStatuses
    BY DEF Grant, RunStatuses
  <1>2. claim' \in Claims
    BY TtlType DEF Grant, Claims, ClaimStatuses
  <1>3. task' \in [Tasks -> TaskRecords]
    BY LanesAssumption DEF Grant, TaskRecords, TaskStatuses
  <1> QED BY <1>1, <1>2, <1>3

LEMMA AcquireTyped ==
  ASSUME TypeOK, ClaimActive => claim.task \in Tasks,
         NEW t \in Tasks, NEW lane \in Lanes, Acquire(t, lane)
  PROVE  TypeOK'
  <1>1. NextToken \in Nat /\ NextToken + 1 \in Nat
    BY DEF TypeOK, Claims, NextToken
  <1>2. CASE AcquireFree(t, lane)
    <2>1. Grant(t, lane, NextToken, task)
      BY <1>2 DEF AcquireFree
    <2>2. ctl' \in [Tasks -> Phases] /\ seen' \in [Tasks -> RunStatuses \cup {"none"}]
      BY <1>2 DEF TypeOK, AcquireFree, Phases, Alive
    <2>3. ledger' \in SUBSET Events
      BY <1>1, <1>2, EventTyped DEF TypeOK, AcquireFree, ClaimEvents
    <2>4. task \in [Tasks -> TaskRecords]
      BY DEF TypeOK
    <2>5. runStatus' \in RunStatuses /\ claim' \in Claims /\ task' \in [Tasks -> TaskRecords]
      BY <1>1, <2>1, <2>4, GrantTyped
    <2> QED BY <2>2, <2>3, <2>5 DEF TypeOK
  <1>3. CASE AcquireOverdue(t, lane)
    <2>0. claim.task \in Tasks
      BY <1>3 DEF AcquireOverdue, Reclaimable
    <2>1. Grant(t, lane, NextToken + 1, TasksAfterReclaim)
      BY <1>3 DEF AcquireOverdue
    <2>2. PICK stopped \in SUBSET Stoppable :
            ctl' = [WithFailed(stopped) EXCEPT ![t] = "working"]
      BY <1>3 DEF AcquireOverdue
    <2>3. WithFailed(stopped) \in [Tasks -> Phases] /\ ReclaimEvents \in SUBSET Events
          /\ TasksAfterReclaim \in [Tasks -> TaskRecords]
      BY <2>0, ReclaimParts
    <2>4. ctl' \in [Tasks -> Phases] /\ seen' \in [Tasks -> RunStatuses \cup {"none"}]
      BY <1>3, <2>2, <2>3 DEF TypeOK, AcquireOverdue, Phases, Alive
    <2>5. Event("claim_acquired", t, NextToken + 1) \in Events
      BY <1>1, EventTyped DEF ClaimEvents
    <2>6. ledger' \in SUBSET Events
      BY <1>3, <2>3, <2>5 DEF TypeOK, AcquireOverdue
    <2>7. runStatus' \in RunStatuses /\ claim' \in Claims /\ task' \in [Tasks -> TaskRecords]
      BY <1>1, <2>1, <2>3, GrantTyped
    <2> QED BY <2>4, <2>6, <2>7 DEF TypeOK
  <1> QED BY <1>2, <1>3 DEF Acquire

LEMMA LandTyped ==
  ASSUME TypeOK, NEW t \in Tasks, NEW verdict \in Verdicts,
         NEW status \in TaskStatuses, Land(t, verdict, status)
  PROVE  /\ claim' \in Claims
         /\ task' \in [Tasks -> TaskRecords]
         /\ ledger' \in SUBSET Events
  <1>0. /\ NextToken \in Nat
        /\ Event("claim_released", t, NextToken) \in Events /\ Event(verdict, t, 0) \in Events
    <2>1. NextToken \in Nat
      BY DEF TypeOK, Claims, NextToken
    <2> QED BY <2>1, EventTyped DEF ClaimEvents
  <1>1. CASE ClaimActive /\ claim.task = t
    <2>1. claim' \in Claims
      BY <1>0, <1>1 DEF TypeOK, Land, Claims, ClaimStatuses
    <2>2. task' \in [Tasks -> TaskRecords]
      BY <1>0, <1>1 DEF TypeOK, Land, TaskRecords
    <2>3. ledger' \in SUBSET Events
      BY <1>0, <1>1 DEF TypeOK, Land
    <2> QED BY <2>1, <2>2, <2>3
  <1>2. CASE ~(ClaimActive /\ claim.task = t)
    <2>1. claim' = claim /\ task' = [task EXCEPT ![t].status = status]
          /\ ledger' = ledger \cup {Event(verdict, t, 0)}
      BY <1>2 DEF Land
    <2> QED BY <1>0, <2>1 DEF TypeOK, TaskRecords
  <1> QED BY <1>1, <1>2

LEMMA WrittenTyped ==
  ASSUME TypeOK, NEW t \in Tasks, NEW status \in RunStatuses
  PROVE  Written(t, status) \in RunStatuses
  BY DEF TypeOK, Written

LEMMA ReclaimTyped ==
  ASSUME TypeOK, claim.task \in Tasks, Reclaim
  PROVE  TypeOK'
  <1>1. NextToken \in Nat
    BY DEF TypeOK, Claims, NextToken
  <1>2. runStatus' \in RunStatuses
    BY DEF TypeOK, Reclaim, RunStatuses
  <1>3. claim' \in Claims
    <2>1. claim' = [claim EXCEPT !.status = "reclaimed", !.version = NextToken, !.age = 0]
      BY DEF Reclaim
    <2>2. claim \in Claims /\ 0 \in 0..Ttl
      BY TtlType DEF TypeOK
    <2> QED BY <1>1, <2>1, <2>2 DEF Claims, ClaimStatuses
  <1>4. task' \in [Tasks -> TaskRecords] /\ ctl' \in [Tasks -> Phases] /\ ledger' \in SUBSET Events
    BY ReclaimParts DEF TypeOK, Reclaim
  <1>5. seen' \in [Tasks -> RunStatuses \cup {"none"}]
    BY DEF TypeOK, Reclaim
  <1> QED BY <1>2, <1>3, <1>4, <1>5 DEF TypeOK

-----------------------------------------------------------------------------
(* What types alone do not give: an active claim names a task, and its     *)
(* seconds to live and its heartbeat's age add up to the whole lease.      *)

ClaimNamesTask == ClaimActive => claim.task \in Tasks
LeaseClock == ClaimActive => claim.left + claim.age = Ttl
LeaseInv == TypeOK /\ ClaimNamesTask /\ LeaseClock

LEMMA LeaseInit == Init => LeaseInv
  BY InitTyped DEF Init, LeaseInv, ClaimNamesTask, LeaseClock, ClaimActive

LEMMA LeaseStep == LeaseInv /\ [Next]_vars => LeaseInv'
  <1> SUFFICES ASSUME LeaseInv, [Next]_vars PROVE LeaseInv'
    OBVIOUS
  <1> USE DEF LeaseInv
  <1>1. ASSUME NEW t \in Tasks, Route(t) PROVE LeaseInv'
    BY <1>1 DEF Route, TypeOK, Phases, Alive, ClaimNamesTask, LeaseClock, ClaimActive
  <1>2. ASSUME NEW t \in Tasks, NEW lane \in Lanes, Acquire(t, lane) PROVE LeaseInv'
    <2>1. TypeOK'
      BY <1>2, AcquireTyped DEF ClaimNamesTask
    <2>2. claim'.task = t /\ claim'.left = Ttl /\ claim'.age = 0
      BY <1>2 DEF Acquire, AcquireFree, AcquireOverdue, Grant
    <2> QED BY <2>1, <2>2, TtlType DEF ClaimNamesTask, LeaseClock
  <1>3. ASSUME NEW t \in Tasks, DispatchWorker(t) PROVE LeaseInv'
    BY <1>3, <1>2 DEF DispatchWorker
  <1>4. ASSUME NEW t \in Tasks, DispatchRefused(t) PROVE LeaseInv'
    BY <1>4 DEF DispatchRefused, TypeOK, Phases, ClaimNamesTask, LeaseClock, ClaimActive
  <1>5. ASSUME NEW t \in Tasks, DispatchBounded(t) PROVE LeaseInv'
    BY <1>5, <1>2 DEF DispatchBounded
  <1>6. ASSUME NEW t \in Tasks, WorkerReturns(t) PROVE LeaseInv'
    BY <1>6 DEF WorkerReturns, TypeOK, Phases, Alive, ClaimNamesTask, LeaseClock, ClaimActive
  <1>7. ASSUME NEW t \in Tasks, CheckClaim(t) PROVE LeaseInv'
    <2>1. ctl' \in [Tasks -> Phases]
      BY <1>7 DEF CheckClaim, TypeOK, Phases, Alive, Finalizing
    <2>2. task[t].fence \in Nat
      BY DEF TypeOK, TaskRecords
    <2>3. ledger' = ledger \/ ledger' = ledger \cup {Event("result_rejected", t, task[t].fence)}
      BY <1>7 DEF CheckClaim
    <2>4. ledger' \in SUBSET Events
      <3>1. Event("result_rejected", t, task[t].fence) \in Events
        BY <2>2, EventTyped
      <3>2. ledger \in SUBSET Events
        BY DEF TypeOK
      <3> QED BY <2>3, <3>1, <3>2
    <2>5. seen' \in [Tasks -> RunStatuses \cup {"none"}]
      BY <1>7 DEF CheckClaim, TypeOK
    <2> QED BY <1>7, <2>1, <2>4, <2>5 DEF CheckClaim, TypeOK, ClaimNamesTask, LeaseClock, ClaimActive
  <1>8. ASSUME NEW t \in Tasks, LandSuccess(t) PROVE LeaseInv'
    <2>1. Land(t, "task_completed", "completed")
      BY <1>8 DEF LandSuccess
    <2>2. claim' \in Claims /\ task' \in [Tasks -> TaskRecords] /\ ledger' \in SUBSET Events
      BY <2>1, LandTyped DEF Verdicts, TaskStatuses
    <2>3. runStatus' \in RunStatuses /\ seen' = seen
      BY <1>8, WrittenTyped DEF LandSuccess, RunStatuses
    <2>4. ctl' \in [Tasks -> Phases]
      BY <1>8 DEF LandSuccess, TypeOK, Phases, Alive
    <2>5. claim' = claim \/ ~ClaimActive'
      BY <2>1 DEF Land, TypeOK, Claims, ClaimActive
    <2> QED BY <2>2, <2>3, <2>4, <2>5 DEF TypeOK, ClaimNamesTask, LeaseClock, ClaimActive
  <1>9. ASSUME NEW t \in Tasks, LandFailure(t) PROVE LeaseInv'
    <2>1. Land(t, "task_failed", "failed")
      BY <1>9 DEF LandFailure
    <2>2. claim' \in Claims /\ task' \in [Tasks -> TaskRecords] /\ ledger' \in SUBSET Events
      BY <2>1, LandTyped DEF Verdicts, TaskStatuses
    <2>3. runStatus' \in RunStatuses /\ seen' = seen
      BY <1>9, WrittenTyped DEF LandFailure, RunStatuses
    <2>4. ctl' \in [Tasks -> Phases]
      BY <1>9 DEF LandFailure, TypeOK, Phases
    <2>5. claim' = claim \/ ~ClaimActive'
      BY <2>1 DEF Land, TypeOK, Claims, ClaimActive
    <2> QED BY <2>2, <2>3, <2>4, <2>5 DEF TypeOK, ClaimNamesTask, LeaseClock, ClaimActive
  <1>10. ASSUME NEW t \in Tasks, PersistenceFails(t) PROVE LeaseInv'
    BY <1>10 DEF PersistenceFails, TypeOK, Phases, Alive, ClaimNamesTask, LeaseClock, ClaimActive
  <1>11. ASSUME NEW t \in Tasks, FinalizeBounded(t) PROVE LeaseInv'
    <2>1. runStatus' \in RunStatuses
      BY <1>11 DEF FinalizeBounded, RunStatuses
    <2>2. task' \in [Tasks -> TaskRecords]
      BY <1>11 DEF FinalizeBounded, TypeOK, TaskRecords, TaskStatuses
    <2>3. ctl' \in [Tasks -> Phases]
      BY <1>11 DEF FinalizeBounded, TypeOK, Phases
    <2>4. PICK verdict \in {"task_completed", "task_failed"} :
            ledger' = ledger \cup {Event(verdict, t, 0)}
      BY <1>11 DEF FinalizeBounded
    <2>5. ledger' \in SUBSET Events
      <3>1. verdict \in Verdicts /\ 0 \in Nat
        BY DEF Verdicts
      <3>2. Event(verdict, t, 0) \in Events
        BY <3>1, EventTyped
      <3>3. ledger \in SUBSET Events
        BY DEF TypeOK
      <3> QED BY <2>4, <3>2, <3>3
    <2> QED BY <1>11, <2>1, <2>2, <2>3, <2>5
            DEF FinalizeBounded, TypeOK, ClaimNamesTask, LeaseClock, ClaimActive
  <1>12. ASSUME NEW t \in Tasks, Renew(t) PROVE LeaseInv'
    <2>1. claim \in Claims /\ claim' = [claim EXCEPT !.left = Ttl, !.age = 0]
      BY <1>12 DEF Renew, RenewedClaim, TypeOK
    <2>2. Ttl \in 0..Ttl /\ 0 \in 0..Ttl /\ Ttl + 0 = Ttl
      BY TtlType
    <2>3. claim' \in Claims
      BY <2>1, <2>2 DEF Claims
    <2>4. (ClaimNamesTask /\ LeaseClock)'
      BY <2>1, <2>2 DEF Claims, ClaimNamesTask, LeaseClock, ClaimActive
    <2> QED BY <1>12, <2>3, <2>4 DEF Renew, TypeOK
  <1>13. ASSUME NEW t \in Tasks, Crash(t) PROVE LeaseInv'
    BY <1>13 DEF Crash, TypeOK, Phases, ClaimNamesTask, LeaseClock, ClaimActive
  <1>14. ASSUME Reclaim PROVE LeaseInv'
    <2>1. claim.task \in Tasks
      BY <1>14 DEF Reclaim, Reclaimable, ClaimNamesTask
    <2>2. TypeOK'
      BY <1>14, <2>1, ReclaimTyped
    <2>3. ~ClaimActive'
      BY <1>14 DEF Reclaim, TypeOK, Claims, ClaimActive
    <2> QED BY <2>2, <2>3 DEF ClaimNamesTask, LeaseClock
  <1>15. ASSUME Tick PROVE LeaseInv'
    <2>1. claim' = [claim EXCEPT !.left = claim.left - 1, !.age = claim.age + 1]
      BY <1>15 DEF Tick
    <2>2. claim.left \in 0..Ttl /\ claim.age \in 0..Ttl /\ claim.left # 0
          /\ claim.left + claim.age = Ttl
      BY <1>15 DEF Tick, Expired, TypeOK, Claims, LeaseClock
    <2>3. claim.left - 1 \in 0..Ttl /\ claim.age + 1 \in 0..Ttl
          /\ (claim.left - 1) + (claim.age + 1) = Ttl
      BY <2>2, TtlType
    <2>4. claim' \in Claims
      BY <2>1, <2>3 DEF TypeOK, Claims
    <2>5. (ClaimNamesTask /\ LeaseClock)'
      BY <2>1, <2>3 DEF TypeOK, Claims, ClaimNamesTask, LeaseClock, ClaimActive
    <2> QED BY <1>15, <2>4, <2>5 DEF Tick, TypeOK
  <1>16. CASE UNCHANGED vars
    BY <1>16 DEF vars, TypeOK, ClaimNamesTask, LeaseClock, ClaimActive
  <1> QED
    BY <1>1, <1>3, <1>4, <1>5, <1>6, <1>7, <1>8, <1>9, <1>10, <1>11, <1>12, <1>13,
       <1>14, <1>15, <1>16 DEF Next, Step

LEMMA LeaseInvariant == Spec => []LeaseInv
  BY LeaseInit, LeaseStep, PTL DEF Spec

\* Every reachable state of every interleaving is well typed; in particular
\* the counters never leave the lease and fencing tokens never turn negative.
THEOREM TypeCorrect == Spec => []TypeOK
  <1>1. LeaseInv => TypeOK
    BY DEF LeaseInv
  <1> QED BY LeaseInvariant, <1>1, PTL

-----------------------------------------------------------------------------
(* Heartbeats.                                                             *)

\* The threshold and the cadence together fit into any lease.
LEMMA ThresholdAndCadenceFit ==
  /\ RenewThreshold(Timeout) \in Int
  /\ RenewCadence(Timeout) \in Int
  /\ RenewThreshold(Timeout) + RenewCadence(Timeout) <= Ttl
  <1>1. Timeout \div 3 \in Int /\ Timeout \div 6 \in Int
    BY TimeoutAssumption
  <1> DEFINE x == Timeout \div 3
             y == Timeout \div 6
  <1>2. AtMost(RenewThresholdCap, AtLeast(5, x)) <= 10
        /\ AtMost(RenewThresholdCap, AtLeast(5, x)) \in Int
    <2> HIDE DEF x
    <2>1. x \in Int BY <1>1 DEF x
    <2> QED BY <2>1 DEF AtMost, AtLeast, RenewThresholdCap
  <1>3. AtMost(RenewCadenceCap, AtLeast(2, y)) <= 5
        /\ AtMost(RenewCadenceCap, AtLeast(2, y)) \in Int
    <2> HIDE DEF y
    <2>1. y \in Int BY <1>1 DEF y
    <2> QED BY <2>1 DEF AtMost, AtLeast, RenewCadenceCap
  <1> QED
    BY <1>2, <1>3, TimeoutAssumption
    DEF Ttl, LeaseTtl, LeaseSlack, RenewThreshold, RenewCadence

\* For every timeout, a renewal that is due is never suppressed because the
\* last heartbeat was too recent: that branch of the code is dead.
THEOREM HeartbeatsAreNeverSuppressed == Spec => []RenewalNeverCoalesced
  <1>1. LeaseInv => RenewalNeverCoalesced
    <2> SUFFICES ASSUME LeaseInv, ClaimActive,
                        ~(claim.left > RenewThreshold(Timeout))
                 PROVE  ~(claim.age < RenewCadence(Timeout))
      BY Zenon DEF RenewalNeverCoalesced, RenewalPressure
    <2>1. claim.left \in Int /\ claim.age \in Int /\ claim.left + claim.age = Ttl
      BY TtlType DEF LeaseInv, LeaseClock, TypeOK, Claims
    <2> QED BY <2>1, TtlType, ThresholdAndCadenceFit
  <1> QED BY LeaseInvariant, <1>1, PTL

-----------------------------------------------------------------------------
(* What each kind of step does.                                            *)

\* A step that leaves the run, its tasks and who holds the claim alone, and
\* adds no event but a rejection.
Quiet ==
  /\ UNCHANGED <<runStatus, task>>
  /\ claim'.status = claim.status
  /\ claim'.task = claim.task
  /\ claim'.version = claim.version
  /\ ledger \subseteq ledger'
  /\ \A e \in ledger' \ ledger : e.event = "result_rejected"

LEMMA StepCases ==
  ASSUME LeaseInv, [Next]_vars
  PROVE  \/ Quiet
         \/ \E t \in Tasks, lane \in Lanes : DispatchWorker(t) /\ lane \in WorkerLanes /\ Acquire(t, lane)
         \/ \E t \in Tasks : DispatchBounded(t)
         \/ \E t \in Tasks : LandSuccess(t)
         \/ \E t \in Tasks : LandFailure(t)
         \/ \E t \in Tasks : FinalizeBounded(t)
         \/ Reclaim
  <1>1. ASSUME NEW t \in Tasks,
               Route(t) \/ DispatchRefused(t) \/ WorkerReturns(t) \/ PersistenceFails(t) \/ Crash(t)
        PROVE  Quiet
    BY <1>1 DEF Route, DispatchRefused, WorkerReturns, PersistenceFails, Crash, Quiet
  <1>2. ASSUME NEW t \in Tasks, CheckClaim(t) PROVE Quiet
    BY <1>2 DEF CheckClaim, Quiet, Event
  <1>3. ASSUME NEW t \in Tasks, Renew(t) PROVE Quiet
    BY <1>3 DEF Renew, RenewedClaim, Quiet, LeaseInv, TypeOK, Claims
  <1>4. ASSUME Tick PROVE Quiet
    BY <1>4 DEF Tick, Quiet, LeaseInv, TypeOK, Claims
  <1>5. ASSUME NEW t \in Tasks, DispatchWorker(t)
        PROVE  \E lane \in Lanes : DispatchWorker(t) /\ lane \in WorkerLanes /\ Acquire(t, lane)
    BY <1>5 DEF DispatchWorker
  <1>6. CASE UNCHANGED vars
    BY <1>6 DEF vars, Quiet
  <1> QED BY <1>1, <1>2, <1>3, <1>4, <1>5, <1>6 DEF Next, Step

\* A reclaim ends the execution of the claim's task, and touches no other.
LEMMA AfterReclaim ==
  ASSUME TypeOK, claim.task \in Tasks
  PROVE  /\ \A u \in Tasks : TasksAfterReclaim[u].lane = task[u].lane
         /\ \A u \in Tasks : u # claim.task => TasksAfterReclaim[u] = task[u]
         /\ TasksAfterReclaim[claim.task].status =
              IF task[claim.task].status = "running" THEN "failed" ELSE task[claim.task].status
         /\ task[claim.task].status # "running" => TasksAfterReclaim = task
  BY DEF TypeOK, TaskRecords, TasksAfterReclaim, Orphan

LEMMA AcquireEffect ==
  ASSUME LeaseInv, NEW t \in Tasks, NEW lane \in Lanes, Acquire(t, lane)
  PROVE  /\ runStatus = "ready" /\ runStatus' = "running"
         /\ ClaimActive' /\ claim'.task = t
         /\ task'[t].status = "running"
         /\ task'[t].lane = lane
         /\ task'[t].fence = claim'.version
         /\ \A u \in Tasks : u # t /\ u \notin Holder => task'[u] = task[u]
         /\ \A u \in Tasks : u # t /\ u \in Holder => task'[u].status # "running"
         /\ \A u \in Tasks : u # t => task'[u].lane = task[u].lane
         /\ \A u \in Tasks : u # t /\ task[u].status = "none" => task'[u].status = "none"
  <1>0. TypeOK /\ (ClaimActive => claim.task \in Tasks)
    BY DEF LeaseInv, ClaimNamesTask
  <1>1. PICK token \in {NextToken, NextToken + 1}, tasks \in [Tasks -> TaskRecords] :
          /\ Grant(t, lane, token, tasks)
          /\ \/ tasks = task /\ ~ClaimActive
             \/ tasks = TasksAfterReclaim /\ ClaimActive
    <2>1. CASE AcquireFree(t, lane)
      BY <1>0, <2>1 DEF AcquireFree, TypeOK
    <2>2. CASE AcquireOverdue(t, lane)
      <3>1. ClaimActive /\ Grant(t, lane, NextToken + 1, TasksAfterReclaim)
        BY <2>2 DEF AcquireOverdue, Reclaimable
      <3>2. TasksAfterReclaim \in [Tasks -> TaskRecords]
        BY <1>0, <3>1, ReclaimParts
      <3> QED BY <3>1, <3>2
    <2> QED BY <2>1, <2>2 DEF Acquire
  <1>2. /\ runStatus = "ready" /\ runStatus' = "running"
        /\ ClaimActive' /\ claim'.task = t /\ claim'.version = token
    BY <1>1 DEF Acquire, AcquireFree, AcquireOverdue, Grant, ClaimActive
  <1>3. /\ task'[t].status = "running" /\ task'[t].lane = lane /\ task'[t].fence = token
        /\ \A u \in Tasks : u # t => task'[u] = tasks[u]
    BY <1>1 DEF Grant
  <1>4. CASE tasks = task /\ ~ClaimActive
    BY <1>2, <1>3, <1>4 DEF Holder
  <1>5. CASE tasks = TasksAfterReclaim /\ ClaimActive
    BY <1>0, <1>2, <1>3, <1>5, AfterReclaim DEF Holder
  <1> QED BY <1>1, <1>4, <1>5

LEMMA AcquireFreeEffect ==
  ASSUME LeaseInv, NEW t \in Tasks, NEW lane \in Lanes, Acquire(t, lane), ~ClaimActive
  PROVE  /\ claim'.version = claim.version + 1
         /\ ledger' = ledger \cup {Event("claim_acquired", t, claim.version + 1)}
  BY DEF Acquire, AcquireFree, AcquireOverdue, Reclaimable, Grant, NextToken

\* The controllers an acquisition moves.
LEMMA AcquireControllers ==
  ASSUME LeaseInv, NEW t \in Tasks, NEW lane \in Lanes, Acquire(t, lane), NEW u \in Tasks
  PROVE  /\ u = t => ctl'[u] = "working"
         /\ u # t => \/ ctl'[u] = ctl[u]
                     \/ ctl[u] = "working" /\ ctl'[u] = "failure"
  <1>0. ctl \in [Tasks -> Phases]
    BY DEF LeaseInv, TypeOK
  <1>1. CASE AcquireFree(t, lane)
    BY <1>0, <1>1 DEF AcquireFree
  <1>2. CASE AcquireOverdue(t, lane)
    <2>1. PICK stopped \in SUBSET Stoppable :
            ctl' = [WithFailed(stopped) EXCEPT ![t] = "working"]
      BY <1>2 DEF AcquireOverdue
    <2>2. DOMAIN WithFailed(stopped) = Tasks
      BY DEF WithFailed
    <2> QED BY <2>1, <2>2, StoppedWereWorking
  <1> QED BY <1>1, <1>2 DEF Acquire

LEMMA LandEffect ==
  ASSUME TypeOK, NEW t \in Tasks, NEW verdict, NEW status, Land(t, verdict, status)
  PROVE  /\ task'[t].status = status /\ task'[t].lane = task[t].lane
         /\ \A u \in Tasks : u # t => task'[u] = task[u]
         /\ ClaimActive /\ claim.task = t =>
              /\ ~ClaimActive' /\ claim'.version = claim.version + 1
              /\ ledger' = ledger \cup {Event("claim_released", t, claim.version + 1),
                                        Event(verdict, t, 0)}
         /\ ~(ClaimActive /\ claim.task = t) =>
              /\ claim' = claim /\ task'[t].fence = task[t].fence
              /\ ledger' = ledger \cup {Event(verdict, t, 0)}
  <1>1. CASE ClaimActive /\ claim.task = t
    <2>1. /\ claim' = [claim EXCEPT !.status = "released", !.version = NextToken]
          /\ task' = [task EXCEPT ![t].status = status, ![t].fence = NextToken]
          /\ ledger' = ledger \cup {Event("claim_released", t, NextToken), Event(verdict, t, 0)}
      BY <1>1 DEF Land
    <2>2. claim'.status = "released" /\ claim'.version = claim.version + 1
      BY <2>1 DEF TypeOK, Claims, NextToken
    <2>3. /\ task'[t].status = status /\ task'[t].lane = task[t].lane
          /\ \A u \in Tasks : u # t => task'[u] = task[u]
      BY <2>1 DEF TypeOK, TaskRecords
    <2> QED BY <1>1, <2>1, <2>2, <2>3 DEF ClaimActive, NextToken
  <1>2. CASE ~(ClaimActive /\ claim.task = t)
    BY <1>2 DEF TypeOK, TaskRecords, Land
  <1> QED BY <1>1, <1>2

LEMMA ReclaimEffect ==
  ASSUME TypeOK, claim.task \in Tasks, Reclaim
  PROVE  /\ ClaimActive /\ ~ClaimActive'
         /\ claim'.version = claim.version + 1
         /\ \A u \in Tasks : task'[u].lane = task[u].lane
         /\ \A u \in Tasks : u # claim.task => task'[u] = task[u]
         /\ task[claim.task].status = "running" => task'[claim.task].status = "failed"
         /\ task[claim.task].status # "running" => task' = task
         /\ runStatus' = IF task[claim.task].status = "running" /\ runStatus = "running"
                           THEN "ready" ELSE runStatus
         /\ ledger' = ledger \cup {Event("claim_reclaimed", claim.task, claim.version + 1)}
                        \cup (IF task[claim.task].status = "running"
                                THEN {Event("task_reclaimed", claim.task, 0)} ELSE {})
  <1>1. /\ ClaimActive /\ ~ClaimActive' /\ claim'.version = claim.version + 1
        /\ task' = TasksAfterReclaim
    BY DEF TypeOK, Claims, Reclaim, Reclaimable, NextToken, ClaimActive
  <1>2. runStatus' = IF task[claim.task].status = "running" /\ runStatus = "running"
                       THEN "ready" ELSE runStatus
    BY DEF Reclaim, Orphan
  <1>3. ledger' = ledger \cup {Event("claim_reclaimed", claim.task, claim.version + 1)}
                    \cup (IF task[claim.task].status = "running"
                            THEN {Event("task_reclaimed", claim.task, 0)} ELSE {})
    BY Zenon DEF Reclaim, ReclaimEvents, Orphan, NextToken
  <1> QED BY <1>1, <1>2, <1>3, AfterReclaim

LEMMA ReclaimControllers ==
  ASSUME Reclaim, NEW u \in Tasks
  PROVE  ctl'[u] = ctl[u] \/ (ctl[u] = "working" /\ ctl'[u] = "failure")
  BY StoppedWereWorking DEF Reclaim

LEMMA FinalizeBoundedEffect ==
  ASSUME TypeOK, NEW t \in Tasks, FinalizeBounded(t)
  PROVE  /\ claim' = claim /\ runStatus' # "running"
         /\ task'[t].status \in {"completed", "failed"}
         /\ task'[t].lane = "bounded" /\ task[t].lane = "bounded" /\ task'[t].fence = task[t].fence
         /\ \A u \in Tasks : u # t => task'[u] = task[u]
  BY DEF FinalizeBounded, TypeOK, TaskRecords

-----------------------------------------------------------------------------
(* Every interleaving: who runs.                                           *)

\* A finalizer that still holds its claim has read the run's RUNNING, if the
\* run is RUNNING: what it writes is not lost for want of a change.
SeenIsFresh ==
  \A t \in Tasks : ctl[t] \in Finalizing /\ Current(t) /\ runStatus = "running"
                     => seen[t] = "running"

ClaimInv == LeaseInv /\ SeenIsFresh /\ ActiveClaimIsBacked /\ RunningTasksHold

\* A finalizer is entered only by its check.
LEMMA EnterFinalizing ==
  ASSUME LeaseInv, [Next]_vars, NEW t \in Tasks, ctl'[t] \in Finalizing
  PROVE  \/ ctl'[t] = ctl[t] /\ seen'[t] = seen[t]
         \/ CheckClaim(t) /\ Current(t) /\ seen'[t] = runStatus
  <1>0. ctl \in [Tasks -> Phases] /\ seen \in [Tasks -> RunStatuses \cup {"none"}]
    BY DEF LeaseInv, TypeOK
  <1>1. CASE UNCHANGED vars
    BY <1>1 DEF vars
  <1>2. CASE Reclaim
    BY <1>2, ReclaimControllers DEF Reclaim, Finalizing
  <1>3. CASE Tick
    BY <1>3 DEF Tick
  <1>4. ASSUME NEW u \in Tasks, Step(u)
        PROVE  \/ ctl'[t] = ctl[t] /\ seen'[t] = seen[t]
               \/ CheckClaim(t) /\ Current(t) /\ seen'[t] = runStatus
    <2>1. CASE CheckClaim(u)
      BY <1>0, <2>1 DEF CheckClaim, Finalizing
    <2>2. CASE Route(u) \/ DispatchRefused(u) \/ WorkerReturns(u) \/ PersistenceFails(u) \/ Crash(u)
      BY <1>0, <2>2
      DEF Route, DispatchRefused, WorkerReturns, PersistenceFails, Crash, Finalizing
    <2>3. ASSUME NEW lane \in Lanes, Acquire(u, lane)
          PROVE  ctl'[t] = ctl[t] /\ seen'[t] = seen[t]
      <3>1. seen' = seen
        BY <2>3 DEF Acquire, AcquireFree, AcquireOverdue
      <3> QED BY <2>3, <3>1, AcquireControllers DEF Finalizing
    <2>4. CASE DispatchWorker(u) \/ DispatchBounded(u)
      BY <2>3, <2>4 DEF DispatchWorker, DispatchBounded
    <2>5. CASE LandSuccess(u) \/ LandFailure(u) \/ FinalizeBounded(u)
      BY <1>0, <2>5 DEF LandSuccess, LandFailure, FinalizeBounded, Finalizing
    <2>6. CASE Renew(u)
      BY <2>6 DEF Renew
    <2> QED BY <1>4, <2>1, <2>2, <2>4, <2>5, <2>6 DEF Step
  <1> QED BY <1>1, <1>2, <1>3, <1>4 DEF Next

LEMMA SeenStep ==
  ASSUME LeaseInv, SeenIsFresh, [Next]_vars
  PROVE  SeenIsFresh'
  <1> SUFFICES ASSUME NEW t \in Tasks, ctl'[t] \in Finalizing, Current(t)', runStatus' = "running"
               PROVE  seen'[t] = "running"
    BY DEF SeenIsFresh
  <1>0. TypeOK /\ ClaimNamesTask /\ ctl \in [Tasks -> Phases]
    BY DEF LeaseInv, TypeOK
  <1>1. CASE CheckClaim(t) /\ seen'[t] = runStatus
    BY <1>1 DEF CheckClaim
  <1>2. CASE ctl'[t] = ctl[t] /\ seen'[t] = seen[t]
    <2> SUFFICES Current(t) /\ runStatus = "running"
      BY <1>2 DEF SeenIsFresh
    <2>1. CASE Quiet
      BY <2>1 DEF Quiet, Current, ClaimActive
    <2>2. ASSUME NEW u \in Tasks, NEW lane \in Lanes, Acquire(u, lane) PROVE FALSE
      <3>1. claim'.task = u /\ ctl'[u] = "working"
        BY <2>2, AcquireEffect, AcquireControllers
      <3> QED BY <3>1 DEF Current, Finalizing
    <2>3. ASSUME NEW u \in Tasks, DispatchBounded(u) PROVE FALSE
      BY <2>2, <2>3 DEF DispatchBounded
    <2>4. ASSUME NEW u \in Tasks, NEW verdict, NEW status, NEW outcome \in {"ready", "failed"},
                 Land(u, verdict, status), ctl'[u] \notin Finalizing,
                 runStatus' \in {Written(u, outcome), "completed"}
          PROVE  Current(t) /\ runStatus = "running"
      <3>1. u # t
        BY <2>4
      <3>2. ~(ClaimActive /\ claim.task = u)
        BY <1>0, <2>4, LandEffect DEF Current
      <3>3. claim' = claim /\ task'[t] = task[t]
        BY <1>0, <2>4, <3>1, <3>2, LandEffect
      <3>4. runStatus = "running"
        BY <2>4 DEF Written
      <3> QED BY <3>3, <3>4 DEF Current, ClaimActive
    <2>5. ASSUME NEW u \in Tasks, LandSuccess(u) PROVE Current(t) /\ runStatus = "running"
      <3>1. ctl'[u] \notin Finalizing
        BY <1>0, <2>5 DEF LandSuccess, Finalizing
      <3> QED BY <2>4, <2>5, <3>1 DEF LandSuccess
    <2>6. ASSUME NEW u \in Tasks, LandFailure(u) PROVE Current(t) /\ runStatus = "running"
      <3>1. ctl'[u] \notin Finalizing
        BY <1>0, <2>6 DEF LandFailure, Finalizing
      <3> QED BY <2>4, <2>6, <3>1 DEF LandFailure
    <2>7. ASSUME NEW u \in Tasks PROVE ~FinalizeBounded(u)
      BY <1>0, FinalizeBoundedEffect
    <2>8. CASE Reclaim
      <3>1. ~ClaimActive'
        BY <1>0, <2>8, ReclaimEffect DEF Reclaim, Reclaimable, ClaimNamesTask
      <3> QED BY <3>1 DEF Current
    <2> QED BY <2>1, <2>2, <2>3, <2>5, <2>6, <2>7, <2>8, StepCases
  <1> QED BY <1>1, <1>2, EnterFinalizing

LEMMA BackedStep ==
  ASSUME LeaseInv, ActiveClaimIsBacked, [Next]_vars
  PROVE  ActiveClaimIsBacked'
  <1>0. TypeOK /\ ClaimNamesTask
    BY DEF LeaseInv
  <1>1. CASE Quiet
    BY <1>1 DEF Quiet, ActiveClaimIsBacked, ClaimActive
  <1>2. ASSUME NEW t \in Tasks, NEW lane \in Lanes, Acquire(t, lane)
        PROVE  ActiveClaimIsBacked'
    BY <1>2, AcquireEffect DEF ActiveClaimIsBacked
  <1>3. ASSUME NEW t \in Tasks, DispatchBounded(t) PROVE ActiveClaimIsBacked'
    BY <1>2, <1>3 DEF DispatchBounded
  <1>4. ASSUME NEW t \in Tasks, FinalizeBounded(t) PROVE ActiveClaimIsBacked'
    BY <1>0, <1>4, FinalizeBoundedEffect DEF ActiveClaimIsBacked, ClaimActive, ClaimNamesTask
  <1>5. ASSUME NEW t \in Tasks, NEW verdict, NEW status, Land(t, verdict, status)
        PROVE  ActiveClaimIsBacked'
    <2>1. CASE ClaimActive /\ claim.task = t
      BY <1>0, <1>5, <2>1, LandEffect DEF ActiveClaimIsBacked
    <2>2. CASE ~(ClaimActive /\ claim.task = t)
      BY <1>0, <1>5, <2>2, LandEffect DEF ActiveClaimIsBacked, ClaimActive, ClaimNamesTask
    <2> QED BY <2>1, <2>2
  <1>6. ASSUME NEW t \in Tasks, LandSuccess(t) \/ LandFailure(t) PROVE ActiveClaimIsBacked'
    BY <1>5, <1>6 DEF LandSuccess, LandFailure
  <1>7. CASE Reclaim
    BY <1>0, <1>7, ReclaimEffect DEF Reclaim, Reclaimable, ClaimNamesTask, ActiveClaimIsBacked
  <1> QED BY <1>1, <1>2, <1>3, <1>4, <1>6, <1>7, StepCases

LEMMA RunningStep ==
  ASSUME ClaimInv, [Next]_vars
  PROVE  RunningTasksHold'
  <1>0. /\ LeaseInv /\ TypeOK /\ ClaimNamesTask
        /\ \A t \in Tasks : task[t].status = "running" => t \in Executing
        /\ runStatus = "running" => Executing # {}
    BY DEF ClaimInv, LeaseInv, RunningTasksHold, TasksIn
  <1> SUFFICES /\ \A t \in Tasks : task'[t].status = "running" => t \in Executing'
               /\ runStatus' = "running" => Executing' # {}
    <2>1. (Holder \subseteq Tasks)'
      BY <1>0, LeaseStep DEF LeaseInv, ClaimNamesTask, Holder
    <2> QED BY <2>1 DEF RunningTasksHold, TasksIn, Executing
  <1>1. CASE Quiet
    <2>1. Executing' = Executing
      BY <1>1 DEF Quiet, Executing, Holder, ClaimActive
    <2> QED BY <1>0, <1>1, <2>1 DEF Quiet
  <1>2. ASSUME NEW t \in Tasks, NEW lane \in Lanes, Acquire(t, lane)
        PROVE  Executing' = {t} /\ \A u \in Tasks : task'[u].status = "running" => u = t
    <2>1. Executing' = {t}
      BY <1>0, <1>2, AcquireEffect DEF Executing, Holder
    <2>2. ASSUME NEW u \in Tasks, u # t PROVE task'[u].status # "running"
      BY <1>0, <1>2, <2>2, AcquireEffect DEF Executing
    <2> QED BY <2>1, <2>2
  <1>3. ASSUME NEW t \in Tasks, DispatchBounded(t)
        PROVE  Executing' = {t} /\ \A u \in Tasks : task'[u].status = "running" => u = t
    BY <1>2, <1>3 DEF DispatchBounded
  <1>4. ASSUME NEW t \in Tasks, FinalizeBounded(t)
        PROVE  /\ \A u \in Tasks : task'[u].status = "running" => u \in Executing'
               /\ runStatus' # "running"
    <2>1. Holder' = Holder
      BY <1>0, <1>4, FinalizeBoundedEffect DEF Holder, ClaimActive
    <2> QED BY <1>0, <1>4, <2>1, FinalizeBoundedEffect DEF Executing
  <1>5. ASSUME NEW t \in Tasks, NEW verdict, NEW status \in {"completed", "failed"},
               NEW outcome \in {"ready", "failed"}, ctl[t] \in Finalizing,
               Land(t, verdict, status), runStatus' \in {Written(t, outcome), "completed"}
        PROVE  /\ \A u \in Tasks : task'[u].status = "running" => u \in Executing'
               /\ runStatus' = "running" => Executing' # {}
    <2>1. CASE ClaimActive /\ claim.task = t
      <3>1. Current(t)
        BY <2>1 DEF ClaimInv, ActiveClaimIsBacked, Current
      <3>2. runStatus' # "running"
        BY <1>5, <3>1 DEF ClaimInv, SeenIsFresh, Written
      <3>3. \A u \in Tasks : task'[u].status # "running"
        BY <1>0, <1>5, <2>1, LandEffect DEF Executing, Holder
      <3> QED BY <3>2, <3>3
    <2>2. CASE ~(ClaimActive /\ claim.task = t)
      <3>1. t \notin Holder /\ Holder' = Holder
        BY <1>0, <1>5, <2>2, LandEffect DEF Holder, ClaimActive
      <3>2. Holder \subseteq Tasks
        BY <1>0 DEF ClaimNamesTask, Holder
      <3>3. Executing' = Executing
        BY <1>0, <1>5, <3>1, <3>2, LandEffect DEF Executing
      <3>4. \A u \in Tasks : task'[u].status = "running" => u \in Executing
        BY <1>0, <1>5, LandEffect
      <3>5. runStatus' = "running" => runStatus = "running"
        BY <1>5 DEF Written
      <3> QED BY <1>0, <3>3, <3>4, <3>5
    <2> QED BY <2>1, <2>2
  <1>6. ASSUME NEW t \in Tasks, LandSuccess(t)
        PROVE  /\ \A u \in Tasks : task'[u].status = "running" => u \in Executing'
               /\ runStatus' = "running" => Executing' # {}
    <2>1. ctl[t] \in Finalizing
      BY <1>6 DEF LandSuccess, Finalizing
    <2> QED BY <1>5, <1>6, <2>1 DEF LandSuccess
  <1>7. ASSUME NEW t \in Tasks, LandFailure(t)
        PROVE  /\ \A u \in Tasks : task'[u].status = "running" => u \in Executing'
               /\ runStatus' = "running" => Executing' # {}
    <2>1. ctl[t] \in Finalizing
      BY <1>7 DEF LandFailure, Finalizing
    <2> QED BY <1>5, <1>7, <2>1 DEF LandFailure
  <1>8. CASE Reclaim
    <2>1. claim.task \in Tasks
      BY <1>0, <1>8 DEF Reclaim, Reclaimable, ClaimNamesTask
    <2>2. \A u \in Tasks : task'[u].status # "running"
      BY <1>0, <1>8, <2>1, ReclaimEffect DEF Executing, Holder
    <2>3. runStatus' # "running"
      BY <1>0, <1>8, <2>1, ReclaimEffect DEF Executing, Holder
    <2> QED BY <2>2, <2>3
  <1> QED BY <1>0, <1>1, <1>2, <1>3, <1>4, <1>6, <1>7, <1>8, StepCases

LEMMA ClaimInvariant == Spec => []ClaimInv
  <1>1. Init => ClaimInv
    BY LeaseInit DEF Init, ClaimInv, SeenIsFresh, Finalizing, ActiveClaimIsBacked,
       RunningTasksHold, TasksIn, Executing, Holder, ClaimActive
  <1>2. ClaimInv /\ [Next]_vars => ClaimInv'
    BY LeaseStep, SeenStep, BackedStep, RunningStep DEF ClaimInv
  <1> QED BY <1>1, <1>2, PTL DEF Spec

\* Whatever the interleaving and the lanes, late results included, at most one
\* task executes, it holds the claim, and a RUNNING run is never left without
\* a task that executes.
THEOREM RunningTasksHoldTheClaim == Spec => []RunningTasksHold
  <1>1. ClaimInv => RunningTasksHold
    BY DEF ClaimInv
  <1> QED BY ClaimInvariant, <1>1, PTL

\* Whatever the interleaving and the lanes, the task an active claim names
\* carries the claim's token, and it runs or was a bounded one: a late result
\* of another task leaves the claim it finds alone.
THEOREM ClaimsAreBacked == Spec => []ActiveClaimIsBacked
  <1>1. ClaimInv => ActiveClaimIsBacked
    BY DEF ClaimInv
  <1> QED BY ClaimInvariant, <1>1, PTL

-----------------------------------------------------------------------------
(* Every interleaving: fencing tokens.                                     *)

\* No claim event carries a token newer than the claim's.
TokensBehind == \A e \in ledger : e.event \in ClaimEvents => e.token <= claim.version

\* New claim events with tokens newer than the claim's, and different ones,
\* keep the tokens distinct.
LEMMA NewTokens ==
  ASSUME LeaseInv, TokensBehind, TokensNeverReused,
         NEW new, ledger' = ledger \cup new,
         claim'.version \in Nat, claim.version <= claim'.version,
         \A e \in new : e.event \in ClaimEvents =>
           e.token \in Nat /\ claim.version < e.token /\ e.token <= claim'.version,
         \A e, f \in new : e.event \in ClaimEvents /\ f.event \in ClaimEvents
                             /\ e.token = f.token => e = f
  PROVE  TokensBehind' /\ TokensNeverReused'
  <1>0. claim.version \in Nat /\ (\A e \in ledger : e.token \in Nat)
    BY DEF LeaseInv, TypeOK, Claims, Events
  <1>1. \A e \in ledger' : e \in ledger \/ e \in new
    OBVIOUS
  <1>2. TokensBehind'
    BY <1>0, <1>1 DEF TokensBehind
  <1>3. ASSUME NEW e \in ledger', NEW f \in ledger',
               e.event \in ClaimEvents, f.event \in ClaimEvents, e.token = f.token
        PROVE  e = f
    <2>1. ASSUME NEW g \in ledger, g.event \in ClaimEvents
          PROVE  g.token \in Nat /\ g.token <= claim.version
      BY <1>0, <2>1 DEF TokensBehind
    <2>2. e \in ledger <=> f \in ledger
      BY <1>0, <1>1, <1>3, <2>1
    <2> QED BY <1>1, <1>3, <2>2 DEF TokensNeverReused
  <1> QED BY <1>2, <1>3 DEF TokensNeverReused

\* A verdict is not a claim event and takes no token.
LEMMA VerdictsTakeNoToken ==
  ASSUME LeaseInv, TokensBehind, TokensNeverReused, NEW kind \in ClaimEvents, NEW t \in Tasks,
         NEW verdicts, \A e \in verdicts : e.event \notin ClaimEvents,
         claim'.version = claim.version + 1,
         ledger' = ledger \cup ({Event(kind, t, claim.version + 1)} \cup verdicts)
  PROVE  TokensBehind' /\ TokensNeverReused'
  <1> DEFINE new == {Event(kind, t, claim.version + 1)} \cup verdicts
  <1>0. claim.version \in Nat
    BY DEF LeaseInv, TypeOK, Claims
  <1>1. Event(kind, t, claim.version + 1).token = claim.version + 1
    BY DEF Event
  <1>2. \A e \in new : e.event \in ClaimEvents => e = Event(kind, t, claim.version + 1)
    OBVIOUS
  <1>3. \A e \in new : e.event \in ClaimEvents =>
          e.token \in Nat /\ claim.version < e.token /\ e.token <= claim'.version
    BY <1>0, <1>1, <1>2
  <1> HIDE DEF new
  <1>4. ledger' = ledger \cup new
    BY DEF new
  <1> QED BY <1>0, <1>2, <1>3, <1>4, NewTokens

LEMMA AcquireTokens ==
  ASSUME LeaseInv, TokensBehind, TokensNeverReused,
         NEW t \in Tasks, NEW lane \in Lanes, Acquire(t, lane)
  PROVE  TokensBehind' /\ TokensNeverReused'
  <1>0. claim.version \in Nat
    BY DEF LeaseInv, TypeOK, Claims
  <1>1. CASE AcquireFree(t, lane)
    <2> DEFINE new == {Event("claim_acquired", t, claim.version + 1)}
    <2>1. claim'.version = claim.version + 1 /\ ledger' = ledger \cup new
      BY <1>1 DEF AcquireFree, Grant, NextToken
    <2>2. \A e \in new : e.token = claim.version + 1
      BY DEF Event
    <2>3. \A e, f \in new : e = f
      OBVIOUS
    <2> HIDE DEF new
    <2>4. \A e \in new : e.event \in ClaimEvents =>
            e.token \in Nat /\ claim.version < e.token /\ e.token <= claim'.version
      BY <1>0, <2>1, <2>2
    <2>5. \A e, f \in new : e.event \in ClaimEvents /\ f.event \in ClaimEvents
                              /\ e.token = f.token => e = f
      BY <2>3
    <2>6. claim'.version \in Nat /\ claim.version <= claim'.version
      BY <1>0, <2>1
    <2> QED BY <2>1, <2>4, <2>5, <2>6, NewTokens
  <1>2. CASE AcquireOverdue(t, lane)
    <2> DEFINE reclaimed == Event("claim_reclaimed", claim.task, claim.version + 1)
               acquired  == Event("claim_acquired", t, claim.version + 2)
               failed    == Event("task_reclaimed", claim.task, 0)
               new       == ReclaimEvents \cup {acquired}
    <2>1. claim'.version = claim.version + 2 /\ ledger' = ledger \cup new
      <3>1. NextToken + 1 = claim.version + 2
        BY <1>0 DEF NextToken
      <3> QED BY <1>2, <3>1 DEF AcquireOverdue, Grant
    <2>2. \A e \in new : e = reclaimed \/ e = acquired \/ e = failed
      BY DEF ReclaimEvents, NextToken
    <2>3. /\ reclaimed.token = claim.version + 1
          /\ acquired.token = claim.version + 2
          /\ failed.event \notin ClaimEvents
      BY DEF Event, ClaimEvents
    <2> HIDE DEF reclaimed, acquired, failed, new
    <2>4. \A e \in new : e.event \in ClaimEvents =>
            e.token \in Nat /\ claim.version < e.token /\ e.token <= claim'.version
      BY <1>0, <2>1, <2>2, <2>3
    <2>5. \A e, f \in new : e.event \in ClaimEvents /\ f.event \in ClaimEvents
                              /\ e.token = f.token => e = f
      BY <1>0, <2>2, <2>3
    <2>6. claim'.version \in Nat /\ claim.version <= claim'.version
      BY <1>0, <2>1
    <2> QED BY <2>1, <2>4, <2>5, <2>6, NewTokens
  <1> QED BY <1>1, <1>2 DEF Acquire

LEMMA TokensStep ==
  ASSUME ClaimInv, TokensBehind, TokensNeverReused, [Next]_vars
  PROVE  TokensBehind' /\ TokensNeverReused'
  <1>0. LeaseInv /\ TypeOK /\ ClaimNamesTask
    BY DEF ClaimInv, LeaseInv
  <1>1. ASSUME claim'.version = claim.version,
               \A e \in ledger' : e.event \in ClaimEvents => e \in ledger
        PROVE  TokensBehind' /\ TokensNeverReused'
    BY <1>1 DEF TokensBehind, TokensNeverReused
  <1>2. CASE Quiet
    BY <1>1, <1>2 DEF Quiet, ClaimEvents
  <1>3. ASSUME NEW t \in Tasks, DispatchBounded(t)
        PROVE  TokensBehind' /\ TokensNeverReused'
    BY <1>0, <1>3, AcquireTokens DEF DispatchBounded
  <1>4. ASSUME NEW t \in Tasks, NEW verdict \in Verdicts, NEW status, Land(t, verdict, status)
        PROVE  TokensBehind' /\ TokensNeverReused'
    <2>1. Event(verdict, t, 0).event \notin ClaimEvents
      BY DEF Event, Verdicts, ClaimEvents
    <2>2. CASE ClaimActive /\ claim.task = t
      <3>1. "claim_released" \in ClaimEvents
        BY DEF ClaimEvents
      <3>2. claim'.version = claim.version + 1
            /\ ledger' = ledger \cup ({Event("claim_released", t, claim.version + 1)}
                                        \cup {Event(verdict, t, 0)})
        BY <1>0, <1>4, <2>2, LandEffect
      <3> QED BY <1>0, <2>1, <3>1, <3>2, VerdictsTakeNoToken
    <2>3. CASE ~(ClaimActive /\ claim.task = t)
      BY <1>0, <1>1, <1>4, <2>1, <2>3, LandEffect
    <2> QED BY <2>2, <2>3
  <1>5. ASSUME NEW t \in Tasks, LandSuccess(t) \/ LandFailure(t)
        PROVE  TokensBehind' /\ TokensNeverReused'
    <2>1. "task_completed" \in Verdicts /\ "task_failed" \in Verdicts
      BY DEF Verdicts
    <2> QED BY <1>4, <1>5, <2>1 DEF LandSuccess, LandFailure
  <1>6. ASSUME NEW t \in Tasks, FinalizeBounded(t)
        PROVE  TokensBehind' /\ TokensNeverReused'
    <2>1. PICK verdict \in {"task_completed", "task_failed"} :
            ledger' = ledger \cup {Event(verdict, t, 0)}
      BY <1>6 DEF FinalizeBounded
    <2>2. Event(verdict, t, 0).event \notin ClaimEvents /\ claim' = claim
      BY <1>6 DEF FinalizeBounded, Event, ClaimEvents
    <2> QED BY <1>1, <2>1, <2>2
  <1>7. CASE Reclaim
    <2> DEFINE verdicts == IF task[claim.task].status = "running"
                             THEN {Event("task_reclaimed", claim.task, 0)} ELSE {}
    <2>1. claim.task \in Tasks /\ "claim_reclaimed" \in ClaimEvents
      BY <1>0, <1>7 DEF Reclaim, Reclaimable, ClaimNamesTask, ClaimEvents
    <2>2. \A e \in verdicts : e.event \notin ClaimEvents
      BY DEF Event, ClaimEvents
    <2>3. claim'.version = claim.version + 1
          /\ ledger' = ledger \cup ({Event("claim_reclaimed", claim.task, claim.version + 1)}
                                      \cup verdicts)
      BY <1>0, <1>7, <2>1, ReclaimEffect
    <2> HIDE DEF verdicts
    <2> QED BY <1>0, <2>1, <2>2, <2>3, VerdictsTakeNoToken
  <1> QED BY <1>0, <1>2, <1>3, <1>5, <1>6, <1>7, AcquireTokens, StepCases

\* Whatever the interleaving and the lanes, no two claim transitions are given
\* the same fencing token: the reclaim inside an acquisition takes one of its
\* own, and a late result that finds the claim gone takes none.
THEOREM FencingTokensAreUnique == Spec => []TokensNeverReused
  <1> DEFINE Tokens == TokensBehind /\ TokensNeverReused
  <1>1. Init => Tokens
    BY DEF Init, TokensBehind, TokensNeverReused
  <1>2. ClaimInv /\ Tokens /\ [Next]_vars => Tokens'
    BY TokensStep
  <1>3. Tokens => TokensNeverReused
    OBVIOUS
  <1> HIDE DEF Tokens
  <1> QED BY <1>1, <1>2, <1>3, ClaimInvariant, PTL DEF Spec

-----------------------------------------------------------------------------
(* The worker lanes.                                                       *)

\* No bounded task took part so far.
OnlyWorkers == \A t \in Tasks : task[t].lane # "bounded"

\* Without the bounded lane there are no bounded tasks.
LEMMA OnlyWorkersStep ==
  ASSUME Lanes \subseteq WorkerLanes, LeaseInv, OnlyWorkers, [Next]_vars
  PROVE  OnlyWorkers'
  <1>0. TypeOK /\ ClaimNamesTask
    BY DEF LeaseInv
  <1>1. CASE Quiet
    BY <1>1 DEF Quiet, OnlyWorkers
  <1>2. ASSUME NEW t \in Tasks, NEW lane \in Lanes, Acquire(t, lane) PROVE OnlyWorkers'
    <2>1. lane # "bounded"
      BY DEF WorkerLanes
    <2>2. task'[t].lane = lane /\ \A u \in Tasks : u # t => task'[u].lane = task[u].lane
      BY <1>2, AcquireEffect
    <2> QED BY <2>1, <2>2 DEF OnlyWorkers
  <1>3. ASSUME NEW t \in Tasks PROVE ~DispatchBounded(t) /\ ~FinalizeBounded(t)
    BY DEF DispatchBounded, FinalizeBounded, WorkerLanes, OnlyWorkers
  <1>4. ASSUME NEW t \in Tasks, LandSuccess(t) \/ LandFailure(t) PROVE OnlyWorkers'
    BY <1>0, <1>4, LandEffect DEF LandSuccess, LandFailure, OnlyWorkers
  <1>5. CASE Reclaim
    BY <1>0, <1>5, ReclaimEffect DEF Reclaim, Reclaimable, ClaimNamesTask, OnlyWorkers
  <1> QED BY <1>1, <1>2, <1>3, <1>4, <1>5, StepCases

-----------------------------------------------------------------------------
(* Fenced results, in all lanes: what the steps do.                        *)

\* A controller that has not dispatched has no task record yet.
Undispatched == \A t \in Tasks : ctl[t] \in {"idle", "routed"} => task[t].status = "none"

\* Who still holds the run after its task has settled has nothing left to do.
OnlyFinishedLinger == \A t \in Holder \ Executing : ctl[t] = "done"

OthersKept(t) == \A u \in Tasks : u # t => task'[u] = task[u]

\* The five steps that move the claim or a task, by what they do.
Grants(t) ==
  /\ Holder = {} /\ Holder' = {t} /\ Executing' = {t}
  /\ task[t].status = "none" /\ task'[t].status = "running" /\ OthersKept(t)
  /\ runStatus' = "running"
  /\ claim'.version = claim.version + 1
  /\ ledger' = ledger \cup {Event("claim_acquired", t, claim.version + 1)}

StatusOf(verdict) == IF verdict = "task_completed" THEN "completed" ELSE "failed"

Ends(t, verdict) ==
  /\ Holder = {t} /\ Executing = {t} /\ Executing' = {}
  /\ task[t].status = "running" /\ task'[t].status = StatusOf(verdict) /\ OthersKept(t)
  /\ runStatus' # "running"

\* A worker's result: the claim is released with it.
Settles(t, verdict) ==
  /\ Ends(t, verdict) /\ Holder' = {}
  /\ verdict \in {"task_completed", "task_failed"}
  /\ claim'.version = claim.version + 1
  /\ ledger' = ledger \cup {Event("claim_released", t, claim.version + 1), Event(verdict, t, 0)}

\* A bounded result: the claim is left behind.
Finishes(t, verdict) ==
  /\ Ends(t, verdict) /\ Holder' = {t}
  /\ verdict \in {"task_completed", "task_failed"}
  /\ task'[t].lane = "bounded" /\ ctl'[t] = "done" /\ runStatus' # "ready"
  /\ claim'.version = claim.version
  /\ ledger' = ledger \cup {Event(verdict, t, 0)}

\* The reclaim of a running task, and of a claim left behind.
Revokes(t) ==
  /\ Ends(t, "task_reclaimed") /\ Holder' = {}
  /\ claim'.version = claim.version + 1
  /\ ledger' = ledger \cup {Event("claim_reclaimed", t, claim.version + 1),
                            Event("task_reclaimed", t, 0)}
Clears(t) ==
  /\ Holder = {t} /\ Executing = {} /\ Holder' = {} /\ Executing' = {}
  /\ UNCHANGED <<runStatus, task>>
  /\ claim'.version = claim.version + 1
  /\ ledger' = ledger \cup {Event("claim_reclaimed", t, claim.version + 1)}

\* A run that is offered for execution is not claimed: then no dispatch finds
\* a claim in its way.
ReadyRunIsFree == runStatus = "ready" => ~ClaimActive

FencedInv ==
  /\ LeaseInv
  /\ SeenIsFresh
  /\ ReadyRunIsFree
  /\ Undispatched
  /\ OnlyFinishedLinger
  /\ StatusIsTruthful

LEMMA FencedStepIsStep == [FencedNext]_vars => [Next]_vars
  BY DEF FencedNext

\* In a new task's dispatch the run is free.
LEMMA GrantStep ==
  ASSUME FencedInv, NEW t \in Tasks, NEW lane \in Lanes, Acquire(t, lane),
         task[t].status = "none"
  PROVE  Grants(t)
  <1>1. LeaseInv /\ ~ClaimActive
    BY DEF FencedInv, ReadyRunIsFree, Acquire, AcquireFree, AcquireOverdue
  <1>2. /\ ClaimActive' /\ claim'.task = t /\ runStatus' = "running"
        /\ task'[t].status = "running" /\ OthersKept(t)
    BY <1>1, AcquireEffect DEF Holder, OthersKept
  <1>3. Holder = {} /\ Holder' = {t} /\ Executing' = {t}
    BY <1>1, <1>2 DEF Holder, Executing
  <1> QED BY <1>1, <1>2, <1>3, AcquireFreeEffect DEF Grants

\* Whoever holds the claim and has not finished executes.
LEMMA CurrentExecutes ==
  ASSUME FencedInv, NEW t \in Tasks, Current(t), ctl[t] # "done"
  PROVE  Holder = {t} /\ Executing = {t} /\ task[t].status = "running"
  <1>1. Holder = {t}
    BY DEF Current, Holder
  <1>2. t \in Executing
    BY <1>1 DEF FencedInv, OnlyFinishedLinger
  <1> QED BY <1>1, <1>2 DEF Executing

LEMMA SettleStep ==
  ASSUME FencedInv, NEW t \in Tasks, Current(t), ctl[t] \in Finalizing,
         NEW verdict \in {"task_completed", "task_failed"},
         NEW outcome \in {"ready", "failed"},
         Land(t, verdict, StatusOf(verdict)), runStatus' \in {Written(t, outcome), "completed"}
  PROVE  Settles(t, verdict)
  <1>1. TypeOK /\ ClaimActive /\ claim.task = t /\ ctl[t] # "done"
    BY DEF FencedInv, LeaseInv, Current, Finalizing
  <1>2. /\ ~ClaimActive' /\ claim'.version = claim.version + 1
        /\ task'[t].status = StatusOf(verdict) /\ OthersKept(t)
        /\ ledger' = ledger \cup {Event("claim_released", t, claim.version + 1),
                                  Event(verdict, t, 0)}
    BY <1>1, LandEffect DEF OthersKept
  <1>3. Holder' = {} /\ Executing' = {}
    BY <1>2 DEF Holder, Executing
  <1>4. runStatus' # "running"
    BY DEF FencedInv, SeenIsFresh, Written
  <1> QED BY <1>1, <1>2, <1>3, <1>4, CurrentExecutes DEF Settles, Ends

LEMMA FinishStep ==
  ASSUME FencedInv, NEW t \in Tasks, Current(t), FinalizeBounded(t)
  PROVE  \E verdict \in {"task_completed", "task_failed"} : Finishes(t, verdict)
  <1>1. TypeOK
    BY DEF FencedInv, LeaseInv
  <1>2. /\ ctl[t] # "done" /\ ctl' = [ctl EXCEPT ![t] = "done"]
        /\ claim' = claim /\ task[t].lane = "bounded"
    BY DEF FinalizeBounded
  <1>3. PICK verdict \in {"task_completed", "task_failed"} :
          /\ task' = [task EXCEPT ![t].status = StatusOf(verdict)]
          /\ runStatus' = StatusOf(verdict)
          /\ ledger' = ledger \cup {Event(verdict, t, 0)}
    <2>1. CASE ctl[t] = "success"
      BY <2>1, Zenon DEF FinalizeBounded, StatusOf
    <2>2. CASE ctl[t] = "failure"
      BY <2>2, Zenon DEF FinalizeBounded, StatusOf
    <2> QED BY <2>1, <2>2 DEF FinalizeBounded
  <1>4. /\ task'[t].status = StatusOf(verdict) /\ task'[t].lane = "bounded"
        /\ OthersKept(t) /\ ctl'[t] = "done"
    BY <1>1, <1>2, <1>3 DEF TypeOK, TaskRecords, OthersKept
  <1>5. Holder = {t} /\ Executing = {t} /\ task[t].status = "running"
    BY <1>2, CurrentExecutes
  <1>6. Holder' = {t}
    BY <1>2, <1>5 DEF Holder, ClaimActive
  <1>7. Executing' = {}
    BY <1>4, <1>6 DEF Executing, StatusOf
  <1> QED BY <1>2, <1>3, <1>4, <1>5, <1>6, <1>7 DEF Finishes, Ends, StatusOf

LEMMA ReclaimStep ==
  ASSUME FencedInv, Reclaim
  PROVE  \E t \in Tasks : Revokes(t) \/ Clears(t)
  <1>1. TypeOK /\ ClaimActive /\ claim.task \in Tasks
    BY DEF FencedInv, LeaseInv, ClaimNamesTask, Reclaim, Reclaimable
  <1>2. /\ Holder = {claim.task} /\ Holder' = {} /\ Executing' = {}
        /\ claim'.version = claim.version + 1
    BY <1>1, ReclaimEffect DEF Holder, Executing
  <1>3. CASE task[claim.task].status = "running"
    <2>1. Executing = {claim.task} /\ runStatus = "running"
      BY <1>2, <1>3 DEF Executing, FencedInv, StatusIsTruthful
    <2>2. ledger' = ledger \cup {Event("claim_reclaimed", claim.task, claim.version + 1),
                                 Event("task_reclaimed", claim.task, 0)}
      BY <1>1, <1>3, ReclaimEffect
    <2>3. /\ runStatus' = "ready" /\ OthersKept(claim.task)
          /\ task'[claim.task].status = StatusOf("task_reclaimed")
      BY <1>1, <1>3, <2>1, ReclaimEffect DEF OthersKept, StatusOf
    <2> QED BY <1>1, <1>2, <1>3, <2>1, <2>2, <2>3 DEF Revokes, Ends
  <1>4. CASE task[claim.task].status # "running"
    <2>1. Executing = {}
      BY <1>2, <1>4 DEF Executing
    <2>2. ledger' = ledger \cup {Event("claim_reclaimed", claim.task, claim.version + 1)}
      BY <1>1, <1>4, ReclaimEffect
    <2>3. UNCHANGED <<runStatus, task>>
      BY <1>1, <1>4, ReclaimEffect
    <2> QED BY <1>1, <1>2, <2>1, <2>2, <2>3 DEF Clears
  <1> QED BY <1>3, <1>4

\* Every fenced step is one of these.
LEMMA FencedCases ==
  ASSUME FencedInv, [FencedNext]_vars
  PROVE  \/ Quiet
         \/ \E t \in Tasks : Grants(t)
         \/ \E t \in Tasks, verdict \in {"task_completed", "task_failed"} : Settles(t, verdict)
         \/ \E t \in Tasks, verdict \in {"task_completed", "task_failed"} : Finishes(t, verdict)
         \/ \E t \in Tasks : Revokes(t) \/ Clears(t)
  <1>1. ASSUME NEW t \in Tasks, NEW lane \in Lanes, DispatchWorker(t), Acquire(t, lane)
        PROVE  Grants(t)
    BY <1>1, GrantStep DEF DispatchWorker, FencedInv, Undispatched
  <1>2. ASSUME NEW t \in Tasks, DispatchBounded(t) PROVE Grants(t)
    BY <1>2, GrantStep DEF DispatchBounded
  <1>3. ASSUME NEW t \in Tasks, LandSuccess(t) \/ LandFailure(t) \/ FinalizeBounded(t)
        PROVE  UNCHANGED vars \/ Current(t)
    BY <1>3 DEF FencedNext, Fenced, RecordsResult
  <1>4. ASSUME NEW t \in Tasks, LandSuccess(t), Current(t) PROVE Settles(t, "task_completed")
    <2>1. Land(t, "task_completed", StatusOf("task_completed"))
      BY <1>4 DEF LandSuccess, StatusOf
    <2> QED BY <1>4, <2>1, SettleStep DEF LandSuccess, Finalizing
  <1>5. ASSUME NEW t \in Tasks, LandFailure(t), Current(t) PROVE Settles(t, "task_failed")
    <2>1. Land(t, "task_failed", StatusOf("task_failed"))
      BY <1>5 DEF LandFailure, StatusOf
    <2> QED BY <1>5, <2>1, SettleStep DEF LandFailure, Finalizing
  <1>6. CASE UNCHANGED vars
    BY <1>6 DEF vars, Quiet
  <1> QED
    BY <1>1, <1>2, <1>3, <1>4, <1>5, <1>6, FinishStep, ReclaimStep, StepCases, FencedStepIsStep
    DEF FencedInv

-----------------------------------------------------------------------------
(* The invariant of fenced results.                                        *)

LEMMA DoneIsFinal ==
  ASSUME LeaseInv, [Next]_vars, NEW t \in Tasks, ctl[t] = "done"
  PROVE  ctl'[t] = "done"
  <1>0. ctl \in [Tasks -> Phases]
    BY DEF LeaseInv, TypeOK
  <1>1. CASE UNCHANGED vars \/ Tick
    BY <1>1 DEF vars, Tick
  <1>2. CASE Reclaim
    BY <1>2, ReclaimControllers
  <1>3. ASSUME NEW u \in Tasks, Step(u) PROVE ctl'[t] = "done"
    <2>1. CASE Route(u) \/ DispatchRefused(u) \/ WorkerReturns(u) \/ PersistenceFails(u) \/ Crash(u)
      BY <1>0, <2>1
      DEF Route, DispatchRefused, WorkerReturns, PersistenceFails, Crash, Alive, Finalizing
    <2>2. CASE CheckClaim(u) \/ Renew(u)
      BY <1>0, <2>2 DEF CheckClaim, Renew
    <2>3. CASE DispatchWorker(u) \/ DispatchBounded(u)
      <3>1. ctl[u] # "done" /\ \E lane \in Lanes : Acquire(u, lane)
        BY <2>3 DEF DispatchWorker, DispatchBounded
      <3> QED BY <3>1, AcquireControllers
    <2>4. CASE LandSuccess(u) \/ LandFailure(u) \/ FinalizeBounded(u)
      BY <1>0, <2>4 DEF LandSuccess, LandFailure, FinalizeBounded
    <2> QED BY <1>3, <2>1, <2>2, <2>3, <2>4 DEF Step
  <1> QED BY <1>1, <1>2, <1>3 DEF Next

LEMMA HoldStep ==
  ASSUME FencedInv, [FencedNext]_vars
  PROVE  OnlyFinishedLinger' /\ StatusIsTruthful'
  <1>0. /\ \A t \in Holder \ Executing : ctl[t] = "done" /\ task[t].lane = "bounded"
        /\ \A t \in Tasks : task[t].status = "running" <=> t \in Executing
        /\ runStatus = "running" <=> Executing # {}
    BY DEF FencedInv, OnlyFinishedLinger, StatusIsTruthful, TasksIn
  <1>1. Holder \subseteq Tasks
    BY DEF FencedInv, LeaseInv, ClaimNamesTask, Holder
  <1>2. \A t \in Tasks : ctl[t] = "done" => ctl'[t] = "done"
    BY DoneIsFinal, FencedStepIsStep DEF FencedInv
  <1> SUFFICES /\ \A t \in (Holder \ Executing)' : ctl'[t] = "done" /\ task'[t].lane = "bounded"
               /\ \A t \in Tasks : task'[t].status = "running" <=> t \in Executing'
               /\ runStatus' = "running" <=> Executing' # {}
    <2>1. ASSUME \A t \in Tasks : task'[t].status = "running" <=> t \in Executing'
          PROVE  TasksIn("running")' = Executing'
      <3>1. Executing' \subseteq Tasks
        BY LeaseStep, FencedStepIsStep
        DEF FencedInv, LeaseInv, ClaimNamesTask, Holder, Executing
      <3> QED BY <2>1, <3>1 DEF TasksIn
    <2> QED BY <2>1 DEF OnlyFinishedLinger, StatusIsTruthful
  <1>3. CASE Quiet
    <2>1. Holder' = Holder /\ Executing' = Executing
      BY <1>3 DEF Quiet, Holder, Executing, ClaimActive
    <2> QED BY <1>0, <1>1, <1>2, <1>3, <2>1 DEF Quiet
  <1>4. ASSUME NEW t \in Tasks, Grants(t)
        PROVE  /\ (Holder \ Executing)' = {} /\ Executing' = {t} /\ runStatus' = "running"
               /\ \A u \in Tasks : task'[u].status = "running" <=> u = t
    BY <1>0, <1>4 DEF Grants, OthersKept, Executing
  <1>5. ASSUME NEW t \in Tasks, NEW verdict, Ends(t, verdict)
        PROVE  /\ Executing' = {} /\ runStatus' # "running"
               /\ \A u \in Tasks : task'[u].status # "running"
    BY <1>0, <1>5 DEF Ends, OthersKept, StatusOf
  <1>6. ASSUME NEW t \in Tasks, NEW verdict, Settles(t, verdict) \/ Revokes(t)
        PROVE  (Holder \ Executing)' = {}
    BY <1>6 DEF Settles, Revokes
  <1>7. ASSUME NEW t \in Tasks, NEW verdict, Finishes(t, verdict)
        PROVE  \A u \in (Holder \ Executing)' : ctl'[u] = "done" /\ task'[u].lane = "bounded"
    BY <1>7 DEF Finishes
  <1>8. ASSUME NEW t \in Tasks, Clears(t)
        PROVE  /\ (Holder \ Executing)' = {} /\ Executing' = {} /\ runStatus' # "running"
               /\ \A u \in Tasks : task'[u].status # "running"
    BY <1>0, <1>8 DEF Clears
  <1>9. ASSUME NEW t \in Tasks, NEW verdict, Settles(t, verdict) \/ Finishes(t, verdict)
        PROVE  Ends(t, verdict)
    BY <1>9 DEF Settles, Finishes
  <1>10. ASSUME NEW t \in Tasks, Revokes(t) PROVE Ends(t, "task_reclaimed")
    BY <1>10 DEF Revokes
  <1> QED BY <1>3, <1>4, <1>5, <1>6, <1>7, <1>8, <1>9, <1>10, FencedCases

LEMMA FreeStep ==
  ASSUME FencedInv, [FencedNext]_vars
  PROVE  ReadyRunIsFree'
  <1>1. CASE Quiet
    BY <1>1 DEF Quiet, FencedInv, ReadyRunIsFree, ClaimActive
  <1>2. ASSUME NEW t \in Tasks, NEW verdict,
               Grants(t) \/ Finishes(t, verdict)
        PROVE  runStatus' # "ready"
    BY <1>2 DEF Grants, Finishes
  <1>3. ASSUME NEW t \in Tasks, NEW verdict,
               Settles(t, verdict) \/ Revokes(t) \/ Clears(t)
        PROVE  ~ClaimActive'
    BY <1>3 DEF Settles, Revokes, Clears, Holder
  <1> QED BY <1>1, <1>2, <1>3, FencedCases DEF ReadyRunIsFree

\* Only dispatch takes a controller on from idle or routed.
LEMMA UndispatchedStep ==
  ASSUME LeaseInv, Undispatched, [Next]_vars
  PROVE  Undispatched'
  <1>0. TypeOK /\ ClaimNamesTask /\ ctl \in [Tasks -> Phases]
    BY DEF LeaseInv, TypeOK
  <1> SUFFICES ASSUME NEW t \in Tasks, ctl'[t] \in {"idle", "routed"}
               PROVE  task'[t].status = "none"
    BY DEF Undispatched
  <1>1. CASE UNCHANGED vars
    BY <1>1 DEF vars, Undispatched
  <1>2. CASE Tick
    BY <1>2 DEF Tick, Undispatched
  <1>3. CASE Reclaim
    <2>1. claim.task \in Tasks
      BY <1>0, <1>3 DEF Reclaim, Reclaimable, ClaimNamesTask
    <2>2. ctl[t] \in {"idle", "routed"}
      BY <1>3, ReclaimControllers
    <2>3. task[t].status = "none"
      BY <2>2 DEF Undispatched
    <2> QED BY <1>0, <1>3, <2>1, <2>3, ReclaimEffect
  <1>4. ASSUME NEW u \in Tasks, Step(u) PROVE task'[t].status = "none"
    <2>1. CASE Route(u) \/ DispatchRefused(u) \/ WorkerReturns(u) \/ PersistenceFails(u) \/ Crash(u)
      BY <1>0, <2>1
      DEF Route, DispatchRefused, WorkerReturns, PersistenceFails, Crash, Undispatched
    <2>2. CASE CheckClaim(u) \/ Renew(u)
      BY <1>0, <2>2 DEF CheckClaim, Renew, Undispatched
    <2>3. ASSUME NEW lane \in Lanes, Acquire(u, lane) PROVE task'[t].status = "none"
      <3>1. t # u /\ ctl[t] \in {"idle", "routed"}
        BY <2>3, AcquireControllers
      <3> QED BY <2>3, <3>1, AcquireEffect DEF Undispatched
    <2>4. CASE DispatchWorker(u) \/ DispatchBounded(u)
      BY <2>3, <2>4 DEF DispatchWorker, DispatchBounded
    <2>5. CASE LandSuccess(u) \/ LandFailure(u)
      <3>1. t # u /\ ctl[t] \in {"idle", "routed"}
        BY <1>0, <2>5 DEF LandSuccess, LandFailure
      <3> QED BY <1>0, <2>5, <3>1, LandEffect DEF LandSuccess, LandFailure, Undispatched
    <2>6. CASE FinalizeBounded(u)
      <3>1. t # u /\ ctl[t] \in {"idle", "routed"}
        BY <1>0, <2>6 DEF FinalizeBounded
      <3> QED BY <1>0, <2>6, <3>1 DEF FinalizeBounded, Undispatched, TypeOK
    <2> QED BY <1>4, <2>1, <2>2, <2>4, <2>5, <2>6 DEF Step
  <1> QED BY <1>1, <1>2, <1>3, <1>4 DEF Next

LEMMA FencedInit == Init => FencedInv
  <1> SUFFICES ASSUME Init PROVE FencedInv
    OBVIOUS
  <1>1. LeaseInv /\ SeenIsFresh /\ ReadyRunIsFree /\ Undispatched
    BY LeaseInit DEF Init, SeenIsFresh, Finalizing, ReadyRunIsFree, ClaimActive, Undispatched
  <1>2. Holder = {} /\ Executing = {}
    BY DEF Init, Holder, Executing, ClaimActive
  <1>3. OnlyFinishedLinger /\ StatusIsTruthful
    BY <1>2 DEF Init, OnlyFinishedLinger, StatusIsTruthful, TasksIn
  <1> QED BY <1>1, <1>3 DEF FencedInv

LEMMA FencedIsEveryInterleavings == FencedSpec => Spec
  BY FencedStepIsStep, PTL DEF FencedSpec, Spec

LEMMA FencedInvariant == FencedSpec => []FencedInv
  <1>1. FencedInv /\ [FencedNext]_vars => FencedInv'
    BY LeaseStep, SeenStep, FreeStep, HoldStep, UndispatchedStep, FencedStepIsStep DEF FencedInv
  <1> QED BY <1>1, FencedInit, PTL DEF FencedSpec

\* As long as results are recorded under the claim only, and whatever expires,
\* crashes or returns late, the run's status says truthfully whether a task
\* executes in any lane, and only a bounded task leaves its claim behind.
THEOREM FencedStatusIsTruthful == FencedSpec => []StatusIsTruthful
  <1>1. FencedInv => StatusIsTruthful
    BY DEF FencedInv
  <1> QED BY FencedInvariant, <1>1, PTL

-----------------------------------------------------------------------------
(* The ledger.                                                             *)

\* How the verdicts on record grow.
LEMMA QuietVerdicts ==
  ASSUME Quiet, NEW events \in SUBSET Verdicts
  PROVE  TasksWith(events)' = TasksWith(events)
  BY DEF Quiet, TasksWith, Verdicts

LEMMA ClaimEventVerdicts ==
  ASSUME NEW events \in SUBSET Verdicts, NEW t \in Tasks, NEW n, NEW kind \in ClaimEvents,
         ledger' = ledger \cup {Event(kind, t, n)}
  PROVE  TasksWith(events)' = TasksWith(events)
  BY DEF TasksWith, Verdicts, ClaimEvents, Event

LEMMA NewVerdict ==
  ASSUME NEW events \in SUBSET Verdicts, NEW t \in Tasks, NEW verdict \in Verdicts,
         ledger \cup {Event(verdict, t, 0)} \subseteq ledger',
         \A e \in ledger' : e \in ledger \/ e.event \in ClaimEvents \/ e = Event(verdict, t, 0)
  PROVE  TasksWith(events)' = TasksWith(events) \cup (IF verdict \in events THEN {t} ELSE {})
  <1>1. \A e \in ledger' : e.event \in events => e \in ledger \/ e = Event(verdict, t, 0)
    BY DEF ClaimEvents, Verdicts
  <1>2. Event(verdict, t, 0).event = verdict /\ Event(verdict, t, 0).task = t
    BY DEF Event
  <1>3. ASSUME NEW u \in Tasks
        PROVE  (\E e \in ledger' : e.task = u /\ e.event \in events)
               <=> \/ \E e \in ledger : e.task = u /\ e.event \in events
                   \/ u = t /\ verdict \in events
    BY <1>1, <1>2
  <1> QED BY <1>3 DEF TasksWith

\* What an end writes to the ledger.
LEMMA EndIsRecorded ==
  ASSUME NEW t \in Tasks, NEW verdict \in Verdicts,
         Settles(t, verdict) \/ Finishes(t, verdict)
           \/ (Revokes(t) /\ verdict = "task_reclaimed")
  PROVE  /\ Ends(t, verdict)
         /\ ledger \cup {Event(verdict, t, 0)} \subseteq ledger'
         /\ \A e \in ledger' : e \in ledger \/ e.event \in ClaimEvents \/ e = Event(verdict, t, 0)
  <1>1. \A kind \in ClaimEvents, n \in {claim.version + 1} : Event(kind, t, n).event \in ClaimEvents
    BY DEF Event
  <1>2. "claim_released" \in ClaimEvents /\ "claim_reclaimed" \in ClaimEvents
    BY DEF ClaimEvents
  <1>3. \E kind \in ClaimEvents :
          \/ ledger' = ledger \cup {Event(kind, t, claim.version + 1), Event(verdict, t, 0)}
          \/ ledger' = ledger \cup {Event(verdict, t, 0)}
    BY <1>2 DEF Settles, Finishes, Revokes
  <1>4. Ends(t, verdict)
    BY DEF Settles, Finishes, Revokes
  <1> QED BY <1>1, <1>3, <1>4

LEMMA LedgerStep ==
  ASSUME FencedInv, LedgerTellsOneStory, [FencedNext]_vars
  PROVE  LedgerTellsOneStory'
  <1> DEFINE Completed == {"task_completed"}
             Failed    == {"task_failed"}
             Reclaimed == {"task_reclaimed"}
             NotDone   == {"task_failed", "task_reclaimed"}
             Same(events) == TasksWith(events)' = TasksWith(events)
  <1>0. Completed \in SUBSET Verdicts /\ Failed \in SUBSET Verdicts
        /\ Reclaimed \in SUBSET Verdicts /\ NotDone \in SUBSET Verdicts
    BY DEF Verdicts
  <1>1. /\ TasksWith(Completed) = TasksIn("completed")
        /\ TasksWith(NotDone) = TasksIn("failed")
        /\ TasksWith(Failed) \cap TasksWith(Reclaimed) = {}
    BY DEF LedgerTellsOneStory
  <1>2. TasksWith(NotDone) = TasksWith(Failed) \cup TasksWith(Reclaimed)
    BY DEF TasksWith
  <1>3. ASSUME \A t \in Tasks : \/ task'[t] = task[t]
                                \/ task[t].status = "none" /\ task'[t].status = "running",
               Same(Completed), Same(Failed), Same(Reclaimed), Same(NotDone)
        PROVE  LedgerTellsOneStory'
    <2>1. TasksIn("completed")' = TasksIn("completed") /\ TasksIn("failed")' = TasksIn("failed")
      BY <1>3 DEF TasksIn
    <2> QED BY <1>1, <1>3, <2>1 DEF LedgerTellsOneStory
  <1>4. CASE Quiet
    <2>1. Same(Completed) /\ Same(Failed) /\ Same(Reclaimed) /\ Same(NotDone)
      BY <1>0, <1>4, QuietVerdicts
    <2> QED BY <1>3, <1>4, <2>1 DEF Quiet
  <1>5. ASSUME NEW t \in Tasks, Grants(t) \/ Clears(t) PROVE LedgerTellsOneStory'
    <2>1. PICK kind \in ClaimEvents :
            ledger' = ledger \cup {Event(kind, t, claim.version + 1)}
      BY <1>5 DEF Grants, Clears, ClaimEvents
    <2>2. Same(Completed) /\ Same(Failed) /\ Same(Reclaimed) /\ Same(NotDone)
      BY <1>0, <2>1, ClaimEventVerdicts
    <2>3. \A u \in Tasks : \/ task'[u] = task[u]
                           \/ task[u].status = "none" /\ task'[u].status = "running"
      BY <1>5 DEF Grants, Clears, OthersKept
    <2> QED BY <1>3, <2>2, <2>3
  \* A verdict on a running task moves the task and its record together.
  <1>6. ASSUME NEW t \in Tasks, NEW verdict \in Verdicts, Ends(t, verdict),
               ledger \cup {Event(verdict, t, 0)} \subseteq ledger',
               \A e \in ledger' : e \in ledger \/ e.event \in ClaimEvents
                                    \/ e = Event(verdict, t, 0)
        PROVE  LedgerTellsOneStory'
    <2> DEFINE New(events) == IF verdict \in events THEN {t} ELSE {}
    <2>1. /\ TasksWith(Completed)' = TasksWith(Completed) \cup New(Completed)
          /\ TasksWith(Failed)' = TasksWith(Failed) \cup New(Failed)
          /\ TasksWith(Reclaimed)' = TasksWith(Reclaimed) \cup New(Reclaimed)
          /\ TasksWith(NotDone)' = TasksWith(NotDone) \cup New(NotDone)
      BY <1>0, <1>6, NewVerdict
    <2>2. /\ TasksIn("completed")' = TasksIn("completed") \cup New(Completed)
          /\ TasksIn("failed")' = TasksIn("failed") \cup New(NotDone)
      BY <1>6 DEF TasksIn, Verdicts, Ends, OthersKept, StatusOf
    <2>3. t \notin TasksWith(Failed) /\ t \notin TasksWith(Reclaimed)
      BY <1>1, <1>2, <1>6 DEF TasksIn, Ends
    <2>4. TasksWith(Failed)' \cap TasksWith(Reclaimed)' = {}
      BY <1>1, <2>1, <2>3
    <2> QED BY <1>1, <2>1, <2>2, <2>4 DEF LedgerTellsOneStory
  <1>7. ASSUME NEW t \in Tasks, NEW verdict \in {"task_completed", "task_failed"},
               Settles(t, verdict) \/ Finishes(t, verdict)
        PROVE  LedgerTellsOneStory'
    <2>1. verdict \in Verdicts
      BY DEF Verdicts
    <2> QED BY <1>6, <1>7, <2>1, EndIsRecorded
  <1>8. ASSUME NEW t \in Tasks, Revokes(t) PROVE LedgerTellsOneStory'
    <2>1. "task_reclaimed" \in Verdicts
      BY DEF Verdicts
    <2> QED BY <1>6, <1>8, <2>1, EndIsRecorded
  <1> HIDE DEF Completed, Failed, Reclaimed, NotDone, Same
  <1> QED BY <1>4, <1>5, <1>7, <1>8, FencedCases

LEMMA LedgerInvariant == FencedSpec => []LedgerTellsOneStory
  <1>1. Init => LedgerTellsOneStory
    BY DEF Init, LedgerTellsOneStory, TasksWith, TasksIn
  <1>2. FencedInv /\ LedgerTellsOneStory /\ [FencedNext]_vars => LedgerTellsOneStory'
    BY LedgerStep
  <1> QED BY <1>1, <1>2, FencedInvariant, PTL DEF FencedSpec

\* In all lanes, the append-only events tell of every task what its row says,
\* and no failure twice, as long as results are recorded under the claim only.
THEOREM FencedLedgerIsTruthful == FencedSpec => []LedgerTellsOneStory
  BY LedgerInvariant

-----------------------------------------------------------------------------
(* Refinement, in all lanes.                                               *)

LEMMA GivenLeaseStep ==
  ASSUME FencedInv, LedgerTellsOneStory, [FencedNext]_vars
  PROVE  [Given!Next]_(Given!vars)
  <1> DEFINE Done == {"task_completed", "task_failed"}
             Gone == {"task_reclaimed"}
             Fence == IF Holder = Executing THEN claim.version ELSE NextToken
  <1>0. Done \in SUBSET Verdicts /\ Gone \in SUBSET Verdicts /\ claim.version \in Nat
    BY DEF Verdicts, FencedInv, LeaseInv, TypeOK, Claims
  <1>1. ASSUME NEW t \in Tasks, task[t].status = "none"
        PROVE  t \notin TasksWith(Done) \cup TasksWith(Gone)
    <2>1. t \notin TasksWith({"task_completed"})
          /\ t \notin TasksWith({"task_failed", "task_reclaimed"})
      BY <1>1 DEF LedgerTellsOneStory, TasksIn
    <2> QED BY <2>1 DEF TasksWith
  <1>2. CASE Quiet
    <2>1. Holder' = Holder /\ Executing' = Executing /\ claim'.version = claim.version
      BY <1>2 DEF Quiet, Holder, Executing, ClaimActive
    <2>2. TasksWith(Done)' = TasksWith(Done) /\ TasksWith(Gone)' = TasksWith(Gone)
      BY <1>0, <1>2, QuietVerdicts
    <2>3. Fence' = Fence
      BY <2>1 DEF NextToken
    <2> QED BY <2>1, <2>2, <2>3 DEF Given!vars
  <1>3. ASSUME NEW t \in Tasks, Grants(t) PROVE Given!Grant(t)
    <2>1. TasksWith(Done)' = TasksWith(Done) /\ TasksWith(Gone)' = TasksWith(Gone)
      BY <1>0, <1>3, ClaimEventVerdicts DEF Grants, ClaimEvents
    <2>2. Executing = {} /\ Executing' = {t}
      BY <1>3 DEF Grants, Executing
    <2>3. Fence' = Fence + 1
      BY <1>3, <2>2 DEF Grants
    <2> QED BY <1>1, <1>3, <2>1, <2>2, <2>3 DEF Grants, Given!Grant
  \* An end is a settlement or a revocation; the fence moves with it.
  <1>4. ASSUME NEW t \in Tasks, NEW verdict,
               Settles(t, verdict) \/ Finishes(t, verdict) \/ Revokes(t)
        PROVE  Executing = {t} /\ Executing' = {} /\ Fence' = Fence + 1
    <2>1. Holder = {t} /\ Executing = {t} /\ Executing' = {}
      BY <1>4 DEF Settles, Finishes, Revokes, Ends
    <2>2. \/ Holder' = {} /\ claim'.version = claim.version + 1
          \/ Holder' = {t} /\ claim'.version = claim.version
      BY <1>4 DEF Settles, Finishes, Revokes
    <2> QED BY <2>1, <2>2 DEF NextToken
  <1>5. ASSUME NEW t \in Tasks, NEW verdict \in Verdicts,
               ledger \cup {Event(verdict, t, 0)} \subseteq ledger',
               \A e \in ledger' : e \in ledger \/ e.event \in ClaimEvents
                                    \/ e = Event(verdict, t, 0)
        PROVE  /\ TasksWith(Done)' = TasksWith(Done) \cup (IF verdict \in Done THEN {t} ELSE {})
               /\ TasksWith(Gone)' = TasksWith(Gone) \cup (IF verdict \in Gone THEN {t} ELSE {})
    BY <1>0, <1>5, NewVerdict
  <1>6. ASSUME NEW t \in Tasks, NEW verdict \in {"task_completed", "task_failed"},
               Settles(t, verdict) \/ Finishes(t, verdict)
        PROVE  Given!Settle(t)
    <2>1. verdict \in Verdicts /\ verdict \in Done /\ verdict \notin Gone
      BY DEF Verdicts
    <2>2. TasksWith(Done)' = TasksWith(Done) \cup {t} /\ TasksWith(Gone)' = TasksWith(Gone)
      BY <1>5, <1>6, <2>1, EndIsRecorded
    <2> QED BY <1>4, <1>6, <2>2 DEF Given!Settle
  <1>7. ASSUME NEW t \in Tasks, Revokes(t) PROVE Given!Revoke(t)
    <2>1. "task_reclaimed" \in Verdicts /\ "task_reclaimed" \in Gone /\ "task_reclaimed" \notin Done
      BY DEF Verdicts
    <2>2. TasksWith(Done)' = TasksWith(Done) /\ TasksWith(Gone)' = TasksWith(Gone) \cup {t}
      BY <1>5, <1>7, <2>1, EndIsRecorded
    <2> QED BY <1>4, <1>7, <2>2 DEF Given!Revoke
  <1>8. ASSUME NEW t \in Tasks, Clears(t) PROVE UNCHANGED Given!vars
    <2>1. TasksWith(Done)' = TasksWith(Done) /\ TasksWith(Gone)' = TasksWith(Gone)
      BY <1>0, <1>8, ClaimEventVerdicts DEF Clears, ClaimEvents
    <2>2. Executing' = Executing /\ Fence' = Fence
      BY <1>8 DEF Clears, NextToken
    <2> QED BY <2>1, <2>2 DEF Given!vars
  <1> QED BY <1>2, <1>3, <1>6, <1>7, <1>8, FencedCases DEF Given!Next

\* In all lanes, the claim is a fenced lease as long as results are recorded
\* under it only: one task at a time, granted the run once, settled or revoked.
THEOREM FencedClaimImplementsLease == FencedSpec => ImplementsLeaseInAllLanes
  <1>1. Init => Given!Init
    BY DEF Init, Given!Init, Holder, Executing, ClaimActive, TasksWith
  <1>2. FencedInv /\ LedgerTellsOneStory /\ [FencedNext]_vars => [Given!Next]_(Given!vars)
    BY GivenLeaseStep
  <1> QED BY FencedInvariant, LedgerInvariant, <1>1, <1>2, PTL
          DEF FencedSpec, ImplementsLeaseInAllLanes, Given!Spec

-----------------------------------------------------------------------------
(* Serialised finalizers on the worker lanes are fenced.                   *)

\* A controller between its finalizer's check and its commit still holds the
\* claim it checked.
FinalizersAreCurrent == \A t \in Tasks : ctl[t] \in Finalizing => Current(t)

LEMMA SerialStepIsStep == [SerialNext]_vars => [Next]_vars
  BY DEF SerialNext

\* A finalizer entered by its check is left by the next step.
LEMMA FinalizersStep ==
  ASSUME LeaseInv, FinalizersAreCurrent, [SerialNext]_vars
  PROVE  FinalizersAreCurrent'
  <1> SUFFICES ASSUME NEW t \in Tasks, ctl'[t] \in Finalizing
               PROVE  Current(t)'
    BY DEF FinalizersAreCurrent
  <1>1. CASE UNCHANGED vars
    BY <1>1 DEF FinalizersAreCurrent, vars, Current, ClaimActive
  <1>2. CASE SerialNext
    <2>1. ctl'[t] # ctl[t]
      BY <1>2 DEF SerialNext, Serialised
    <2>2. CheckClaim(t) /\ Current(t)
      BY <2>1, EnterFinalizing, SerialStepIsStep
    <2> QED BY <2>2 DEF CheckClaim, Current, ClaimActive
  <1> QED BY <1>1, <1>2

LEMMA SerialInvariant ==
  ASSUME Lanes \subseteq WorkerLanes
  PROVE  SerialSpec => [](LeaseInv /\ OnlyWorkers /\ FinalizersAreCurrent)
  <1>1. SerialSpec => Spec
    BY SerialStepIsStep, PTL DEF SerialSpec, Spec
  <1>2. Init => OnlyWorkers /\ FinalizersAreCurrent
    BY DEF Init, OnlyWorkers, FinalizersAreCurrent, Finalizing
  <1>3. LeaseInv /\ OnlyWorkers /\ [SerialNext]_vars => OnlyWorkers'
    BY OnlyWorkersStep, SerialStepIsStep
  <1>4. LeaseInv /\ FinalizersAreCurrent /\ [SerialNext]_vars => FinalizersAreCurrent'
    BY FinalizersStep
  <1> QED BY <1>1, <1>2, <1>3, <1>4, LeaseInvariant, PTL DEF SerialSpec

\* On the worker lanes the finalizers' check of the claim is all it takes: as
\* long as nothing commits between the check and the commit, every result is
\* recorded under the claim.
THEOREM SerialWorkersAreFenced ==
  ASSUME Lanes \subseteq WorkerLanes
  PROVE  SerialSpec => FencedSpec
  <1>1. LeaseInv /\ OnlyWorkers /\ FinalizersAreCurrent /\ [SerialNext]_vars => [FencedNext]_vars
    <2> SUFFICES ASSUME OnlyWorkers, FinalizersAreCurrent, SerialNext,
                        NEW t \in Tasks, RecordsResult(t)
                 PROVE  Current(t)
      BY DEF SerialNext, FencedNext, Fenced
    <2>1. ~FinalizeBounded(t)
      BY DEF FinalizeBounded, OnlyWorkers
    <2> QED BY <2>1 DEF RecordsResult, LandSuccess, LandFailure, FinalizersAreCurrent, Finalizing
  <1> QED BY <1>1, SerialInvariant, PTL DEF SerialSpec, FencedSpec

\* Without bounded tasks no claim is left behind.
LEMMA WorkersLeaveNothingBehind ==
  ASSUME FencedInv, OnlyWorkers
  PROVE  Holder = Executing
  <1>1. Holder \subseteq Tasks
    BY DEF FencedInv, LeaseInv, ClaimNamesTask, Holder
  <1> QED BY <1>1 DEF FencedInv, StatusIsTruthful, OnlyWorkers, Executing

LEMMA SerialIsFenced ==
  ASSUME Lanes \subseteq WorkerLanes
  PROVE  SerialSpec => [](FencedInv /\ OnlyWorkers)
  BY SerialWorkersAreFenced, SerialInvariant, FencedInvariant, PTL

\* As long as nothing commits between a finalizer's check and its commit, a
\* run never executes on two workers, whatever expires, crashes or returns
\* late, and its status says truthfully whether it executes.
THEOREM ExecutionIsExclusive ==
  ASSUME Lanes \subseteq WorkerLanes
  PROVE  SerialSpec => []ExclusiveExecution
  <1>1. FencedInv /\ OnlyWorkers => ExclusiveExecution
    <2>1. Holder # {} <=> ClaimActive
      BY DEF Holder
    <2> QED BY <2>1, WorkersLeaveNothingBehind
            DEF FencedInv, StatusIsTruthful, ExclusiveExecution
  <1> QED BY SerialIsFenced, <1>1, PTL

\* The ledger tells of every task what the task's row says.
THEOREM LedgerIsTruthful ==
  ASSUME Lanes \subseteq WorkerLanes
  PROVE  SerialSpec => []LedgerTellsOneStory
  BY SerialWorkersAreFenced, FencedLedgerIsTruthful, PTL

\* A dispatched task's status changes only while the task holds the claim.
THEOREM LateResultsAreRejected ==
  ASSUME Lanes \subseteq WorkerLanes
  PROVE  SerialSpec => LateResultsRejected
  <1> DEFINE Guarded == \A t \in Tasks : task[t].status # "none"
                          /\ task'[t].status # task[t].status => t \in Holder
  <1>1. ASSUME FencedInv, [FencedNext]_vars PROVE Guarded
    <2>1. CASE Quiet
      BY <2>1 DEF Quiet
    <2>2. ASSUME NEW t \in Tasks, Grants(t) \/ Clears(t) PROVE Guarded
      BY <2>2 DEF Grants, Clears, OthersKept
    <2>3. ASSUME NEW t \in Tasks, NEW verdict, Ends(t, verdict) PROVE Guarded
      BY <2>3 DEF Ends, OthersKept
    <2>4. ASSUME NEW t \in Tasks, NEW verdict,
                 Settles(t, verdict) \/ Finishes(t, verdict) \/ Revokes(t)
          PROVE  Guarded
      BY <2>3, <2>4 DEF Settles, Finishes, Revokes
    <2> QED BY <1>1, <2>1, <2>2, <2>4, FencedCases
  <1>2. FencedInv /\ [FencedNext]_vars => [Guarded]_vars
    BY <1>1
  <1> QED BY SerialWorkersAreFenced, FencedInvariant, <1>2, PTL
          DEF FencedSpec, LateResultsRejected

\* The claim row, its transactions and its heartbeats implement the fenced
\* lease: one holder, a fence that only moves forward, one grant per task,
\* and a result or a revocation for it but never both.
THEOREM ClaimImplementsLease ==
  ASSUME Lanes \subseteq WorkerLanes
  PROVE  SerialSpec => ImplementsLease
  <1> DEFINE Plain == Holder = Executing
  <1>1. FencedInv /\ OnlyWorkers => Plain
    BY WorkersLeaveNothingBehind
  <1>2. Plain /\ Plain' /\ [Given!Next]_(Given!vars) => [Lease!Next]_(Lease!vars)
    BY DEF Given!Next, Given!vars, Given!Grant, Given!Settle, Given!Revoke,
           Lease!Next, Lease!vars, Lease!Grant, Lease!Settle, Lease!Revoke
  <1>3. Plain /\ Given!Init => Lease!Init
    BY DEF Given!Init, Lease!Init
  <1>4. SerialSpec => Given!Spec
    BY SerialWorkersAreFenced, FencedClaimImplementsLease, PTL DEF ImplementsLeaseInAllLanes
  <1> QED BY SerialIsFenced, <1>1, <1>2, <1>3, <1>4, PTL
          DEF ImplementsLease, Lease!Spec, Given!Spec

=============================================================================
