---------------------------- MODULE ApprovalGate ----------------------------
(***************************************************************************)
(* The approval of one run: founders resolve it, the expiry sweep suspends *)
(* the run when nobody does, and every other mutation asks the status of   *)
(* the run first.  A founder and a sweeper are controller processes; a     *)
(* founder's command is one resolution, a sweeper repeats its command.     *)
(*                                                                         *)
(* Both read the approval without a lock and write it later without        *)
(* looking at it again.  The founder's command takes the run's row in      *)
(* between, by an UPDATE whose condition sees what is committed by then;   *)
(* the sweep reads the run without a lock as well.  A process that dies    *)
(* before its commit is one that takes no further step.                    *)
(*                                                                         *)
(* The execution behind the gate is ExecutionClaim's, reduced to whether   *)
(* the claim of the run is in a founder's way.                             *)
(*                                                                         *)
(* A definition marked "fault" is a plausible bug in the one after it and  *)
(* not part of the specification.                                          *)
(***************************************************************************)
EXTENDS Integers, Sequences

CONSTANTS
  Founders,  \* processes that resolve the approval
  Sweepers   \* processes that expire overdue approvals

VARIABLES
  runStatus,   \* RunRecord.status
  approval,    \* ApprovalRecord.status
  overdue,     \* ApprovalRecord.expires_at has passed
  claim,       \* the run's claim: none, live, lapsed (not reclaimed), landed
  recorded,    \* what was recorded for the run: work, proposals, audit evidence
  founder,     \* where each founder's command stands
  sweeper,     \* where each sweep stands, with what it read of the run
  resolutions  \* APPROVAL_RESOLVED events in the order of their commits

vars == <<runStatus, approval, overdue, claim, recorded, founder, sweeper, resolutions>>

RunStatuses == {"waiting_approval", "suspended", "ready", "rejected",
                "running", "completed", "failed"}
Verdicts == {"approved", "rejected", "expired"}

TypeOK ==
  /\ runStatus \in RunStatuses
  /\ approval \in Verdicts \cup {"pending"}
  /\ overdue \in BOOLEAN
  /\ claim \in {"none", "live", "lapsed", "landed"}
  /\ recorded \in SUBSET {"work", "proposal", "audit"}
  /\ founder \in [Founders -> {"idle", "resolving", "resolved", "refused"}]
  /\ sweeper \in [Sweepers -> {"idle", "expiring", "suspending", "keeping"}]
  /\ resolutions \in Seq(Verdicts)

\* A submitted run waits for the approval that was created with it.
Init ==
  /\ runStatus = "waiting_approval"
  /\ approval = "pending"
  /\ overdue = FALSE
  /\ claim = "none"
  /\ recorded = {"audit"}
  /\ founder = [f \in Founders |-> "idle"]
  /\ sweeper = [s \in Sweepers |-> "idle"]
  /\ resolutions = <<>>

\* Fault: a suspended run passes like any other.
GuardForgetsSuspended(allowWaiting, allowSuspended) ==
  allowWaiting \/ runStatus # "waiting_approval"
\* The condition of the UPDATE that opens a mutation of the run.
StatusGuard(allowWaiting, allowSuspended) ==
  /\ allowWaiting \/ runStatus # "waiting_approval"
  /\ allowSuspended \/ runStatus # "suspended"

\* Fault: a resolution does not ask for the claim.
AnyClaim == TRUE
NoLiveClaim == claim # "live"

StatusAfter(verdict) == IF verdict = "approved" THEN "ready" ELSE "rejected"

-----------------------------------------------------------------------------
(* The founder's command.                                                  *)

FounderReads(f) ==
  /\ founder[f] = "idle"
  /\ founder' = [founder EXCEPT ![f] =
                   IF approval = "pending" THEN "resolving" ELSE "refused"]
  /\ UNCHANGED <<runStatus, approval, overdue, claim, recorded, sweeper, resolutions>>

\* A lapsed claim in the way is reclaimed; the verdict then decides the run.
FounderResolves(f, verdict) ==
  /\ founder[f] = "resolving"
  /\ StatusGuard(TRUE, FALSE)
  /\ NoLiveClaim
  /\ approval' = verdict
  /\ runStatus' = StatusAfter(verdict)
  /\ claim' = IF claim = "lapsed" THEN "none" ELSE claim
  /\ resolutions' = Append(resolutions, verdict)
  /\ founder' = [founder EXCEPT ![f] = "resolved"]
  /\ UNCHANGED <<overdue, recorded, sweeper>>

FounderRefused(f) ==
  /\ founder[f] = "resolving"
  /\ ~(StatusGuard(TRUE, FALSE) /\ NoLiveClaim)
  /\ founder' = [founder EXCEPT ![f] = "refused"]
  /\ UNCHANGED <<runStatus, approval, overdue, claim, recorded, sweeper, resolutions>>

-----------------------------------------------------------------------------
(* The expiry sweep.                                                       *)

\* expires_at passes.
FallsDue ==
  /\ ~overdue
  /\ overdue' = TRUE
  /\ UNCHANGED <<runStatus, approval, claim, recorded, founder, sweeper, resolutions>>

\* Fault: the sweep does not ask whether the approval is still open.
SelectsResolved == overdue
\* Fault: the sweep skips an approval that a founder has open.
SelectsUnattended == /\ approval = "pending" /\ overdue
                     /\ \A f \in Founders : founder[f] # "resolving"
Selected == approval = "pending" /\ overdue

SweepSelects(s) ==
  /\ sweeper[s] = "idle"
  /\ Selected
  /\ sweeper' = [sweeper EXCEPT ![s] = "expiring"]
  /\ UNCHANGED <<runStatus, approval, overdue, claim, recorded, founder, resolutions>>

\* The other overdue approvals of the sweep may come in between.
SweepReadsRun(s) ==
  /\ sweeper[s] = "expiring"
  /\ sweeper' = [sweeper EXCEPT ![s] =
                   IF runStatus = "waiting_approval" THEN "suspending" ELSE "keeping"]
  /\ UNCHANGED <<runStatus, approval, overdue, claim, recorded, founder, resolutions>>

\* Fault: the sweep closes the approval and leaves the run alone.
SuspendsNone(s) == FALSE
Suspends(s) == sweeper[s] = "suspending"

SweepCommits(s) ==
  /\ sweeper[s] \in {"suspending", "keeping"}
  /\ approval' = "expired"
  /\ runStatus' = IF Suspends(s) THEN "suspended" ELSE runStatus
  /\ resolutions' = Append(resolutions, "expired")
  /\ recorded' = recorded \cup {"audit"}
  /\ sweeper' = [sweeper EXCEPT ![s] = "idle"]
  /\ UNCHANGED <<overdue, claim, founder>>

-----------------------------------------------------------------------------
(* What the gate lets through.                                             *)

\* A decision, or an observation of anything but an audit or an escalation.
RecordWork ==
  /\ StatusGuard(FALSE, FALSE)
  /\ recorded' = recorded \cup {"work"}
  /\ UNCHANGED <<runStatus, approval, overdue, claim, founder, sweeper, resolutions>>

\* An accepted proposal of a planner, for which the gate stands open: what it
\* proposes may be to have the approval resolved.  (Which proposals are
\* accepted is PlannerLoop's.)
RecordProposal ==
  /\ StatusGuard(TRUE, FALSE)
  /\ recorded' = recorded \cup {"proposal"}
  /\ UNCHANGED <<runStatus, approval, overdue, claim, founder, sweeper, resolutions>>

\* Fault: the dispatch asks the general guard instead of a READY run.
OpenForDispatch == StatusGuard(FALSE, FALSE) /\ claim = "none"
\* A claim that landed left a patch intake, and no execution is offered.
Dispatchable == runStatus = "ready" /\ claim = "none"

Dispatch ==
  /\ Dispatchable
  /\ runStatus' = "running"
  /\ claim' = "live"
  /\ UNCHANGED <<approval, overdue, recorded, founder, sweeper, resolutions>>

LeaseLapses ==
  /\ claim = "live"
  /\ claim' = "lapsed"
  /\ UNCHANGED <<runStatus, approval, overdue, recorded, founder, sweeper, resolutions>>

Reclaim ==
  /\ claim = "lapsed"
  /\ claim' = "none"
  /\ runStatus' = IF runStatus = "running" THEN "ready" ELSE runStatus
  /\ UNCHANGED <<approval, overdue, recorded, founder, sweeper, resolutions>>

\* A worker's finalizer looks at the claim and never at the status it
\* overwrites.  (The bounded executor, which keeps its claim, is left out, and
\* so is the result that lands after a reclaim: these are ExecutionClaim's.)
ResultLands ==
  /\ claim \in {"live", "lapsed"}
  /\ \/ /\ claim' = "landed"
        /\ runStatus' \in {"ready", "completed"}
     \/ /\ claim' = "none"
        /\ runStatus' = "failed"
  /\ UNCHANGED <<approval, overdue, recorded, founder, sweeper, resolutions>>

-----------------------------------------------------------------------------
Next ==
  \/ \E f \in Founders :
       \/ FounderReads(f) \/ FounderRefused(f)
       \/ \E verdict \in {"approved", "rejected"} : FounderResolves(f, verdict)
  \/ \E s \in Sweepers : SweepSelects(s) \/ SweepReadsRun(s) \/ SweepCommits(s)
  \/ FallsDue \/ RecordWork \/ RecordProposal
  \/ Dispatch \/ LeaseLapses \/ Reclaim \/ ResultLands

\* Every interleaving of the transactions' statements.
Spec == Init /\ [][Next]_vars

\* The interleavings in which a command that has read the approval goes
\* through before anything else commits.
Serialised ==
  /\ \A f \in Founders : founder[f] = "resolving" => founder'[f] # "resolving"
  /\ \A s \in Sweepers : sweeper[s] # "idle" => sweeper'[s] # sweeper[s]
SerialNext == Next /\ Serialised
SerialSpec == Init /\ [][SerialNext]_vars

\* The interleavings in which whoever resolves the approval still finds it
\* pending, as a second read under the lock of the run would ensure.
ResolvesApproval ==
  \/ \E f \in Founders, verdict \in {"approved", "rejected"} : FounderResolves(f, verdict)
  \/ \E s \in Sweepers : SweepCommits(s)
CheckedNext == Next /\ (ResolvesApproval => approval = "pending")
CheckedSpec == Init /\ [][CheckedNext]_vars

\* Time passes and the sweep command keeps being run; founders owe nothing.
Fairness ==
  /\ WF_vars(FallsDue)
  /\ \A s \in Sweepers :
       WF_vars(SweepSelects(s) \/ SweepReadsRun(s) \/ SweepCommits(s))
FairSpec == Spec /\ Fairness

-----------------------------------------------------------------------------
(* Properties of every interleaving.                                       *)

Resolved(verdicts) == \E i \in DOMAIN resolutions : resolutions[i] \in verdicts

\* The two rows and the ledger agree on whether the run has been judged:
\* whoever overwrites whom, a run never waits for a decision that was made
\* and never leaves the gate undecided.
WaitsForItsApproval ==
  /\ runStatus = "waiting_approval" <=> approval = "pending"
  /\ approval = "pending" <=> resolutions = <<>>

\* Nothing passes the gate unjudged: no work is recorded before a founder has
\* spoken, and nothing is dispatched, or was, before a founder has approved.
\* A planner's proposal may come earlier; what it proposes may not be done.
NothingPassesUnjudged ==
  /\ "work" \in recorded => Resolved({"approved", "rejected"})
  /\ claim # "none" => Resolved({"approved"})

\* No verdict takes a run away from a task that is executing it, not even one
\* that was read before the dispatch; only the expiry sweep can.
ExecutionOutlivesVerdicts == claim = "live" => runStatus \in {"running", "suspended"}

\* An approval is resolved once.
ResolvedOnce == Len(resolutions) <= 1

(***************************************************************************)
(* Properties of serialised commands, and of checked resolutions.          *)
(***************************************************************************)

\* The run stands where its approval says: a rejected or expired one stays
\* rejected or suspended, and the rest of the life cycle is an approved run's.
RunFollowsVerdict ==
  /\ runStatus = "rejected" <=> approval = "rejected"
  /\ runStatus = "suspended" <=> approval = "expired"

\* One verdict, and execution under an approval only.
Verdict == INSTANCE FounderVerdict WITH
  verdict   <- approval,
  executing <- claim \in {"live", "lapsed"}
ImplementsVerdict == Verdict!Spec

(***************************************************************************)
(* Progress, when the sweep keeps being run.                               *)
(***************************************************************************)

\* No run waits for its founder for ever.
WaitingRunMovesOn == runStatus = "waiting_approval" ~> runStatus # "waiting_approval"

=============================================================================
