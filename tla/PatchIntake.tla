---------------------------- MODULE PatchIntake ----------------------------
(***************************************************************************)
(* The patches that the worker tasks of one approved run produce, and how  *)
(* they reach the workspace: a worker's result is recorded as an intake,   *)
(* which is applied at once when its risk is low or left for a founder to  *)
(* approve or reject.  An application looks at the base hashes, runs git   *)
(* apply, validates the result and takes a bad patch out again, all inside *)
(* a database transaction that the workspace is no part of.                *)
(*                                                                         *)
(* A founder's command reads intake and run without a lock and then locks  *)
(* the claim row until its commit; so do the finalizers and dispatches of  *)
(* tasks.  ORM sessions write changed columns only, so a status equal to   *)
(* the one that was read is not written.  The race between a finalizer's   *)
(* check of the claim and its lock is ExecutionClaim's subject and left    *)
(* out: a finalizer that finds its claim in force holds it.                *)
(*                                                                         *)
(* A file's content is the set of patches and outside edits it has taken;  *)
(* equal contents have equal hashes.  A definition marked "fault" is a     *)
(* plausible bug in the one after it and not part of the specification.    *)
(***************************************************************************)
EXTENDS Integers, Sequences, FiniteSets

CONSTANTS
  Tasks,        \* worker tasks, one per dispatching process
  Founders,     \* processes that review one intake each
  Nobody,       \* no task
  Files,        \* files the workers may change
  ModuleOf,     \* the module scope of each file's path
  BurstLimit,   \* _PATCH_AUTO_APPLY_BURST_LIMIT, 2 in the code
  RepairQuota   \* _PATCH_REPAIR_QUOTA_LIMIT, 3 in the code

ASSUME NobodyAssumption == Nobody \notin Tasks
ASSUME ProcessAssumption == Tasks \cap Founders = {}
ASSUME EditAssumption == "edit" \notin Tasks
ASSUME LimitAssumption == BurstLimit \in Nat /\ RepairQuota \in Nat \ {0}

VARIABLES
  runStatus,   \* RunRecord.status
  claim,       \* the task that holds the run's claim
  lapsed,      \* its lease has run out
  intake,      \* status and resolution code of each task's PatchIntakeRecord
  ledger,      \* resolutions in the event ledger, by task
  order,       \* tasks in the order in which their intakes were recorded
  recent,      \* intakes resolved within the policy window
  escalation,  \* the founder escalation of repeated repair failures
  changed,     \* changed_files of each task's patch
  base,        \* content of the workspace each worker started from
  workspace,   \* content of the source workspace
  torn,        \* patches whose application broke off with the patch in place
  stage,       \* where each process stands
  view         \* what each founder's session has read: an intake, the run's status

rows == <<runStatus, claim, lapsed, intake, ledger, order, recent, escalation>>
vars == <<rows, changed, base, workspace, torn, stage, view>>

Processes == Tasks \cup Founders
RunStatuses == {"ready", "running", "completed", "failed"}
Applied == {"auto_applied", "founder_approved"}
Repairable == {"base_hash_conflict", "apply_check_failed", "validation_failed"}
Rejected == Repairable \cup {"founder_rejected"}
Resolutions == Applied \cup Rejected
Contents == SUBSET (Tasks \cup {"edit"})

\* Stages of an application, from the lock on the claim to the commit.
Applying == {"approved", "clean", "patched", "invalid"}
\* A process that is done has ended in whatever way, a death included.
Stages == Applying \cup {"idle", "routed", "working", "failing", "read", "done"}

NothingRead == [task |-> Nobody, run |-> "ready"]

TypeOK ==
  /\ runStatus \in RunStatuses
  /\ claim \in Tasks \cup {Nobody}
  /\ lapsed \in BOOLEAN
  /\ intake \in [Tasks -> {"none", "pending"} \cup Resolutions]
  /\ ledger \in [Tasks -> SUBSET Resolutions]
  /\ order \in Seq(Tasks)
  /\ recent \in SUBSET Tasks
  /\ escalation \in {"none", "pending", "answered"}
  /\ changed \in [Tasks -> SUBSET Files]
  /\ base \in [Tasks -> [Files -> Contents]]
  /\ workspace \in [Files -> Contents]
  /\ torn \in SUBSET Tasks
  /\ stage \in [Processes -> Stages]
  /\ view \in [Founders -> [task : Tasks \cup {Nobody}, run : RunStatuses]]

Init ==
  /\ runStatus = "ready"
  /\ claim = Nobody /\ lapsed = FALSE
  /\ intake = [t \in Tasks |-> "none"]
  /\ ledger = [t \in Tasks |-> {}]
  /\ order = <<>>
  /\ recent = {}
  /\ escalation = "none"
  /\ changed = [t \in Tasks |-> {}]
  /\ workspace = [f \in Files |-> {}]
  /\ base = [t \in Tasks |-> workspace]
  /\ torn = {}
  /\ stage = [p \in Processes |-> "idle"]
  /\ view = [f \in Founders |-> NothingRead]

PatchOf(p) == IF p \in Tasks THEN p ELSE view[p].task

\* A process goes on; the session of a founder's command ends with it.
Moves(p, next) ==
  /\ stage' = [stage EXCEPT ![p] = next]
  /\ view' = [f \in Founders |-> IF f = p /\ next = "done" THEN NothingRead ELSE view[f]]

\* No transaction holds the claim row.
Unlocked == \A p \in Processes : stage[p] \notin Applying

\* Fault: a founder's command looks at the claim and does not lock it.
UnlockedLook == claim = Nobody \/ lapsed
\* What the founder mutations ask of the claim; a lapsed one is reclaimed.
NoLiveClaim == Unlocked /\ (claim = Nobody \/ lapsed)

Scope(t) == {ModuleOf[f] : f \in changed[t]}
Overlap(t, u) == Scope(t) \cap Scope(u) # {}

\* Fault: a burst is noticed one patch late.
LateBurst(t) ==
  Cardinality({u \in recent : intake[u] = "auto_applied"
                              /\ Scope(u) \cap {ModuleOf[f] : f \in changed'[t]} # {}}) > BurstLimit
\* Automatic applications near the changed files have reached their limit.
Burst(t) ==
  Cardinality({u \in recent : intake[u] = "auto_applied"
                              /\ Scope(u) \cap {ModuleOf[f] : f \in changed'[t]} # {}}) >= BurstLimit

\* Fault: the rejection being recorded does not count.
EarlierFailures(t) ==
  {u \in recent \ {t} : intake[u] \in Repairable /\ Overlap(t, u)}
\* Failed repairs in t's scope when t is being rejected for one.
RepairFailures(t) ==
  {t} \cup {u \in recent : intake[u] \in Repairable /\ Overlap(t, u)}

\* Fault: the files are not compared with those the worker saw.
AnyBase(t) == TRUE
BaseUnchanged(t) == \A f \in changed[t] : workspace[f] = base[t][f]

-----------------------------------------------------------------------------
(* Dispatch.                                                               *)

\* EXECUTE_BOUNDED_TASK is offered.
Offered ==
  /\ runStatus = "ready"
  /\ \A t \in Tasks : intake[t] # "pending"
  /\ escalation # "pending"
  /\ order # <<>> => intake[order[Len(order)]] \notin Rejected

Route(t) ==
  /\ stage[t] = "idle"
  /\ Offered
  /\ Moves(t, "routed")
  /\ UNCHANGED <<rows, changed, base, workspace, torn>>

\* The dispatch asks for READY alone, whatever was recorded since the route
\* was inspected.  The worker copies the workspace and takes its hashes.
Dispatch(t) ==
  /\ stage[t] = "routed"
  /\ runStatus = "ready"
  /\ Unlocked
  /\ runStatus' = "running"
  /\ claim' = t /\ lapsed' = FALSE
  /\ base' = [base EXCEPT ![t] = workspace]
  /\ Moves(t, "working")
  /\ UNCHANGED <<intake, ledger, order, recent, escalation,
                 changed, workspace, torn>>

DispatchRefused(t) ==
  /\ stage[t] = "routed"
  /\ runStatus # "ready"
  /\ Moves(t, "done")
  /\ UNCHANGED <<rows, changed, base, workspace, torn>>

-----------------------------------------------------------------------------
(* The worker's result.                                                    *)

\* The finalizer's transaction, when it leaves the intake to a founder.
RecordPending(t) ==
  /\ intake' = [intake EXCEPT ![t] = "pending"]
  /\ order' = Append(order, t)
  /\ runStatus' = "ready"
  /\ claim' = Nobody /\ lapsed' = FALSE
  /\ Moves(t, "done")
  /\ UNCHANGED <<ledger, recent, escalation>>

\* Some warning, several files or a burst calls for a review.
LandForReview(t) ==
  /\ stage[t] = "working"
  /\ claim = t /\ Unlocked
  /\ \E files \in (SUBSET Files) \ {{}} : changed' = [changed EXCEPT ![t] = files]
  /\ RecordPending(t)
  /\ UNCHANGED <<base, workspace, torn>>

\* No warning, one file: the finalizer goes on to apply the patch before it
\* commits.
LandForAutoApply(t) ==
  /\ stage[t] = "working"
  /\ claim = t /\ Unlocked
  /\ \E f \in Files : changed' = [changed EXCEPT ![t] = {f}]
  /\ ~Burst(t)
  /\ Moves(t, "approved")
  /\ UNCHANGED <<rows, base, workspace, torn>>

\* The worker failed, or its success could not be recorded.
LandFailure(t) ==
  /\ stage[t] \in {"working", "failing"}
  /\ claim = t /\ Unlocked
  /\ runStatus' = "failed"
  /\ claim' = Nobody /\ lapsed' = FALSE
  /\ Moves(t, "done")
  /\ UNCHANGED <<intake, ledger, order, recent, escalation,
                 changed, base, workspace, torn>>

\* The claim is no longer the task's: the result leaves evidence only.
ResultRejected(t) ==
  /\ stage[t] \in {"working", "failing"}
  /\ claim # t
  /\ Moves(t, "done")
  /\ UNCHANGED <<rows, changed, base, workspace, torn>>

LeaseLapses ==
  /\ claim # Nobody /\ ~lapsed
  /\ lapsed' = TRUE
  /\ UNCHANGED <<runStatus, claim, intake, ledger, order, recent, escalation,
                 changed, base, workspace, torn, stage, view>>

\* Fault: the sweep gives back the claim and not the run.
ReclaimClaimAlone ==
  /\ lapsed /\ Unlocked
  /\ claim' = Nobody /\ lapsed' = FALSE
  /\ UNCHANGED <<runStatus, intake, ledger, order, recent, escalation,
                 changed, base, workspace, torn, stage, view>>
\* The reconciliation sweep.
Reclaim ==
  /\ lapsed /\ Unlocked
  /\ claim' = Nobody /\ lapsed' = FALSE
  /\ runStatus' = IF runStatus = "running" THEN "ready" ELSE runStatus
  /\ UNCHANGED <<intake, ledger, order, recent, escalation,
                 changed, base, workspace, torn, stage, view>>

-----------------------------------------------------------------------------
(* The commit of a resolution.                                             *)

\* Fault: a rejected intake rejects the run.
StatusNamedAfter(code) == IF code \in Applied THEN "completed" ELSE "rejected"
StatusAfter(code) == IF code \in Applied THEN "completed" ELSE "ready"

\* The run's status as p's session writes it: a finalizer holds the run's row,
\* a founder's command compares with what it read.
WrittenStatus(p, code) ==
  IF p \in Founders /\ StatusAfter(code) = view[p].run THEN runStatus ELSE StatusAfter(code)

\* A lapsed claim in a founder's way is reclaimed with the same commit.
Resolve(p, code) ==
  LET t == PatchOf(p) IN
  /\ intake' = [intake EXCEPT ![t] = code]
  /\ ledger' = [ledger EXCEPT ![t] = @ \cup {code}]
  /\ order' = IF p \in Tasks THEN Append(order, t) ELSE order
  /\ recent' = recent \cup {t}
  /\ runStatus' = WrittenStatus(p, code)
  /\ claim' = Nobody /\ lapsed' = FALSE
  /\ escalation' = IF code \in Repairable /\ Cardinality(RepairFailures(t)) >= RepairQuota
                     THEN "pending" ELSE escalation
  /\ Moves(p, "done")

-----------------------------------------------------------------------------
(* The strict application, by a founder's command or a finalizer.          *)

ChecksBase(p) ==
  /\ stage[p] = "approved"
  /\ IF BaseUnchanged(PatchOf(p))
       THEN Moves(p, "clean") /\ UNCHANGED rows
       ELSE Resolve(p, "base_hash_conflict")
  /\ UNCHANGED <<changed, base, workspace, torn>>

\* git apply takes all of the patch or nothing.
AppliesPatch(p) ==
  LET t == PatchOf(p) IN
  /\ stage[p] = "clean"
  /\ \/ /\ workspace' = [f \in Files |-> IF f \in changed[t] THEN workspace[f] \cup {t}
                                         ELSE workspace[f]]
        /\ Moves(p, "patched")
        /\ UNCHANGED rows
     \/ Resolve(p, "apply_check_failed") /\ UNCHANGED workspace
  /\ UNCHANGED <<changed, base, torn>>

Validates(p) ==
  /\ stage[p] = "patched"
  /\ \/ Resolve(p, IF p \in Tasks THEN "auto_applied" ELSE "founder_approved")
     \/ Moves(p, "invalid") /\ UNCHANGED rows
  /\ UNCHANGED <<changed, base, workspace, torn>>

\* Fault: a patch that failed validation stays.
WithPatch(t) == workspace
WithoutPatch(t) == [f \in Files |-> workspace[f] \ {t}]

RollsBack(p) ==
  /\ stage[p] = "invalid"
  /\ workspace' = WithoutPatch(PatchOf(p))
  /\ Resolve(p, "validation_failed")
  /\ UNCHANGED <<changed, base, torn>>

TornBy(p) == IF stage[p] \in {"patched", "invalid"} THEN torn \cup {PatchOf(p)} ELSE torn

\* An exception inside an automatic application, such as a rollback that
\* fails: the finalizer leaves the intake to a founder and commits.
AutoApplyRaises(t) ==
  /\ stage[t] \in Applying
  /\ torn' = TornBy(t)
  /\ RecordPending(t)
  /\ UNCHANGED <<changed, base, workspace>>

\* The transaction is lost: its process dies, an exception leaves a founder's
\* command, or the commit fails (the command holds the claim's row and wants
\* the run's, a dispatch the other way round).  A finalizer that is still
\* alive then reports its task as failed.
TransactionLost(p) ==
  /\ stage[p] \in Applying
  /\ torn' = TornBy(p)
  /\ \E next \in {"done"} \cup (IF p \in Tasks THEN {"failing"} ELSE {}) : Moves(p, next)
  /\ UNCHANGED <<rows, changed, base, workspace>>

-----------------------------------------------------------------------------
(* The founder.                                                            *)

FounderReads(f, t) ==
  /\ stage[f] = "idle"
  /\ intake[t] = "pending"
  /\ stage' = [stage EXCEPT ![f] = "read"]
  /\ view' = [view EXCEPT ![f] = [task |-> t, run |-> runStatus]]
  /\ UNCHANGED <<rows, changed, base, workspace, torn>>

FounderApproves(f) ==
  /\ stage[f] = "read"
  /\ NoLiveClaim
  /\ Moves(f, "approved")
  /\ UNCHANGED <<rows, changed, base, workspace, torn>>

FounderRejects(f) ==
  /\ stage[f] = "read"
  /\ NoLiveClaim
  /\ Resolve(f, "founder_rejected")
  /\ UNCHANGED <<changed, base, workspace, torn>>

FounderRefused(f) ==
  /\ stage[f] = "read"
  /\ Unlocked /\ claim # Nobody /\ ~lapsed
  /\ Moves(f, "done")
  /\ UNCHANGED <<rows, changed, base, workspace, torn>>

\* The escalation is answered; like every founder mutation not under a claim.
FounderReplies ==
  /\ escalation = "pending"
  /\ Unlocked /\ claim = Nobody
  /\ escalation' = "answered"
  /\ UNCHANGED <<runStatus, claim, lapsed, intake, ledger, order, recent,
                 changed, base, workspace, torn, stage, view>>

-----------------------------------------------------------------------------
(* The world.                                                              *)

\* Somebody edits a file of the workspace.
Edit(f) ==
  /\ "edit" \notin workspace[f]
  /\ workspace' = [workspace EXCEPT ![f] = @ \cup {"edit"}]
  /\ UNCHANGED <<rows, changed, base, torn, stage, view>>

\* A resolution falls out of the policy window of one hour.
Ages(t) ==
  /\ t \in recent
  /\ recent' = recent \ {t}
  /\ UNCHANGED <<runStatus, claim, lapsed, intake, ledger, order, escalation,
                 changed, base, workspace, torn, stage, view>>

-----------------------------------------------------------------------------
TaskStep(t) ==
  \/ Route(t) \/ Dispatch(t) \/ DispatchRefused(t)
  \/ LandForReview(t) \/ LandForAutoApply(t) \/ LandFailure(t) \/ ResultRejected(t)
  \/ AutoApplyRaises(t)

FounderStep(f) ==
  \/ \E t \in Tasks : FounderReads(f, t)
  \/ FounderApproves(f) \/ FounderRejects(f) \/ FounderRefused(f)

Application(p) ==
  \/ ChecksBase(p) \/ AppliesPatch(p) \/ Validates(p) \/ RollsBack(p)
  \/ TransactionLost(p)

Next ==
  \/ \E t \in Tasks : TaskStep(t) \/ Ages(t)
  \/ \E f \in Founders : FounderStep(f)
  \/ \E p \in Processes : Application(p)
  \/ \E f \in Files : Edit(f)
  \/ LeaseLapses \/ Reclaim \/ FounderReplies

Spec == Init /\ [][Next]_vars

-----------------------------------------------------------------------------
(* Properties of every interleaving.                                       *)

Patched(t) == \E f \in Files : t \in workspace[f]
\* Patches that are in the files and not yet judged.
InPlaceTasks == {PatchOf(p) : p \in {q \in Processes : stage[q] \in {"patched", "invalid"}}}

\* The claim row keeps applications apart: no two processes of the run ever
\* have git apply running on the workspace.
OneApplierAtATime ==
  \A p, q \in Processes : stage[p] \in Applying /\ stage[q] \in Applying => p = q

\* The workspace holds exactly the patches the ledger says were applied and
\* those whose application broke off half way, whoever overwrote the verdict
\* of whom; and a patch that broke off is never counted as applied later on.
FilesFollowTheLedger ==
  /\ \A t \in Tasks \ InPlaceTasks :
       Patched(t) <=> t \in torn \/ ledger[t] \cap Applied # {}
  /\ \A t \in torn : ledger[t] \cap Applied = {}

\* No lost update: of two patches in one file, the later was made from a
\* content that had the earlier.  Not even patches that broke off are exempt.
PatchesSawEachOther ==
  \A f \in Files : \A t, u \in workspace[f] \cap Tasks :
    t = u \/ t \in base[u][f] \/ u \in base[t][f]

\* The patches of the policy window around one module that ended with a code.
Around(m, codes) == {t \in recent : m \in Scope(t) /\ intake[t] \in codes}
Modules == {ModuleOf[f] : f \in Files}

\* Once repairs around one module have failed up to the quota, a founder has
\* been asked for guidance, whoever counted while others resolved.
RepairLoopIsEscalated ==
  \A m \in Modules :
    Cardinality(Around(m, Repairable)) >= RepairQuota => escalation # "none"

\* Within the window no module takes more automatic patches than the burst
\* limit: slicing a change does not get it past the founder.
BurstsAreReviewed ==
  \A m \in Modules : Cardinality(Around(m, {"auto_applied"})) <= BurstLimit

\* A resolved intake keeps its resolution.
ResolvedPatchStands ==
  [][\A t \in Tasks : intake[t] \in Resolutions => intake'[t] = intake[t]]_vars

-----------------------------------------------------------------------------
(* What an outdated founder can do, and nobody else.                       *)

InHand == Applying \cup {"read"}
Ends(f) == stage[f] \in InHand /\ stage'[f] = "done"

\* A run is RUNNING only under the claim of a task, or it could never be
\* dispatched again.
Backed == runStatus = "running" => claim # Nobody

\* The one way to strand a run is the commit of a founder's command that had
\* read another status of it.
OnlyOutdatedReviewsStrand ==
  [][Backed => Backed' \/ \E f \in Founders : Ends(f) /\ view[f].run # runStatus]_vars

\* Rows, ledger and workspace as the one-step review sees them.
Verdict == [t \in Tasks |-> CASE intake[t] \in Applied  -> "applied"
                             [] intake[t] \in Rejected -> "rejected"
                             [] OTHER                  -> intake[t]]
Landed == {t \in Tasks \ (torn \cup InPlaceTasks) : Patched(t)}

Review == INSTANCE AtomicReview WITH verdict <- Verdict, content <- Landed

\* Every step reviews in one step or not at all, crashes, failed rollbacks and
\* outside edits included, but for one: the commit of a founder's command on
\* an intake that was resolved since it was read.
Reviewed == [Review!Next]_(Review!vars)
OnlyOutdatedReviewsOverwrite ==
  /\ Review!Init
  /\ [][Reviewed \/ \E f \in Founders : Ends(f) /\ intake[view[f].task] # "pending"]_vars

-----------------------------------------------------------------------------
(* The founders one after the other: from the read to the commit of a      *)
(* command nobody else takes a step or moves the run.                      *)

Serialised ==
  \A f \in Founders : stage[f] \in InHand =>
    stage'[f] # stage[f] \/ UNCHANGED <<stage, runStatus>>
SerialNext == Next /\ Serialised
SerialSpec == Init /\ [][SerialNext]_vars

=============================================================================
