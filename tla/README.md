# V2_SPRING: a verification project in TLA+

V2_SPRING is a controller for founder-supervised software work. A run is
submitted from the command line, a human approves it, a planner proposes what to
do, a worker executes one task in a lane (bounded, isolated or containerized),
and a patch that comes back is applied automatically or after a review. Every
step is a transaction of `src/src/v2_spring/ledger/store.py` on one database;
every CLI command is a process of its own. No daemon exists: nothing happens
that no command does.

This directory models that store with its races, crashes and timeouts, checks
the models with TLC on small instances and proves what matters most with TLAPS
for every instance.

## 1. The system

All line numbers are those of `src/src/v2_spring/ledger/store.py` unless a file
is named.

| component | state | operations | talks to |
|---|---|---|---|
| Execution claims (697-1385) | one `ExecutionClaimRecord` per run: status, task, lease token, version (the fencing token), heartbeat, expiry | acquire, release, renew, reclaim by the sweep, pessimistic reclaim by a founder mutation | dispatch, result landing, approval and patch resolution, founder reply |
| Dispatch and landing (3925-4561, 5125-5915) | `TaskRecord`, the run's status, artifacts, events | `execute_bounded_task`, `dispatch_isolated_worker_task`, `dispatch_containerized_worker_task`, four finalizers, the stale rejection | claims, routing, worker runtimes, patch intake, trust |
| Approval gate (1530-1770, 5057-5123) | `ApprovalRecord` (pending, approved, rejected, expired), the run's status | create run, resolve, expiry sweep; the status guard in front of every mutation | everything that changes a run |
| Patch intake (1947-2137, 5917-6198, 6331-6581) | `PatchIntakeRecord` (pending, applied, rejected), the source workspace | record, gate, auto-apply, approve, reject, repair | landing, workspace (git apply), escalation |
| Snapshot, legal moves, freshness (2308-2575, 2647-2722; `planner/actions.py`) | none of its own; a hash over the rows | build snapshot, evaluate possible actions, check freshness | every planner and founder command |
| Planner governance (2724-3304, 6913-7201) | append-only `PlannerAttemptRecord`s per phase | submit proposal, budget, stale and duplicate quotas, exhaustion | snapshot, escalation |
| Founder escalation (3564-3878, 6707-6728) | escalation and reply decisions in the ledger | escalate, reply (up to a hint quota) | planner, claims |
| Runtime trust (836-859, 1387-1528) | one `RuntimeTrustRecord` per runtime: strikes, recovery streak, forced preflight | record failure, record success | containerized dispatch |
| Routing (`domain/routing.py`) | none | requirements and limits to a lane or a refusal | dispatch |
| Container worker (`runtime/containerized_worker.py`) | docker images and containers | preflight, build, run, capture, remove, garbage-collect | dispatch, reclaim |
| LangGraph adapter (`adapters/langgraph_planner.py`) | none | call an external model, repair format | planner governance |
| Replay, progress, consistency (2308-2529, 6818-6911) | none | read-only projections | CLI |
| CLI, configuration, migrations | none | parse, render | everything |

### What is hard about it, and what correct means

* **Claims, dispatch, landing.** The worker runs for minutes between two
  transactions, so its controller may die, its lease may run out, the run may be
  handed to another task, and its result may come back after all that. Correct
  means: one task executes at a time, a token is handed out once, a result lands
  only while its task holds the run, the append-only events and the rows tell
  one story, and no run stays claimed for ever.
* **Approval gate.** Two founders, or a founder and the expiry sweep, resolve
  the same approval. Correct means: it is resolved once, nothing executes before
  it is approved, and a suspended run stays suspended.
* **Patch intake.** The workspace is changed outside the database transaction and
  reviews race. Correct means: APPLIED exactly when the workspace holds the
  patch, resolved once, COMPLETED only with an applied patch.
* **Snapshot, legal moves, freshness.** A planner judges a state that others change
  before its verdict is recorded. Correct means: the engine always offers a move, a blocker or
  an end, and what is accepted was judged on a hash nobody has outdated.
* **Planner governance and escalation.** Limits are recounted from rows on every call, in
  sessions of their own, and a command may die between the attempt that uses the budget up and
  the one that closes the phase. Correct means, for each planner: a bounded number
  of wrong answers and one accepted proposal per phase until a founder recharges it, an intent
  judged once, help that is paid for by founders' replies, and commands that end.
* **Runtime trust.** Read, change, write without a lock. Correct means: as long as no
  two recordings overlap, enough mismatches in a row force a preflight, and only a
  streak of checked successes lifts it.
* **Container worker.** Cleanup is label-wide, so one dispatch may remove the
  container of another at work. Correct means: such a call lands no patch,
  what was collected stays gone, and no call that ends leaves its container behind.
* **Routing and log capture.** Rules in a fixed order, and a buffer fed in chunks of any
  size. Correct means: wider limits never turn a route into a refusal, and the
  preview of a stream does not depend on how it was cut.

## 2. Modules

| module | models | state |
|---|---|---|
| `FencedLease` | what an execution claim promises: at most one holder, every grant, settlement and revocation moves the fence, a task is granted once and settled or revoked, not both | holder, fence, settled, revoked |
| `LeaseTiming` | the lease arithmetic: time to live, renewal threshold, cadence, renewal pressure | none |
| `ExecutionClaim` | claims, dispatch and landing of one run, all three lanes, with crashes, expiry, heartbeats and reclaim | `runStatus`, `claim`, `task`, `ctl` (where each controller process stands), `seen` (the run's status as a finalizer has read it), `ledger` |
| `ExecutionClaimProofs` | the theorems about `ExecutionClaim` | |
| `MCExecutionClaim` | constants of the checked instances | |
| `FounderVerdict` | what the approval gate promises: one verdict, execution only under an approval | verdict, executing |
| `ApprovalGate` | the approval of one run: founders, expiry sweeps, the status guard, and as much of execution as a verdict can meet | `runStatus`, `approval`, `overdue`, `claim`, `recorded`, `founder`, `sweeper`, `resolutions` |
| `ApprovalGateProofs` | the theorems about `ApprovalGate` | |
| `MCApprovalGate` | constants of the checked instances | |
| `AtomicReview` | what the patch intake promises: a patch judged once, judgement and files in one step | verdict, content |
| `PatchIntake` | the patches of one run: landing, automatic and founder-approved application, the strict patch gate, rejection, repair quota, in front of a workspace that is no part of the transactions | `runStatus`, `claim`, `lapsed`, `intake`, `ledger`, `order`, `recent`, `escalation`; `changed`, `base`, `workspace`, `torn`; `stage`, `view` |
| `PatchIntakeProofs` | the theorems about `PatchIntake` | |
| `MCPatchIntake` | constants of the checked instances | |
| `PossibleActions` | the legal-move engine: the moves, blockers and state it reports for a snapshot | none |
| `PlannerLoop` | planner commands (provider, adapter, judgement, budget, help) and founders' replies and recharges on one run | `run`, `phase`, `segments`, `tried`, `hints`, `stops`, `help`, `lane`; `stage`, `view`, `desk`; `fresh`, `same`, `asked` (the snapshot hashes) |
| `PlannerLoopProofs` | the theorems about every interleaving of `PlannerLoop` | |
| `PlannerSerialProofs` | the theorems about commands one after another | |
| `PlannerProgressProofs` | the theorems about the way of a command to its end | |
| `MCPlannerLoop` | constants and explored part of the checked instance | |
| `RoutingPolicy` | `route_task`, the order of limits, the static preflight | none |
| `LogCapture` | the bounded capture of a worker's output and the preview it promises | none |
| `ContainerWorker` | container dispatches of several runs around one docker daemon and one trust row | `trust`, `verdicts`, `overlapped`; `holder`, `landed`; `containers`, `evicted`, `excused`; `stage`, `call` |
| `ContainerWorkerProofs` | the theorems about `ContainerWorker` | |
| `WorkerLane` | composition: `ContainerWorker` with the routes founders inspect and the output of the latest container | and `inspection`, `stream`, `capture` |
| `WorkerLaneProofs` | that the composition implements `ContainerWorker`, and the theorems about routing and capture | |
| `MCWorkerLane` | constants and explored part of the checked instance | |

### ExecutionClaim and the code

One element of `Tasks` is one controller process together with the task record it
creates. `ctl` is its program counter:

```
idle --Route--> routed --DispatchWorker--> working --WorkerReturns--> success | failure
                  \--DispatchRefused--> refused
idle --DispatchBounded--> working (bounded lane)      success|failure --FinalizeBounded--> done
success|failure --CheckClaim--> landing_success | landing_failure | rejected
landing_* --LandSuccess | LandFailure--> done
success | landing_success --PersistenceFails--> failure      landing_success --LandSuccess--> failure
working --Reclaim (its container was removed)--> failure
```

Any of these may be cut off by `Crash`; `Reclaim` is the sweep
(`reclaim_execution_claims`) and the pessimistic reclaim of
`_ensure_no_live_execution_claim`; `Renew` is a heartbeat that passes all checks
of `renew_execution_claim` and writes; `Tick` is one second.

The second `LandSuccess` is a containerized success whose trust record cannot be written after
its commit (4535): the dispatcher finalizes the task once more, as failed.

Atomicity follows the sessions. A dispatch, a renewal and a reclaim take the run's
row lock before they read anything they decide on, so each is one action. A
finalizer is two: it reads the claim without a lock
(`_validate_current_execution_claim_for_task`, 5497) and only later locks the
rows (`_release_execution_claim`, 1158). The session is created with
`autoflush=False, expire_on_commit=False`. Run and task stay referenced by the finalizer, so
the locking `SELECT` returns them as they were read first, and the commit writes the columns
it changed: that is `seen` and `Written`. The claim of the check is a local variable of a
function that has returned, and SQLAlchemy's identity map holds it weakly; it is therefore read
afresh under the lock, and `Land` decides on the row as it is then. A claim that was reclaimed (1177)
or has gone to another task (1179-1181) is left alone, with its version; the task and the
run are overwritten in any case. PostgreSQL at READ COMMITTED is assumed; on
SQLite the store has no row locks and a whole transaction is serialised by the
file lock only from its first write.

Consequences of the code that shape the model:

* Lease tokens are fresh UUIDs and a task is acquired once, so a token equals the claim's exactly
  when the claim names the task.
* A late result may make a run READY that another task executes. A dispatch then meets an active
  claim: `DispatchRefused` while it is alive, and `AcquireOverdue`, the reclaim inside an
  acquisition with two tokens, once it has run out (984-1011).
* Once a patch intake exists the run is never offered for execution again, so
  the founder's review of a patch has no action here; `PatchIntake` has it.

The specifications differ in what a result may do:

* `Spec` is every interleaving of the statements above. Much holds of it on all lanes: a task runs
  only while it holds the claim, the claim of a running task is its own, tokens are used once.
* `SerialSpec` is the interleavings in which no other transaction commits between
  a finalizer's read and its own commit: the code with the window of finding 2 closed. On the
  worker lanes the other properties a reader of the design documents expects hold of it: a late
  result bounces, ledger and rows tell one story, the run's status is true. `Spec` fails them, and
  run `stale_finalizer` shows the first.
* `FencedSpec` is the interleavings in which a result, a bounded one too, is recorded
  only while its task holds the claim: what the code would do if every finalizer asked what it
  found under the lock. Nothing else is restricted: reads overlap, leases run out,
  controllers crash and come back. The same properties are proved of it for all lanes (section 4), so
  findings 1 and 2 are all that stands between the code and its documents. On the worker lanes
  `SerialSpec` implements it (`SerialWorkersAreFenced`).

Left out of the model: artifacts, receipts, decisions and observations (evidence that
no transition depends on), the owner and runtime columns, the lease-clock skew
between hosts, and everything that happens before an approval made the run READY.

### ApprovalGate and the code

A founder is one `resolve_approval`: an unlocked read of the approval
(`FounderReads`, 1656), then the guarded `UPDATE` of the run, which waits for the
row and sees what was committed meanwhile (`StatusGuard`, 5057), the check of the
claim (`NoLiveClaim`, 984) and the write of both rows (`FounderResolves`, or
`FounderRefused`). The approval is not read again, so a founder that has passed
its first read is stopped by a suspended run or a live claim only.

A sweeper repeats `expire_overdue_approvals`: it selects the overdue pending
approvals (`SweepSelects`), reads the run without a lock (`SweepReadsRun`), and
writes (`SweepCommits`); the run is suspended if it was waiting when read. Sweeps of
several approvals only make the two windows longer, since runs do not share
rows, so one run stands for each of them.

Behind the gate, `Dispatch`, `LeaseLapses`, `Reclaim` and `ResultLands` are the effect of
`ExecutionClaim` on the run's status and on whether its claim is live, on the worker
lanes. A finalizer does not look at the status it overwrites, so a run
suspended by a late sweep comes back when its result lands; that is behaviour
of the code and part of `Spec`. A finalizer's check and commit are one step here, and a result that
lands after a reclaim is left to `ExecutionClaim`. `RecordWork` is a decision or an observation behind
the general guard (1772-1851). `RecordProposal` is the decision of an accepted planner's proposal,
for which the gate is open while the run waits (`allow_during_waiting_approval`, 3013), since
resolving the approval is a move a planner may propose; `NothingPassesUnjudged` says what must not
come as early. `ExecutionClaim` begins where this module ends: an approved run whose verdict
is not overwritten.

`Spec` is every interleaving; in `SerialSpec` a command that has read the approval
commits before anything else does. `CheckedSpec` is between the two: commands overlap
at will, but whoever resolves the approval still finds it pending, as a second read
under the lock would ensure. `SerialSpec` implements it, and what holds of the gate is
proved of it.

### PatchIntake and the code

A process is a task (one dispatching controller and its finalizer) or a founder
(one `approve_patch_intake` or `reject_patch_intake`). `stage` is its program
counter:

```
task     idle --Route--> routed --Dispatch--> working --LandForReview | LandFailure | ResultRejected--> done
                                              working --LandForAutoApply--> approved
founder  idle --FounderReads--> read --FounderApproves--> approved
                                read --FounderRejects | FounderRefused--> done
both     approved --ChecksBase--> clean --AppliesPatch--> patched --Validates--> done | invalid
         invalid --RollsBack--> done
```

The lower line is `apply_patch_strict` (`runtime/patch_gate.py`, 67-191), one action
for each external program it runs or file scan it makes, since all of them act on the
workspace at once and none is undone by a rollback of the database. The first
failing check ends in `Resolve`, the commit of a rejection: status, code, event,
the run's status, the count of repair failures and the escalation it may open. The claim
row is locked from `approved` to the end (`Unlocked`): by a founder in
`_ensure_no_live_execution_claim` (984), by a finalizer in `_release_execution_claim`.
`AutoApplyRaises` is the `except` of a finalizer's automatic application
(5830), which commits the intake as pending with whatever git has done;
`TransactionLost` is every other way a transaction ends without its commit: a
dead process, an exception out of a founder's command, a failed commit, a
deadlock broken by the database (a dispatch locks run, then claim; a founder
claim, then run). What either leaves in the workspace is recorded in `torn`, a history
variable no action reads.

Contents are sets: a file holds the patches and outside edits it has taken, so
two contents have equal hashes exactly when they are equal sets, a patch adds its
task to the files it changes, and `git apply -R` takes it out. Whether git finds
the patch applicable and whether validation passes is left open, so
the checks hold for every repository and every patch. The keyword, path, size and structure
scans of `_build_patch_review_policy` are one free choice between a warning and
none; the file count and the burst limit are exact. The policy window
of an hour is the action `Ages`, which may take any resolution out of it. A session
writes changed columns only: `view` keeps the run's status a founder has read, and
`WrittenStatus` says what the commit writes of it.

`AtomicReview` is the review as a founder imagines it. `Verdict` reads it off the intake rows
and `Landed` off the files, a patch whose validation is still running or whose
application broke off not counted. `Spec` is every interleaving, and every step of it is
a step of `AtomicReview` but for one kind (finding 4); in `SerialSpec`, where nobody else steps from a
founder's read to its commit, there is none of those.

`ExecutionClaim` is where claims are modelled in full: here a lease has no clock and the
finalizer's check and lock of the claim are one step (finding 2 is not repeated).

### PlannerLoop and the code

A planner process runs commands one after another, and `stage` is where its command
stands. Each step is one provider call or one session of the store:

```
idle --Invoke--> thinking --Answer--> answered --Survey--> surveyed --Govern--> governed
idle --Propose--> answered      thinking --FormatFailure--> surveyed
thinking --ProviderError | ProviderBabbles--> idle
governed, a proposal   --ScanLedger--> judging --RefuseUncharged--> idle
                                       judging --RefuseCharged--> idle | closing --Close--> idle
                                       judging --Accept--> deciding --Decide--> idle
governed, help         --CountHints--> asking --RefuseAsk--> idle
                                       asking --GrantAsk--> opening --OpenLane--> idle
                       --CountHints--> shutting --Shut--> idle
governed, a malformed answer --ChargeFormatFailure--> idle | shutting
a repeated failure, before or after the answer: alarming --Alarm--> idle
founder  idle --LookAtLane--> reading --LookAtPhase--> replying --Hint | ReplyRefused--> idle
                                                       replying --Stop--> shutting
         idle --BeginRecharge--> recharging --Recharge--> idle
```

`Survey` is the snapshot of line 2732, `Govern` the governance of line 2743, `ScanLedger`
the two reads of the event ledger after it: three sessions, between which anything
may commit in `Spec`; in `SerialSpec` no command begins while another is under way, though the
run moves on and commands die. `view` is what a command has read so far, and it is judged on nothing
else. `Dies` may cut any command off; `Advance` is everything the other components do to
the run, reduced to what a snapshot shows of it (status, latest patch, streak of equal
failures).

A phase's key hashes counts, ids and times that only grow, so phases are numbered. Attempts are
append-only rows; `segments` counts those since the latest manual recharge, which is
how the code folds them, and `tried` keeps the intents of all of them, which is how the ledger scan
reads them. A snapshot hash is not computed: `fresh[p]` says whether anything was recorded
since p read its own, `same[p]` who holds an equal one, and `asked` whose hash an
active request for help was made with. `PossibleActions` is the engine of
`planner/actions.py` in full, and decides which proposals are legal.

### ContainerWorker, WorkerLane and the code

A dispatcher's call goes through `idle, trusted, claimed, listed, swept, admitted,
created, ran, removing, finalizing, recording, storing`: trust read, claim, `docker ps` and
`docker rm` of the collector, preflights and image, container, copies, removal in the `finally` block,
finalizer, trust row read and written. A finalizer that finds its claim gone lands nothing and returns
all the same (5490-5495), so the dispatcher goes on to record its verdict on the runtime like any
other's. An exception while a patch is finalized, or while its success is recorded, is a failure
that is finalized in turn (`Raises`, 4541-4560) and may end as a strike, even for a patch that
has landed. Every docker command may fail, with words that count as
a mismatch or not; `RemoveOwn` and the removal in `Reclaim` are best effort. A call's
number is its container's name and its claim's token. `verdicts` is the history of
recordings and `overlapped` says that one was based on a row that had changed since; both are
history variables no action reads. A flush writes the columns that differ from those read.

`WorkerLane` adds what the lane has besides: `Inspect` evaluates `Route` for any request and
limits, and `ReadPipe` feeds the capture of the latest container a chunk of any size and
content. `RoutingPolicy` has `route_task` with its normalisation and the order of its tests;
its refusals are one refusal. `LogCapture` has `Feed` and `Render` of the capture script with
its three buffers, and `Preview`, the reference: what a founder should see of a stream.

## 3. Runs

| run | specification | checks | shows |
|---|---|---|---|
| `claim_serial` | `SerialSpec`, 3 tasks, worker lanes | `TypeOK`, `ExclusiveExecution`, `LedgerTellsOneStory`, `LateResultsRejected`, `ImplementsLease` | with the window closed the claim is the fenced lease it is meant to be, across crashes, expiry, heartbeats, late results, and a second finalization after a failed trust record |
| `claim_interleaved` | `Spec`, 3 tasks, all lanes | `RunningTasksHold`, `ActiveClaimIsBacked`, `TokensNeverReused`, `RenewalNeverCoalesced` | what survives late results on every lane: a task runs only while it holds the claim and a RUNNING run has one, a live holder is never fenced off, no token comes back, no heartbeat is swallowed |
| `claim_recovery` | `FairSpec`, 2 tasks, all lanes | `ClaimsAreGivenUp`, `RunningTaskSettles` | if claims keep being reconciled, every claim ends and no task stays RUNNING, whoever crashes |
| `bounded_late_result` | `SerialSpec`, 2 tasks, all lanes | `LateResultsRejected`, violated | finding 1 |
| `stale_finalizer` | `Spec`, 2 tasks, worker lanes | `LateResultsRejected`, violated | finding 2 |
| `gate_serial` | `SerialSpec`, 3 founders, 2 sweepers | `RunFollowsVerdict`, `ImplementsVerdict` | one command at a time, an approval is judged once and the run stands where the verdict put it |
| `gate_interleaved` | `FairSpec` (every interleaving), 3 founders, 2 sweepers | `WaitsForItsApproval`, `NothingPassesUnjudged`, `ExecutionOutlivesVerdicts`, `WaitingRunMovesOn` | what the gate guarantees even when verdicts overwrite one another, and progress |
| `gate_resolved_twice` | `Spec`, 3 founders, 2 sweepers | `ResolvedOnce`, violated | finding 3 |
| `patch_interleaved` | `Spec`, 3 tasks, 2 founders, 1 file | `TypeOK`, `OneApplierAtATime`, `FilesFollowTheLedger`, `PatchesSawEachOther`, `RepairLoopIsEscalated`, `BurstsAreReviewed`, `OnlyOutdatedReviewsStrand`, `OnlyOutdatedReviewsOverwrite` | what holds of files, ledger and policy limits in every interleaving, through lost transactions, failed rollbacks and reviews that overtake one another; and that an outdated founder's commit is the only step that strands a run or departs from the one-step review |
| `patch_resolved_twice` | `Spec`, 2 tasks, 2 founders, 1 file | `ResolvedPatchStands`, violated | finding 4 |
| `planner_interleaved` | `Spec`, 2 planners, 1 founder, 3 proposals (a legal one, one that is legal elsewhere only, one with a key) | `TypeOK`, `WrongAnswersAreBounded`, `OneSelectionPerSegment`, `HelpIsBounded`, `NeverStuck`, `NoSecondAcceptance`, `RepeatedFailureNeedsFounder`, `CommandsEnd` | what the planner's limits are worth to each planner when commands, replies, recharges and deaths interleave, and that commands end |
| `worker_interleaved` | `LaneSpec`, 2 dispatchers, 2 runs, 4 calls | `TypeOK`, `EvictedNeverLands`, `CollectedStaysGone`, `FinishedCallsLeaveNothing`, `TrustFollowsVerdicts`, `RoutingIsSound`, `CapturesAgree` | containers, trust and claims around one daemon; every routing request under every limits; every chunking of a stream |

Bounds. Three tasks are the first holder, one that takes over and one that
takes over from it while the first still comes back: a fourth adds no new
relation between two of them. A timeout of one second gives a lease of 16, longer
than its threshold (5) and cadence (2) together, so a lease is healthy, renewed
and expired in turn; larger timeouts only add ticks (the proofs are for all). The claim's
version and the ledger are bounded because a task is acquired once. `claim_serial` has 263,230
distinct states, `claim_interleaved` 1,440,478 and `claim_recovery` 60,669. Symmetry over
processes is used in safety runs only. `CHECK_DEADLOCK FALSE`: a run whose tasks are
all over really stops. For the gate, three founders are one that decides, one that decides
against it and one that comes after either; two sweepers overlap; a process
contributes at most one commit per approval it has read as pending, which bounds
`resolutions`. For the patches, three tasks give three intakes of which two fill a
quota or a burst limit and the third meets it (the limits are scaled to 2 and 1
accordingly), and two founders are enough for one to overtake the other; one file makes
every two patches meet, and the patches of different files only share what the proofs treat
for any number of files. Each task and each founder goes through its command
once, each file takes one outside edit. `CHECK_DEADLOCK FALSE`: when everybody is
done the run stops.

For the planner loop, a budget of 2 and a quota of 1 are met and exceeded with few commands, one
retry of each kind nests, and phases, replies and deaths are bounded by one each. The
product of two unrestricted planners is too large, so the constraint `Explored` of `MCPlannerLoop`
lets the second planner visit: either it leaves at most one mark (a unit, an acceptance, an
escalation) in a run nobody else disturbs, with all interleavings of the two commands, or it has left none and the
first one meets any two of a new phase, a founder and a death. The
safety properties are proved for any planners, founders and bounds (section 4); a larger instance of
two founders and three replies was used to try the invariant for help. For liveness the
constraint cuts no cycle of a command off: commands only go forward between two visits to `idle`.

For the worker lane, four calls are enough for two strikes, two checked
successes and a loss of trust in either order with thresholds of 2; two runs let two calls work
at the same time. `Explored` of `MCWorkerLane` lets a third call
work beside two others until something landed, was lost or recorded, and keeps longer histories to
those in which no container is lost and claims are, if at all, at the finalizer of a call that
is alone: its verdict is recorded like the others (845,618 distinct states; two calls are explored
without restriction, fenced off together as well). A capture of 1 head, 2 tail and 4 whole
bytes, chunks up to 3 and streams up to 6 over two byte values fill, overflow and wrap
every buffer; the buffers' sizes are constants of the proof. Requests and limits of routing are
all there are. Symmetry over dispatchers and runs is sound: no property is temporal.
`CHECK_DEADLOCK FALSE` in both: all calls are made, no command has to begin.

Fairness (`FairSpec`). Time passes; a worker returns, since its timeout bounds it;
a live controller reaches its next statement; and `reclaim-claims` keeps being
called. The last is an assumption about the operator, not about the code: no
command sweeps on its own and the store has no background process, so progress
after a crash is conditional on it. Nobody is obliged to dispatch, nobody is
prevented from crashing, and heartbeats are not fair: no command in the repository
renews a claim, so progress must not depend on it. Finalizers are not assumed to be serialised: a late
result takes no claim away, so even the race of finding 2 strands no task.
`RenewalNeverCoalesced` is about claims that acquire and renew produce.
`tests/test_step19_runtime_trust.py:218` gets its coalesced renewal from a claim row made by hand
(a heartbeat of this moment, an expiry two seconds ahead), which neither of them writes.
For the gate (`FairSpec` of `ApprovalGate`) time passes and the sweep command keeps being
run; founders owe nothing, and one that stops after its read is a crashed command.
For the planner loop, a command that has begun goes on, since its process is scheduled and the provider's
timeout answers if nobody else does; nobody has to begin one, and founders owe nothing. The
worker run checks safety only: `ExecutionClaim` has the progress of claims.

### Findings

1. **A bounded executor's late result lands** (5132). Its finalizers do not
   look at the claim: after an expired claim was reclaimed (task FAILED, run READY) the
   result still makes the task and the run COMPLETED. ADR 0016 (lines 50-53) and
   the Step 18 notes (line 61) say late results of reclaimed workers no longer
   mutate task state.
2. **A worker's finalizer acts on an old read** (5504). The claim is
checked before the rows are locked. If a reclaim commits in between, the late result
lands: the reclaimed task becomes COMPLETED or FAILED once more, with two verdicts in the ledger, and the
run READY, COMPLETED or FAILED, although a task dispatched meanwhile may be executing it. The
release reads the claim afresh and leaves it alone (1177-1181), so no token comes back and the
other task keeps its claim (`RunningTasksHold`, `TokensNeverReused`); but its answer is not
asked before the task and the run are written (5566-5567, 5702-5703).
Findings 1 and 2 have one cause, a result recorded by a task that has lost the claim, and
no other exists: without such records the claim is the fenced lease on every lane
(`FencedClaimImplementsLease`).

3. **An approval is resolved twice** (1656). Two founders who both see it pending
   both succeed, and a sweep overwrites a verdict that was committed after its read.
   `resolve_approval` refuses a second resolution (line 1661) and
   `tests/test_step1_ledger_store.py:138` expects the refusal. A second look at the approval
   where it is resolved would be enough (`CheckedGateImplementsVerdict`).

4. **A patch is resolved twice** (2020). `approve_patch_intake` and `reject_patch_intake`
   look at the intake before they wait for the claim row and not again afterwards. A patch
   that one founder rejected is applied for the other, and one that was applied
   becomes REJECTED, its changes still in the workspace. The code means to refuse
   (lines 2022 and 2081). `FilesFollowTheLedger` says what is left: the
   events, unlike the row, still tell which patches are in the files. And
   `OnlyOutdatedReviewsOverwrite` says what it takes: a commit of a founder whose intake was
   resolved since it was read. Crashes, failed rollbacks and outside edits do not.

### Observations

Behaviour a maintainer may want to know, against which no line of the repository speaks clearly
enough for a finding. All of it is in the models (that is why their properties read as they do)
unless a line is named.

Patches. A founder who read the run as READY and reclaims a lapsed claim on the
way writes no status, so a run dispatched in between stays RUNNING without a claim. Nothing else can do that
(`OnlyOutdatedReviewsStrand`). A run
completed by a second patch is READY again once a founder rejects the first.

Planner and founder.
* The limits bind each planner, not the run: two planners who read the governance
  before either records may both be accepted in one phase, and together exceed its budget. Hence
  `WrongAnswersAreBounded` and `OneSelectionPerSegment` speak of one planner. As long as commands
  do not overlap, the limits bind all planners together (`PlannerSerialProofs`), so it
  is the overlap and nothing in the rules that makes the difference.
* An override or rejection closes the phase in a later transaction (3867). A crash in
  between, or a proposal that has read its governance, passes after the founder has stopped the planner; and if the
  run has moved on by then, the closing hits its new phase.
* A command that dies between its attempt and PHASE_EXHAUSTED leaves a phase that is used up
  and open: the next command is let through (the summand `deaths`). One that dies
  between ACCEPTED and the decision leaves a phase in which everything further is a duplicate.
* Any open escalation disarms the check for repeated failures (3571), also another planner's.
  Escalations the system opens are outside the hint quota: after each hint the next
  command opens another, which is the thrash that
  `docs/risk-register/entries/2026-04-17-premature-escalation-thrash.md` describes.
* A duplicate request for help costs a unit of the budget but never closes the phase.
* Two founders may recharge the same exhaustion twice.
* A provider's answer that is no JSON at all leaves `_parse_output`
  (`langgraph_planner.py:676`) as an exception of another kind and is not charged as a format failure.
* The `replan_*` moves (`planner/actions.py:38`) have no command that carries them out.

Containers, trust and routing.
* The collector lists and removes in two commands, without asking whose containers they are: a dispatch ends the
  work of another, which then fails with docker's words "no such container" or, if they
  contain "no such file or directory", with a strike against the runtime. A failure of the
  collector fails the dispatch.
* Trust is recorded after the finalizer: a crash in between loses the verdict,
  overlapping recordings lose one of two, and a call that was fenced off counts like any other, a
  success of its as well. With a manifest that declares no tool to check dynamically, lost
  trust is never regained, for every forced dispatch is refused.
* A HIGH request that only reads, stays offline and returns an artifact is
  normalised to LOW and accepted where the same request at MEDIUM is refused; a MEDIUM request may be sent
  to the isolated worker although `allow_isolated_worker` is off, if it does not insist on isolation; the router
  accepts requests the container's static preflight refuses.

## 4. Proofs

Eight modules hold theorems. `ExecutionClaimProofs` proves, for any set of tasks and any timeout:

| theorem | about | needs |
|---|---|---|
| `TypeCorrect` | `Spec => []TypeOK` | |
| `HeartbeatsAreNeverSuppressed` | `Spec => []RenewalNeverCoalesced` | |
| `RunningTasksHoldTheClaim` | `Spec => []RunningTasksHold` | |
| `ClaimsAreBacked` | `Spec => []ActiveClaimIsBacked` | |
| `FencingTokensAreUnique` | `Spec => []TokensNeverReused` | |
| `FencedStatusIsTruthful` | `FencedSpec => []StatusIsTruthful` | |
| `FencedLedgerIsTruthful` | `FencedSpec => []LedgerTellsOneStory` | |
| `FencedClaimImplementsLease` | `FencedSpec => ImplementsLeaseInAllLanes` | |
| `SerialWorkersAreFenced` | `SerialSpec => FencedSpec` | worker lanes only |
| `ExecutionIsExclusive`, `LedgerIsTruthful` | `SerialSpec => []...` | worker lanes only |
| `LateResultsAreRejected` | `SerialSpec => LateResultsRejected` | worker lanes only |
| `ClaimImplementsLease` | `SerialSpec => ImplementsLease` | worker lanes only |

Assumptions: `NoTask` is no task, lanes are lanes, the timeout is a natural
number. "Worker lanes only" (in the table) is `Lanes \subseteq WorkerLanes`: with the bounded lane
these properties are false (finding 1).

The argument is layered, and each layer is inductive given those below it.

1. `LeaseInv`: types, an active claim names a task, and the lease clock
   satisfies `left + age = ttl`. The last is why no heartbeat is ever swallowed:
   inside the threshold the heartbeat is at least `ttl - threshold` old, which
   exceeds the cadence for every timeout.
2. `ClaimInv`, of `Spec` on every lane: a claim's holder carries its token and runs, unless it is
   a bounded task that has finished (`ActiveClaimIsBacked`); a task runs only while it holds the
   claim, and a RUNNING run has one that does (`RunningTasksHold`). A late `Land` keeps both, because
   it ends only a claim of its own task, and a reclaimed task runs no longer. A finalizer in time
   might leave a RUNNING run without a task, if it had read the status it sets and so wrote
   none; `SeenIsFresh` excludes this: one that still holds its claim has read RUNNING if the
   run is RUNNING.
3. `TokensBehind`, of `Spec` on every lane: tokens in the ledger do not exceed the claim's version, so
   whoever hands out the next one hands out a new one, and the reclaim inside an acquisition
   takes a token of its own.
4. `FencedInv`, of `FencedSpec`: a task not dispatched has left no trace, a READY run is free, the run is
   RUNNING exactly while there is a task that holds it, and a holder
   that is not running is a bounded task whose controller is done (`OnlyFinishedLinger`; without it a
   crashed or late controller could act once more on the claim it left). From it every step is one of
   five kinds or moves neither claim nor task (`FencedCases`): `Grants`, `Settles`, `Finishes` (a
   bounded result, whose claim stays), `Revokes`, and `Clears` (the reclaim of a claim left
   behind). That ledger and rows agree (`LedgerTellsOneStory`) then takes five small cases, since only
   these kinds matter.
5. The refinement of `FencedLease`: the holder is the task that executes, and the fence of a claim
   left behind is the one its reclaim will write. Then `Finishes` settles, as `Settles` does,
   and `Clears` is a stutter.
6. `SerialSpec` on the worker lanes: a finalizer past its check still holds the claim
   (`FinalizersAreCurrent`; the only place serialisation is used), so it implements `FencedSpec`, and the
   serial theorems follow from 4 and 5.

`ApprovalGateProofs` proves, for any founders and sweepers and without further
assumptions:

| theorem | about |
|---|---|
| `GateTypeCorrect` | `Spec => []TypeOK` |
| `RunsWaitForTheirApproval` | `Spec => []WaitsForItsApproval` |
| `GateHolds` | `Spec => []NothingPassesUnjudged` (but for audits and proposals) |
| `VerdictsRespectClaims` | `Spec => []ExecutionOutlivesVerdicts` |
| `CheckedVerdictsStick` | `CheckedSpec => []RunFollowsVerdict` |
| `CheckedGateImplementsVerdict` | `CheckedSpec => ImplementsVerdict` |
| `SerialCommandsAreChecked` | `SerialSpec => CheckedSpec` |
| `VerdictsStick` | `SerialSpec => []RunFollowsVerdict` |
| `ApprovalsAreResolvedOnce` | `SerialSpec => []ResolvedOnce` |
| `GateImplementsVerdict` | `SerialSpec => ImplementsVerdict` |

`GateInv` adds two facts to the properties. `StatusWasEarned`: a READY, RUNNING,
COMPLETED or FAILED run has an approval in its ledger and a REJECTED one a
rejection, which is what lets a dispatch and a recording conclude that somebody has
judged. `KeptRunsAreJudged`: a sweep that decided to leave the run alone saw it no longer
waiting, and no step makes a run wait again. `CheckedInv` adds that a run is RUNNING exactly while
its claim is held, that status and approval agree and that there is one resolution at most;
every step of `CheckedSpec` is then a judgement, a beginning, an end or a stutter. That `SerialSpec`
implements `CheckedSpec` needs `CommandsAreCurrent`: a command that has read the approval still
finds it pending. The rest follows.

`PatchIntakeProofs` proves, for any tasks, founders, files, modules and limits:

| theorem | about |
|---|---|
| `PatchTypeCorrect` | `Spec => []TypeOK` |
| `ApplicationsAreExclusive` | `Spec => []OneApplierAtATime` |
| `FilesMatchTheLedger` | `Spec => []FilesFollowTheLedger` |
| `NoPatchIsLost` | `Spec => []PatchesSawEachOther` |
| `RepairLoopsReachTheFounder` | `Spec => []RepairLoopIsEscalated` |
| `BurstsReachTheFounder` | `Spec => []BurstsAreReviewed` |
| `RunsAreStrandedByOutdatedReviews` | `Spec => OnlyOutdatedReviewsStrand` |
| `OnlyOutdatedReviewsDiverge` | `Spec => OnlyOutdatedReviewsOverwrite` |
| `SerialReviewsAreAtomic` | `SerialSpec => Review!Spec` (`AtomicReview`) |
| `SerialReviewsStrandNothing` | `SerialSpec => []Backed` (a RUNNING run has its claim) |
| `SerialReviewsStand` | `SerialSpec => ResolvedPatchStands` |

Assumptions: tasks, founders and outside edits are different things. `TypeInv` adds to the types
that whoever reviews or applies has an intake. `PatchInv` adds exclusion and
where a patch can be and what its worker can have seen of it: a task without a
result has no patch, a patch is in none but its own files, no worker saw its own patch,
and no patch is empty. `FileInv` follows one application: from the base check to git
apply the files hold no patch the worker did not see (`CleanStays`; edits may still come in),
hence the patch itself is not there yet; under validation it is there for the
first time (`InPlace`); everything not torn is where the ledger says (`Settled`). A
second application of a patch already in the files fails its base check, which is
why overwritten verdicts never put it there twice nor take it out.

`PolicyInv` adds to `PatchInv` that the window is finite, the two
limits themselves, and `RoomForPatch`: a task that applies its own patch still has room for it
around each of its modules, since nobody else can resolve anything while it holds the claim row. A
rejection counts every failure around its modules, so the count that meets the quota is
made by whoever meets it. Both limits are assumed natural numbers, the quota not 0.

`ReviewInv` is `FileInv` with what the mapping to `AtomicReview` needs of rows and stages (a task has
no intake before it is done, a founder reviews what has one). Each step of the strict application is then a stutter until its commit, which
judges and changes the content in one; a failed rollback, a lost transaction and an automatic
application that raises leave the patch in `torn` and are stutters or submissions. The one kind of step that
maps to nothing is named in the property and is the one that finding 4 shows. Under
`SerialSpec` the invariant `Current` (a founder in the middle of a command holds the row's present
status and a pending intake) excludes it, and the same invariant gives the other two.

`PlannerLoopProofs` proves, for any planners, founders, proposals, limits and bounds:

| theorem | about |
|---|---|
| `TypeCorrect` | `Spec => []TypeOK` |
| `EngineIsNeverStuck` | `Spec => []NeverStuck` |
| `BudgetBindsEachPlanner` | `Spec => []WrongAnswersAreBounded` |
| `SelectionsAreUnique` | `Spec => []OneSelectionPerSegment` |
| `HelpIsPaidFor` | `Spec => []HelpIsBounded` |
| `IntentsAreJudgedOnce` | `Spec => NoSecondAcceptance` |
| `FailuresAreEscalated` | `Spec => RepeatedFailureNeedsFounder` |

Assumptions: planners, founders and `Nobody` are different, a budget is at least 1, the other
limits are natural numbers, and the run starts in some situation. `Inv` is `TypeOK` and one
conjunct per planner, `PlannerInv(p)`: its command carries what its stage
needs (`JudgesProposal`); wrong answers are counted in the budget, a command let through had a unit left,
and a phase without one is closed or about to be (`Counted`); a command that saw no acceptance still
has none of its planner's in that segment (`Selecting`); one that found no earlier attempt of its
intent still finds none of its planner's (`Remembering`); and one whose hash is still fresh went through with
an empty lane, and judges where no failure is repeated (`FreshLane`).
Each step is either p's own, treated stage by stage, or somebody else's, and then `Undisturbed(p)`
says all that can have happened to p: this one frame lemma is what makes the invariants
per planner independent of how many there are. `HelpIsPaidFor` needs more, since a founder pays for
help with a look at the lane and a later reply: `Helped(p)` follows an escalation from its
grant through the lane to the desk that answers it.

`PlannerSerialProofs` proves of the same module, with commands one after the other:

| theorem | about |
|---|---|
| `SerialBudgetIsShared` | `SerialSpec => []BudgetIsShared`: all planners together stay within a phase's budget, and one unit per death |
| `SerialSelectionIsUnique` | `SerialSpec => []SelectionIsShared`: one accepted proposal per segment, of whichever planner |
| `SerialIntentsAreJudgedOnce` | `SerialSpec => IntentsAreShared`: an intent tried by anybody is accepted from nobody |

`SerialInv` adds to `Inv` that one process at most has a command under way (`Alone`) and that what a
planner's command has read of the ledger is still so (`Holds(p)`): only a process that moves from one
stage to the next writes rows, and by `Alone` it is the reader itself. For the budget, `Unshared`
says that nobody else's hash is ever the one a request for help quotes (the one charge that does not
close the phase needs such a hash), `Beyond` that phases to come are untouched, `Metered` that a spent
phase is closed or about to be, and `LetThrough` that a command which may be charged found a unit left.
The run's advance is not serialised, so a command may be charged in the phase it
read while the run is in the next one; the
second half of `Metered` therefore speaks of the run's own phase only.

`PlannerProgressProofs` proves what `CommandsEnd` owes to the code, for any retry limits and under
every interleaving:

| theorem | about |
|---|---|
| `CommandsAreNeverStranded` | `Spec => []NoCommandIsStranded`: a command under way is at a stage somebody goes on from, with what that stage needs and its retries within their limits |
| `CommandsRunOut` | `Spec => CommandsRunDown`: each step of a command lowers `StepsLeft`, no other process raises it |

`StepsLeft` is the rest of the way at each stage; while the provider thinks it adds the tries
left to this answer and, for each malformed answer still allowed, all tries anew. That measure
goes down because a malformed answer costs more than the tries it gives back
(`RetriesRunOut`). The other processes are dealt with by `Undisturbed` again. With weak fairness of
`PlannerStep(p)`, and its being enabled wherever a command is under way, this is `CommandsEnd`; those two
are TLC's.

`ContainerWorkerProofs` proves, for any dispatchers, runs, thresholds and bounds:

| theorem | about |
|---|---|
| `TypeCorrect` | `Spec => []TypeOK` |
| `LostContainersLandNothing` | `Spec => []EvictedNeverLands` |
| `CollectionIsComplete` | `Spec => []CollectedStaysGone` |
| `NothingIsLeftBehind` | `Spec => []FinishedCallsLeaveNothing` |
| `TrustIsPolicy` | `Spec => []TrustFollowsVerdicts` |

Assumptions: thresholds are at least 1 (strikes) and 2 (recovery), `NoRun` is no run. A call's number is
its own and never used again, containers are created once under it, and a call that has its
patch out of the container still had it then. For the trust row, the invariant says which history each
dispatcher has read, and two lemmas about the end of a sequence say what one more verdict does to
`Trailing` and to `Untrusted`.

`WorkerLaneProofs` proves `LaneImplementsCalls` (`LaneSpec => Spec`: the lane implements the calls, so their
theorems hold of it), `RoutesAreSound` (`LaneSpec => []RoutingIsSound`) and `CapturesAreExact`
(`LaneSpec => []CapturesAgree`) for any buffer sizes with head and tail within the whole, and any bytes.
The capture's state is a function of the stream (`CaptureOf`), and feeding it a chunk gives that
of the longer stream; the lemmas are about prefixes and suffixes of concatenations.

Only model-checked: the four liveness properties (`ClaimsAreGivenUp`, `RunningTaskSettles`,
`WaitingRunMovesOn`, `CommandsEnd`), since TLAPS does not do liveness under fairness or
`ENABLED`; of `CommandsEnd` the measure is proved. Every invariant and action property of the passing
runs is proved.

Proved and checked by no run of the project, because the run would ask again what another one asks:
the theorems about `FencedSpec` and `CheckedSpec` where they do not name a property of a run,
those about `SerialSpec` of `PatchIntake` and `PlannerLoop`, and `CommandsAreNeverStranded` and
`CommandsRunOut`. Each was tried with TLC on the instance of the module's runs before it was proved.

## 5. Not modelled, and why

* **The freshness refusal of founder mutations** (`_assert_snapshot_freshness`, 2538). It compares in a session of
  its own and only refuses, so the interleavings without it include those with it.
* **The stale quota**: it only chooses between two errors.
* **An override's decision and execution**: the reply is modelled; the execution
  that follows is a dispatch of the bounded lane, which is `ExecutionClaim`'s.
* **Evidence**: artifacts, receipts, decisions, observations and their texts; no transition depends on them.
* **Prompts, context window, mapping of provider errors** of the LangGraph adapter: the model's answer
  is arbitrary, its errors are retried, fatal or malformed.
* **Replay, progress and consistency views**: read-only; `LedgerTellsOneStory` and
  `FilesFollowTheLedger` say that what they read agrees with the rows.
* **CLI, configuration, migrations**: parsing, rendering and I/O.

What could come next: the composition of `ApprovalGate`, `PatchIntake` and `ExecutionClaim` under one
run status (which completed runs come back); `FencedSpec` in `PatchIntake`, whose claims have no
clock; and liveness of a run's way to its end under a diligent founder.
