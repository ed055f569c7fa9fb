------------------------- MODULE ApprovalGateProofs -------------------------
(***************************************************************************)
(* Proofs about ApprovalGate, for any sets of founders and sweepers.       *)
(***************************************************************************)
EXTENDS ApprovalGate, TLAPS

\* What a resolution adds to the ledger.
LEMMA ResolvedAppend ==
  ASSUME NEW verdict \in Verdicts, NEW S, resolutions \in Seq(Verdicts),
         resolutions' = Append(resolutions, verdict)
  PROVE  /\ resolutions' \in Seq(Verdicts)
         /\ resolutions' # <<>>
         /\ Len(resolutions') = Len(resolutions) + 1
         /\ Resolved(S)' <=> Resolved(S) \/ verdict \in S
  <1>1. /\ resolutions' \in Seq(Verdicts)
        /\ Len(resolutions') = Len(resolutions) + 1
        /\ resolutions' # <<>>
    OBVIOUS
  <1>2. \A i \in DOMAIN resolutions : i \in DOMAIN resolutions' /\ resolutions'[i] = resolutions[i]
    OBVIOUS
  <1>3. /\ Len(resolutions) + 1 \in DOMAIN resolutions'
        /\ resolutions'[Len(resolutions) + 1] = verdict
    OBVIOUS
  <1>4. \A i \in DOMAIN resolutions' : i \in DOMAIN resolutions \/ i = Len(resolutions) + 1
    OBVIOUS
  <1>5. Resolved(S)' => Resolved(S) \/ verdict \in S
    BY <1>2, <1>3, <1>4 DEF Resolved
  <1>6. Resolved(S) \/ verdict \in S => Resolved(S)'
    BY <1>2, <1>3 DEF Resolved
  <1> QED BY <1>1, <1>5, <1>6

LEMMA TypeInit == Init => TypeOK
  <1> SUFFICES ASSUME Init PROVE TypeOK
    OBVIOUS
  <1>1. founder \in [Founders -> {"idle", "resolving", "resolved", "refused"}]
    BY DEF Init
  <1>2. sweeper \in [Sweepers -> {"idle", "expiring", "suspending", "keeping"}]
    BY DEF Init
  <1>3. resolutions \in Seq(Verdicts)
    BY DEF Init
  <1>4. runStatus \in RunStatuses /\ recorded \in SUBSET {"work", "proposal", "audit"}
    BY DEF Init, RunStatuses
  <1> QED BY <1>1, <1>2, <1>3, <1>4 DEF Init, TypeOK

LEMMA TypeStep == TypeOK /\ [Next]_vars => TypeOK'
  <1> SUFFICES ASSUME TypeOK, [Next]_vars PROVE TypeOK'
    OBVIOUS
  <1> USE DEF TypeOK
  <1>1. ASSUME NEW f \in Founders, FounderReads(f) PROVE TypeOK'
    BY <1>1 DEF FounderReads
  <1>2. ASSUME NEW f \in Founders, FounderRefused(f) PROVE TypeOK'
    BY <1>2 DEF FounderRefused
  <1>3. ASSUME NEW f \in Founders, NEW verdict \in {"approved", "rejected"},
               FounderResolves(f, verdict)
        PROVE  TypeOK'
    <2>1. verdict \in Verdicts /\ resolutions' = Append(resolutions, verdict)
      BY <1>3 DEF FounderResolves, Verdicts
    <2>2. resolutions' \in Seq(Verdicts)
      BY <2>1
    <2> QED BY <1>3, <2>1, <2>2 DEF FounderResolves, StatusAfter, RunStatuses
  <1>4. ASSUME NEW s \in Sweepers, SweepSelects(s) \/ SweepReadsRun(s) PROVE TypeOK'
    BY <1>4 DEF SweepSelects, SweepReadsRun
  <1>5. ASSUME NEW s \in Sweepers, SweepCommits(s) PROVE TypeOK'
    <2>1. "expired" \in Verdicts /\ resolutions' = Append(resolutions, "expired")
      BY <1>5 DEF SweepCommits, Verdicts
    <2>2. resolutions' \in Seq(Verdicts)
      BY <2>1
    <2> QED BY <1>5, <2>1, <2>2 DEF SweepCommits, RunStatuses
  <1>6. CASE FallsDue \/ RecordWork \/ RecordProposal
    BY <1>6 DEF FallsDue, RecordWork, RecordProposal
  <1>7. CASE Dispatch \/ LeaseLapses \/ Reclaim \/ ResultLands
    BY <1>7 DEF Dispatch, LeaseLapses, Reclaim, ResultLands, RunStatuses
  <1>8. CASE UNCHANGED vars
    BY <1>8 DEF vars
  <1> QED BY <1>1, <1>2, <1>3, <1>4, <1>5, <1>6, <1>7, <1>8 DEF Next

\* Every reachable state is well typed, whoever overwrites whose verdict.
THEOREM GateTypeCorrect == Spec => []TypeOK
  <1> QED BY TypeInit, TypeStep, PTL DEF Spec

-----------------------------------------------------------------------------
(* Every interleaving.  The gate invariants need two facts more: which     *)
(* verdict a run's status is owed to, and that a sweep that keeps a run    *)
(* has seen it judged, which it then stays.                                *)

StatusWasEarned ==
  /\ runStatus = "rejected" => Resolved({"rejected"})
  /\ runStatus \in {"ready", "running", "completed", "failed"} => Resolved({"approved"})
KeptRunsAreJudged ==
  \A s \in Sweepers : sweeper[s] = "keeping" => runStatus # "waiting_approval"
GateInv ==
  /\ TypeOK
  /\ WaitsForItsApproval
  /\ NothingPassesUnjudged
  /\ ExecutionOutlivesVerdicts
  /\ StatusWasEarned
  /\ KeptRunsAreJudged

LEMMA GateInit == Init => GateInv
  BY TypeInit DEF Init, GateInv, WaitsForItsApproval, NothingPassesUnjudged,
     ExecutionOutlivesVerdicts, StatusWasEarned, KeptRunsAreJudged

LEMMA NothingResolvedYet ==
  ASSUME TypeOK, WaitsForItsApproval, runStatus = "waiting_approval", NEW S
  PROVE  ~Resolved(S)
  BY DEF WaitsForItsApproval, Resolved

\* Steps that leave the ledger of resolutions alone.
LEMMA UnresolvedStep ==
  ASSUME GateInv, resolutions' = resolutions, approval' = approval, TypeOK',
         runStatus' = runStatus \/ (runStatus # "waiting_approval" /\ runStatus' # "waiting_approval"),
         "work" \in recorded' => "work" \in recorded \/ Resolved({"approved", "rejected"}),
         claim' # "none" => claim # "none" \/ Resolved({"approved"}),
         claim' = "live" => runStatus' \in {"running", "suspended"},
         runStatus' = runStatus \/ Resolved({"approved"}),
         runStatus' = runStatus \/ runStatus' # "rejected",
         \A s \in Sweepers : sweeper'[s] = "keeping" =>
            sweeper[s] = "keeping" \/ runStatus' # "waiting_approval"
  PROVE  GateInv'
  <1>1. \A S : Resolved(S)' <=> Resolved(S)
    BY DEF Resolved
  <1>2. WaitsForItsApproval'
    BY DEF GateInv, WaitsForItsApproval
  <1>3. NothingPassesUnjudged'
    BY <1>1 DEF GateInv, NothingPassesUnjudged
  <1>4. StatusWasEarned'
    BY <1>1 DEF GateInv, StatusWasEarned
  <1>5. KeptRunsAreJudged'
    BY DEF GateInv, KeptRunsAreJudged
  <1> QED BY <1>2, <1>3, <1>4, <1>5 DEF GateInv, ExecutionOutlivesVerdicts

LEMMA FounderStep ==
  ASSUME GateInv, NEW f \in Founders, NEW verdict \in {"approved", "rejected"},
         FounderResolves(f, verdict), TypeOK'
  PROVE  GateInv'
  <1>1. /\ resolutions \in Seq(Verdicts) /\ verdict \in Verdicts
        /\ resolutions' = Append(resolutions, verdict)
    BY DEF GateInv, TypeOK, FounderResolves, Verdicts
  <1>2. \A S : Resolved(S)' <=> Resolved(S) \/ verdict \in S
    BY <1>1, ResolvedAppend
  <1>3. resolutions' # <<>>
    BY <1>1, ResolvedAppend
  <1>4. WaitsForItsApproval'
    BY <1>3 DEF FounderResolves, StatusAfter, WaitsForItsApproval
  <1>5. NothingPassesUnjudged'
    BY <1>2 DEF GateInv, NothingPassesUnjudged, FounderResolves
  <1>6. ExecutionOutlivesVerdicts'
    BY DEF FounderResolves, NoLiveClaim, ExecutionOutlivesVerdicts
  <1>7. StatusWasEarned'
    BY <1>2 DEF FounderResolves, StatusAfter, StatusWasEarned
  <1>8. KeptRunsAreJudged'
    BY DEF FounderResolves, StatusAfter, KeptRunsAreJudged
  <1> QED BY <1>4, <1>5, <1>6, <1>7, <1>8 DEF GateInv

LEMMA SweepStep ==
  ASSUME GateInv, NEW s \in Sweepers, SweepCommits(s), TypeOK'
  PROVE  GateInv'
  <1>1. /\ resolutions \in Seq(Verdicts) /\ "expired" \in Verdicts
        /\ resolutions' = Append(resolutions, "expired")
    BY DEF GateInv, TypeOK, SweepCommits, Verdicts
  <1>2. \A S : Resolved(S)' <=> Resolved(S) \/ "expired" \in S
    BY <1>1, ResolvedAppend
  <1>3. resolutions' # <<>>
    BY <1>1, ResolvedAppend
  <1>4. /\ runStatus' = "suspended" \/ runStatus' = runStatus
        /\ runStatus' # "waiting_approval"
    BY DEF GateInv, KeptRunsAreJudged, SweepCommits, Suspends
  <1>5. WaitsForItsApproval'
    BY <1>3, <1>4 DEF SweepCommits, WaitsForItsApproval
  <1>6. NothingPassesUnjudged'
    BY <1>2 DEF GateInv, NothingPassesUnjudged, SweepCommits
  <1>7. ExecutionOutlivesVerdicts'
    BY <1>4 DEF GateInv, SweepCommits, ExecutionOutlivesVerdicts
  <1>8. StatusWasEarned'
    BY <1>2, <1>4 DEF GateInv, SweepCommits, StatusWasEarned
  <1>9. KeptRunsAreJudged'
    BY <1>4 DEF KeptRunsAreJudged
  <1> QED BY <1>5, <1>6, <1>7, <1>8, <1>9 DEF GateInv

LEMMA GateStep == GateInv /\ [Next]_vars => GateInv'
  <1> SUFFICES ASSUME GateInv, [Next]_vars PROVE GateInv'
    OBVIOUS
  <1>0. TypeOK /\ TypeOK'
    BY TypeStep DEF GateInv
  <1>1. ASSUME NEW f \in Founders, FounderReads(f) \/ FounderRefused(f) PROVE GateInv'
    BY <1>0, <1>1, UnresolvedStep DEF FounderReads, FounderRefused, GateInv, ExecutionOutlivesVerdicts
  <1>2. ASSUME NEW f \in Founders, NEW verdict \in {"approved", "rejected"},
               FounderResolves(f, verdict)
        PROVE  GateInv'
    BY <1>0, <1>2, FounderStep
  <1>3. ASSUME NEW s \in Sweepers, SweepSelects(s) \/ SweepReadsRun(s) PROVE GateInv'
    BY <1>0, <1>3, UnresolvedStep
       DEF SweepSelects, SweepReadsRun, GateInv, TypeOK, ExecutionOutlivesVerdicts
  <1>4. ASSUME NEW s \in Sweepers, SweepCommits(s) PROVE GateInv'
    BY <1>0, <1>4, SweepStep
  <1>5. CASE FallsDue
    BY <1>0, <1>5, UnresolvedStep DEF FallsDue, GateInv, ExecutionOutlivesVerdicts
  <1>6. CASE RecordWork
    <2>1. runStatus \in {"ready", "running", "completed", "failed", "rejected"}
      BY <1>0, <1>6 DEF RecordWork, StatusGuard, TypeOK, RunStatuses
    <2>2. Resolved({"approved", "rejected"})
      BY <2>1 DEF GateInv, StatusWasEarned, Resolved
    <2> QED BY <1>0, <1>6, <2>2, UnresolvedStep DEF RecordWork, GateInv, ExecutionOutlivesVerdicts
  <1>7. CASE Dispatch
    <2>1. runStatus = "ready" /\ Resolved({"approved"})
      BY <1>7 DEF Dispatch, Dispatchable, GateInv, StatusWasEarned
    <2> QED BY <1>0, <1>7, <2>1, UnresolvedStep DEF Dispatch
  <1>8. CASE LeaseLapses
    BY <1>0, <1>8, UnresolvedStep DEF LeaseLapses
  <1>9. CASE Reclaim \/ ResultLands
    <2>1. claim \in {"live", "lapsed"} /\ Resolved({"approved"})
      BY <1>9 DEF Reclaim, ResultLands, GateInv, NothingPassesUnjudged
    <2>2. runStatus # "waiting_approval"
      BY <1>0, <2>1, NothingResolvedYet DEF GateInv
    <2> QED BY <1>0, <1>9, <2>1, <2>2, UnresolvedStep DEF Reclaim, ResultLands
  <1>10. CASE RecordProposal
    BY <1>0, <1>10, UnresolvedStep DEF RecordProposal, GateInv, ExecutionOutlivesVerdicts
  <1>11. CASE UNCHANGED vars
    BY <1>0, <1>11, UnresolvedStep DEF vars, GateInv, ExecutionOutlivesVerdicts
  <1> QED BY <1>1, <1>2, <1>3, <1>4, <1>5, <1>6, <1>7, <1>8, <1>9, <1>10, <1>11 DEF Next

LEMMA GateInvariant == Spec => []GateInv
  BY GateInit, GateStep, PTL DEF Spec

\* The run waits exactly while its approval is pending and the ledger is
\* silent about it, in every interleaving of founders and sweeps.
THEOREM RunsWaitForTheirApproval == Spec => []WaitsForItsApproval
  <1>1. GateInv => WaitsForItsApproval
    BY DEF GateInv
  <1> QED BY <1>1, GateInvariant, PTL

\* Work is recorded only after a founder has spoken, and tasks are dispatched
\* only after one has approved, even if a sweep or a second founder overwrites
\* the verdict, and whatever a planner proposes meanwhile.
THEOREM GateHolds == Spec => []NothingPassesUnjudged
  <1>1. GateInv => NothingPassesUnjudged
    BY DEF GateInv
  <1> QED BY <1>1, GateInvariant, PTL

\* A founder's verdict never reaches a run that a task with a live claim is
\* executing.
THEOREM VerdictsRespectClaims == Spec => []ExecutionOutlivesVerdicts
  <1>1. GateInv => ExecutionOutlivesVerdicts
    BY DEF GateInv
  <1> QED BY <1>1, GateInvariant, PTL

-----------------------------------------------------------------------------
(* Checked resolutions: whoever resolves the approval finds it pending.    *)

ExecutingRunIsRunning == claim \in {"live", "lapsed"} <=> runStatus = "running"
CheckedInv ==
  /\ GateInv
  /\ ExecutingRunIsRunning
  /\ RunFollowsVerdict
  /\ ResolvedOnce

\* The statuses of a run that an approval has let through.
Approved == {"ready", "running", "completed", "failed"}

\* The next verdict is the first one: the run waits for it, untouched.
LEMMA PendingRun ==
  ASSUME CheckedInv, approval = "pending"
  PROVE  /\ runStatus = "waiting_approval"
         /\ claim = "none"
         /\ resolutions = <<>>
  <1>1. runStatus = "waiting_approval" /\ resolutions = <<>>
    BY DEF CheckedInv, GateInv, WaitsForItsApproval
  <1>2. ~Resolved({"approved"})
    BY <1>1, NothingResolvedYet DEF CheckedInv, GateInv
  <1> QED BY <1>1, <1>2 DEF CheckedInv, GateInv, NothingPassesUnjudged

\* An approved run's approval, conversely, is neither open nor a refusal.
LEMMA ApprovedRun ==
  ASSUME CheckedInv, runStatus \in Approved
  PROVE  approval = "approved"
  BY DEF CheckedInv, GateInv, TypeOK, Verdicts, WaitsForItsApproval, RunFollowsVerdict, Approved

\* What a judgement does, whoever makes it.
Judged(verdict) ==
  /\ approval = "pending" /\ approval' = verdict
  /\ claim = "none" /\ claim' = "none"
  /\ resolutions = <<>> /\ resolutions' = Append(resolutions, verdict)
  /\ runStatus' = IF verdict = "approved" THEN "ready"
                  ELSE IF verdict = "rejected" THEN "rejected" ELSE "suspended"

LEMMA FounderJudges ==
  ASSUME CheckedInv, NEW f \in Founders, NEW verdict \in {"approved", "rejected"},
         FounderResolves(f, verdict), approval = "pending"
  PROVE  Judged(verdict)
  BY PendingRun DEF FounderResolves, StatusAfter, Judged

LEMMA SweepJudges ==
  ASSUME CheckedInv, NEW s \in Sweepers, SweepCommits(s), approval = "pending"
  PROVE  Judged("expired")
  <1>1. sweeper[s] = "suspending"
    BY PendingRun DEF CheckedInv, GateInv, KeptRunsAreJudged, SweepCommits
  <1> QED BY <1>1, PendingRun DEF SweepCommits, Suspends, Judged

\* Every checked step judges the run, begins, ends or only delays an
\* execution, or concerns none of this.
LEMMA CheckedCases ==
  ASSUME CheckedInv, [CheckedNext]_vars
  PROVE  \/ \E verdict \in Verdicts : Judged(verdict)
         \/ Dispatch \/ LeaseLapses \/ Reclaim \/ ResultLands
         \/ UNCHANGED <<runStatus, approval, claim, resolutions>>
  <1>0. ResolvesApproval => approval = "pending" \/ UNCHANGED vars
    BY DEF CheckedNext
  <1>1. ASSUME NEW f \in Founders, NEW verdict \in {"approved", "rejected"},
               FounderResolves(f, verdict), approval = "pending"
        PROVE  \E v \in Verdicts : Judged(v)
    BY <1>1, FounderJudges DEF Verdicts
  <1>2. ASSUME NEW s \in Sweepers, SweepCommits(s), approval = "pending"
        PROVE  \E v \in Verdicts : Judged(v)
    BY <1>2, SweepJudges DEF Verdicts
  <1>3. ASSUME NEW f \in Founders, FounderReads(f) \/ FounderRefused(f)
        PROVE  UNCHANGED <<runStatus, approval, claim, resolutions>>
    BY <1>3 DEF FounderReads, FounderRefused
  <1>4. ASSUME NEW s \in Sweepers, SweepSelects(s) \/ SweepReadsRun(s)
        PROVE  UNCHANGED <<runStatus, approval, claim, resolutions>>
    BY <1>4 DEF SweepSelects, SweepReadsRun
  <1>5. ASSUME FallsDue \/ RecordWork \/ RecordProposal \/ UNCHANGED vars
        PROVE  UNCHANGED <<runStatus, approval, claim, resolutions>>
    BY <1>5 DEF FallsDue, RecordWork, RecordProposal, vars
  <1> QED BY <1>0, <1>1, <1>2, <1>3, <1>4, <1>5 DEF CheckedNext, Next, ResolvesApproval

LEMMA CheckedStep == CheckedInv /\ [CheckedNext]_vars => CheckedInv'
  <1> SUFFICES ASSUME CheckedInv, [CheckedNext]_vars PROVE CheckedInv'
    OBVIOUS
  <1>1. GateInv'
    BY GateStep DEF CheckedInv, CheckedNext
  <1>2. (ExecutingRunIsRunning /\ RunFollowsVerdict /\ ResolvedOnce)'
    <2> USE DEF ExecutingRunIsRunning, RunFollowsVerdict, ResolvedOnce
    <2>1. ASSUME NEW verdict \in Verdicts, Judged(verdict)
          PROVE  (ExecutingRunIsRunning /\ RunFollowsVerdict /\ ResolvedOnce)'
      <3>1. (ExecutingRunIsRunning /\ RunFollowsVerdict)'
        BY <2>1 DEF Judged, Verdicts
      <3>2. Len(resolutions') = 1
        BY <2>1 DEF Judged
      <3> QED BY <3>1, <3>2
    <2>2. CASE Dispatch
      BY <2>2, ApprovedRun DEF Dispatch, Dispatchable, Approved, CheckedInv
    <2>3. CASE LeaseLapses
      BY <2>3 DEF LeaseLapses, CheckedInv
    <2>4. CASE Reclaim
      BY <2>4, ApprovedRun DEF Reclaim, Approved, CheckedInv
    <2>5. CASE ResultLands
      BY <2>5, ApprovedRun DEF ResultLands, Approved, CheckedInv
    <2>6. CASE UNCHANGED <<runStatus, approval, claim, resolutions>>
      BY <2>6 DEF CheckedInv
    <2> QED BY <2>1, <2>2, <2>3, <2>4, <2>5, <2>6, CheckedCases
  <1> QED BY <1>1, <1>2 DEF CheckedInv

LEMMA CheckedInvariant == CheckedSpec => []CheckedInv
  <1>1. Init => CheckedInv
    BY GateInit DEF Init, CheckedInv, ExecutingRunIsRunning,
       RunFollowsVerdict, ResolvedOnce
  <1> QED BY <1>1, CheckedStep, PTL DEF CheckedSpec

\* As long as whoever resolves the approval finds it pending, a run's status
\* and its approval never disagree: a rejected run stays rejected and a
\* suspended one suspended, whatever the interleaving.
THEOREM CheckedVerdictsStick == CheckedSpec => []RunFollowsVerdict
  <1>1. CheckedInv => RunFollowsVerdict
    BY DEF CheckedInv
  <1> QED BY <1>1, CheckedInvariant, PTL

\* Checked resolutions are all it takes for the gate to be the one-shot verdict
\* it stands for: one judgement, and executions under an approval only.
THEOREM CheckedGateImplementsVerdict == CheckedSpec => ImplementsVerdict
  <1>1. Init => Verdict!Init
    BY DEF Init, Verdict!Init
  <1>2. CheckedInv /\ [CheckedNext]_vars => [Verdict!Next]_(Verdict!vars)
    <2> SUFFICES ASSUME CheckedInv, [CheckedNext]_vars
                 PROVE  [Verdict!Next]_(Verdict!vars)
      OBVIOUS
    <2>1. ASSUME NEW verdict \in Verdicts, Judged(verdict) PROVE Verdict!Judge(verdict)
      BY <2>1 DEF Judged, Verdict!Judge
    <2>2. CASE Dispatch
      <3>1. approval = "approved"
        BY <2>2, ApprovedRun DEF Dispatch, Dispatchable, Approved
      <3> QED BY <2>2, <3>1 DEF Dispatch, Dispatchable, Verdict!Next, Verdict!Begin
    <2>3. CASE LeaseLapses
      BY <2>3 DEF LeaseLapses, Verdict!vars
    <2>4. CASE Reclaim
      BY <2>4 DEF Reclaim, Verdict!Next, Verdict!End
    <2>5. CASE ResultLands
      BY <2>5 DEF ResultLands, Verdict!Next, Verdict!End
    <2>6. CASE UNCHANGED <<runStatus, approval, claim, resolutions>>
      BY <2>6 DEF Verdict!vars
    <2> QED BY <2>1, <2>2, <2>3, <2>4, <2>5, <2>6, CheckedCases DEF Verdict!Next, Verdicts
  <1> QED BY CheckedInvariant, <1>1, <1>2, PTL DEF CheckedSpec, ImplementsVerdict, Verdict!Spec

-----------------------------------------------------------------------------
(* Serialised commands.  A command that has read the approval as pending   *)
(* still finds it so.                                                      *)

CommandsAreCurrent ==
  /\ \A f \in Founders : founder[f] = "resolving" => approval = "pending"
  /\ \A s \in Sweepers : sweeper[s] # "idle" => approval = "pending"

\* Commands stay current: a step that judges the run is the only command
\* under way, and a command comes under way while the approval is open.
LEMMA CurrentStep ==
  ASSUME GateInv, CommandsAreCurrent, [SerialNext]_vars
  PROVE  CommandsAreCurrent'
  <1>1. CASE UNCHANGED vars
    BY <1>1 DEF CommandsAreCurrent, vars
  <1>2. CASE SerialNext
    <2>1. ASSUME NEW f \in Founders, founder'[f] = "resolving"
          PROVE  approval' = "pending"
      <3>1. founder[f] # "resolving"
        BY <1>2, <2>1 DEF SerialNext, Serialised
      <3>2. FounderReads(f)
        BY <1>2, <2>1, <3>1
           DEF SerialNext, Next, FounderReads, FounderRefused, FounderResolves, SweepSelects,
               SweepReadsRun, SweepCommits, FallsDue, RecordWork, RecordProposal, Dispatch,
               LeaseLapses, Reclaim, ResultLands, GateInv, TypeOK
      <3> QED BY <2>1, <3>2 DEF FounderReads, GateInv, TypeOK
    <2>2. ASSUME NEW s \in Sweepers, sweeper'[s] # "idle"
          PROVE  approval' = "pending"
      <3>1. sweeper[s] # "idle" => sweeper'[s] # sweeper[s]
        BY <1>2 DEF SerialNext, Serialised
      <3>2. SweepSelects(s) \/ SweepReadsRun(s)
        BY <1>2, <2>2, <3>1
           DEF SerialNext, Next, FounderReads, FounderRefused, FounderResolves, SweepSelects,
               SweepReadsRun, SweepCommits, FallsDue, RecordWork, RecordProposal, Dispatch,
               LeaseLapses, Reclaim, ResultLands, GateInv, TypeOK
      <3> QED BY <3>2 DEF SweepSelects, Selected, SweepReadsRun, CommandsAreCurrent
    <2> QED BY <2>1, <2>2 DEF CommandsAreCurrent
  <1> QED BY <1>1, <1>2

\* The commands' own first reads are check enough as long as nothing else
\* commits between a command's read and its commit.
THEOREM SerialCommandsAreChecked == SerialSpec => CheckedSpec
  <1>1. Init => GateInv /\ CommandsAreCurrent
    BY GateInit DEF Init, CommandsAreCurrent
  <1>2. GateInv /\ CommandsAreCurrent /\ [SerialNext]_vars
          => (GateInv /\ CommandsAreCurrent)' /\ [CheckedNext]_vars
    <2>1. GateInv /\ [SerialNext]_vars => GateInv'
      BY GateStep DEF SerialNext
    <2>2. CommandsAreCurrent /\ [SerialNext]_vars => [CheckedNext]_vars
      BY DEF SerialNext, CheckedNext, ResolvesApproval, CommandsAreCurrent,
             FounderResolves, SweepCommits
    <2> QED BY <2>1, <2>2, CurrentStep
  <1> QED BY <1>1, <1>2, PTL DEF SerialSpec, CheckedSpec

\* With serialised commands a run's status and its approval never disagree.
THEOREM VerdictsStick == SerialSpec => []RunFollowsVerdict
  BY SerialCommandsAreChecked, CheckedVerdictsStick, PTL

\* With serialised commands an approval is resolved once, by a founder or by
\* the sweep.  Run gate_resolved_twice shows that the serialisation is needed.
THEOREM ApprovalsAreResolvedOnce == SerialSpec => []ResolvedOnce
  <1>1. CheckedInv => ResolvedOnce
    BY DEF CheckedInv
  <1> QED BY <1>1, SerialCommandsAreChecked, CheckedInvariant, PTL

\* With serialised commands the gate is the one-shot verdict it stands for.
THEOREM GateImplementsVerdict == SerialSpec => ImplementsVerdict
  BY SerialCommandsAreChecked, CheckedGateImplementsVerdict, PTL

=============================================================================
