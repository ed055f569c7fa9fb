--------------------------- MODULE ContainerWorker ---------------------------
(***************************************************************************)
(* Dispatches of container tasks, and the two things they share besides    *)
(* the claims of their runs: the docker daemon, where any dispatch removes *)
(* every container with the worker label before it creates its own, and    *)
(* the trust row of the container runtime, which decides whether the next  *)
(* dispatch must try the image before it uses it.                          *)
(*                                                                         *)
(* A dispatcher makes one call after another.  Calls are numbered: the     *)
(* number is the execution context that names the call's container, and    *)
(* the token of its claim.  A run whose result has landed is over and its  *)
(* place is taken by a new one.  Leases and their clock are                *)
(* ExecutionClaim's: here a claim may be reclaimed whenever it is held.    *)
(*                                                                         *)
(* The trust row is read and rewritten without a lock; a flush writes the  *)
(* columns that differ from what was read.                                 *)
(***************************************************************************)
EXTENDS Integers, FiniteSets, Sequences, RoutingPolicy

CONSTANTS
  Dispatchers,        \* processes that dispatch container tasks
  Runs,               \* places of the runs that are ready at the same time
  NoRun,              \* no such place
  Manifest,           \* what the worker manifest declares
  StrikeThreshold,    \* _RUNTIME_TRUST_MISMATCH_STRIKE_THRESHOLD, 3 in the code
  RecoveryThreshold,  \* _RUNTIME_TRUST_RECOVERY_SUCCESS_THRESHOLD, 2 in the code
  MaxCalls,           \* bound: calls that claim a run
  MaxDeaths           \* bound: calls that die

ASSUME NoRunAssumption == NoRun \notin Runs
ASSUME ManifestAssumption == Manifest \in Manifests
ASSUME ThresholdAssumption ==
  StrikeThreshold \in Nat \ {0} /\ RecoveryThreshold \in Nat \ {0, 1}
ASSUME CallBoundAssumption == MaxCalls \in Nat /\ MaxDeaths \in Nat

VARIABLES
  trust,       \* the trust row: strikes, required, streak
  verdicts,    \* what has been recorded in it, in order
  overlapped,  \* a recording was based on a row that had changed since
  holder,      \* the call that holds the claim of each run, 0 if none
  containers,  \* containers with the worker label, by call
  evicted,     \* calls whose container was removed while they worked with it
  landed,      \* calls whose patch has landed
  excused,     \* calls that died or could not remove their container
  stage,       \* where each dispatcher stands
  call,        \* what each dispatcher's call holds
  calls,       \* calls that have claimed a run
  deaths       \* calls that died

trustVars == <<trust, verdicts, overlapped>>
dockerVars == <<containers, evicted, excused>>
vars == <<trustVars, holder, dockerVars, landed, stage, call, calls, deaths>>

Calls == 1 .. MaxCalls
Stages == {"idle", "trusted", "claimed", "listed", "swept", "admitted", "created",
           "ran", "removing", "finalizing", "recording", "storing"}
Results == {"none", "patch", "mismatch", "failure"}
Verdicts == {"strike", "checked", "unchecked"}
TrustRows == [strikes : Nat, required : BOOLEAN, streak : Nat]
NewRow == [strikes |-> 0, required |-> FALSE, streak |-> 0]
NoCall == [id |-> 0, run |-> NoRun, forced |-> FALSE, seen |-> {}, result |-> "none",
           row |-> NewRow]

TypeOK ==
  /\ trust \in TrustRows
  /\ verdicts \in Seq(Verdicts) /\ overlapped \in BOOLEAN
  /\ holder \in [Runs -> 0 .. MaxCalls]
  /\ containers \subseteq Calls /\ evicted \subseteq Calls
  /\ landed \subseteq Calls /\ excused \subseteq Calls
  /\ stage \in [Dispatchers -> Stages]
  /\ call \in [Dispatchers -> [id : 0 .. MaxCalls, run : Runs \cup {NoRun}, forced : BOOLEAN,
                               seen : SUBSET Calls, result : Results, row : TrustRows]]
  /\ calls \in 0 .. MaxCalls /\ deaths \in Nat

Init ==
  /\ trust = NewRow /\ verdicts = <<>> /\ overlapped = FALSE
  /\ holder = [r \in Runs |-> 0]
  /\ containers = {} /\ evicted = {} /\ excused = {} /\ landed = {}
  /\ stage = [d \in Dispatchers |-> "idle"]
  /\ call = [d \in Dispatchers |-> NoCall]
  /\ calls = 0 /\ deaths = 0

-----------------------------------------------------------------------------
(* Before the worker.                                                      *)

Moves(d, next) == stage' = [stage EXCEPT ![d] = next]
Id(d) == call[d].id
Holds(d) == holder[call[d].run] = Id(d)
EndsCall(d) == Moves(d, "idle") /\ call' = [call EXCEPT ![d] = NoCall]

\* The route is fixed and inspected while the run is ready; the trust row is
\* read before the run is claimed.
ReadTrust(d) ==
  /\ stage[d] = "idle"
  /\ Route(WorkerRequest, WorkerLimits) = "containerized_worker"
  /\ \E r \in {s \in Runs : holder[s] = 0} :
       call' = [call EXCEPT ![d] = [NoCall EXCEPT !.run = r, !.forced = trust.required]]
  /\ Moves(d, "trusted")
  /\ UNCHANGED <<trustVars, holder, dockerVars, landed, calls, deaths>>

ClaimRun(d) ==
  /\ stage[d] = "trusted" /\ calls < MaxCalls
  /\ holder[call[d].run] = 0
  /\ calls' = calls + 1
  /\ holder' = [holder EXCEPT ![call[d].run] = calls + 1]
  /\ call' = [call EXCEPT ![d].id = calls + 1]
  /\ Moves(d, "claimed")
  /\ UNCHANGED <<trustVars, dockerVars, landed, deaths>>

ClaimRefused(d) ==
  /\ stage[d] = "trusted"
  /\ holder[call[d].run] # 0
  /\ EndsCall(d)
  /\ UNCHANGED <<trustVars, holder, dockerVars, landed, calls, deaths>>

\* The daemon removes containers; those of calls at work with them are lost.
AtWork(c) == \E d \in Dispatchers : Id(d) = c /\ stage[d] \in {"created", "ran"}
Removes(S) ==
  /\ containers' = containers \ S
  /\ evicted' = evicted \cup {c \in S \cap containers : AtWork(c)}

\* docker ps -aq, with the label for a filter: not only orphans.
ListContainers(d) ==
  /\ stage[d] = "claimed"
  /\ call' = [call EXCEPT ![d].seen = containers]
  /\ Moves(d, "listed")
  /\ UNCHANGED <<trustVars, holder, dockerVars, landed, calls, deaths>>

\* docker rm -f of what was listed.
Sweep(d) ==
  /\ stage[d] = "listed"
  /\ Removes(call[d].seen)
  /\ Moves(d, "swept")
  /\ UNCHANGED <<trustVars, holder, excused, landed, call, calls, deaths>>

\* A command has failed; its words may read like a missing tool.
DockerSaysNo(d, next) ==
  /\ \E result \in {"mismatch", "failure"} : call' = [call EXCEPT ![d].result = result]
  /\ Moves(d, next)

\* Fault: the exit code of the removal is not looked at.
SweepCarriesOn(d) ==
  /\ stage[d] = "listed" /\ call[d].seen # {}
  /\ \E S \in SUBSET call[d].seen : Removes(S)
  /\ Moves(d, "swept") /\ UNCHANGED call
  /\ UNCHANGED <<trustVars, holder, excused, landed, calls, deaths>>
\* Some of them could not be removed, or were gone already.
SweepFails(d) ==
  /\ stage[d] = "listed" /\ call[d].seen # {}
  /\ \E S \in SUBSET call[d].seen : Removes(S)
  /\ DockerSaysNo(d, "finalizing")
  /\ UNCHANGED <<trustVars, holder, excused, landed, calls, deaths>>

Checkable == Manifest.dynamic # {}

\* The static preflight, the image, and the dynamic check when trust is lost.
Admit(d) ==
  /\ stage[d] = "swept"
  /\ Admits(Manifest, WorkerRequest) /\ (call[d].forced => Checkable)
  /\ Moves(d, "admitted")
  /\ UNCHANGED <<trustVars, holder, dockerVars, landed, call, calls, deaths>>

\* A refusal of the preflight.  Only a failed check counts as a mismatch.
Refuse(d) ==
  /\ stage[d] = "swept"
  /\ ~Admits(Manifest, WorkerRequest) \/ call[d].forced
  /\ call' = [call EXCEPT ![d].result =
                IF Admits(Manifest, WorkerRequest) /\ Checkable THEN "mismatch" ELSE "failure"]
  /\ Moves(d, "finalizing")
  /\ UNCHANGED <<trustVars, holder, dockerVars, landed, calls, deaths>>

\* The daemon, the image or the creation fails before there is a container.
DockerFails(d) ==
  /\ stage[d] \in {"claimed", "swept", "admitted"}
  /\ DockerSaysNo(d, "finalizing")
  /\ UNCHANGED <<trustVars, holder, dockerVars, landed, calls, deaths>>

-----------------------------------------------------------------------------
(* The worker.                                                             *)

CreateContainer(d) ==
  /\ stage[d] = "admitted"
  /\ containers' = containers \cup {Id(d)}
  /\ Moves(d, "created")
  /\ UNCHANGED <<trustVars, holder, evicted, excused, landed, call, calls, deaths>>

\* Copy in, start, wait: a patch, an exit in error that may read like a
\* missing tool, or nothing of use, which a timeout also comes to.
Work(d) ==
  /\ stage[d] = "created"
  /\ Id(d) \in containers
  /\ \E result \in {"patch", "mismatch", "failure"} :
       call' = [call EXCEPT ![d].result = result]
  /\ Moves(d, "ran")
  /\ UNCHANGED <<trustVars, holder, dockerVars, landed, calls, deaths>>

\* Fault: a failed copy leaves an empty directory and nobody asks why.
CopyOutUnchecked(d) ==
  /\ stage[d] = "ran"
  /\ Moves(d, "removing") /\ UNCHANGED dockerVars
  /\ UNCHANGED <<trustVars, holder, landed, call, calls, deaths>>
CopyOut(d) ==
  /\ stage[d] = "ran"
  /\ Id(d) \in containers
  /\ Moves(d, "removing") /\ UNCHANGED dockerVars
  /\ UNCHANGED <<trustVars, holder, landed, call, calls, deaths>>

\* A command on the container fails, certainly when somebody has removed it.
ContainerFails(d) ==
  /\ stage[d] \in {"created", "ran"}
  /\ DockerSaysNo(d, "removing")
  /\ UNCHANGED <<trustVars, holder, dockerVars, landed, calls, deaths>>

\* Fault: the removal is not in a finally block.
RemoveAfterSuccess(d) ==
  /\ stage[d] = "removing"
  /\ containers' = IF call[d].result = "patch" THEN containers \ {Id(d)} ELSE containers
  /\ UNCHANGED excused
  /\ Moves(d, "finalizing")
  /\ UNCHANGED <<trustVars, holder, evicted, landed, call, calls, deaths>>
\* Best effort: nobody looks at the exit code.
RemoveOwn(d) ==
  /\ stage[d] = "removing"
  /\ \/ containers' = containers \ {Id(d)} /\ UNCHANGED excused
     \/ excused' = excused \cup {Id(d)} /\ UNCHANGED containers
  /\ Moves(d, "finalizing")
  /\ UNCHANGED <<trustVars, holder, evicted, landed, call, calls, deaths>>

-----------------------------------------------------------------------------
(* The result and the trust row.                                           *)

\* The claim is released with the result.  A call whose claim was reclaimed
\* lands nothing and is told so; its verdict on the runtime is recorded like
\* any other's.
Finalize(d) ==
  /\ stage[d] = "finalizing"
  /\ IF Holds(d)
       THEN /\ holder' = [holder EXCEPT ![call[d].run] = 0]
            /\ landed' = IF call[d].result = "patch" THEN landed \cup {Id(d)} ELSE landed
       ELSE UNCHANGED <<holder, landed>>
  /\ IF call[d].result = "failure" THEN EndsCall(d)
                                   ELSE Moves(d, "recording") /\ UNCHANGED call
  /\ UNCHANGED <<trustVars, dockerVars, calls, deaths>>

\* An exception while a patch is finalized or its success is recorded makes a
\* failure of the call, which is finalized in turn; any other ends the call.
Raises(d) ==
  IF call[d].result = "patch" THEN DockerSaysNo(d, "finalizing") ELSE EndsCall(d)

\* The result could not be persisted.
PersistFails(d) ==
  /\ stage[d] = "finalizing"
  /\ Raises(d)
  /\ UNCHANGED <<trustVars, holder, dockerVars, landed, calls, deaths>>

LoadTrust(d) ==
  /\ stage[d] = "recording"
  /\ call' = [call EXCEPT ![d].row = trust]
  /\ Moves(d, "storing")
  /\ UNCHANGED <<trustVars, holder, dockerVars, landed, calls, deaths>>

Struck(row) ==
  [strikes |-> row.strikes + 1, streak |-> 0,
   required |-> row.required \/ row.strikes + 1 >= StrikeThreshold]

\* Fault: a success takes one strike back.
Forgiven(row, checked) ==
  [strikes |-> row.strikes - 1, required |-> row.required, streak |-> row.streak]
\* Fault: a success that ran no check does not break the streak.
LenientlySucceeded(row, checked) ==
  LET lifted == row.required /\ row.streak + 1 >= RecoveryThreshold
  IN  [strikes |-> 0, required |-> row.required /\ ~lifted,
       streak |-> IF row.required /\ ~lifted THEN row.streak + 1 ELSE 0]
Succeeded(row, checked) ==
  LET recovering == row.required /\ checked
      lifted == recovering /\ row.streak + 1 >= RecoveryThreshold
  IN  [strikes |-> 0, required |-> row.required /\ ~lifted,
       streak |-> IF recovering /\ ~lifted THEN row.streak + 1 ELSE 0]

Verdict(d) == IF call[d].result = "mismatch" THEN "strike"
              ELSE IF call[d].forced THEN "checked" ELSE "unchecked"

\* The columns that the recording changed, as it had read them, are written.
StoreTrust(d) ==
  LET row == call[d].row
      new == IF call[d].result = "patch" THEN Succeeded(row, call[d].forced)
                                         ELSE Struck(row)
  IN  /\ stage[d] = "storing"
      /\ trust' = [f \in DOMAIN trust |-> IF new[f] # row[f] THEN new[f] ELSE trust[f]]
      /\ verdicts' = Append(verdicts, Verdict(d))
      /\ overlapped' = (overlapped \/ trust # row)
      /\ EndsCall(d)
      /\ UNCHANGED <<holder, dockerVars, landed, calls, deaths>>

\* The verdict could not be recorded; that of a success that landed may become
\* a strike.
RecordFails(d) ==
  /\ stage[d] \in {"recording", "storing"}
  /\ Raises(d)
  /\ UNCHANGED <<trustVars, holder, dockerVars, landed, calls, deaths>>

-----------------------------------------------------------------------------
(* Recovery and death.                                                     *)

\* A lapsed claim is reclaimed with its container, by name and best effort;
\* the run is ready again.
Reclaim(r) ==
  /\ holder[r] # 0
  /\ Removes({holder[r]}) \/ UNCHANGED <<containers, evicted>>
  /\ holder' = [holder EXCEPT ![r] = 0]
  /\ UNCHANGED <<trustVars, excused, landed, stage, call, calls, deaths>>

Dies(d) ==
  /\ stage[d] # "idle" /\ deaths < MaxDeaths
  /\ deaths' = deaths + 1
  /\ excused' = IF Id(d) = 0 THEN excused ELSE excused \cup {Id(d)}
  /\ EndsCall(d)
  /\ UNCHANGED <<trustVars, holder, containers, evicted, landed, calls>>

-----------------------------------------------------------------------------

CallStep(d) ==
  \/ ClaimRun(d) \/ ClaimRefused(d)
  \/ ListContainers(d) \/ Sweep(d) \/ SweepFails(d)
  \/ Admit(d) \/ Refuse(d) \/ DockerFails(d)
  \/ CreateContainer(d) \/ Work(d) \/ CopyOut(d) \/ ContainerFails(d) \/ RemoveOwn(d)
  \/ Finalize(d) \/ PersistFails(d) \/ LoadTrust(d) \/ StoreTrust(d)
  \/ RecordFails(d)

Next ==
  \/ \E d \in Dispatchers : ReadTrust(d) \/ CallStep(d) \/ Dies(d)
  \/ \E r \in Runs : Reclaim(r)

Spec == Init /\ [][Next]_vars

-----------------------------------------------------------------------------
(* Properties.                                                             *)

\* A container that somebody else removed under its call, another dispatch's
\* collector or a recovery, never contributes a patch to the ledger.
EvictedNeverLands == landed \cap evicted = {}

\* What a dispatch's collector saw is gone before the dispatch creates its own
\* container, and stays gone: orphans do not survive the next dispatch.
CollectedStaysGone ==
  \A d \in Dispatchers :
    stage[d] \in {"swept", "admitted", "created", "ran", "removing"}
      => containers \cap call[d].seen = {}

\* A container outlives its call only when the call died or docker would not
\* remove it, whichever way the call ended.
FinishedCallsLeaveNothing ==
  \A c \in containers :
    c \in excused \/ \E d \in Dispatchers :
                       Id(d) = c /\ stage[d] \in {"created", "ran", "removing"}

\* The verdicts that end the history and are all equal to v.
Trailing(v) ==
  CHOOSE n \in 0 .. Len(verdicts) :
    /\ \A i \in 1 .. Len(verdicts) : i > Len(verdicts) - n => verdicts[i] = v
    /\ n = Len(verdicts) \/ verdicts[Len(verdicts) - n] # v

\* n verdicts v end at the i-th.
EndsStreak(i, v, n) == n <= i /\ \A j \in i - n + 1 .. i : verdicts[j] = v

\* The policy, read off the history: the check is required since some strikes
\* in a row that no row of checked successes has followed.
Untrusted ==
  \E i \in 1 .. Len(verdicts) :
    /\ EndsStreak(i, "strike", StrikeThreshold)
    /\ \A k \in i + 1 .. Len(verdicts) : ~EndsStreak(k, "checked", RecoveryThreshold)

\* As long as no two recordings overlapped, the row says what the policy says
\* of the recorded verdicts, also when they come from dispatches that began
\* before the trust was lost or regained, or whose claim was reclaimed.
TrustFollowsVerdicts ==
  \/ overlapped
  \/ trust = [strikes |-> Trailing("strike"), required |-> Untrusted,
              streak |-> IF Untrusted THEN Trailing("checked") ELSE 0]

=============================================================================
