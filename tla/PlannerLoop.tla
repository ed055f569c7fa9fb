---------------------------- MODULE PlannerLoop ----------------------------
(***************************************************************************)
(* The planner's bounded loop over one run, and the founder's side of it.  *)
(* A planner command asks a provider for a proposal (invoke) or brings one *)
(* (propose), and the store judges it against the legal moves and against  *)
(* a budget that belongs to the run's phase: what the run has come to,     *)
(* apart from what its planners did.  A founder answers escalations and    *)
(* recharges phases that are exhausted.                                    *)
(*                                                                         *)
(* Every read and every write is a transaction of its own, and nothing is  *)
(* locked in between: a command acts on the snapshot, the governance and   *)
(* the ledger as it read them, one after the other, while other commands   *)
(* commit.  Any of them may die between two transactions.                  *)
(*                                                                         *)
(* The run itself advances outside this module.  A phase never comes back: *)
(* its key hashes task counts, ids and times that only grow, so phases are *)
(* numbered.  Every transaction that records an event changes the hash of  *)
(* the run's snapshot; fresh[p] says that none has since p read its own,   *)
(* and same[p] which planners hold the same hash as p.  The stale quota    *)
(* only chooses between two errors and is left out; the audit of an        *)
(* invocation, one more event, is taken together with its last transaction.*)
(***************************************************************************)
EXTENDS Integers, FiniteSets, Sequences, PossibleActions

CONSTANTS
  Planners,          \* processes that run planner commands, one after another
  Founders,          \* processes that answer and recharge
  Nobody,            \* no planner
  Proposals,         \* what planners may propose
  ActionOf,          \* the selected action of each proposal
  IntentOf,          \* its normalized intent signature
  KeyOf,             \* its submission key
  NoKey,             \* the submission key of a proposal without one
  BudgetLimit,       \* _PLANNER_PHASE_BUDGET_LIMIT, 3 in the code
  HintQuota,         \* _FOUNDER_HINT_QUOTA_LIMIT, 2 in the code
  MaxRetries,        \* max_retries of the transports, 2 in the code
  MaxFormatRetries,  \* max_format_retries of the adapter, 1 in the code
  Starts,            \* situations the run may be in at the beginning
  MaxPhase,          \* bound: phases the run goes through, minus one
  MaxReplies,        \* bound: replies and recharges the founders begin
  MaxDeaths          \* bound: commands that die

ASSUME NobodyAssumption == Nobody \notin Planners
ASSUME ProcessAssumption == Planners \cap Founders = {}
ASSUME LimitAssumption ==
  /\ BudgetLimit \in Nat \ {0} /\ HintQuota \in Nat
  /\ MaxRetries \in Nat /\ MaxFormatRetries \in Nat
ASSUME BoundAssumption == MaxPhase \in Nat /\ MaxReplies \in Nat /\ MaxDeaths \in Nat
ASSUME ProposalAssumption ==
  /\ ActionOf \in [Proposals -> ActionNames]
  /\ Proposals \cap {"ask", "garbage", "nothing"} = {}

Situations == [status : Statuses, patch : PatchStatuses, streak : Nat]
ASSUME StartAssumption == Starts \subseteq Situations

VARIABLES
  run,       \* status, latest patch intake, streak of equal deterministic failures
  phase,     \* number of the run's phase
  segments,  \* per phase, the planner attempts since its last recharge
  tried,     \* per phase, who was accepted, illegal or duplicate with which intent
  hints,     \* per phase, founder hints (counted up to the quota)
  stops,     \* per phase, founder overrides and rejections
  help,      \* per phase, the escalations each planner was granted
  lane,      \* who opened the escalations that have no answer, in order
  stage,     \* where each process stands
  view,      \* what each planner's command holds
  desk,      \* what each founder's command holds
  fresh,     \* the snapshot hash a planner holds is still the run's
  same,      \* planners that hold the same snapshot hash
  asked,     \* per phase, planners whose hash the active attempts asked about
  replies,   \* replies and recharges begun so far
  deaths     \* commands that died

ledgerVars == <<segments, tried, hints, stops, help, lane>>
hashVars == <<fresh, same, asked>>
vars == <<run, phase, ledgerVars, stage, view, desk, hashVars, replies, deaths>>

Processes == Planners \cup Founders
Phases == 0 .. MaxPhase
Intents == {IntentOf[x] : x \in Proposals}
Keys == {KeyOf[x] : x \in Proposals} \ {NoKey}

NewSegment == [used |-> 0, exhausted |-> FALSE, wrong |-> [p \in Planners |-> 0],
               selected |-> [p \in Planners |-> 0], keys |-> {}]
Segments == [used : Nat, exhausted : BOOLEAN, wrong : [Planners -> Nat],
             selected : [Planners -> Nat], keys : SUBSET Keys]

\* What a command brings: a proposal, a request for help, an answer that does
\* not parse.
Says == Proposals \cup {"ask", "garbage", "nothing"}
NothingHeld == [says |-> "nothing", tries |-> 0, malformed |-> 0, current |-> FALSE,
                legal |-> FALSE, phase |-> 0, used |-> 0, taken |-> FALSE,
                sent |-> FALSE, asked |-> FALSE, repeated |-> FALSE]
Views == [says : Says, tries : Nat, malformed : Nat, current : BOOLEAN,
          legal : BOOLEAN, phase : Phases, used : Nat, taken : BOOLEAN,
          sent : BOOLEAN, asked : BOOLEAN, repeated : BOOLEAN]
EmptyDesk == [target |-> Nobody, phase |-> 0]

Stages == {"idle", "thinking", "answered", "surveyed", "governed", "judging", "asking",
           "opening", "deciding", "closing", "shutting", "alarming",
           "reading", "replying", "recharging"}

TypeOK ==
  /\ run \in Situations
  /\ phase \in Phases
  /\ segments \in [Phases -> Segments]
  /\ tried \in [Phases -> SUBSET (Planners \X Intents)]
  /\ hints \in [Phases -> Nat] /\ stops \in [Phases -> Nat]
  /\ help \in [Phases -> [Planners -> Nat]]
  /\ lane \in Seq(Planners)
  /\ stage \in [Processes -> Stages]
  /\ view \in [Planners -> Views]
  /\ desk \in [Founders -> [target : Planners \cup {Nobody}, phase : Phases]]
  /\ fresh \in [Planners -> BOOLEAN]
  /\ same \in [Planners -> SUBSET Planners]
  /\ asked \in [Phases -> SUBSET Planners]
  /\ replies \in Nat /\ deaths \in Nat

Init ==
  /\ run \in Starts
  /\ phase = 0
  /\ segments = [n \in Phases |-> NewSegment]
  /\ tried = [n \in Phases |-> {}]
  /\ hints = [n \in Phases |-> 0] /\ stops = [n \in Phases |-> 0]
  /\ help = [n \in Phases |-> [p \in Planners |-> 0]]
  /\ lane = <<>>
  /\ stage = [x \in Processes |-> "idle"]
  /\ view = [p \in Planners |-> NothingHeld]
  /\ desk = [f \in Founders |-> EmptyDesk]
  /\ fresh = [p \in Planners |-> FALSE]
  /\ same = [p \in Planners |-> {}]
  /\ asked = [n \in Phases |-> {}]
  /\ replies = 0 /\ deaths = 0

-----------------------------------------------------------------------------
(* What commands read.                                                     *)

\* A run waits for approval, has a pending intake or runs a task exactly when
\* the record behind it exists.
Snapshot(escalation) ==
  [status |-> run.status, patch |-> run.patch, review |-> run.patch = "pending",
   approval |-> run.status = "waiting_approval", escalation |-> escalation,
   task |-> run.status = "running"]

\* Fault: once a founder has answered, the failure counts as dealt with.
UnansweredFailure == run.streak >= 2 /\ lane = <<>> /\ stops[phase] + hints[phase] = 0
\* A deterministic failure repeated, and no escalation is open about it.
RepeatedFailure == run.streak >= 2 /\ lane = <<>>

Latest == lane[Len(lane)]

\* Fault: a recharge forgets what was refused before it.
RefusedSinceRecharge(p, n, x) ==
  segments[n].used + Cardinality({q \in Planners : segments[n].selected[q] > 0}) > 0
  /\ \E q \in Planners : <<q, IntentOf[x]>> \in tried[n]
\* The event ledger has an accepted, illegal or duplicate attempt of the same
\* intent in the phase; recharges do not cut it.
Repeats(p, n, x) == \E q \in Planners : <<q, IntentOf[x]>> \in tried[n]

\* Fault: one accepted proposal is not one too many yet.
TakenByMe(p) == segments[phase].selected[p] > 1
\* The active attempts hold an accepted proposal.
Taken(p) == \E q \in Planners : segments[phase].selected[q] > 0

-----------------------------------------------------------------------------
(* How a command goes on.                                                  *)

Moves(x, next) == stage' = [stage EXCEPT ![x] = next]

\* A transaction records an event: no snapshot hash is current any more.
Recorded == fresh' = [q \in Planners |-> FALSE] /\ UNCHANGED <<same, asked>>

\* p goes on with no more than held of what it has read.
Keeps(p, held) == view' = [view EXCEPT ![p] = held]

Leaves(f) == Moves(f, "idle") /\ desk' = [desk EXCEPT ![f] = EmptyDesk]

\* The command is over and what it held is gone.
Ends(p) ==
  /\ Moves(p, "idle")
  /\ Keeps(p, NothingHeld)
  /\ same' = [q \in Planners |-> IF q = p THEN {} ELSE same[q] \ {p}]
  /\ asked' = [n \in Phases |-> asked[n] \ {p}]

Quietly(p) == fresh' = [fresh EXCEPT ![p] = FALSE]
Loudly == fresh' = [q \in Planners |-> FALSE]

\* p reads the snapshot whose hash it will quote.
HoldsHash(p) ==
  LET twins == {q \in Planners : fresh[q]} \cup {p} IN
  /\ fresh' = [fresh EXCEPT ![p] = TRUE]
  /\ same' = [q \in Planners |-> IF q \in twins THEN twins ELSE same[q]]
  /\ UNCHANGED asked

-----------------------------------------------------------------------------
(* The provider and the adapter.                                           *)

\* The command line refuses without a trace when a review, a reply or a
\* recharge is due.
Invoke(p) ==
  /\ stage[p] = "idle"
  /\ ~RepeatedFailure
  /\ run.patch # "pending" /\ lane = <<>> /\ ~segments[phase].exhausted
  /\ Moves(p, "thinking")
  /\ HoldsHash(p)
  /\ UNCHANGED <<run, phase, ledgerVars, view, desk, replies, deaths>>

InvokeAlarmed(p) ==
  /\ stage[p] = "idle"
  /\ RepeatedFailure
  /\ Moves(p, "alarming")
  /\ UNCHANGED <<run, phase, ledgerVars, view, desk, hashVars, replies, deaths>>

\* A timeout, a rate limit, an outage: the transport tries again.
ProviderRetry(p) ==
  /\ stage[p] = "thinking"
  /\ view[p].tries < MaxRetries
  /\ view' = [view EXCEPT ![p].tries = @ + 1]
  /\ UNCHANGED <<run, phase, ledgerVars, stage, desk, hashVars, replies, deaths>>

\* A fatal error, an interruption, or one outage too many: audited, not charged.
ProviderError(p) ==
  /\ stage[p] = "thinking"
  /\ Ends(p) /\ Loudly
  /\ UNCHANGED <<run, phase, ledgerVars, desk, replies, deaths>>

\* Text that is not JSON escapes the adapter's handler: nothing is recorded.
ProviderBabbles(p) ==
  /\ stage[p] = "thinking"
  /\ Ends(p) /\ Quietly(p)
  /\ UNCHANGED <<run, phase, ledgerVars, desk, replies, deaths>>

\* Fault: format failures of an invocation are not counted.
UncountedFormatFailure(p) ==
  /\ stage[p] = "thinking"
  /\ view' = [view EXCEPT ![p].tries = 0]
  /\ UNCHANGED <<run, phase, ledgerVars, stage, desk, hashVars, replies, deaths>>
\* JSON of the wrong shape: the provider is asked again, and after the last
\* format retry the failure is audited and goes to the store.
FormatFailure(p) ==
  /\ stage[p] = "thinking"
  /\ IF view[p].malformed + 1 <= MaxFormatRetries
       THEN /\ view' = [view EXCEPT ![p].malformed = @ + 1, ![p].tries = 0]
            /\ UNCHANGED <<stage, hashVars>>
       ELSE /\ Moves(p, "surveyed")
            /\ Keeps(p, [NothingHeld EXCEPT !.says = "garbage"])
            /\ Recorded
  /\ UNCHANGED <<run, phase, ledgerVars, desk, replies, deaths>>

\* A well-formed answer.  The adapter's proposals carry no submission key.
Answer(p) ==
  /\ stage[p] = "thinking"
  /\ \E x \in {y \in Proposals : KeyOf[y] = NoKey} \cup {"ask"} :
       Keeps(p, [NothingHeld EXCEPT !.says = x])
  /\ Moves(p, "answered")
  /\ UNCHANGED <<run, phase, ledgerVars, desk, hashVars, replies, deaths>>

\* A proposal brought by hand, with the hash of the present snapshot or of an
\* earlier one.
Propose(p) ==
  /\ stage[p] = "idle"
  /\ \E x \in Proposals : Keeps(p, [NothingHeld EXCEPT !.says = x])
  /\ Moves(p, "answered")
  /\ HoldsHash(p) \/ UNCHANGED hashVars
  /\ UNCHANGED <<run, phase, ledgerVars, desk, replies, deaths>>

-----------------------------------------------------------------------------
(* The store's judgement.                                                  *)

\* The first read: a snapshot.  A pending escalation refuses every command, a
\* pending intake only proposals.
Survey(p) ==
  /\ stage[p] = "answered"
  /\ IF lane # <<>> \/ (view[p].says # "ask" /\ run.patch = "pending")
       THEN Ends(p) /\ Quietly(p)
       ELSE /\ Moves(p, "surveyed")
            /\ view' = [view EXCEPT ![p].current = view[p].says # "ask" /\ fresh[p],
                                    ![p].legal = view[p].says # "ask" /\
                                      ActionOf[view[p].says] \in LegalActions(Snapshot(FALSE))]
            /\ UNCHANGED hashVars
  /\ UNCHANGED <<run, phase, ledgerVars, desk, replies, deaths>>

\* The second read: the governance of the phase the run is in by now.  Only a
\* format failure is charged to an exhausted phase.
Govern(p) ==
  LET s == segments[phase] IN
  /\ stage[p] = "surveyed"
  /\ IF s.exhausted /\ view[p].says # "garbage"
       THEN Ends(p) /\ Quietly(p)
       ELSE /\ Moves(p, "governed")
            /\ view' = [view EXCEPT ![p].phase = phase, ![p].used = s.used,
                                    ![p].taken = Taken(p), ![p].asked = p \in asked[phase],
                                    ![p].sent = view[p].says \in Proposals
                                                /\ KeyOf[view[p].says] \in s.keys]
            /\ UNCHANGED hashVars
  /\ UNCHANGED <<run, phase, ledgerVars, desk, replies, deaths>>

\* The third read of a proposal: repeated failures, then the event ledger.
ScanLedger(p) ==
  /\ stage[p] = "governed" /\ view[p].says \in Proposals
  /\ IF RepeatedFailure
       THEN Moves(p, "alarming") /\ Keeps(p, NothingHeld)
       ELSE /\ Moves(p, "judging")
            /\ view' = [view EXCEPT ![p].repeated = Repeats(p, view[p].phase, view[p].says)]
  /\ UNCHANGED <<run, phase, ledgerVars, desk, hashVars, replies, deaths>>

\* The system escalates a repeated failure on the planner's behalf; the
\* command that noticed it is refused.
Alarm(p) ==
  /\ stage[p] = "alarming"
  /\ lane' = Append(lane, p)
  /\ Ends(p) /\ Loudly
  /\ UNCHANGED <<run, phase, segments, tried, hints, stops, help, desk, replies, deaths>>

Proposes(p) == stage[p] = "judging"
Proposed(p) == view[p].says
Segment(p) == segments[view[p].phase]
KeyOfProposal(p) == {KeyOf[Proposed(p)]} \ {NoKey}

Resubmitted(p) == Proposes(p) /\ view[p].sent
Stale(p) == Proposes(p) /\ ~view[p].sent /\ ~view[p].current
Judged(p) == Proposes(p) /\ ~view[p].sent /\ view[p].current
Duplicate(p) == view[p].taken \/ view[p].repeated

\* An attempt that costs nothing: a key of the active attempts, a stale hash.
RefuseUncharged(p) ==
  /\ Resubmitted(p) \/ Stale(p)
  /\ segments' = [segments EXCEPT ![view[p].phase].keys = @ \cup KeyOfProposal(p)]
  /\ Ends(p) /\ Loudly
  /\ UNCHANGED <<run, phase, tried, hints, stops, help, lane, desk, replies, deaths>>

WithWrong(s, p, keys) ==
  [s EXCEPT !.used = @ + 1, !.wrong[p] = @ + 1, !.keys = @ \cup keys]
WithSelected(s, p, keys) == [s EXCEPT !.selected[p] = @ + 1, !.keys = @ \cup keys]

Charged(p, keys) ==
  segments' = [segments EXCEPT ![view[p].phase] = WithWrong(@, p, keys)]

\* Fault: the attempt that uses the budget up does not close the phase.
SpendsBudgetLate(p) == view[p].used >= BudgetLimit
SpendsBudget(p) == view[p].used + 1 >= BudgetLimit

\* A duplicate or an illegal proposal costs a unit of the budget, and the last
\* unit, as the governance was read, closes the phase.
RefuseCharged(p) ==
  /\ Judged(p)
  /\ Duplicate(p) \/ ~view[p].legal
  /\ Charged(p, KeyOfProposal(p))
  /\ tried' = [tried EXCEPT ![view[p].phase] = @ \cup {<<p, IntentOf[Proposed(p)]>>}]
  /\ IF SpendsBudget(p)
       THEN /\ Moves(p, "closing") /\ Recorded
            /\ Keeps(p, [NothingHeld EXCEPT !.phase = view[p].phase])
       ELSE Ends(p) /\ Loudly
  /\ UNCHANGED <<run, phase, hints, stops, help, lane, desk, replies, deaths>>

Accept(p) ==
  /\ Judged(p)
  /\ ~Duplicate(p) /\ view[p].legal
  /\ segments' = [segments EXCEPT ![view[p].phase] =
                    WithSelected(@, p, KeyOfProposal(p))]
  /\ tried' = [tried EXCEPT ![view[p].phase] = @ \cup {<<p, IntentOf[Proposed(p)]>>}]
  /\ Moves(p, "deciding") /\ Keeps(p, NothingHeld)
  /\ Recorded
  /\ UNCHANGED <<run, phase, hints, stops, help, lane, desk, replies, deaths>>

\* The decision of an accepted proposal is refused once the run is suspended.
Decide(p) ==
  /\ stage[p] = "deciding"
  /\ Ends(p)
  /\ IF run.status = "suspended" THEN Quietly(p) ELSE Loudly
  /\ UNCHANGED <<run, phase, ledgerVars, desk, replies, deaths>>

ChargeFormatFailure(p) ==
  /\ stage[p] = "governed" /\ view[p].says = "garbage"
  /\ Charged(p, {})
  /\ IF SpendsBudget(p)
       THEN Moves(p, "shutting") /\ Recorded /\ Keeps(p, NothingHeld)
       ELSE Ends(p) /\ Loudly
  /\ UNCHANGED <<run, phase, tried, hints, stops, help, lane, desk, replies, deaths>>

\* PHASE_EXHAUSTED under the governance the command has read.
Close(p) ==
  /\ stage[p] = "closing"
  /\ segments' = [segments EXCEPT ![view[p].phase].exhausted = TRUE]
  /\ Ends(p) /\ Loudly
  /\ UNCHANGED <<run, phase, tried, hints, stops, help, lane, desk, replies, deaths>>

\* PHASE_EXHAUSTED under a refreshed governance: in the phase of the moment.
Shut(x) ==
  /\ stage[x] = "shutting"
  /\ segments' = [segments EXCEPT ![phase].exhausted = TRUE]
  /\ IF x \in Planners
       THEN Ends(x) /\ UNCHANGED desk
       ELSE Leaves(x) /\ UNCHANGED <<view, same, asked>>
  /\ IF segments[phase].exhausted /\ x \in Planners THEN Quietly(x)
     ELSE IF segments[phase].exhausted THEN UNCHANGED fresh ELSE Loudly
  /\ UNCHANGED <<run, phase, tried, hints, stops, help, lane, replies, deaths>>

-----------------------------------------------------------------------------
(* Requests for help.                                                      *)

\* Fault: one hint more than the quota keeps the lane open.
HintsLeftByOne(n) == hints[n] <= HintQuota
HintsLeft(n) == hints[n] < HintQuota

CountHints(p) ==
  /\ stage[p] = "governed" /\ view[p].says = "ask"
  /\ IF HintsLeft(view[p].phase)
       THEN Moves(p, "asking") /\ UNCHANGED view
       ELSE Moves(p, "shutting") /\ Keeps(p, NothingHeld)
  /\ UNCHANGED <<run, phase, ledgerVars, desk, hashVars, replies, deaths>>

\* The same words about the same snapshot have been accepted: a unit of the
\* budget is gone, but the last one does not close the phase.
RefuseAsk(p) ==
  /\ stage[p] = "asking" /\ view[p].asked
  /\ segments' = [segments EXCEPT ![view[p].phase].used = @ + 1]
  /\ Ends(p) /\ Loudly
  /\ UNCHANGED <<run, phase, tried, hints, stops, help, lane, desk, replies, deaths>>

\* New words, or a snapshot nobody has asked about.
GrantAsk(p) ==
  /\ stage[p] = "asking"
  /\ asked' = [asked EXCEPT ![view[p].phase] = @ \cup (same[p] \ {p})]
  /\ help' = [help EXCEPT ![view[p].phase][p] = @ + 1]
  /\ Moves(p, "opening") /\ Keeps(p, NothingHeld)
  /\ Loudly
  /\ UNCHANGED <<run, phase, segments, tried, hints, stops, lane, desk, same, replies, deaths>>

\* The escalation becomes visible with a transaction of its own.
OpenLane(p) ==
  /\ stage[p] = "opening"
  /\ lane' = Append(lane, p)
  /\ Ends(p) /\ Loudly
  /\ UNCHANGED <<run, phase, segments, tried, hints, stops, help, desk, replies, deaths>>

-----------------------------------------------------------------------------
(* The founder.                                                            *)

\* The snapshot shows the latest escalation without an answer.
LookAtLane(f) ==
  /\ stage[f] = "idle" /\ replies < MaxReplies
  /\ lane # <<>>
  /\ replies' = replies + 1
  /\ Moves(f, "reading")
  /\ desk' = [desk EXCEPT ![f].target = Latest]
  /\ UNCHANGED <<run, phase, ledgerVars, view, hashVars, deaths>>

LookAtPhase(f) ==
  /\ stage[f] = "reading"
  /\ Moves(f, "replying")
  /\ desk' = [desk EXCEPT ![f].phase = phase]
  /\ UNCHANGED <<run, phase, ledgerVars, view, hashVars, replies, deaths>>

\* The escalation leaves the lane, and another founder's look at it is outdated.
Answers(f) ==
  /\ \E i \in DOMAIN lane :
       /\ lane[i] = desk[f].target
       /\ lane' = [j \in 1 .. Len(lane) - 1 |-> lane[IF j < i THEN j ELSE j + 1]]
  /\ desk' = [g \in Founders |->
                IF g = f THEN IF stage'[f] = "idle" THEN EmptyDesk ELSE desk[f]
                ELSE IF desk[g].target = desk[f].target
                       THEN [desk[g] EXCEPT !.target = Nobody] ELSE desk[g]]

\* The target has no answer yet and no task holds a live claim.
MayAnswer(f) ==
  /\ stage[f] = "replying"
  /\ desk[f].target # Nobody
  /\ run.status # "running"

\* A hint counts in the phase the founder read.
Hint(f) ==
  /\ MayAnswer(f)
  /\ Moves(f, "idle") /\ Answers(f)
  /\ hints' = [hints EXCEPT ![desk[f].phase] = IF @ < HintQuota THEN @ + 1 ELSE @]
  /\ Loudly
  /\ UNCHANGED <<run, phase, segments, tried, stops, help, view, same, asked, replies, deaths>>

\* An override of the planner (by a legal move, left out here) or a rejection
\* of its request; the phase is closed by a later transaction.
Stop(f) ==
  /\ MayAnswer(f)
  /\ Moves(f, "shutting") /\ Answers(f)
  /\ stops' = [stops EXCEPT ![desk[f].phase] = @ + 1]
  /\ Loudly
  /\ UNCHANGED <<run, phase, segments, tried, hints, help, view, same, asked, replies, deaths>>

ReplyRefused(f) ==
  /\ stage[f] = "replying" /\ ~MayAnswer(f)
  /\ Leaves(f)
  /\ UNCHANGED <<run, phase, ledgerVars, view, hashVars, replies, deaths>>

\* The recharge reads that the phase is exhausted.  Cautions only ask for an
\* acknowledgement, which the founder gives or not.
BeginRecharge(f) ==
  /\ stage[f] = "idle" /\ replies < MaxReplies
  /\ segments[phase].exhausted
  /\ replies' = replies + 1
  /\ Moves(f, "recharging")
  /\ desk' = [desk EXCEPT ![f].phase = phase]
  /\ UNCHANGED <<run, phase, ledgerVars, view, hashVars, deaths>>

\* MANUAL_RECHARGE starts a new segment of the phase's attempts.
Recharge(f) ==
  /\ stage[f] = "recharging"
  /\ segments' = [segments EXCEPT ![desk[f].phase] = NewSegment]
  /\ asked' = [asked EXCEPT ![desk[f].phase] = {}]
  /\ Leaves(f) /\ Loudly
  /\ UNCHANGED <<run, phase, tried, hints, stops, help, lane, view, same, replies, deaths>>

-----------------------------------------------------------------------------
(* The run, and death.                                                     *)

\* Fault: a review whose patch does not apply leaves a status of its own.
RefusedPatch(s) ==
  IF s.patch = "pending" THEN {[s EXCEPT !.patch = "refused"]}
                         ELSE {[s EXCEPT !.status = "running"]}
\* What approvals, dispatches, results and reviews do to a run: approved,
\* rejected or expired; started; failed, completed, reclaimed or left for
\* review; rejected (for the same reason as before or another), applied.
Successors(s) ==
  CASE s.status = "waiting_approval" ->
         {[s EXCEPT !.status = t] : t \in {"ready", "rejected", "suspended"}}
    [] s.status = "ready" /\ s.patch = "pending" ->
         {[s EXCEPT !.patch = "rejected", !.streak = n] : n \in {1, s.streak + 1}}
         \cup {[s EXCEPT !.patch = "applied", !.status = "completed"]}
    [] s.status = "ready" /\ s.patch = "none" -> {[s EXCEPT !.status = "running"]}
    [] s.status = "running" ->
         {[s EXCEPT !.status = "failed", !.streak = 1], [s EXCEPT !.status = "completed"],
          [s EXCEPT !.status = "ready"], [s EXCEPT !.status = "ready", !.patch = "pending"]}
    [] OTHER -> {}

Advance ==
  /\ phase < MaxPhase
  /\ run' \in Successors(run)
  /\ phase' = phase + 1
  /\ Loudly
  /\ UNCHANGED <<ledgerVars, stage, view, desk, same, asked, replies, deaths>>

Dies(x) ==
  /\ stage[x] # "idle" /\ deaths < MaxDeaths
  /\ deaths' = deaths + 1
  /\ IF x \in Planners THEN Ends(x) /\ Quietly(x) /\ UNCHANGED desk
                       ELSE Leaves(x) /\ UNCHANGED <<view, hashVars>>
  /\ UNCHANGED <<run, phase, ledgerVars, replies>>

-----------------------------------------------------------------------------

PlannerStep(p) ==
  \/ ProviderRetry(p) \/ ProviderError(p) \/ ProviderBabbles(p)
  \/ FormatFailure(p) \/ Answer(p)
  \/ Survey(p) \/ Govern(p) \/ ScanLedger(p) \/ Alarm(p)
  \/ RefuseUncharged(p) \/ RefuseCharged(p) \/ Accept(p) \/ Decide(p)
  \/ ChargeFormatFailure(p) \/ Close(p) \/ Shut(p)
  \/ CountHints(p) \/ RefuseAsk(p) \/ GrantAsk(p) \/ OpenLane(p)

FounderStep(f) ==
  \/ LookAtPhase(f) \/ Hint(f) \/ Stop(f) \/ ReplyRefused(f)
  \/ Recharge(f) \/ Shut(f)

Next ==
  \/ Advance
  \/ \E p \in Planners : Invoke(p) \/ InvokeAlarmed(p) \/ Propose(p) \/ PlannerStep(p)
  \/ \E f \in Founders : LookAtLane(f) \/ BeginRecharge(f) \/ FounderStep(f)
  \/ \E x \in Processes : Dies(x)

\* A planner's command that has begun goes on: its process is scheduled, and a
\* provider answers or its timeout does.  Nobody has to begin one.
Spec ==
  /\ Init /\ [][Next]_vars
  /\ \A p \in Planners : WF_vars(PlannerStep(p))

-----------------------------------------------------------------------------
(* Properties.                                                             *)

\* A planner gives at most BudgetLimit wrong answers (duplicate, illegal or
\* malformed) between two recharges of a phase, one more for every command
\* that died before it could close the phase, whoever else is proposing and
\* however its reads and writes interleave with the founders'.
WrongAnswersAreBounded ==
  \A n \in Phases, p \in Planners : segments[n].wrong[p] <= BudgetLimit + deaths

\* Of one planner's proposals, at most one is accepted in a phase until a
\* founder recharges it, also after deaths and resubmissions.
OneSelectionPerSegment ==
  \A n \in Phases, p \in Planners : segments[n].selected[p] <= 1

\* The escalations a planner opens in a phase are bounded by the hint quota
\* and the founders' stops: hints cannot be farmed by asking again.
HelpIsBounded ==
  \A n \in Phases, p \in Planners : help[n][p] <= HintQuota + stops[n] + deaths

\* The engine never finds the run stuck: it offers a move, names a blocker or
\* reports the end.
NeverStuck == ActionState(Snapshot(lane # <<>>)) # "stuck"

\* A planner's intent that was accepted or refused once in a phase is never
\* accepted from it again there, not even after a recharge.
NoSecondAcceptance ==
  [][\A p \in Planners, n \in Phases :
       segments'[n].selected[p] > segments[n].selected[p]
         => <<p, IntentOf[Proposed(p)]>> \notin tried[n]]_vars

\* While the latest deterministic failure is a repeated one, a proposal is only
\* accepted on a snapshot that another command has outdated since, however
\* often founders have answered: an escalation that another planner opens in
\* between disarms the check, and nothing else does.
RepeatedFailureNeedsFounder ==
  [][\A p \in Planners, n \in Phases :
       segments'[n].selected[p] > segments[n].selected[p]
         => run.streak < 2 \/ ~fresh[p]]_vars

\* No planner's command goes on for ever: the nested retries of transport and
\* adapter run out, and each verdict of the store leads to the command's end.
CommandsEnd == \A p \in Planners : []<>(stage[p] = "idle")

\* The steps a command has left at most: each answer may be retried by the
\* transport and be malformed a few times, and then the store's way is short.
WayLeft(at) ==
  CASE at \in {"opening", "deciding", "closing", "shutting", "alarming"} -> 1
    [] at \in {"asking", "judging"} -> 2
    [] at = "governed" -> 3 [] at = "surveyed" -> 4 [] at = "answered" -> 5
    [] at = "thinking" -> 6 [] OTHER -> 0
StepsLeft(p) ==
  IF stage[p] = "thinking"
    THEN WayLeft("thinking") + (MaxRetries - view[p].tries)
         + (MaxFormatRetries - view[p].malformed) * (MaxRetries + 1)
    ELSE WayLeft(stage[p])

\* A command under way always has a next step in the end's direction: it is
\* at a stage of planners' commands, whoever is to judge has an answer, and
\* the next command starts with all its retries.
GoesOn(p) ==
  /\ stage[p] \notin {"reading", "replying", "recharging"}
  /\ stage[p] \in {"answered", "surveyed", "governed"} => view[p].says # "nothing"
  /\ stage[p] = "idle" => view[p] = NothingHeld
  /\ stage[p] = "thinking" => /\ view[p].tries <= MaxRetries
                              /\ view[p].malformed <= MaxFormatRetries
NoCommandIsStranded == \A p \in Planners : GoesOn(p) /\ (stage[p] # "idle" <=> StepsLeft(p) > 0)

\* Each of its steps brings a command nearer to its end, and nobody else's
\* takes it back.
CommandsRunDown ==
  [][\A p \in Planners : stage[p] # "idle" =>
       /\ StepsLeft(p)' <= StepsLeft(p)
       /\ PlannerStep(p) => StepsLeft(p)' < StepsLeft(p)]_vars

-----------------------------------------------------------------------------
(* The commands one after the other.                                       *)

\* No command begins while another is under way; the run moves on all the
\* same, and commands die.
Alone == \A x, y \in Processes : stage[x] # "idle" /\ stage[y] # "idle" => x = y
SerialNext == Next /\ Alone'
SerialSpec == Init /\ [][SerialNext]_vars

\* What holds of each planner then holds of all of them together: the budget
\* of a phase, the one accepted proposal of a segment and the intents that were
\* tried belong to the run and not to a planner.
BudgetIsShared == \A n \in Phases : segments[n].used <= BudgetLimit + deaths
SelectionIsShared ==
  \A n \in Phases, p, q \in Planners :
    segments[n].selected[p] > 0 /\ segments[n].selected[q] > 0 => p = q
IntentsAreShared ==
  [][\A p \in Planners, n \in Phases :
       segments'[n].selected[p] > segments[n].selected[p]
         => \A q \in Planners : <<q, IntentOf[Proposed(p)]>> \notin tried[n]]_vars

=============================================================================
