--------------------------- MODULE PlannerLoopProofs ---------------------------
(***************************************************************************)
(* Proofs about PlannerLoop, for any planners, founders, proposals, budget *)
(* and quota, and any number of phases, replies and deaths.                *)
(***************************************************************************)
EXTENDS PlannerLoop, TLAPS

Desks == [target : Planners \cup {Nobody}, phase : Phases]

-----------------------------------------------------------------------------
(* Type correctness.                                                       *)

LEMMA HeldTypes ==
  /\ NothingHeld \in Views /\ EmptyDesk \in Desks
  /\ \A x \in Says : [NothingHeld EXCEPT !.says = x] \in Views
  /\ \A n \in Phases : [NothingHeld EXCEPT !.phase = n] \in Views
  <1>1. 0 \in Phases /\ "nothing" \in Says
    BY BoundAssumption DEF Phases, Says
  <1> QED BY <1>1 DEF NothingHeld, Views, EmptyDesk, Desks

LEMMA SegmentTypes ==
  /\ NewSegment \in Segments
  /\ \A s \in Segments : [s EXCEPT !.exhausted = TRUE] \in Segments
  /\ \A s \in Segments, p \in Planners, keys \in SUBSET Keys :
       /\ WithWrong(s, p, keys) \in Segments /\ WithSelected(s, p, keys) \in Segments
       /\ [s EXCEPT !.keys = @ \cup keys] \in Segments
       /\ [s EXCEPT !.used = @ + 1] \in Segments
  <1>1. NewSegment \in Segments
    BY DEF NewSegment, Segments
  <1>2. ASSUME NEW s \in Segments, NEW p \in Planners, NEW keys \in SUBSET Keys
        PROVE  /\ WithWrong(s, p, keys) \in Segments /\ WithSelected(s, p, keys) \in Segments
               /\ [s EXCEPT !.keys = @ \cup keys] \in Segments
               /\ [s EXCEPT !.used = @ + 1] \in Segments
    <2>1. /\ [s.wrong EXCEPT ![p] = @ + 1] \in [Planners -> Nat]
          /\ [s.selected EXCEPT ![p] = @ + 1] \in [Planners -> Nat]
      BY DEF Segments
    <2>2. s.used + 1 \in Nat /\ s.keys \cup keys \in SUBSET Keys
      BY DEF Segments
    <2>4. \A selected \in [Planners -> Nat], more \in SUBSET Keys :
            [s EXCEPT !.selected = selected, !.keys = more] \in Segments
      BY DEF Segments
    <2>5. /\ [s EXCEPT !.keys = s.keys \cup keys] \in Segments
          /\ [s EXCEPT !.used = s.used + 1] \in Segments
      BY <2>2 DEF Segments
    <2>6. WithWrong(s, p, keys)
            = [s EXCEPT !.used = s.used + 1, !.wrong = [s.wrong EXCEPT ![p] = @ + 1],
                        !.keys = s.keys \cup keys]
      BY DEF Segments, WithWrong
    <2>7. WithSelected(s, p, keys)
            = [s EXCEPT !.selected = [s.selected EXCEPT ![p] = @ + 1],
                        !.keys = s.keys \cup keys]
      BY DEF Segments, WithSelected
    <2>8. WithWrong(s, p, keys) \in Segments
      <3>1. PICK wrong \in [Planners -> Nat], used \in Nat, more \in SUBSET Keys :
              /\ wrong = [s.wrong EXCEPT ![p] = @ + 1] /\ used = s.used + 1
              /\ more = s.keys \cup keys
        BY <2>1, <2>2
      <3>2. WithWrong(s, p, keys) = [s EXCEPT !.used = used, !.wrong = wrong, !.keys = more]
        BY <2>6, <3>1
      <3>3. [s EXCEPT !.used = used, !.wrong = wrong, !.keys = more] \in Segments
        BY DEF Segments
      <3> QED BY <3>2, <3>3
    <2>9. WithSelected(s, p, keys) \in Segments
      <3>1. PICK selected \in [Planners -> Nat], more \in SUBSET Keys :
              selected = [s.selected EXCEPT ![p] = @ + 1] /\ more = s.keys \cup keys
        BY <2>1, <2>2
      <3>2. WithSelected(s, p, keys) = [s EXCEPT !.selected = selected, !.keys = more]
        BY <2>7, <3>1
      <3> QED BY <2>4, <3>2
    <2> QED BY <2>5, <2>8, <2>9
  <1>3. ASSUME NEW s \in Segments PROVE [s EXCEPT !.exhausted = TRUE] \in Segments
    BY DEF Segments
  <1> QED BY <1>1, <1>2, <1>3

\* The parts that commands have in common keep their types.
LEMMA CommonTypes ==
  ASSUME TypeOK
  PROVE  /\ \A x \in Processes, next \in Stages :
              Moves(x, next) => stage' \in [Processes -> Stages]
         /\ \A p \in Planners, held \in Views :
              Keeps(p, held) => view' \in [Planners -> Views]
         /\ Recorded \/ Loudly => fresh' \in [Planners -> BOOLEAN]
         /\ \A p \in Planners : Quietly(p) => fresh' \in [Planners -> BOOLEAN]
         /\ \A p \in Planners : Ends(p) =>
              /\ stage' \in [Processes -> Stages] /\ view' \in [Planners -> Views]
              /\ same' \in [Planners -> SUBSET Planners]
              /\ asked' \in [Phases -> SUBSET Planners]
         /\ \A f \in Founders : Leaves(f) =>
              /\ stage' \in [Processes -> Stages] /\ desk' \in [Founders -> Desks]
         /\ \A p \in Planners : HoldsHash(p) =>
              /\ fresh' \in [Planners -> BOOLEAN]
              /\ same' \in [Planners -> SUBSET Planners] /\ asked' = asked
  <1>1. \A x \in Processes, next \in Stages :
          Moves(x, next) => stage' \in [Processes -> Stages]
    BY DEF TypeOK, Moves
  <1>2. \A p \in Planners, held \in Views :
          Keeps(p, held) => view' \in [Planners -> Views]
    BY DEF TypeOK, Keeps
  <1>3. /\ Recorded \/ Loudly => fresh' \in [Planners -> BOOLEAN]
        /\ \A p \in Planners : Quietly(p) => fresh' \in [Planners -> BOOLEAN]
    BY DEF TypeOK, Recorded, Loudly, Quietly
  <1>4. ASSUME NEW p \in Planners, Ends(p)
        PROVE  /\ stage' \in [Processes -> Stages] /\ view' \in [Planners -> Views]
               /\ same' \in [Planners -> SUBSET Planners]
               /\ asked' \in [Phases -> SUBSET Planners]
    <2>1. p \in Processes /\ "idle" \in Stages
      BY DEF Processes, Stages
    <2>2. stage' \in [Processes -> Stages] /\ view' \in [Planners -> Views]
      BY <1>1, <1>2, <1>4, <2>1, HeldTypes DEF Ends
    <2>3. /\ same' \in [Planners -> SUBSET Planners]
          /\ asked' \in [Phases -> SUBSET Planners]
      BY <1>4 DEF Ends, TypeOK
    <2> QED BY <2>2, <2>3
  <1>5. ASSUME NEW f \in Founders, Leaves(f)
        PROVE  stage' \in [Processes -> Stages] /\ desk' \in [Founders -> Desks]
    <2>1. f \in Processes /\ "idle" \in Stages
      BY DEF Processes, Stages
    <2>2. desk' \in [Founders -> Desks]
      BY <1>5, HeldTypes DEF Leaves, TypeOK, Desks
    <2> QED BY <1>1, <1>5, <2>1, <2>2 DEF Leaves
  <1>6. ASSUME NEW p \in Planners, HoldsHash(p)
        PROVE  /\ fresh' \in [Planners -> BOOLEAN]
               /\ same' \in [Planners -> SUBSET Planners] /\ asked' = asked
    BY <1>6 DEF HoldsHash, TypeOK
  <1> QED BY <1>1, <1>2, <1>3, <1>4, <1>5, <1>6

LEMMA TypeInit == Init => TypeOK
  <1> SUFFICES ASSUME Init PROVE TypeOK
    OBVIOUS
  <1>1. /\ run \in Situations /\ 0 \in Phases /\ "idle" \in Stages /\ lane \in Seq(Planners)
    BY StartAssumption, BoundAssumption DEF Init, Phases, Stages
  <1>2. NothingHeld \in Views /\ EmptyDesk \in Desks /\ NewSegment \in Segments
    BY HeldTypes, SegmentTypes
  <1> QED BY <1>1, <1>2 DEF Init, TypeOK, Desks

\* An escalation appended, and one removed.
LEMMA LaneTypes ==
  ASSUME TypeOK
  PROVE  /\ \A p \in Planners : Append(lane, p) \in Seq(Planners)
         /\ lane # <<>> => Latest \in Planners
         /\ \A i \in DOMAIN lane :
              [j \in 1 .. Len(lane) - 1 |-> lane[IF j < i THEN j ELSE j + 1]] \in Seq(Planners)
  <1>1. lane \in Seq(Planners) /\ Len(lane) \in Nat /\ DOMAIN lane = 1 .. Len(lane)
    BY DEF TypeOK
  <1>2. lane # <<>> => Latest \in Planners
    BY <1>1 DEF Latest
  <1>3. ASSUME NEW i \in DOMAIN lane
        PROVE  [j \in 1 .. Len(lane) - 1 |-> lane[IF j < i THEN j ELSE j + 1]] \in Seq(Planners)
    <2>1. Len(lane) - 1 \in Nat
      BY <1>1
    <2>2. \A j \in 1 .. Len(lane) - 1 : (IF j < i THEN j ELSE j + 1) \in 1 .. Len(lane)
      BY <1>1
    <2>3. \A j \in 1 .. Len(lane) - 1 : lane[IF j < i THEN j ELSE j + 1] \in Planners
      BY <1>1, <2>2
    <2> QED BY <2>1, <2>3
  <1> QED BY <1>1, <1>2, <1>3

LEMMA AnswerTypes ==
  ASSUME TypeOK, NEW f \in Founders, Answers(f)
  PROVE  lane' \in Seq(Planners) /\ desk' \in [Founders -> Desks]
  <1>1. lane' \in Seq(Planners)
    BY LaneTypes DEF Answers
  <1>a. \A d \in Desks : [d EXCEPT !.target = Nobody] \in Desks
    BY DEF Desks
  <1>b. \A g \in Founders : desk[g] \in Desks
    BY DEF TypeOK, Desks
  <1>2. \A g \in Founders : desk[g] \in Desks /\ [desk[g] EXCEPT !.target = Nobody] \in Desks
    BY <1>a, <1>b
  <1>3. desk' \in [Founders -> Desks]
    BY <1>2, HeldTypes DEF Answers
  <1> QED BY <1>1, <1>3

\* Only proposals are judged.
JudgesProposal(p) == stage[p] = "judging" => view[p].says \in Proposals
JudgesProposals == \A p \in Planners : JudgesProposal(p)

LEMMA TypeStep ==
  ASSUME TypeOK, JudgesProposals, [Next]_vars
  PROVE  TypeOK'
  <1>0. /\ run \in Situations /\ phase \in Phases /\ segments \in [Phases -> Segments]
        /\ tried \in [Phases -> SUBSET (Planners \X Intents)]
        /\ hints \in [Phases -> Nat] /\ stops \in [Phases -> Nat]
        /\ help \in [Phases -> [Planners -> Nat]] /\ lane \in Seq(Planners)
        /\ stage \in [Processes -> Stages] /\ view \in [Planners -> Views]
        /\ desk \in [Founders -> Desks] /\ fresh \in [Planners -> BOOLEAN]
        /\ same \in [Planners -> SUBSET Planners] /\ asked \in [Phases -> SUBSET Planners]
        /\ replies \in Nat /\ deaths \in Nat
    BY DEF TypeOK, Desks
  <1>a. /\ Planners \subseteq Processes /\ Founders \subseteq Processes
        /\ Stages = {"idle", "thinking", "answered", "surveyed", "governed", "judging",
                     "asking", "opening", "deciding", "closing", "shutting", "alarming",
                     "reading", "replying", "recharging"}
    BY DEF Processes, Stages
  <1>b. \A p \in Planners : /\ view[p] \in Views /\ view[p].phase \in Phases
                            /\ view[p].says \in Says /\ view[p].tries \in Nat
                            /\ view[p].malformed \in Nat /\ view[p].used \in Nat
    BY <1>0 DEF Views
  <1>c. \A f \in Founders : desk[f] \in Desks /\ desk[f].phase \in Phases
    BY <1>0 DEF Desks
  <1>d. \A p \in Planners : view[p].says \in Proposals =>
          /\ KeyOfProposal(p) \in SUBSET Keys /\ IntentOf[view[p].says] \in Intents
    BY DEF KeyOfProposal, Proposed, Keys, Intents
  <1>1. ASSUME NEW p \in Planners, Invoke(p) \/ InvokeAlarmed(p) PROVE TypeOK'
    <2>1. stage' \in [Processes -> Stages]
      BY <1>1, <1>a, CommonTypes DEF Invoke, InvokeAlarmed
    <2>2. /\ fresh' \in [Planners -> BOOLEAN] /\ same' \in [Planners -> SUBSET Planners]
          /\ asked' \in [Phases -> SUBSET Planners]
      BY <1>0, <1>1, CommonTypes DEF Invoke, InvokeAlarmed, hashVars
    <2>3. UNCHANGED <<run, phase, ledgerVars, view, desk, replies, deaths>>
      BY <1>1 DEF Invoke, InvokeAlarmed
    <2> QED BY <1>0, <2>1, <2>2, <2>3 DEF TypeOK, ledgerVars, Desks
  <1>2. ASSUME NEW p \in Planners, Propose(p) \/ Answer(p) PROVE TypeOK'
    <2>1. stage' \in [Processes -> Stages]
      BY <1>2, <1>a, CommonTypes DEF Propose, Answer
    <2>2. /\ fresh' \in [Planners -> BOOLEAN] /\ same' \in [Planners -> SUBSET Planners]
          /\ asked' \in [Phases -> SUBSET Planners]
      BY <1>0, <1>2, CommonTypes DEF Propose, Answer, hashVars
    <2>3. PICK x \in Proposals \cup {"ask"} : Keeps(p, [NothingHeld EXCEPT !.says = x])
      BY <1>2 DEF Propose, Answer
    <2>4. view' \in [Planners -> Views]
      BY <2>3, HeldTypes, CommonTypes DEF Says
    <2>5. UNCHANGED <<run, phase, ledgerVars, desk, replies, deaths>>
      BY <1>2 DEF Propose, Answer
    <2> QED BY <1>0, <2>1, <2>2, <2>4, <2>5 DEF TypeOK, ledgerVars, Desks
  <1>3. ASSUME NEW p \in Planners, ProviderRetry(p) PROVE TypeOK'
    <2>1. [view[p] EXCEPT !.tries = view[p].tries + 1] \in Views
      BY <1>b DEF Views
    <2>2. view' \in [Planners -> Views]
      BY <1>0, <1>3, <2>1 DEF ProviderRetry
    <2> QED BY <1>0, <1>3, <2>2 DEF ProviderRetry, TypeOK, ledgerVars, hashVars, Desks
  <1>4. ASSUME NEW p \in Planners, ProviderError(p) \/ ProviderBabbles(p) \/ Decide(p)
        PROVE  TypeOK'
    <2>1. Ends(p) /\ (Loudly \/ Quietly(p))
          /\ UNCHANGED <<run, phase, ledgerVars, desk, replies, deaths>>
      BY <1>4 DEF ProviderError, ProviderBabbles, Decide
    <2>2. fresh' \in [Planners -> BOOLEAN]
      BY <2>1, CommonTypes
    <2> QED BY <1>0, <2>1, <2>2, CommonTypes DEF TypeOK, ledgerVars, Desks
  <1>5. ASSUME NEW p \in Planners, FormatFailure(p) PROVE TypeOK'
    <2>1. UNCHANGED <<run, phase, ledgerVars, desk, replies, deaths>>
      BY <1>5 DEF FormatFailure
    <2>2. CASE view[p].malformed + 1 <= MaxFormatRetries
      <3>0. view[p] \in Views /\ view[p].malformed + 1 \in Nat /\ 0 \in Nat
        BY <1>b
      <3>1. [view[p] EXCEPT !.malformed = view[p].malformed + 1, !.tries = 0] \in Views
        BY <3>0 DEF Views
      <3>2. view' = [view EXCEPT ![p] =
                       [view[p] EXCEPT !.malformed = view[p].malformed + 1, !.tries = 0]]
        BY <1>0, <1>5, <2>2 DEF FormatFailure
      <3>3. view' \in [Planners -> Views] /\ UNCHANGED <<stage, hashVars>>
        BY <1>0, <1>5, <2>2, <3>1, <3>2 DEF FormatFailure
      <3> QED BY <1>0, <2>1, <3>3 DEF TypeOK, ledgerVars, hashVars, Desks
    <2>3. CASE ~(view[p].malformed + 1 <= MaxFormatRetries)
      <3>1. /\ Moves(p, "surveyed") /\ Recorded
            /\ Keeps(p, [NothingHeld EXCEPT !.says = "garbage"])
        BY <1>5, <2>3 DEF FormatFailure
      <3>2. stage' \in [Processes -> Stages] /\ view' \in [Planners -> Views]
        BY <3>1, <1>a, HeldTypes, CommonTypes DEF Says
      <3>3. fresh' \in [Planners -> BOOLEAN] /\ UNCHANGED <<same, asked>>
        BY <3>1, CommonTypes DEF Recorded
      <3> QED BY <1>0, <2>1, <3>2, <3>3 DEF TypeOK, ledgerVars, Desks
    <2> QED BY <2>2, <2>3
  <1>6. ASSUME NEW p \in Planners, Survey(p) PROVE TypeOK'
    <2>1. UNCHANGED <<run, phase, ledgerVars, desk, replies, deaths>>
      BY <1>6 DEF Survey
    <2>2. CASE Ends(p) /\ Quietly(p)
      BY <1>0, <2>1, <2>2, CommonTypes DEF TypeOK, ledgerVars, Desks
    <2>3. CASE ~(Ends(p) /\ Quietly(p))
      <3>1. PICK current \in BOOLEAN, legal \in BOOLEAN :
              view' = [view EXCEPT ![p].current = current, ![p].legal = legal]
        BY <1>0, <1>6, <2>3 DEF Survey
      <3>2. [view[p] EXCEPT !.current = current, !.legal = legal] \in Views
        BY <1>b DEF Views
      <3>3. view' = [view EXCEPT ![p] = [view[p] EXCEPT !.current = current, !.legal = legal]]
        BY <1>0, <3>1
      <3>4. view' \in [Planners -> Views]
        BY <1>0, <3>2, <3>3
      <3>5. Moves(p, "surveyed") /\ UNCHANGED hashVars
        BY <1>6, <2>3 DEF Survey
      <3>6. stage' \in [Processes -> Stages]
        BY <3>5, <1>a, CommonTypes
      <3> QED BY <1>0, <2>1, <3>4, <3>5, <3>6 DEF TypeOK, ledgerVars, hashVars, Desks
    <2> QED BY <2>2, <2>3
  <1>7. ASSUME NEW p \in Planners, Govern(p) PROVE TypeOK'
    <2>1. UNCHANGED <<run, phase, ledgerVars, desk, replies, deaths>>
      BY <1>7 DEF Govern
    <2>2. CASE Ends(p) /\ Quietly(p)
      BY <1>0, <2>1, <2>2, CommonTypes DEF TypeOK, ledgerVars, Desks
    <2>3. CASE ~(Ends(p) /\ Quietly(p))
      <3>1. PICK used \in Nat, taken \in BOOLEAN, again \in BOOLEAN, sent \in BOOLEAN :
              view' = [view EXCEPT ![p].phase = phase, ![p].used = used, ![p].taken = taken,
                                   ![p].asked = again, ![p].sent = sent]
        <4>1. segments[phase].used \in Nat
          BY <1>0 DEF Segments
        <4>2. /\ Taken(p) \in BOOLEAN /\ (p \in asked[phase]) \in BOOLEAN
              /\ (view[p].says \in Proposals
                    /\ KeyOf[view[p].says] \in segments[phase].keys) \in BOOLEAN
          BY DEF Taken
        <4> QED BY <4>1, <4>2, <1>7, <2>3 DEF Govern
      <3>2. [view[p] EXCEPT !.phase = phase, !.used = used, !.taken = taken,
                            !.asked = again, !.sent = sent] \in Views
        <4>1. \A v \in Views, n \in Phases :
                [v EXCEPT !.phase = n, !.used = used, !.taken = taken,
                          !.asked = again, !.sent = sent] \in Views
          BY DEF Views
        <4>2. view[p] \in Views /\ phase \in Phases
          BY <1>0, <1>b
        <4> QED BY <4>1, <4>2
      <3>3. view' = [view EXCEPT ![p] =
                       [view[p] EXCEPT !.phase = phase, !.used = used, !.taken = taken,
                                       !.asked = again, !.sent = sent]]
        BY <1>0, <3>1
      <3>4. view' \in [Planners -> Views]
        BY <1>0, <3>2, <3>3
      <3>5. Moves(p, "governed") /\ UNCHANGED hashVars
        BY <1>7, <2>3 DEF Govern
      <3>6. stage' \in [Processes -> Stages]
        BY <3>5, <1>a, CommonTypes
      <3> QED BY <1>0, <2>1, <3>4, <3>5, <3>6 DEF TypeOK, ledgerVars, hashVars, Desks
    <2> QED BY <2>2, <2>3
  <1>8. ASSUME NEW p \in Planners, ScanLedger(p) \/ CountHints(p) PROVE TypeOK'
    <2>1. \E next \in {"alarming", "judging", "asking", "shutting"} : Moves(p, next)
      BY <1>8 DEF ScanLedger, CountHints
    <2>2. stage' \in [Processes -> Stages]
      BY <2>1, <1>a, CommonTypes
    <2>3. \/ Keeps(p, NothingHeld) \/ view' = view
          \/ \E repeated \in BOOLEAN : view' = [view EXCEPT ![p].repeated = repeated]
      BY <1>8 DEF ScanLedger, CountHints, Repeats
    <2>4. \A repeated \in BOOLEAN : [view[p] EXCEPT !.repeated = repeated] \in Views
      BY <1>b DEF Views
    <2>5. view' \in [Planners -> Views]
      <3>1. CASE Keeps(p, NothingHeld) \/ view' = view
        BY <3>1, <1>0, HeldTypes, CommonTypes
      <3>2. CASE \E repeated \in BOOLEAN : view' = [view EXCEPT ![p].repeated = repeated]
        BY <3>2, <1>0, <2>4
      <3> QED BY <2>3, <3>1, <3>2
    <2>6. UNCHANGED <<run, phase, ledgerVars, desk, hashVars, replies, deaths>>
      BY <1>8 DEF ScanLedger, CountHints
    <2> QED BY <1>0, <2>2, <2>5, <2>6 DEF TypeOK, ledgerVars, hashVars, Desks
  <1>9. ASSUME NEW p \in Planners, Alarm(p) \/ OpenLane(p) PROVE TypeOK'
    <2>1. /\ Ends(p) /\ Loudly /\ lane' = Append(lane, p)
          /\ UNCHANGED <<run, phase, segments, tried, hints, stops, help, desk, replies, deaths>>
      BY <1>9 DEF Alarm, OpenLane
    <2> QED BY <1>0, <2>1, CommonTypes, LaneTypes DEF TypeOK, Desks
  <1>10. ASSUME NEW p \in Planners, NEW n \in Phases, NEW held \in Segments,
                segments' = [segments EXCEPT ![n] = held],
                Ends(p) /\ (Loudly \/ Quietly(p)), tried' = tried,
                UNCHANGED <<run, phase, hints, stops, help, lane, desk, replies, deaths>>
         PROVE  TypeOK'
    <2>1. segments' \in [Phases -> Segments]
      BY <1>10, <1>0
    <2> QED BY <1>0, <1>10, <2>1, CommonTypes DEF TypeOK, Desks
  <1>11. ASSUME NEW p \in Planners, RefuseUncharged(p) \/ Close(p) \/ RefuseAsk(p)
         PROVE  TypeOK'
    <2> DEFINE n == view[p].phase
    <2>1. RefuseUncharged(p) =>
            n \in Phases /\ segments[n] \in Segments /\ KeyOfProposal(p) \in SUBSET Keys
      BY <1>0, <1>b, <1>d DEF RefuseUncharged, Resubmitted, Stale, Proposes, JudgesProposals, JudgesProposal
    <2>2. CASE RefuseUncharged(p)
      <3>1. /\ [segments[n] EXCEPT !.keys = @ \cup KeyOfProposal(p)] \in Segments
            /\ n \in Phases
        BY <2>1, <2>2, SegmentTypes
      <3>2. segments' = [segments EXCEPT ![n] =
                           [segments[n] EXCEPT !.keys = @ \cup KeyOfProposal(p)]]
        BY <2>2, <1>0 DEF RefuseUncharged
      <3>3. /\ Ends(p) /\ Loudly
            /\ UNCHANGED <<run, phase, tried, hints, stops, help, lane, desk, replies, deaths>>
        BY <2>2 DEF RefuseUncharged
      <3> HIDE DEF n
      <3> QED BY <3>1, <3>2, <3>3, <1>10
    <2>3. CASE Close(p) \/ RefuseAsk(p)
      <3>1. /\ [segments[n] EXCEPT !.exhausted = TRUE] \in Segments
            /\ [segments[n] EXCEPT !.used = @ + 1] \in Segments
            /\ n \in Phases
        BY <1>0, <1>b, SegmentTypes
      <3>2. \/ segments' = [segments EXCEPT ![n] = [segments[n] EXCEPT !.exhausted = TRUE]]
            \/ segments' = [segments EXCEPT ![n] = [segments[n] EXCEPT !.used = @ + 1]]
        BY <2>3, <1>0 DEF Close, RefuseAsk
      <3>3. /\ Ends(p) /\ Loudly
            /\ UNCHANGED <<run, phase, tried, hints, stops, help, lane, desk, replies, deaths>>
        BY <2>3 DEF Close, RefuseAsk
      <3> HIDE DEF n
      <3> QED BY <3>1, <3>2, <3>3, <1>10
    <2> QED BY <1>11, <2>2, <2>3
  <1>12. ASSUME NEW p \in Planners, RefuseCharged(p) \/ ChargeFormatFailure(p) \/ Accept(p)
         PROVE  TypeOK'
    <2> DEFINE n == view[p].phase
    <2>1. n \in Phases /\ segments[n] \in Segments /\ {} \in SUBSET Keys
      BY <1>0, <1>b
    <2>2. RefuseCharged(p) \/ Accept(p) =>
            view[p].says \in Proposals /\ KeyOfProposal(p) \in SUBSET Keys
      BY <1>d DEF RefuseCharged, Accept, Judged, Proposes, JudgesProposals, JudgesProposal
    <2>3. segments' \in [Phases -> Segments]
      <3>1. CASE Accept(p)
        <4>1. WithSelected(segments[n], p, KeyOfProposal(p)) \in Segments
          BY <2>1, <2>2, <3>1, SegmentTypes
        <4>2. segments' = [segments EXCEPT ![n] = WithSelected(segments[n], p, KeyOfProposal(p))]
          BY <3>1 DEF Accept
        <4> HIDE DEF n
        <4> QED BY <1>0, <2>1, <4>1, <4>2
      <3>2. CASE RefuseCharged(p) \/ ChargeFormatFailure(p)
        <4>1. PICK keys \in SUBSET Keys : Charged(p, keys)
          BY <2>1, <2>2, <3>2 DEF RefuseCharged, ChargeFormatFailure
        <4>2. WithWrong(segments[n], p, keys) \in Segments
          BY <2>1, SegmentTypes
        <4>3. segments' = [segments EXCEPT ![n] = WithWrong(segments[n], p, keys)]
          BY <4>1 DEF Charged
        <4> HIDE DEF n
        <4> QED BY <1>0, <2>1, <4>2, <4>3
      <3> QED BY <1>12, <3>1, <3>2
    <2>4. tried' \in [Phases -> SUBSET (Planners \X Intents)]
      <3>1. CASE ChargeFormatFailure(p)
        BY <1>0, <3>1 DEF ChargeFormatFailure
      <3>2. CASE RefuseCharged(p) \/ Accept(p)
        <4>1. <<p, IntentOf[view[p].says]>> \in Planners \X Intents
          BY <1>d, <2>2, <3>2
        <4>2. tried' = [tried EXCEPT ![n] = tried[n] \cup {<<p, IntentOf[view[p].says]>>}]
          BY <1>0, <2>1, <3>2 DEF RefuseCharged, Accept, Proposed
        <4> HIDE DEF n
        <4> QED BY <1>0, <2>1, <4>1, <4>2
      <3> QED BY <1>12, <3>1, <3>2
    <2>5. /\ stage' \in [Processes -> Stages] /\ view' \in [Planners -> Views]
          /\ fresh' \in [Planners -> BOOLEAN] /\ same' \in [Planners -> SUBSET Planners]
          /\ asked' \in [Phases -> SUBSET Planners]
      <3>1. \/ Ends(p) /\ Loudly
            \/ /\ \E next \in {"closing", "shutting", "deciding"} : Moves(p, next)
               /\ Recorded
               /\ Keeps(p, NothingHeld) \/ Keeps(p, [NothingHeld EXCEPT !.phase = n])
        BY <1>12 DEF RefuseCharged, ChargeFormatFailure, Accept
      <3> HIDE DEF n
      <3> QED BY <3>1, <2>1, <1>0, <1>a, CommonTypes, HeldTypes DEF Recorded
    <2>6. UNCHANGED <<run, phase, hints, stops, help, lane, desk, replies, deaths>>
      BY <1>12 DEF RefuseCharged, ChargeFormatFailure, Accept
    <2> QED BY <1>0, <2>3, <2>4, <2>5, <2>6 DEF TypeOK, Desks
  <1>13. ASSUME NEW x \in Processes, Shut(x) PROVE TypeOK'
    <2>1. segments' \in [Phases -> Segments]
      <3>1. [segments[phase] EXCEPT !.exhausted = TRUE] \in Segments
        BY <1>0, SegmentTypes
      <3>2. segments' = [segments EXCEPT ![phase] = [segments[phase] EXCEPT !.exhausted = TRUE]]
        BY <1>13, <1>0 DEF Shut
      <3> QED BY <1>0, <3>1, <3>2
    <2>2. fresh' \in [Planners -> BOOLEAN]
      BY <1>0, <1>13, CommonTypes DEF Shut
    <2>3. /\ stage' \in [Processes -> Stages] /\ view' \in [Planners -> Views]
          /\ same' \in [Planners -> SUBSET Planners] /\ asked' \in [Phases -> SUBSET Planners]
          /\ desk' \in [Founders -> Desks]
      <3>1. CASE x \in Planners
        BY <3>1, <1>0, <1>13, CommonTypes DEF Shut
      <3>2. CASE x \notin Planners
        BY <3>2, <1>0, <1>13, CommonTypes DEF Shut, Processes
      <3> QED BY <3>1, <3>2
    <2>4. UNCHANGED <<run, phase, tried, hints, stops, help, lane, replies, deaths>>
      BY <1>13 DEF Shut
    <2> QED BY <1>0, <2>1, <2>2, <2>3, <2>4 DEF TypeOK, Desks
  <1>14. ASSUME NEW p \in Planners, GrantAsk(p) PROVE TypeOK'
    <2>1. /\ Moves(p, "opening") /\ Keeps(p, NothingHeld) /\ Loudly
          /\ UNCHANGED <<run, phase, segments, tried, hints, stops, lane, desk, same,
                         replies, deaths>>
      BY <1>14 DEF GrantAsk
    <2>2. stage' \in [Processes -> Stages] /\ view' \in [Planners -> Views]
          /\ fresh' \in [Planners -> BOOLEAN]
      BY <2>1, <1>a, HeldTypes, CommonTypes
    <2>3. asked' \in [Phases -> SUBSET Planners]
      BY <1>0, <1>b, <1>14 DEF GrantAsk
    <2>4. help' \in [Phases -> [Planners -> Nat]]
      <3> DEFINE n == view[p].phase
      <3>1. n \in Phases /\ help[n] \in [Planners -> Nat] /\ help[n][p] + 1 \in Nat
        BY <1>0, <1>b
      <3>2. [help[n] EXCEPT ![p] = help[n][p] + 1] \in [Planners -> Nat]
        BY <3>1
      <3>3. help' = [help EXCEPT ![n] = [help[n] EXCEPT ![p] = help[n][p] + 1]]
        BY <1>0, <1>14 DEF GrantAsk
      <3> HIDE DEF n
      <3> QED BY <1>0, <3>1, <3>2, <3>3
    <2> QED BY <1>0, <2>1, <2>2, <2>3, <2>4 DEF TypeOK, Desks
  <1>15. ASSUME NEW f \in Founders, LookAtLane(f) \/ LookAtPhase(f) \/ BeginRecharge(f)
         PROVE  TypeOK'
    <2>1. stage' \in [Processes -> Stages]
      BY <1>15, <1>a, CommonTypes DEF LookAtLane, LookAtPhase, BeginRecharge
    <2>2. desk' \in [Founders -> Desks]
      <3>1. /\ [desk[f] EXCEPT !.phase = phase] \in Desks
            /\ lane # <<>> => [desk[f] EXCEPT !.target = Latest] \in Desks
        BY <1>0, <1>c, LaneTypes DEF Desks
      <3>2. \/ desk' = [desk EXCEPT ![f] = [desk[f] EXCEPT !.phase = phase]]
            \/ lane # <<>> /\ desk' = [desk EXCEPT ![f] = [desk[f] EXCEPT !.target = Latest]]
        BY <1>0, <1>15 DEF LookAtLane, LookAtPhase, BeginRecharge
      <3> QED BY <1>0, <3>1, <3>2
    <2>3. replies' \in Nat
      BY <1>0, <1>15 DEF LookAtLane, LookAtPhase, BeginRecharge
    <2>4. UNCHANGED <<run, phase, ledgerVars, view, hashVars, deaths>>
      BY <1>15 DEF LookAtLane, LookAtPhase, BeginRecharge
    <2> QED BY <1>0, <2>1, <2>2, <2>3, <2>4 DEF TypeOK, ledgerVars, hashVars, Desks
  <1>16. ASSUME NEW f \in Founders, Hint(f) \/ Stop(f) PROVE TypeOK'
    <2>1. stage' \in [Processes -> Stages]
      BY <1>16, <1>a, CommonTypes DEF Hint, Stop
    <2>2. lane' \in Seq(Planners) /\ desk' \in [Founders -> Desks]
      BY <1>16, AnswerTypes DEF Hint, Stop
    <2>3. hints' \in [Phases -> Nat] /\ stops' \in [Phases -> Nat]
      <3>1. CASE Hint(f)
        BY <3>1, <1>0, <1>c, LimitAssumption DEF Hint
      <3>2. CASE Stop(f)
        BY <3>2, <1>0, <1>c DEF Stop
      <3> QED BY <1>16, <3>1, <3>2
    <2>4. fresh' \in [Planners -> BOOLEAN]
      BY <1>16, CommonTypes DEF Hint, Stop
    <2>5. UNCHANGED <<run, phase, segments, tried, help, view, same, asked, replies, deaths>>
      BY <1>16 DEF Hint, Stop
    <2> QED BY <1>0, <2>1, <2>2, <2>3, <2>4, <2>5 DEF TypeOK, Desks
  <1>17. ASSUME NEW f \in Founders, ReplyRefused(f) PROVE TypeOK'
    <2>1. Leaves(f) /\ UNCHANGED <<run, phase, ledgerVars, view, hashVars, replies, deaths>>
      BY <1>17 DEF ReplyRefused
    <2> QED BY <1>0, <2>1, CommonTypes DEF TypeOK, ledgerVars, hashVars, Desks
  <1>18. ASSUME NEW f \in Founders, Recharge(f) PROVE TypeOK'
    <2>1. segments' \in [Phases -> Segments] /\ asked' \in [Phases -> SUBSET Planners]
      BY <1>0, <1>c, <1>18, SegmentTypes DEF Recharge
    <2>2. /\ Leaves(f) /\ Loudly
          /\ UNCHANGED <<run, phase, tried, hints, stops, help, lane, view, same, replies, deaths>>
      BY <1>18 DEF Recharge
    <2> QED BY <1>0, <2>1, <2>2, CommonTypes DEF TypeOK, Desks
  <1>19. ASSUME Advance PROVE TypeOK'
    <2>1. phase' \in Phases
      BY <1>0, <1>19, BoundAssumption DEF Advance, Phases
    <2>2. run' \in Situations
      <3>1. run' \in Successors(run) /\ run.streak \in Nat
        BY <1>0, <1>19 DEF Advance, Situations
      <3>2. \A s \in Situations : Successors(s) \subseteq Situations
        <4> SUFFICES ASSUME NEW s \in Situations, NEW t \in Successors(s) PROVE t \in Situations
          OBVIOUS
        <4>0. /\ s = [status |-> s.status, patch |-> s.patch, streak |-> s.streak]
              /\ s.status \in Statuses /\ s.patch \in PatchStatuses /\ s.streak \in Nat
              /\ s.streak + 1 \in Nat /\ 1 \in Nat
          BY DEF Situations
        <4>1. \A status \in Statuses, patch \in PatchStatuses, n \in Nat :
                [status |-> status, patch |-> patch, streak |-> n] \in Situations
          BY DEF Situations
        <4>2. /\ {"ready", "rejected", "suspended", "running", "failed", "completed"}
                     \subseteq Statuses
              /\ {"rejected", "applied", "pending"} \subseteq PatchStatuses
          BY DEF Statuses, PatchStatuses
        <4>3. CASE s.status = "waiting_approval"
          <5>1. PICK next \in {"ready", "rejected", "suspended"} : t = [s EXCEPT !.status = next]
            BY <4>3 DEF Successors
          <5>2. t = [status |-> next, patch |-> s.patch, streak |-> s.streak]
            BY <4>0, <5>1
          <5> QED BY <4>0, <4>1, <4>2, <5>1, <5>2
        <4>4. CASE s.status = "ready" /\ s.patch = "pending"
          <5>1. \/ \E n \in {1, s.streak + 1} : t = [s EXCEPT !.patch = "rejected", !.streak = n]
                \/ t = [s EXCEPT !.patch = "applied", !.status = "completed"]
            BY <4>4 DEF Successors
          <5>2. \/ \E n \in {1, s.streak + 1} :
                     t = [status |-> s.status, patch |-> "rejected", streak |-> n]
                \/ t = [status |-> "completed", patch |-> "applied", streak |-> s.streak]
            BY <4>0, <5>1
          <5> QED BY <4>0, <4>1, <4>2, <5>2
        <4>5. CASE s.status = "ready" /\ s.patch = "none"
          BY <4>0, <4>1, <4>2, <4>5 DEF Successors
        <4>6. CASE s.status = "running"
          <5>1. \/ t = [s EXCEPT !.status = "failed", !.streak = 1]
                \/ t = [s EXCEPT !.status = "completed"] \/ t = [s EXCEPT !.status = "ready"]
                \/ t = [s EXCEPT !.status = "ready", !.patch = "pending"]
            BY <4>6 DEF Successors
          <5>2. \/ t = [status |-> "failed", patch |-> s.patch, streak |-> 1]
                \/ t = [status |-> "completed", patch |-> s.patch, streak |-> s.streak]
                \/ t = [status |-> "ready", patch |-> s.patch, streak |-> s.streak]
                \/ t = [status |-> "ready", patch |-> "pending", streak |-> s.streak]
            BY <4>0, <5>1
          <5> QED BY <4>0, <4>1, <4>2, <5>2
        <4>7. CASE /\ s.status \notin {"waiting_approval", "running"}
                   /\ ~(s.status = "ready" /\ s.patch \in {"pending", "none"})
          BY <4>7 DEF Successors
        <4> QED BY <4>3, <4>4, <4>5, <4>6, <4>7
      <3> QED BY <1>0, <3>1, <3>2
    <2>3. /\ fresh' \in [Planners -> BOOLEAN]
          /\ UNCHANGED <<ledgerVars, stage, view, desk, same, asked, replies, deaths>>
      BY <1>19, CommonTypes DEF Advance
    <2> QED BY <1>0, <2>1, <2>2, <2>3 DEF TypeOK, ledgerVars, Desks
  <1>20. ASSUME NEW x \in Processes, Dies(x) PROVE TypeOK'
    <2>1. deaths' \in Nat /\ UNCHANGED <<run, phase, ledgerVars, replies>>
      BY <1>0, <1>20 DEF Dies
    <2>2. CASE x \in Planners
      BY <1>0, <1>20, <2>1, <2>2, CommonTypes DEF Dies, TypeOK, ledgerVars, Desks
    <2>3. CASE x \notin Planners
      BY <1>0, <1>20, <2>1, <2>3, CommonTypes
         DEF Dies, TypeOK, ledgerVars, hashVars, Desks, Processes
    <2> QED BY <2>2, <2>3
  <1>21. CASE UNCHANGED vars
    BY <1>0, <1>21 DEF vars, TypeOK, ledgerVars, hashVars, Desks
  <1> QED
    BY <1>a, <1>1, <1>2, <1>3, <1>4, <1>5, <1>6, <1>7, <1>8, <1>9, <1>11, <1>12, <1>13, <1>14,
       <1>15, <1>16, <1>17, <1>18, <1>19, <1>20, <1>21 DEF Next, PlannerStep, FounderStep

-----------------------------------------------------------------------------
(* What the others do to a planner.                                        *)

OwnStep(p) == Invoke(p) \/ InvokeAlarmed(p) \/ Propose(p) \/ PlannerStep(p) \/ Dies(p)

\* A segment s that became t by what the others did.
SameFor(p, s, t) ==
  /\ t.wrong[p] = s.wrong[p] /\ t.selected[p] = s.selected[p]
  /\ t.used >= s.used /\ (s.exhausted => t.exhausted)

\* The others leave what p holds and has been charged with alone, unless a
\* founder recharges a phase; a hash that stays fresh was about the same run.
Undisturbed(p) ==
  /\ stage'[p] = stage[p] /\ view'[p] = view[p]
  /\ \A n \in Phases : segments'[n] = NewSegment \/ SameFor(p, segments[n], segments'[n])
  /\ \A n \in Phases, i \in Intents : <<p, i>> \in tried'[n] => <<p, i>> \in tried[n]
  /\ phase' >= phase /\ deaths' >= deaths
  /\ fresh'[p] => fresh[p] /\ run' = run /\ lane' = lane

LEMMA SegmentsOfOthers ==
  ASSUME NEW p \in Planners, NEW s \in Segments
  PROVE  /\ SameFor(p, s, s)
         /\ SameFor(p, s, [s EXCEPT !.exhausted = TRUE])
         /\ SameFor(p, s, [s EXCEPT !.used = @ + 1])
         /\ \A keys : SameFor(p, s, [s EXCEPT !.keys = @ \cup keys])
         /\ \A q \in Planners : \A keys : q # p =>
              SameFor(p, s, WithWrong(s, q, keys)) /\ SameFor(p, s, WithSelected(s, q, keys))
  <1>1. s.used \in Nat /\ s.wrong \in [Planners -> Nat] /\ s.selected \in [Planners -> Nat]
    BY DEF Segments
  <1>2. ASSUME NEW q \in Planners, q # p, NEW keys
        PROVE  SameFor(p, s, WithWrong(s, q, keys)) /\ SameFor(p, s, WithSelected(s, q, keys))
    BY <1>1, <1>2 DEF SameFor, WithWrong, WithSelected, Segments
  <1>3. /\ SameFor(p, s, s)
        /\ SameFor(p, s, [s EXCEPT !.exhausted = TRUE])
        /\ SameFor(p, s, [s EXCEPT !.used = @ + 1])
        /\ \A keys : SameFor(p, s, [s EXCEPT !.keys = @ \cup keys])
    BY <1>1 DEF SameFor, Segments
  <1> QED BY <1>2, <1>3

LEMMA OthersStep ==
  ASSUME TypeOK, NEW p \in Planners, [Next]_vars, ~OwnStep(p)
  PROVE  Undisturbed(p)
  <1>0. /\ phase \in Nat /\ deaths \in Nat /\ segments \in [Phases -> Segments]
        /\ stage \in [Processes -> Stages] /\ view \in [Planners -> Views]
        /\ fresh \in [Planners -> BOOLEAN] /\ p \in Processes
        /\ tried \in [Phases -> SUBSET (Planners \X Intents)]
        /\ \A q \in Planners : q \in Processes /\ view[q].phase \in Phases
    <2>1. phase \in Nat /\ deaths \in Nat /\ p \in Processes
      BY DEF TypeOK, Phases, Processes
    <2>2. \A q \in Planners : q \in Processes /\ view[q].phase \in Phases
      BY DEF TypeOK, Processes, Views
    <2> QED BY <2>1, <2>2 DEF TypeOK
  <1>1. ASSUME segments' = segments, tried' = tried, stage'[p] = stage[p], view'[p] = view[p],
               phase' >= phase, deaths' >= deaths,
               fresh'[p] => fresh[p] /\ run' = run /\ lane' = lane
        PROVE  Undisturbed(p)
    <2>1. \A n \in Phases : SameFor(p, segments[n], segments[n])
      BY <1>0, SegmentsOfOthers
    <2> QED BY <1>1, <2>1 DEF Undisturbed
  <1>2. /\ \A q \in Processes : \A next : Moves(q, next) /\ q # p => stage'[p] = stage[p]
        /\ \A q \in Planners : \A held : Keeps(q, held) /\ q # p => view'[p] = view[p]
        /\ Recorded \/ Loudly => ~fresh'[p]
        /\ \A q \in Planners : Quietly(q) /\ q # p => fresh'[p] = fresh[p]
        /\ \A q \in Planners : HoldsHash(q) /\ q # p => fresh'[p] = fresh[p]
        /\ \A q \in Planners : Ends(q) /\ q # p => stage'[p] = stage[p] /\ view'[p] = view[p]
        /\ \A f \in Founders : Leaves(f) => stage'[p] = stage[p]
    BY <1>0, ProcessAssumption
       DEF Moves, Keeps, Recorded, Loudly, Quietly, HoldsHash, Ends, Leaves
  <1>3. ASSUME NEW q \in Planners, q # p,
               \/ Invoke(q) \/ InvokeAlarmed(q) \/ Propose(q) \/ ProviderRetry(q)
               \/ ProviderError(q) \/ ProviderBabbles(q) \/ FormatFailure(q) \/ Answer(q)
               \/ Survey(q) \/ Govern(q) \/ ScanLedger(q) \/ Decide(q) \/ CountHints(q)
        PROVE  Undisturbed(p)
    <2>1. UNCHANGED <<run, phase, ledgerVars, deaths>>
      BY <1>3 DEF Invoke, InvokeAlarmed, Propose, ProviderRetry, ProviderError,
                  ProviderBabbles, FormatFailure, Answer, Survey, Govern, ScanLedger,
                  Decide, CountHints
    <2>2. stage'[p] = stage[p] /\ view'[p] = view[p] /\ (fresh'[p] => fresh[p])
      <3>1. CASE Invoke(q) \/ InvokeAlarmed(q) \/ Propose(q)
        BY <3>1, <1>0, <1>2, <1>3 DEF Invoke, InvokeAlarmed, Propose, hashVars
      <3>2. CASE ProviderRetry(q) \/ ProviderError(q) \/ ProviderBabbles(q) \/ Answer(q) \/ Decide(q)
        BY <3>2, <1>0, <1>2, <1>3
           DEF ProviderRetry, ProviderError, ProviderBabbles, Answer, Decide, hashVars
      <3>3. CASE FormatFailure(q)
        BY <3>3, <1>0, <1>2, <1>3 DEF FormatFailure, hashVars
      <3>4. CASE Survey(q) \/ Govern(q)
        BY <3>4, <1>0, <1>2, <1>3 DEF Survey, Govern, hashVars
      <3>5. CASE ScanLedger(q) \/ CountHints(q)
        BY <3>5, <1>0, <1>2, <1>3 DEF ScanLedger, CountHints, hashVars
      <3> QED BY <1>3, <3>1, <3>2, <3>3, <3>4, <3>5
    <2> QED BY <1>0, <1>1, <2>1, <2>2 DEF ledgerVars
  <1>4. ASSUME NEW q \in Planners, q # p, Alarm(q) \/ GrantAsk(q) \/ OpenLane(q)
        PROVE  Undisturbed(p)
    <2>1. UNCHANGED <<phase, segments, tried, deaths>> /\ Loudly
      BY <1>4 DEF Alarm, GrantAsk, OpenLane
    <2>2. stage'[p] = stage[p] /\ view'[p] = view[p]
      BY <1>0, <1>2, <1>4 DEF Alarm, GrantAsk, OpenLane
    <2> QED BY <1>0, <1>1, <1>2, <2>1, <2>2
  <1>5. ASSUME NEW q \in Planners, q # p,
               \/ RefuseUncharged(q) \/ RefuseCharged(q) \/ Accept(q)
               \/ ChargeFormatFailure(q) \/ Close(q) \/ RefuseAsk(q)
        PROVE  Undisturbed(p)
    <2> DEFINE n == view[q].phase
    <2>0. n \in Phases /\ segments[n] \in Segments
      BY <1>0
    <2>1. UNCHANGED <<phase, deaths>> /\ ~fresh'[p]
      BY <1>2, <1>5 DEF RefuseUncharged, RefuseCharged, Accept, ChargeFormatFailure, Close, RefuseAsk
    <2>2. stage'[p] = stage[p] /\ view'[p] = view[p]
      BY <1>0, <1>2, <1>5
         DEF RefuseUncharged, RefuseCharged, Accept, ChargeFormatFailure, Close, RefuseAsk
    <2>3. PICK t : segments' = [segments EXCEPT ![n] = t] /\ SameFor(p, segments[n], t)
      <3>1. CASE RefuseUncharged(q) \/ Close(q) \/ RefuseAsk(q)
        <4>1. \/ segments' = [segments EXCEPT ![n] =
                                [segments[n] EXCEPT !.keys = @ \cup KeyOfProposal(q)]]
              \/ segments' = [segments EXCEPT ![n] = [segments[n] EXCEPT !.exhausted = TRUE]]
              \/ segments' = [segments EXCEPT ![n] = [segments[n] EXCEPT !.used = @ + 1]]
          BY <3>1, <1>0 DEF RefuseUncharged, Close, RefuseAsk
        <4> HIDE DEF n
        <4> QED BY <4>1, <2>0, SegmentsOfOthers
      <3>2. CASE Accept(q)
        <4>1. segments' = [segments EXCEPT ![n] = WithSelected(segments[n], q, KeyOfProposal(q))]
          BY <3>2 DEF Accept
        <4> HIDE DEF n
        <4> QED BY <4>1, <2>0, <1>5, SegmentsOfOthers
      <3>3. CASE RefuseCharged(q) \/ ChargeFormatFailure(q)
        <4>1. PICK keys : segments' = [segments EXCEPT ![n] = WithWrong(segments[n], q, keys)]
          BY <3>3 DEF RefuseCharged, ChargeFormatFailure, Charged
        <4> HIDE DEF n
        <4> QED BY <4>1, <2>0, <1>5, SegmentsOfOthers
      <3> QED BY <1>5, <3>1, <3>2, <3>3
    <2>4. \A m \in Phases : SameFor(p, segments[m], segments'[m])
      <3> HIDE DEF n
      <3> QED BY <1>0, <2>0, <2>3, SegmentsOfOthers
    <2>5. \A m \in Phases, i \in Intents : <<p, i>> \in tried'[m] => <<p, i>> \in tried[m]
      <3>1. \/ tried' = tried
            \/ tried' = [tried EXCEPT ![n] = tried[n] \cup {<<q, IntentOf[Proposed(q)]>>}]
        BY <1>0, <1>5
           DEF RefuseUncharged, RefuseCharged, Accept, ChargeFormatFailure, Close, RefuseAsk
      <3> HIDE DEF n
      <3> QED BY <1>0, <1>5, <3>1, <2>0
    <2> QED BY <1>0, <2>1, <2>2, <2>4, <2>5 DEF Undisturbed
  <1>6. ASSUME NEW x \in Processes, x # p, Shut(x)
        PROVE  Undisturbed(p)
    <2>1. segments' = [segments EXCEPT ![phase] = [segments[phase] EXCEPT !.exhausted = TRUE]]
      BY <1>0, <1>6 DEF Shut
    <2>2. \A m \in Phases : SameFor(p, segments[m], segments'[m])
      BY <1>0, <2>1, SegmentsOfOthers
    <2>3. UNCHANGED <<run, phase, tried, lane, deaths>>
      BY <1>6 DEF Shut
    <2>4. stage'[p] = stage[p] /\ view'[p] = view[p]
      BY <1>0, <1>2, <1>6 DEF Shut, Processes
    <2>5. fresh'[p] => fresh[p]
      BY <1>0, <1>2, <1>6 DEF Shut
    <2> QED BY <1>0, <2>2, <2>3, <2>4, <2>5 DEF Undisturbed
  <1>7. ASSUME NEW f \in Founders,
               LookAtLane(f) \/ BeginRecharge(f) \/ LookAtPhase(f) \/ ReplyRefused(f)
        PROVE  Undisturbed(p)
    <2>1. UNCHANGED <<run, phase, ledgerVars, view, hashVars, deaths>>
      BY <1>7 DEF LookAtLane, BeginRecharge, LookAtPhase, ReplyRefused
    <2>2. stage'[p] = stage[p]
      BY <1>0, <1>2, <1>7, ProcessAssumption
         DEF LookAtLane, BeginRecharge, LookAtPhase, ReplyRefused, Processes
    <2> QED BY <1>0, <1>1, <2>1, <2>2 DEF ledgerVars, hashVars
  <1>8. ASSUME NEW f \in Founders, Hint(f) \/ Stop(f)
        PROVE  Undisturbed(p)
    <2>1. UNCHANGED <<run, phase, segments, tried, view, deaths>> /\ ~fresh'[p]
      BY <1>2, <1>8 DEF Hint, Stop
    <2>2. stage'[p] = stage[p]
      BY <1>0, <1>2, <1>8, ProcessAssumption DEF Hint, Stop, Processes
    <2> QED BY <1>0, <1>1, <2>1, <2>2
  <1>9. ASSUME NEW f \in Founders, Recharge(f)
        PROVE  Undisturbed(p)
    <2>1. UNCHANGED <<phase, tried, view, deaths>> /\ ~fresh'[p] /\ stage'[p] = stage[p]
      BY <1>2, <1>9 DEF Recharge
    <2>2. \A m \in Phases : segments'[m] = NewSegment \/ segments'[m] = segments[m]
      BY <1>0, <1>9 DEF Recharge
    <2>3. \A m \in Phases : segments'[m] = NewSegment \/ SameFor(p, segments[m], segments'[m])
      BY <1>0, <2>2, SegmentsOfOthers
    <2> QED BY <1>0, <2>1, <2>3 DEF Undisturbed
  <1>10. ASSUME Advance PROVE Undisturbed(p)
    BY <1>0, <1>1, <1>2, <1>10 DEF Advance, ledgerVars
  <1>11. ASSUME NEW x \in Processes, x # p, Dies(x) PROVE Undisturbed(p)
    <2>1. UNCHANGED <<run, phase, ledgerVars>> /\ deaths' >= deaths
      BY <1>0, <1>11 DEF Dies
    <2>2. stage'[p] = stage[p] /\ view'[p] = view[p] /\ (fresh'[p] => fresh[p])
      BY <1>0, <1>2, <1>11 DEF Dies, Processes, hashVars
    <2> QED BY <1>0, <1>1, <2>1, <2>2 DEF ledgerVars
  <1>12. CASE UNCHANGED vars
    BY <1>0, <1>1, <1>12 DEF vars, ledgerVars, hashVars
  <1>13. \A q \in Planners : q \in Processes
    BY DEF Processes
  <1>14. \A f \in Founders : f \in Processes /\ f # p
    BY ProcessAssumption DEF Processes
  <1> QED
    BY <1>3, <1>4, <1>5, <1>6, <1>7, <1>8, <1>9, <1>10, <1>11, <1>12, <1>13, <1>14
       DEF Next, OwnStep, PlannerStep, FounderStep

-----------------------------------------------------------------------------
(* What a planner is charged with, told by where its command stands.       *)

Limit == BudgetLimit + deaths

\* wrong[p] is counted in used; a command whose answer may be charged next was
\* let through while its planner had a unit left; and a planner that has none
\* left in the run's phase has closed it or is about to.
Counted(p) ==
  /\ \A n \in Phases : /\ segments[n].wrong[p] <= segments[n].used
                       /\ segments[n].wrong[p] <= Limit
                       /\ n > phase => segments[n].wrong[p] = 0
  /\ view[p].phase <= phase
  /\ stage[p] = "answered" => view[p].says # "garbage"
  /\ stage[p] = "thinking" \/ (stage[p] = "surveyed" /\ view[p].says = "garbage")
       => segments[phase].wrong[p] < Limit
  /\ stage[p] \in {"governed", "judging"} /\ view[p].says # "ask"
       => LET s == segments[view[p].phase]
          IN  s.wrong[p] < Limit /\ s.wrong[p] <= view[p].used
  /\ \/ segments[phase].wrong[p] < Limit \/ segments[phase].exhausted
     \/ stage[p] = "shutting"
     \/ stage[p] = "closing" /\ view[p].phase = phase

\* An accepted proposal was the only one since the phase began or was
\* recharged: the command that brings another one knows of it.
Selecting(p) ==
  /\ \A n \in Phases : segments[n].selected[p] <= 1
  /\ stage[p] \in {"governed", "judging"} /\ ~view[p].taken
       => segments[view[p].phase].selected[p] = 0

\* A command that found no earlier attempt of its intent still finds none: only
\* its own planner would have made it.
Remembering(p) ==
  stage[p] = "judging" /\ ~view[p].repeated
    => <<p, IntentOf[view[p].says]>> \notin tried[view[p].phase]

\* A command whose snapshot is still the run's was let through without an open
\* escalation, and judges only where no failure is repeated.
FreshLane(p) ==
  /\ stage[p] \in {"surveyed", "governed", "judging"} /\ fresh[p] => lane = <<>>
  /\ stage[p] = "judging" /\ fresh[p] => run.streak < 2

PlannerInv(p) ==
  JudgesProposal(p) /\ Counted(p) /\ Selecting(p) /\ Remembering(p) /\ FreshLane(p)

LEMMA InvInit == Init => TypeOK /\ \A p \in Planners : PlannerInv(p)
  <1> SUFFICES ASSUME Init, NEW p \in Planners PROVE TypeOK /\ PlannerInv(p)
    BY TypeInit
  <1>1. TypeOK
    BY TypeInit
  <1>2. stage[p] = "idle" /\ view[p] = NothingHeld /\ phase = 0 /\ deaths = 0
    BY DEF Init, Processes
  <1>3. \A n \in Phases : segments[n] = NewSegment
    BY DEF Init
  <1>4. /\ NewSegment.wrong[p] = 0 /\ NewSegment.selected[p] = 0 /\ NewSegment.used = 0
        /\ NothingHeld.phase = 0 /\ phase \in Phases
    BY <1>1 DEF NewSegment, NothingHeld, TypeOK
  <1>5. \A n \in Phases : /\ segments[n].wrong[p] = 0 /\ segments[n].selected[p] = 0
                          /\ segments[n].used = 0
    BY <1>3, <1>4
  <1>6. Limit \in Nat /\ 0 < Limit
    BY <1>2, LimitAssumption DEF Limit
  <1>7. Counted(p)
    BY <1>2, <1>4, <1>5, <1>6 DEF Counted
  <1>8. Selecting(p)
    BY <1>2, <1>5 DEF Selecting
  <1> QED BY <1>1, <1>2, <1>7, <1>8 DEF PlannerInv, JudgesProposal, Remembering, FreshLane

LEMMA SumGrows ==
  ASSUME NEW b \in Nat \ {0}, NEW d \in Nat, NEW e \in Nat, e >= d
  PROVE  b + d \in Nat /\ b + e \in Nat /\ b + e >= b + d /\ b + d > 0
  OBVIOUS

LEMMA OthersKeepInv ==
  ASSUME TypeOK, TypeOK', NEW p \in Planners, PlannerInv(p), Undisturbed(p)
  PROVE  PlannerInv(p)'
  <1>a. /\ phase \in Phases /\ phase' \in Phases /\ deaths \in Nat /\ deaths' \in Nat
        /\ view[p] \in Views
        /\ \A n \in Phases : segments[n] \in Segments /\ segments'[n] \in Segments
    BY DEF TypeOK
  <1>b. \A s \in Segments : s.wrong[p] \in Nat /\ s.used \in Nat /\ s.selected[p] \in Nat
    BY DEF Segments
  <1>c. /\ view[p].phase \in Phases /\ view[p].used \in Nat /\ view[p].says \in Says
    BY <1>a DEF Views
  <1>d. phase' >= phase /\ deaths' >= deaths /\ \A n \in Phases : n \in Nat
    BY DEF Undisturbed, Phases
  <1>0. /\ phase \in Phases /\ phase' \in Phases /\ phase \in Nat /\ phase' \in Nat
        /\ deaths \in Nat /\ deaths' \in Nat
        /\ view[p].phase \in Phases /\ view[p].phase \in Nat /\ view[p].used \in Nat
        /\ view[p].says \in Says /\ phase' >= phase /\ deaths' >= deaths
        /\ \A n \in Phases : /\ segments[n].wrong[p] \in Nat /\ segments'[n].wrong[p] \in Nat
                             /\ segments[n].used \in Nat /\ segments'[n].used \in Nat
                             /\ segments[n].selected[p] \in Nat
    BY <1>a, <1>b, <1>c, <1>d
  <1>1. /\ stage'[p] = stage[p] /\ view'[p] = view[p]
        /\ Limit \in Nat /\ Limit' \in Nat /\ Limit' >= Limit /\ Limit > 0
    <2>1. stage'[p] = stage[p] /\ view'[p] = view[p]
      BY DEF Undisturbed
    <2>2. deaths \in Nat /\ deaths' \in Nat /\ deaths' >= deaths
      BY <1>0
    <2>3. BudgetLimit \in Nat \ {0}
      BY LimitAssumption
    <2> QED BY <2>1, <2>2, <2>3, SumGrows DEF Limit
  <1>2. /\ NewSegment.wrong[p] = 0 /\ NewSegment.selected[p] = 0 /\ NewSegment.used = 0
    BY DEF NewSegment
  <1>3. \A n \in Phases :
          \/ /\ segments'[n].wrong[p] = 0 /\ segments'[n].selected[p] = 0
          \/ /\ segments'[n].wrong[p] = segments[n].wrong[p]
             /\ segments'[n].selected[p] = segments[n].selected[p]
             /\ segments'[n].used >= segments[n].used
             /\ segments[n].exhausted => segments'[n].exhausted
    BY <1>2 DEF Undisturbed, SameFor
  <1>4. Counted(p)'
    <2>1. \A n \in Phases : /\ segments'[n].wrong[p] <= segments'[n].used
                            /\ segments'[n].wrong[p] <= Limit'
                            /\ n > phase' => segments'[n].wrong[p] = 0
      <3> SUFFICES ASSUME NEW n \in Phases
                   PROVE  /\ segments'[n].wrong[p] <= segments'[n].used
                          /\ segments'[n].wrong[p] <= Limit'
                          /\ n > phase' => segments'[n].wrong[p] = 0
        OBVIOUS
      <3>1. n \in Nat
        BY DEF Phases
      <3> QED BY <3>1, <1>0, <1>1, <1>3 DEF PlannerInv, Counted
    <2>2. view[p].phase <= phase' /\ (stage[p] = "answered" => view[p].says # "garbage")
      BY <1>0 DEF PlannerInv, Counted
    <2>3. segments[phase].wrong[p] < Limit => segments'[phase'].wrong[p] < Limit'
      <3>1. CASE phase' = phase
        BY <3>1, <1>0, <1>1, <1>3
      <3>2. CASE phase' # phase
        BY <3>2, <1>0, <1>1, <1>3 DEF PlannerInv, Counted
      <3> QED BY <3>1, <3>2
    <2>4. stage[p] \in {"governed", "judging"} /\ view[p].says # "ask"
            => /\ segments'[view[p].phase].wrong[p] < Limit'
               /\ segments'[view[p].phase].wrong[p] <= view[p].used
      BY <1>0, <1>1, <1>3 DEF PlannerInv, Counted
    <2>5. \/ segments'[phase'].wrong[p] < Limit' \/ segments'[phase'].exhausted
          \/ stage[p] = "shutting"
          \/ stage[p] = "closing" /\ view[p].phase = phase'
      <3>1. CASE phase' = phase
        BY <3>1, <1>0, <1>1, <1>3, <2>3 DEF PlannerInv, Counted
      <3>2. CASE phase' # phase
        BY <3>2, <1>0, <1>1, <1>3 DEF PlannerInv, Counted
      <3> QED BY <3>1, <3>2
    <2>6. stage[p] = "thinking" \/ (stage[p] = "surveyed" /\ view[p].says = "garbage")
            => segments'[phase'].wrong[p] < Limit'
      BY <2>3 DEF PlannerInv, Counted
    <2> QED BY <1>1, <2>1, <2>2, <2>4, <2>5, <2>6 DEF Counted
  <1>5. Selecting(p)'
    BY <1>0, <1>1, <1>3 DEF PlannerInv, Selecting
  <1>6. Remembering(p)'
    <2>1. stage[p] = "judging" => IntentOf[view[p].says] \in Intents
      BY DEF PlannerInv, JudgesProposal, Intents
    <2> QED BY <1>0, <1>1, <2>1 DEF PlannerInv, Remembering, Undisturbed
  <1>7. FreshLane(p)' /\ JudgesProposal(p)'
    BY <1>1 DEF PlannerInv, FreshLane, JudgesProposal, Undisturbed
  <1> QED BY <1>4, <1>5, <1>6, <1>7 DEF PlannerInv

LEMMA Numbers ==
  ASSUME TypeOK, NEW p \in Planners
  PROVE  /\ phase \in Phases /\ phase \in Nat /\ deaths \in Nat /\ Limit \in Nat
         /\ view[p].phase \in Phases /\ view[p].phase \in Nat /\ view[p].used \in Nat
         /\ view[p] \in Views /\ view \in [Planners -> Views] /\ stage \in [Processes -> Stages]
         /\ p \in Processes /\ fresh \in [Planners -> BOOLEAN]
         /\ segments \in [Phases -> Segments] /\ NothingHeld.phase = 0
         /\ NothingHeld \in Views
         /\ \A n \in Phases :
              /\ n \in Nat /\ segments[n] \in Segments /\ segments[n].exhausted \in BOOLEAN
              /\ segments[n].wrong[p] \in Nat /\ segments[n].used \in Nat
              /\ segments[n].selected[p] \in Nat
  <1>1. phase \in Phases /\ deaths \in Nat /\ view[p] \in Views
        /\ view \in [Planners -> Views] /\ stage \in [Processes -> Stages]
        /\ segments \in [Phases -> Segments] /\ fresh \in [Planners -> BOOLEAN]
    BY DEF TypeOK
  <1>2. \A s \in Segments : /\ s.wrong[p] \in Nat /\ s.used \in Nat /\ s.selected[p] \in Nat
                            /\ s.exhausted \in BOOLEAN
    BY DEF Segments
  <1>3. view[p].phase \in Phases /\ view[p].used \in Nat
    BY <1>1 DEF Views
  <1>4. NothingHeld.phase = 0 /\ p \in Processes /\ \A n \in Phases : n \in Nat
    BY DEF NothingHeld, Processes, Phases
  <1>5. Limit \in Nat
    BY <1>1, LimitAssumption DEF Limit
  <1> QED BY <1>1, <1>2, <1>3, <1>4, <1>5, HeldTypes

\* A command that comes to where it will be charged no more.
LEMMA Settles ==
  ASSUME TypeOK, TypeOK', NEW p \in Planners, PlannerInv(p),
         phase' = phase, deaths' >= deaths,
         \A n \in Phases : SameFor(p, segments[n], segments'[n]),
         stage'[p] \in {"idle", "answered", "asking", "opening", "deciding", "alarming",
                        "shutting"},
         view'[p].phase <= phase, stage'[p] = "answered" => view'[p].says # "garbage",
         \/ stage[p] \notin {"closing", "shutting"} \/ deaths' > deaths
         \/ segments'[phase].exhausted
         \/ stage[p] = "closing" /\ segments'[view[p].phase].exhausted
  PROVE  PlannerInv(p)'
  <1>a. deaths \in Nat /\ deaths' \in Nat
    BY DEF TypeOK
  <1>0. Limit' \in Nat /\ Limit' >= Limit /\ (deaths' > deaths => Limit' > Limit)
    BY <1>a, LimitAssumption DEF Limit
  <1>1. \A n \in Phases : /\ segments'[n].wrong[p] <= segments'[n].used
                          /\ segments'[n].wrong[p] <= Limit'
                          /\ n > phase => segments'[n].wrong[p] = 0
                          /\ segments'[n].selected[p] <= 1
    <2> SUFFICES ASSUME NEW n \in Phases
                 PROVE  /\ segments'[n].wrong[p] <= segments'[n].used
                        /\ segments'[n].wrong[p] <= Limit'
                        /\ n > phase => segments'[n].wrong[p] = 0
                        /\ segments'[n].selected[p] <= 1
      OBVIOUS
    <2>1. /\ segments'[n].wrong[p] = segments[n].wrong[p]
          /\ segments'[n].selected[p] = segments[n].selected[p]
          /\ segments'[n].used >= segments[n].used /\ segments'[n].used \in Nat
      BY DEF SameFor, TypeOK, Segments
    <2> QED BY <1>0, <2>1, Numbers DEF PlannerInv, Counted, Selecting
  <1>2. \/ segments'[phase].wrong[p] < Limit' \/ segments'[phase].exhausted
        \/ stage'[p] = "shutting"
    <2>1. /\ segments'[phase].wrong[p] = segments[phase].wrong[p]
          /\ segments[phase].exhausted => segments'[phase].exhausted
          /\ segments[phase].wrong[p] <= Limit
      BY Numbers DEF SameFor, PlannerInv, Counted
    <2> QED BY <1>0, <2>1, Numbers DEF PlannerInv, Counted
  <1>3. Counted(p)'
    BY <1>1, <1>2 DEF Counted
  <1>4. Selecting(p)' /\ Remembering(p)' /\ FreshLane(p)' /\ JudgesProposal(p)'
    BY <1>1 DEF Selecting, Remembering, FreshLane, JudgesProposal
  <1> QED BY <1>3, <1>4 DEF PlannerInv

LEMMA OwnStepsKeepInv ==
  ASSUME TypeOK, TypeOK', NEW p \in Planners, PlannerInv(p), OwnStep(p)
  PROVE  PlannerInv(p)'
  <1>0. /\ Ends(p) => stage'[p] = "idle" /\ view'[p] = NothingHeld
        /\ \A next : Moves(p, next) => stage'[p] = next
        /\ \A held : Keeps(p, held) => view'[p] = held
        /\ Recorded \/ Loudly => ~fresh'[p]
    BY Numbers DEF Ends, Moves, Keeps, Recorded, Loudly
  <1>1. segments' = segments => \A n \in Phases : SameFor(p, segments[n], segments'[n])
    BY Numbers, SegmentsOfOthers
  <1>2. view[p].phase <= phase /\ 0 <= phase /\ deaths >= deaths
    BY Numbers DEF PlannerInv, Counted
  <1>3. ASSUME InvokeAlarmed(p) \/ Propose(p) \/ Answer(p) PROVE PlannerInv(p)'
    <2>1. UNCHANGED <<phase, segments, deaths>> /\ stage[p] \in {"idle", "thinking"}
      BY <1>3 DEF InvokeAlarmed, Propose, Answer, ledgerVars
    <2>2. \/ stage'[p] = "alarming" /\ view'[p] = view[p]
          \/ /\ stage'[p] = "answered"
             /\ \E x \in Proposals \cup {"ask"} : view'[p] = [NothingHeld EXCEPT !.says = x]
      BY <1>0, <1>3 DEF InvokeAlarmed, Propose, Answer
    <2>3. \A x \in Proposals \cup {"ask"} :
            LET held == [NothingHeld EXCEPT !.says = x]
            IN  held.phase = 0 /\ held.says # "garbage"
      BY ProposalAssumption DEF NothingHeld
    <2>4. view'[p].phase <= phase /\ (stage'[p] = "answered" => view'[p].says # "garbage")
      BY <1>2, <2>2, <2>3
    <2> QED BY <1>1, <1>2, <2>1, <2>2, <2>4, Settles
  <1>4. ASSUME ProviderError(p) \/ ProviderBabbles(p) \/ Decide(p) \/ Alarm(p) \/ OpenLane(p)
        PROVE  PlannerInv(p)'
    <2>1. /\ UNCHANGED <<phase, segments, deaths>> /\ Ends(p)
          /\ stage[p] \in {"thinking", "deciding", "alarming", "opening"}
      BY <1>4 DEF ProviderError, ProviderBabbles, Decide, Alarm, OpenLane, ledgerVars
    <2>2. view'[p].phase <= phase /\ stage'[p] = "idle"
      BY <1>0, <1>2, <2>1, Numbers
    <2> QED BY <1>1, <1>2, <2>1, <2>2, Settles
  <1>5. ASSUME CountHints(p) \/ GrantAsk(p) PROVE PlannerInv(p)'
    <2>1. UNCHANGED <<phase, segments, deaths>> /\ stage[p] \in {"governed", "asking"}
      BY <1>5 DEF CountHints, GrantAsk, ledgerVars
    <2>2. stage'[p] \in {"asking", "shutting", "opening"} /\ view'[p] \in {view[p], NothingHeld}
      BY <1>0, <1>5 DEF CountHints, GrantAsk
    <2>3. view'[p].phase <= phase
      BY <1>2, <2>2, Numbers
    <2> QED BY <1>1, <1>2, <2>1, <2>2, <2>3, Settles
  <1>6. ASSUME Dies(p) PROVE PlannerInv(p)'
    <2>1. UNCHANGED <<phase, segments>> /\ Ends(p) /\ deaths' = deaths + 1
      BY <1>6 DEF Dies, ledgerVars
    <2>2. view'[p].phase <= phase /\ stage'[p] = "idle" /\ deaths' > deaths /\ deaths' >= deaths
      BY <1>0, <1>2, <2>1, Numbers
    <2> QED BY <1>1, <2>1, <2>2, Settles
  <1>7. ASSUME RefuseUncharged(p) \/ RefuseAsk(p) \/ Close(p) PROVE PlannerInv(p)'
    <2> DEFINE n == view[p].phase
    <2>1. UNCHANGED <<phase, deaths>> /\ Ends(p) /\ stage[p] \in {"judging", "asking", "closing"}
      BY <1>7 DEF RefuseUncharged, RefuseAsk, Close, Resubmitted, Stale, Proposes
    <2>2. view'[p].phase <= phase /\ stage'[p] = "idle"
      BY <1>0, <1>2, <2>1, Numbers
    <2>3. \/ segments' = [segments EXCEPT ![n] =
                            [segments[n] EXCEPT !.keys = @ \cup KeyOfProposal(p)]]
          \/ segments' = [segments EXCEPT ![n] = [segments[n] EXCEPT !.exhausted = TRUE]]
          \/ segments' = [segments EXCEPT ![n] = [segments[n] EXCEPT !.used = @ + 1]]
      BY <1>7, Numbers DEF RefuseUncharged, Close, RefuseAsk
    <2>4. \A m \in Phases : SameFor(p, segments[m], segments'[m])
      <3>1. n \in Phases /\ segments \in [Phases -> Segments]
            /\ \A m \in Phases : segments[m] \in Segments
        BY Numbers
      <3> HIDE DEF n
      <3>2. PICK t : segments' = [segments EXCEPT ![n] = t] /\ SameFor(p, segments[n], t)
        BY <2>3, <3>1, SegmentsOfOthers
      <3> QED BY <3>1, <3>2, SegmentsOfOthers
    <2>5. stage[p] \notin {"closing", "shutting"}
          \/ (stage[p] = "closing" /\ segments'[view[p].phase].exhausted)
      BY <1>7, Numbers DEF RefuseUncharged, RefuseAsk, Close, Resubmitted, Stale, Proposes, Segments
    <2> QED BY <1>2, <2>1, <2>2, <2>4, <2>5, Settles
  <1>8. ASSUME Shut(p) PROVE PlannerInv(p)'
    <2>1. UNCHANGED <<phase, deaths>> /\ Ends(p)
      BY <1>8 DEF Shut
    <2>2. segments' = [segments EXCEPT ![phase] = [segments[phase] EXCEPT !.exhausted = TRUE]]
      BY <1>8, Numbers DEF Shut
    <2>3. \A m \in Phases : SameFor(p, segments[m], segments'[m])
      BY <2>2, Numbers, SegmentsOfOthers
    <2>4. segments'[phase].exhausted
      BY <2>2, Numbers DEF Segments
    <2>5. view'[p].phase <= phase /\ stage'[p] = "idle"
      BY <1>0, <1>2, <2>1, Numbers
    <2> QED BY <1>2, <2>1, <2>3, <2>4, <2>5, Settles
  <1>9. ASSUME Invoke(p) PROVE PlannerInv(p)'
    <2>1. /\ UNCHANGED <<phase, segments, deaths, view>> /\ stage'[p] = "thinking"
          /\ stage[p] = "idle" /\ ~segments[phase].exhausted
      BY <1>0, <1>9 DEF Invoke, ledgerVars
    <2>2. segments[phase].wrong[p] < Limit /\ Limit' = Limit
      BY <2>1 DEF PlannerInv, Counted, Limit
    <2>3. Counted(p)'
      BY <2>1, <2>2 DEF PlannerInv, Counted
    <2> QED BY <2>1, <2>3 DEF PlannerInv, Selecting, Remembering, FreshLane, JudgesProposal
  <1>10. ASSUME ProviderRetry(p) \/ FormatFailure(p) PROVE PlannerInv(p)'
    <2>1. /\ UNCHANGED <<phase, segments, deaths>> /\ stage[p] = "thinking"
      BY <1>10 DEF ProviderRetry, FormatFailure, ledgerVars
    <2>2. \/ stage'[p] = "thinking" /\ view'[p].phase = view[p].phase
          \/ stage'[p] = "surveyed" /\ ~fresh'[p] /\ view'[p].phase = 0
      <3>1. CASE ProviderRetry(p)
        BY <3>1, Numbers DEF ProviderRetry, Views
      <3>2. CASE FormatFailure(p) /\ view[p].malformed + 1 <= MaxFormatRetries
        BY <3>2, Numbers DEF FormatFailure, Views
      <3>3. CASE FormatFailure(p) /\ ~(view[p].malformed + 1 <= MaxFormatRetries)
        <4>1. /\ Moves(p, "surveyed") /\ Recorded
              /\ Keeps(p, [NothingHeld EXCEPT !.says = "garbage"])
          BY <3>3 DEF FormatFailure
        <4> QED BY <1>0, <4>1 DEF NothingHeld
      <3> QED BY <1>10, <3>1, <3>2, <3>3
    <2>3. Counted(p)'
      BY <1>2, <2>1, <2>2 DEF PlannerInv, Counted, Limit
    <2> QED BY <2>1, <2>2, <2>3 DEF PlannerInv, Selecting, Remembering, FreshLane, JudgesProposal
  <1>11. ASSUME Survey(p) PROVE PlannerInv(p)'
    <2>1. UNCHANGED <<phase, segments, deaths, lane>> /\ stage[p] = "answered"
      BY <1>11 DEF Survey, ledgerVars
    <2>2. CASE Ends(p)
      <3>1. view'[p].phase <= phase /\ stage'[p] = "idle"
        BY <1>0, <1>2, <2>2, Numbers
      <3> QED BY <1>1, <1>2, <2>1, <3>1, Settles
    <2>3. CASE ~Ends(p)
      <3>0. stage'[p] = "surveyed" /\ lane = <<>>
        BY <1>0, <1>11, <2>3 DEF Survey
      <3>a. PICK current, legal :
              view' = [view EXCEPT ![p].current = current, ![p].legal = legal]
        BY <1>11, <2>3 DEF Survey
      <3>1. /\ stage'[p] = "surveyed" /\ lane = <<>>
            /\ view'[p].says = view[p].says /\ view'[p].phase = view[p].phase
        BY <3>0, <3>a, Numbers DEF Views
      <3>2. Counted(p)'
        BY <2>1, <3>1 DEF PlannerInv, Counted, Limit
      <3> QED BY <2>1, <3>1, <3>2
              DEF PlannerInv, Selecting, Remembering, FreshLane, JudgesProposal
    <2> QED BY <2>2, <2>3
  <1>12. ASSUME Govern(p) PROVE PlannerInv(p)'
    <2>1. UNCHANGED <<run, phase, segments, deaths, lane>> /\ stage[p] = "surveyed"
      BY <1>12 DEF Govern, ledgerVars
    <2>2. CASE Ends(p)
      <3>1. view'[p].phase <= phase /\ stage'[p] = "idle"
        BY <1>0, <1>2, <2>2, Numbers
      <3> QED BY <1>1, <1>2, <2>1, <3>1, Settles
    <2>3. CASE ~Ends(p)
      <3>1. /\ stage'[p] = "governed" /\ UNCHANGED hashVars
            /\ ~segments[phase].exhausted \/ view[p].says = "garbage"
            /\ view'[p].says = view[p].says /\ view'[p].phase = phase
            /\ view'[p].used = segments[phase].used /\ view'[p].taken = Taken(p)
        BY <1>0, <1>12, <2>3, Numbers DEF Govern, Views
      <3>2. segments[phase].wrong[p] < Limit
        BY <2>1, <3>1 DEF PlannerInv, Counted
      <3>3. Counted(p)'
        BY <2>1, <3>1, <3>2, Numbers DEF PlannerInv, Counted, Limit
      <3>4. ~Taken(p) => segments[phase].selected[p] = 0
        BY Numbers DEF Taken
      <3>5. Selecting(p)'
        BY <2>1, <3>1, <3>4 DEF PlannerInv, Selecting
      <3>6. FreshLane(p)' /\ Remembering(p)' /\ JudgesProposal(p)'
        BY <2>1, <3>1 DEF PlannerInv, FreshLane, hashVars, Remembering, JudgesProposal
      <3> QED BY <3>3, <3>5, <3>6 DEF PlannerInv
    <2> QED BY <2>2, <2>3
  <1>13. ASSUME ScanLedger(p) PROVE PlannerInv(p)'
    <2>1. /\ UNCHANGED <<run, phase, segments, tried, deaths, lane>> /\ stage[p] = "governed"
          /\ UNCHANGED hashVars /\ view[p].says \in Proposals
      BY <1>13 DEF ScanLedger, ledgerVars
    <2>2. CASE RepeatedFailure
      <3>1. stage'[p] = "alarming" /\ view'[p] = NothingHeld
        BY <1>0, <1>13, <2>2 DEF ScanLedger
      <3>2. view'[p].phase <= phase
        BY <1>2, <3>1, Numbers
      <3> QED BY <1>1, <1>2, <2>1, <3>1, <3>2, Settles
    <2>3. CASE ~RepeatedFailure
      <3>1. /\ stage'[p] = "judging" /\ view'[p].says = view[p].says
            /\ view'[p].phase = view[p].phase /\ view'[p].used = view[p].used
            /\ view'[p].taken = view[p].taken
            /\ view'[p].repeated = Repeats(p, view[p].phase, view[p].says)
        BY <1>0, <1>13, <2>3, Numbers DEF ScanLedger, Views
      <3>2. Counted(p)'
        BY <2>1, <3>1 DEF PlannerInv, Counted, Limit
      <3>3. Selecting(p)'
        BY <2>1, <3>1 DEF PlannerInv, Selecting
      <3>4. Remembering(p)'
        BY <2>1, <3>1 DEF Remembering, Repeats
      <3>5. run.streak \in Nat
        BY DEF TypeOK, Situations
      <3>6. FreshLane(p)' /\ JudgesProposal(p)'
        BY <2>1, <2>3, <3>1, <3>5 DEF PlannerInv, FreshLane, hashVars, RepeatedFailure, JudgesProposal
      <3> QED BY <3>2, <3>3, <3>4, <3>6 DEF PlannerInv
    <2> QED BY <2>2, <2>3
  <1>14. ASSUME RefuseCharged(p) \/ ChargeFormatFailure(p) PROVE PlannerInv(p)'
    <2> DEFINE n == view[p].phase
               s == segments[n]
    <2>1. UNCHANGED <<phase, deaths>> /\ stage[p] \in {"judging", "governed"}
          /\ view[p].says # "ask" /\ Limit' = Limit
      BY <1>14, ProposalAssumption
         DEF RefuseCharged, ChargeFormatFailure, Judged, Proposes, Limit, PlannerInv,
             JudgesProposal
    <2>2. n \in Phases /\ s \in Segments /\ n <= phase /\ s.wrong[p] < Limit
          /\ s.wrong[p] <= view[p].used
      BY <1>2, <2>1, Numbers DEF PlannerInv, Counted
    <2>3. PICK keys : segments' = [segments EXCEPT ![n] = WithWrong(s, p, keys)]
      BY <1>14 DEF RefuseCharged, ChargeFormatFailure, Charged
    <2>4. /\ \A m \in Phases : m # n => segments'[m] = segments[m]
          /\ segments'[n].wrong[p] = s.wrong[p] + 1 /\ segments'[n].used = s.used + 1
          /\ segments'[n].selected[p] = s.selected[p]
      <3>1. segments'[n] = WithWrong(s, p, keys) /\ \A m \in Phases : m # n => segments'[m] = segments[m]
        BY <2>2, <2>3, Numbers
      <3>2. WithWrong(s, p, keys).wrong[p] = s.wrong[p] + 1
            /\ WithWrong(s, p, keys).used = s.used + 1
            /\ WithWrong(s, p, keys).selected[p] = s.selected[p]
        BY <2>2 DEF WithWrong, Segments
      <3> QED BY <3>1, <3>2
    <2>5. \/ stage'[p] = "closing" /\ view'[p].phase = n
          \/ stage'[p] = "shutting" /\ view'[p].phase = 0
          \/ stage'[p] = "idle" /\ view'[p].phase = 0 /\ ~SpendsBudget(p)
      BY <1>0, <1>14 DEF RefuseCharged, ChargeFormatFailure, NothingHeld
    <2>6. ~SpendsBudget(p) => view[p].used + 1 < Limit
      BY Numbers, LimitAssumption DEF SpendsBudget, Limit
    <2>7. /\ \A m \in Phases : /\ segments'[m].wrong[p] <= segments'[m].used
                               /\ segments'[m].wrong[p] <= Limit
                               /\ m > phase => segments'[m].wrong[p] = 0
                               /\ segments'[m].selected[p] <= 1
      <3> SUFFICES ASSUME NEW m \in Phases
                   PROVE  /\ segments'[m].wrong[p] <= segments'[m].used
                          /\ segments'[m].wrong[p] <= Limit
                          /\ m > phase => segments'[m].wrong[p] = 0
                          /\ segments'[m].selected[p] <= 1
        OBVIOUS
      <3>1. /\ segments[m].wrong[p] <= segments[m].used /\ segments[m].wrong[p] <= Limit
            /\ m > phase => segments[m].wrong[p] = 0
            /\ segments[m].selected[p] <= 1
        BY DEF PlannerInv, Counted, Selecting
      <3>2. CASE m = n
        BY <3>1, <3>2, <2>2, <2>4, Numbers
      <3>3. CASE m # n
        BY <3>1, <3>3, <2>4
      <3> QED BY <3>2, <3>3
    <2>8. \/ segments'[phase].wrong[p] < Limit \/ segments'[phase].exhausted
          \/ stage'[p] = "shutting"
          \/ stage'[p] = "closing" /\ view'[p].phase = phase
      <3>1. CASE n = phase
        BY <3>1, <2>2, <2>4, <2>5, <2>6, Numbers
      <3>2. CASE n # phase
        BY <3>2, <2>1, <2>4, Numbers DEF PlannerInv, Counted
      <3> QED BY <3>1, <3>2
    <2>9. Counted(p)'
      BY <1>2, <2>1, <2>2, <2>5, <2>7, <2>8 DEF Counted
    <2> QED BY <2>5, <2>7, <2>9
            DEF PlannerInv, Selecting, Remembering, FreshLane, JudgesProposal
  <1>15. ASSUME Accept(p) PROVE PlannerInv(p)'
    <2> DEFINE n == view[p].phase
               s == segments[n]
    <2>1. /\ UNCHANGED <<phase, deaths>> /\ stage[p] = "judging" /\ ~view[p].taken
          /\ stage'[p] = "deciding" /\ view'[p] = NothingHeld /\ Limit' = Limit
          /\ segments' = [segments EXCEPT ![n] = WithSelected(s, p, KeyOfProposal(p))]
      BY <1>0, <1>15 DEF Accept, Judged, Proposes, Duplicate, Limit
    <2>2. n \in Phases /\ s \in Segments /\ s.selected[p] = 0
      BY <2>1, Numbers DEF PlannerInv, Selecting
    <2>3. \A m \in Phases : /\ segments'[m].wrong[p] = segments[m].wrong[p]
                            /\ segments'[m].used = segments[m].used
                            /\ segments'[m].exhausted = segments[m].exhausted
                            /\ segments'[m].selected[p] <= 1
      <3> SUFFICES ASSUME NEW m \in Phases
                   PROVE  /\ segments'[m].wrong[p] = segments[m].wrong[p]
                          /\ segments'[m].used = segments[m].used
                          /\ segments'[m].exhausted = segments[m].exhausted
                          /\ segments'[m].selected[p] <= 1
        OBVIOUS
      <3>1. CASE m = n
        <4>1. segments'[m] = WithSelected(s, p, KeyOfProposal(p))
          BY <2>1, <2>2, <3>1, Numbers
        <4> QED BY <4>1, <3>1, <2>2 DEF WithSelected, Segments
      <3>2. CASE m # n
        BY <3>2, <2>1, Numbers DEF PlannerInv, Selecting
      <3> QED BY <3>1, <3>2
    <2>4. Counted(p)'
      BY <1>2, <2>1, <2>3, Numbers DEF PlannerInv, Counted
    <2> QED BY <2>1, <2>3, <2>4
            DEF PlannerInv, Selecting, Remembering, FreshLane, JudgesProposal
  <1> QED
    BY <1>3, <1>4, <1>5, <1>6, <1>7, <1>8, <1>9, <1>10, <1>11, <1>12, <1>13, <1>14, <1>15
       DEF OwnStep, PlannerStep

-----------------------------------------------------------------------------
(* The theorems.                                                           *)

Inv == TypeOK /\ \A p \in Planners : PlannerInv(p)

LEMMA InvariantStep == Inv /\ [Next]_vars => Inv'
  <1> SUFFICES ASSUME Inv, [Next]_vars PROVE Inv'
    OBVIOUS
  <1>1. TypeOK'
    BY TypeStep DEF Inv, PlannerInv, JudgesProposals
  <1>2. ASSUME NEW p \in Planners PROVE PlannerInv(p)'
    <2>1. TypeOK /\ PlannerInv(p)
      BY DEF Inv
    <2>2. CASE OwnStep(p)
      BY <1>1, <2>1, <2>2, OwnStepsKeepInv
    <2>3. CASE ~OwnStep(p)
      BY <1>1, <2>1, <2>3, OthersStep, OthersKeepInv
    <2> QED BY <2>2, <2>3
  <1> QED BY <1>1, <1>2 DEF Inv

LEMMA Invariance == Spec => []Inv
  <1>1. Init => Inv
    BY InvInit DEF Inv
  <1> QED BY <1>1, InvariantStep, PTL DEF Spec

\* Every variable keeps its type, whatever the planners, founders, provider
\* answers, recharges and deaths do.
THEOREM TypeCorrect == Spec => []TypeOK
  <1>1. Inv => TypeOK
    BY DEF Inv
  <1> QED BY <1>1, Invariance, PTL

\* The run's situation always has a legal move, a blocker or an end.
THEOREM EngineIsNeverStuck == Spec => []NeverStuck
  <1>1. TypeOK => NeverStuck
    <2> SUFFICES ASSUME TypeOK PROVE NeverStuck
      OBVIOUS
    <2>1. run.status \in Statuses /\ run.patch \in PatchStatuses
      BY DEF TypeOK, Situations
    <2> DEFINE s == Snapshot(lane # <<>>)
    <2>2. /\ s.status = run.status /\ s.patch = run.patch /\ s.escalation = (lane # <<>>)
          /\ s.review = (run.patch = "pending") /\ s.approval = (run.status = "waiting_approval")
          /\ s.task = (run.status = "running")
      BY DEF Snapshot
    <2>3. CASE LegalActions(s) # {}
      BY <2>3 DEF NeverStuck, ActionState
    <2>4. CASE LegalActions(s) = {}
      <3>1. s.review \/ s.escalation \/ s.status \in {"running", "suspended", "completed"}
        BY <2>1, <2>2, <2>4 DEF LegalActions, Statuses
      <3> QED BY <2>4, <3>1 DEF NeverStuck, ActionState
    <2> QED BY <2>3, <2>4
  <1> QED BY <1>1, TypeCorrect, PTL

\* The units of a phase's budget bind each planner: between two recharges it
\* answers wrongly at most as often as the limit allows, and once more for
\* every command that died, for any number of planners, founders and phases.
THEOREM BudgetBindsEachPlanner == Spec => []WrongAnswersAreBounded
  <1>1. Inv => WrongAnswersAreBounded
    BY DEF Inv, PlannerInv, Counted, WrongAnswersAreBounded, Limit
  <1> QED BY <1>1, Invariance, PTL

\* A planner gets one accepted proposal per segment of a phase.
THEOREM SelectionsAreUnique == Spec => []OneSelectionPerSegment
  <1>1. Inv => OneSelectionPerSegment
    BY DEF Inv, PlannerInv, Selecting, OneSelectionPerSegment
  <1> QED BY <1>1, Invariance, PTL

\* Only the acceptance of p's proposal counts a selection of p.
LEMMA SelectionIsAcceptance ==
  ASSUME TypeOK, [Next]_vars, NEW p \in Planners, NEW n \in Phases,
         segments'[n].selected[p] > segments[n].selected[p]
  PROVE  Accept(p) /\ n = view[p].phase
  <1>0. /\ NewSegment.selected[p] = 0 /\ segments[n].selected[p] \in Nat
    BY Numbers DEF NewSegment
  <1>1. OwnStep(p)
    <2>1. ~Undisturbed(p)
      BY <1>0 DEF Undisturbed, SameFor
    <2> QED BY <2>1, OthersStep
  <1>3. \A m \in Phases : segments'[m].selected[p] # segments[m].selected[p]
                            => Accept(p) /\ m = view[p].phase
    <2> SUFFICES ASSUME NEW m \in Phases,
                        segments'[m].selected[p] # segments[m].selected[p]
                 PROVE  Accept(p) /\ m = view[p].phase
      OBVIOUS
    <2>1. CASE RefuseUncharged(p) \/ RefuseAsk(p) \/ Close(p)
      <3>1. PICK k, t : /\ segments' = [segments EXCEPT ![k] = t]
                        /\ \/ t = [segments[k] EXCEPT !.keys = @ \cup KeyOfProposal(p)]
                           \/ t = [segments[k] EXCEPT !.used = @ + 1]
                           \/ t = [segments[k] EXCEPT !.exhausted = TRUE]
        BY <2>1, Numbers DEF RefuseUncharged, RefuseAsk, Close
      <3>2. CASE m = k
        <4>1. segments'[m] = t /\ segments[m] \in Segments
          BY <3>1, <3>2, Numbers
        <4>2. t.selected = segments[m].selected
          BY <3>1, <3>2, <4>1 DEF Segments
        <4> QED BY <4>1, <4>2
      <3>3. CASE m # k
        BY <3>1, <3>3, Numbers
      <3> QED BY <3>2, <3>3
    <2>2. CASE Shut(p)
      <3>1. segments'[m].selected = segments[m].selected
        BY <2>2, Numbers DEF Shut, Segments
      <3> QED BY <3>1
    <2>3. CASE RefuseCharged(p) \/ ChargeFormatFailure(p)
      <3>1. PICK k \in Phases : \E keys :
              segments' = [segments EXCEPT ![k] = WithWrong(segments[k], p, keys)]
        BY <2>3, Numbers DEF RefuseCharged, ChargeFormatFailure, Charged
      <3>2. PICK keys : segments' = [segments EXCEPT ![k] = WithWrong(segments[k], p, keys)]
        BY <3>1
      <3>3. WithWrong(segments[m], p, keys).selected = segments[m].selected
        BY Numbers DEF WithWrong, Segments
      <3> QED BY <3>2, <3>3, Numbers
    <2>4. CASE Accept(p)
      BY <2>4, Numbers DEF Accept
    <2>5. CASE ~(\/ RefuseUncharged(p) \/ RefuseAsk(p) \/ Close(p) \/ Shut(p)
                 \/ RefuseCharged(p) \/ ChargeFormatFailure(p) \/ Accept(p))
      <3>1. segments' = segments
        BY <1>1, <2>5
           DEF OwnStep, PlannerStep, Invoke, InvokeAlarmed, Propose, ProviderRetry,
               ProviderError, ProviderBabbles, FormatFailure, Answer, Survey, Govern,
               ScanLedger, Alarm, Decide, CountHints, GrantAsk, OpenLane, Dies, ledgerVars
      <3> QED BY <3>1
    <2> QED BY <2>1, <2>2, <2>3, <2>4, <2>5
  <1>4. segments'[n].selected[p] # segments[n].selected[p]
    BY <1>0
  <1> QED BY <1>3, <1>4

\* An intent of a planner that was judged in a phase is not accepted there
\* from the same planner again, recharged or not.
THEOREM IntentsAreJudgedOnce == Spec => NoSecondAcceptance
  <1>1. Inv /\ [Next]_vars
          => \A p \in Planners, n \in Phases :
               segments'[n].selected[p] > segments[n].selected[p]
                 => <<p, IntentOf[Proposed(p)]>> \notin tried[n]
    <2> SUFFICES ASSUME Inv, [Next]_vars, NEW p \in Planners, NEW n \in Phases,
                        segments'[n].selected[p] > segments[n].selected[p]
                 PROVE  <<p, IntentOf[Proposed(p)]>> \notin tried[n]
      OBVIOUS
    <2>1. Accept(p) /\ n = view[p].phase /\ PlannerInv(p)
      BY SelectionIsAcceptance DEF Inv
    <2> QED BY <2>1 DEF PlannerInv, Remembering, Accept, Judged, Proposes, Duplicate, Proposed
  <1> QED BY <1>1, Invariance, PTL DEF Spec, NoSecondAcceptance

\* No proposal about the present snapshot is accepted while a failure repeats.
THEOREM FailuresAreEscalated == Spec => RepeatedFailureNeedsFounder
  <1>1. Inv /\ [Next]_vars
          => \A p \in Planners, n \in Phases :
               segments'[n].selected[p] > segments[n].selected[p]
                 => run.streak < 2 \/ ~fresh[p]
    <2> SUFFICES ASSUME Inv, [Next]_vars, NEW p \in Planners, NEW n \in Phases,
                        segments'[n].selected[p] > segments[n].selected[p]
                 PROVE  run.streak < 2 \/ ~fresh[p]
      OBVIOUS
    <2>1. Accept(p) /\ PlannerInv(p)
      BY SelectionIsAcceptance DEF Inv
    <2> QED BY <2>1 DEF PlannerInv, FreshLane, Accept, Judged, Proposes
  <1> QED BY <1>1, Invariance, PTL DEF Spec, RepeatedFailureNeedsFounder

-----------------------------------------------------------------------------
(* The help a planner is granted, told by where its escalation stands.     *)

InLane(p) == \E i \in DOMAIN lane : lane[i] = p
Once(p) == \A i, j \in DOMAIN lane : lane[i] = p /\ lane[j] = p => i = j

\* A planner's escalation is in the lane at most once, and nobody is at work on
\* it but a founder who has seen it.  While the phase has hints left, help is
\* paid for, but for the escalation that is on its way into the lane or in it.
Helped(p) ==
  /\ \A n \in Phases : /\ help[n][p] <= HintQuota + stops[n] + deaths
                       /\ n > phase => help[n][p] = 0
  /\ stage[p] \notin {"idle", "answered"} => ~InLane(p)
  /\ Once(p)
  /\ \A f \in Founders : stage[f] \in {"reading", "replying"} /\ desk[f].target = p
       => /\ InLane(p)
          /\ stage[f] = "replying"
               => /\ desk[f].phase <= phase
                  /\ \A n \in Phases : n > desk[f].phase => help[n][p] = 0
  /\ hints[phase] < HintQuota => help[phase][p] <= hints[phase] + stops[phase] + deaths + 1
  /\ hints[phase] < HintQuota /\ ~InLane(p) /\ stage[p] # "opening"
       => help[phase][p] <= hints[phase] + stops[phase] + deaths
  /\ stage[p] = "governed" /\ hints[view[p].phase] < HintQuota
       => LET n == view[p].phase IN help[n][p] <= hints[n] + stops[n] + deaths
  /\ stage[p] = "asking"
       => LET n == view[p].phase IN help[n][p] < HintQuota + stops[n] + deaths

LEMMA HelpNumbers ==
  ASSUME TypeOK, NEW p \in Planners
  PROVE  /\ HintQuota \in Nat /\ deaths \in Nat /\ phase \in Phases
         /\ view[p].phase \in Phases
         /\ \A f \in Founders : desk[f].phase \in Phases
         /\ \A n \in Phases : /\ n \in Nat /\ hints[n] \in Nat /\ stops[n] \in Nat
                              /\ help[n][p] \in Nat
  <1>1. /\ hints \in [Phases -> Nat] /\ stops \in [Phases -> Nat] /\ deaths \in Nat
        /\ help \in [Phases -> [Planners -> Nat]] /\ phase \in Phases /\ view[p] \in Views
        /\ desk \in [Founders -> Desks]
    BY DEF TypeOK, Desks
  <1>2. \A n \in Phases : n \in Nat
    BY DEF Phases
  <1>3. view[p].phase \in Phases /\ \A f \in Founders : desk[f].phase \in Phases
    BY <1>1 DEF Views, Desks
  <1> QED BY <1>1, <1>2, <1>3, LimitAssumption

\* What founders have before them after a step they had before it, or they
\* see it now in the lane and in the run's phase.
HoldsDesks(p) ==
  \A f \in Founders : stage'[f] \in {"reading", "replying"} /\ desk'[f].target = p
    => \/ stage'[f] = stage[f] /\ desk'[f] = desk[f]
       \/ /\ InLane(p)
          /\ stage'[f] = "replying" => desk'[f].phase = phase

\* Steps that grant p no help and leave its escalation in the lane.
LEMMA HelpedAsBefore ==
  ASSUME TypeOK, TypeOK', NEW p \in Planners, Helped(p),
         \A n \in Phases : /\ help'[n][p] = help[n][p]
                           /\ hints'[n] >= hints[n] /\ stops'[n] >= stops[n],
         phase' >= phase, deaths' >= deaths,
         InLane(p) => InLane(p)', Once(p)', HoldsDesks(p),
         stage'[p] \notin {"idle", "answered"} => ~InLane(p)',
         stage[p] = "opening" => stage'[p] = "opening" \/ InLane(p)' \/ deaths' > deaths,
         stage'[p] = "governed"
           => \/ stage[p] = "governed" /\ view'[p].phase = view[p].phase
              \/ stage[p] = "surveyed" /\ view'[p].phase = phase,
         stage'[p] = "asking"
           => /\ view'[p].phase = view[p].phase
              /\ \/ stage[p] = "asking"
                 \/ stage[p] = "governed" /\ hints[view[p].phase] < HintQuota
  PROVE  Helped(p)'
  <1>a. /\ HintQuota \in Nat /\ deaths' \in Nat /\ phase' \in Phases
        /\ view'[p].phase \in Phases
        /\ \A f \in Founders : desk'[f].phase \in Phases
        /\ \A n \in Phases : hints'[n] \in Nat /\ stops'[n] \in Nat /\ help'[n][p] \in Nat
    <2>1. /\ hints' \in [Phases -> Nat] /\ stops' \in [Phases -> Nat] /\ deaths' \in Nat
          /\ help' \in [Phases -> [Planners -> Nat]] /\ phase' \in Phases /\ view'[p] \in Views
          /\ desk' \in [Founders -> Desks]
      BY DEF TypeOK, Desks
    <2>2. view'[p].phase \in Phases /\ \A f \in Founders : desk'[f].phase \in Phases
      BY <2>1 DEF Views, Desks
    <2> QED BY <2>1, <2>2, LimitAssumption
  <1>1. \A n \in Phases : /\ help[n][p] <= HintQuota + stops[n] + deaths
                          /\ n > phase => help[n][p] = 0
    BY DEF Helped
  <1>2. \A n \in Phases : /\ help'[n][p] <= HintQuota + stops'[n] + deaths'
                          /\ n > phase' => help'[n][p] = 0
    BY <1>a, <1>1, HelpNumbers
  <1>3. \A f \in Founders : stage'[f] \in {"reading", "replying"} /\ desk'[f].target = p
          => /\ InLane(p)'
             /\ stage'[f] = "replying"
                  => /\ desk'[f].phase <= phase'
                     /\ \A n \in Phases : n > desk'[f].phase => help'[n][p] = 0
    <2> SUFFICES ASSUME NEW f \in Founders,
                        stage'[f] \in {"reading", "replying"}, desk'[f].target = p
                 PROVE  /\ InLane(p)'
                        /\ stage'[f] = "replying"
                             => /\ desk'[f].phase <= phase'
                                /\ \A n \in Phases : n > desk'[f].phase => help'[n][p] = 0
      OBVIOUS
    <2>1. CASE stage'[f] = stage[f] /\ desk'[f] = desk[f]
      <3>1. /\ InLane(p)
            /\ stage[f] = "replying"
                  => /\ desk[f].phase <= phase
                     /\ \A n \in Phases : n > desk[f].phase => help[n][p] = 0
        BY <2>1 DEF Helped
      <3> QED BY <1>a, <2>1, <3>1, HelpNumbers
    <2>2. CASE InLane(p) /\ (stage'[f] = "replying" => desk'[f].phase = phase)
      BY <1>a, <1>1, <2>2, HelpNumbers
    <2> QED BY <2>1, <2>2 DEF HoldsDesks
  <1>4. hints'[phase'] < HintQuota
          => help'[phase'][p] <= hints'[phase'] + stops'[phase'] + deaths' + 1
    <2>1. hints[phase] < HintQuota => help[phase][p] <= hints[phase] + stops[phase] + deaths + 1
      BY DEF Helped
    <2>2. CASE phase' = phase
      BY <1>a, <2>1, <2>2, HelpNumbers
    <2>3. CASE phase' # phase
      <3>1. help'[phase'][p] = 0
        BY <1>a, <1>1, <2>3, HelpNumbers
      <3> QED BY <1>a, <3>1, HelpNumbers
    <2> QED BY <2>2, <2>3
  <1>5. hints'[phase'] < HintQuota /\ ~InLane(p)' /\ stage'[p] # "opening"
          => help'[phase'][p] <= hints'[phase'] + stops'[phase'] + deaths'
    <2>1. CASE phase' = phase /\ stage[p] # "opening"
      <3>1. hints[phase] < HintQuota /\ ~InLane(p)
              => help[phase][p] <= hints[phase] + stops[phase] + deaths
        BY <2>1 DEF Helped
      <3> QED BY <1>a, <2>1, <3>1, HelpNumbers
    <2>2. CASE phase' = phase /\ stage[p] = "opening"
      <3>1. hints[phase] < HintQuota => help[phase][p] <= hints[phase] + stops[phase] + deaths + 1
        BY DEF Helped
      <3> QED BY <1>a, <2>2, <3>1, HelpNumbers
    <2>3. CASE phase' # phase
      <3>1. help'[phase'][p] = 0
        BY <1>a, <1>1, <2>3, HelpNumbers
      <3> QED BY <1>a, <3>1, HelpNumbers
    <2> QED BY <2>1, <2>2, <2>3
  <1>6. stage'[p] = "governed" /\ hints'[view'[p].phase] < HintQuota
          => help'[view'[p].phase][p] <= hints'[view'[p].phase] + stops'[view'[p].phase] + deaths'
    <2>1. CASE stage[p] = "governed" /\ view'[p].phase = view[p].phase
      <3>1. hints[view[p].phase] < HintQuota
              => help[view[p].phase][p] <= hints[view[p].phase] + stops[view[p].phase] + deaths
        BY <2>1 DEF Helped
      <3> QED BY <1>a, <2>1, <3>1, HelpNumbers
    <2>2. CASE stage[p] = "surveyed" /\ view'[p].phase = phase
      <3>1. hints[phase] < HintQuota => help[phase][p] <= hints[phase] + stops[phase] + deaths
        BY <2>2 DEF Helped
      <3> QED BY <1>a, <2>2, <3>1, HelpNumbers
    <2> QED BY <2>1, <2>2
  <1>7. stage'[p] = "asking"
          => help'[view'[p].phase][p] < HintQuota + stops'[view'[p].phase] + deaths'
    <2>1. CASE stage'[p] = "asking" /\ stage[p] = "asking"
      <3>1. help[view[p].phase][p] < HintQuota + stops[view[p].phase] + deaths
        BY <2>1 DEF Helped
      <3> QED BY <1>a, <2>1, <3>1, HelpNumbers
    <2>2. CASE stage'[p] = "asking" /\ stage[p] = "governed" /\ hints[view[p].phase] < HintQuota
      <3>1. help[view[p].phase][p] <= hints[view[p].phase] + stops[view[p].phase] + deaths
        BY <2>2 DEF Helped
      <3> QED BY <1>a, <2>2, <3>1, HelpNumbers
    <2> QED BY <2>1, <2>2
  <1> QED BY <1>2, <1>3, <1>4, <1>5, <1>6, <1>7 DEF Helped

\* The lane after an escalation was appended or answered.
LEMMA LaneAppended ==
  ASSUME TypeOK, NEW p \in Planners, NEW q \in Planners, lane' = Append(lane, q), Once(p)
  PROVE  /\ InLane(p) => InLane(p)'
         /\ q = p => InLane(p)'
         /\ q # p => (InLane(p)' => InLane(p))
         /\ (q = p => ~InLane(p)) => Once(p)'
  <1>1. /\ lane \in Seq(Planners) /\ DOMAIN lane = 1 .. Len(lane) /\ Len(lane) \in Nat
        /\ DOMAIN lane' = 1 .. Len(lane) + 1
        /\ lane'[Len(lane) + 1] = q /\ \A i \in DOMAIN lane : lane'[i] = lane[i]
    BY DEF TypeOK
  <1>2. \A i \in DOMAIN lane' : i \in DOMAIN lane \/ i = Len(lane) + 1
    BY <1>1
  <1>3. DOMAIN lane \subseteq DOMAIN lane' /\ Len(lane) + 1 \in DOMAIN lane'
    BY <1>1
  <1>4. /\ InLane(p) => InLane(p)'
        /\ q = p => InLane(p)'
        /\ q # p => (InLane(p)' => InLane(p))
    BY <1>1, <1>2, <1>3 DEF InLane
  <1>5. (q = p => ~InLane(p)) => Once(p)'
    BY <1>1, <1>2 DEF InLane, Once
  <1> QED BY <1>4, <1>5

LEMMA LaneAnswered ==
  ASSUME TypeOK, NEW p \in Planners, NEW k \in DOMAIN lane, Once(p),
         lane' = [j \in 1 .. Len(lane) - 1 |-> lane[IF j < k THEN j ELSE j + 1]]
  PROVE  /\ Once(p)'
         /\ lane[k] # p => (InLane(p)' <=> InLane(p))
         /\ lane[k] = p => ~InLane(p)'
  <1>1. /\ DOMAIN lane = 1 .. Len(lane) /\ Len(lane) \in Nat /\ k \in 1 .. Len(lane)
        /\ DOMAIN lane' = 1 .. Len(lane) - 1
    BY DEF TypeOK
  <1>2. \A j \in DOMAIN lane' :
          LET i == IF j < k THEN j ELSE j + 1
          IN  i \in DOMAIN lane /\ i # k /\ lane'[j] = lane[i]
    BY <1>1
  <1>3. \A i \in DOMAIN lane \ {k} :
          LET j == IF i < k THEN i ELSE i - 1
          IN  j \in DOMAIN lane' /\ lane'[j] = lane[i]
    BY <1>1
  <1>4. Once(p)'
    <2> SUFFICES ASSUME NEW i \in DOMAIN lane', NEW j \in DOMAIN lane',
                        lane'[i] = p, lane'[j] = p
                 PROVE  i = j
      BY DEF Once
    <2>1. (IF i < k THEN i ELSE i + 1) = (IF j < k THEN j ELSE j + 1)
      BY <1>2 DEF Once
    <2> QED BY <1>1, <2>1
  <1>5. lane[k] # p => (InLane(p)' <=> InLane(p))
    <2>1. ASSUME NEW i \in DOMAIN lane, lane[i] = p, lane[k] # p PROVE InLane(p)'
      <3>1. i \in DOMAIN lane \ {k}
        BY <2>1
      <3>2. PICK j \in DOMAIN lane' : lane'[j] = lane[i]
        BY <1>3, <3>1
      <3> QED BY <2>1, <3>2 DEF InLane
    <2>2. ASSUME NEW j \in DOMAIN lane', lane'[j] = p PROVE InLane(p)
      <3>1. PICK i \in DOMAIN lane : lane'[j] = lane[i]
        BY <1>2
      <3> QED BY <2>2, <3>1 DEF InLane
    <2>3. InLane(p)' => \E j \in DOMAIN lane' : lane'[j] = p
      BY DEF InLane
    <2>4. InLane(p) => \E i \in DOMAIN lane : lane[i] = p
      BY DEF InLane
    <2> QED BY <2>1, <2>2, <2>3, <2>4
  <1>6. lane[k] = p => ~InLane(p)'
    BY <1>2 DEF InLane, Once
  <1> QED BY <1>4, <1>5, <1>6

\* A founder answers an escalation of p.
AnsweredNow(p) == \E f \in Founders : (Hint(f) \/ Stop(f)) /\ desk[f].target = p

\* What the steps but those two do to the help of p.
Unaided(p) ==
  /\ \A n \in Phases : /\ help'[n][p] = help[n][p]
                       /\ hints'[n] >= hints[n] /\ stops'[n] >= stops[n]
  /\ phase' >= phase /\ deaths' >= deaths
  /\ InLane(p) => InLane(p)'
  /\ InLane(p)' => InLane(p) \/ Alarm(p) \/ OpenLane(p)
  /\ Once(p)' /\ HoldsDesks(p)

LEMMA UnaidedStep ==
  ASSUME TypeOK, NEW p \in Planners, Helped(p), [Next]_vars, ~GrantAsk(p), ~AnsweredNow(p)
  PROVE  Unaided(p)
  <1>0. /\ phase \in Nat /\ deaths \in Nat /\ Once(p)
        /\ lane \in Seq(Planners) /\ desk \in [Founders -> Desks] /\ HintQuota \in Nat
        /\ stage \in [Processes -> Stages] /\ Founders \subseteq Processes
        /\ help \in [Phases -> [Planners -> Nat]]
        /\ \A n \in Phases : hints[n] \in Nat /\ stops[n] \in Nat
        /\ hints \in [Phases -> Nat] /\ stops \in [Phases -> Nat]
    BY LimitAssumption DEF TypeOK, Phases, Processes, Desks, Helped
  <1>1. ASSUME lane' = lane
        PROVE  (InLane(p)' <=> InLane(p)) /\ Once(p)'
    BY <1>0, <1>1 DEF InLane, Once
  <1>2. ASSUME UNCHANGED <<help, hints, stops>>
        PROVE  \A n \in Phases : /\ help'[n][p] = help[n][p]
                                 /\ hints'[n] >= hints[n] /\ stops'[n] >= stops[n]
    BY <1>0, <1>2
  <1>3. ASSUME desk' = desk, \A f \in Founders : stage'[f] = stage[f]
        PROVE  HoldsDesks(p)
    BY <1>3 DEF HoldsDesks
  <1>4. \A q \in Planners : Ends(q) => \A f \in Founders : stage'[f] = stage[f]
    BY <1>0, ProcessAssumption DEF Ends, Moves
  <1>5. \A q \in Planners : \A next : Moves(q, next) => \A f \in Founders : stage'[f] = stage[f]
    BY <1>0, ProcessAssumption DEF Moves
  <1>6. ASSUME NEW q \in Planners,
               \/ Invoke(q) \/ InvokeAlarmed(q) \/ Propose(q) \/ ProviderRetry(q)
               \/ ProviderError(q) \/ ProviderBabbles(q) \/ FormatFailure(q) \/ Answer(q)
               \/ Survey(q) \/ Govern(q) \/ ScanLedger(q) \/ Decide(q) \/ CountHints(q)
        PROVE  Unaided(p)
    <2>1. UNCHANGED <<phase, ledgerVars, desk, deaths>>
      BY <1>6 DEF Invoke, InvokeAlarmed, Propose, ProviderRetry, ProviderError,
                  ProviderBabbles, FormatFailure, Answer, Survey, Govern, ScanLedger,
                  Decide, CountHints
    <2>2. \A f \in Founders : stage'[f] = stage[f]
      <3>1. CASE \/ Invoke(q) \/ InvokeAlarmed(q) \/ Propose(q) \/ ProviderRetry(q)
                 \/ ProviderError(q) \/ ProviderBabbles(q)
        BY <3>1, <1>4, <1>5
           DEF Invoke, InvokeAlarmed, Propose, ProviderRetry, ProviderError, ProviderBabbles
      <3>2. CASE FormatFailure(q) \/ Answer(q) \/ Survey(q) \/ Govern(q)
        BY <3>2, <1>4, <1>5 DEF FormatFailure, Answer, Survey, Govern
      <3>3. CASE ScanLedger(q) \/ Decide(q) \/ CountHints(q)
        BY <3>3, <1>4, <1>5 DEF ScanLedger, Decide, CountHints
      <3> QED BY <1>6, <3>1, <3>2, <3>3
    <2> QED BY <1>0, <1>1, <1>2, <1>3, <2>1, <2>2 DEF Unaided, ledgerVars
  <1>7. ASSUME NEW q \in Planners,
               \/ RefuseUncharged(q) \/ RefuseCharged(q) \/ Accept(q)
               \/ ChargeFormatFailure(q) \/ Close(q) \/ RefuseAsk(q) \/ Shut(q)
        PROVE  Unaided(p)
    <2>1. UNCHANGED <<phase, hints, stops, help, lane, desk, deaths>>
      BY <1>7 DEF RefuseUncharged, RefuseCharged, Accept, ChargeFormatFailure, Close,
                  RefuseAsk, Shut
    <2>2. \A f \in Founders : stage'[f] = stage[f]
      BY <1>4, <1>5, <1>7
         DEF RefuseUncharged, RefuseCharged, Accept, ChargeFormatFailure, Close, RefuseAsk, Shut
    <2> QED BY <1>0, <1>1, <1>2, <1>3, <2>1, <2>2 DEF Unaided
  <1>8. ASSUME NEW q \in Planners, Alarm(q) \/ OpenLane(q) PROVE Unaided(p)
    <2>1. /\ UNCHANGED <<phase, hints, stops, help, desk, deaths>> /\ lane' = Append(lane, q)
          /\ stage[q] \in {"alarming", "opening"} /\ Ends(q)
      BY <1>8 DEF Alarm, OpenLane
    <2>2. q = p => ~InLane(p)
      BY <2>1 DEF Helped
    <2>3. /\ InLane(p) => InLane(p)'
          /\ InLane(p)' => InLane(p) \/ Alarm(p) \/ OpenLane(p)
          /\ Once(p)'
      BY <1>0, <1>8, <2>1, <2>2, LaneAppended
    <2>4. \A f \in Founders : stage'[f] = stage[f]
      BY <1>4, <2>1
    <2> QED BY <1>0, <1>2, <1>3, <2>1, <2>3, <2>4 DEF Unaided
  <1>9. ASSUME NEW q \in Planners, q # p, GrantAsk(q) PROVE Unaided(p)
    <2>1. /\ UNCHANGED <<phase, hints, stops, lane, desk, deaths>> /\ Moves(q, "opening")
      BY <1>9 DEF GrantAsk
    <2>2. \A n \in Phases : help'[n][p] = help[n][p]
      BY <1>0, <1>9 DEF GrantAsk
    <2>3. HoldsDesks(p)
      BY <1>3, <1>5, <2>1
    <2> QED BY <1>0, <1>1, <2>1, <2>2, <2>3 DEF Unaided
  <1>10. ASSUME NEW f \in Founders, LookAtLane(f) \/ LookAtPhase(f) PROVE Unaided(p)
    <2>1. UNCHANGED <<phase, ledgerVars, deaths>>
      BY <1>10 DEF LookAtLane, LookAtPhase
    <2>2. \A g \in Founders : g # f => stage'[g] = stage[g] /\ desk'[g] = desk[g]
      BY <1>0, <1>10 DEF LookAtLane, LookAtPhase, Moves
    <2>3. CASE LookAtLane(f)
      <3>1. stage'[f] = "reading" /\ desk'[f].target = Latest /\ lane # <<>>
        BY <1>0, <2>3 DEF LookAtLane, Moves, Desks
      <3>2. Len(lane) \in DOMAIN lane
        BY <1>0, <3>1
      <3>3. desk'[f].target = p => InLane(p)
        BY <3>1, <3>2 DEF Latest, InLane
      <3>4. HoldsDesks(p)
        BY <2>2, <3>1, <3>3 DEF HoldsDesks
      <3> QED BY <1>0, <1>1, <1>2, <2>1, <3>4 DEF Unaided, ledgerVars
    <2>4. CASE LookAtPhase(f)
      <3>1. /\ stage[f] = "reading" /\ stage'[f] = "replying"
            /\ desk'[f].target = desk[f].target /\ desk'[f].phase = phase
        BY <1>0, <2>4 DEF LookAtPhase, Moves, Desks
      <3>2. desk'[f].target = p => InLane(p)
        BY <3>1 DEF Helped
      <3>3. HoldsDesks(p)
        BY <2>2, <3>1, <3>2 DEF HoldsDesks
      <3> QED BY <1>0, <1>1, <1>2, <2>1, <3>3 DEF Unaided, ledgerVars
    <2> QED BY <1>10, <2>3, <2>4
  <1>11. ASSUME NEW f \in Founders,
                BeginRecharge(f) \/ ReplyRefused(f) \/ Recharge(f) \/ Shut(f) \/ Dies(f)
         PROVE  Unaided(p)
    <2>1. UNCHANGED <<phase, hints, stops, help, lane>> /\ deaths' >= deaths
      BY <1>0, <1>11 DEF BeginRecharge, ReplyRefused, Recharge, Shut, Dies, ledgerVars
    <2>2. /\ stage'[f] \in {"recharging", "idle"}
          /\ \A g \in Founders : g # f => stage'[g] = stage[g] /\ desk'[g] = desk[g]
      BY <1>0, <1>11, ProcessAssumption
         DEF BeginRecharge, ReplyRefused, Recharge, Shut, Dies, Leaves, Moves
    <2>3. HoldsDesks(p)
      BY <2>2 DEF HoldsDesks
    <2> QED BY <1>0, <1>1, <1>2, <2>1, <2>3 DEF Unaided
  <1>12. ASSUME NEW f \in Founders, Hint(f) \/ Stop(f) PROVE Unaided(p)
    <2>1. /\ UNCHANGED <<phase, help, deaths>> /\ Answers(f) /\ desk[f].target # p
          /\ \A g \in Founders : g # f => stage'[g] = stage[g]
          /\ stage'[f] \in {"idle", "shutting"}
      BY <1>0, <1>12 DEF Hint, Stop, Moves, AnsweredNow
    <2>2. \A n \in Phases : hints'[n] >= hints[n] /\ stops'[n] >= stops[n]
      <3>1. CASE Hint(f)
        <4>1. PICK m : /\ stops' = stops
                       /\ hints' = [hints EXCEPT ![m] = IF @ < HintQuota THEN @ + 1 ELSE @]
          BY <3>1 DEF Hint
        <4> QED BY <1>0, <4>1
      <3>2. CASE Stop(f)
        <4>1. PICK m : hints' = hints /\ stops' = [stops EXCEPT ![m] = @ + 1]
          BY <3>2 DEF Stop
        <4> QED BY <1>0, <4>1
      <3> QED BY <1>12, <3>1, <3>2
    <2>3. PICK k \in DOMAIN lane :
            /\ lane[k] = desk[f].target
            /\ lane' = [j \in 1 .. Len(lane) - 1 |-> lane[IF j < k THEN j ELSE j + 1]]
      BY <2>1 DEF Answers
    <2>4. Once(p)' /\ (InLane(p)' <=> InLane(p))
      BY <1>0, <2>1, <2>3, LaneAnswered
    <2>5. \A g \in Founders : g # f => desk'[g] = desk[g] \/ desk'[g].target = Nobody
      BY <1>0, <2>1 DEF Answers, Desks
    <2>6. HoldsDesks(p)
      BY <2>1, <2>5, NobodyAssumption DEF HoldsDesks
    <2> QED BY <1>0, <2>1, <2>2, <2>4, <2>6 DEF Unaided
  <1>13. ASSUME Advance PROVE Unaided(p)
    <2>1. UNCHANGED <<ledgerVars, stage, desk, deaths>> /\ phase' >= phase
      BY <1>0, <1>13 DEF Advance
    <2> QED BY <1>0, <1>1, <1>2, <1>3, <2>1 DEF Unaided, ledgerVars
  <1>14. ASSUME NEW q \in Planners, Dies(q) PROVE Unaided(p)
    <2>1. UNCHANGED <<phase, ledgerVars, desk>> /\ deaths' >= deaths /\ Ends(q)
      BY <1>0, <1>14 DEF Dies
    <2> QED BY <1>0, <1>1, <1>2, <1>3, <1>4, <2>1 DEF Unaided, ledgerVars
  <1>15. CASE UNCHANGED vars
    BY <1>0, <1>1, <1>2, <1>3, <1>15 DEF Unaided, vars, ledgerVars
  <1> QED
    BY <1>6, <1>7, <1>8, <1>9, <1>10, <1>11, <1>12, <1>13, <1>14, <1>15
       DEF Next, PlannerStep, FounderStep, Processes

\* Where a planner's own steps lead as far as its help is concerned.
LEMMA OwnStages ==
  ASSUME TypeOK, NEW p \in Planners, Helped(p), OwnStep(p), ~GrantAsk(p)
  PROVE  /\ stage'[p] \notin {"idle", "answered"} => ~InLane(p)'
         /\ stage[p] = "opening" => InLane(p)' \/ deaths' > deaths
         /\ stage'[p] = "governed" => stage[p] = "surveyed" /\ view'[p].phase = phase
         /\ stage'[p] = "asking" => /\ view'[p].phase = view[p].phase
                                    /\ stage[p] = "governed" /\ hints[view[p].phase] < HintQuota
  <1>0. /\ Ends(p) => stage'[p] = "idle"
        /\ \A next : Moves(p, next) => stage'[p] = next
        /\ lane' = lane => (InLane(p)' <=> InLane(p))
        /\ lane = <<>> => ~InLane(p)
        /\ stage[p] \notin {"idle", "answered"} => ~InLane(p)
        /\ lane \in Seq(Planners) /\ deaths \in Nat
    <2>1. /\ Ends(p) => stage'[p] = "idle"
          /\ \A next : Moves(p, next) => stage'[p] = next
      BY Numbers DEF Ends, Moves
    <2>2. /\ lane' = lane => (InLane(p)' <=> InLane(p))
          /\ lane = <<>> => ~InLane(p)
      BY DEF InLane
    <2> QED BY <2>1, <2>2 DEF Helped, TypeOK
  <1>1. CASE Invoke(p) \/ InvokeAlarmed(p)
    <2>1. lane = <<>> /\ lane' = lane /\ stage[p] = "idle" /\ stage'[p] \in {"thinking", "alarming"}
      BY <1>0, <1>1 DEF Invoke, InvokeAlarmed, RepeatedFailure, ledgerVars
    <2> QED BY <1>0, <2>1
  <1>2. CASE Propose(p) \/ Answer(p)
    <2>1. stage[p] \in {"idle", "thinking"} /\ stage'[p] = "answered"
      BY <1>0, <1>2 DEF Propose, Answer
    <2> QED BY <2>1
  <1>3. CASE ProviderRetry(p) \/ FormatFailure(p)
    <2>1. lane' = lane /\ stage[p] = "thinking" /\ stage'[p] \in {"thinking", "surveyed"}
      BY <1>0, <1>3 DEF ProviderRetry, FormatFailure, ledgerVars
    <2> QED BY <1>0, <2>1
  <1>4. CASE Survey(p)
    <2>1. lane' = lane /\ stage[p] = "answered"
          /\ (stage'[p] = "idle" \/ (stage'[p] = "surveyed" /\ lane = <<>>))
      BY <1>0, <1>4 DEF Survey, ledgerVars
    <2> QED BY <1>0, <2>1
  <1>5. CASE Govern(p)
    <2>1. lane' = lane /\ stage[p] = "surveyed" /\ stage'[p] \in {"idle", "governed"}
      BY <1>0, <1>5 DEF Govern, ledgerVars
    <2>2. stage'[p] = "governed" => view'[p].phase = phase
      BY <1>0, <1>5, Numbers DEF Govern, Views
    <2> QED BY <1>0, <2>1, <2>2
  <1>6. CASE CountHints(p)
    <2>1. /\ lane' = lane /\ stage[p] = "governed" /\ stage'[p] \in {"asking", "shutting"}
          /\ stage'[p] = "asking" => hints[view[p].phase] < HintQuota /\ view' = view
      BY <1>0, <1>6 DEF CountHints, ledgerVars, HintsLeft
    <2> QED BY <1>0, <2>1
  <1>7. CASE OpenLane(p)
    <2>1. lane' = Append(lane, p) /\ stage'[p] = "idle" /\ Once(p)
      BY <1>0, <1>7 DEF OpenLane, Helped
    <2> QED BY <1>0, <2>1, LaneAppended
  <1>8. CASE Dies(p)
    <2>1. stage'[p] = "idle" /\ deaths' > deaths
      BY <1>0, <1>8 DEF Dies
    <2> QED BY <2>1
  <1>9. CASE \/ ProviderError(p) \/ ProviderBabbles(p) \/ Alarm(p) \/ Decide(p)
             \/ RefuseUncharged(p) \/ Close(p) \/ Shut(p) \/ RefuseAsk(p)
    <2>1. stage'[p] = "idle" /\ stage[p] # "opening"
      BY <1>0, <1>9 DEF ProviderError, ProviderBabbles, Alarm, Decide, RefuseUncharged,
                        Resubmitted, Stale, Proposes, Close, Shut, RefuseAsk
    <2> QED BY <2>1
  <1>10. CASE ScanLedger(p) \/ RefuseCharged(p) \/ Accept(p) \/ ChargeFormatFailure(p)
    <2>1. /\ lane' = lane /\ stage[p] \in {"governed", "judging"}
          /\ stage'[p] \in {"alarming", "judging", "closing", "shutting", "deciding", "idle"}
      BY <1>0, <1>10 DEF ScanLedger, RefuseCharged, Accept, ChargeFormatFailure, Judged,
                         Proposes, ledgerVars
    <2> QED BY <1>0, <2>1
  <1> QED
    BY <1>1, <1>2, <1>3, <1>4, <1>5, <1>6, <1>7, <1>8, <1>9, <1>10 DEF OwnStep, PlannerStep

\* The help granted now is paid for by a hint that is left.
LEMMA GrantIsPaid ==
  ASSUME TypeOK, TypeOK', NEW p \in Planners, Helped(p), view[p].phase <= phase, GrantAsk(p)
  PROVE  Helped(p)'
  <1> DEFINE n == view[p].phase
  <1>0. /\ UNCHANGED <<phase, hints, stops, lane, desk, deaths>>
        /\ stage[p] = "asking" /\ stage'[p] = "opening"
        /\ \A f \in Founders : stage'[f] = stage[f]
    BY Numbers, ProcessAssumption DEF GrantAsk, Moves
  <1>1. n \in Phases /\ help' = [help EXCEPT ![n][p] = @ + 1]
    BY HelpNumbers DEF GrantAsk
  <1>a. help \in [Phases -> [Planners -> Nat]]
    BY DEF TypeOK
  <1> HIDE DEF n
  <1>2. /\ help'[n][p] = help[n][p] + 1
        /\ \A m \in Phases : m # n => help'[m][p] = help[m][p]
    BY <1>1, <1>a
  <1> USE DEF n
  <1>3. help[n][p] < HintQuota + stops[n] + deaths /\ ~InLane(p) /\ Once(p)
    BY <1>0 DEF Helped
  <1>4. ~InLane(p)' /\ Once(p)'
    BY <1>0, <1>3 DEF InLane, Once
  <1>5. \A m \in Phases : /\ help[m][p] <= HintQuota + stops[m] + deaths
                          /\ m > phase => help[m][p] = 0
    BY DEF Helped
  <1>6. \A m \in Phases : /\ help'[m][p] <= HintQuota + stops[m] + deaths
                          /\ m > phase => help'[m][p] = 0
    <2> SUFFICES ASSUME NEW m \in Phases
                 PROVE  /\ help'[m][p] <= HintQuota + stops[m] + deaths
                        /\ m > phase => help'[m][p] = 0
      OBVIOUS
    <2>1. CASE m = n
      BY <2>1, <1>1, <1>2, <1>3, HelpNumbers
    <2>2. CASE m # n
      BY <2>2, <1>2, <1>5
    <2> QED BY <2>1, <2>2
  <1>7. hints[phase] < HintQuota => help'[phase][p] <= hints[phase] + stops[phase] + deaths + 1
    <2>1. hints[phase] < HintQuota => help[phase][p] <= hints[phase] + stops[phase] + deaths
      BY <1>0, <1>3 DEF Helped
    <2>2. help'[phase][p] <= help[phase][p] + 1
      <3>1. phase \in Phases /\ help[phase][p] \in Nat
        BY HelpNumbers
      <3> HIDE DEF n
      <3>2. CASE phase = n
        BY <1>2, <3>1, <3>2
      <3>3. CASE phase # n
        BY <1>2, <3>1, <3>3
      <3> QED BY <3>2, <3>3
    <2>3. help'[phase][p] \in Nat
      BY <1>0 DEF TypeOK
    <2> QED BY <2>1, <2>2, <2>3, HelpNumbers
  <1>8. \A f \in Founders : ~(stage[f] \in {"reading", "replying"} /\ desk[f].target = p)
    BY <1>3 DEF Helped
  <1> QED BY <1>0, <1>4, <1>6, <1>7, <1>8 DEF Helped

\* A founder's answer pays for the escalation it takes out of the lane.
LEMMA AnswerPays ==
  ASSUME TypeOK, TypeOK', NEW p \in Planners, Helped(p),
         NEW f \in Founders, Hint(f) \/ Stop(f), desk[f].target = p
  PROVE  Helped(p)'
  <1>0. /\ UNCHANGED <<phase, help, deaths, view>> /\ Answers(f) /\ stage[f] = "replying"
        /\ stage'[f] \in {"idle", "shutting"} /\ stage'[p] = stage[p]
    <2>1. f # p /\ f \in Processes /\ stage \in [Processes -> Stages] /\ p \in Processes
      BY Numbers, ProcessAssumption DEF Processes
    <2>2. \E next \in {"idle", "shutting"} : Moves(f, next)
      BY DEF Hint, Stop
    <2>3. stage'[f] \in {"idle", "shutting"} /\ stage'[p] = stage[p]
      BY <2>1, <2>2 DEF Moves
    <2> QED BY <2>3 DEF Hint, Stop, MayAnswer
  <1>1. /\ InLane(p) /\ Once(p) /\ desk[f].phase <= phase
        /\ \A n \in Phases : n > desk[f].phase => help[n][p] = 0
    BY <1>0 DEF Helped
  <1>2. stage[p] \in {"idle", "answered"}
    BY <1>1 DEF Helped
  <1>3. ~InLane(p)' /\ Once(p)'
    <2>1. PICK k \in DOMAIN lane :
            /\ lane[k] = desk[f].target
            /\ lane' = [j \in 1 .. Len(lane) - 1 |-> lane[IF j < k THEN j ELSE j + 1]]
      BY <1>0 DEF Answers
    <2> QED BY <1>1, <2>1, LaneAnswered
  <1>4. \A g \in Founders : ~(stage'[g] \in {"reading", "replying"} /\ desk'[g].target = p)
    <2> SUFFICES ASSUME NEW g \in Founders, g # f PROVE desk'[g].target # p
      BY <1>0
    <2>1. desk'[g] = IF desk[g].target = desk[f].target
                       THEN [desk[g] EXCEPT !.target = Nobody] ELSE desk[g]
      BY <1>0 DEF Answers
    <2>2. desk[g] \in Desks
      BY DEF TypeOK, Desks
    <2> QED BY <2>1, <2>2, NobodyAssumption DEF Desks
  <1>5. PICK m \in Phases :
          /\ m = desk[f].phase
          /\ \/ /\ stops' = stops
                /\ hints' = [hints EXCEPT ![m] = IF @ < HintQuota THEN @ + 1 ELSE @]
             \/ hints' = hints /\ stops' = [stops EXCEPT ![m] = @ + 1]
    BY HelpNumbers DEF Hint, Stop
  <1>6. hints \in [Phases -> Nat] /\ stops \in [Phases -> Nat]
    BY DEF TypeOK
  <1>7. \A n \in Phases : hints'[n] >= hints[n] /\ stops'[n] >= stops[n]
                          /\ hints'[n] \in Nat /\ stops'[n] \in Nat
    BY <1>5, <1>6, HelpNumbers
  <1>8. \A n \in Phases : /\ help'[n][p] <= HintQuota + stops'[n] + deaths'
                          /\ n > phase' => help'[n][p] = 0
    <2>1. \A n \in Phases : /\ help[n][p] <= HintQuota + stops[n] + deaths
                            /\ n > phase => help[n][p] = 0
      BY DEF Helped
    <2> QED BY <1>0, <1>7, <2>1, HelpNumbers
  <1>9. hints'[phase] < HintQuota => help[phase][p] <= hints'[phase] + stops'[phase] + deaths
    <2>1. CASE m = phase
      <3>1. hints[phase] < HintQuota => help[phase][p] <= hints[phase] + stops[phase] + deaths + 1
        BY DEF Helped
      <3>2. \/ stops'[phase] = stops[phase]
               /\ hints'[phase] = IF hints[phase] < HintQuota THEN hints[phase] + 1
                                                              ELSE hints[phase]
            \/ hints'[phase] = hints[phase] /\ stops'[phase] = stops[phase] + 1
        BY <1>5, <1>6, <2>1, HelpNumbers
      <3> QED BY <3>1, <3>2, HelpNumbers
    <2>2. CASE m # phase
      <3>1. help[phase][p] = 0
        BY <1>1, <1>5, <2>2, HelpNumbers
      <3> QED BY <3>1, <1>7, HelpNumbers
    <2> QED BY <2>1, <2>2
  <1>10. hints'[phase] < HintQuota
           => help[phase][p] <= hints'[phase] + stops'[phase] + deaths + 1
    BY <1>7, <1>9, HelpNumbers
  <1> QED BY <1>0, <1>2, <1>3, <1>4, <1>8, <1>9, <1>10 DEF Helped

LEMMA HelpInit == Init => \A p \in Planners : Helped(p)
  <1> SUFFICES ASSUME Init, NEW p \in Planners PROVE Helped(p)
    OBVIOUS
  <1>1. /\ phase = 0 /\ deaths = 0 /\ lane = <<>> /\ stage[p] = "idle"
        /\ \A f \in Founders : stage[f] = "idle"
        /\ \A n \in Phases : hints[n] = 0 /\ stops[n] = 0 /\ help[n][p] = 0
    BY DEF Init, Processes
  <1>2. phase \in Phases /\ HintQuota \in Nat
    BY TypeInit, LimitAssumption DEF TypeOK
  <1>3. ~InLane(p) /\ Once(p)
    BY <1>1 DEF InLane, Once
  <1> QED BY <1>1, <1>2, <1>3 DEF Helped

LEMMA HelpStep ==
  Inv /\ (\A p \in Planners : Helped(p)) /\ [Next]_vars => \A p \in Planners : Helped(p)'
  <1> SUFFICES ASSUME Inv, \A q \in Planners : Helped(q), [Next]_vars, NEW p \in Planners
               PROVE  Helped(p)'
    OBVIOUS
  <1>1. TypeOK /\ TypeOK' /\ Helped(p) /\ view[p].phase <= phase
    BY InvariantStep DEF Inv, PlannerInv, Counted
  <1>2. CASE GrantAsk(p)
    BY <1>1, <1>2, GrantIsPaid
  <1>3. CASE AnsweredNow(p)
    <2>1. PICK f \in Founders : (Hint(f) \/ Stop(f)) /\ desk[f].target = p
      BY <1>3 DEF AnsweredNow
    <2> QED BY <1>1, <2>1, AnswerPays
  <1>4. CASE ~GrantAsk(p) /\ ~AnsweredNow(p)
    <2>1. Unaided(p)
      BY <1>1, <1>4, UnaidedStep
    <2>2. CASE OwnStep(p)
      <3>1. /\ stage'[p] \notin {"idle", "answered"} => ~InLane(p)'
            /\ stage[p] = "opening" => InLane(p)' \/ deaths' > deaths
            /\ stage'[p] = "governed" => stage[p] = "surveyed" /\ view'[p].phase = phase
            /\ stage'[p] = "asking" => /\ view'[p].phase = view[p].phase
                                       /\ stage[p] = "governed"
                                       /\ hints[view[p].phase] < HintQuota
        BY <1>1, <1>4, <2>2, OwnStages
      <3> QED BY <1>1, <2>1, <3>1, HelpedAsBefore DEF Unaided
    <2>3. CASE ~OwnStep(p)
      <3>1. stage'[p] = stage[p] /\ view'[p] = view[p]
        BY <1>1, <2>3, OthersStep DEF Undisturbed
      <3>2. InLane(p)' => InLane(p)
        BY <2>1, <2>3 DEF Unaided, OwnStep, PlannerStep
      <3>3. stage'[p] \notin {"idle", "answered"} => ~InLane(p)'
        BY <1>1, <3>1, <3>2 DEF Helped
      <3> QED BY <1>1, <2>1, <3>1, <3>3, HelpedAsBefore DEF Unaided
    <2> QED BY <2>2, <2>3
  <1> QED BY <1>2, <1>3, <1>4

\* Hints cannot be farmed: for any planners, founders and quota the help a
\* planner is granted in a phase is bounded by the quota, the founders' stops
\* and the commands that died.
THEOREM HelpIsPaidFor == Spec => []HelpIsBounded
  <1>1. Inv /\ (\A p \in Planners : Helped(p)) /\ [Next]_vars
          => (Inv /\ \A p \in Planners : Helped(p))'
    BY InvariantStep, HelpStep
  <1>2. Init => Inv /\ \A p \in Planners : Helped(p)
    BY InvInit, HelpInit DEF Inv
  <1>3. (\A p \in Planners : Helped(p)) => HelpIsBounded
    BY DEF Helped, HelpIsBounded
  <1> QED BY <1>1, <1>2, <1>3, PTL DEF Spec

=============================================================================
