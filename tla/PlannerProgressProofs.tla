----------------------- MODULE PlannerProgressProofs -----------------------
(***************************************************************************)
(* Why planners' commands end: what CommandsEnd owes to the store and the  *)
(* adapter, and not to the fairness of the scheduler.                      *)
(***************************************************************************)
EXTENDS PlannerLoopProofs

\* The measure, apart from the model: a try more, or a malformed answer more
\* and all tries anew, is a step less.
LEMMA RetriesRunOut ==
  ASSUME NEW R \in Nat, NEW F \in Nat, NEW t \in Nat, NEW m \in Nat, t <= R, m <= F
  PROVE  /\ (R - t) + (F - m) * (R + 1) \in Nat
         /\ (R - (t + 1)) + (F - m) * (R + 1) < (R - t) + (F - m) * (R + 1)
         /\ (R - 0) + (F - (m + 1)) * (R + 1) < (R - t) + (F - m) * (R + 1)
  <1>1. (F - m) * (R + 1) \in Nat /\ R - t \in Nat
    OBVIOUS
  <1>2. (F - (m + 1)) * (R + 1) = (F - m) * (R + 1) - (R + 1)
    OBVIOUS
  <1> QED BY <1>1, <1>2

LEMMA WayDown ==
  /\ WayLeft("idle") = 0 /\ WayLeft("asking") = 2 /\ WayLeft("judging") = 2
  /\ \A at \in {"opening", "deciding", "closing", "shutting", "alarming"} : WayLeft(at) = 1
  /\ WayLeft("governed") = 3 /\ WayLeft("surveyed") = 4
  /\ WayLeft("answered") = 5 /\ WayLeft("thinking") = 6
  BY DEF WayLeft

\* A step that takes a command on, and one that makes it try again.
TakesOn(p) ==
  /\ stage[p] # "idle" /\ stage'[p] # "thinking"
  /\ stage'[p] \notin {"reading", "replying", "recharging"}
  /\ WayLeft(stage'[p]) < WayLeft(stage[p])
  /\ stage'[p] \in {"answered", "surveyed", "governed"} => view'[p].says # "nothing"
  /\ stage'[p] = "idle" => view'[p] = NothingHeld
TriesAgain(p) ==
  /\ stage[p] = "thinking" /\ stage'[p] = "thinking"
  /\ \/ /\ view[p].tries + 1 <= MaxRetries
        /\ view'[p].tries = view[p].tries + 1 /\ view'[p].malformed = view[p].malformed
     \/ /\ view[p].malformed + 1 <= MaxFormatRetries
        /\ view'[p].tries = 0 /\ view'[p].malformed = view[p].malformed + 1

LEMMA PlannerStepsProgress ==
  ASSUME TypeOK, NEW p \in Planners, GoesOn(p), PlannerStep(p)
  PROVE  TakesOn(p) \/ TriesAgain(p)
  <1>0. /\ Ends(p) => stage'[p] = "idle" /\ view'[p] = NothingHeld
        /\ \A next : Moves(p, next) => stage'[p] = next
        /\ \A held : Keeps(p, held) => view'[p] = held
        /\ view \in [Planners -> Views] /\ view[p] \in Views
        /\ view[p].tries \in Nat /\ view[p].malformed \in Nat
        /\ MaxRetries \in Nat /\ MaxFormatRetries \in Nat
    BY LimitAssumption DEF Ends, Moves, Keeps, TypeOK, Processes, Views
  <1>1. CASE ProviderRetry(p)
    <2>1. stage[p] = "thinking" /\ stage'[p] = "thinking" /\ view[p].tries < MaxRetries
          /\ view' = [view EXCEPT ![p].tries = @ + 1]
      BY <1>1 DEF ProviderRetry
    <2>2. view'[p].tries = view[p].tries + 1 /\ view'[p].malformed = view[p].malformed
      BY <1>0, <2>1 DEF Views
    <2> QED BY <1>0, <2>1, <2>2 DEF TriesAgain
  <1>2. CASE FormatFailure(p)
    <2>1. CASE view[p].malformed + 1 <= MaxFormatRetries
      <3>1. stage[p] = "thinking" /\ stage'[p] = "thinking"
            /\ view' = [view EXCEPT ![p].malformed = @ + 1, ![p].tries = 0]
        BY <1>2, <2>1 DEF FormatFailure
      <3>2. view'[p].malformed = view[p].malformed + 1 /\ view'[p].tries = 0
        BY <1>0, <3>1 DEF Views
      <3> QED BY <2>1, <3>1, <3>2 DEF TriesAgain
    <2>2. CASE ~(view[p].malformed + 1 <= MaxFormatRetries)
      <3>1. stage[p] = "thinking" /\ stage'[p] = "surveyed"
            /\ view'[p] = [NothingHeld EXCEPT !.says = "garbage"]
        BY <1>0, <1>2, <2>2 DEF FormatFailure
      <3>2. view'[p].says # "nothing"
        BY <3>1 DEF NothingHeld
      <3> QED BY <3>1, <3>2, WayDown DEF TakesOn
    <2> QED BY <2>1, <2>2
  <1>3. CASE ProviderError(p) \/ ProviderBabbles(p)
    <2>1. stage[p] = "thinking" /\ stage'[p] = "idle" /\ view'[p] = NothingHeld
      BY <1>0, <1>3 DEF ProviderError, ProviderBabbles
    <2> QED BY <2>1, WayDown DEF TakesOn
  <1>4. CASE Answer(p)
    <2>1. PICK x \in Proposals \cup {"ask"} :
            stage[p] = "thinking" /\ stage'[p] = "answered"
            /\ view'[p] = [NothingHeld EXCEPT !.says = x]
      BY <1>0, <1>4 DEF Answer
    <2>2. view'[p].says = x /\ x # "nothing"
      BY <2>1, ProposalAssumption DEF NothingHeld
    <2> QED BY <2>1, <2>2, WayDown DEF TakesOn
  <1>5. CASE Survey(p)
    <2>1. stage[p] = "answered" /\ stage'[p] \in {"idle", "surveyed"}
      BY <1>0, <1>5 DEF Survey
    <2>2. ASSUME stage'[p] = "surveyed" PROVE view'[p].says = view[p].says
      <3>1. PICK current \in BOOLEAN, legal \in BOOLEAN :
              view' = [view EXCEPT ![p].current = current, ![p].legal = legal]
        BY <1>0, <1>5, <2>2 DEF Survey
      <3> QED BY <1>0, <3>1 DEF Views
    <2>3. stage'[p] = "idle" => view'[p] = NothingHeld
      BY <1>0, <1>5 DEF Survey
    <2> QED BY <2>1, <2>2, <2>3, WayDown DEF TakesOn, GoesOn
  <1>6. CASE Govern(p)
    <2>1. stage[p] = "surveyed" /\ stage'[p] \in {"idle", "governed"}
      BY <1>0, <1>6 DEF Govern
    <2>2. /\ stage'[p] = "governed" => view'[p].says = view[p].says
          /\ stage'[p] = "idle" => view'[p] = NothingHeld
      BY <1>0, <1>6 DEF Govern, Views
    <2> QED BY <2>1, <2>2, WayDown DEF TakesOn, GoesOn
  <1>7. CASE ScanLedger(p) \/ CountHints(p) \/ ChargeFormatFailure(p)
    <2>1. /\ stage[p] = "governed"
          /\ stage'[p] \in {"alarming", "judging", "asking", "shutting", "idle"}
          /\ stage'[p] = "idle" => view'[p] = NothingHeld
      BY <1>0, <1>7 DEF ScanLedger, CountHints, ChargeFormatFailure
    <2> QED BY <2>1, WayDown DEF TakesOn
  <1>8. CASE RefuseUncharged(p) \/ RefuseCharged(p) \/ Accept(p)
    <2>1. /\ stage[p] = "judging" /\ stage'[p] \in {"closing", "deciding", "idle"}
          /\ stage'[p] = "idle" => view'[p] = NothingHeld
      BY <1>0, <1>8 DEF RefuseUncharged, RefuseCharged, Accept, Resubmitted, Stale, Judged, Proposes
    <2> QED BY <2>1, WayDown DEF TakesOn
  <1>9. CASE Alarm(p) \/ Decide(p) \/ Close(p) \/ Shut(p) \/ OpenLane(p)
    <2>1. /\ stage[p] \in {"opening", "deciding", "closing", "shutting", "alarming"}
          /\ stage'[p] = "idle" /\ view'[p] = NothingHeld
      BY <1>0, <1>9 DEF Alarm, Decide, Close, Shut, OpenLane
    <2> QED BY <2>1, WayDown DEF TakesOn
  <1>10. CASE RefuseAsk(p) \/ GrantAsk(p)
    <2>1. /\ stage[p] = "asking" /\ stage'[p] \in {"idle", "opening"}
          /\ stage'[p] = "idle" => view'[p] = NothingHeld
      BY <1>0, <1>10 DEF RefuseAsk, GrantAsk
    <2> QED BY <2>1, WayDown DEF TakesOn
  <1> QED BY <1>1, <1>2, <1>3, <1>4, <1>5, <1>6, <1>7, <1>8, <1>9, <1>10 DEF PlannerStep

-----------------------------------------------------------------------------
(* What is left.                                                           *)

LEMMA Measure ==
  ASSUME TypeOK, NEW p \in Planners, GoesOn(p)
  PROVE  /\ StepsLeft(p) \in Nat
         /\ stage[p] = "thinking" => StepsLeft(p) >= 6
         /\ stage[p] # "thinking" => StepsLeft(p) = WayLeft(stage[p]) /\ StepsLeft(p) <= 5
         /\ stage[p] # "idle" <=> StepsLeft(p) > 0
  <1>0. /\ view[p].tries \in Nat /\ view[p].malformed \in Nat
        /\ MaxRetries \in Nat /\ MaxFormatRetries \in Nat
        /\ stage[p] \in Stages
    BY LimitAssumption DEF TypeOK, Views, Processes
  <1>1. CASE stage[p] = "thinking"
    <2> DEFINE rest == (MaxRetries - view[p].tries)
                       + (MaxFormatRetries - view[p].malformed) * (MaxRetries + 1)
    <2>1. rest \in Nat
      BY <1>0, <1>1, RetriesRunOut DEF GoesOn
    <2>2. StepsLeft(p) = 6 + rest
      BY <1>0, <1>1, WayDown DEF StepsLeft
    <2> QED BY <1>1, <2>1, <2>2
  <1>2. CASE stage[p] # "thinking"
    <2>1. StepsLeft(p) = WayLeft(stage[p])
      BY <1>2 DEF StepsLeft
    <2>2. WayLeft(stage[p]) \in 0 .. 5 /\ (WayLeft(stage[p]) = 0 <=> stage[p] = "idle")
      BY <1>0, <1>2, WayDown DEF GoesOn, Stages
    <2> QED BY <1>2, <2>1, <2>2
  <1> QED BY <1>1, <1>2

LEMMA MeasureAlways == \A p \in Planners : TypeOK /\ GoesOn(p) => StepsLeft(p) \in Nat
  BY Measure

LEMMA MeasureAfter == (\A p \in Planners : TypeOK /\ GoesOn(p) => StepsLeft(p) \in Nat)'
  BY MeasureAlways, PTL

LEMMA TriesCount ==
  ASSUME TypeOK, TypeOK', NEW p \in Planners, GoesOn(p), TriesAgain(p)
  PROVE  GoesOn(p)' /\ StepsLeft(p)' < StepsLeft(p)
  <1>0. /\ view[p].tries \in Nat /\ view[p].malformed \in Nat
        /\ view'[p].tries \in Nat /\ view'[p].malformed \in Nat
        /\ MaxRetries \in Nat /\ MaxFormatRetries \in Nat
        /\ view[p].tries <= MaxRetries /\ view[p].malformed <= MaxFormatRetries
    BY LimitAssumption DEF TypeOK, Views, TriesAgain, GoesOn
  <1>1. GoesOn(p)'
    BY <1>0 DEF TriesAgain, GoesOn
  <1>2. /\ StepsLeft(p) = 6 + (MaxRetries - view[p].tries)
                            + (MaxFormatRetries - view[p].malformed) * (MaxRetries + 1)
        /\ StepsLeft(p)' = 6 + (MaxRetries - view'[p].tries)
                             + (MaxFormatRetries - view'[p].malformed) * (MaxRetries + 1)
    BY WayDown DEF StepsLeft, TriesAgain
  <1> DEFINE R == MaxRetries
             F == MaxFormatRetries
             t == view[p].tries
             m == view[p].malformed
             more(x, y) == (R - x) + (F - y) * (R + 1)
  <1>3. more(t + 1, m) < more(t, m) /\ more(0, m + 1) < more(t, m) /\ more(t, m) \in Nat
    BY <1>0, RetriesRunOut
  <1>4. \/ view'[p].tries = t + 1 /\ view'[p].malformed = m
        \/ view'[p].tries = 0 /\ view'[p].malformed = m + 1
    BY DEF TriesAgain
  <1>5. StepsLeft(p)' < StepsLeft(p)
    <2>1. CASE view'[p].tries = t + 1 /\ view'[p].malformed = m
      <3>1. StepsLeft(p) = 6 + more(t, m) /\ StepsLeft(p)' = 6 + more(t + 1, m)
        BY <1>0, <1>2, <2>1
      <3> HIDE DEF more, R, F, t, m
      <3>2. more(t + 1, m) \in Int
        BY <1>0 DEF more, R, F, t, m
      <3> QED BY <1>3, <3>1, <3>2
    <2>2. CASE view'[p].tries = 0 /\ view'[p].malformed = m + 1
      <3>1. StepsLeft(p) = 6 + more(t, m) /\ StepsLeft(p)' = 6 + more(0, m + 1)
        BY <1>0, <1>2, <2>2
      <3> HIDE DEF more, R, F, t, m
      <3>2. more(0, m + 1) \in Int
        BY <1>0 DEF more, R, F, t, m
      <3> QED BY <1>3, <3>1, <3>2
    <2> QED BY <1>4, <2>1, <2>2
  <1> QED BY <1>1, <1>5

LEMMA OwnStepsRunDown ==
  ASSUME TypeOK, TypeOK', NEW p \in Planners, GoesOn(p), OwnStep(p)
  PROVE  /\ GoesOn(p)'
         /\ stage[p] # "idle" => StepsLeft(p)' < StepsLeft(p)
         /\ PlannerStep(p) => stage[p] # "idle"
  <1>0. /\ \A next : Moves(p, next) => stage'[p] = next
        /\ \A held : Keeps(p, held) => view'[p] = held
        /\ Ends(p) => stage'[p] = "idle" /\ view'[p] = NothingHeld
        /\ stage'[p] \in Stages
    BY DEF Moves, Keeps, Ends, TypeOK, Processes
  <1>5. PlannerStep(p) => stage[p] # "idle"
    BY PlannerStepsProgress DEF TakesOn, TriesAgain
  <1>1. CASE PlannerStep(p) /\ TriesAgain(p)
    BY <1>1, TriesCount DEF TriesAgain
  <1>2. CASE PlannerStep(p) /\ TakesOn(p)
    <2>1. GoesOn(p)'
      BY <1>2 DEF TakesOn, GoesOn
    <2>2. StepsLeft(p)' = WayLeft(stage'[p])
      BY <1>2 DEF TakesOn, StepsLeft
    <2>3. WayLeft(stage'[p]) \in 0 .. 5
      <3>1. stage'[p] # "thinking" /\ stage'[p] \in Stages
        BY <1>0, <1>2 DEF TakesOn
      <3> QED BY <3>1 DEF WayLeft, Stages
    <2>4. StepsLeft(p)' < StepsLeft(p)
      <3>1. CASE stage[p] = "thinking"
        <4>1. StepsLeft(p) >= 6 /\ StepsLeft(p) \in Nat
          BY <3>1, Measure
        <4> HIDE DEF StepsLeft, WayLeft
        <4>2. StepsLeft(p)' \in 0 .. 5
          BY <2>2, <2>3
        <4> QED BY <4>1, <4>2
      <3>2. CASE stage[p] # "thinking"
        <4>1. StepsLeft(p) = WayLeft(stage[p])
          BY <3>2, Measure
        <4>2. WayLeft(stage'[p]) < WayLeft(stage[p])
          BY <1>2 DEF TakesOn
        <4> QED BY <2>2, <4>1, <4>2
      <3> QED BY <3>1, <3>2
    <2> QED BY <1>2, <2>1, <2>4 DEF TakesOn
  <1>3. CASE Invoke(p) \/ InvokeAlarmed(p) \/ Propose(p)
    <2>1. stage[p] = "idle" /\ view[p] = NothingHeld
      BY <1>3 DEF Invoke, InvokeAlarmed, Propose, GoesOn
    <2>2. CASE Invoke(p)
      <3>1. stage'[p] = "thinking" /\ view'[p] = NothingHeld
        BY <1>0, <2>1, <2>2 DEF Invoke
      <3>2. view'[p].tries = 0 /\ view'[p].malformed = 0
        BY <3>1 DEF NothingHeld
      <3> QED BY <2>1, <2>2, <3>1, <3>2, <1>5, LimitAssumption DEF GoesOn
    <2>3. CASE InvokeAlarmed(p)
      <3>1. stage'[p] = "alarming"
        BY <1>0, <2>3 DEF InvokeAlarmed
      <3> QED BY <2>1, <3>1, <1>5 DEF GoesOn
    <2>4. CASE Propose(p)
      <3>1. PICK x \in Proposals : Keeps(p, [NothingHeld EXCEPT !.says = x])
        BY <2>4 DEF Propose
      <3>2. stage'[p] = "answered" /\ view'[p] = [NothingHeld EXCEPT !.says = x]
        BY <1>0, <2>4, <3>1 DEF Propose
      <3>3. view'[p].says = x /\ x # "nothing"
        BY <3>2, ProposalAssumption DEF NothingHeld
      <3> QED BY <2>1, <3>2, <3>3, <1>5 DEF GoesOn
    <2> QED BY <1>3, <2>2, <2>3, <2>4
  <1>4. CASE Dies(p)
    <2>1. stage[p] # "idle" /\ stage'[p] = "idle" /\ view'[p] = NothingHeld
      BY <1>0, <1>4 DEF Dies
    <2>2. GoesOn(p)' /\ StepsLeft(p)' = 0
      BY <2>1, WayDown DEF GoesOn, StepsLeft
    <2>3. StepsLeft(p) \in Nat /\ StepsLeft(p) > 0
      BY <2>1, Measure
    <2> QED BY <2>1, <2>2, <2>3, <1>5
  <1> QED BY <1>1, <1>2, <1>3, <1>4, PlannerStepsProgress DEF OwnStep

\* What the others do leaves a planner where it stands.
LEMMA OthersWait ==
  ASSUME TypeOK, NEW p \in Planners, GoesOn(p), [Next]_vars, ~OwnStep(p)
  PROVE  /\ GoesOn(p)' /\ StepsLeft(p)' = StepsLeft(p)
         /\ ~PlannerStep(p)
  <1>1. stage'[p] = stage[p] /\ view'[p] = view[p]
    BY OthersStep DEF Undisturbed
  <1>2. GoesOn(p)'
    BY <1>1 DEF GoesOn
  <1>3. StepsLeft(p)' = StepsLeft(p)
    BY <1>1 DEF StepsLeft
  <1> QED BY <1>2, <1>3 DEF OwnStep

-----------------------------------------------------------------------------
(* The theorems.                                                           *)

Progressing == Inv /\ \A p \in Planners : GoesOn(p)

LEMMA ProgressInit == Init => Progressing
  <1>1. Init => Inv
    BY InvInit DEF Inv
  <1>2. ASSUME Init, NEW p \in Planners PROVE GoesOn(p)
    <2>1. stage[p] = "idle" /\ view[p] = NothingHeld
      BY <1>2 DEF Init, Processes
    <2> QED BY <2>1 DEF GoesOn
  <1> QED BY <1>1, <1>2 DEF Progressing

LEMMA ProgressStep ==
  ASSUME Progressing, [Next]_vars
  PROVE  /\ Progressing'
         /\ \A p \in Planners : stage[p] # "idle" =>
              /\ StepsLeft(p)' <= StepsLeft(p)
              /\ PlannerStep(p) => StepsLeft(p)' < StepsLeft(p)
  <1>1. Inv' /\ TypeOK /\ TypeOK'
    BY InvariantStep DEF Progressing, Inv
  <1>2. ASSUME NEW p \in Planners
        PROVE  /\ GoesOn(p)'
               /\ stage[p] # "idle" =>
                    /\ StepsLeft(p)' <= StepsLeft(p)
                    /\ PlannerStep(p) => StepsLeft(p)' < StepsLeft(p)
    <2>1. GoesOn(p)
      BY DEF Progressing
    <2>2. CASE OwnStep(p)
      <3>1. GoesOn(p)' /\ (stage[p] # "idle" => StepsLeft(p)' < StepsLeft(p))
        BY <1>1, <2>1, <2>2, OwnStepsRunDown
      <3>2. StepsLeft(p) \in Nat /\ StepsLeft(p)' \in Nat
        BY <1>1, <2>1, <3>1, Measure, MeasureAfter
      <3> HIDE DEF StepsLeft
      <3> QED BY <3>1, <3>2
    <2>3. CASE ~OwnStep(p)
      <3>1. GoesOn(p)' /\ StepsLeft(p)' = StepsLeft(p) /\ ~PlannerStep(p)
        BY <1>1, <2>1, <2>3, OthersWait
      <3>2. StepsLeft(p) \in Nat
        BY <1>1, <2>1, Measure
      <3> QED BY <3>1, <3>2
    <2> QED BY <2>2, <2>3
  <1> QED BY <1>1, <1>2 DEF Progressing

LEMMA ProgressInvariance == Spec => []Progressing
  <1>1. Progressing /\ [Next]_vars => Progressing'
    BY ProgressStep
  <1> QED BY ProgressInit, <1>1, PTL DEF Spec

\* A planner's command under way is always at a stage somebody goes on from,
\* holding what that stage needs, with its retries within their limits, for
\* any number of retries: a timeout, a malformed answer, an exhausted phase or
\* a founder's reply in between never leaves it behind.
THEOREM CommandsAreNeverStranded == Spec => []NoCommandIsStranded
  <1>1. Progressing => NoCommandIsStranded
    <2> SUFFICES ASSUME Progressing, NEW p \in Planners
                 PROVE  GoesOn(p) /\ (stage[p] # "idle" <=> StepsLeft(p) > 0)
      BY DEF NoCommandIsStranded
    <2>1. TypeOK /\ GoesOn(p)
      BY DEF Progressing, Inv
    <2> QED BY <2>1, Measure
  <1> QED BY <1>1, ProgressInvariance, PTL

\* Each step of a planner's command lowers the number of steps it has left,
\* and no other process raises it: the nested retries cannot go round for
\* ever.  With the scheduler's fairness this is CommandsEnd.
THEOREM CommandsRunOut == Spec => CommandsRunDown
  <1>1. Progressing /\ [Next]_vars =>
          [\A p \in Planners : stage[p] # "idle" =>
             /\ StepsLeft(p)' <= StepsLeft(p)
             /\ PlannerStep(p) => StepsLeft(p)' < StepsLeft(p)]_vars
    BY ProgressStep
  <1> QED BY <1>1, ProgressInvariance, PTL DEF Spec, CommandsRunDown

=============================================================================
