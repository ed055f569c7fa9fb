------------------------ MODULE PlannerSerialProofs ------------------------
(***************************************************************************)
(* Proofs about PlannerLoop when its commands run one after the other: the *)
(* limits that bind each planner under every interleaving then bind all of *)
(* them together.                                                          *)
(***************************************************************************)
EXTENDS PlannerLoopProofs

\* Who takes a step is under way before or after it.
LEMMA SerialStages ==
  ASSUME TypeOK, Next, ~Advance
  PROVE  \E x \in Processes :
           /\ stage[x] # "idle" \/ stage'[x] # "idle"
           /\ x \in Planners => OwnStep(x)
           /\ \A y \in Processes \ {x} : stage'[y] = stage[y]
  <1>0. /\ \A p \in Planners : p \in Processes /\ (Ends(p) => Moves(p, "idle"))
        /\ \A f \in Founders : f \in Processes /\ f \notin Planners /\ (Leaves(f) => Moves(f, "idle"))
        /\ \A x \in Processes : \A next :
             Moves(x, next) => stage'[x] = next /\ \A y \in Processes \ {x} : stage'[y] = stage[y]
    BY ProcessAssumption DEF Processes, Ends, Leaves, Moves, TypeOK
  <1>1. ASSUME NEW p \in Planners, Invoke(p) \/ InvokeAlarmed(p) \/ Propose(p)
        PROVE  /\ stage'[p] # "idle" /\ OwnStep(p)
               /\ \A y \in Processes \ {p} : stage'[y] = stage[y]
    BY <1>0, <1>1 DEF Invoke, InvokeAlarmed, Propose, OwnStep
  <1>2. ASSUME NEW p \in Planners, PlannerStep(p)
        PROVE  /\ stage[p] # "idle" /\ OwnStep(p)
               /\ \A y \in Processes \ {p} : stage'[y] = stage[y]
    <2>1. stage[p] # "idle"
      BY <1>2 DEF PlannerStep, ProviderRetry, ProviderError, ProviderBabbles, FormatFailure,
                  Answer, Survey, Govern, ScanLedger, Alarm, RefuseUncharged, Resubmitted,
                  Stale, Judged, Proposes, RefuseCharged, Accept, Decide, ChargeFormatFailure,
                  Close, Shut, CountHints, RefuseAsk, GrantAsk, OpenLane
    <2>2. stage' = stage \/ \E next : Moves(p, next)
      <3>1. CASE \/ ProviderRetry(p) \/ ProviderError(p) \/ ProviderBabbles(p)
                 \/ FormatFailure(p) \/ Answer(p) \/ Survey(p) \/ Govern(p) \/ ScanLedger(p)
        BY <1>0, <3>1 DEF ProviderRetry, ProviderError, ProviderBabbles, FormatFailure, Answer,
                          Survey, Govern, ScanLedger
      <3>2. CASE \/ Alarm(p) \/ RefuseUncharged(p) \/ RefuseCharged(p) \/ Accept(p) \/ Decide(p)
                 \/ ChargeFormatFailure(p)
        BY <1>0, <3>2 DEF Alarm, RefuseUncharged, RefuseCharged, Accept, Decide,
                          ChargeFormatFailure
      <3>3. CASE \/ Close(p) \/ Shut(p) \/ CountHints(p) \/ RefuseAsk(p) \/ GrantAsk(p)
                 \/ OpenLane(p)
        BY <1>0, <3>3 DEF Close, Shut, CountHints, RefuseAsk, GrantAsk, OpenLane
      <3> QED BY <1>2, <3>1, <3>2, <3>3 DEF PlannerStep
    <2> QED BY <1>0, <1>2, <2>1, <2>2 DEF OwnStep
  <1>3. ASSUME NEW f \in Founders, LookAtLane(f) \/ BeginRecharge(f)
        PROVE  stage'[f] # "idle" /\ \A y \in Processes \ {f} : stage'[y] = stage[y]
    BY <1>0, <1>3 DEF LookAtLane, BeginRecharge
  <1>4. ASSUME NEW f \in Founders, FounderStep(f)
        PROVE  stage[f] # "idle" /\ \A y \in Processes \ {f} : stage'[y] = stage[y]
    BY <1>0, <1>4 DEF FounderStep, LookAtPhase, Hint, Stop, MayAnswer, ReplyRefused, Recharge, Shut
  <1>5. ASSUME NEW x \in Processes, Dies(x)
        PROVE  /\ stage[x] # "idle" /\ (x \in Planners => OwnStep(x))
               /\ \A y \in Processes \ {x} : stage'[y] = stage[y]
    BY <1>0, <1>5 DEF Dies, OwnStep, Processes
  <1> QED BY <1>0, <1>1, <1>2, <1>3, <1>4, <1>5 DEF Next

\* A command under way is disturbed by nothing but the run.
LEMMA SoleCommand ==
  ASSUME TypeOK, Alone, Alone', [Next]_vars, NEW p \in Planners, stage'[p] # "idle"
  PROVE  UNCHANGED vars \/ Advance \/ OwnStep(p)
  <1>1. CASE Next /\ ~Advance
    <2>1. PICK x \in Processes :
             /\ stage[x] # "idle" \/ stage'[x] # "idle"
             /\ x \in Planners => OwnStep(x)
             /\ \A y \in Processes \ {x} : stage'[y] = stage[y]
      BY <1>1, SerialStages
    <2>2. x = p
      BY <2>1 DEF Alone, Processes
    <2> QED BY <2>1, <2>2
  <1> QED BY <1>1

-----------------------------------------------------------------------------
(* What a command holds of the ledger is so.                               *)

Chosen(n) == \E q \in Planners : segments[n].selected[q] > 0
Holds(p) ==
  /\ stage[p] \in {"governed", "judging", "asking"}
       => view[p].used = segments[view[p].phase].used
  /\ stage[p] \in {"governed", "judging"} => (view[p].taken <=> Chosen(view[p].phase))
  /\ stage[p] = "judging" => (view[p].repeated <=> Repeats(p, view[p].phase, view[p].says))

LEMMA HoldsStep ==
  ASSUME TypeOK, Alone, Alone', [Next]_vars, NEW p \in Planners, Holds(p)
  PROVE  Holds(p)'
  <1> SUFFICES ASSUME stage'[p] \in {"governed", "judging", "asking"} PROVE Holds(p)'
    BY DEF Holds
  <1>0. /\ Ends(p) => stage'[p] = "idle"
        /\ \A next : Moves(p, next) => stage'[p] = next
    BY Numbers DEF Ends, Moves
  <1>1. CASE Advance \/ UNCHANGED vars
    <2>1. UNCHANGED <<stage, view, segments, tried>>
      BY <1>1 DEF Advance, vars, ledgerVars
    <2> QED BY <2>1 DEF Holds, Chosen, Repeats
  <1>2. CASE Govern(p)
    <2>1. stage'[p] = "governed" /\ segments' = segments
      BY <1>0, <1>2 DEF Govern, ledgerVars
    <2>2. view'[p].phase = phase /\ view'[p].used = segments[phase].used /\ view'[p].taken = Taken(p)
      BY <1>0, <1>2, <2>1, Numbers DEF Govern, Views
    <2> QED BY <2>1, <2>2 DEF Holds, Chosen, Taken
  <1>3. CASE ScanLedger(p)
    <2>1. stage'[p] = "judging" /\ stage[p] = "governed" /\ UNCHANGED <<segments, tried>>
      BY <1>0, <1>3 DEF ScanLedger, ledgerVars
    <2>2. /\ view'[p].phase = view[p].phase /\ view'[p].used = view[p].used
          /\ view'[p].taken = view[p].taken /\ view'[p].says = view[p].says
          /\ view'[p].repeated = Repeats(p, view[p].phase, view[p].says)
      BY <1>0, <1>3, <2>1, Numbers DEF ScanLedger, Views
    <2>3. Repeats(p, view[p].phase, view[p].says)' <=> Repeats(p, view[p].phase, view[p].says)
      BY <2>1, <2>2 DEF Repeats
    <2> QED BY <2>1, <2>2, <2>3 DEF Holds, Chosen
  <1>4. CASE CountHints(p)
    <2>1. stage'[p] = "asking" /\ stage[p] = "governed" /\ UNCHANGED <<segments, view>>
      BY <1>0, <1>4 DEF CountHints, ledgerVars
    <2> QED BY <2>1 DEF Holds
  <1>5. CASE \/ Invoke(p) \/ InvokeAlarmed(p) \/ Propose(p) \/ ProviderRetry(p) \/ ProviderError(p)
             \/ ProviderBabbles(p) \/ FormatFailure(p) \/ Answer(p) \/ Survey(p) \/ Alarm(p)
             \/ Dies(p)
    BY <1>0, <1>5 DEF Invoke, InvokeAlarmed, Propose, ProviderRetry, ProviderError,
                      ProviderBabbles, FormatFailure, Answer, Survey, Alarm, Dies
  <1>6. CASE \/ RefuseUncharged(p) \/ RefuseCharged(p) \/ Accept(p) \/ Decide(p)
             \/ ChargeFormatFailure(p) \/ Close(p) \/ Shut(p) \/ RefuseAsk(p) \/ GrantAsk(p)
             \/ OpenLane(p)
    BY <1>0, <1>6 DEF RefuseUncharged, RefuseCharged, Accept, Decide, ChargeFormatFailure,
                      Close, Shut, RefuseAsk, GrantAsk, OpenLane
  <1>7. UNCHANGED vars \/ Advance \/ OwnStep(p)
    BY SoleCommand
  <1> QED BY <1>1, <1>2, <1>3, <1>4, <1>5, <1>6, <1>7 DEF OwnStep, PlannerStep

HoldsAll == \A p \in Planners : Holds(p)
SerialInv == Inv /\ Alone /\ HoldsAll

LEMMA SerialInit == Init => SerialInv
  <1>1. Init => Alone
    BY DEF Init, Alone
  <1>2. Init => HoldsAll
    BY DEF Init, HoldsAll, Holds, Processes
  <1> QED BY <1>1, <1>2, InvInit DEF SerialInv, Inv

LEMMA SerialStep == SerialInv /\ [SerialNext]_vars => SerialInv' /\ [Next]_vars
  <1> SUFFICES ASSUME SerialInv, [SerialNext]_vars PROVE SerialInv' /\ [Next]_vars
    OBVIOUS
  <1>1. [Next]_vars
    BY DEF SerialNext
  <1>2. Alone'
    BY DEF SerialNext, SerialInv, Alone, vars
  <1> QED BY <1>1, <1>2, InvariantStep, HoldsStep DEF SerialInv, Inv, HoldsAll

-----------------------------------------------------------------------------
(* Proposals.                                                              *)

\* An accepted proposal is the first of its segment and the first with its
\* intent.
LEMMA AcceptanceIsFirst ==
  ASSUME SerialInv, [Next]_vars, NEW p \in Planners, NEW n \in Phases,
         segments'[n].selected[p] > segments[n].selected[p]
  PROVE  /\ stage[p] = "judging" /\ ~Chosen(n)
         /\ \A q \in Planners : <<q, IntentOf[Proposed(p)]>> \notin tried[n]
  <1>1. TypeOK /\ Holds(p)
    BY DEF SerialInv, Inv, HoldsAll
  <1>2. Accept(p) /\ n = view[p].phase
    BY <1>1, SelectionIsAcceptance
  <1>3. stage[p] = "judging" /\ ~view[p].taken /\ ~view[p].repeated
    BY <1>2 DEF Accept, Judged, Proposes, Duplicate
  <1> QED BY <1>1, <1>2, <1>3 DEF Holds, Repeats, Proposed

LEMMA SelectionStep == SerialInv /\ SelectionIsShared /\ [Next]_vars => SelectionIsShared'
  <1> SUFFICES ASSUME SerialInv, SelectionIsShared, [Next]_vars,
                      NEW n \in Phases, NEW p \in Planners, NEW q \in Planners,
                      segments'[n].selected[p] > 0, segments'[n].selected[q] > 0
               PROVE  p = q
    BY DEF SelectionIsShared
  <1>1. /\ segments[n].selected[p] \in Nat /\ segments[n].selected[q] \in Nat
        /\ segments'[n].selected[p] \in Nat /\ segments'[n].selected[q] \in Nat
    <2>1. TypeOK /\ TypeOK'
      BY InvariantStep DEF SerialInv, Inv
    <2>2. \A s \in Segments, x \in Planners : s.selected[x] \in Nat
      BY DEF Segments
    <2> QED BY <2>1, <2>2 DEF TypeOK
  <1>2. CASE segments'[n].selected[p] > segments[n].selected[p]
    <2>1. stage[p] = "judging" /\ ~Chosen(n)
      BY <1>2, AcceptanceIsFirst
    <2>2. segments'[n].selected[q] > segments[n].selected[q]
      BY <1>1, <2>1 DEF Chosen
    <2>3. stage[q] = "judging"
      BY <2>2, AcceptanceIsFirst
    <2> QED BY <2>1, <2>3 DEF SerialInv, Alone, Processes
  <1>3. CASE segments'[n].selected[q] > segments[n].selected[q]
    <2>1. stage[q] = "judging" /\ ~Chosen(n)
      BY <1>3, AcceptanceIsFirst
    <2>2. segments'[n].selected[p] > segments[n].selected[p]
      BY <1>1, <2>1 DEF Chosen
    <2> QED BY <1>2, <2>2
  <1>4. CASE /\ ~(segments'[n].selected[p] > segments[n].selected[p])
             /\ ~(segments'[n].selected[q] > segments[n].selected[q])
    <2>1. segments[n].selected[p] > 0 /\ segments[n].selected[q] > 0
      BY <1>1, <1>4
    <2> QED BY <2>1 DEF SelectionIsShared
  <1> QED BY <1>2, <1>3, <1>4

\* Of commands that run one after the other one proposal is accepted in a
\* segment of a phase, whichever planner it came from.
THEOREM SerialSelectionIsUnique == SerialSpec => []SelectionIsShared
  <1>1. Init => SelectionIsShared
    BY DEF Init, SelectionIsShared, NewSegment
  <1> QED BY <1>1, SerialInit, SerialStep, SelectionStep, PTL DEF SerialSpec

\* And an intent that any planner has tried in a phase is not accepted there
\* from another.
THEOREM SerialIntentsAreJudgedOnce == SerialSpec => IntentsAreShared
  <1>1. SerialInv /\ [Next]_vars =>
          [\A p \in Planners, n \in Phases :
             segments'[n].selected[p] > segments[n].selected[p]
               => \A q \in Planners : <<q, IntentOf[Proposed(p)]>> \notin tried[n]]_vars
    BY AcceptanceIsFirst
  <1> QED BY <1>1, SerialInit, SerialStep, PTL DEF SerialSpec, IntentsAreShared

-----------------------------------------------------------------------------
(* Requests for help.  No two planners ever hold the same snapshot, so that *)
(* none is refused for words another has used about it.                    *)

UnsharedBy(p) == view[p].asked = FALSE /\ same[p] \subseteq {p} /\ (fresh[p] => stage[p] # "idle")
Unshared == (\A n \in Phases : asked[n] = {}) /\ \A p \in Planners : UnsharedBy(p)

LEMMA UnsharedInit == Init => Unshared
  BY DEF Init, Unshared, UnsharedBy, NothingHeld

\* A snapshot that is read is fresh to nobody else.
LEMMA HashIsOwn ==
  ASSUME TypeOK, Unshared, Alone', NEW p \in Planners, HoldsHash(p),
         stage'[p] # "idle", \A q \in Planners \ {p} : stage'[q] = stage[q]
  PROVE  /\ asked' = asked
         /\ same' = [q \in Planners |-> IF q = p THEN {p} ELSE same[q]]
         /\ \A q \in Planners : fresh'[q] => q = p
  <1>1. {q \in Planners : fresh[q]} \cup {p} = {p}
    BY DEF Unshared, UnsharedBy, Alone, Processes
  <1>2. asked' = asked /\ same' = [q \in Planners |-> IF q = p THEN {p} ELSE same[q]]
    BY <1>1 DEF HoldsHash
  <1>3. \A q \in Planners : fresh'[q] => q = p
    BY <1>1 DEF HoldsHash, TypeOK
  <1> QED BY <1>2, <1>3

LEMMA KeepsUnasked ==
  ASSUME TypeOK, NEW p \in Planners, NEW held, Keeps(p, held), held.asked = FALSE
  PROVE  view'[p].asked = FALSE /\ \A q \in Planners \ {p} : view'[q] = view[q]
  BY DEF TypeOK, Keeps

LEMMA SurveyedAsked ==
  ASSUME TypeOK, NEW p \in Planners, NEW c, NEW l,
         view' = [view EXCEPT ![p].current = c, ![p].legal = l]
  PROVE  view'[p].asked = view[p].asked
  <1>1. view[p] \in Views
    BY DEF TypeOK
  <1> QED BY <1>1 DEF Views, TypeOK

LEMMA GovernedAsked ==
  ASSUME TypeOK, NEW p \in Planners, NEW n, NEW u, NEW t, NEW a, NEW k,
         view' = [view EXCEPT ![p].phase = n, ![p].used = u, ![p].taken = t, ![p].asked = a,
                              ![p].sent = k]
  PROVE  view'[p].asked = a
  <1>1. view[p] \in Views
    BY DEF TypeOK
  <1> QED BY <1>1 DEF Views, TypeOK

LEMMA HeldUnasked ==
  /\ NothingHeld.asked = FALSE
  /\ \A x : [NothingHeld EXCEPT !.says = x].asked = FALSE
  /\ \A n : [NothingHeld EXCEPT !.phase = n].asked = FALSE
  BY DEF NothingHeld

LEMMA UnsharedStep ==
  ASSUME TypeOK, Alone, Alone', Unshared, [Next]_vars
  PROVE  Unshared'
  <1> USE DEF Processes
  \* What a step may do.
  <1>1. ASSUME \A n \in Phases : asked'[n] \subseteq asked[n],
               \A q \in Planners : same'[q] \subseteq same[q],
               \A q \in Planners : view'[q].asked = FALSE,
               \A q \in Planners : fresh'[q] => fresh[q] /\ stage'[q] # "idle"
        PROVE  Unshared'
    BY <1>1 DEF Unshared, UnsharedBy
  <1>2. /\ \A q \in Planners : view[q] \in Views /\ view[q].asked = FALSE
        /\ \A x \in Processes : \A next :
             Moves(x, next) => stage'[x] = next /\ \A y \in Processes \ {x} : stage'[y] = stage[y]
        /\ \A p \in Planners : \A held :
             Keeps(p, held) => view'[p] = held /\ \A q \in Planners \ {p} : view'[q] = view[q]
        /\ Recorded \/ Loudly => \A q \in Planners : ~fresh'[q]
        /\ \A p \in Planners : Quietly(p) =>
             \A q \in Planners : fresh'[q] => fresh[q] /\ q # p
        /\ \A q \in Planners : fresh[q] => stage[q] # "idle"
    BY DEF TypeOK, Unshared, UnsharedBy, Moves, Keeps, Recorded, Loudly, Quietly
  <1>3. /\ NothingHeld \in Views /\ NothingHeld.asked = FALSE
        /\ \A x \in Says : [NothingHeld EXCEPT !.says = x].asked = FALSE
        /\ \A n \in Phases : [NothingHeld EXCEPT !.phase = n].asked = FALSE
    BY HeldTypes DEF NothingHeld
  <1>4. ASSUME NEW p \in Planners, Ends(p)
        PROVE  /\ \A n \in Phases : asked'[n] \subseteq asked[n]
               /\ \A q \in Planners : same'[q] \subseteq same[q]
               /\ \A q \in Planners : view'[q].asked = FALSE
               /\ stage'[p] = "idle" /\ \A y \in Processes \ {p} : stage'[y] = stage[y]
    BY <1>2, <1>3, <1>4 DEF Ends
  <1>5. ASSUME NEW p \in Planners, Ends(p), Quietly(p) \/ Loudly PROVE Unshared'
    <2>1. \A q \in Planners : fresh'[q] => fresh[q] /\ q # p
      BY <1>2, <1>5
    <2>2. \A q \in Planners : fresh'[q] => fresh[q] /\ stage'[q] # "idle"
      BY <1>2, <1>4, <1>5, <2>1
    <2> QED BY <1>1, <1>4, <1>5, <2>2
  <1>6. ASSUME NEW p \in Planners, NEW next \in Stages \ {"idle"}, Moves(p, next),
               UNCHANGED hashVars \/ Recorded,
               view'[p].asked = FALSE, \A q \in Planners \ {p} : view'[q] = view[q]
        PROVE  Unshared'
    <2>1. \A q \in Planners : view'[q].asked = FALSE
      BY <1>2, <1>6
    <2>2. /\ stage'[p] # "idle" /\ \A y \in Processes \ {p} : stage'[y] = stage[y]
      BY <1>2, <1>6
    <2>3. \A q \in Planners : fresh'[q] => fresh[q] /\ stage'[q] # "idle"
      BY <1>2, <1>6, <2>2 DEF hashVars, Recorded
    <2>4. asked' = asked /\ same' = same
      BY <1>6 DEF hashVars, Recorded
    <2> QED BY <1>1, <2>1, <2>3, <2>4
  <1>7. ASSUME NEW p \in Planners, NEW next \in Stages \ {"idle"}, Moves(p, next), HoldsHash(p),
               view'[p].asked = FALSE, \A q \in Planners \ {p} : view'[q] = view[q]
        PROVE  Unshared'
    <2>1. /\ asked' = asked
          /\ same' = [q \in Planners |-> IF q = p THEN {p} ELSE same[q]]
          /\ \A q \in Planners : fresh'[q] => q = p
      BY <1>2, <1>7, HashIsOwn
    <2>2. \A q \in Planners : view'[q].asked = FALSE
      BY <1>2, <1>7
    <2>3. stage'[p] # "idle"
      BY <1>2, <1>7
    <2>4. \A q \in Planners : same'[q] \subseteq {q}
      BY <2>1 DEF Unshared, UnsharedBy
    <2> QED BY <2>1, <2>2, <2>3, <2>4 DEF Unshared, UnsharedBy
  <1>8. ASSUME UNCHANGED <<stage, view, same, asked>>, UNCHANGED fresh \/ Loudly PROVE Unshared'
    BY <1>1, <1>2, <1>8
  <1>9. {"thinking", "answered", "surveyed", "governed", "judging", "asking", "opening", "deciding",
         "closing", "shutting", "alarming"} \subseteq Stages \ {"idle"}
    BY DEF Stages
  <1>10. ASSUME NEW p \in Planners, Invoke(p) \/ InvokeAlarmed(p) PROVE Unshared'
    <2>1. view'[p].asked = FALSE /\ \A q \in Planners \ {p} : view'[q] = view[q]
      <3>1. view' = view
        BY <1>10 DEF Invoke, InvokeAlarmed
      <3> QED BY <1>2, <3>1
    <2>2. CASE Invoke(p)
      <3>1. Moves(p, "thinking") /\ HoldsHash(p)
        BY <2>2 DEF Invoke
      <3> QED BY <1>7, <1>9, <2>1, <3>1
    <2>3. CASE InvokeAlarmed(p)
      <3>1. Moves(p, "alarming") /\ UNCHANGED hashVars
        BY <2>3 DEF InvokeAlarmed
      <3> QED BY <1>6, <1>9, <2>1, <3>1
    <2> QED BY <1>10, <2>2, <2>3
  <1>11. ASSUME NEW p \in Planners, Propose(p) PROVE Unshared'
    <2>1. PICK x \in Says : Keeps(p, [NothingHeld EXCEPT !.says = x])
      BY <1>11 DEF Propose, Says
    <2>2. [NothingHeld EXCEPT !.says = x].asked = FALSE
      BY HeldUnasked
    <2>3. view'[p].asked = FALSE /\ \A q \in Planners \ {p} : view'[q] = view[q]
      BY <2>1, <2>2, KeepsUnasked
    <2> QED BY <1>6, <1>7, <1>9, <1>11, <2>3 DEF Propose
  <1>12. ASSUME NEW p \in Planners,
                ProviderError(p) \/ ProviderBabbles(p) \/ Alarm(p) \/ RefuseUncharged(p)
                \/ Decide(p) \/ Close(p) \/ OpenLane(p) \/ RefuseAsk(p)
         PROVE  Unshared'
    BY <1>5, <1>12 DEF ProviderError, ProviderBabbles, Alarm, RefuseUncharged, Decide, Close,
                       OpenLane, RefuseAsk
  <1>13. ASSUME NEW p \in Planners, ProviderRetry(p) \/ FormatFailure(p) PROVE Unshared'
    <2>1. CASE /\ stage' = stage /\ UNCHANGED hashVars
               /\ \A q \in Planners : view'[q].asked = view[q].asked
      <3>1. \A q \in Planners : view'[q].asked = FALSE
        BY <1>2, <2>1
      <3> QED BY <1>1, <1>2, <2>1, <3>1 DEF hashVars
    <2>2. CASE ProviderRetry(p)
      <3>1. view' = [view EXCEPT ![p] = [view[p] EXCEPT !.tries = @ + 1]]
        BY <2>2 DEF ProviderRetry
      <3>2. \A q \in Planners : view'[q].asked = view[q].asked
        BY <1>2, <3>1 DEF Views, TypeOK
      <3> QED BY <2>1, <2>2, <3>2 DEF ProviderRetry
    <2>3. CASE FormatFailure(p) /\ view[p].malformed + 1 <= MaxFormatRetries
      <3>1. view'[p].asked = view[p].asked
        BY <1>2, <2>3, Numbers DEF FormatFailure, Views
      <3>2. \A q \in Planners \ {p} : view'[q] = view[q]
        BY <2>3 DEF FormatFailure, TypeOK
      <3> QED BY <2>1, <2>3, <3>1, <3>2 DEF FormatFailure
    <2>4. CASE FormatFailure(p) /\ ~(view[p].malformed + 1 <= MaxFormatRetries)
      <3>1. /\ Moves(p, "surveyed") /\ Recorded
            /\ Keeps(p, [NothingHeld EXCEPT !.says = "garbage"])
        BY <2>4 DEF FormatFailure
      <3>2. view'[p].asked = FALSE /\ \A q \in Planners \ {p} : view'[q] = view[q]
        BY <3>1, HeldUnasked, KeepsUnasked
      <3> QED BY <1>6, <1>9, <3>1, <3>2
    <2> QED BY <1>13, <2>2, <2>3, <2>4
  <1>14. ASSUME NEW p \in Planners, Answer(p) PROVE Unshared'
    <2>1. PICK x \in Says : Keeps(p, [NothingHeld EXCEPT !.says = x])
      BY <1>14 DEF Answer, Says
    <2>2. [NothingHeld EXCEPT !.says = x].asked = FALSE
      BY HeldUnasked
    <2>3. view'[p].asked = FALSE /\ \A q \in Planners \ {p} : view'[q] = view[q]
      BY <2>1, <2>2, KeepsUnasked
    <2> QED BY <1>6, <1>9, <1>14, <2>3 DEF Answer
  <1>15. ASSUME NEW p \in Planners, Survey(p) \/ Govern(p) \/ ScanLedger(p) PROVE Unshared'
    <2>1. CASE Ends(p) /\ Quietly(p)
      BY <1>5, <2>1
    <2>2. CASE Survey(p) /\ ~(Ends(p) /\ Quietly(p))
      <3>1. Moves(p, "surveyed") /\ UNCHANGED hashVars
        BY <2>2 DEF Survey
      <3>2. view'[p].asked = view[p].asked
        <4>1. lane = <<>> /\ ~(view[p].says # "ask" /\ run.patch = "pending")
          BY <2>2 DEF Survey
        <4>2. PICK c, l : view' = [view EXCEPT ![p].current = c, ![p].legal = l]
          BY <2>2, <4>1 DEF Survey
        <4> QED BY <4>2, SurveyedAsked
      <3>3. \A q \in Planners \ {p} : view'[q] = view[q]
        BY <2>2 DEF Survey, TypeOK
      <3> QED BY <1>2, <1>6, <1>9, <3>1, <3>2, <3>3
    <2>3. CASE Govern(p) /\ ~(Ends(p) /\ Quietly(p))
      <3>1. Moves(p, "governed") /\ UNCHANGED hashVars
        BY <2>3 DEF Govern
      <3>2. p \notin asked[phase]
        BY DEF Unshared, TypeOK
      <3>3. view'[p].asked = FALSE
        <4>1. stage'[p] = "governed"
          BY <1>2, <3>1
        <4>2. view' = [view EXCEPT ![p].phase = phase, ![p].used = segments[phase].used,
                                   ![p].taken = Taken(p), ![p].asked = p \in asked[phase],
                                   ![p].sent = view[p].says \in Proposals
                                               /\ KeyOf[view[p].says] \in segments[phase].keys]
          BY <2>3, Zenon DEF Govern
        <4>3. (p \in asked[phase]) = FALSE
          BY <3>2
        <4>4. PICK n, u, t, k :
                view' = [view EXCEPT ![p].phase = n, ![p].used = u, ![p].taken = t,
                                     ![p].asked = FALSE, ![p].sent = k]
          BY <4>2, <4>3, Zenon
        <4> QED BY <4>4, GovernedAsked
      <3>4. \A q \in Planners \ {p} : view'[q] = view[q]
        BY <2>3 DEF Govern, TypeOK
      <3> QED BY <1>6, <1>9, <3>1, <3>3, <3>4
    <2>4. CASE ScanLedger(p) /\ RepeatedFailure
      <3>1. Moves(p, "alarming") /\ Keeps(p, NothingHeld) /\ UNCHANGED hashVars
        BY <2>4 DEF ScanLedger
      <3>2. view'[p].asked = FALSE /\ \A q \in Planners \ {p} : view'[q] = view[q]
        BY <3>1, HeldUnasked, KeepsUnasked
      <3> QED BY <1>6, <1>9, <3>1, <3>2
    <2>5. CASE ScanLedger(p) /\ ~RepeatedFailure
      <3>1. Moves(p, "judging") /\ UNCHANGED hashVars
        BY <2>5 DEF ScanLedger
      <3>2. view'[p].asked = view[p].asked
        BY <2>5, Numbers DEF ScanLedger, Views
      <3>3. \A q \in Planners \ {p} : view'[q] = view[q]
        BY <2>5 DEF ScanLedger, TypeOK
      <3> QED BY <1>2, <1>6, <1>9, <3>1, <3>2, <3>3
    <2> QED BY <1>15, <2>1, <2>2, <2>3, <2>4, <2>5
  <1>16. ASSUME NEW p \in Planners, RefuseCharged(p) \/ ChargeFormatFailure(p) \/ Accept(p)
         PROVE  Unshared'
    <2>1. view[p].phase \in Phases
      BY Numbers
    <2>2. CASE Ends(p) /\ Loudly
      BY <1>5, <2>2
    <2>3. CASE /\ Moves(p, "closing") /\ Recorded
               /\ Keeps(p, [NothingHeld EXCEPT !.phase = view[p].phase])
      <3>1. view'[p].asked = FALSE /\ \A q \in Planners \ {p} : view'[q] = view[q]
        BY <2>3, HeldUnasked, KeepsUnasked
      <3> QED BY <1>6, <1>9, <2>3, <3>1
    <2>4. CASE (Moves(p, "shutting") \/ Moves(p, "deciding")) /\ Recorded /\ Keeps(p, NothingHeld)
      <3>1. view'[p].asked = FALSE /\ \A q \in Planners \ {p} : view'[q] = view[q]
        BY <1>2, <1>3, <2>4
      <3> QED BY <1>6, <1>9, <2>4, <3>1
    <2> QED BY <1>16, <2>2, <2>3, <2>4 DEF RefuseCharged, ChargeFormatFailure, Accept
  <1>17. ASSUME NEW p \in Planners, CountHints(p) PROVE Unshared'
    <2>1. view'[p].asked = FALSE /\ \A q \in Planners \ {p} : view'[q] = view[q]
      BY <1>2, <1>3, <1>17 DEF CountHints
    <2> QED BY <1>6, <1>9, <1>17, <2>1 DEF CountHints
  <1>18. ASSUME NEW p \in Planners, GrantAsk(p) PROVE Unshared'
    <2>1. same[p] \ {p} = {}
      BY DEF Unshared, UnsharedBy
    <2>2. \A n \in Phases : asked'[n] \subseteq asked[n]
      BY <1>18, <2>1 DEF GrantAsk, TypeOK
    <2>3. /\ \A q \in Planners : view'[q].asked = FALSE
          /\ same' = same /\ \A q \in Planners : ~fresh'[q]
      BY <1>2, <1>3, <1>18 DEF GrantAsk
    <2> QED BY <1>1, <2>2, <2>3
  <1>19. ASSUME NEW x \in Processes, Shut(x) \/ Dies(x) PROVE Unshared'
    <2>1. CASE x \in Planners
      <3>1. Ends(x) /\ (Quietly(x) \/ Loudly)
        BY <1>19, <2>1 DEF Shut, Dies
      <3> QED BY <1>5, <2>1, <3>1
    <2>2. CASE x \notin Planners
      <3>1. Leaves(x) /\ UNCHANGED <<view, same, asked>> /\ (UNCHANGED fresh \/ Loudly)
        BY <1>19, <2>2 DEF Shut, Dies, hashVars
      <3>2. \A q \in Planners : stage'[q] = stage[q]
        BY <1>2, <2>2, <3>1 DEF Leaves
      <3> QED BY <1>1, <1>2, <3>1, <3>2
    <2> QED BY <2>1, <2>2
  <1>20. ASSUME NEW f \in Founders,
                LookAtLane(f) \/ BeginRecharge(f) \/ LookAtPhase(f) \/ Hint(f) \/ Stop(f)
                \/ ReplyRefused(f)
         PROVE  Unshared'
    <2>1. UNCHANGED <<view, same, asked>> /\ (UNCHANGED fresh \/ Loudly)
      BY <1>20 DEF LookAtLane, BeginRecharge, LookAtPhase, Hint, Stop, ReplyRefused, hashVars
    <2>2. \A q \in Planners : stage'[q] = stage[q]
      BY <1>2, <1>20, ProcessAssumption
         DEF LookAtLane, BeginRecharge, LookAtPhase, Hint, Stop, ReplyRefused, Leaves
    <2> QED BY <1>1, <1>2, <2>1, <2>2
  <1>21. ASSUME NEW f \in Founders, Recharge(f) PROVE Unshared'
    <2>1. /\ UNCHANGED <<view, same>> /\ \A q \in Planners : ~fresh'[q]
          /\ \A n \in Phases : asked'[n] \subseteq asked[n]
      BY <1>2, <1>21 DEF Recharge, TypeOK
    <2>2. \A q \in Planners : view'[q].asked = FALSE
      BY <1>2, <2>1
    <2>3. \A q \in Planners : same'[q] \subseteq same[q]
      BY <2>1
    <2> QED BY <1>1, <2>1, <2>2, <2>3
  <1>22. CASE Advance \/ UNCHANGED vars
    BY <1>8, <1>22 DEF Advance, vars, hashVars
  <1> QED BY <1>10, <1>11, <1>12, <1>13, <1>14, <1>15, <1>16, <1>17, <1>18, <1>19, <1>20, <1>21,
             <1>22
          DEF Next, PlannerStep, FounderStep

-----------------------------------------------------------------------------
(* The budget of a phase.                                                  *)

\* The command that will close the run's phase is under way.
Closes(x) ==
  \/ stage[x] = "shutting"
  \/ x \in Planners /\ stage[x] = "closing" /\ view[x].phase = phase

\* A phase whose budget is spent is closed or about to be.
Metered ==
  /\ \A n \in Phases : segments[n].used <= Limit
  /\ \/ segments[phase].used < Limit \/ segments[phase].exhausted
     \/ \E x \in Processes : Closes(x)

\* Nothing has been charged to the phases to come.
Beyond == \A n \in Phases : n > phase => segments[n] = NewSegment

\* A command that may be charged found a unit left; so did the invocation that
\* turns out malformed.
LetThrough(p) ==
  /\ stage[p] = "thinking" \/ (stage[p] = "surveyed" /\ view[p].says = "garbage")
       => segments[phase].exhausted = FALSE
  /\ stage[p] \in {"governed", "judging", "asking"} => view[p].used < Limit

BudgetInv ==
  SerialInv /\ Unshared /\ Beyond /\ Metered /\ \A p \in Planners : LetThrough(p)

\* The transactions that write attempts.
LEMMA SegmentWrites ==
  ASSUME [Next]_vars
  PROVE  \/ segments' = segments
         \/ \E p \in Planners : \/ RefuseUncharged(p) \/ Accept(p) \/ RefuseCharged(p)
                                \/ ChargeFormatFailure(p) \/ Close(p) \/ RefuseAsk(p)
         \/ \E x \in Processes : Shut(x)
         \/ \E f \in Founders : Recharge(f)
  <1>1. ASSUME NEW p \in Planners,
               \/ Invoke(p) \/ InvokeAlarmed(p) \/ Propose(p) \/ ProviderRetry(p)
               \/ ProviderError(p) \/ ProviderBabbles(p) \/ FormatFailure(p) \/ Answer(p)
               \/ Survey(p) \/ Govern(p) \/ ScanLedger(p) \/ Alarm(p) \/ Decide(p)
               \/ CountHints(p) \/ GrantAsk(p) \/ OpenLane(p)
        PROVE  segments' = segments
    BY <1>1 DEF Invoke, InvokeAlarmed, Propose, ProviderRetry, ProviderError, ProviderBabbles,
                FormatFailure, Answer, Survey, Govern, ScanLedger, Alarm, Decide, CountHints,
                GrantAsk, OpenLane, ledgerVars
  <1>2. ASSUME NEW f \in Founders,
               \/ LookAtLane(f) \/ BeginRecharge(f) \/ LookAtPhase(f) \/ Hint(f) \/ Stop(f)
               \/ ReplyRefused(f)
        PROVE  segments' = segments
    BY <1>2 DEF LookAtLane, BeginRecharge, LookAtPhase, Hint, Stop, ReplyRefused, ledgerVars
  <1>3. ASSUME NEW x \in Processes, Dies(x) PROVE segments' = segments
    BY <1>3 DEF Dies, ledgerVars
  <1>4. CASE Advance \/ UNCHANGED vars
    BY <1>4 DEF Advance, vars, ledgerVars
  <1> QED BY <1>1, <1>2, <1>3, <1>4 DEF Next, PlannerStep, FounderStep, Processes

\* What they leave alone.
LEMMA JudgedWrites ==
  ASSUME TypeOK, NEW n \in Phases, NEW p, NEW keys
  PROVE  /\ WithSelected(segments[n], p, keys).used = segments[n].used
         /\ WithSelected(segments[n], p, keys).exhausted = segments[n].exhausted
         /\ WithWrong(segments[n], p, keys).used = segments[n].used + 1
  <1>1. segments[n] \in Segments
    BY DEF TypeOK
  <1> QED BY <1>1 DEF Segments, WithSelected, WithWrong

LEMMA MildWrites ==
  ASSUME TypeOK, NEW n \in Phases, NEW keys
  PROVE  /\ [segments[n] EXCEPT !.keys = keys].used = segments[n].used
         /\ [segments[n] EXCEPT !.keys = keys].exhausted = segments[n].exhausted
         /\ [segments[n] EXCEPT !.exhausted = TRUE].used = segments[n].used
         /\ [segments[n] EXCEPT !.exhausted = TRUE].exhausted
  <1>1. segments[n] \in Segments
    BY DEF TypeOK
  <1> QED BY <1>1 DEF Segments

\* The run's phase moves on with the run, and deaths are counted.
LEMMA PhaseStep ==
  ASSUME TypeOK, [Next]_vars
  PROVE  /\ \/ UNCHANGED <<run, phase>>
            \/ /\ Advance /\ phase' = phase + 1
               /\ UNCHANGED <<segments, stage, view, deaths>>
         /\ \/ deaths' = deaths
            \/ deaths' = deaths + 1 /\ \E x \in Processes : Dies(x)
  <1>1. ASSUME NEW p \in Planners, Invoke(p) \/ InvokeAlarmed(p) \/ Propose(p) \/ PlannerStep(p)
        PROVE  UNCHANGED <<run, phase, deaths>>
    BY <1>1 DEF Invoke, InvokeAlarmed, Propose, PlannerStep, ProviderRetry, ProviderError,
                ProviderBabbles, FormatFailure, Answer, Survey, Govern, ScanLedger, Alarm,
                RefuseUncharged, RefuseCharged, Accept, Decide, ChargeFormatFailure, Close, Shut,
                CountHints, RefuseAsk, GrantAsk, OpenLane
  <1>2. ASSUME NEW f \in Founders, LookAtLane(f) \/ BeginRecharge(f) \/ FounderStep(f)
        PROVE  UNCHANGED <<run, phase, deaths>>
    BY <1>2 DEF LookAtLane, BeginRecharge, FounderStep, LookAtPhase, Hint, Stop, ReplyRefused,
                Recharge, Shut
  <1>3. ASSUME NEW x \in Processes, Dies(x)
        PROVE  UNCHANGED <<run, phase>> /\ deaths' = deaths + 1
    BY <1>3 DEF Dies
  <1>4. CASE UNCHANGED vars
    BY <1>4 DEF vars
  <1>5. CASE Advance
    BY <1>5 DEF Advance, ledgerVars
  <1> QED BY <1>1, <1>2, <1>3, <1>4, <1>5 DEF Next

LEMMA BeyondStep ==
  ASSUME Inv, Unshared, Beyond, [Next]_vars
  PROVE  Beyond' /\ phase' >= phase
  <1>0. /\ TypeOK /\ \A p \in Planners : view[p].phase <= phase
        /\ phase \in Nat /\ phase' >= phase /\ segments \in [Phases -> Segments]
        /\ Phases \subseteq Nat
    <2>1. TypeOK /\ \A p \in Planners : view[p].phase <= phase
      BY DEF Inv, PlannerInv, Counted
    <2>2. phase \in Nat /\ segments \in [Phases -> Segments] /\ Phases \subseteq Nat
      BY <2>1 DEF TypeOK, Phases
    <2>3. phase' = phase \/ phase' = phase + 1
      BY <2>1, PhaseStep
    <2> QED BY <2>1, <2>2, <2>3
  <1>1. ASSUME NEW n \in Phases, n > phase PROVE segments'[n] = NewSegment
    <2>0. segments[n] = NewSegment /\ n # phase /\ \A p \in Planners : n # view[p].phase
      BY <1>0, <1>1 DEF Beyond
    <2>1. CASE segments' = segments
      BY <2>0, <2>1
    <2>2. CASE \E p \in Planners : \/ RefuseUncharged(p) \/ Accept(p) \/ RefuseCharged(p)
                                   \/ ChargeFormatFailure(p) \/ Close(p) \/ RefuseAsk(p)
      BY <1>0, <2>0, <2>2 DEF RefuseUncharged, Accept, RefuseCharged, ChargeFormatFailure, Charged,
                              Close, RefuseAsk
    <2>3. CASE \E x \in Processes : Shut(x)
      BY <1>0, <2>0, <2>3 DEF Shut
    <2>4. CASE \E f \in Founders : Recharge(f)
      BY <1>0, <2>0, <2>4 DEF Recharge
    <2> QED BY <2>1, <2>2, <2>3, <2>4, SegmentWrites
  <1>2. \A n \in Phases : n > phase' => n > phase
    BY <1>0, PhaseStep
  <1> QED BY <1>0, <1>1, <1>2 DEF Beyond

\* A command that is about to close the run's phase is the only one under way.
LEMMA SoleCloser ==
  ASSUME Alone, NEW x \in Processes, stage[x] \notin {"idle", "closing", "shutting"}
  PROVE  \A y \in Processes : ~Closes(y)
  BY DEF Alone, Closes

LEMMA BeginsUnclosed ==
  ASSUME TypeOK, Alone', NEW x \in Processes, NEW next, next # "idle", Moves(x, next),
         stage[x] = "idle"
  PROVE  \A y \in Processes : ~Closes(y)
  BY DEF TypeOK, Moves, Alone, Closes

\* A step that charges nothing leaves the phase open, closes it, or hands the
\* closing on.
LEMMA Uncharged ==
  ASSUME TypeOK, TypeOK', Metered, phase' = phase,
         deaths' = deaths \/ deaths' = deaths + 1,
         \A n \in Phases :
           \/ segments'[n] = NewSegment
           \/ /\ segments'[n].used = segments[n].used
              /\ segments[n].exhausted => segments'[n].exhausted,
         \/ \A x \in Processes : Closes(x) => Closes(x)'
         \/ deaths' = deaths + 1
         \/ segments'[phase].exhausted
  PROVE  Metered'
  <1>1. /\ deaths \in Nat /\ phase \in Phases /\ NewSegment.used = 0
        /\ \A n \in Phases : /\ segments[n].used \in Nat /\ segments'[n].used \in Nat
                             /\ segments[n].exhausted \in BOOLEAN
    BY DEF TypeOK, Segments, NewSegment
  <1>2. /\ Limit \in Nat /\ Limit' \in Nat /\ 0 < Limit' /\ Limit' >= Limit
        /\ deaths' = deaths + 1 => Limit' = Limit + 1
    BY <1>1, LimitAssumption DEF Limit
  <1>3. ASSUME NEW n \in Phases PROVE segments'[n].used <= Limit'
    BY <1>1, <1>2 DEF Metered
  <1>4. \/ segments'[phase].used < Limit' \/ segments'[phase].exhausted
        \/ \E x \in Processes : Closes(x)'
    <2>1. CASE segments'[phase] = NewSegment
      BY <1>1, <1>2, <2>1
    <2>2. CASE segments'[phase].used = segments[phase].used
               /\ (segments[phase].exhausted => segments'[phase].exhausted)
      <3>1. segments[phase].used <= Limit
        BY <1>1 DEF Metered
      <3>2. CASE deaths' = deaths + 1
        BY <1>1, <1>2, <2>2, <3>1, <3>2
      <3>3. CASE \A x \in Processes : Closes(x) => Closes(x)'
        BY <1>1, <1>2, <2>2, <3>3 DEF Metered
      <3> QED BY <3>2, <3>3
    <2> QED BY <1>1, <2>1, <2>2
  <1> QED BY <1>3, <1>4 DEF Metered

\* A step that charges the only command's phase.
LEMMA Charging ==
  ASSUME TypeOK, TypeOK', Metered, phase' = phase, deaths' = deaths,
         NEW p \in Planners, NEW n \in Phases, NEW keys,
         segments' = [segments EXCEPT ![n] = WithWrong(segments[n], p, keys)],
         segments[n].used < Limit, \A x \in Processes : ~Closes(x),
         \/ segments[n].used + 1 < BudgetLimit
         \/ stage'[p] = "shutting" \/ (stage'[p] = "closing" /\ view'[p].phase = n)
  PROVE  Metered'
  <1>1. /\ deaths \in Nat /\ phase \in Phases /\ p \in Processes /\ Limit' = Limit /\ Limit \in Nat
        /\ segments[n].used \in Nat /\ BudgetLimit <= Limit
    BY LimitAssumption DEF TypeOK, Segments, Limit, Processes
  <1>2. /\ segments'[n].used = segments[n].used + 1
        /\ \A m \in Phases \ {n} : segments'[m] = segments[m]
    <2>1. segments'[n] = WithWrong(segments[n], p, keys)
          /\ \A m \in Phases \ {n} : segments'[m] = segments[m]
      BY DEF TypeOK
    <2>2. WithWrong(segments[n], p, keys).used = segments[n].used + 1
      BY JudgedWrites
    <2> QED BY <2>1, <2>2
  <1>3. ASSUME NEW m \in Phases PROVE segments'[m].used <= Limit'
    BY <1>1, <1>2 DEF Metered
  <1>4. \/ segments'[phase].used < Limit' \/ segments'[phase].exhausted \/ Closes(p)'
    <2>1. CASE n # phase
      BY <1>1, <1>2, <2>1 DEF Metered
    <2>2. CASE n = phase /\ segments[n].used + 1 < BudgetLimit
      BY <1>1, <1>2, <2>2, LimitAssumption
    <2>3. CASE n = phase /\ ~(segments[n].used + 1 < BudgetLimit)
      BY <2>3 DEF Closes
    <2> QED BY <2>1, <2>2, <2>3
  <1> QED BY <1>1, <1>3, <1>4 DEF Metered

LEMMA MeteredStep ==
  ASSUME TypeOK, TypeOK', Alone, Alone', HoldsAll, Unshared, Beyond, Metered, [Next]_vars,
         \A p \in Planners : LetThrough(p) /\ PlannerInv(p)
  PROVE  Metered'
  <1> USE DEF Processes
  <1>0. /\ segments \in [Phases -> Segments] /\ phase \in Phases /\ deaths \in Nat
        /\ \A p \in Planners : view[p].phase \in Phases
        /\ \A n \in Phases : segments[n].exhausted \in BOOLEAN
        /\ \A x \in Processes : \A next : Moves(x, next) => stage'[x] = next
    BY DEF TypeOK, Views, Segments, Moves
  <1>1. CASE UNCHANGED vars
    BY <1>1 DEF Metered, Closes, Limit, vars, ledgerVars
  <1>2. CASE phase' = phase + 1 /\ UNCHANGED <<segments, stage, view, deaths>>
    <2>1. segments[phase'] = NewSegment /\ phase' \in Phases
      BY <1>0, <1>2 DEF Beyond, TypeOK, Phases
    <2>2. segments'[phase'].used < Limit'
      BY <1>0, <1>2, <2>1, LimitAssumption DEF NewSegment, Limit
    <2> QED BY <1>2, <2>2 DEF Metered, Limit
  <1>3. ASSUME UNCHANGED <<phase, segments>>, deaths' = deaths \/ deaths' = deaths + 1,
               (\A x \in Processes : ~Closes(x)) \/ deaths' = deaths + 1
        PROVE  Metered'
    BY <1>3, Uncharged
  <1>4. ASSUME NEW x \in Processes, stage[x] \notin {"idle", "closing", "shutting"}
        PROVE  \A y \in Processes : ~Closes(y)
    BY <1>4, SoleCloser
  <1>5. ASSUME NEW p \in Planners, Invoke(p) \/ InvokeAlarmed(p) \/ Propose(p) PROVE Metered'
    <2>1. UNCHANGED <<phase, segments, deaths>>
      BY <1>5 DEF Invoke, InvokeAlarmed, Propose, ledgerVars
    <2>2. stage[p] = "idle" /\ \E next \in {"thinking", "alarming", "answered"} : Moves(p, next)
      BY <1>5 DEF Invoke, InvokeAlarmed, Propose
    <2>3. \A y \in Processes : ~Closes(y)
      BY <2>2, BeginsUnclosed
    <2> QED BY <1>3, <2>1, <2>3
  <1>6. ASSUME NEW f \in Founders, LookAtLane(f) \/ BeginRecharge(f) PROVE Metered'
    <2>1. UNCHANGED <<phase, segments, deaths>>
      BY <1>6 DEF LookAtLane, BeginRecharge, ledgerVars
    <2>2. stage[f] = "idle" /\ \E next \in {"reading", "recharging"} : Moves(f, next)
      BY <1>6 DEF LookAtLane, BeginRecharge
    <2>3. \A y \in Processes : ~Closes(y)
      BY <2>2, BeginsUnclosed
    <2> QED BY <1>3, <2>1, <2>3
  <1>7. ASSUME NEW p \in Planners,
               \/ ProviderRetry(p) \/ ProviderError(p) \/ ProviderBabbles(p) \/ FormatFailure(p)
               \/ Answer(p) \/ Survey(p) \/ Govern(p) \/ ScanLedger(p) \/ Alarm(p) \/ Decide(p)
               \/ CountHints(p) \/ GrantAsk(p) \/ OpenLane(p)
        PROVE  Metered'
    <2>1. UNCHANGED <<phase, segments, deaths>>
      BY <1>7 DEF ProviderRetry, ProviderError, ProviderBabbles, FormatFailure, Answer, Survey,
                  Govern, ScanLedger, Alarm, Decide, CountHints, GrantAsk, OpenLane, ledgerVars
    <2>2. stage[p] \notin {"idle", "closing", "shutting"}
      BY <1>7 DEF ProviderRetry, ProviderError, ProviderBabbles, FormatFailure, Answer, Survey,
                  Govern, ScanLedger, Alarm, Decide, CountHints, GrantAsk, OpenLane
    <2> QED BY <1>3, <1>4, <2>1, <2>2
  <1>8. ASSUME NEW f \in Founders, LookAtPhase(f) \/ Hint(f) \/ Stop(f) \/ ReplyRefused(f)
        PROVE  Metered'
    <2>1. UNCHANGED <<phase, segments, deaths>>
      BY <1>8 DEF LookAtPhase, Hint, Stop, ReplyRefused, ledgerVars
    <2>2. stage[f] \notin {"idle", "closing", "shutting"}
      BY <1>8 DEF LookAtPhase, Hint, Stop, ReplyRefused, MayAnswer
    <2> QED BY <1>3, <1>4, <2>1, <2>2
  <1>9. ASSUME NEW x \in Processes, Dies(x) PROVE Metered'
    BY <1>3, <1>9 DEF Dies, ledgerVars
  <1>10. ASSUME NEW p \in Planners, RefuseUncharged(p) \/ Accept(p) PROVE Metered'
    <2>1. UNCHANGED <<phase, deaths>> /\ stage[p] = "judging"
      BY <1>10 DEF RefuseUncharged, Accept, Resubmitted, Stale, Judged, Proposes
    <2>2. ASSUME NEW n \in Phases
          PROVE  segments'[n].used = segments[n].used
                 /\ segments'[n].exhausted = segments[n].exhausted
      <3>1. CASE n # view[p].phase
        BY <1>0, <1>10, <3>1 DEF RefuseUncharged, Accept
      <3>2. CASE RefuseUncharged(p) /\ n = view[p].phase
        <4>1. segments'[n] = [segments[n] EXCEPT !.keys = segments[n].keys \cup KeyOfProposal(p)]
          BY <1>0, <3>2 DEF RefuseUncharged
        <4> QED BY <4>1, MildWrites
      <3>3. CASE Accept(p) /\ n = view[p].phase
        <4>1. segments'[n] = WithSelected(segments[n], p, KeyOfProposal(p))
          BY <1>0, <3>3 DEF Accept
        <4> QED BY <4>1, JudgedWrites
      <3> QED BY <1>10, <3>1, <3>2, <3>3
    <2>3. \A y \in Processes : ~Closes(y)
      BY <1>4, <2>1
    <2> QED BY <2>1, <2>2, <2>3, Uncharged
  <1>11. ASSUME NEW p \in Planners, RefuseCharged(p) \/ ChargeFormatFailure(p) PROVE Metered'
    <2>1. UNCHANGED <<phase, deaths>> /\ stage[p] \in {"judging", "governed"}
      BY <1>11 DEF RefuseCharged, ChargeFormatFailure, Judged, Proposes
    <2>2. PICK keys : segments' = [segments EXCEPT ![view[p].phase] =
                                     WithWrong(segments[view[p].phase], p, keys)]
      BY <1>11 DEF RefuseCharged, ChargeFormatFailure, Charged
    <2>3. view[p].used = segments[view[p].phase].used /\ view[p].used < Limit
      BY <2>1 DEF HoldsAll, Holds, LetThrough
    <2>4. SpendsBudget(p) => \/ stage'[p] = "shutting"
                             \/ stage'[p] = "closing" /\ view'[p].phase = view[p].phase
      <3>1. CASE RefuseCharged(p)
        <4>1. [NothingHeld EXCEPT !.phase = view[p].phase].phase = view[p].phase
          BY DEF NothingHeld
        <4> QED BY <1>0, <3>1, <4>1 DEF RefuseCharged, Keeps, TypeOK
      <3>2. CASE ChargeFormatFailure(p)
        BY <1>0, <3>2 DEF ChargeFormatFailure
      <3> QED BY <1>11, <3>1, <3>2
    <2>5. ~SpendsBudget(p) => view[p].used + 1 < BudgetLimit
      BY LimitAssumption, Numbers DEF SpendsBudget
    <2>6. \A y \in Processes : ~Closes(y)
      BY <1>4, <2>1
    <2> QED BY <1>0, <2>1, <2>2, <2>3, <2>4, <2>5, <2>6, Charging
  <1>12. ASSUME NEW p \in Planners, Close(p) PROVE Metered'
    <2>1. UNCHANGED <<phase, deaths>> /\ stage[p] = "closing"
          /\ segments' = [segments EXCEPT ![view[p].phase].exhausted = TRUE]
      BY <1>12 DEF Close
    <2>2. ASSUME NEW n \in Phases
          PROVE  /\ segments'[n].used = segments[n].used
                 /\ segments[n].exhausted => segments'[n].exhausted
                 /\ n = view[p].phase => segments'[n].exhausted
      <3>1. segments'[n] = IF n = view[p].phase THEN [segments[n] EXCEPT !.exhausted = TRUE]
                           ELSE segments[n]
        BY <1>0, <2>1
      <3> QED BY <3>1, MildWrites
    <2>3. \A y \in Processes : Closes(y) => view[p].phase = phase
      BY <2>1 DEF Alone, Closes
    <2>4. (\A y \in Processes : ~Closes(y)) \/ segments'[phase].exhausted
      BY <1>0, <2>2, <2>3
    <2> QED BY <2>1, <2>2, <2>4, Uncharged
  <1>13. ASSUME NEW x \in Processes, Shut(x) PROVE Metered'
    <2>1. UNCHANGED <<phase, deaths>> /\ segments' = [segments EXCEPT ![phase].exhausted = TRUE]
      BY <1>13 DEF Shut
    <2>2. ASSUME NEW n \in Phases
          PROVE  /\ segments'[n].used = segments[n].used
                 /\ segments[n].exhausted => segments'[n].exhausted
                 /\ n = phase => segments'[n].exhausted
      <3>1. segments'[n] = IF n = phase THEN [segments[n] EXCEPT !.exhausted = TRUE]
                           ELSE segments[n]
        BY <1>0, <2>1
      <3> QED BY <3>1, MildWrites
    <2> QED BY <1>0, <2>1, <2>2, Uncharged
  <1>14. ASSUME NEW p \in Planners, RefuseAsk(p) PROVE FALSE
    BY <1>14 DEF RefuseAsk, Unshared, UnsharedBy
  <1>15. ASSUME NEW f \in Founders, Recharge(f) PROVE Metered'
    <2>1. UNCHANGED <<phase, deaths>> /\ stage[f] = "recharging"
          /\ segments' = [segments EXCEPT ![desk[f].phase] = NewSegment]
      BY <1>15 DEF Recharge
    <2>2. \A n \in Phases : segments'[n] = NewSegment \/ segments'[n] = segments[n]
      BY <1>0, <2>1
    <2>3. \A y \in Processes : ~Closes(y)
      BY <1>4, <2>1
    <2> QED BY <2>1, <2>2, <2>3, Uncharged
  <1>16. CASE Advance
    <2>1. phase' = phase + 1 /\ UNCHANGED <<segments, stage, view, deaths>>
      BY <1>16 DEF Advance, ledgerVars
    <2> QED BY <1>2, <2>1
  <1> QED BY <1>1, <1>5, <1>6, <1>7, <1>8, <1>9, <1>10, <1>11, <1>12, <1>13, <1>14, <1>15, <1>16
          DEF Next, PlannerStep, FounderStep

LEMMA GovernedUsed ==
  ASSUME TypeOK, NEW p \in Planners, NEW n, NEW u, NEW t, NEW a, NEW k,
         view' = [view EXCEPT ![p].phase = n, ![p].used = u, ![p].taken = t, ![p].asked = a,
                              ![p].sent = k]
  PROVE  view'[p].used = u
  <1>1. view[p] \in Views
    BY DEF TypeOK
  <1> QED BY <1>1 DEF Views, TypeOK

LEMMA LimitGrows ==
  ASSUME TypeOK, deaths' = deaths \/ deaths' = deaths + 1
  PROVE  Limit \in Nat /\ Limit' \in Nat /\ Limit' >= Limit
  <1>1. deaths \in Nat
    BY DEF TypeOK
  <1> QED BY <1>1, LimitAssumption DEF Limit

\* Whoever is let through found a unit left, and nobody takes it before.
LEMMA LetThroughStep ==
  ASSUME TypeOK, TypeOK', Alone, Alone', Beyond, Metered, [Next]_vars,
         NEW p \in Planners, LetThrough(p), PlannerInv(p)
  PROVE  LetThrough(p)'
  <1> USE DEF Processes
  <1> SUFFICES ASSUME stage'[p] \in {"thinking", "surveyed", "governed", "judging", "asking"}
               PROVE  LetThrough(p)'
    BY DEF LetThrough
  <1>0. /\ Ends(p) => stage'[p] = "idle"
        /\ \A next : Moves(p, next) => stage'[p] = next
        /\ Limit \in Nat /\ Limit' \in Nat /\ Limit' >= Limit
        /\ view[p].used \in Nat /\ view'[p].used \in Nat
    <2>1. /\ Ends(p) => stage'[p] = "idle"
          /\ \A next : Moves(p, next) => stage'[p] = next
      BY DEF TypeOK, Ends, Moves
    <2>2. view[p].used \in Nat /\ view'[p].used \in Nat
      BY DEF TypeOK, Views
    <2>3. deaths' = deaths \/ deaths' = deaths + 1
      BY PhaseStep
    <2>4. Limit \in Nat /\ Limit' \in Nat /\ Limit' >= Limit
      BY <2>3, LimitGrows
    <2> QED BY <2>1, <2>2, <2>4
  <1>1. CASE UNCHANGED vars
    BY <1>1 DEF LetThrough, Limit, vars, ledgerVars
  <1>2. CASE Advance
    <2>1. phase' = phase + 1 /\ UNCHANGED <<segments, stage, view, deaths>>
      BY <1>2 DEF Advance, ledgerVars
    <2>2. phase' \in Phases /\ phase' > phase
      BY <2>1 DEF TypeOK, Phases
    <2>3. segments'[phase'] = NewSegment /\ NewSegment.exhausted = FALSE
      BY <2>1, <2>2 DEF Beyond, NewSegment
    <2> QED BY <2>1, <2>3 DEF LetThrough, Limit
  <1>3. CASE Invoke(p)
    <2>1. segments[phase].exhausted = FALSE
      BY <1>3, Numbers DEF Invoke
    <2> QED BY <1>0, <1>3, <2>1 DEF Invoke, LetThrough, ledgerVars
  <1>4. CASE ProviderRetry(p) \/ FormatFailure(p)
    <2>1. /\ stage[p] = "thinking" /\ UNCHANGED <<segments, phase>>
          /\ stage'[p] \in {"thinking", "surveyed"}
      BY <1>0, <1>4 DEF ProviderRetry, FormatFailure, ledgerVars
    <2> QED BY <2>1 DEF LetThrough
  <1>5. CASE Survey(p)
    <2>1. stage'[p] = "surveyed" /\ stage[p] = "answered" /\ view[p].says # "garbage"
      BY <1>0, <1>5 DEF Survey, PlannerInv, Counted
    <2>2. lane = <<>> /\ ~(view[p].says # "ask" /\ run.patch = "pending")
      BY <1>0, <1>5, <2>1 DEF Survey
    <2>3. PICK c, l : view' = [view EXCEPT ![p].current = c, ![p].legal = l]
      BY <1>5, <2>2 DEF Survey
    <2>4. view'[p].says = view[p].says
      <3>1. view[p] \in Views
        BY DEF TypeOK
      <3> QED BY <2>3, <3>1 DEF Views, TypeOK
    <2> QED BY <2>1, <2>4 DEF LetThrough
  <1>6. CASE Govern(p)
    <2>1. stage[p] = "surveyed" /\ stage'[p] = "governed" /\ deaths' = deaths
      BY <1>0, <1>6 DEF Govern
    <2>2. segments[phase].exhausted = FALSE
      BY <1>0, <1>6, <2>1, Numbers DEF Govern, LetThrough
    <2>3. segments[phase].used < Limit
      BY <2>1, <2>2, SoleCloser DEF Metered
    <2>4. view'[p].used = segments[phase].used
      <3>1. view' = [view EXCEPT ![p].phase = phase, ![p].used = segments[phase].used,
                                 ![p].taken = Taken(p), ![p].asked = p \in asked[phase],
                                 ![p].sent = view[p].says \in Proposals
                                             /\ KeyOf[view[p].says] \in segments[phase].keys]
        BY <1>6, <2>2, Zenon DEF Govern
      <3> QED BY <3>1, GovernedUsed
    <2> QED BY <2>1, <2>3, <2>4 DEF LetThrough, Limit
  <1>7. CASE ScanLedger(p) \/ CountHints(p)
    <2>1. stage[p] = "governed" /\ stage'[p] \in {"judging", "asking"} /\ deaths' = deaths
      BY <1>0, <1>7 DEF ScanLedger, CountHints
    <2>2. view'[p].used = view[p].used
      <3>1. CASE CountHints(p)
        BY <1>0, <2>1, <3>1 DEF CountHints
      <3>2. CASE ScanLedger(p)
        BY <1>0, <2>1, <3>2, Numbers DEF ScanLedger, Views
      <3> QED BY <1>7, <3>1, <3>2
    <2> QED BY <2>1, <2>2 DEF LetThrough, Limit
  <1>8. CASE \/ InvokeAlarmed(p) \/ Propose(p) \/ ProviderError(p) \/ ProviderBabbles(p)
             \/ Answer(p) \/ Alarm(p) \/ RefuseUncharged(p) \/ RefuseCharged(p) \/ Accept(p)
             \/ Decide(p)
    BY <1>0, <1>8 DEF InvokeAlarmed, Propose, ProviderError, ProviderBabbles, Answer, Alarm,
                      RefuseUncharged, RefuseCharged, Accept, Decide
  <1>9. CASE \/ ChargeFormatFailure(p) \/ Close(p) \/ Shut(p) \/ RefuseAsk(p) \/ GrantAsk(p)
             \/ OpenLane(p) \/ Dies(p)
    BY <1>0, <1>9 DEF ChargeFormatFailure, Close, Shut, RefuseAsk, GrantAsk, OpenLane, Dies
  <1>10. UNCHANGED vars \/ Advance \/ OwnStep(p)
    BY SoleCommand
  <1> QED BY <1>1, <1>2, <1>3, <1>4, <1>5, <1>6, <1>7, <1>8, <1>9, <1>10
          DEF OwnStep, PlannerStep

LEMMA BudgetInit == Init => BudgetInv
  <1> SUFFICES ASSUME Init PROVE BudgetInv
    OBVIOUS
  <1>1. SerialInv /\ Unshared
    BY SerialInit, UnsharedInit
  <1>2. Beyond
    BY DEF Init, Beyond
  <1>3. Metered
    <2>1. Limit \in Nat /\ Limit > 0 /\ phase \in Phases /\ NewSegment.used = 0
      BY LimitAssumption, BoundAssumption DEF Init, Limit, Phases, NewSegment
    <2> QED BY <2>1 DEF Init, Metered
  <1>4. \A p \in Planners : LetThrough(p)
    BY DEF Init, LetThrough, Processes
  <1> QED BY <1>1, <1>2, <1>3, <1>4 DEF BudgetInv

LEMMA BudgetStep == BudgetInv /\ [SerialNext]_vars => BudgetInv'
  <1> SUFFICES ASSUME BudgetInv, [SerialNext]_vars PROVE BudgetInv'
    OBVIOUS
  <1>1. /\ SerialInv /\ SerialInv' /\ [Next]_vars
        /\ TypeOK /\ TypeOK' /\ Alone /\ Alone' /\ Inv /\ HoldsAll
        /\ \A p \in Planners : PlannerInv(p)
    BY SerialStep DEF BudgetInv, SerialInv, Inv
  <1>2. Unshared'
    BY <1>1, UnsharedStep DEF BudgetInv
  <1>3. Beyond'
    BY <1>1, BeyondStep DEF BudgetInv
  <1>4. Metered'
    BY <1>1, MeteredStep DEF BudgetInv
  <1>5. \A p \in Planners : LetThrough(p)'
    BY <1>1, LetThroughStep DEF BudgetInv
  <1> QED BY <1>1, <1>2, <1>3, <1>4, <1>5 DEF BudgetInv

\* Of commands that run one after the other, whoever gives them, no more is
\* charged to a phase between two recharges than its budget, one more for every
\* command that died before it could close the phase.
THEOREM SerialBudgetIsShared == SerialSpec => []BudgetIsShared
  <1>1. BudgetInv => BudgetIsShared
    BY DEF BudgetInv, Metered, BudgetIsShared, Limit
  <1> QED BY <1>1, BudgetInit, BudgetStep, PTL DEF SerialSpec

=============================================================================
