------------------------ MODULE ContainerWorkerProofs ------------------------
(***************************************************************************)
(* Proofs about ContainerWorker, for any dispatchers, runs, manifest and   *)
(* thresholds.                                                             *)
(***************************************************************************)
EXTENDS ContainerWorker, TLAPS

CallRecords ==
  [id : 0 .. MaxCalls, run : Runs \cup {NoRun}, forced : BOOLEAN,
   seen : SUBSET Calls, result : Results, row : TrustRows]

-----------------------------------------------------------------------------
(* Type correctness.                                                       *)

LEMMA RowTypes ==
  ASSUME NEW row \in TrustRows
  PROVE  /\ NewRow \in TrustRows
         /\ Struck(row) \in TrustRows
         /\ \A checked \in BOOLEAN : Succeeded(row, checked) \in TrustRows
  BY DEF TrustRows, NewRow, Struck, Succeeded

LEMMA MergedRow ==
  ASSUME NEW old \in TrustRows, NEW row \in TrustRows, NEW new \in TrustRows,
         NEW merged,
         merged = [f \in DOMAIN old |-> IF new[f] # row[f] THEN new[f] ELSE old[f]]
  PROVE  /\ merged \in TrustRows
         /\ old = row => merged = new
  <1>1. DOMAIN old = {"strikes", "required", "streak"}
    BY DEF TrustRows
  <1>2. old.strikes \in Nat /\ new.strikes \in Nat /\ old.streak \in Nat /\ new.streak \in Nat
        /\ old.required \in BOOLEAN /\ new.required \in BOOLEAN
    BY DEF TrustRows
  <1>3. merged = [strikes |-> IF new.strikes # row.strikes THEN new.strikes ELSE old.strikes,
                  required |-> IF new.required # row.required THEN new.required ELSE old.required,
                  streak |-> IF new.streak # row.streak THEN new.streak ELSE old.streak]
    BY <1>1
  <1>4. merged \in TrustRows
    BY <1>2, <1>3 DEF TrustRows
  <1>5. ASSUME old = row PROVE merged = new
    <2>1. new = [strikes |-> new.strikes, required |-> new.required, streak |-> new.streak]
      BY DEF TrustRows
    <2> QED BY <1>3, <1>5, <2>1
  <1> QED BY <1>4, <1>5

LEMMA CallTypes ==
  ASSUME TypeOK, NEW d \in Dispatchers
  PROVE  /\ call[d] \in CallRecords /\ NoCall \in CallRecords
         /\ stage[d] \in Stages
         /\ Id(d) \in 0 .. MaxCalls
  <1>1. NoCall \in CallRecords
    BY RowTypes, CallBoundAssumption DEF NoCall, CallRecords, Results, TrustRows, NewRow
  <1>2. call[d] \in CallRecords /\ stage[d] \in Stages
    BY DEF TypeOK, CallRecords
  <1> QED BY <1>1, <1>2 DEF Id, CallRecords

LEMMA CallUpdate ==
  ASSUME TypeOK, NEW d \in Dispatchers, NEW next \in Stages, NEW held \in CallRecords,
         Moves(d, next), call' = [call EXCEPT ![d] = held]
  PROVE  /\ stage' \in [Dispatchers -> Stages] /\ call' \in [Dispatchers -> CallRecords]
         /\ stage'[d] = next /\ call'[d] = held
         /\ \A e \in Dispatchers \ {d} : stage'[e] = stage[e] /\ call'[e] = call[e]
  BY DEF TypeOK, Moves, CallRecords

LEMMA TypeInit == Init => TypeOK
  <1> SUFFICES ASSUME Init PROVE TypeOK
    OBVIOUS
  <1>1. NewRow \in TrustRows
    BY DEF NewRow, TrustRows
  <1>2. NoCall \in CallRecords
    BY <1>1, CallBoundAssumption DEF NoCall, CallRecords, Results
  <1>3. verdicts \in Seq(Verdicts)
    BY DEF Init
  <1>4. holder \in [Runs -> 0 .. MaxCalls] /\ calls \in 0 .. MaxCalls /\ deaths \in Nat
    BY CallBoundAssumption DEF Init
  <1>5. stage \in [Dispatchers -> Stages] /\ call \in [Dispatchers -> CallRecords]
    BY <1>2 DEF Init, Stages
  <1> QED BY <1>1, <1>3, <1>4, <1>5 DEF Init, TypeOK, CallRecords

\* A call has its number from the moment it claims its run.
Numbered == \A d \in Dispatchers : stage[d] \notin {"idle", "trusted"} => Id(d) # 0
TypeInv == TypeOK /\ Numbered

LEMMA NumberedStep ==
  ASSUME TypeInv, NEW d \in Dispatchers, NEW next \in Stages, Moves(d, next),
         NEW held, call' = [call EXCEPT ![d] = held],
         next \notin {"idle", "trusted"} => held.id # 0
  PROVE  Numbered'
  BY DEF TypeInv, TypeOK, Numbered, Moves, Id

LEMMA NumberedMove ==
  ASSUME TypeInv, NEW d \in Dispatchers, NEW next \in Stages, Moves(d, next),
         stage[d] \notin {"idle", "trusted"}, call' = call
  PROVE  Numbered'
  BY DEF TypeInv, TypeOK, Numbered, Moves, Id

LEMMA TypeStep == TypeInv /\ [Next]_vars => TypeInv'
  <1> SUFFICES ASSUME TypeInv, [Next]_vars PROVE TypeInv'
    OBVIOUS
  <1> USE CallBoundAssumption
  <1>0. /\ trust \in TrustRows /\ verdicts \in Seq(Verdicts) /\ overlapped \in BOOLEAN
        /\ holder \in [Runs -> 0 .. MaxCalls] /\ containers \subseteq Calls
        /\ evicted \subseteq Calls /\ landed \subseteq Calls /\ excused \subseteq Calls
        /\ stage \in [Dispatchers -> Stages] /\ call \in [Dispatchers -> CallRecords]
        /\ calls \in 0 .. MaxCalls /\ deaths \in Nat
        /\ TypeOK /\ Numbered
    BY DEF TypeInv, TypeOK, CallRecords
  <1>b. \A d \in Dispatchers, next \in Stages :
          Moves(d, next) => stage' \in [Dispatchers -> Stages]
    BY <1>0 DEF Moves
  <1>c. NoCall \in CallRecords
    BY <1>0, RowTypes DEF NoCall, CallRecords, Results, TrustRows, NewRow
  <1>d. ASSUME NEW d \in Dispatchers, EndsCall(d)
        PROVE  /\ stage' \in [Dispatchers -> Stages]
               /\ call' \in [Dispatchers -> CallRecords]
               /\ Numbered'
    <2>1. /\ stage' \in [Dispatchers -> Stages]
          /\ call' \in [Dispatchers -> CallRecords]
      BY <1>0, <1>b, <1>c, <1>d DEF EndsCall, Stages
    <2>2. Numbered'
      BY <1>d, NumberedStep DEF EndsCall, Stages
    <2> QED BY <2>1, <2>2
  <1>e. ASSUME NEW d \in Dispatchers, NEW next \in Stages, DockerSaysNo(d, next),
               stage[d] \notin {"idle", "trusted"}
        PROVE  /\ stage' \in [Dispatchers -> Stages]
               /\ call' \in [Dispatchers -> CallRecords]
               /\ Numbered'
    <2>1. PICK result \in {"mismatch", "failure"} :
            call' = [call EXCEPT ![d] = [call[d] EXCEPT !.result = result]]
      BY <1>e DEF DockerSaysNo
    <2>2. [call[d] EXCEPT !.result = result] \in CallRecords
      BY <1>0, <2>1 DEF CallRecords, Results
    <2>3. call' \in [Dispatchers -> CallRecords]
      BY <1>0, <2>1, <2>2
    <2>4. [call[d] EXCEPT !.result = result].id = Id(d)
      BY <1>0 DEF CallRecords, Id
    <2>5. Numbered'
      BY <1>e, <1>0, <2>1, <2>4, NumberedStep DEF DockerSaysNo, Numbered
    <2> QED BY <1>b, <1>e, <2>3, <2>5 DEF DockerSaysNo
  <1>f. \A S : Removes(S) => containers' \subseteq Calls /\ evicted' \subseteq Calls
    BY <1>0 DEF Removes
  <1>g. /\ {"idle", "trusted", "claimed", "listed", "swept", "admitted", "created",
             "ran", "removing", "finalizing", "recording", "storing"} = Stages
        /\ \A d \in Dispatchers :
             /\ call[d] \in CallRecords /\ Id(d) \in 0 .. MaxCalls
             /\ stage[d] \notin {"idle", "trusted"} => Id(d) \in Calls /\ Id(d) # 0
    BY <1>0, CallTypes DEF Stages, Numbered, Calls
  <1>1. ASSUME NEW d \in Dispatchers, ReadTrust(d) PROVE TypeInv'
    <2>1. PICK r \in Runs : call' = [call EXCEPT ![d] =
                               [NoCall EXCEPT !.run = r, !.forced = trust.required]]
      BY <1>1 DEF ReadTrust
    <2>2. [NoCall EXCEPT !.run = r, !.forced = trust.required] \in CallRecords
      BY <1>c, <1>0 DEF CallRecords, TrustRows
    <2>3. call' \in [Dispatchers -> CallRecords]
      BY <1>0, <2>1, <2>2
    <2>4. stage' \in [Dispatchers -> Stages] /\ Numbered'
      BY <1>1, <1>b, <1>g, <2>1, NumberedStep DEF ReadTrust
    <2> QED BY <1>1, <1>0, <2>3, <2>4 DEF ReadTrust, trustVars, dockerVars, TypeInv, TypeOK, CallRecords
  <1>2. ASSUME NEW d \in Dispatchers, ClaimRun(d) PROVE TypeInv'
    <2>1. calls' \in 0 .. MaxCalls /\ calls + 1 \in 1 .. MaxCalls
      BY <1>0, <1>2 DEF ClaimRun
    <2>2. holder' \in [Runs -> 0 .. MaxCalls]
      BY <1>0, <1>2, <2>1 DEF ClaimRun
    <2>3. [call[d] EXCEPT !.id = calls + 1] \in CallRecords
      BY <1>g, <2>1 DEF CallRecords
    <2>4. /\ call' = [call EXCEPT ![d] = [call[d] EXCEPT !.id = calls + 1]]
          /\ [call[d] EXCEPT !.id = calls + 1].id # 0
      BY <1>0, <1>2, <1>g, <2>1 DEF ClaimRun, CallRecords
    <2>5. call' \in [Dispatchers -> CallRecords]
      BY <1>0, <2>3, <2>4
    <2>6. stage' \in [Dispatchers -> Stages] /\ Numbered'
      BY <1>2, <1>b, <1>g, <2>4, NumberedStep DEF ClaimRun
    <2> QED BY <1>2, <1>0, <2>1, <2>2, <2>5, <2>6
         DEF ClaimRun, trustVars, dockerVars, TypeInv, TypeOK, CallRecords
  <1>3. ASSUME NEW d \in Dispatchers, ClaimRefused(d) PROVE TypeInv'
    BY <1>3, <1>0, <1>d
       DEF ClaimRefused, trustVars, dockerVars, TypeInv, TypeOK, CallRecords
  <1>4. ASSUME NEW d \in Dispatchers, ListContainers(d) PROVE TypeInv'
    <2>1. [call[d] EXCEPT !.seen = containers] \in CallRecords
      BY <1>g, <1>0 DEF CallRecords
    <2>2. /\ call' = [call EXCEPT ![d] = [call[d] EXCEPT !.seen = containers]]
          /\ [call[d] EXCEPT !.seen = containers].id = Id(d)
      BY <1>4, <1>g DEF ListContainers, CallRecords, Id
    <2>3. call' \in [Dispatchers -> CallRecords]
      BY <1>0, <2>1, <2>2
    <2>4. stage' \in [Dispatchers -> Stages] /\ Numbered'
      BY <1>4, <1>b, <1>g, <2>2, NumberedStep DEF ListContainers
    <2> QED BY <1>4, <1>0, <2>3, <2>4
         DEF ListContainers, trustVars, dockerVars, TypeInv, TypeOK, CallRecords
  <1>5. ASSUME NEW d \in Dispatchers, Sweep(d) PROVE TypeInv'
    <2>1. stage' \in [Dispatchers -> Stages] /\ Numbered'
      BY <1>5, <1>b, <1>g, NumberedMove DEF Sweep
    <2> QED BY <1>5, <1>0, <1>f, <2>1 DEF Sweep, trustVars, TypeInv, TypeOK, CallRecords
  <1>6. ASSUME NEW d \in Dispatchers, SweepFails(d) PROVE TypeInv'
    <2>1. DockerSaysNo(d, "finalizing") /\ \E S \in SUBSET call[d].seen : Removes(S)
      BY <1>6 DEF SweepFails
    <2>2. /\ stage' \in [Dispatchers -> Stages]
          /\ call' \in [Dispatchers -> CallRecords] /\ Numbered'
      BY <1>6, <1>e, <1>g, <2>1 DEF SweepFails
    <2> QED BY <1>6, <1>0, <1>f, <2>1, <2>2 DEF SweepFails, trustVars, TypeInv, TypeOK, CallRecords
  <1>7. ASSUME NEW d \in Dispatchers,
               Admit(d) \/ CopyOut(d) \/ RemoveOwn(d) \/ CreateContainer(d) PROVE TypeInv'
    <2>1. stage' \in [Dispatchers -> Stages] /\ Numbered'
      BY <1>7, <1>b, <1>g, NumberedMove DEF Admit, CopyOut, RemoveOwn, CreateContainer
    <2> QED BY <1>7, <1>0, <1>g, <2>1
         DEF Admit, CopyOut, RemoveOwn, CreateContainer, trustVars, dockerVars,
             TypeInv, TypeOK, CallRecords
  <1>8. ASSUME NEW d \in Dispatchers, Refuse(d) PROVE TypeInv'
    <2>1. PICK result \in {"mismatch", "failure"} :
            call' = [call EXCEPT ![d].result = result]
      BY <1>8 DEF Refuse
    <2>2. DockerSaysNo(d, "finalizing")
      BY <1>8, <2>1 DEF Refuse, DockerSaysNo
    <2>3. /\ stage' \in [Dispatchers -> Stages]
          /\ call' \in [Dispatchers -> CallRecords] /\ Numbered'
      BY <1>8, <1>e, <1>g, <2>2 DEF Refuse
    <2> QED BY <1>8, <1>0, <2>3 DEF Refuse, trustVars, dockerVars, TypeInv, TypeOK, CallRecords
  <1>9. ASSUME NEW d \in Dispatchers,
               DockerFails(d) \/ ContainerFails(d) \/ PersistFails(d) \/ RecordFails(d)
        PROVE  TypeInv'
    <2>1. EndsCall(d) \/ \E next \in {"removing", "finalizing"} : DockerSaysNo(d, next)
      BY <1>9 DEF DockerFails, ContainerFails, PersistFails, RecordFails, Raises
    <2>2. stage[d] \notin {"idle", "trusted"}
      BY <1>9 DEF DockerFails, ContainerFails, PersistFails, RecordFails
    <2>3. /\ stage' \in [Dispatchers -> Stages]
          /\ call' \in [Dispatchers -> CallRecords] /\ Numbered'
      BY <1>d, <1>e, <1>g, <2>1, <2>2
    <2> QED BY <1>9, <1>0, <2>3
         DEF DockerFails, ContainerFails, PersistFails, RecordFails, trustVars, dockerVars,
             TypeInv, TypeOK, CallRecords
  <1>10. ASSUME NEW d \in Dispatchers, Work(d) PROVE TypeInv'
    <2>1. PICK result \in {"patch", "mismatch", "failure"} :
            call' = [call EXCEPT ![d] = [call[d] EXCEPT !.result = result]]
      BY <1>10 DEF Work
    <2>2. /\ [call[d] EXCEPT !.result = result] \in CallRecords
          /\ [call[d] EXCEPT !.result = result].id = Id(d)
      BY <1>g DEF CallRecords, Results, Id
    <2>3. call' \in [Dispatchers -> CallRecords]
      BY <1>0, <2>1, <2>2
    <2>4. stage' \in [Dispatchers -> Stages] /\ Numbered'
      BY <1>10, <1>b, <1>g, <2>1, <2>2, NumberedStep DEF Work
    <2> QED BY <1>10, <1>0, <2>3, <2>4 DEF Work, trustVars, dockerVars, TypeInv, TypeOK, CallRecords
  <1>11. ASSUME NEW d \in Dispatchers, Finalize(d) PROVE TypeInv'
    <2>1. /\ stage' \in [Dispatchers -> Stages]
          /\ call' \in [Dispatchers -> CallRecords] /\ Numbered'
      <3>1. CASE EndsCall(d)
        BY <3>1, <1>d
      <3>2. CASE Moves(d, "recording") /\ call' = call
        BY <3>2, <1>0, <1>11, <1>b, <1>g, NumberedMove DEF Finalize
      <3> QED BY <1>11, <3>1, <3>2 DEF Finalize
    <2>2. holder' = holder \/ holder' = [holder EXCEPT ![call[d].run] = 0]
      BY <1>11 DEF Finalize
    <2>3. holder' \in [Runs -> 0 .. MaxCalls]
      BY <1>0, <2>2
    <2>4. stage[d] = "finalizing" /\ (landed' = landed \/ landed' = landed \cup {Id(d)})
      BY <1>11 DEF Finalize
    <2>5. landed' \subseteq Calls
      BY <1>0, <1>g, <2>4
    <2> QED BY <1>11, <1>0, <2>1, <2>3, <2>5
         DEF Finalize, trustVars, dockerVars, TypeInv, TypeOK, CallRecords
  <1>12. ASSUME NEW d \in Dispatchers, LoadTrust(d) PROVE TypeInv'
    <2>1. /\ call' = [call EXCEPT ![d] = [call[d] EXCEPT !.row = trust]]
          /\ [call[d] EXCEPT !.row = trust] \in CallRecords
          /\ [call[d] EXCEPT !.row = trust].id = Id(d)
      BY <1>12, <1>0, <1>g DEF LoadTrust, CallRecords, Id
    <2>2. call' \in [Dispatchers -> CallRecords]
      BY <1>0, <2>1
    <2>3. stage' \in [Dispatchers -> Stages] /\ Numbered'
      BY <1>12, <1>b, <1>g, <2>1, NumberedStep DEF LoadTrust
    <2> QED BY <1>12, <1>0, <2>2, <2>3
         DEF LoadTrust, trustVars, dockerVars, TypeInv, TypeOK, CallRecords
  <1>13. ASSUME NEW d \in Dispatchers, StoreTrust(d) PROVE TypeInv'
    <2>1. call[d].row \in TrustRows /\ call[d].forced \in BOOLEAN
      BY <1>g DEF CallRecords
    <2> DEFINE new == IF call[d].result = "patch" THEN Succeeded(call[d].row, call[d].forced)
                                                 ELSE Struck(call[d].row)
    <2>2. new \in TrustRows
      BY <2>1, RowTypes
    <2>3. trust' = [f \in DOMAIN trust |-> IF new[f] # call[d].row[f] THEN new[f] ELSE trust[f]]
      BY <1>13 DEF StoreTrust
    <2>4. trust' \in TrustRows
      <3>1. trust \in TrustRows
        BY <1>0
      <3> HIDE DEF new
      <3> QED BY <3>1, <2>1, <2>2, <2>3, MergedRow
    <2>5. Verdict(d) \in Verdicts
      BY DEF Verdict, Verdicts
    <2>6. verdicts' \in Seq(Verdicts)
      BY <1>13, <1>0, <2>5 DEF StoreTrust
    <2>7. overlapped' \in BOOLEAN
      BY <1>13, <1>0 DEF StoreTrust
    <2>8. EndsCall(d) /\ UNCHANGED <<holder, dockerVars, landed, calls, deaths>>
      BY <1>13 DEF StoreTrust
    <2> QED BY <1>0, <1>d, <2>4, <2>6, <2>7, <2>8 DEF dockerVars, TypeInv, TypeOK, CallRecords
  <1>14. ASSUME NEW r \in Runs, Reclaim(r) PROVE TypeInv'
    <2>1. containers' \subseteq Calls /\ evicted' \subseteq Calls
      BY <1>14, <1>0, <1>f DEF Reclaim
    <2>2. holder' \in [Runs -> 0 .. MaxCalls]
      BY <1>14, <1>0 DEF Reclaim
    <2> QED BY <1>14, <1>0, <2>1, <2>2
         DEF Reclaim, trustVars, TypeInv, TypeOK, CallRecords, Numbered, Id
  <1>15. ASSUME NEW d \in Dispatchers, Dies(d) PROVE TypeInv'
    <2>1. excused' \subseteq Calls
      <3>1. excused' = excused \/ (Id(d) # 0 /\ excused' = excused \cup {Id(d)})
        BY <1>15 DEF Dies
      <3>2. Id(d) # 0 => Id(d) \in Calls
        BY <1>g DEF Calls
      <3> QED BY <1>0, <3>1, <3>2
    <2>2. deaths' \in Nat /\ EndsCall(d)
      BY <1>15, <1>0 DEF Dies
    <2> QED BY <1>15, <1>0, <1>d, <2>1, <2>2 DEF Dies, trustVars, TypeInv, TypeOK, CallRecords
  <1>16. CASE UNCHANGED vars
    BY <1>16, <1>0
       DEF vars, trustVars, dockerVars, TypeInv, TypeOK, CallRecords, Numbered, Id
  <1> QED
    BY <1>1, <1>2, <1>3, <1>4, <1>5, <1>6, <1>7, <1>8, <1>9, <1>10, <1>11, <1>12, <1>13,
       <1>14, <1>15, <1>16 DEF Next, CallStep

LEMMA TypeInvInit == Init => TypeInv
  BY TypeInit DEF TypeInv, Numbered, Init

\* Every variable keeps its type, and a call that has claimed its run has its
\* number: dispatches, collections, recoveries and deaths in any order.
THEOREM TypeCorrect == Spec => []TypeOK
  <1>1. TypeInv => TypeOK
    BY DEF TypeInv
  <1> QED BY TypeInvInit, TypeStep, <1>1, PTL DEF Spec

-----------------------------------------------------------------------------
(* Calls and their containers.                                             *)

Early == {"claimed", "listed", "swept", "admitted"}
OwnsContainer == {"created", "ran", "removing"}

\* Numbers are given once.
NumbersFit ==
  /\ \A d \in Dispatchers :
       Id(d) <= calls /\ (stage[d] \in {"idle", "trusted"} => Id(d) = 0)
  /\ \A d, e \in Dispatchers : Id(d) = Id(e) /\ Id(d) # 0 => d = e

\* Nobody knows the container of a call that has not created it.
UnbornUnknown ==
  /\ \A c \in containers \cup evicted \cup landed : c <= calls
  /\ \A e \in Dispatchers : \A c \in call[e].seen : c <= calls
  /\ \A d \in Dispatchers : stage[d] \in Early \cup {"trusted"} => call[d].result = "none"
  /\ \A d \in Dispatchers : stage[d] \in Early =>
       /\ Id(d) \notin containers \cup evicted \cup landed
       /\ \A e \in Dispatchers : Id(d) \notin call[e].seen

\* A call that lost its container cannot use it, and comes to no patch.
EvictedIsGone ==
  \A d \in Dispatchers : Id(d) \in evicted =>
    /\ stage[d] \in {"created", "ran"} => Id(d) \notin containers
    /\ stage[d] \in {"removing", "finalizing"} => call[d].result # "patch"

\* A call that landed records its success, or has become a failure since.
LandedIsDone ==
  \A d \in Dispatchers : Id(d) \in landed =>
    \/ stage[d] \in {"recording", "storing"}
    \/ stage[d] = "finalizing" /\ call[d].result # "patch"

CallInv ==
  /\ NumbersFit /\ UnbornUnknown /\ EvictedIsGone /\ LandedIsDone
  /\ EvictedNeverLands /\ CollectedStaysGone /\ FinishedCallsLeaveNothing

LEMMA CallInit == Init => CallInv
  BY DEF Init, CallInv, NumbersFit, UnbornUnknown, EvictedIsGone, LandedIsDone,
         EvictedNeverLands, CollectedStaysGone, FinishedCallsLeaveNothing, Id, NoCall, Early

\* What a dispatcher may do while the daemon's containers stay as they are.
QuietMove(d, next, held) ==
  \/ /\ next \in {"idle", "trusted"} /\ held.id = 0 /\ held.seen = {} /\ held.result = "none"
     /\ stage[d] \in OwnsContainer => Id(d) \in excused'
  \/ /\ held.id = Id(d) /\ held.seen = call[d].seen
     /\ \/ stage[d] = "swept" /\ next = "admitted" /\ held.result = call[d].result
        \/ /\ stage[d] \in Early \cup {"finalizing", "recording", "storing"}
           /\ next = "finalizing" /\ held.result # "patch"
        \/ stage[d] = "created" /\ next = "ran"
        \/ stage[d] = "ran" /\ next = "removing" /\ Id(d) \in containers
        \/ stage[d] \in {"created", "ran"} /\ next = "removing" /\ held.result # "patch"
        \/ stage[d] \in {"finalizing", "recording"} /\ next \in {"recording", "storing"}

LEMMA QuietStep ==
  ASSUME TypeInv, CallInv, NEW d \in Dispatchers, NEW next \in Stages, NEW held \in CallRecords,
         Moves(d, next), call' = [call EXCEPT ![d] = held], QuietMove(d, next, held),
         UNCHANGED <<containers, evicted, landed, calls>>, excused \subseteq excused'
  PROVE  CallInv'
  <1>1. /\ stage'[d] = next /\ call'[d] = held
        /\ \A e \in Dispatchers \ {d} : stage'[e] = stage[e] /\ call'[e] = call[e]
    BY CallUpdate DEF TypeInv
  <1>2. /\ \A e \in Dispatchers : Id(e) \in 0 .. MaxCalls
        /\ calls \in 0 .. MaxCalls /\ Id(d)' = held.id
        /\ containers \subseteq Calls /\ evicted \subseteq Calls /\ landed \subseteq Calls
    BY <1>1, CallTypes DEF TypeInv, TypeOK, Id
  <1>3. \A e \in Dispatchers \ {d} : Id(e)' = Id(e)
    BY <1>1 DEF Id
  <1>4. held.id = Id(d) \/ (held.id = 0 /\ next \in {"idle", "trusted"})
    BY DEF QuietMove
  <1>5. held.seen \subseteq call[d].seen
    BY DEF QuietMove
  <1>6. NumbersFit'
    BY <1>1, <1>2, <1>3, <1>4, CallBoundAssumption DEF CallInv, NumbersFit, QuietMove, Early
  <1>7. UnbornUnknown'
    BY <1>1, <1>2, <1>3, <1>4, <1>5 DEF CallInv, UnbornUnknown, QuietMove, Early
  <1>8. EvictedIsGone'
    BY <1>1, <1>2, <1>3, <1>4 DEF CallInv, EvictedIsGone, UnbornUnknown, QuietMove, Early, Calls
  <1>9. LandedIsDone'
    BY <1>1, <1>2, <1>3, <1>4 DEF CallInv, LandedIsDone, QuietMove, Early, Calls
  <1>10. EvictedNeverLands' /\ CollectedStaysGone'
    BY <1>1, <1>5 DEF CallInv, EvictedNeverLands, CollectedStaysGone, QuietMove, Early
  <1>11. FinishedCallsLeaveNothing'
    BY <1>1, <1>2, <1>3 DEF CallInv, FinishedCallsLeaveNothing, QuietMove, Early, OwnsContainer
  <1> QED BY <1>6, <1>7, <1>8, <1>9, <1>10, <1>11 DEF CallInv

\* Removing containers preserves it, and so does a collector that goes on once
\* what it saw is gone, or gives up.
LEMMA RemovalStep ==
  ASSUME TypeInv, CallInv, NEW S, Removes(S), UNCHANGED <<excused, landed, calls>>,
         \/ UNCHANGED <<stage, call>>
         \/ \E d \in Dispatchers, next \in {"swept", "finalizing"}, held \in CallRecords :
              /\ stage[d] = "listed"
              /\ Moves(d, next) /\ call' = [call EXCEPT ![d] = held]
              /\ held.id = Id(d) /\ held.seen = call[d].seen
              /\ IF next = "swept" THEN S = call[d].seen /\ held.result = call[d].result
                                   ELSE held.result # "patch"
  PROVE  CallInv'
  <1>1. \A e \in Dispatchers :
          /\ call'[e].id = call[e].id /\ call'[e].seen = call[e].seen /\ Id(e)' = Id(e)
          /\ \/ stage'[e] = stage[e] /\ call'[e].result = call[e].result
             \/ /\ stage[e] = "listed" /\ stage'[e] = "swept" /\ S = call[e].seen
                /\ call'[e].result = call[e].result
             \/ stage[e] = "listed" /\ stage'[e] = "finalizing" /\ call'[e].result # "patch"
    <2>1. CASE UNCHANGED <<stage, call>>
      BY <2>1 DEF Id
    <2>2. ASSUME NEW d \in Dispatchers, NEW next \in {"swept", "finalizing"},
                 NEW held \in CallRecords, stage[d] = "listed",
                 Moves(d, next), call' = [call EXCEPT ![d] = held],
                 held.id = Id(d), held.seen = call[d].seen,
                 IF next = "swept" THEN S = call[d].seen /\ held.result = call[d].result
                                   ELSE held.result # "patch",
                 NEW e \in Dispatchers
          PROVE  /\ call'[e].id = call[e].id /\ call'[e].seen = call[e].seen
                 /\ \/ stage'[e] = stage[e] /\ call'[e].result = call[e].result
                    \/ /\ stage[e] = "listed" /\ stage'[e] = "swept" /\ S = call[e].seen
                       /\ call'[e].result = call[e].result
                    \/ stage[e] = "listed" /\ stage'[e] = "finalizing"
                       /\ call'[e].result # "patch"
      <3>1. next \in Stages
        BY DEF Stages
      <3>2. /\ stage'[d] = next /\ call'[d] = held
            /\ \A g \in Dispatchers \ {d} : stage'[g] = stage[g] /\ call'[g] = call[g]
        BY <2>2, <3>1, CallUpdate DEF TypeInv
      <3>3. CASE e = d
        BY <3>3, <3>2, <2>2 DEF Id
      <3>4. CASE e # d
        BY <3>4, <3>2
      <3> QED BY <3>3, <3>4
    <2> QED BY <2>1, <2>2 DEF Id
  <1>2. /\ containers' \subseteq containers /\ containers' \cap S = {}
        /\ \A c \in evicted' \ evicted : c \in containers \ containers' /\ AtWork(c)
        /\ evicted \subseteq evicted'
    BY DEF Removes
  <1>3. \A d \in Dispatchers : Id(d) \in 0 .. MaxCalls
    BY CallTypes DEF TypeInv
  <1>4. NumbersFit'
    BY <1>1 DEF CallInv, NumbersFit
  <1>5. UnbornUnknown'
    BY <1>1, <1>2 DEF CallInv, UnbornUnknown, Early
  <1>6. EvictedIsGone'
    <2> SUFFICES ASSUME NEW d \in Dispatchers, Id(d)' \in evicted'
                 PROVE  /\ stage'[d] \in {"created", "ran"} => Id(d)' \notin containers'
                        /\ stage'[d] \in {"removing", "finalizing"} => call'[d].result # "patch"
      BY DEF EvictedIsGone
    <2>1. CASE Id(d) \in evicted
      BY <2>1, <1>1, <1>2 DEF CallInv, EvictedIsGone
    <2>2. CASE Id(d) \notin evicted
      <3>1. Id(d) \in containers \ containers' /\ AtWork(Id(d))
        BY <2>2, <1>1, <1>2
      <3>2. PICK e \in Dispatchers : Id(e) = Id(d) /\ stage[e] \in {"created", "ran"}
        BY <3>1 DEF AtWork
      <3>3. e = d
        BY <3>1, <3>2, <1>2, <1>3 DEF CallInv, NumbersFit, TypeInv, TypeOK, Calls
      <3> QED BY <3>1, <3>2, <3>3, <1>1
    <2> QED BY <2>1, <2>2
  <1>7. LandedIsDone'
    BY <1>1 DEF CallInv, LandedIsDone
  <1>8. EvictedNeverLands'
    BY <1>2 DEF CallInv, EvictedNeverLands, LandedIsDone, AtWork
  <1>9. CollectedStaysGone'
    BY <1>1, <1>2 DEF CallInv, CollectedStaysGone
  <1>10. FinishedCallsLeaveNothing'
    BY <1>1, <1>2 DEF CallInv, FinishedCallsLeaveNothing
  <1> QED BY <1>4, <1>5, <1>6, <1>7, <1>8, <1>9, <1>10 DEF CallInv

LEMMA ClaimStep ==
  ASSUME TypeInv, CallInv, NEW d \in Dispatchers, ClaimRun(d)
  PROVE  CallInv'
  <1>1. /\ calls \in 0 .. MaxCalls /\ calls + 1 \in 1 .. MaxCalls /\ calls' = calls + 1
        /\ call[d] \in CallRecords /\ stage[d] = "trusted"
        /\ UNCHANGED <<containers, evicted, excused, landed>>
    BY CallTypes, CallBoundAssumption DEF ClaimRun, TypeInv, TypeOK, dockerVars
  <1> DEFINE held == [call[d] EXCEPT !.id = calls + 1]
  <1>2. /\ held \in CallRecords /\ held.id = calls + 1 /\ held.seen = call[d].seen
        /\ call' = [call EXCEPT ![d] = held] /\ held.result = call[d].result
    BY <1>1 DEF ClaimRun, CallRecords
  <1>3. /\ stage'[d] = "claimed" /\ call'[d] = held
        /\ \A e \in Dispatchers \ {d} : stage'[e] = stage[e] /\ call'[e] = call[e]
    <2> HIDE DEF held
    <2>1. Moves(d, "claimed") /\ "claimed" \in Stages
      BY DEF ClaimRun, Stages
    <2> QED BY <1>2, <2>1, CallUpdate DEF TypeInv
  <1> HIDE DEF held
  <1>4. /\ Id(d)' = calls + 1 /\ \A e \in Dispatchers \ {d} : Id(e)' = Id(e)
        /\ \A e \in Dispatchers : Id(e) \in 0 .. MaxCalls /\ call'[e].seen = call[e].seen
        /\ \A e \in Dispatchers : Id(e) # calls + 1
    BY <1>1, <1>2, <1>3, CallTypes DEF Id, TypeInv, CallInv, NumbersFit
  <1>5. \A c \in Calls : c \in Nat
    BY CallBoundAssumption DEF Calls
  <1>6. /\ containers \subseteq Calls /\ evicted \subseteq Calls /\ landed \subseteq Calls
        /\ \A e \in Dispatchers : call[e].seen \subseteq Calls
    BY CallTypes DEF TypeInv, TypeOK, CallRecords
  <1>7. NumbersFit'
    BY <1>1, <1>3, <1>4 DEF CallInv, NumbersFit
  <1>8. UnbornUnknown'
    <2>1. \A c \in containers' \cup evicted' \cup landed' : c <= calls'
      BY <1>1, <1>5, <1>6 DEF CallInv, UnbornUnknown
    <2>2. \A e \in Dispatchers : \A c \in call'[e].seen : c <= calls'
      BY <1>1, <1>4, <1>5, <1>6 DEF CallInv, UnbornUnknown
    <2>3. calls + 1 \notin containers \cup evicted \cup landed
          /\ \A e \in Dispatchers : calls + 1 \notin call[e].seen
      BY <1>1, <1>5, <1>6 DEF CallInv, UnbornUnknown
    <2> QED BY <2>1, <2>2, <2>3, <1>1, <1>2, <1>3, <1>4 DEF CallInv, UnbornUnknown, Early
  <1>9. EvictedIsGone' /\ LandedIsDone'
    BY <1>1, <1>3, <1>4, <1>5, <1>6 DEF CallInv, EvictedIsGone, LandedIsDone, UnbornUnknown
  <1>10. EvictedNeverLands' /\ CollectedStaysGone'
    BY <1>1, <1>3, <1>4 DEF CallInv, EvictedNeverLands, CollectedStaysGone
  <1>11. FinishedCallsLeaveNothing'
    BY <1>1, <1>3, <1>4 DEF CallInv, FinishedCallsLeaveNothing
  <1> QED BY <1>7, <1>8, <1>9, <1>10, <1>11 DEF CallInv

LEMMA ListStep ==
  ASSUME TypeInv, CallInv, NEW d \in Dispatchers, ListContainers(d)
  PROVE  CallInv'
  <1>1. /\ containers \subseteq Calls /\ call[d] \in CallRecords /\ stage[d] = "claimed"
        /\ UNCHANGED <<containers, evicted, excused, landed, calls>>
        /\ \A e \in Dispatchers : Id(e) \in 0 .. MaxCalls
    BY CallTypes DEF ListContainers, TypeInv, TypeOK, dockerVars
  <1> DEFINE held == [call[d] EXCEPT !.seen = containers]
  <1>2. /\ held \in CallRecords /\ held.id = call[d].id /\ held.seen = containers
        /\ call' = [call EXCEPT ![d] = held] /\ held.result = call[d].result
    BY <1>1 DEF ListContainers, CallRecords
  <1>3. /\ stage'[d] = "listed" /\ call'[d] = held
        /\ \A e \in Dispatchers \ {d} : stage'[e] = stage[e] /\ call'[e] = call[e]
    <2> HIDE DEF held
    <2>1. Moves(d, "listed") /\ "listed" \in Stages
      BY DEF ListContainers, Stages
    <2> QED BY <1>2, <2>1, CallUpdate DEF TypeInv
  <1> HIDE DEF held
  <1>4. \A e \in Dispatchers : Id(e)' = Id(e)
    BY <1>2, <1>3 DEF Id
  <1>5. NumbersFit' /\ UnbornUnknown'
    BY <1>1, <1>2, <1>3, <1>4 DEF CallInv, NumbersFit, UnbornUnknown, Early
  <1>6. EvictedIsGone' /\ LandedIsDone'
    BY <1>1, <1>2, <1>3, <1>4 DEF CallInv, EvictedIsGone, LandedIsDone
  <1>7. EvictedNeverLands' /\ CollectedStaysGone' /\ FinishedCallsLeaveNothing'
    BY <1>1, <1>3, <1>4
       DEF CallInv, EvictedNeverLands, CollectedStaysGone, FinishedCallsLeaveNothing
  <1> QED BY <1>5, <1>6, <1>7 DEF CallInv

\* A container appears that nobody knew, or its own call removes it.
LEMMA ContainerStep ==
  ASSUME TypeInv, CallInv, NEW d \in Dispatchers, CreateContainer(d) \/ RemoveOwn(d)
  PROVE  CallInv'
  <1>1. /\ \A e \in Dispatchers : Id(e) \in 0 .. MaxCalls /\ call'[e] = call[e] /\ Id(e)' = Id(e)
        /\ UNCHANGED <<evicted, landed, calls, call>> /\ excused \subseteq excused'
        /\ containers' \subseteq containers \cup {Id(d)}
        /\ \A c \in containers \ {Id(d)} : c \in containers'
        /\ \/ stage[d] = "admitted"
           \/ stage[d] = "removing" /\ Id(d) \in containers' => Id(d) \in excused'
    BY CallTypes DEF CreateContainer, RemoveOwn, TypeInv, Id
  <1>2. \/ stage[d] = "admitted" /\ stage'[d] = "created"
        \/ stage[d] = "removing" /\ stage'[d] = "finalizing" /\ containers' \subseteq containers
    BY DEF CreateContainer, RemoveOwn, Moves, TypeInv, TypeOK
  <1>3. \A e \in Dispatchers \ {d} : stage'[e] = stage[e]
    BY DEF CreateContainer, RemoveOwn, Moves, TypeInv, TypeOK
  <1>4. Id(d) # 0 /\ Id(d) <= calls
    BY <1>2 DEF TypeInv, Numbered, CallInv, NumbersFit
  <1>5. NumbersFit'
    BY <1>1, <1>2, <1>3 DEF CallInv, NumbersFit
  <1>6. UnbornUnknown'
    BY <1>1, <1>2, <1>3, <1>4 DEF CallInv, UnbornUnknown, NumbersFit, Early
  <1>7. EvictedIsGone' /\ LandedIsDone'
    BY <1>1, <1>2, <1>3, <1>4
       DEF CallInv, EvictedIsGone, LandedIsDone, UnbornUnknown, NumbersFit, Early
  <1>8. EvictedNeverLands' /\ CollectedStaysGone'
    BY <1>1, <1>2, <1>3 DEF CallInv, EvictedNeverLands, CollectedStaysGone, UnbornUnknown, Early
  <1>9. FinishedCallsLeaveNothing'
    BY <1>1, <1>2, <1>3 DEF CallInv, FinishedCallsLeaveNothing, RemoveOwn, CreateContainer
  <1> QED BY <1>5, <1>6, <1>7, <1>8, <1>9 DEF CallInv

LEMMA FinalizeStep ==
  ASSUME TypeInv, CallInv, NEW d \in Dispatchers, Finalize(d)
  PROVE  CallInv'
  <1>1. /\ stage[d] = "finalizing" /\ call[d] \in CallRecords /\ NoCall \in CallRecords
        /\ UNCHANGED <<containers, evicted, excused, calls>>
        /\ \A e \in Dispatchers : Id(e) \in 0 .. MaxCalls
    BY CallTypes DEF Finalize, TypeInv, dockerVars
  <1>2. {"idle", "recording"} \subseteq Stages
    BY DEF Stages
  <1>3. CASE landed' = landed
    <2>1. CASE EndsCall(d)
      BY <2>1, <1>1, <1>2, <1>3, QuietStep DEF EndsCall, QuietMove, NoCall, OwnsContainer
    <2>2. CASE Moves(d, "recording") /\ call' = call
      <3>1. call' = [call EXCEPT ![d] = call[d]]
        BY <2>2 DEF TypeInv, TypeOK
      <3> QED BY <2>2, <3>1, <1>1, <1>2, <1>3, QuietStep DEF QuietMove, Id
    <2> QED BY <2>1, <2>2 DEF Finalize
  <1>4. CASE landed' # landed
    <2>1. /\ call[d].result = "patch" /\ landed' = landed \cup {Id(d)}
          /\ Moves(d, "recording") /\ call' = call
      BY <1>4 DEF Finalize
    <2>2. /\ stage'[d] = "recording"
          /\ \A e \in Dispatchers \ {d} : stage'[e] = stage[e]
          /\ \A e \in Dispatchers : Id(e)' = Id(e)
      BY <2>1 DEF Moves, TypeInv, TypeOK, Id
    <2>3. Id(d) \notin evicted /\ Id(d) # 0 /\ Id(d) <= calls
      BY <1>1, <2>1 DEF CallInv, EvictedIsGone, TypeInv, Numbered, NumbersFit
    <2>4. NumbersFit' /\ UnbornUnknown'
      BY <1>1, <2>1, <2>2, <2>3 DEF CallInv, NumbersFit, UnbornUnknown, Early
    <2>5. EvictedIsGone' /\ LandedIsDone'
      BY <1>1, <2>1, <2>2, <2>3 DEF CallInv, EvictedIsGone, LandedIsDone, NumbersFit
    <2>6. EvictedNeverLands' /\ CollectedStaysGone' /\ FinishedCallsLeaveNothing'
      BY <1>1, <2>1, <2>2, <2>3
         DEF CallInv, EvictedNeverLands, CollectedStaysGone, FinishedCallsLeaveNothing
    <2> QED BY <2>4, <2>5, <2>6 DEF CallInv
  <1> QED BY <1>3, <1>4

LEMMA CallStepPreserves ==
  ASSUME TypeInv, CallInv, [Next]_vars
  PROVE  CallInv'
  <1>0. /\ \A d \in Dispatchers : call[d] \in CallRecords /\ NoCall \in CallRecords
        /\ call \in [Dispatchers -> CallRecords] /\ trust \in TrustRows
        /\ {"idle", "trusted", "admitted", "ran", "removing", "finalizing", "recording",
            "storing", "swept"} \subseteq Stages
    BY CallTypes DEF TypeInv, TypeOK, Stages, CallRecords
  <1>a. NoCall.id = 0 /\ NoCall.seen = {} /\ NoCall.result = "none"
    BY DEF NoCall
  <1>1. ASSUME NEW d \in Dispatchers,
               \/ ClaimRefused(d) \/ StoreTrust(d) \/ Dies(d)
               \/ (PersistFails(d) \/ RecordFails(d)) /\ EndsCall(d)
        PROVE  CallInv'
    <2>1. /\ EndsCall(d) /\ UNCHANGED <<containers, evicted, landed, calls>>
          /\ excused \subseteq excused'
          /\ stage[d] \in OwnsContainer => Id(d) \in excused'
      <3>1. CASE Dies(d)
        BY <3>1 DEF Dies, TypeInv, Numbered, OwnsContainer
      <3>2. CASE ClaimRefused(d) \/ StoreTrust(d)
        BY <3>2 DEF ClaimRefused, StoreTrust, OwnsContainer, dockerVars
      <3>3. CASE (PersistFails(d) \/ RecordFails(d)) /\ EndsCall(d)
        BY <3>3 DEF PersistFails, RecordFails, OwnsContainer, dockerVars
      <3> QED BY <1>1, <3>1, <3>2, <3>3
    <2> QED BY <1>0, <1>a, <2>1, QuietStep DEF EndsCall, QuietMove
  <1>2. ASSUME NEW d \in Dispatchers, ReadTrust(d) PROVE CallInv'
    <2>1. PICK r \in Runs : call' = [call EXCEPT ![d] =
                               [NoCall EXCEPT !.run = r, !.forced = trust.required]]
      BY <1>2 DEF ReadTrust
    <2> DEFINE held == [NoCall EXCEPT !.run = r, !.forced = trust.required]
    <2>2. held \in CallRecords /\ held.id = 0 /\ held.seen = {} /\ held.result = "none"
      BY <1>0, <1>a DEF CallRecords, TrustRows
    <2>3. /\ Moves(d, "trusted") /\ stage[d] \notin OwnsContainer
          /\ UNCHANGED <<containers, evicted, excused, landed, calls>>
      BY <1>2 DEF ReadTrust, dockerVars, OwnsContainer
    <2>4. call' = [call EXCEPT ![d] = held]
      BY <2>1
    <2> HIDE DEF held
    <2> QED BY <1>0, <2>2, <2>3, <2>4, QuietStep DEF QuietMove
  <1>3. ASSUME NEW d \in Dispatchers, NEW next \in Stages, NEW result \in Results,
               call' = [call EXCEPT ![d] = [call[d] EXCEPT !.result = result]],
               Moves(d, next),
               \/ /\ stage[d] \in {"claimed", "swept", "admitted", "finalizing",
                                  "recording", "storing"}
                  /\ next = "finalizing" /\ result # "patch"
               \/ stage[d] = "created" /\ next = "ran"
               \/ stage[d] \in {"created", "ran"} /\ next = "removing" /\ result # "patch",
               UNCHANGED <<containers, evicted, landed, calls, excused>>
        PROVE  CallInv'
    <2> DEFINE held == [call[d] EXCEPT !.result = result]
    <2>1. /\ held \in CallRecords /\ held.id = Id(d) /\ held.seen = call[d].seen
          /\ held.result = result
      BY <1>0 DEF CallRecords, Id
    <2>2. call' = [call EXCEPT ![d] = held]
      BY <1>3
    <2> HIDE DEF held
    <2> QED BY <1>3, <2>1, <2>2, QuietStep DEF QuietMove, Early
  <1>4. ASSUME NEW d \in Dispatchers,
               \/ Refuse(d) \/ DockerFails(d) \/ ContainerFails(d) \/ Work(d)
               \/ PersistFails(d) \/ RecordFails(d)
        PROVE  CallInv'
    <2>1. UNCHANGED <<containers, evicted, landed, calls, excused>>
      BY <1>4 DEF Refuse, DockerFails, ContainerFails, PersistFails, RecordFails, Work, dockerVars
    <2>2. CASE Refuse(d)
      BY <2>1, <2>2, <1>0, <1>3 DEF Refuse, Results
    <2>3. CASE DockerFails(d) \/ ContainerFails(d)
      BY <2>1, <2>3, <1>0, <1>3 DEF DockerFails, ContainerFails, DockerSaysNo, Results
    <2>4. CASE Work(d)
      BY <2>1, <2>4, <1>0, <1>3 DEF Work, Results
    <2>5. CASE PersistFails(d) \/ RecordFails(d)
      <3>1. CASE call[d].result = "patch"
        <4>1. /\ DockerSaysNo(d, "finalizing")
              /\ stage[d] \in {"finalizing", "recording", "storing"}
          BY <2>5, <3>1 DEF PersistFails, RecordFails, Raises
        <4> QED BY <2>1, <4>1, <1>0, <1>3 DEF DockerSaysNo, Results
      <3>2. CASE call[d].result # "patch"
        BY <2>5, <3>2, <1>1 DEF PersistFails, RecordFails, Raises
      <3> QED BY <3>1, <3>2
    <2> QED BY <1>4, <2>2, <2>3, <2>4, <2>5
  <1>5. ASSUME NEW d \in Dispatchers, Admit(d) \/ CopyOut(d) PROVE CallInv'
    <2>1. call' = [call EXCEPT ![d] = call[d]]
      BY <1>5, <1>0 DEF Admit, CopyOut
    <2>2. UNCHANGED <<containers, evicted, landed, calls, excused>>
      BY <1>5 DEF Admit, CopyOut, dockerVars
    <2>3. CASE Admit(d)
      BY <2>1, <2>2, <2>3, <1>0, QuietStep DEF Admit, QuietMove, Id
    <2>4. CASE CopyOut(d)
      BY <2>1, <2>2, <2>4, <1>0, QuietStep DEF CopyOut, QuietMove, Id
    <2> QED BY <1>5, <2>3, <2>4
  <1>6. ASSUME NEW d \in Dispatchers, LoadTrust(d) PROVE CallInv'
    <2> DEFINE held == [call[d] EXCEPT !.row = trust]
    <2>1. /\ held \in CallRecords /\ held.id = Id(d) /\ held.seen = call[d].seen
          /\ call' = [call EXCEPT ![d] = held]
      BY <1>0, <1>6 DEF LoadTrust, CallRecords, Id
    <2>2. /\ Moves(d, "storing") /\ stage[d] = "recording"
          /\ UNCHANGED <<containers, evicted, landed, calls, excused>>
      BY <1>6 DEF LoadTrust, dockerVars
    <2> HIDE DEF held
    <2> QED BY <2>1, <2>2, <1>0, QuietStep DEF QuietMove
  <1>7. ASSUME NEW d \in Dispatchers, Sweep(d) PROVE CallInv'
    <2>1. call' = [call EXCEPT ![d] = call[d]]
      BY <1>7, <1>0 DEF Sweep
    <2> QED BY <1>7, <2>1, <1>0, RemovalStep DEF Sweep, Id
  <1>8. ASSUME NEW d \in Dispatchers, SweepFails(d) PROVE CallInv'
    <2>1. PICK result \in {"mismatch", "failure"} :
            call' = [call EXCEPT ![d] = [call[d] EXCEPT !.result = result]]
      BY <1>8 DEF SweepFails, DockerSaysNo
    <2> DEFINE held == [call[d] EXCEPT !.result = result]
    <2>2. /\ held \in CallRecords /\ held.id = Id(d) /\ held.seen = call[d].seen
          /\ held.result # "patch" /\ call' = [call EXCEPT ![d] = held]
      BY <1>0, <2>1 DEF CallRecords, Id, Results
    <2>3. /\ stage[d] = "listed" /\ Moves(d, "finalizing")
          /\ UNCHANGED <<excused, landed, calls>>
      BY <1>8 DEF SweepFails, DockerSaysNo
    <2>4. PICK S \in SUBSET call[d].seen : Removes(S)
      BY <1>8 DEF SweepFails
    <2> HIDE DEF held
    <2> QED BY <2>2, <2>3, <2>4, RemovalStep
  <1>9. ASSUME NEW r \in Runs, Reclaim(r) PROVE CallInv'
    <2>1. UNCHANGED <<excused, landed, stage, call, calls>>
      BY <1>9 DEF Reclaim
    <2>2. Removes({holder[r]}) \/ Removes({})
      BY <1>9 DEF Reclaim, Removes
    <2> QED BY <2>1, <2>2, RemovalStep
  <1>10. CASE UNCHANGED vars
    <2>1. Removes({}) /\ UNCHANGED <<excused, landed, stage, call, calls>>
      BY <1>10 DEF vars, dockerVars, Removes
    <2> QED BY <2>1, RemovalStep
  <1> QED
    BY <1>1, <1>2, <1>4, <1>5, <1>6, <1>7, <1>8, <1>9, <1>10,
       ClaimStep, ListStep, ContainerStep, FinalizeStep DEF Next, CallStep

LEMMA CallsAreSound == Spec => [](TypeInv /\ CallInv)
  <1>1. Init => TypeInv /\ CallInv
    BY TypeInvInit, CallInit
  <1>2. TypeInv /\ CallInv /\ [Next]_vars => (TypeInv /\ CallInv)'
    BY TypeStep, CallStepPreserves
  <1> QED BY <1>1, <1>2, PTL DEF Spec

\* A call whose container was removed by another dispatch's collector or by a
\* recovery lands no patch: not before the removal and not after it, however
\* many dispatches share the daemon.
THEOREM LostContainersLandNothing == Spec => []EvictedNeverLands
  <1>1. CallInv => EvictedNeverLands
    BY DEF CallInv
  <1> QED BY CallsAreSound, <1>1, PTL

\* From its collection until it has removed its own container, a dispatch works
\* without any of the containers it found at its start.
THEOREM CollectionIsComplete == Spec => []CollectedStaysGone
  <1>1. CallInv => CollectedStaysGone
    BY DEF CallInv
  <1> QED BY CallsAreSound, <1>1, PTL

\* Every way a call may end, but its death and docker's refusal to remove,
\* takes the call's container with it.
THEOREM NothingIsLeftBehind == Spec => []FinishedCallsLeaveNothing
  <1>1. CallInv => FinishedCallsLeaveNothing
    BY DEF CallInv
  <1> QED BY CallsAreSound, <1>1, PTL

-----------------------------------------------------------------------------
(* The trust row and the verdicts behind it.                               *)

\* n verdicts v, and no more, end the history.
EndsWith(v, n) ==
  /\ n \in 0 .. Len(verdicts)
  /\ \A i \in 1 .. Len(verdicts) : i > Len(verdicts) - n => verdicts[i] = v
  /\ n = Len(verdicts) \/ verdicts[Len(verdicts) - n] # v

\* Trailing chooses what there is: known by induction over the steps.
TrailsExist == \A v \in Verdicts : EndsWith(v, Trailing(v))

\* A result is known before it is finalized, and only a patch or a mismatch
\* gets to the trust row.
ResultKnown ==
  \A d \in Dispatchers :
    /\ stage[d] \in {"ran", "removing", "finalizing"} => call[d].result # "none"
    /\ stage[d] \in {"recording", "storing"} => call[d].result \in {"patch", "mismatch"}

TrustInv == TrailsExist /\ ResultKnown /\ TrustFollowsVerdicts

LEMMA TrailUnique ==
  ASSUME TypeInv, NEW v \in Verdicts, NEW n, EndsWith(v, n)
  PROVE  Trailing(v) = n /\ EndsWith(v, Trailing(v))
  <1>1. Len(verdicts) \in Nat
    BY DEF TypeInv, TypeOK
  <1>2. \A m : EndsWith(v, m) => m = n
    BY <1>1 DEF EndsWith
  <1>3. Trailing(v) = CHOOSE m \in 0 .. Len(verdicts) : EndsWith(v, m)
    BY DEF Trailing, EndsWith
  <1>4. n \in 0 .. Len(verdicts)
    BY DEF EndsWith
  <1> HIDE DEF EndsWith
  <1>5. EndsWith(v, CHOOSE m \in 0 .. Len(verdicts) : EndsWith(v, m))
    BY <1>4
  <1> QED BY <1>2, <1>3, <1>5

LEMMA TrailAppend ==
  ASSUME TypeInv, TypeInv', TrailsExist, NEW x \in Verdicts, verdicts' = Append(verdicts, x),
         NEW v \in Verdicts
  PROVE  /\ EndsWith(v, Trailing(v))'
         /\ Trailing(v)' = IF x = v THEN Trailing(v) + 1 ELSE 0
  <1>0. PICK n : n = IF x = v THEN Trailing(v) + 1 ELSE 0
    OBVIOUS
  <1>1. /\ verdicts \in Seq(Verdicts) /\ Len(verdicts) \in Nat
        /\ Len(verdicts') = Len(verdicts) + 1 /\ verdicts'[Len(verdicts) + 1] = x
        /\ \A i \in 1 .. Len(verdicts) : verdicts'[i] = verdicts[i]
    BY DEF TypeInv, TypeOK
  <1>2. EndsWith(v, Trailing(v))
    BY DEF TrailsExist
  <1>3. EndsWith(v, n)'
    BY <1>0, <1>1, <1>2 DEF EndsWith
  <1>4. \A m : EndsWith(v, m)' => m = n
    BY <1>1, <1>3, SMTT(30) DEF EndsWith
  <1>5. Trailing(v)' = CHOOSE m \in 0 .. Len(verdicts') : EndsWith(v, m)'
    BY DEF Trailing, EndsWith
  <1>6. n \in 0 .. Len(verdicts')
    BY <1>3 DEF EndsWith
  <1> HIDE DEF EndsWith
  <1>7. (CHOOSE m \in 0 .. Len(verdicts') : EndsWith(v, m)') = n
    BY <1>3, <1>4, <1>6
  <1>8. Trailing(v)' = n
    BY <1>5, <1>7
  <1> QED BY <1>0, <1>3, <1>8

LEMMA StreakIsTrail ==
  ASSUME TypeInv', NEW v \in Verdicts, NEW n \in Nat \ {0}, EndsWith(v, Trailing(v))',
         NEW i \in Nat, i = Len(verdicts')
  PROVE  EndsStreak(i, v, n)' <=> n <= Trailing(v)'
  <1> DEFINE m == Trailing(v)'
  <1>1. Len(verdicts') \in Nat /\ m \in 0 .. Len(verdicts')
    BY DEF TypeInv, TypeOK, EndsWith
  <1>2. ASSUME n <= m PROVE EndsStreak(i, v, n)'
    BY <1>1, <1>2 DEF EndsWith, EndsStreak
  <1>3. ASSUME EndsStreak(i, v, n)', ~(n <= m) PROVE FALSE
    <2>1. Len(verdicts') - m \in Len(verdicts') - n + 1 .. Len(verdicts')
          /\ m # Len(verdicts')
      BY <1>1, <1>3 DEF EndsStreak
    <2>2. verdicts'[Len(verdicts') - m] = v
      BY <2>1, <1>3 DEF EndsStreak
    <2> QED BY <1>1, <2>1, <2>2 DEF EndsWith
  <1> QED BY <1>2, <1>3

LEMMA UntrustedAppend ==
  ASSUME TypeInv, TypeInv', TrailsExist, NEW x \in Verdicts, verdicts' = Append(verdicts, x)
  PROVE  Untrusted' <=> \/ StrikeThreshold <= Trailing("strike")'
                        \/ Untrusted /\ ~(RecoveryThreshold <= Trailing("checked")')
  <1>1. /\ Len(verdicts) \in Nat /\ Len(verdicts') = Len(verdicts) + 1
        /\ \A i \in 1 .. Len(verdicts) : verdicts'[i] = verdicts[i]
        /\ "strike" \in Verdicts /\ "checked" \in Verdicts
        /\ StrikeThreshold \in Nat \ {0} /\ RecoveryThreshold \in Nat \ {0}
    BY ThresholdAssumption DEF TypeInv, TypeOK, Verdicts
  <1>2. \A i \in 1 .. Len(verdicts), v \in Verdicts, n \in Nat \ {0} :
          EndsStreak(i, v, n)' <=> EndsStreak(i, v, n)
    BY <1>1 DEF EndsStreak
  <1>3. \A i : i = Len(verdicts') =>
          /\ EndsStreak(i, "strike", StrikeThreshold)' <=> StrikeThreshold <= Trailing("strike")'
          /\ EndsStreak(i, "checked", RecoveryThreshold)'
               <=> RecoveryThreshold <= Trailing("checked")'
    BY <1>1, TrailAppend, StreakIsTrail
  <1>4. ASSUME StrikeThreshold <= Trailing("strike")' PROVE Untrusted'
    <2>1. Len(verdicts') \in 1 .. Len(verdicts')
      BY <1>1
    <2>2. \A k \in Len(verdicts') + 1 .. Len(verdicts') : FALSE
      BY <1>1
    <2> QED BY <1>3, <1>4, <2>1, <2>2 DEF Untrusted
  <1>5. ASSUME Untrusted, ~(RecoveryThreshold <= Trailing("checked")') PROVE Untrusted'
    <2>1. PICK i \in 1 .. Len(verdicts) :
            /\ EndsStreak(i, "strike", StrikeThreshold)
            /\ \A k \in i + 1 .. Len(verdicts) : ~EndsStreak(k, "checked", RecoveryThreshold)
      BY <1>5 DEF Untrusted
    <2>2. i \in 1 .. Len(verdicts') /\ EndsStreak(i, "strike", StrikeThreshold)'
      BY <1>1, <1>2, <2>1
    <2>3. ASSUME NEW k \in i + 1 .. Len(verdicts')
          PROVE  ~EndsStreak(k, "checked", RecoveryThreshold)'
      <3>1. k \in i + 1 .. Len(verdicts) \/ k = Len(verdicts')
        BY <1>1, <2>1
      <3>2. k \in i + 1 .. Len(verdicts) => k \in 1 .. Len(verdicts)
        BY <1>1, <2>1
      <3> QED BY <3>1, <3>2, <2>1, <1>1, <1>2, <1>3, <1>5
    <2> QED BY <2>2, <2>3 DEF Untrusted
  <1>6. ASSUME Untrusted', ~(StrikeThreshold <= Trailing("strike")')
        PROVE  Untrusted /\ ~(RecoveryThreshold <= Trailing("checked")')
    <2>1. PICK i \in 1 .. Len(verdicts') :
            /\ EndsStreak(i, "strike", StrikeThreshold)'
            /\ \A k \in i + 1 .. Len(verdicts') : ~EndsStreak(k, "checked", RecoveryThreshold)'
      BY <1>6 DEF Untrusted
    <2>2. i \in 1 .. Len(verdicts)
      BY <1>1, <1>3, <1>6, <2>1
    <2>3. Len(verdicts') \in i + 1 .. Len(verdicts')
      BY <1>1, <2>2
    <2>4. ~(RecoveryThreshold <= Trailing("checked")')
      BY <1>3, <2>1, <2>3
    <2>5. \A k \in i + 1 .. Len(verdicts) : ~EndsStreak(k, "checked", RecoveryThreshold)
      <3>1. \A k \in i + 1 .. Len(verdicts) :
              k \in i + 1 .. Len(verdicts') /\ k \in 1 .. Len(verdicts)
        BY <1>1, <2>2
      <3> QED BY <3>1, <1>1, <1>2, <2>1
    <2>6. EndsStreak(i, "strike", StrikeThreshold)
      BY <1>1, <1>2, <2>1, <2>2
    <2> QED BY <2>2, <2>4, <2>5, <2>6 DEF Untrusted
  <1> QED BY <1>4, <1>5, <1>6

\* A recording on the row it has read does to the row what its verdict does to
\* the policy.
LEMMA RecordingFollows ==
  ASSUME TypeInv, TypeInv', TrustInv, NEW d \in Dispatchers, StoreTrust(d)
  PROVE  TrailsExist' /\ TrustFollowsVerdicts'
  <1> DEFINE row == call[d].row
             new == IF call[d].result = "patch" THEN Succeeded(row, call[d].forced)
                                                ELSE Struck(row)
             x == Verdict(d)
  <1>1. /\ stage[d] = "storing" /\ verdicts' = Append(verdicts, x) /\ x \in Verdicts
        /\ row \in TrustRows /\ trust \in TrustRows /\ call[d].forced \in BOOLEAN
        /\ call[d].result \in {"patch", "mismatch"}
        /\ overlapped' = (overlapped \/ trust # row)
        /\ overlapped \in BOOLEAN
        /\ trust' = [f \in DOMAIN trust |-> IF new[f] # row[f] THEN new[f] ELSE trust[f]]
    BY CallTypes
       DEF StoreTrust, Verdict, Verdicts, TypeInv, TypeOK, CallRecords, TrustInv, ResultKnown
  <1>2. new \in TrustRows
    BY <1>1, RowTypes
  <1>3. TrailsExist'
    BY <1>1, TrailAppend DEF TrailsExist, TrustInv
  <1>4. ASSUME ~overlapped'
        PROVE  trust' = [strikes |-> Trailing("strike")', required |-> Untrusted',
                         streak |-> IF Untrusted' THEN Trailing("checked")' ELSE 0]
    <2>1. trust = row /\ ~overlapped
      BY <1>1, <1>4
    <2>2. trust' = new
      <3> HIDE DEF new, row
      <3> QED BY <1>1, <1>2, <2>1, MergedRow
    <2>3. row = [strikes |-> Trailing("strike"), required |-> Untrusted,
                 streak |-> IF Untrusted THEN Trailing("checked") ELSE 0]
      BY <2>1 DEF TrustInv, TrustFollowsVerdicts
    <2>4. /\ "strike" \in Verdicts /\ "checked" \in Verdicts
          /\ Trailing("strike") \in Nat /\ Trailing("checked") \in Nat
          /\ Untrusted \in BOOLEAN /\ Untrusted' \in BOOLEAN
          /\ StrikeThreshold \in Nat \ {0} /\ RecoveryThreshold \in Nat \ {0, 1}
      BY ThresholdAssumption DEF Verdicts, TrustInv, TrailsExist, EndsWith, TypeInv, TypeOK, Untrusted
    <2>5. /\ Trailing("strike")' = IF x = "strike" THEN Trailing("strike") + 1 ELSE 0
          /\ Trailing("checked")' = IF x = "checked" THEN Trailing("checked") + 1 ELSE 0
      BY <1>1, <2>4, TrailAppend DEF TrustInv
    <2>6. Untrusted' <=> \/ StrikeThreshold <= Trailing("strike")'
                         \/ Untrusted /\ ~(RecoveryThreshold <= Trailing("checked")')
      BY <1>1, UntrustedAppend DEF TrustInv
    <2>7. CASE call[d].result = "mismatch"
      <3>1. x = "strike"
        BY <2>7 DEF Verdict
      <3>2. new = Struck(row)
        BY <2>7
      <3> QED BY <3>1, <3>2, <2>2, <2>3, <2>4, <2>5, <2>6 DEF Struck
    <2>8. CASE call[d].result = "patch" /\ call[d].forced
      <3>1. x = "checked" /\ new = Succeeded(row, TRUE)
        BY <2>8, <1>1 DEF Verdict
      <3> QED BY <3>1, <2>2, <2>3, <2>4, <2>5, <2>6 DEF Succeeded
    <2>9. CASE call[d].result = "patch" /\ ~call[d].forced
      <3>1. x = "unchecked" /\ new = Succeeded(row, FALSE)
        BY <2>9, <1>1 DEF Verdict
      <3> QED BY <3>1, <2>2, <2>3, <2>4, <2>5, <2>6 DEF Succeeded
    <2> QED BY <1>1, <2>7, <2>8, <2>9
  <1> QED BY <1>3, <1>4 DEF TrustFollowsVerdicts

LEMMA ResultKnownStep ==
  ASSUME TypeInv, CallInv, ResultKnown, [Next]_vars
  PROVE  ResultKnown'
  <1>0. /\ \A d \in Dispatchers : call[d] \in CallRecords /\ NoCall \in CallRecords
        /\ call \in [Dispatchers -> CallRecords] /\ trust \in TrustRows
        /\ stage \in [Dispatchers -> Stages]
    BY CallTypes DEF TypeInv, TypeOK, CallRecords
  <1>1. ASSUME NEW d \in Dispatchers,
               EndsCall(d) \/ ReadTrust(d) \/ ClaimRun(d) \/ ListContainers(d) \/ Sweep(d)
               \/ Admit(d) \/ CreateContainer(d)
        PROVE  ResultKnown'
    <2>1. /\ \A e \in Dispatchers \ {d} : stage'[e] = stage[e] /\ call'[e] = call[e]
          /\ stage'[d] \notin {"ran", "removing", "finalizing", "recording", "storing"}
      BY <1>1, <1>0 DEF EndsCall, ReadTrust, ClaimRun, ListContainers, Sweep, Admit,
                        CreateContainer, Moves
    <2> QED BY <2>1 DEF ResultKnown
  <1>2. ASSUME NEW d \in Dispatchers, NEW next \in {"ran", "removing", "finalizing"},
               NEW result \in Results \ {"none"},
               call' = [call EXCEPT ![d] = [call[d] EXCEPT !.result = result]], Moves(d, next)
        PROVE  ResultKnown'
    <2>1. /\ \A e \in Dispatchers \ {d} : stage'[e] = stage[e] /\ call'[e] = call[e]
          /\ stage'[d] = next /\ call'[d].result = result
      BY <1>2, <1>0 DEF Moves, CallRecords
    <2> QED BY <2>1 DEF ResultKnown
  <1>3. ASSUME NEW d \in Dispatchers,
               \/ Refuse(d) \/ DockerFails(d) \/ ContainerFails(d) \/ Work(d) \/ SweepFails(d)
               \/ (PersistFails(d) \/ RecordFails(d)) /\ ~EndsCall(d)
        PROVE  ResultKnown'
    <2>1. {"patch", "mismatch", "failure"} \subseteq Results \ {"none"}
      BY DEF Results
    <2>2. PICK next \in {"ran", "removing", "finalizing"},
               result \in {"patch", "mismatch", "failure"} :
            /\ call' = [call EXCEPT ![d] = [call[d] EXCEPT !.result = result]]
            /\ Moves(d, next)
      <3>1. CASE Refuse(d)
        BY <3>1 DEF Refuse
      <3>2. CASE Work(d)
        BY <3>2 DEF Work
      <3>3. CASE DockerFails(d) \/ ContainerFails(d) \/ SweepFails(d)
        BY <3>3 DEF DockerFails, ContainerFails, SweepFails, DockerSaysNo
      <3>4. CASE (PersistFails(d) \/ RecordFails(d)) /\ ~EndsCall(d)
        BY <3>4 DEF PersistFails, RecordFails, Raises, DockerSaysNo
      <3> QED BY <1>3, <3>1, <3>2, <3>3, <3>4
    <2> QED BY <1>2, <2>1, <2>2
  <1>4. ASSUME NEW d \in Dispatchers, CopyOut(d) \/ RemoveOwn(d) PROVE ResultKnown'
    <2>1. /\ \A e \in Dispatchers \ {d} : stage'[e] = stage[e]
          /\ call' = call /\ stage[d] \in {"ran", "removing"}
          /\ stage'[d] \in {"removing", "finalizing"}
      BY <1>4, <1>0 DEF CopyOut, RemoveOwn, Moves
    <2> QED BY <2>1 DEF ResultKnown
  <1>5. ASSUME NEW d \in Dispatchers, Finalize(d), ~EndsCall(d) PROVE ResultKnown'
    <2>1. /\ \A e \in Dispatchers \ {d} : stage'[e] = stage[e]
          /\ call' = call /\ stage[d] = "finalizing" /\ call[d].result # "failure"
          /\ stage'[d] = "recording" /\ call[d].result \in Results
      BY <1>5, <1>0 DEF Finalize, Moves, CallRecords
    <2> QED BY <2>1 DEF ResultKnown, Results
  <1>6. ASSUME NEW d \in Dispatchers, LoadTrust(d) PROVE ResultKnown'
    <2>1. /\ \A e \in Dispatchers \ {d} : stage'[e] = stage[e] /\ call'[e] = call[e]
          /\ call'[d].result = call[d].result /\ stage[d] = "recording"
          /\ stage'[d] = "storing"
      BY <1>6, <1>0 DEF LoadTrust, Moves, CallRecords
    <2> QED BY <2>1 DEF ResultKnown
  <1>7. ASSUME NEW r \in Runs, Reclaim(r) PROVE ResultKnown'
    BY <1>7 DEF Reclaim, ResultKnown
  <1>8. CASE UNCHANGED vars
    BY <1>8 DEF vars, ResultKnown
  <1>9. ASSUME NEW d \in Dispatchers,
               ClaimRefused(d) \/ StoreTrust(d) \/ Dies(d)
        PROVE  EndsCall(d)
    BY <1>9 DEF ClaimRefused, StoreTrust, Dies
  <1> QED
    BY <1>1, <1>3, <1>4, <1>5, <1>6, <1>7, <1>8, <1>9 DEF Next, CallStep

LEMMA TrustKept ==
  ASSUME TrustInv, UNCHANGED trustVars
  PROVE  TrailsExist' /\ TrustFollowsVerdicts'
  <1>1. trust' = trust /\ verdicts' = verdicts /\ overlapped' = overlapped
    BY DEF trustVars
  <1>2. TrailsExist'
    BY <1>1 DEF TrustInv, TrailsExist, EndsWith, Trailing
  <1>3. /\ Trailing("strike")' = Trailing("strike") /\ Trailing("checked")' = Trailing("checked")
        /\ Untrusted' = Untrusted
    BY <1>1 DEF Trailing, Untrusted, EndsStreak
  <1> QED BY <1>1, <1>2, <1>3 DEF TrustInv, TrustFollowsVerdicts

LEMMA TrustStep ==
  ASSUME TypeInv, TypeInv', CallInv, TrustInv, [Next]_vars
  PROVE  TrustInv'
  <1>1. ResultKnown'
    BY ResultKnownStep DEF TrustInv
  <1>2. ASSUME NEW d \in Dispatchers, StoreTrust(d) PROVE TrailsExist' /\ TrustFollowsVerdicts'
    BY <1>2, RecordingFollows
  <1>3. ASSUME \A d \in Dispatchers : ~StoreTrust(d) PROVE UNCHANGED trustVars
    <2>1. CASE UNCHANGED vars
      BY <2>1 DEF vars
    <2>2. ASSUME NEW r \in Runs, Reclaim(r) PROVE UNCHANGED trustVars
      BY <2>2 DEF Reclaim
    <2>3. ASSUME NEW d \in Dispatchers, ReadTrust(d) \/ CallStep(d) \/ Dies(d)
          PROVE  UNCHANGED trustVars
      BY <1>3, <2>3
         DEF ReadTrust, CallStep, Dies, ClaimRun, ClaimRefused, ListContainers, Sweep, SweepFails,
             Admit, Refuse, DockerFails, CreateContainer, Work, CopyOut, ContainerFails,
             RemoveOwn, Finalize, PersistFails, LoadTrust, RecordFails
    <2> QED BY <2>1, <2>2, <2>3 DEF Next
  <1>4. TrailsExist' /\ TrustFollowsVerdicts'
    BY <1>2, <1>3, TrustKept
  <1> QED BY <1>1, <1>4 DEF TrustInv

LEMMA TrustInit == Init => TrustInv
  <1> SUFFICES ASSUME Init PROVE TrustInv
    OBVIOUS
  <1>1. TypeInv /\ verdicts = <<>> /\ Len(verdicts) = 0
    BY TypeInvInit DEF Init
  <1>2. ASSUME NEW v \in Verdicts PROVE Trailing(v) = 0 /\ EndsWith(v, Trailing(v))
    <2>1. EndsWith(v, 0)
      BY <1>1 DEF EndsWith
    <2> QED BY <1>1, <2>1, TrailUnique
  <1>3. ~Untrusted
    BY <1>1 DEF Untrusted
  <1>4. trust = [strikes |-> Trailing("strike"), required |-> Untrusted,
                 streak |-> IF Untrusted THEN Trailing("checked") ELSE 0]
    <2>1. "strike" \in Verdicts /\ trust = NewRow
      BY DEF Verdicts, Init
    <2>2. Untrusted = FALSE
      BY <1>3 DEF Untrusted
    <2> QED BY <1>2, <2>1, <2>2 DEF NewRow
  <1>5. ResultKnown
    BY DEF Init, ResultKnown
  <1> QED BY <1>2, <1>4, <1>5 DEF TrustInv, TrailsExist, TrustFollowsVerdicts

\* Recordings that did not overlap leave the row that the policy prescribes for
\* the history of verdicts, for all thresholds and any interleaving of
\* dispatches that began under an older row or lost their claim meanwhile.
THEOREM TrustIsPolicy == Spec => []TrustFollowsVerdicts
  <1>1. Init => TypeInv /\ CallInv /\ TrustInv
    BY TypeInvInit, CallInit, TrustInit
  <1>2. TypeInv /\ CallInv /\ TrustInv /\ [Next]_vars => (TypeInv /\ CallInv /\ TrustInv)'
    BY TypeStep, CallStepPreserves, TrustStep
  <1>3. TrustInv => TrustFollowsVerdicts
    BY DEF TrustInv
  <1> QED BY <1>1, <1>2, <1>3, PTL DEF Spec

=============================================================================
