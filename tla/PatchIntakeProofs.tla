------------------------- MODULE PatchIntakeProofs -------------------------
(***************************************************************************)
(* Proofs about PatchIntake, for any tasks, founders, files and limits.    *)
(***************************************************************************)
EXTENDS PatchIntake, FiniteSetTheorems, TLAPS

\* What a step of one process does to the stages and the sessions.
LEMMA MovesEffect ==
  ASSUME TypeOK, NEW p \in Processes, NEW next \in Stages, Moves(p, next)
  PROVE  /\ stage' \in [Processes -> Stages]
         /\ view' \in [Founders -> [task : Tasks \cup {Nobody}, run : RunStatuses]]
         /\ stage'[p] = next
         /\ \A q \in Processes \ {p} : stage'[q] = stage[q] /\ PatchOf(q)' = PatchOf(q)
         /\ next # "done" => PatchOf(p)' = PatchOf(p)
  <1>1. stage' \in [Processes -> Stages] /\ stage'[p] = next
    BY DEF Moves, TypeOK
  <1>2. NothingRead \in [task : Tasks \cup {Nobody}, run : RunStatuses]
    BY DEF NothingRead, RunStatuses
  <1>3. view' \in [Founders -> [task : Tasks \cup {Nobody}, run : RunStatuses]]
    BY <1>2 DEF Moves, TypeOK
  <1>4. \A q \in Processes \ {p} : stage'[q] = stage[q] /\ PatchOf(q)' = PatchOf(q)
    BY DEF Moves, TypeOK, PatchOf, Processes
  <1>5. next # "done" => PatchOf(p)' = PatchOf(p)
    BY DEF Moves, TypeOK, PatchOf, Processes
  <1> QED BY <1>1, <1>3, <1>4, <1>5

LEMMA ResolveType ==
  ASSUME TypeOK, NEW p \in Processes, NEW code \in Resolutions, Resolve(p, code),
         PatchOf(p) \in Tasks
  PROVE  /\ runStatus' \in RunStatuses
         /\ claim' \in Tasks \cup {Nobody} /\ lapsed' \in BOOLEAN
         /\ intake' \in [Tasks -> {"none", "pending"} \cup Resolutions]
         /\ ledger' \in [Tasks -> SUBSET Resolutions]
         /\ order' \in Seq(Tasks)
         /\ recent' \in SUBSET Tasks
         /\ escalation' \in {"none", "pending", "answered"}
         /\ stage' \in [Processes -> Stages]
         /\ view' \in [Founders -> [task : Tasks \cup {Nobody}, run : RunStatuses]]
  <1>1. "done" \in Stages /\ Moves(p, "done")
    BY DEF Resolve, Stages
  <1>2. order' \in Seq(Tasks)
    BY DEF Resolve, TypeOK
  <1>3. runStatus' \in RunStatuses
    BY DEF Resolve, WrittenStatus, StatusAfter, TypeOK, RunStatuses
  <1>4. /\ claim' \in Tasks \cup {Nobody} /\ lapsed' \in BOOLEAN
        /\ recent' \in SUBSET Tasks
    BY DEF Resolve, TypeOK
  <1>5. /\ intake' \in [Tasks -> {"none", "pending"} \cup Resolutions]
        /\ ledger' \in [Tasks -> SUBSET Resolutions]
    BY DEF Resolve, TypeOK
  <1>6. escalation' \in {"none", "pending", "answered"}
    BY DEF Resolve, TypeOK
  <1> QED BY <1>1, <1>2, <1>3, <1>4, <1>5, <1>6, MovesEffect

\* A process that reviews or applies has an intake to work on.
Attending ==
  \A p \in Processes : stage[p] \in Applying \cup {"read"} => PatchOf(p) \in Tasks
TypeInv == TypeOK /\ Attending

LEMMA TypeInit == Init => TypeInv
  <1> SUFFICES ASSUME Init PROVE TypeInv
    OBVIOUS
  <1>1. order \in Seq(Tasks) /\ stage \in [Processes -> Stages]
    BY DEF Init, Stages
  <1>2. view \in [Founders -> [task : Tasks \cup {Nobody}, run : RunStatuses]]
    BY DEF Init, NothingRead, RunStatuses
  <1>3. /\ workspace \in [Files -> Contents]
        /\ base \in [Tasks -> [Files -> Contents]]
    BY DEF Init, Contents
  <1>4. /\ intake \in [Tasks -> {"none", "pending"} \cup Resolutions]
        /\ ledger \in [Tasks -> SUBSET Resolutions]
        /\ changed \in [Tasks -> SUBSET Files]
    BY DEF Init
  <1>5. Attending
    BY DEF Init, Attending, Applying
  <1> QED BY <1>1, <1>2, <1>3, <1>4, <1>5 DEF Init, TypeInv, TypeOK, RunStatuses

\* A step of p to a stage that needs an intake keeps the one p has.
LEMMA AttendingStep ==
  ASSUME TypeInv, NEW p \in Processes, NEW next \in Stages, Moves(p, next),
         next \in Applying \cup {"read"} => PatchOf(p) \in Tasks
  PROVE  Attending'
  <1>1. \A q \in Processes \ {p} : stage'[q] = stage[q] /\ PatchOf(q)' = PatchOf(q)
    BY MovesEffect DEF TypeInv
  <1>2. stage'[p] = next /\ (next # "done" => PatchOf(p)' = PatchOf(p))
    BY MovesEffect DEF TypeInv
  <1>3. ASSUME NEW q \in Processes, stage'[q] \in Applying \cup {"read"}
        PROVE  PatchOf(q)' \in Tasks
    <2>1. CASE q = p
      BY <1>2, <1>3, <2>1 DEF Applying
    <2>2. CASE q # p
      BY <1>1, <1>3, <2>2 DEF TypeInv, Attending
    <2> QED BY <2>1, <2>2
  <1> QED BY <1>3 DEF Attending

\* A process that applies t resolves it.
LEMMA ResolvingStep ==
  ASSUME TypeInv, NEW p \in Processes, NEW code \in Resolutions, Resolve(p, code),
         stage[p] \in Applying \cup {"read"},
         changed' = changed, base' = base, torn' = torn, workspace' \in [Files -> Contents]
  PROVE  TypeInv'
  <1>1. PatchOf(p) \in Tasks
    BY DEF TypeInv, Attending
  <1>2. TypeOK'
    BY <1>1, ResolveType DEF TypeInv, TypeOK
  <1>3. Moves(p, "done") /\ "done" \in Stages /\ "done" \notin Applying \cup {"read"}
    BY DEF Resolve, Stages, Applying
  <1> QED BY <1>2, <1>3, AttendingStep DEF TypeInv

\* A process that only moves on.
LEMMA MovingStep ==
  ASSUME TypeInv, NEW p \in Processes, NEW next \in Stages, Moves(p, next),
         next \in Applying \cup {"read"} => PatchOf(p) \in Tasks,
         UNCHANGED <<rows, base, torn>>,
         changed' \in [Tasks -> SUBSET Files], workspace' \in [Files -> Contents]
  PROVE  TypeInv'
  <1>1. Attending'
    BY AttendingStep
  <1>2. /\ stage' \in [Processes -> Stages]
        /\ view' \in [Founders -> [task : Tasks \cup {Nobody}, run : RunStatuses]]
    BY MovesEffect DEF TypeInv
  <1> QED BY <1>1, <1>2 DEF TypeInv, TypeOK, rows

LEMMA TypeStep == TypeInv /\ [Next]_vars => TypeInv'
  <1> SUFFICES ASSUME TypeInv, [Next]_vars PROVE TypeInv'
    OBVIOUS
  <1> USE DEF Processes
  <1>0. /\ changed \in [Tasks -> SUBSET Files] /\ workspace \in [Files -> Contents]
        /\ {"idle", "routed", "working", "failing", "read", "done"} \subseteq Stages
        /\ Applying \subseteq Stages
        /\ {"idle", "routed", "working", "failing", "done"} \cap (Applying \cup {"read"}) = {}
    BY DEF TypeInv, TypeOK, Stages, Applying
  <1>1. ASSUME NEW t \in Tasks, Route(t) \/ DispatchRefused(t) \/ ResultRejected(t)
        PROVE  TypeInv'
    BY <1>0, <1>1, MovingStep DEF Route, DispatchRefused, ResultRejected
  <1>2. ASSUME NEW t \in Tasks, Dispatch(t) PROVE TypeInv'
    <2>1. Attending'
      BY <1>0, <1>2, AttendingStep DEF Dispatch
    <2>2. /\ stage' \in [Processes -> Stages]
          /\ view' \in [Founders -> [task : Tasks \cup {Nobody}, run : RunStatuses]]
      BY <1>0, <1>2, MovesEffect DEF Dispatch, TypeInv
    <2>3. base' \in [Tasks -> [Files -> Contents]]
      BY <1>2 DEF Dispatch, TypeInv, TypeOK
    <2> QED BY <1>2, <2>1, <2>2, <2>3 DEF Dispatch, TypeInv, TypeOK, RunStatuses
  <1>3. ASSUME NEW t \in Tasks, LandForReview(t) \/ AutoApplyRaises(t) PROVE TypeInv'
    <2>1. Moves(t, "done") /\ RecordPending(t)
      BY <1>3 DEF LandForReview, AutoApplyRaises, RecordPending
    <2>2. Attending'
      BY <1>0, <2>1, AttendingStep
    <2>3. /\ stage' \in [Processes -> Stages]
          /\ view' \in [Founders -> [task : Tasks \cup {Nobody}, run : RunStatuses]]
      BY <1>0, <2>1, MovesEffect DEF TypeInv
    <2>4. order' \in Seq(Tasks)
      BY <2>1 DEF RecordPending, TypeInv, TypeOK
    <2>5. intake' \in [Tasks -> {"none", "pending"} \cup Resolutions]
      BY <2>1 DEF RecordPending, TypeInv, TypeOK
    <2>6. changed' \in [Tasks -> SUBSET Files]
      BY <1>0, <1>3 DEF LandForReview, AutoApplyRaises
    <2>7. torn' \in SUBSET Tasks
      BY <1>3 DEF LandForReview, AutoApplyRaises, TornBy, PatchOf, TypeInv, TypeOK
    <2>8. UNCHANGED <<base, workspace, ledger, recent, escalation>>
      BY <1>3 DEF LandForReview, AutoApplyRaises, RecordPending
    <2> QED BY <2>1, <2>2, <2>3, <2>4, <2>5, <2>6, <2>7, <2>8
            DEF RecordPending, TypeInv, TypeOK, RunStatuses
  <1>4. ASSUME NEW t \in Tasks, LandForAutoApply(t) PROVE TypeInv'
    <2>1. changed' \in [Tasks -> SUBSET Files]
      BY <1>0, <1>4 DEF LandForAutoApply
    <2>2. Moves(t, "approved") /\ "approved" \in Stages /\ PatchOf(t) \in Tasks
      BY <1>4 DEF LandForAutoApply, Stages, Applying, PatchOf
    <2> QED BY <1>0, <1>4, <2>1, <2>2, MovingStep DEF LandForAutoApply
  <1>5. ASSUME NEW t \in Tasks, LandFailure(t) PROVE TypeInv'
    <2>1. Attending'
      BY <1>0, <1>5, AttendingStep DEF LandFailure
    <2>2. /\ stage' \in [Processes -> Stages]
          /\ view' \in [Founders -> [task : Tasks \cup {Nobody}, run : RunStatuses]]
      BY <1>0, <1>5, MovesEffect DEF LandFailure, TypeInv
    <2> QED BY <1>5, <2>1, <2>2 DEF LandFailure, TypeInv, TypeOK, RunStatuses
  <1>6. ASSUME NEW f \in Founders, NEW t \in Tasks, FounderReads(f, t) PROVE TypeInv'
    <2>1. /\ stage' \in [Processes -> Stages] /\ stage'[f] = "read"
          /\ \A q \in Processes \ {f} : stage'[q] = stage[q]
      BY <1>0, <1>6 DEF FounderReads, TypeInv, TypeOK
    <2>2. /\ view' \in [Founders -> [task : Tasks \cup {Nobody}, run : RunStatuses]]
          /\ view'[f].task = t
          /\ \A q \in Founders \ {f} : view'[q] = view[q]
      BY <1>6 DEF FounderReads, TypeInv, TypeOK
    <2>3. \A q \in Processes \ {f} : PatchOf(q)' = PatchOf(q)
      BY <2>2 DEF PatchOf
    <2>4. PatchOf(f)' \in Tasks
      BY <2>2 DEF PatchOf
    <2>5. Attending'
      BY <2>1, <2>3, <2>4 DEF TypeInv, Attending
    <2> QED BY <1>6, <2>1, <2>2, <2>5 DEF FounderReads, TypeInv, TypeOK, rows
  <1>7. ASSUME NEW f \in Founders, FounderApproves(f) \/ FounderRefused(f) PROVE TypeInv'
    <2>1. PatchOf(f) \in Tasks /\ "approved" \in Stages
      BY <1>7 DEF FounderApproves, FounderRefused, TypeInv, Attending, Stages, Applying
    <2> QED BY <1>0, <1>7, <2>1, MovingStep DEF FounderApproves, FounderRefused
  <1>8. ASSUME NEW f \in Founders, FounderRejects(f) PROVE TypeInv'
    BY <1>0, <1>8, ResolvingStep DEF FounderRejects, Resolutions, Rejected
  <1>9. ASSUME NEW p \in Processes, ChecksBase(p) PROVE TypeInv'
    <2>1. PatchOf(p) \in Tasks /\ stage[p] \in Applying /\ "clean" \in Stages
      BY <1>9 DEF ChecksBase, TypeInv, Attending, Stages, Applying
    <2>2. "base_hash_conflict" \in Resolutions
      BY DEF Resolutions, Rejected, Repairable
    <2>3. CASE Moves(p, "clean") /\ UNCHANGED rows
      BY <1>0, <1>9, <2>1, <2>3, MovingStep DEF ChecksBase
    <2>4. CASE Resolve(p, "base_hash_conflict")
      BY <1>0, <1>9, <2>1, <2>2, <2>4, ResolvingStep DEF ChecksBase
    <2> QED BY <1>9, <2>3, <2>4 DEF ChecksBase
  <1>10. ASSUME NEW p \in Processes, AppliesPatch(p) PROVE TypeInv'
    <2>1. PatchOf(p) \in Tasks /\ stage[p] \in Applying /\ "patched" \in Stages
      BY <1>10 DEF AppliesPatch, TypeInv, Attending, Stages, Applying
    <2>2. "apply_check_failed" \in Resolutions
      BY DEF Resolutions, Rejected, Repairable
    <2>3. workspace' \in [Files -> Contents]
      BY <1>0, <1>10, <2>1 DEF AppliesPatch, Contents
    <2>4. CASE Moves(p, "patched") /\ UNCHANGED rows
      BY <1>0, <1>10, <2>1, <2>3, <2>4, MovingStep DEF AppliesPatch
    <2>5. CASE Resolve(p, "apply_check_failed")
      BY <1>10, <2>1, <2>2, <2>3, <2>5, ResolvingStep DEF AppliesPatch
    <2> QED BY <1>10, <2>4, <2>5 DEF AppliesPatch
  <1>11. ASSUME NEW p \in Processes, Validates(p) PROVE TypeInv'
    <2>1. PatchOf(p) \in Tasks /\ stage[p] \in Applying /\ "invalid" \in Stages
      BY <1>11 DEF Validates, TypeInv, Attending, Stages, Applying
    <2>2. {"auto_applied", "founder_approved"} \subseteq Resolutions
      BY DEF Resolutions, Applied
    <2>3. CASE Moves(p, "invalid") /\ UNCHANGED rows
      BY <1>0, <1>11, <2>1, <2>3, MovingStep DEF Validates
    <2>4. CASE Resolve(p, IF p \in Tasks THEN "auto_applied" ELSE "founder_approved")
      BY <1>0, <1>11, <2>1, <2>2, <2>4, ResolvingStep DEF Validates
    <2> QED BY <1>11, <2>3, <2>4 DEF Validates
  <1>12. ASSUME NEW p \in Processes, RollsBack(p) PROVE TypeInv'
    <2>1. PatchOf(p) \in Tasks /\ stage[p] \in Applying
      BY <1>12 DEF RollsBack, TypeInv, Attending, Applying
    <2>2. "validation_failed" \in Resolutions
      BY DEF Resolutions, Rejected, Repairable
    <2>3. workspace' \in [Files -> Contents]
      BY <1>0, <1>12 DEF RollsBack, WithoutPatch, Contents
    <2> QED BY <1>12, <2>1, <2>2, <2>3, ResolvingStep DEF RollsBack
  <1>13. ASSUME NEW p \in Processes, TransactionLost(p) PROVE TypeInv'
    <2>1. PICK next \in {"done", "failing"} : Moves(p, next)
      BY <1>13 DEF TransactionLost
    <2>2. Attending'
      BY <1>0, <2>1, AttendingStep
    <2>3. /\ stage' \in [Processes -> Stages]
          /\ view' \in [Founders -> [task : Tasks \cup {Nobody}, run : RunStatuses]]
      BY <1>0, <2>1, MovesEffect DEF TypeInv
    <2>4. torn' \in SUBSET Tasks
      BY <1>13 DEF TransactionLost, TornBy, TypeInv, TypeOK, Attending, Applying
    <2> QED BY <1>13, <2>2, <2>3, <2>4 DEF TransactionLost, TypeInv, TypeOK, rows
  <1>14. ASSUME NEW f \in Files, Edit(f) PROVE TypeInv'
    <2>1. workspace' \in [Files -> Contents]
      BY <1>0, <1>14 DEF Edit, Contents
    <2> QED BY <1>14, <2>1 DEF Edit, TypeInv, TypeOK, rows, Attending, PatchOf
  <1>15. ASSUME NEW t \in Tasks, Ages(t) PROVE TypeInv'
    BY <1>15 DEF Ages, TypeInv, TypeOK, Attending, PatchOf
  <1>16. CASE LeaseLapses \/ Reclaim \/ FounderReplies
    BY <1>16 DEF LeaseLapses, Reclaim, FounderReplies, TypeInv, TypeOK, RunStatuses,
                 Attending, PatchOf
  <1>17. CASE UNCHANGED vars
    BY <1>17 DEF vars, rows, TypeInv, TypeOK, Attending, PatchOf
  <1> QED BY <1>1, <1>2, <1>3, <1>4, <1>5, <1>6, <1>7, <1>8, <1>9, <1>10, <1>11, <1>12,
             <1>13, <1>14, <1>15, <1>16, <1>17
          DEF Next, TaskStep, FounderStep, Application

\* Every reachable state is well typed, whatever processes die or overtake
\* one another on the way.
THEOREM PatchTypeCorrect == Spec => []TypeOK
  <1>1. TypeInv => TypeOK
    BY DEF TypeInv
  <1> QED BY <1>1, TypeInit, TypeStep, PTL DEF Spec

-----------------------------------------------------------------------------
(* Applications exclude one another: whoever starts one finds the claim    *)
(* row unlocked.                                                           *)

LEMMA LockStep ==
  TypeInv /\ OneApplierAtATime /\ [Next]_vars => OneApplierAtATime'
  <1> SUFFICES ASSUME TypeInv, OneApplierAtATime, [Next]_vars PROVE OneApplierAtATime'
    OBVIOUS
  <1> USE DEF Processes
  \* A step of p into an application: nobody else is in one.
  <1>1. ASSUME NEW p \in Processes, NEW next \in Stages, Moves(p, next), Unlocked
        PROVE  OneApplierAtATime'
    BY <1>1, MovesEffect DEF Unlocked, OneApplierAtATime, TypeInv
  \* Any other step of p.
  <1>2. ASSUME NEW p \in Processes, NEW next \in Stages, Moves(p, next),
               next \in Applying => stage[p] \in Applying
        PROVE  OneApplierAtATime'
    BY <1>2, MovesEffect DEF OneApplierAtATime, TypeInv
  <1>3. /\ {"idle", "routed", "working", "failing", "read", "done"} \subseteq Stages
        /\ Applying \subseteq Stages
        /\ {"idle", "routed", "working", "failing", "read", "done"} \cap Applying = {}
        /\ {"approved", "clean", "patched", "invalid"} \subseteq Applying
    BY DEF Stages, Applying
  <1>4. ASSUME NEW t \in Tasks, TaskStep(t) PROVE OneApplierAtATime'
    BY <1>1, <1>2, <1>3, <1>4
       DEF TaskStep, Route, Dispatch, DispatchRefused, LandForReview, LandForAutoApply,
           LandFailure, ResultRejected, AutoApplyRaises, RecordPending
  <1>5. ASSUME NEW f \in Founders, NEW t \in Tasks, FounderReads(f, t)
        PROVE  OneApplierAtATime'
    BY <1>3, <1>5 DEF FounderReads, OneApplierAtATime, TypeInv, TypeOK
  <1>6. ASSUME NEW f \in Founders, FounderApproves(f) \/ FounderRejects(f) \/ FounderRefused(f)
        PROVE  OneApplierAtATime'
    BY <1>1, <1>2, <1>3, <1>6
       DEF FounderApproves, FounderRejects, FounderRefused, Resolve, NoLiveClaim
  <1>7. ASSUME NEW p \in Processes, Application(p) PROVE OneApplierAtATime'
    BY <1>2, <1>3, <1>7
       DEF Application, ChecksBase, AppliesPatch, Validates, RollsBack, TransactionLost, Resolve
  <1>8. CASE UNCHANGED stage
    BY <1>8 DEF OneApplierAtATime
  <1> QED BY <1>4, <1>5, <1>6, <1>7, <1>8
          DEF Next, FounderStep, Edit, Ages, LeaseLapses, Reclaim, FounderReplies, vars

\* No two processes of a run ever have an application under way.
THEOREM ApplicationsAreExclusive == Spec => []OneApplierAtATime
  <1>1. Init => OneApplierAtATime
    BY DEF Init, OneApplierAtATime, Applying
  <1> QED BY <1>1, TypeInit, TypeStep, LockStep, PTL DEF Spec

-----------------------------------------------------------------------------
(* Files and ledger.  Where a patch may be, and what its worker can have   *)
(* seen of it:                                                             *)

\* A task has no patch before its result lands.
Unwritten == \A t \in Tasks : stage[t] \in {"idle", "routed", "working"} => changed[t] = {}
\* A patch is in none but the files it changes.
OwnFiles == \A f \in Files : \A t \in workspace[f] \cap Tasks : f \in changed[t]
\* No worker saw its own patch.
FreshBase == \A t \in Tasks : \A f \in Files : t \notin base[t][f]
\* What is recorded, reviewed or applied changes some file.
Substantial ==
  /\ \A t \in Tasks : intake[t] # "none" => changed[t] # {}
  /\ \A p \in Processes : stage[p] \in Applying \cup {"read"} => changed[PatchOf(p)] # {}
PatchInv == TypeInv /\ OneApplierAtATime /\ Unwritten /\ OwnFiles /\ FreshBase /\ Substantial

\* Steps that change nothing of what these speak of but a stage.
LEMMA PlainStep ==
  ASSUME PatchInv, NEW p \in Processes, NEW next \in Stages, Moves(p, next),
         UNCHANGED <<changed, base, workspace>>,
         next = "working" => stage[p] = "working" \/ stage[p] = "routed",
         next = "routed" => stage[p] = "idle",
         next # "idle",
         next \in Applying \cup {"read"} => stage[p] \in Applying \cup {"read"},
         \A t \in Tasks : intake'[t] # "none" => changed[t] # {}
  PROVE  Unwritten' /\ OwnFiles' /\ FreshBase' /\ Substantial'
  <1>1. /\ stage'[p] = next
        /\ \A q \in Processes \ {p} : stage'[q] = stage[q] /\ PatchOf(q)' = PatchOf(q)
        /\ next # "done" => PatchOf(p)' = PatchOf(p)
    BY MovesEffect DEF PatchInv, TypeInv
  <1>2. "done" \notin Applying \cup {"read"}
    BY DEF Applying
  <1>3. Unwritten'
    BY <1>1 DEF PatchInv, Unwritten, Processes
  <1>4. Substantial'
    BY <1>1, <1>2 DEF PatchInv, Substantial
  <1> QED BY <1>3, <1>4 DEF PatchInv, OwnFiles, FreshBase

\* A resolution by a process that has an intake in hand.
LEMMA PlainResolve ==
  ASSUME PatchInv, NEW p \in Processes, NEW code, Resolve(p, code),
         stage[p] \in Applying \cup {"read"},
         UNCHANGED <<changed, base>>
  PROVE  /\ Moves(p, "done") /\ "done" \in Stages
         /\ \A t \in Tasks : intake'[t] # "none" => changed[t] # {}
  <1>1. PatchOf(p) \in Tasks /\ changed[PatchOf(p)] # {}
    BY DEF PatchInv, TypeInv, Attending, Substantial
  <1>2. intake' = [intake EXCEPT ![PatchOf(p)] = code] /\ Moves(p, "done")
    BY DEF Resolve
  <1> QED BY <1>1, <1>2 DEF PatchInv, TypeInv, TypeOK, Substantial, Stages

LEMMA PatchStep == PatchInv /\ [Next]_vars => PatchInv'
  <1> SUFFICES ASSUME PatchInv, [Next]_vars
               PROVE  Unwritten' /\ OwnFiles' /\ FreshBase' /\ Substantial'
    BY TypeStep, LockStep DEF PatchInv
  <1> DEFINE Goal == Unwritten' /\ OwnFiles' /\ FreshBase' /\ Substantial'
  <1> USE DEF Processes
  <1>0. /\ {"idle", "routed", "working", "failing", "read", "done"} \subseteq Stages
        /\ Applying \subseteq Stages
        /\ {"idle", "routed", "working", "failing", "done"} \cap (Applying \cup {"read"}) = {}
        /\ Applying \cap {"idle", "routed", "working"} = {}
        /\ {"approved", "clean", "patched", "invalid"} \subseteq Applying
        /\ \A t \in Tasks : intake[t] # "none" => changed[t] # {}
    BY DEF PatchInv, Substantial, Stages, Applying
  <1>1. ASSUME NEW t \in Tasks,
               Route(t) \/ DispatchRefused(t) \/ LandFailure(t) \/ ResultRejected(t)
        PROVE  Goal
    BY <1>0, <1>1, PlainStep DEF Route, DispatchRefused, LandFailure, ResultRejected, rows
  <1>2. ASSUME NEW t \in Tasks, Dispatch(t) PROVE Goal
    <2>1. /\ stage'[t] = "working" /\ PatchOf(t)' = PatchOf(t)
          /\ \A q \in Processes \ {t} : stage'[q] = stage[q] /\ PatchOf(q)' = PatchOf(q)
      BY <1>0, <1>2, MovesEffect DEF Dispatch, PatchInv, TypeInv
    <2>2. changed[t] = {} /\ UNCHANGED <<changed, workspace, intake>>
      BY <1>2 DEF Dispatch, PatchInv, Unwritten
    <2>3. \A f \in Files : t \notin workspace[f]
      BY <2>2 DEF PatchInv, OwnFiles
    <2>4. FreshBase'
      BY <1>2, <2>3 DEF Dispatch, PatchInv, FreshBase, TypeInv, TypeOK
    <2>5. Unwritten'
      BY <2>1, <2>2 DEF PatchInv, Unwritten
    <2>6. Substantial'
      BY <1>0, <2>1, <2>2 DEF PatchInv, Substantial
    <2> QED BY <2>2, <2>4, <2>5, <2>6 DEF PatchInv, OwnFiles
  <1>3. ASSUME NEW t \in Tasks, LandForReview(t) \/ LandForAutoApply(t) PROVE Goal
    <2>1. PICK files \in (SUBSET Files) \ {{}} : changed' = [changed EXCEPT ![t] = files]
      BY <1>3 DEF LandForReview, LandForAutoApply
    <2>2. /\ changed'[t] # {} /\ changed[t] = {} /\ UNCHANGED <<base, workspace>>
          /\ \A u \in Tasks \ {t} : changed'[u] = changed[u]
      BY <1>3, <2>1 DEF LandForReview, LandForAutoApply, PatchInv, Unwritten, TypeInv, TypeOK
    <2>3. PICK next \in {"done", "approved"} : Moves(t, next)
      BY <1>3 DEF LandForReview, LandForAutoApply, RecordPending
    <2>4. /\ stage'[t] = next /\ PatchOf(t)' = t
          /\ \A q \in Processes \ {t} : stage'[q] = stage[q] /\ PatchOf(q)' = PatchOf(q)
      BY <1>0, <2>3, MovesEffect DEF PatchInv, TypeInv, PatchOf
    <2>5. \A u \in Tasks : intake'[u] # "none" => u = t \/ intake[u] # "none"
      BY <1>3 DEF LandForReview, LandForAutoApply, RecordPending, rows, PatchInv, TypeInv, TypeOK
    <2>6. OwnFiles'
      BY <2>2 DEF PatchInv, OwnFiles
    <2>7. Unwritten'
      BY <2>2, <2>4 DEF PatchInv, Unwritten
    <2>8. ASSUME NEW p \in Processes, stage'[p] \in Applying \cup {"read"}
          PROVE  changed'[PatchOf(p)'] # {}
      <3>1. CASE p = t
        BY <2>2, <2>4, <3>1
      <3>2. CASE p # t
        BY <2>2, <2>4, <2>8, <3>2 DEF PatchInv, Substantial, TypeInv, Attending
      <3> QED BY <3>1, <3>2
    <2>9. Substantial'
      BY <1>0, <2>2, <2>5, <2>8 DEF Substantial
    <2> QED BY <2>2, <2>6, <2>7, <2>9 DEF PatchInv, FreshBase
  <1>4. ASSUME NEW t \in Tasks, AutoApplyRaises(t) PROVE Goal
    <2>1. changed[t] # {} /\ stage[t] \in Applying
      BY <1>4 DEF AutoApplyRaises, PatchInv, Substantial, PatchOf
    <2>2. \A u \in Tasks : intake'[u] # "none" => changed[u] # {}
      BY <1>0, <1>4, <2>1 DEF AutoApplyRaises, RecordPending, PatchInv, TypeInv, TypeOK
    <2> QED BY <1>0, <1>4, <2>2, PlainStep DEF AutoApplyRaises, RecordPending
  <1>5. ASSUME NEW f \in Founders, NEW t \in Tasks, FounderReads(f, t) PROVE Goal
    <2>1. /\ stage'[f] = "read"
          /\ \A q \in Processes \ {f} : stage'[q] = stage[q] /\ PatchOf(q)' = PatchOf(q)
      BY <1>5 DEF FounderReads, PatchInv, TypeInv, TypeOK, PatchOf
    <2>2. PatchOf(f)' \in Tasks /\ changed[PatchOf(f)'] # {}
      BY <1>0, <1>5, ProcessAssumption DEF FounderReads, PatchInv, TypeInv, TypeOK, PatchOf
    <2>3. UNCHANGED <<rows, changed, base, workspace>>
      BY <1>5 DEF FounderReads
    <2>4. Unwritten'
      BY <2>1, <2>3 DEF PatchInv, Unwritten
    <2>5. Substantial'
      BY <1>0, <2>1, <2>2, <2>3 DEF PatchInv, Substantial, rows
    <2> QED BY <2>3, <2>4, <2>5 DEF PatchInv, OwnFiles, FreshBase
  <1>6. ASSUME NEW f \in Founders, FounderApproves(f) \/ FounderRefused(f) PROVE Goal
    BY <1>0, <1>6, PlainStep DEF FounderApproves, FounderRefused, rows
  <1>7. ASSUME NEW p \in Processes, NEW code, Resolve(p, code),
               stage[p] \in Applying \cup {"read"}, UNCHANGED <<changed, base, workspace>>
        PROVE  Goal
    BY <1>0, <1>7, PlainResolve, PlainStep
  <1>8. ASSUME NEW f \in Founders, FounderRejects(f) PROVE Goal
    BY <1>7, <1>8 DEF FounderRejects
  <1>9. ASSUME NEW p \in Processes, NEW next \in Applying, Moves(p, next), UNCHANGED rows,
               stage[p] \in Applying, UNCHANGED <<changed, base, workspace>>
        PROVE  Goal
    BY <1>0, <1>9, PlainStep DEF rows
  <1>10. ASSUME NEW p \in Processes, ChecksBase(p) \/ Validates(p) PROVE Goal
    BY <1>0, <1>7, <1>9, <1>10 DEF ChecksBase, Validates
  <1>11. ASSUME NEW p \in Processes, AppliesPatch(p) PROVE Goal
    <2>1. CASE UNCHANGED workspace
      BY <1>0, <1>7, <1>9, <1>11, <2>1 DEF AppliesPatch
    <2>2. CASE /\ Moves(p, "patched") /\ UNCHANGED rows
               /\ workspace' = [f \in Files |-> IF f \in changed[PatchOf(p)]
                                               THEN workspace[f] \cup {PatchOf(p)}
                                               ELSE workspace[f]]
      <3>1. /\ stage'[p] = "patched" /\ PatchOf(p)' = PatchOf(p)
            /\ \A q \in Processes \ {p} : stage'[q] = stage[q] /\ PatchOf(q)' = PatchOf(q)
        BY <1>0, <2>2, MovesEffect DEF PatchInv, TypeInv
      <3>2. stage[p] \in Applying /\ UNCHANGED <<changed, base, intake>>
        BY <1>0, <1>11, <2>2 DEF AppliesPatch, rows
      <3>3. OwnFiles'
        BY <2>2, <3>2 DEF PatchInv, OwnFiles
      <3>4. Unwritten'
        BY <3>1, <3>2 DEF PatchInv, Unwritten
      <3>5. Substantial'
        BY <1>0, <3>1, <3>2 DEF PatchInv, Substantial
      <3> QED BY <3>2, <3>3, <3>4, <3>5 DEF PatchInv, FreshBase
    <2> QED BY <1>11, <2>1, <2>2 DEF AppliesPatch
  <1>12. ASSUME NEW p \in Processes, RollsBack(p) PROVE Goal
    <2>1. /\ Moves(p, "done") /\ stage[p] \in Applying /\ UNCHANGED <<changed, base>>
          /\ \A t \in Tasks : intake'[t] # "none" => changed[t] # {}
      BY <1>0, <1>12, PlainResolve DEF RollsBack
    <2>2. /\ stage'[p] = "done"
          /\ \A q \in Processes \ {p} : stage'[q] = stage[q] /\ PatchOf(q)' = PatchOf(q)
      BY <1>0, <2>1, MovesEffect DEF PatchInv, TypeInv
    <2>3. OwnFiles'
      BY <1>12, <2>1 DEF RollsBack, WithoutPatch, PatchInv, OwnFiles
    <2>4. Unwritten'
      BY <2>1, <2>2 DEF PatchInv, Unwritten
    <2>5. Substantial'
      BY <1>0, <2>1, <2>2 DEF PatchInv, Substantial
    <2> QED BY <2>1, <2>3, <2>4, <2>5 DEF PatchInv, FreshBase
  <1>13. ASSUME NEW p \in Processes, TransactionLost(p) PROVE Goal
    <2>1. PICK next \in {"done", "failing"} : Moves(p, next)
      BY <1>13 DEF TransactionLost
    <2> QED BY <1>0, <1>13, <2>1, PlainStep DEF TransactionLost, rows
  <1>14. ASSUME NEW f \in Files, Edit(f) PROVE Goal
    <2>1. OwnFiles'
      BY <1>14, EditAssumption DEF Edit, PatchInv, OwnFiles, TypeInv, TypeOK
    <2>2. UNCHANGED <<stage, view, changed, base, intake>>
      BY <1>14 DEF Edit, rows
    <2> QED BY <2>1, <2>2 DEF PatchInv, Unwritten, FreshBase, Substantial, PatchOf
  <1>15. CASE UNCHANGED <<stage, view, changed, base, workspace, intake>>
    BY <1>15 DEF PatchInv, Unwritten, OwnFiles, FreshBase, Substantial, PatchOf
  <1>16. ASSUME NEW t \in Tasks, Ages(t) PROVE Goal
    BY <1>15, <1>16 DEF Ages
  <1>17. CASE LeaseLapses \/ Reclaim \/ FounderReplies \/ UNCHANGED vars
    BY <1>15, <1>17 DEF LeaseLapses, Reclaim, FounderReplies, vars, rows
  <1> QED BY <1>1, <1>2, <1>3, <1>4, <1>5, <1>6, <1>8, <1>10, <1>11, <1>12, <1>13, <1>14,
             <1>16, <1>17
          DEF Next, TaskStep, FounderStep, Application

LEMMA PatchInit == Init => PatchInv
  BY TypeInit DEF Init, PatchInv, OneApplierAtATime, Unwritten, OwnFiles, FreshBase,
                  Substantial, Applying

(***************************************************************************)
(* And how an application stands to both:                                  *)
(***************************************************************************)

\* t's worker saw every patch in the files t changes.
SawAll(t) == \A f \in changed[t] : workspace[f] \cap Tasks \subseteq base[t][f]
\* From the base check to git apply nothing but edits gets into the files.
CleanStays == \A p \in Processes : stage[p] = "clean" => SawAll(PatchOf(p))
\* A patch under validation is in the workspace, for the first time.
InPlace ==
  \A p \in Processes : stage[p] \in {"patched", "invalid"} =>
    Patched(PatchOf(p)) /\ PatchOf(p) \notin torn /\ ledger[PatchOf(p)] \cap Applied = {}
\* A patch that broke off stays in the files, so that its base check would
\* fail if it were tried again.
TornStays == \A t \in torn : Patched(t) /\ ledger[t] \cap Applied = {}
\* Everything else is where the ledger says.
Settled ==
  \A t \in Tasks \ InPlaceTasks : Patched(t) <=> t \in torn \/ ledger[t] \cap Applied # {}
FileInv ==
  PatchInv /\ CleanStays /\ InPlace /\ TornStays /\ Settled /\ PatchesSawEachOther

\* Patches in the workspace as these facts see them.
LEMMA SameFiles ==
  ASSUME \A f \in Files : workspace'[f] \cap Tasks = workspace[f] \cap Tasks
  PROVE  \A t \in Tasks : Patched(t)' <=> Patched(t)
  BY DEF Patched

\* Whoever resolves or moves without touching the files, and does not come
\* into "clean", "patched" or "invalid" unless from "patched".
LEMMA QuietStep ==
  ASSUME FileInv, PatchInv', NEW p \in Processes, NEW next \in Stages, Moves(p, next),
         UNCHANGED <<changed, base, workspace>>,
         next = "clean" => SawAll(PatchOf(p)),
         next \in {"patched", "invalid"} => stage[p] \in {"patched", "invalid"},
         \/ torn' = torn
         \/ /\ torn' = torn \cup {PatchOf(p)} /\ ledger' = ledger
            /\ stage[p] \in {"patched", "invalid"} /\ next \notin {"patched", "invalid"},
         stage[p] \in {"patched", "invalid"} /\ next \notin {"patched", "invalid"} =>
           PatchOf(p) \in torn' \/ ledger'[PatchOf(p)] \cap Applied # {},
         \A t \in Tasks : \/ ledger'[t] \cap Applied = ledger[t] \cap Applied
                          \/ t = PatchOf(p) /\ stage[p] = "patched" /\ next = "done"
  PROVE  FileInv'
  <1> USE DEF FileInv
  <1>1. /\ stage'[p] = next
        /\ \A q \in Processes \ {p} : stage'[q] = stage[q] /\ PatchOf(q)' = PatchOf(q)
        /\ next # "done" => PatchOf(p)' = PatchOf(p)
    BY MovesEffect DEF PatchInv, TypeInv
  <1>2. \A q \in Processes : stage[q] \in Applying => PatchOf(q) \in Tasks
    BY DEF PatchInv, TypeInv, Attending
  <1>3. {"clean", "patched", "invalid"} \subseteq Applying /\ "done" \notin Applying
    BY DEF Applying
  <1>4. \A t \in Tasks : Patched(t)' <=> Patched(t)
    BY DEF Patched
  <1>5. \A q, r \in Processes : stage[q] \in Applying /\ stage[r] \in Applying => q = r
    BY DEF PatchInv, OneApplierAtATime
  <1>7. CleanStays'
    <2>1. ASSUME NEW q \in Processes, stage'[q] = "clean" PROVE SawAll(PatchOf(q))'
      <3>1. PatchOf(q)' = PatchOf(q)
        BY <1>1, <2>1
      <3>2. SawAll(PatchOf(q))
        BY <1>1, <2>1 DEF CleanStays
      <3> QED BY <3>1, <3>2 DEF SawAll
    <2> QED BY <2>1 DEF CleanStays
  <1>8. InPlace'
    <2>1. ASSUME NEW q \in Processes, stage'[q] \in {"patched", "invalid"}
          PROVE  /\ Patched(PatchOf(q))' /\ PatchOf(q)' \notin torn'
                 /\ ledger'[PatchOf(q)'] \cap Applied = {}
      <3>1. /\ PatchOf(q)' = PatchOf(q) /\ stage[q] \in {"patched", "invalid"}
            /\ PatchOf(q) \in Tasks
        BY <1>1, <1>2, <1>3, <2>1
      <3>2. Patched(PatchOf(q))'
        BY <1>4, <3>1 DEF InPlace, Patched
      <3>3. PatchOf(q) \notin torn /\ ledger[PatchOf(q)] \cap Applied = {}
        BY <3>1 DEF InPlace
      <3>4. ~(stage[p] \in {"patched", "invalid"} /\ next \notin {"patched", "invalid"})
        BY <1>1, <1>3, <1>5, <2>1, <3>1
      <3> QED BY <3>1, <3>2, <3>3, <3>4
    <2> QED BY <2>1 DEF InPlace
  <1>9. Settled'
    <2>1. ASSUME NEW t \in Tasks, t \notin InPlaceTasks'
          PROVE  Patched(t)' <=> t \in torn' \/ ledger'[t] \cap Applied # {}
      <3>1. CASE t \in InPlaceTasks
        <4>1. PICK q \in Processes : stage[q] \in {"patched", "invalid"} /\ PatchOf(q) = t
          BY <3>1 DEF InPlaceTasks
        <4>2. q = p /\ next \notin {"patched", "invalid"}
          BY <1>1, <2>1, <4>1 DEF InPlaceTasks
        <4>3. t \in torn' \/ ledger'[t] \cap Applied # {}
          BY <4>1, <4>2
        <4>4. Patched(t)'
          BY <1>4, <4>1 DEF InPlace
        <4> QED BY <4>3, <4>4
      <3>2. CASE t \notin InPlaceTasks
        <4>1. ledger'[t] \cap Applied = ledger[t] \cap Applied
          BY <3>2 DEF InPlaceTasks
        <4>2. t \in torn' <=> t \in torn
          BY <3>2 DEF InPlaceTasks
        <4> QED BY <1>4, <2>1, <3>2, <4>1, <4>2 DEF Settled
      <3> QED BY <3>1, <3>2
    <2> QED BY <2>1 DEF Settled
  <1>10. TornStays'
    <2>1. ASSUME NEW t \in torn' PROVE Patched(t)' /\ ledger'[t] \cap Applied = {}
      <3>1. t \in Tasks
        BY <2>1 DEF PatchInv, TypeInv, TypeOK
      <3>2. CASE t \in torn
        <4>1. ledger'[t] \cap Applied = ledger[t] \cap Applied
          BY <3>1, <3>2 DEF InPlace
        <4> QED BY <1>4, <3>1, <3>2, <4>1 DEF TornStays
      <3>3. CASE t \notin torn
        <4>1. t = PatchOf(p) /\ ledger' = ledger /\ stage[p] \in {"patched", "invalid"}
          BY <2>1, <3>3
        <4> QED BY <1>4, <3>1, <4>1 DEF InPlace
      <3> QED BY <3>2, <3>3
    <2> QED BY <2>1 DEF TornStays
  <1>11. PatchesSawEachOther'
    BY DEF PatchesSawEachOther
  <1> QED BY <1>7, <1>8, <1>9, <1>10, <1>11

\* A step by which no application advances.
LEMMA OutsideStep ==
  ASSUME FileInv, PatchInv',
         \A p \in Processes :
           /\ stage'[p] \in Applying <=> stage[p] \in Applying
           /\ stage[p] \in Applying => stage'[p] = stage[p] /\ PatchOf(p)' = PatchOf(p),
         UNCHANGED <<ledger, torn, changed, base>>,
         \A f \in Files : workspace'[f] \cap Tasks = workspace[f] \cap Tasks
  PROVE  FileInv'
  <1> USE DEF FileInv
  <1>1. {"clean", "patched", "invalid"} \subseteq Applying
    BY DEF Applying
  <1>2. \A t \in Tasks : Patched(t)' <=> Patched(t)
    BY SameFiles
  <1>3. \A p \in Processes : stage[p] \in Applying =>
          PatchOf(p) \in Tasks /\ changed[PatchOf(p)] \subseteq Files
    BY DEF PatchInv, TypeInv, Attending, TypeOK
  <1>4. CleanStays'
    <2>1. ASSUME NEW p \in Processes, stage'[p] = "clean" PROVE SawAll(PatchOf(p))'
      <3>1. stage[p] = "clean" /\ PatchOf(p)' = PatchOf(p) /\ changed[PatchOf(p)] \subseteq Files
        BY <1>1, <1>3, <2>1
      <3>2. SawAll(PatchOf(p))
        BY <3>1 DEF CleanStays
      <3> QED BY <3>1, <3>2 DEF SawAll
    <2> QED BY <2>1 DEF CleanStays
  <1>5. InPlace'
    <2>1. ASSUME NEW p \in Processes, stage'[p] \in {"patched", "invalid"}
          PROVE  /\ Patched(PatchOf(p))' /\ PatchOf(p)' \notin torn'
                 /\ ledger'[PatchOf(p)'] \cap Applied = {}
      <3>1. stage[p] \in {"patched", "invalid"} /\ PatchOf(p)' = PatchOf(p) /\ PatchOf(p) \in Tasks
        BY <1>1, <1>3, <2>1
      <3>2. Patched(PatchOf(p))'
        BY <1>2, <3>1 DEF InPlace, Patched
      <3> QED BY <3>1, <3>2 DEF InPlace
    <2> QED BY <2>1 DEF InPlace
  <1>6. InPlaceTasks' = InPlaceTasks
    BY <1>1 DEF InPlaceTasks
  <1>7. Settled'
    BY <1>2, <1>6 DEF Settled
  <1>8. TornStays'
    BY <1>2 DEF TornStays, PatchInv, TypeInv, TypeOK
  <1>9. PatchesSawEachOther'
    BY DEF PatchesSawEachOther
  <1> QED BY <1>4, <1>5, <1>7, <1>8, <1>9

\* A finalizer or a dispatch begins with nothing in the workspace under way:
\* what a task without a patch sees, or is given, touches no fact.
LEMMA BeginningStep ==
  ASSUME FileInv, PatchInv', Unlocked, NEW t \in Tasks,
         NEW next \in {"working", "approved", "done"}, Moves(t, next),
         UNCHANGED <<workspace, ledger, torn>>,
         \A u \in Tasks \ {t} : base'[u] = base[u],
         \A f \in Files : t \notin workspace[f]
  PROVE  FileInv'
  <1> USE DEF FileInv
  <1>1. \A q \in Processes : stage'[q] \notin {"clean", "patched", "invalid"}
    <2>1. \A q \in Processes \ {t} : stage'[q] = stage[q]
      BY DEF Moves, PatchInv, TypeInv, TypeOK
    <2>2. stage'[t] = next
      BY DEF Moves, PatchInv, TypeInv, TypeOK, Processes
    <2> QED BY <2>1, <2>2 DEF Unlocked, Applying
  <1>2. InPlaceTasks = {} /\ InPlaceTasks' = {}
    <2>1. InPlaceTasks = {}
      BY DEF InPlaceTasks, Unlocked, Applying
    <2>2. InPlaceTasks' = {}
      BY <1>1 DEF InPlaceTasks
    <2> QED BY <2>1, <2>2
  <1>3. Settled' /\ TornStays'
    BY <1>2 DEF Settled, TornStays, Patched
  <1>4. PatchesSawEachOther'
    <2>1. ASSUME NEW f \in Files, NEW u \in workspace[f] \cap Tasks
          PROVE  base'[u] = base[u]
      BY <2>1
    <2> QED BY <2>1 DEF PatchesSawEachOther
  <1>5. CleanStays' /\ InPlace'
    BY <1>1 DEF CleanStays, InPlace
  <1> QED BY <1>3, <1>4, <1>5

\* git apply succeeds: the files have nothing the worker did not see.
LEMMA PatchingStep ==
  ASSUME FileInv, PatchInv', NEW p \in Processes, stage[p] = "clean", Moves(p, "patched"),
         UNCHANGED <<rows, changed, base, torn>>,
         workspace' = [f \in Files |-> IF f \in changed[PatchOf(p)]
                                       THEN workspace[f] \cup {PatchOf(p)} ELSE workspace[f]]
  PROVE  FileInv'
  <1> USE DEF FileInv
  <1> DEFINE t == PatchOf(p)
  <1>1. /\ stage'[p] = "patched" /\ PatchOf(p)' = t
        /\ \A q \in Processes \ {p} : stage'[q] = stage[q] /\ PatchOf(q)' = PatchOf(q)
    <2>1. "patched" \in Stages /\ "patched" # "done"
      BY DEF Stages, Applying
    <2> QED BY <2>1, MovesEffect DEF PatchInv, TypeInv
  <1>2. t \in Tasks /\ changed[t] \subseteq Files /\ changed[t] # {}
    BY DEF PatchInv, TypeInv, TypeOK, Attending, Substantial, Applying
  <1>3. \A q \in Processes \ {p} : stage[q] \notin {"clean", "patched", "invalid"}
    BY DEF PatchInv, OneApplierAtATime, Applying
  <1>4. \A f \in changed[t] : workspace[f] \cap Tasks \subseteq base[t][f]
    BY DEF CleanStays, SawAll
  <1>5. \A f \in Files : t \notin workspace[f]
    <2>1. ASSUME NEW f \in Files, t \in workspace[f] PROVE FALSE
      <3>1. f \in changed[t]
        BY <1>2, <2>1 DEF PatchInv, OwnFiles
      <3>2. t \in base[t][f]
        BY <1>2, <1>4, <2>1, <3>1
      <3> QED BY <1>2, <3>2 DEF PatchInv, FreshBase
    <2> QED BY <2>1
  <1>6. /\ \A f \in Files : \A u \in Tasks \ {t} : u \in workspace'[f] <=> u \in workspace[f]
        /\ \A f \in Files : t \in workspace'[f] <=> f \in changed[t]
    BY <1>5
  <1>7. ~Patched(t) /\ Patched(t)' /\ \A u \in Tasks \ {t} : Patched(u)' <=> Patched(u)
    <2>1. PICK f \in Files : f \in changed[t]
      BY <1>2
    <2>2. Patched(t)'
      BY <1>1, <1>6, <2>1 DEF Patched
    <2>3. ~Patched(t)
      BY <1>5 DEF Patched
    <2>4. \A u \in Tasks \ {t} : Patched(u)' <=> Patched(u)
      BY <1>6 DEF Patched
    <2> QED BY <2>2, <2>3, <2>4
  <1>8. InPlaceTasks = {} /\ InPlaceTasks' = {t}
    <2>1. InPlaceTasks = {}
      BY <1>3 DEF InPlaceTasks
    <2>2. {q \in Processes : stage'[q] \in {"patched", "invalid"}} = {p}
      BY <1>1, <1>3
    <2>3. InPlaceTasks' = {PatchOf(p)'}
      BY <2>2 DEF InPlaceTasks
    <2> QED BY <1>1, <2>1, <2>3
  <1>9. ledger' = ledger
    BY DEF rows
  <1>10. t \notin torn /\ ledger[t] \cap Applied = {}
    BY <1>2, <1>7, <1>8 DEF Settled
  <1>11. Settled' /\ TornStays'
    BY <1>7, <1>8, <1>9 DEF Settled, TornStays, PatchInv, TypeInv, TypeOK
  <1>12. CleanStays'
    BY <1>1, <1>3 DEF CleanStays
  <1>13. InPlace'
    <2>1. ASSUME NEW q \in Processes, stage'[q] \in {"patched", "invalid"}
          PROVE  /\ Patched(PatchOf(q))' /\ PatchOf(q)' \notin torn'
                 /\ ledger'[PatchOf(q)'] \cap Applied = {}
      <3>1. PatchOf(q)' = t
        BY <1>1, <1>3, <2>1
      <3>2. Patched(PatchOf(q))'
        BY <1>7, <1>1, <3>1 DEF Patched
      <3> QED BY <1>9, <1>10, <3>1, <3>2
    <2> QED BY <2>1 DEF InPlace
  <1>14. PatchesSawEachOther'
    <2>1. ASSUME NEW f \in Files, NEW u \in workspace'[f] \cap Tasks,
                 NEW v \in workspace'[f] \cap Tasks
          PROVE  u = v \/ u \in base[v][f] \/ v \in base[u][f]
      <3>1. CASE u # t /\ v # t
        BY <1>6, <2>1, <3>1 DEF PatchesSawEachOther
      <3>2. CASE u = t /\ v # t
        BY <1>4, <1>6, <2>1, <3>2
      <3>3. CASE v = t /\ u # t
        BY <1>4, <1>6, <2>1, <3>3
      <3> QED BY <3>1, <3>2, <3>3
    <2> QED BY <2>1 DEF PatchesSawEachOther
  <1> QED BY <1>11, <1>12, <1>13, <1>14

\* A patch that failed validation is taken out again and nothing else is.
LEMMA RollbackStep ==
  ASSUME FileInv, PatchInv', NEW p \in Processes, RollsBack(p)
  PROVE  FileInv'
  <1> USE DEF FileInv
  <1> DEFINE t == PatchOf(p)
  <1>1. /\ stage'[p] = "done"
        /\ \A q \in Processes \ {p} : stage'[q] = stage[q] /\ PatchOf(q)' = PatchOf(q)
    <2>1. "done" \in Stages /\ Moves(p, "done")
      BY DEF Stages, RollsBack, Resolve
    <2> QED BY <2>1, MovesEffect DEF PatchInv, TypeInv
  <1>2. t \in Tasks /\ stage[p] = "invalid"
    BY DEF RollsBack, PatchInv, TypeInv, Attending, Applying
  <1>3. \A q \in Processes : stage'[q] \notin {"clean", "patched", "invalid"}
    BY <1>1, <1>2 DEF PatchInv, OneApplierAtATime, Applying
  <1>4. InPlaceTasks = {t} /\ InPlaceTasks' = {}
    <2>1. {q \in Processes : stage[q] \in {"patched", "invalid"}} = {p}
      BY <1>1, <1>2, <1>3
    <2>2. {q \in Processes : stage'[q] \in {"patched", "invalid"}} = {}
      BY <1>3
    <2> QED BY <2>1, <2>2 DEF InPlaceTasks
  <1>5. \A f \in Files : \A u \in Tasks : u \in workspace'[f] <=> u \in workspace[f] /\ u # t
    BY DEF RollsBack, WithoutPatch
  <1>6. \A u \in Tasks : ledger'[u] \cap Applied = ledger[u] \cap Applied
    BY DEF RollsBack, Resolve, Applied, PatchInv, TypeInv, TypeOK
  <1>7. t \notin torn /\ ledger[t] \cap Applied = {}
    BY <1>2 DEF InPlace
  <1>8. torn' = torn /\ UNCHANGED base
    BY DEF RollsBack
  <1>9. Settled'
    <2>1. ASSUME NEW u \in Tasks
          PROVE  Patched(u)' <=> u \in torn \/ ledger'[u] \cap Applied # {}
      <3>1. CASE u = t
        <4>1. ~Patched(u)'
          BY <1>5, <3>1 DEF Patched
        <4> QED BY <1>2, <1>6, <1>7, <3>1, <4>1
      <3>2. CASE u # t
        <4>1. Patched(u)' <=> Patched(u)
          BY <1>5, <3>2 DEF Patched
        <4> QED BY <1>4, <1>6, <2>1, <3>2, <4>1 DEF Settled
      <3> QED BY <3>1, <3>2
    <2> QED BY <1>8, <2>1 DEF Settled
  <1>10. PatchesSawEachOther'
    BY <1>5, <1>8 DEF PatchesSawEachOther
  <1>11. CleanStays' /\ InPlace'
    BY <1>3 DEF CleanStays, InPlace
  <1>12. TornStays'
    <2>1. ASSUME NEW u \in torn PROVE Patched(u)' /\ ledger'[u] \cap Applied = {}
      <3>1. u \in Tasks \ {t}
        BY <1>7, <2>1 DEF PatchInv, TypeInv, TypeOK
      <3>2. Patched(u)'
        BY <1>5, <3>1 DEF TornStays, Patched
      <3> QED BY <1>6, <3>1, <3>2 DEF TornStays
    <2> QED BY <1>8, <2>1 DEF TornStays
  <1> QED BY <1>9, <1>10, <1>11, <1>12

LEMMA FileStep == FileInv /\ [Next]_vars => FileInv'
  <1> SUFFICES ASSUME FileInv, [Next]_vars PROVE FileInv'
    OBVIOUS
  <1> USE DEF Processes
  <1>0. /\ PatchInv /\ PatchInv'
        /\ {"idle", "routed", "working", "failing", "read", "done"} \subseteq Stages
        /\ Applying \subseteq Stages
        /\ {"idle", "routed", "working", "failing", "read", "done"} \cap Applying = {}
        /\ {"approved", "clean", "patched", "invalid"} \subseteq Applying
        /\ {"idle", "routed", "working", "failing", "read", "done", "approved"}
             \cap {"clean", "patched", "invalid"} = {}
        /\ \A t \in Tasks : PatchOf(t) = t
    BY PatchStep DEF FileInv, Stages, Applying, PatchOf
  \* p moves on outside of an application, or out of its first stage.
  <1>1. ASSUME NEW p \in Processes, NEW next \in Stages, Moves(p, next),
               next \notin {"clean", "patched", "invalid"},
               stage[p] \notin {"patched", "invalid"},
               UNCHANGED <<ledger, torn, changed, base, workspace>>
        PROVE  FileInv'
    BY <1>0, <1>1, QuietStep
  \* p rejects its patch, which is not in the files.
  <1>2. ASSUME NEW p \in Processes, NEW code \in Rejected, Resolve(p, code),
               stage[p] \in {"read", "approved", "clean"},
               UNCHANGED <<torn, changed, base, workspace>>
        PROVE  FileInv'
    <2>1. Moves(p, "done")
      BY <1>2 DEF Resolve
    <2>2. \A t \in Tasks : ledger'[t] \cap Applied = ledger[t] \cap Applied
      BY <1>0, <1>2 DEF Resolve, Applied, Rejected, Repairable, PatchInv, TypeInv, TypeOK
    <2> QED BY <1>0, <1>2, <2>1, <2>2, QuietStep
  <1>3. ASSUME NEW t \in Tasks,
               Route(t) \/ DispatchRefused(t) \/ LandFailure(t) \/ ResultRejected(t)
        PROVE  FileInv'
    BY <1>0, <1>1, <1>3 DEF Route, DispatchRefused, LandFailure, ResultRejected, rows
  <1>4. ASSUME NEW t \in Tasks, stage[t] \in {"routed", "working"}
        PROVE  \A f \in Files : t \notin workspace[f]
    BY <1>0, <1>4 DEF PatchInv, Unwritten, OwnFiles
  <1>5. ASSUME NEW t \in Tasks, Dispatch(t) PROVE FileInv'
    <2>1. \A u \in Tasks \ {t} : base'[u] = base[u]
      BY <1>0, <1>5 DEF Dispatch, PatchInv, TypeInv, TypeOK
    <2> QED BY <1>0, <1>4, <1>5, <2>1, BeginningStep DEF Dispatch
  <1>6. ASSUME NEW t \in Tasks, LandForReview(t) \/ LandForAutoApply(t) PROVE FileInv'
    <2>1. PICK next \in {"approved", "done"} : Moves(t, next)
      BY <1>6 DEF LandForReview, LandForAutoApply, RecordPending
    <2>2. Unlocked /\ UNCHANGED <<workspace, ledger, torn, base>>
      BY <1>6 DEF LandForReview, LandForAutoApply, RecordPending, rows
    <2> QED BY <1>0, <1>4, <1>6, <2>1, <2>2, BeginningStep
            DEF LandForReview, LandForAutoApply
  <1>7. ASSUME NEW p \in Processes, NEW next \in {"done", "failing"}, Moves(p, next),
               stage[p] \in Applying, torn' = TornBy(p),
               UNCHANGED <<ledger, changed, base, workspace>>
        PROVE  FileInv'
    <2>1. /\ \/ torn' = torn
             \/ torn' = torn \cup {PatchOf(p)} /\ stage[p] \in {"patched", "invalid"}
          /\ stage[p] \in {"patched", "invalid"} => PatchOf(p) \in torn'
      BY <1>7 DEF TornBy
    <2> QED BY <1>0, <1>7, <2>1, QuietStep
  <1>8. ASSUME NEW t \in Tasks, AutoApplyRaises(t) PROVE FileInv'
    BY <1>7, <1>8 DEF AutoApplyRaises, RecordPending
  <1>9. ASSUME NEW f \in Founders, NEW t \in Tasks, FounderReads(f, t) PROVE FileInv'
    <2>1. /\ stage[f] = "idle" /\ stage'[f] = "read"
          /\ \A q \in Processes \ {f} : stage'[q] = stage[q] /\ PatchOf(q)' = PatchOf(q)
      BY <1>0, <1>9 DEF FounderReads, PatchInv, TypeInv, TypeOK, PatchOf
    <2> QED BY <1>0, <1>9, <2>1, OutsideStep DEF FounderReads, rows
  <1>10. ASSUME NEW f \in Founders, FounderApproves(f) \/ FounderRefused(f) PROVE FileInv'
    BY <1>0, <1>1, <1>10 DEF FounderApproves, FounderRefused, rows
  <1>11. ASSUME NEW f \in Founders, FounderRejects(f) PROVE FileInv'
    BY <1>2, <1>11 DEF FounderRejects, Rejected
  <1>12. ASSUME NEW p \in Processes, ChecksBase(p) PROVE FileInv'
    <2>1. CASE /\ BaseUnchanged(PatchOf(p)) /\ Moves(p, "clean") /\ UNCHANGED rows
      <3>1. SawAll(PatchOf(p))
        BY <2>1 DEF BaseUnchanged, SawAll
      <3> QED BY <1>0, <1>12, <2>1, <3>1, QuietStep DEF ChecksBase, rows
    <2>2. CASE Resolve(p, "base_hash_conflict")
      BY <1>2, <1>12, <2>2 DEF ChecksBase, Rejected, Repairable
    <2> QED BY <1>12, <2>1, <2>2 DEF ChecksBase
  <1>13. ASSUME NEW p \in Processes, AppliesPatch(p) PROVE FileInv'
    <2>1. CASE Resolve(p, "apply_check_failed") /\ UNCHANGED workspace
      BY <1>2, <1>13, <2>1 DEF AppliesPatch, Rejected, Repairable
    <2>2. CASE /\ Moves(p, "patched") /\ UNCHANGED rows
               /\ workspace' = [f \in Files |-> IF f \in changed[PatchOf(p)]
                                               THEN workspace[f] \cup {PatchOf(p)}
                                               ELSE workspace[f]]
      BY <1>0, <1>13, <2>2, PatchingStep DEF AppliesPatch
    <2> QED BY <1>13, <2>1, <2>2 DEF AppliesPatch
  <1>14. ASSUME NEW p \in Processes, Validates(p) PROVE FileInv'
    <2>1. CASE Moves(p, "invalid") /\ UNCHANGED rows
      BY <1>0, <1>14, <2>1, QuietStep DEF Validates, rows
    <2>2. ASSUME NEW code \in Applied, Resolve(p, code) PROVE FileInv'
      <3>1. Moves(p, "done") /\ PatchOf(p) \in Tasks
        BY <1>0, <1>14, <2>2 DEF Resolve, Validates, PatchInv, TypeInv, Attending
      <3>2. /\ code \in ledger'[PatchOf(p)]
            /\ \A t \in Tasks \ {PatchOf(p)} : ledger'[t] = ledger[t]
        BY <1>0, <2>2, <3>1 DEF Resolve, PatchInv, TypeInv, TypeOK
      <3>3. ledger'[PatchOf(p)] \cap Applied # {}
        BY <2>2, <3>2
      <3> QED BY <1>0, <1>14, <3>1, <3>2, <3>3, QuietStep DEF Validates
    <2> QED BY <1>14, <2>1, <2>2 DEF Validates, Applied
  <1>15. ASSUME NEW p \in Processes, RollsBack(p) PROVE FileInv'
    BY <1>0, <1>15, RollbackStep
  <1>16. ASSUME NEW p \in Processes, TransactionLost(p) PROVE FileInv'
    BY <1>7, <1>16 DEF TransactionLost, rows
  <1>17. ASSUME NEW f \in Files, Edit(f) PROVE FileInv'
    <2>1. \A g \in Files : workspace'[g] \cap Tasks = workspace[g] \cap Tasks
      BY <1>0, <1>17, EditAssumption DEF Edit, PatchInv, TypeInv, TypeOK
    <2>2. UNCHANGED <<stage, view, ledger, torn, changed, base>>
      BY <1>17 DEF Edit, rows
    <2> QED BY <1>0, <2>1, <2>2, OutsideStep DEF PatchOf
  <1>18. CASE UNCHANGED <<stage, view, ledger, torn, changed, base, workspace>>
    BY <1>0, <1>18, OutsideStep DEF PatchOf
  <1>19. CASE (\E t \in Tasks : Ages(t)) \/ LeaseLapses \/ Reclaim \/ FounderReplies
    BY <1>18, <1>19 DEF Ages, LeaseLapses, Reclaim, FounderReplies
  <1>20. CASE UNCHANGED vars
    BY <1>18, <1>20 DEF vars, rows
  <1> QED BY <1>3, <1>5, <1>6, <1>8, <1>9, <1>10, <1>11, <1>12, <1>13, <1>14, <1>15, <1>16,
             <1>17, <1>19, <1>20
          DEF Next, TaskStep, FounderStep, Application

LEMMA FileInit == Init => FileInv
  <1> SUFFICES ASSUME Init PROVE FileInv
    OBVIOUS
  <1>1. PatchInv
    BY PatchInit
  <1>2. CleanStays /\ InPlace /\ TornStays /\ PatchesSawEachOther
    BY DEF Init, CleanStays, InPlace, TornStays, PatchesSawEachOther
  <1>3. Settled
    BY DEF Init, Settled, Patched
  <1> QED BY <1>1, <1>2, <1>3 DEF FileInv

\* Outside of applications under way the patches in the workspace are those
\* the ledger says were applied and those whose application broke off, although
\* neither git nor the file system takes part in the transaction; and no patch
\* is both.
THEOREM FilesMatchTheLedger == Spec => []FilesFollowTheLedger
  <1>1. FileInv => FilesFollowTheLedger
    BY DEF FileInv, Settled, TornStays, FilesFollowTheLedger
  <1> QED BY <1>1, FileInit, FileStep, PTL DEF Spec

\* Of two patches in one file one was made with the other in sight, torn ones
\* included: the base check, the lock and the rollback lose no update.
THEOREM NoPatchIsLost == Spec => []PatchesSawEachOther
  <1>1. FileInv => PatchesSawEachOther
    BY DEF FileInv
  <1> QED BY <1>1, FileInit, FileStep, PTL DEF Spec

-----------------------------------------------------------------------------
(* Policy limits.  Counting under the lock: what a process counts before   *)
(* it applies a patch can only shrink until it commits.                    *)

Failures(m) == Around(m, Repairable)
Automatic(m) == Around(m, {"auto_applied"})

\* A task that applies its own patch leaves room for it around its modules.
RoomForPatch ==
  \A t \in Tasks : stage[t] \in Applying =>
    \A m \in Scope(t) : Cardinality(Automatic(m)) < BurstLimit

PolicyInv ==
  PatchInv /\ IsFiniteSet(recent) /\ RepairLoopIsEscalated /\ BurstsAreReviewed /\ RoomForPatch

LEMMA FewerAround ==
  ASSUME NEW S, NEW T, IsFiniteSet(S), T \subseteq S
  PROVE  /\ IsFiniteSet(T) /\ Cardinality(T) \in Nat /\ Cardinality(S) \in Nat
         /\ Cardinality(T) <= Cardinality(S)
  BY FS_Subset, FS_CardinalityType

LEMMA OneMore ==
  ASSUME NEW S, NEW x, IsFiniteSet(S)
  PROVE  IsFiniteSet(S \cup {x}) /\ Cardinality(S \cup {x}) <= Cardinality(S) + 1
  <1>1. Cardinality(S) \in Nat
    BY FS_CardinalityType
  <1>2. /\ IsFiniteSet(S \cup {x})
        /\ Cardinality(S \cup {x}) = IF x \in S THEN Cardinality(S) ELSE Cardinality(S) + 1
    BY FS_AddElement
  <1> QED BY <1>1, <1>2

LEMMA AroundIsFinite ==
  ASSUME PolicyInv, NEW m
  PROVE  /\ IsFiniteSet(Failures(m)) /\ Cardinality(Failures(m)) \in Nat
         /\ IsFiniteSet(Automatic(m)) /\ Cardinality(Automatic(m)) \in Nat
  <1>1. Failures(m) \subseteq recent /\ Automatic(m) \subseteq recent
    BY DEF Failures, Automatic, Around
  <1>2. IsFiniteSet(recent)
    BY DEF PolicyInv
  <1> QED BY <1>1, <1>2, FewerAround

\* A step after which no module has more failed or automatic patches.
LEMMA ShrinkingStep ==
  ASSUME PolicyInv, recent' \subseteq recent \/ IsFiniteSet(recent'),
         \A m : Failures(m)' \subseteq Failures(m) /\ Automatic(m)' \subseteq Automatic(m),
         escalation # "none" => escalation' # "none",
         \A t \in Tasks : stage'[t] \in Applying =>
           \/ stage[t] \in Applying /\ changed'[t] = changed[t]
           \/ \A m \in Scope(t)' : Cardinality(Automatic(m)) < BurstLimit
  PROVE  IsFiniteSet(recent)' /\ RepairLoopIsEscalated' /\ BurstsAreReviewed' /\ RoomForPatch'
  <1>1. IsFiniteSet(recent)'
    BY FS_Subset DEF PolicyInv
  <1>2. ASSUME NEW m
        PROVE  /\ Cardinality(Failures(m)') \in Nat /\ Cardinality(Automatic(m)') \in Nat
               /\ Cardinality(Failures(m)') <= Cardinality(Failures(m))
               /\ Cardinality(Automatic(m)') <= Cardinality(Automatic(m))
               /\ Cardinality(Failures(m)) \in Nat /\ Cardinality(Automatic(m)) \in Nat
    BY <1>2, AroundIsFinite, FewerAround
  <1>3. RepairLoopIsEscalated'
    BY <1>2, LimitAssumption DEF RepairLoopIsEscalated, PolicyInv, Failures, Modules
  <1>4. BurstsAreReviewed'
    BY <1>2, LimitAssumption DEF BurstsAreReviewed, PolicyInv, Automatic, Modules
  <1>5. RoomForPatch'
    <2>1. ASSUME NEW t \in Tasks, stage'[t] \in Applying, NEW m \in Scope(t)'
          PROVE  Cardinality(Automatic(m)) < BurstLimit
      BY <2>1 DEF PolicyInv, RoomForPatch, Scope
    <2>2. ASSUME NEW t \in Tasks, stage'[t] \in Applying, NEW m \in Scope(t)'
          PROVE  Cardinality(Automatic(m)') < BurstLimit
      BY <1>2, <2>1, <2>2, LimitAssumption
    <2> QED BY <2>2 DEF RoomForPatch
  <1> QED BY <1>1, <1>3, <1>4, <1>5

\* A step that resolves nothing: an intake it touches becomes pending.
LEMMA UnresolvingStep ==
  ASSUME PolicyInv, recent' \subseteq recent, changed' = changed,
         \A t \in Tasks : intake'[t] = intake[t] \/ intake'[t] = "pending",
         escalation # "none" => escalation' # "none",
         \A t \in Tasks : stage'[t] \in Applying => stage[t] \in Applying
  PROVE  IsFiniteSet(recent)' /\ RepairLoopIsEscalated' /\ BurstsAreReviewed' /\ RoomForPatch'
  <1>1. ASSUME NEW m
        PROVE  Failures(m)' \subseteq Failures(m) /\ Automatic(m)' \subseteq Automatic(m)
    BY DEF Failures, Automatic, Around, Scope, Repairable, PolicyInv, PatchInv, TypeInv, TypeOK
  <1> QED BY <1>1, ShrinkingStep

\* What resolving the patch t with a code adds to the counts of a module.
LEMMA ResolutionCounts ==
  ASSUME PolicyInv, NEW p \in Processes, NEW code \in Resolutions, Resolve(p, code),
         PatchOf(p) \in Tasks, changed' = changed, NEW m
  PROVE  /\ Failures(m)' \subseteq Failures(m)
              \cup (IF code \in Repairable /\ m \in Scope(PatchOf(p)) THEN {PatchOf(p)} ELSE {})
         /\ Automatic(m)' \subseteq Automatic(m)
              \cup (IF code = "auto_applied" /\ m \in Scope(PatchOf(p)) THEN {PatchOf(p)} ELSE {})
  <1>1. /\ recent' = recent \cup {PatchOf(p)} /\ intake'[PatchOf(p)] = code
        /\ \A u \in Tasks \ {PatchOf(p)} : intake'[u] = intake[u]
    BY DEF Resolve, PolicyInv, PatchInv, TypeInv, TypeOK
  <1>2. \A u : Scope(u)' = Scope(u)
    BY DEF Scope
  <1>3. recent \subseteq Tasks
    BY DEF PolicyInv, PatchInv, TypeInv, TypeOK
  <1>4. Failures(m)' = {u \in recent' : m \in Scope(u) /\ intake'[u] \in Repairable}
    BY <1>2 DEF Failures, Around
  <1>5. Automatic(m)' = {u \in recent' : m \in Scope(u) /\ intake'[u] \in {"auto_applied"}}
    BY <1>2 DEF Automatic, Around
  <1> QED BY <1>1, <1>3, <1>4, <1>5 DEF Failures, Automatic, Around

\* Whoever has a repair fail counts every failure around the module.
LEMMA RejectingStep ==
  ASSUME PolicyInv, NEW p \in Processes, NEW code \in Rejected, Resolve(p, code),
         stage[p] \in Applying \cup {"read"}, changed' = changed
  PROVE  IsFiniteSet(recent)' /\ RepairLoopIsEscalated' /\ BurstsAreReviewed' /\ RoomForPatch'
  <1> DEFINE t == PatchOf(p)
  <1>1. t \in Tasks /\ code \in Resolutions /\ code # "auto_applied"
    BY DEF PolicyInv, PatchInv, TypeInv, Attending, Resolutions, Rejected, Repairable
  <1>2. recent' = recent \cup {t} /\ IsFiniteSet(recent) /\ IsFiniteSet(recent')
    BY FS_AddElement DEF Resolve, PolicyInv
  <1>3. ASSUME NEW u \in Tasks, stage'[u] \in Applying PROVE stage[u] \in Applying
    BY <1>3, MovesEffect DEF Resolve, PolicyInv, PatchInv, TypeInv, Stages, Applying, Processes
  <1>4. ASSUME NEW m
        PROVE  /\ Cardinality(Automatic(m)') <= Cardinality(Automatic(m))
               /\ Cardinality(Automatic(m)') \in Nat /\ Cardinality(Automatic(m)) \in Nat
    <2>1. Automatic(m)' \subseteq Automatic(m)
      BY <1>1, ResolutionCounts
    <2> QED BY <2>1, AroundIsFinite, FewerAround
  <1>5. BurstsAreReviewed'
    BY <1>4, LimitAssumption DEF BurstsAreReviewed, PolicyInv, Automatic, Modules
  <1>6. RoomForPatch'
    <2>1. ASSUME NEW u \in Tasks, stage'[u] \in Applying, NEW m \in Scope(u)'
          PROVE  Cardinality(Automatic(m)') < BurstLimit
      <3>1. Cardinality(Automatic(m)) < BurstLimit
        BY <1>3, <2>1 DEF PolicyInv, RoomForPatch, Scope
      <3> QED BY <1>4, <3>1, LimitAssumption
    <2> QED BY <2>1 DEF RoomForPatch
  <1>7. RepairLoopIsEscalated'
    <2>1. SUFFICES ASSUME NEW m \in Modules, Cardinality(Failures(m)') >= RepairQuota,
                          escalation' = "none"
                   PROVE  FALSE
      BY DEF RepairLoopIsEscalated, Failures, Modules
    <2>2. CASE code \in Repairable /\ m \in Scope(t)
      <3>1. Failures(m)' \subseteq RepairFailures(t)
        BY <1>1, <2>2, ResolutionCounts DEF RepairFailures, Failures, Around, Overlap
      <3>2. IsFiniteSet(RepairFailures(t))
        <4>1. RepairFailures(t) \subseteq recent \cup {t}
          BY DEF RepairFailures
        <4> QED BY <1>2, <4>1, FS_Subset
      <3>3. Cardinality(RepairFailures(t)) >= RepairQuota
        BY <2>1, <3>1, <3>2, FewerAround, LimitAssumption
      <3> QED BY <2>1, <2>2, <3>3 DEF Resolve
    <2>3. CASE ~(code \in Repairable /\ m \in Scope(t))
      <3>1. Failures(m)' \subseteq Failures(m)
        BY <1>1, <2>3, ResolutionCounts
      <3>2. Cardinality(Failures(m)) >= RepairQuota
        BY <2>1, <3>1, AroundIsFinite, FewerAround, LimitAssumption
      <3>3. escalation = "none"
        BY <2>1 DEF Resolve
      <3> QED BY <3>2, <3>3 DEF PolicyInv, RepairLoopIsEscalated, Failures
    <2> QED BY <2>2, <2>3
  <1> QED BY <1>2, <1>5, <1>6, <1>7

\* Whoever applies a patch on its own had room for it when it counted, and
\* nobody has resolved anything since.
LEMMA ApplyingStep ==
  ASSUME PolicyInv, NEW p \in Processes, NEW code \in Applied, Resolve(p, code),
         stage[p] \in Applying, code = "auto_applied" => p \in Tasks, changed' = changed
  PROVE  IsFiniteSet(recent)' /\ RepairLoopIsEscalated' /\ BurstsAreReviewed' /\ RoomForPatch'
  <1> DEFINE t == PatchOf(p)
  <1>1. t \in Tasks /\ code \in Resolutions /\ code \notin Repairable
    BY DEF PolicyInv, PatchInv, TypeInv, Attending, Resolutions, Applied, Repairable
  <1>2. recent' = recent \cup {t} /\ IsFiniteSet(recent) /\ IsFiniteSet(recent')
    BY FS_AddElement DEF Resolve, PolicyInv
  <1>3. \A q \in Processes : stage'[q] \notin Applying
    <2>1. \A q \in Processes \ {p} : stage[q] \notin Applying
      BY DEF PolicyInv, PatchInv, OneApplierAtATime
    <2> QED BY <2>1, MovesEffect DEF Resolve, PolicyInv, PatchInv, TypeInv, Stages, Applying
  <1>4. RoomForPatch'
    BY <1>3 DEF RoomForPatch, Processes
  <1>5. RepairLoopIsEscalated'
    <2>1. ASSUME NEW m
          PROVE  /\ Cardinality(Failures(m)') <= Cardinality(Failures(m))
                 /\ Cardinality(Failures(m)') \in Nat /\ Cardinality(Failures(m)) \in Nat
      <3>1. Failures(m)' \subseteq Failures(m)
        BY <1>1, ResolutionCounts
      <3> QED BY <3>1, AroundIsFinite, FewerAround
    <2>2. escalation' = escalation
      BY <1>1 DEF Resolve
    <2> QED BY <2>1, <2>2, LimitAssumption
            DEF RepairLoopIsEscalated, PolicyInv, Failures, Modules
  <1>6. BurstsAreReviewed'
    <2>1. SUFFICES ASSUME NEW m \in Modules PROVE Cardinality(Automatic(m)') <= BurstLimit
      BY DEF BurstsAreReviewed, Automatic, Modules
    <2>2. /\ Cardinality(Automatic(m)) <= BurstLimit
          /\ IsFiniteSet(Automatic(m)) /\ Cardinality(Automatic(m)) \in Nat
      BY <2>1, AroundIsFinite DEF PolicyInv, BurstsAreReviewed, Automatic
    <2>3. CASE code = "auto_applied" /\ m \in Scope(t)
      <3>1. Cardinality(Automatic(m)) < BurstLimit
        BY <2>3 DEF PolicyInv, RoomForPatch, PatchOf
      <3>2. Automatic(m)' \subseteq Automatic(m) \cup {t}
        BY <1>1, <2>3, ResolutionCounts
      <3>3. /\ IsFiniteSet(Automatic(m) \cup {t})
            /\ Cardinality(Automatic(m) \cup {t}) <= Cardinality(Automatic(m)) + 1
        BY <2>2, OneMore
      <3> QED BY <2>2, <3>1, <3>2, <3>3, FewerAround, LimitAssumption
    <2>4. CASE ~(code = "auto_applied" /\ m \in Scope(t))
      <3>1. Automatic(m)' \subseteq Automatic(m)
        BY <1>1, <2>4, ResolutionCounts
      <3> QED BY <2>2, <3>1, FewerAround, LimitAssumption
    <2> QED BY <2>3, <2>4
  <1> QED BY <1>2, <1>4, <1>5, <1>6

LEMMA PolicyStep == PolicyInv /\ [Next]_vars => PolicyInv'
  <1> SUFFICES ASSUME PolicyInv, [Next]_vars
               PROVE  /\ IsFiniteSet(recent)' /\ RepairLoopIsEscalated'
                      /\ BurstsAreReviewed' /\ RoomForPatch'
    BY PatchStep DEF PolicyInv
  <1> DEFINE Goal == /\ IsFiniteSet(recent)' /\ RepairLoopIsEscalated'
                     /\ BurstsAreReviewed' /\ RoomForPatch'
  <1> USE DEF Processes
  <1>0. /\ PatchInv /\ TypeInv /\ TypeOK
        /\ {"idle", "routed", "working", "failing", "read", "done"} \subseteq Stages
        /\ {"idle", "routed", "working", "failing", "read", "done"} \cap Applying = {}
        /\ {"approved", "clean", "patched", "invalid"} \subseteq Applying
        /\ Applying \subseteq Stages
    BY DEF PolicyInv, PatchInv, TypeInv, Stages, Applying
  \* p moves without resolving anything.
  <1>1. ASSUME NEW p \in Processes, NEW next \in Stages, Moves(p, next),
               next \in Applying => stage[p] \in Applying \/ p \notin Tasks,
               changed' = changed, recent' = recent, escalation' = escalation,
               \A t \in Tasks : intake'[t] = intake[t] \/ intake'[t] = "pending"
        PROVE  Goal
    <2>1. \A t \in Tasks : stage'[t] \in Applying => stage[t] \in Applying
      BY <1>0, <1>1, MovesEffect
    <2> QED BY <1>1, <2>1, UnresolvingStep
  <1>2. ASSUME NEW t \in Tasks,
               Route(t) \/ Dispatch(t) \/ DispatchRefused(t) \/ LandFailure(t) \/ ResultRejected(t)
        PROVE  Goal
    BY <1>0, <1>1, <1>2
       DEF Route, Dispatch, DispatchRefused, LandFailure, ResultRejected, rows
  \* The result of t lands: t is not in any count yet.
  <1>3. ASSUME NEW t \in Tasks, LandForReview(t) \/ LandForAutoApply(t) PROVE Goal
    <2>1. /\ recent' = recent /\ escalation' = escalation
          /\ \A u \in Tasks : intake'[u] = intake[u] \/ intake'[u] = "pending"
          /\ \A u \in Tasks \ {t} : changed'[u] = changed[u]
      BY <1>0, <1>3 DEF LandForReview, LandForAutoApply, RecordPending, rows, TypeOK
    <2>2. intake[t] = "none"
      BY <1>0, <1>3 DEF LandForReview, LandForAutoApply, PatchInv, Unwritten, Substantial
    <2>3. \A u \in Tasks \ {t} : Scope(u)' = Scope(u)
      BY <2>1 DEF Scope
    <2>4. ASSUME NEW m
          PROVE  Failures(m)' \subseteq Failures(m) /\ Automatic(m)' \subseteq Automatic(m)
      <3>1. recent \subseteq Tasks
        BY <1>0 DEF TypeOK
      <3>2. /\ Failures(m)' = {v \in recent : m \in Scope(v)' /\ intake'[v] \in Repairable}
            /\ Automatic(m)' = {v \in recent : m \in Scope(v)' /\ intake'[v] = "auto_applied"}
        BY <2>1 DEF Failures, Automatic, Around
      <3>3. /\ Failures(m) = {v \in recent : m \in Scope(v) /\ intake[v] \in Repairable}
            /\ Automatic(m) = {v \in recent : m \in Scope(v) /\ intake[v] = "auto_applied"}
        BY DEF Failures, Automatic, Around
      <3>4. \A v \in Tasks : intake'[v] \in Repairable \cup {"auto_applied"} =>
              v # t /\ intake'[v] = intake[v]
        BY <2>1, <2>2 DEF Repairable
      <3> QED BY <2>3, <3>1, <3>2, <3>3, <3>4
    <2>5. ASSUME NEW u \in Tasks, stage'[u] \in Applying
          PROVE  \/ stage[u] \in Applying /\ changed'[u] = changed[u]
                 \/ \A m \in Scope(u)' : Cardinality(Automatic(m)) < BurstLimit
      <3>1. CASE u # t
        <4>1. PICK next \in {"approved", "done"} : Moves(t, next)
          BY <1>3 DEF LandForReview, LandForAutoApply, RecordPending
        <4>2. stage'[u] = stage[u]
          BY <1>0, <3>1, <4>1, MovesEffect
        <4> QED BY <2>1, <2>5, <3>1, <4>2
      <3>2. CASE u = t /\ LandForReview(t)
        <4>1. Moves(t, "done")
          BY <3>2 DEF LandForReview, RecordPending
        <4> QED BY <1>0, <2>5, <3>2, <4>1, MovesEffect
      <3>3. CASE u = t /\ LandForAutoApply(t)
        <4> DEFINE near == {v \in recent : /\ intake[v] = "auto_applied"
                                           /\ Scope(v) \cap {ModuleOf[f] : f \in changed'[t]} # {}}
        <4>1. near \subseteq recent
          OBVIOUS
        <4>2. IsFiniteSet(near) /\ Cardinality(near) \in Nat
          BY <4>1, FewerAround DEF PolicyInv
        <4>3. ~(Cardinality(near) >= BurstLimit)
          BY <3>3 DEF LandForAutoApply, Burst
        <4>4. ASSUME NEW m \in Scope(t)' PROVE Cardinality(Automatic(m)) < BurstLimit
          <5>1. m \in {ModuleOf[f] : f \in changed'[t]}
            BY <4>4 DEF Scope
          <5>2. Automatic(m) \subseteq near
            BY <5>1 DEF Automatic, Around
          <5> HIDE DEF near
          <5> QED BY <4>2, <4>3, <5>2, FewerAround, LimitAssumption
        <4> QED BY <3>3, <4>4
      <3> QED BY <1>3, <3>1, <3>2, <3>3
    <2> QED BY <2>1, <2>4, <2>5, ShrinkingStep
  <1>4. ASSUME NEW t \in Tasks, AutoApplyRaises(t) PROVE Goal
    <2>1. \A u \in Tasks : intake'[u] = intake[u] \/ intake'[u] = "pending"
      BY <1>0, <1>4 DEF AutoApplyRaises, RecordPending, TypeOK
    <2> QED BY <1>0, <1>1, <1>4, <2>1 DEF AutoApplyRaises, RecordPending
  <1>5. ASSUME NEW f \in Founders, NEW t \in Tasks, FounderReads(f, t) PROVE Goal
    <2>1. \A u \in Tasks : stage'[u] = stage[u]
      BY <1>0, <1>5, ProcessAssumption DEF FounderReads, TypeOK
    <2> QED BY <1>5, <2>1, UnresolvingStep DEF FounderReads, rows
  <1>6. ASSUME NEW f \in Founders, FounderApproves(f) \/ FounderRefused(f) PROVE Goal
    BY <1>0, <1>1, <1>6, ProcessAssumption DEF FounderApproves, FounderRefused, rows
  <1>7. ASSUME NEW f \in Founders, FounderRejects(f) PROVE Goal
    BY <1>7, RejectingStep DEF FounderRejects, Rejected
  <1>8. ASSUME NEW p \in Processes, ChecksBase(p) PROVE Goal
    <2>1. CASE Moves(p, "clean") /\ UNCHANGED rows
      BY <1>0, <1>1, <1>8, <2>1 DEF ChecksBase, rows
    <2>2. CASE Resolve(p, "base_hash_conflict")
      BY <1>0, <1>8, <2>2, RejectingStep DEF ChecksBase, Rejected, Repairable
    <2> QED BY <1>8, <2>1, <2>2 DEF ChecksBase
  <1>9. ASSUME NEW p \in Processes, AppliesPatch(p) PROVE Goal
    <2>1. CASE Moves(p, "patched") /\ UNCHANGED rows
      BY <1>0, <1>1, <1>9, <2>1 DEF AppliesPatch, rows
    <2>2. CASE Resolve(p, "apply_check_failed")
      BY <1>0, <1>9, <2>2, RejectingStep DEF AppliesPatch, Rejected, Repairable
    <2> QED BY <1>9, <2>1, <2>2 DEF AppliesPatch
  <1>10. ASSUME NEW p \in Processes, Validates(p) PROVE Goal
    <2>1. CASE Moves(p, "invalid") /\ UNCHANGED rows
      BY <1>0, <1>1, <1>10, <2>1 DEF Validates, rows
    <2>2. CASE Resolve(p, IF p \in Tasks THEN "auto_applied" ELSE "founder_approved")
      BY <1>0, <1>10, <2>2, ApplyingStep DEF Validates, Applied
    <2> QED BY <1>10, <2>1, <2>2 DEF Validates
  <1>11. ASSUME NEW p \in Processes, RollsBack(p) PROVE Goal
    BY <1>0, <1>11, RejectingStep DEF RollsBack, Rejected, Repairable
  <1>12. ASSUME NEW p \in Processes, TransactionLost(p) PROVE Goal
    <2>1. PICK next \in {"done", "failing"} : Moves(p, next)
      BY <1>12 DEF TransactionLost
    <2> QED BY <1>0, <1>1, <1>12, <2>1 DEF TransactionLost, rows
  <1>13. CASE (\E f \in Files : Edit(f)) \/ LeaseLapses \/ Reclaim \/ FounderReplies
              \/ UNCHANGED vars
    BY <1>13, UnresolvingStep
       DEF Edit, LeaseLapses, Reclaim, FounderReplies, vars, rows
  <1>14. ASSUME NEW t \in Tasks, Ages(t) PROVE Goal
    BY <1>14, UnresolvingStep DEF Ages
  <1> QED BY <1>2, <1>3, <1>4, <1>5, <1>6, <1>7, <1>8, <1>9, <1>10, <1>11, <1>12, <1>13, <1>14
          DEF Next, TaskStep, FounderStep, Application

LEMMA PolicyInit == Init => PolicyInv
  <1> SUFFICES ASSUME Init PROVE PolicyInv
    OBVIOUS
  <1>1. \A m : Failures(m) = {} /\ Automatic(m) = {}
    BY DEF Init, Failures, Automatic, Around
  <1>2. IsFiniteSet({}) /\ Cardinality({}) = 0
    BY FS_EmptySet
  <1>3. recent = {} /\ \A t \in Tasks : stage[t] \notin Applying
    BY DEF Init, Applying, Processes
  <1>4. RepairLoopIsEscalated
    BY <1>1, <1>2, LimitAssumption DEF RepairLoopIsEscalated, Failures
  <1>5. BurstsAreReviewed
    BY <1>1, <1>2, LimitAssumption DEF BurstsAreReviewed, Automatic
  <1> QED BY <1>2, <1>3, <1>4, <1>5, PatchInit DEF PolicyInv, RoomForPatch

\* When repairs around a module have failed as often as the quota allows
\* within the window, guidance has been asked for, whoever counted while
\* others resolved, and under whatever verdicts that overwrite one another.
THEOREM RepairLoopsReachTheFounder == Spec => []RepairLoopIsEscalated
  <1>1. PolicyInv => RepairLoopIsEscalated
    BY DEF PolicyInv
  <1> QED BY <1>1, PolicyInit, PolicyStep, PTL DEF Spec

\* No module takes more automatic patches within the window than the burst
\* limit: the count a finalizer makes before it applies still bounds the
\* module when it commits.
THEOREM BurstsReachTheFounder == Spec => []BurstsAreReviewed
  <1>1. PolicyInv => BurstsAreReviewed
    BY DEF PolicyInv
  <1> QED BY <1>1, PolicyInit, PolicyStep, PTL DEF Spec

-----------------------------------------------------------------------------
(* Who strands a run.                                                      *)

LEMMA StrandStep ==
  ASSUME TypeInv, Backed, [Next]_vars
  PROVE  Backed' \/ \E f \in Founders : Ends(f) /\ view[f].run # runStatus
  <1> DEFINE Goal == Backed' \/ \E f \in Founders : Ends(f) /\ view[f].run # runStatus
  <1>1. CASE UNCHANGED <<runStatus, claim>>
    BY <1>1 DEF Backed
  <1>2. CASE runStatus' # "running" \/ claim' # Nobody
    BY <1>2 DEF Backed
  <1>3. ASSUME NEW p \in Processes, NEW code, Resolve(p, code), stage[p] \in InHand
        PROVE  Goal
    <2>1. StatusAfter(code) # "running"
      BY DEF StatusAfter
    <2>2. CASE p \in Founders /\ StatusAfter(code) = view[p].run
      <3>1. runStatus' = runStatus
        BY <1>3, <2>2 DEF Resolve, WrittenStatus
      <3>2. stage'[p] = "done"
        BY <1>3 DEF Resolve, Moves, TypeInv, TypeOK
      <3>3. CASE runStatus = "running"
        BY <1>3, <2>1, <2>2, <3>2, <3>3 DEF Ends
      <3>4. CASE runStatus # "running"
        BY <1>2, <3>1, <3>4
      <3> QED BY <3>3, <3>4
    <2>3. CASE ~(p \in Founders /\ StatusAfter(code) = view[p].run)
      BY <1>2, <1>3, <2>1, <2>3 DEF Resolve, WrittenStatus
    <2> QED BY <2>2, <2>3
  <1>4. ASSUME NEW t \in Tasks, TaskStep(t) PROVE Goal
    <2>1. CASE Route(t) \/ DispatchRefused(t) \/ LandForAutoApply(t) \/ ResultRejected(t)
      BY <1>1, <2>1 DEF Route, DispatchRefused, LandForAutoApply, ResultRejected, rows
    <2>2. CASE Dispatch(t) \/ LandForReview(t) \/ LandFailure(t) \/ AutoApplyRaises(t)
      BY <1>2, <2>2, NobodyAssumption
         DEF Dispatch, LandForReview, LandFailure, AutoApplyRaises, RecordPending
    <2> QED BY <1>4, <2>1, <2>2 DEF TaskStep
  <1>5. ASSUME NEW f \in Founders, FounderStep(f) PROVE Goal
    <2>1. CASE FounderRejects(f)
      BY <1>3, <2>1 DEF FounderRejects, Processes, InHand
    <2>2. CASE ~FounderRejects(f)
      BY <1>1, <1>5, <2>2 DEF FounderStep, FounderReads, FounderApproves, FounderRefused, rows
    <2> QED BY <2>1, <2>2
  <1>6. ASSUME NEW p \in Processes, Application(p) PROVE Goal
    <2>1. UNCHANGED rows \/ (stage[p] \in InHand /\ \E code \in Resolutions : Resolve(p, code))
      BY <1>6 DEF Application, ChecksBase, AppliesPatch, Validates, RollsBack, TransactionLost,
                  InHand, Applying, Resolutions, Applied, Rejected, Repairable
    <2> QED BY <1>1, <1>3, <1>6, <2>1 DEF rows
  <1>7. CASE Reclaim
    BY <1>2, <1>7 DEF Reclaim, Backed
  <1>8. CASE \/ \E f \in Files : Edit(f)
             \/ \E t \in Tasks : Ages(t)
             \/ LeaseLapses \/ FounderReplies \/ UNCHANGED vars
    BY <1>1, <1>8 DEF Edit, Ages, LeaseLapses, FounderReplies, vars, rows
  <1> QED BY <1>4, <1>5, <1>6, <1>7, <1>8 DEF Next

\* Nothing but a founder's command that had read another status of the run
\* leaves it RUNNING without a claim.
THEOREM RunsAreStrandedByOutdatedReviews == Spec => OnlyOutdatedReviewsStrand
  <1>1. TypeInv /\ [Next]_vars =>
          [Backed => Backed' \/ \E f \in Founders : Ends(f) /\ view[f].run # runStatus]_vars
    BY StrandStep
  <1> QED BY <1>1, TypeInit, TypeStep, PTL DEF Spec, OnlyOutdatedReviewsStrand

-----------------------------------------------------------------------------
(* The one-step review.  A task has no intake before it is done, and a     *)
(* founder reviews what has one.                                           *)

Unjudged == \A t \in Tasks : stage[t] # "done" => intake[t] = "none"
Reviewing == \A f \in Founders : stage[f] \in InHand => intake[view[f].task] # "none"
ReviewInv == FileInv /\ Unjudged /\ Reviewing

\* What is neither torn nor under way is in the files by the ledger's word.
LEMMA LandedByLedger ==
  ASSUME FileInv
  PROVE  Landed = {t \in Tasks : ledger[t] \cap Applied # {}}
  <1>1. \A t \in torn \cup InPlaceTasks : ledger[t] \cap Applied = {}
    BY DEF FileInv, TornStays, InPlace, InPlaceTasks
  <1> QED BY <1>1 DEF FileInv, Settled, Landed

LEMMA LandedByLedgerNext ==
  ASSUME FileInv'
  PROVE  Landed' = {t \in Tasks : ledger'[t] \cap Applied # {}}
  <1>1. \A t \in torn' \cup InPlaceTasks' : ledger'[t] \cap Applied = {}
    BY DEF FileInv, TornStays, InPlace, InPlaceTasks
  <1> QED BY <1>1 DEF FileInv, Settled, Landed

\* What a resolution does to intakes and ledger.
LEMMA ResolutionEffect ==
  ASSUME TypeInv, NEW p \in Processes, NEW code \in Resolutions, Resolve(p, code),
         stage[p] \in InHand
  PROVE  /\ PatchOf(p) \in Tasks /\ stage'[p] = "done"
         /\ \A q \in Processes \ {p} : stage'[q] = stage[q] /\ PatchOf(q)' = PatchOf(q)
         /\ intake' = [intake EXCEPT ![PatchOf(p)] = code] /\ code # "none"
         /\ ledger' = [ledger EXCEPT ![PatchOf(p)] = ledger[PatchOf(p)] \cup {code}]
  <1>1. PatchOf(p) \in Tasks
    BY DEF TypeInv, Attending, InHand
  <1>2. stage'[p] = "done"
        /\ \A q \in Processes \ {p} : stage'[q] = stage[q] /\ PatchOf(q)' = PatchOf(q)
    BY MovesEffect DEF Resolve, TypeInv, Stages
  <1>3. code # "none"
    BY DEF Resolutions, Applied, Rejected, Repairable
  <1> QED BY <1>1, <1>2, <1>3 DEF Resolve, TypeInv, TypeOK

\* A step that leaves the intakes alone, and moves at most one process.
LEMMA LeavingStep ==
  ASSUME ReviewInv, intake' = intake,
         \A t \in Tasks : stage'[t] # "done" => stage[t] # "done",
         \A f \in Founders : stage'[f] \in InHand =>
           stage[f] \in InHand /\ view'[f] = view[f]
  PROVE  Unjudged' /\ Reviewing'
  BY DEF ReviewInv, Unjudged, Reviewing

\* The process that a step moves is not done yet.
LEMMA MovingOn ==
  ASSUME ReviewInv, NEW p \in Processes, stage[p] # "done", NEW next \in Stages, Moves(p, next),
         intake' = intake, p \in Tasks \/ next \notin InHand \/ stage[p] \in InHand
  PROVE  Unjudged' /\ Reviewing'
  <1>1. stage'[p] = next /\ \A q \in Processes \ {p} : stage'[q] = stage[q]
    BY MovesEffect DEF ReviewInv, FileInv, PatchInv, TypeInv
  <1>2. "done" \notin InHand
    BY DEF InHand, Applying
  <1>3. \A f \in Founders : stage'[f] \in InHand => view'[f] = view[f]
    BY <1>1, <1>2 DEF Moves, Processes
  <1> QED BY <1>1, <1>3, LeavingStep, ProcessAssumption DEF Processes

LEMMA ReviewInvStep == ReviewInv /\ [Next]_vars => ReviewInv'
  <1> SUFFICES ASSUME ReviewInv, [Next]_vars PROVE Unjudged' /\ Reviewing'
    BY FileStep DEF ReviewInv
  <1> DEFINE Goal == Unjudged' /\ Reviewing'
  <1> USE DEF Processes
  <1>0. /\ TypeInv /\ TypeOK
        /\ {"idle", "routed", "working", "failing", "read", "done"} \subseteq Stages
        /\ Applying \subseteq Stages /\ InHand = Applying \cup {"read"}
        /\ {"idle", "routed", "working", "failing", "done"} \cap InHand = {}
        /\ {"approved", "clean", "patched", "invalid"} \subseteq Applying
    BY DEF ReviewInv, FileInv, PatchInv, TypeInv, Stages, Applying, InHand
  <1>1. ASSUME NEW t \in Tasks,
               \/ Route(t) \/ Dispatch(t) \/ DispatchRefused(t)
               \/ LandForAutoApply(t) \/ LandFailure(t) \/ ResultRejected(t)
        PROVE  Goal
    BY <1>0, <1>1, MovingOn
       DEF Route, Dispatch, DispatchRefused, LandForAutoApply, LandFailure, ResultRejected, rows
  <1>2. ASSUME NEW p \in Processes, stage'[p] = "done",
               \A q \in Processes \ {p} : stage'[q] = stage[q] /\ PatchOf(q)' = PatchOf(q),
               NEW t \in Tasks, NEW code, code # "none", intake' = [intake EXCEPT ![t] = code],
               p = t \/ (p \in Founders /\ intake[t] # "none")
        PROVE  Goal
    <2>1. \A f \in Founders : stage'[f] \in InHand => f # p /\ view'[f].task = view[f].task
      BY <1>0, <1>2, ProcessAssumption DEF PatchOf
    <2>2. Reviewing'
      BY <1>0, <1>2, <2>1 DEF ReviewInv, Reviewing, TypeOK
    <2>3. Unjudged'
      BY <1>0, <1>2, ProcessAssumption DEF ReviewInv, Unjudged, TypeOK
    <2> QED BY <2>2, <2>3
  <1>3. ASSUME NEW p \in Processes, NEW code \in Resolutions, Resolve(p, code),
               stage[p] \in InHand
        PROVE  Goal
    <2>1. PatchOf(p) = p \/ (p \in Founders /\ intake[PatchOf(p)] # "none")
      BY <1>3, ProcessAssumption DEF ReviewInv, Reviewing, PatchOf
    <2> QED BY <1>0, <1>2, <1>3, <2>1, ResolutionEffect
  <1>4. ASSUME NEW t \in Tasks, LandForReview(t) \/ AutoApplyRaises(t) PROVE Goal
    <2>1. RecordPending(t)
      BY <1>4 DEF LandForReview, AutoApplyRaises
    <2>2. /\ stage'[t] = "done"
          /\ \A q \in Processes \ {t} : stage'[q] = stage[q] /\ PatchOf(q)' = PatchOf(q)
      BY <1>0, <2>1, MovesEffect DEF RecordPending
    <2> QED BY <1>2, <2>1, <2>2 DEF RecordPending
  <1>5. ASSUME NEW f \in Founders, NEW t \in Tasks, FounderReads(f, t) PROVE Goal
    <2>1. /\ intake[t] = "pending" /\ intake' = intake
          /\ view'[f].task = t /\ \A g \in Founders \ {f} : view'[g] = view[g]
          /\ \A q \in Processes \ {f} : stage'[q] = stage[q]
      BY <1>0, <1>5 DEF FounderReads, TypeOK, rows
    <2> QED BY <1>0, <2>1, ProcessAssumption DEF ReviewInv, Unjudged, Reviewing
  <1>6. ASSUME NEW f \in Founders, FounderStep(f) PROVE Goal
    <2>1. CASE FounderRejects(f)
      BY <1>0, <1>3, <2>1 DEF FounderRejects, Resolutions, Rejected
    <2>2. CASE FounderApproves(f) \/ FounderRefused(f)
      BY <1>0, <2>2, MovingOn DEF FounderApproves, FounderRefused, rows
    <2> QED BY <1>5, <1>6, <2>1, <2>2 DEF FounderStep
  <1>7. ASSUME NEW p \in Processes, Application(p) PROVE Goal
    <2>1. /\ stage[p] \in InHand /\ stage[p] # "done"
          /\ \/ \E code \in Resolutions : Resolve(p, code)
             \/ UNCHANGED rows /\ \E next \in Stages : Moves(p, next)
      BY <1>0, <1>7
         DEF Application, ChecksBase, AppliesPatch, Validates, RollsBack, TransactionLost,
             Resolutions, Applied, Rejected, Repairable
    <2> QED BY <1>3, <2>1, MovingOn DEF rows
  <1>8. CASE \/ \E f \in Files : Edit(f)
             \/ \E t \in Tasks : Ages(t)
             \/ LeaseLapses \/ Reclaim \/ FounderReplies \/ UNCHANGED vars
    <2>1. UNCHANGED <<intake, stage, view>>
      BY <1>8 DEF Edit, Ages, LeaseLapses, Reclaim, FounderReplies, vars, rows
    <2> QED BY <2>1, LeavingStep
  <1> QED BY <1>1, <1>4, <1>6, <1>7, <1>8 DEF Next, TaskStep

LEMMA ReviewInvInit == Init => ReviewInv
  BY FileInit DEF Init, ReviewInv, Unjudged, Reviewing, InHand, Applying, Processes

\* Intakes and ledger as the review sees them.
LEMMA VerdictStep ==
  ASSUME TypeOK, NEW t \in Tasks, NEW code \in {"pending"} \cup Resolutions,
         intake' = [intake EXCEPT ![t] = code]
  PROVE  /\ code = "pending" => Verdict' = [Verdict EXCEPT ![t] = "pending"]
         /\ code \in Applied => Verdict' = [Verdict EXCEPT ![t] = "applied"]
         /\ code \in Rejected => Verdict' = [Verdict EXCEPT ![t] = "rejected"]
         /\ intake[t] \in {"none", "pending"} => Verdict[t] = intake[t]
  BY DEF TypeOK, Verdict, Resolutions, Applied, Rejected, Repairable

LEMMA LandedStep ==
  ASSUME FileInv, FileInv', NEW t \in Tasks, NEW code \in Resolutions,
         ledger' = [ledger EXCEPT ![t] = ledger[t] \cup {code}]
  PROVE  /\ code \in Applied => Landed' = Landed \cup {t}
         /\ code \in Rejected => Landed' = Landed
  <1>1. Landed' = {u \in Tasks : ledger'[u] \cap Applied # {}}
    BY LandedByLedgerNext
  <1>2. /\ \A u \in Tasks \ {t} : ledger'[u] = ledger[u]
        /\ ledger'[t] = ledger[t] \cup {code}
    BY DEF FileInv, PatchInv, TypeInv, TypeOK
  <1>3. code \in Rejected => code \notin Applied
    BY DEF Applied, Rejected, Repairable
  <1> QED BY <1>1, <1>2, <1>3, LandedByLedger

\* Whoever finds the intake open reviews it in this one step.
LEMMA OneStepReview ==
  ASSUME ReviewInv, FileInv', NEW p \in Processes, NEW code \in Resolutions,
         Resolve(p, code), stage[p] \in InHand, intake[PatchOf(p)] \in {"none", "pending"}
  PROVE  Reviewed
  <1> DEFINE t == PatchOf(p)
  <1>1. TypeInv /\ TypeOK /\ FileInv
    BY DEF ReviewInv, FileInv, PatchInv, TypeInv
  <1>2. /\ t \in Tasks /\ intake' = [intake EXCEPT ![t] = code]
        /\ ledger' = [ledger EXCEPT ![t] = ledger[t] \cup {code}]
    BY <1>1, ResolutionEffect
  <1> HIDE DEF t
  <1>3. Verdict[t] \in {"none", "pending"}
    BY <1>1, <1>2, VerdictStep DEF t
  <1>4. CASE code \in Applied
    <2>1. Verdict' = [Verdict EXCEPT ![t] = "applied"] /\ Landed' = Landed \cup {t}
      BY <1>1, <1>2, <1>4, VerdictStep, LandedStep
    <2> QED BY <1>2, <1>3, <2>1 DEF Reviewed, Review!Next, Review!Accept, Review!Open
  <1>5. CASE code \in Rejected
    <2>1. Verdict' = [Verdict EXCEPT ![t] = "rejected"] /\ Landed' = Landed
      BY <1>1, <1>2, <1>5, VerdictStep, LandedStep
    <2> QED BY <1>2, <1>3, <2>1 DEF Reviewed, Review!Next, Review!Reject, Review!Open
  <1> QED BY <1>4, <1>5 DEF Resolutions

LEMMA UnreviewedStep ==
  ASSUME FileInv, FileInv', UNCHANGED <<intake, ledger>>
  PROVE  Reviewed
  <1>1. Landed' = {u \in Tasks : ledger'[u] \cap Applied # {}}
    BY LandedByLedgerNext
  <1>2. Landed' = Landed /\ Verdict' = Verdict
    BY <1>1, LandedByLedger DEF Verdict
  <1> QED BY <1>2 DEF Reviewed, Review!vars

LEMMA ReviewStep ==
  ASSUME ReviewInv, [Next]_vars
  PROVE  Reviewed \/ \E f \in Founders : Ends(f) /\ intake[view[f].task] # "pending"
  <1> DEFINE Goal == Reviewed \/ \E f \in Founders : Ends(f) /\ intake[view[f].task] # "pending"
  <1> USE DEF Processes
  <1>0. /\ TypeInv /\ TypeOK /\ FileInv /\ FileInv' /\ InHand = Applying \cup {"read"}
        /\ {"approved", "clean", "patched", "invalid"} \subseteq Applying
    BY FileStep DEF ReviewInv, FileInv, PatchInv, TypeInv, Applying, InHand
  <1>1. CASE UNCHANGED <<intake, ledger>>
    BY <1>0, <1>1, UnreviewedStep
  <1>2. ASSUME NEW p \in Processes, NEW code \in Resolutions, Resolve(p, code),
               stage[p] \in InHand
        PROVE  Goal
    <2>1. CASE intake[PatchOf(p)] \in {"none", "pending"}
      BY <1>0, <1>2, <2>1, OneStepReview
    <2>2. CASE intake[PatchOf(p)] \notin {"none", "pending"}
      <3>1. p \in Founders /\ PatchOf(p) = view[p].task
        BY <1>0, <1>2, <2>2 DEF ReviewInv, Unjudged, PatchOf, InHand, Applying
      <3>2. Ends(p)
        BY <1>0, <1>2, ResolutionEffect DEF Ends
      <3> QED BY <2>2, <3>1, <3>2
    <2> QED BY <2>1, <2>2
  <1>3. ASSUME NEW t \in Tasks, RecordPending(t), stage[t] # "done" PROVE Goal
    <2>1. intake[t] = "none"
      BY <1>3 DEF ReviewInv, Unjudged
    <2>2. Verdict[t] = "none" /\ Verdict' = [Verdict EXCEPT ![t] = "pending"]
      BY <1>0, <1>3, <2>1, VerdictStep DEF RecordPending
    <2>3. Landed' = {u \in Tasks : ledger'[u] \cap Applied # {}}
      BY <1>0, LandedByLedgerNext
    <2>4. Landed' = Landed
      BY <1>0, <1>3, <2>3, LandedByLedger DEF RecordPending
    <2> QED BY <2>2, <2>4 DEF Reviewed, Review!Next, Review!Submit
  <1>4. ASSUME NEW t \in Tasks, TaskStep(t) PROVE Goal
    <2>1. CASE LandForReview(t) \/ AutoApplyRaises(t)
      BY <1>3, <2>1 DEF LandForReview, AutoApplyRaises, Applying
    <2>2. CASE \/ Route(t) \/ Dispatch(t) \/ DispatchRefused(t)
               \/ LandForAutoApply(t) \/ LandFailure(t) \/ ResultRejected(t)
      BY <1>1, <2>2
         DEF Route, Dispatch, DispatchRefused, LandForAutoApply, LandFailure, ResultRejected, rows
    <2> QED BY <1>4, <2>1, <2>2 DEF TaskStep
  <1>5. ASSUME NEW f \in Founders, FounderStep(f) PROVE Goal
    <2>1. CASE FounderRejects(f)
      BY <1>0, <1>2, <2>1 DEF FounderRejects, Resolutions, Rejected
    <2>2. CASE ~FounderRejects(f)
      BY <1>1, <1>5, <2>2 DEF FounderStep, FounderReads, FounderApproves, FounderRefused, rows
    <2> QED BY <2>1, <2>2
  <1>6. ASSUME NEW p \in Processes, Application(p) PROVE Goal
    <2>1. UNCHANGED rows \/ (stage[p] \in InHand /\ \E code \in Resolutions : Resolve(p, code))
      BY <1>0, <1>6 DEF Application, ChecksBase, AppliesPatch, Validates, RollsBack,
                        TransactionLost, Resolutions, Applied, Rejected, Repairable
    <2> QED BY <1>1, <1>2, <1>6, <2>1 DEF rows
  <1>7. CASE \/ \E f \in Files : Edit(f)
             \/ \E t \in Tasks : Ages(t)
             \/ LeaseLapses \/ Reclaim \/ FounderReplies \/ UNCHANGED vars
    BY <1>1, <1>7 DEF Edit, Ages, LeaseLapses, Reclaim, FounderReplies, vars, rows
  <1> QED BY <1>4, <1>5, <1>6, <1>7 DEF Next

LEMMA ReviewBegins == Init => Review!Init
  <1> SUFFICES ASSUME Init PROVE Review!Init
    OBVIOUS
  <1>1. Verdict = [t \in Tasks |-> "none"]
    BY DEF Init, Verdict, Applied, Rejected, Repairable
  <1>2. Landed = {}
    BY DEF Init, Landed, Patched
  <1> QED BY <1>1, <1>2 DEF Review!Init

\* Rows, ledger and workspace implement the one-step review through every
\* crash, failed rollback and outside edit, up to the founder's commands that
\* resolve an intake which was resolved after they had read it.
THEOREM OnlyOutdatedReviewsDiverge == Spec => OnlyOutdatedReviewsOverwrite
  <1>1. ReviewInv /\ [Next]_vars =>
          [Reviewed \/ \E f \in Founders : Ends(f) /\ intake[view[f].task] # "pending"]_vars
    BY ReviewStep
  <1> QED BY <1>1, ReviewBegins, ReviewInvInit, ReviewInvStep, PTL
          DEF Spec, OnlyOutdatedReviewsOverwrite

-----------------------------------------------------------------------------
(* The founders one after the other: what a command has read is so until   *)
(* it commits.                                                             *)

Current ==
  \A f \in Founders : stage[f] \in InHand =>
    intake[view[f].task] = "pending" /\ view[f].run = runStatus
SerialInv == ReviewInv /\ Current

\* A step that moves a process finds no founder's command under way but its
\* own.
LEMMA AloneStep ==
  ASSUME TypeInv, Serialised, NEW p \in Processes, stage'[p] # stage[p],
         \A q \in Processes \ {p} : stage'[q] = stage[q]
  PROVE  \A f \in Founders \ {p} : stage'[f] \notin InHand
  BY DEF Serialised, Processes

LEMMA CurrentStep == SerialInv /\ [SerialNext]_vars => Current'
  <1> SUFFICES ASSUME SerialInv, [SerialNext]_vars PROVE Current'
    OBVIOUS
  <1> USE DEF Processes
  <1>0. /\ TypeInv /\ TypeOK /\ Current
        /\ {"idle", "routed", "working", "failing", "read", "done"} \subseteq Stages
        /\ Applying \subseteq Stages /\ InHand = Applying \cup {"read"}
        /\ {"idle", "routed", "working", "failing", "done"} \cap InHand = {}
        /\ {"approved", "clean", "patched", "invalid"} \subseteq Applying
        /\ {"clean", "patched", "invalid", "approved"} \cap {"read"} = {}
    BY DEF SerialInv, ReviewInv, FileInv, PatchInv, TypeInv, Stages, Applying, InHand
  <1>1. CASE UNCHANGED <<intake, runStatus, stage, view>>
    BY <1>0, <1>1 DEF Current
  <1>2. CASE UNCHANGED vars
    BY <1>1, <1>2 DEF vars, rows
  <1> SUFFICES ASSUME Next, Serialised PROVE Current'
    BY <1>2 DEF SerialNext
  \* p moves on with what it has read, or ends.
  <1>3. ASSUME NEW p \in Processes, NEW next \in Stages, Moves(p, next), stage[p] # next,
               \/ p \in Tasks \/ next = "done"
               \/ stage[p] \in InHand /\ UNCHANGED <<intake, runStatus>>
        PROVE  Current'
    <2>1. /\ stage'[p] = next /\ stage'[p] # stage[p]
          /\ \A q \in Processes \ {p} : stage'[q] = stage[q]
      BY <1>0, <1>3, MovesEffect
    <2>2. \A f \in Founders \ {p} : stage'[f] \notin InHand
      BY <1>0, <2>1, AloneStep
    <2>3. ASSUME NEW f \in Founders, stage'[f] \in InHand
          PROVE  intake'[view'[f].task] = "pending" /\ view'[f].run = runStatus'
      <3>1. f = p /\ next # "done" /\ p \notin Tasks
        BY <1>0, <2>1, <2>2, <2>3, ProcessAssumption
      <3>2. view'[f] = view[f]
        BY <1>3, <3>1 DEF Moves
      <3> QED BY <1>0, <1>3, <3>1, <3>2 DEF Current
    <2> QED BY <2>3 DEF Current
  <1>4. ASSUME NEW t \in Tasks, TaskStep(t) PROVE Current'
    BY <1>0, <1>3, <1>4
       DEF TaskStep, Route, Dispatch, DispatchRefused, LandForReview, LandForAutoApply,
           LandFailure, ResultRejected, AutoApplyRaises, RecordPending
  <1>5. ASSUME NEW f \in Founders, NEW t \in Tasks, FounderReads(f, t) PROVE Current'
    <2>1. /\ stage'[f] # stage[f] /\ \A q \in Processes \ {f} : stage'[q] = stage[q]
          /\ view'[f] = [task |-> t, run |-> runStatus]
          /\ intake'[t] = "pending" /\ runStatus' = runStatus
      BY <1>0, <1>5 DEF FounderReads, TypeOK, rows
    <2>2. \A g \in Founders \ {f} : stage'[g] \notin InHand
      BY <1>0, <2>1, AloneStep
    <2> QED BY <2>1, <2>2 DEF Current
  <1>6. ASSUME NEW f \in Founders, FounderApproves(f) \/ FounderRejects(f) \/ FounderRefused(f)
        PROVE  Current'
    BY <1>0, <1>3, <1>6 DEF FounderApproves, FounderRejects, FounderRefused, Resolve, rows
  <1>7. ASSUME NEW p \in Processes, Application(p) PROVE Current'
    <2>1. /\ stage[p] \in Applying /\ stage[p] # "done"
          /\ \/ \E next \in {"done", "failing"} :
                  Moves(p, next) /\ (next = "done" \/ p \in Tasks)
             \/ UNCHANGED rows /\ \E next \in Applying : Moves(p, next) /\ next # stage[p]
      BY <1>0, <1>7
         DEF Application, ChecksBase, AppliesPatch, Validates, RollsBack, TransactionLost, Resolve
    <2>2. stage[p] # "failing"
      BY <2>1 DEF Applying
    <2> QED BY <1>0, <1>3, <2>1, <2>2 DEF rows
  <1>8. CASE Reclaim
    <2>1. UNCHANGED <<intake, stage, view>>
      BY <1>8 DEF Reclaim
    <2>2. \A f \in Founders : stage[f] \in InHand => runStatus' = runStatus
      BY <2>1 DEF Serialised
    <2> QED BY <1>0, <2>1, <2>2 DEF Current
  <1>9. CASE (\E f \in Files : Edit(f)) \/ (\E t \in Tasks : Ages(t)) \/ LeaseLapses
             \/ FounderReplies
    BY <1>1, <1>9 DEF Edit, Ages, LeaseLapses, FounderReplies, rows
  <1> QED BY <1>4, <1>5, <1>6, <1>7, <1>8, <1>9 DEF Next, FounderStep

LEMMA SerialInvInit == Init => SerialInv
  BY ReviewInvInit DEF Init, SerialInv, Current, InHand, Applying, Processes

LEMMA SerialInvStep == SerialInv /\ [SerialNext]_vars => SerialInv'
  <1>1. [SerialNext]_vars => [Next]_vars
    BY DEF SerialNext
  <1> QED BY <1>1, ReviewInvStep, CurrentStep DEF SerialInv

\* Of founders who review one after the other the code makes what it
\* promises: rows, ledger and workspace implement the one-step review.
THEOREM SerialReviewsAreAtomic == SerialSpec => Review!Spec
  <1>1. SerialInv /\ [SerialNext]_vars => [Review!Next]_(Review!vars)
    <2> SUFFICES ASSUME SerialInv, [SerialNext]_vars PROVE Reviewed
      BY DEF Reviewed
    <2>1. [Next]_vars /\ ReviewInv
      BY DEF SerialNext, SerialInv
    <2>2. Reviewed \/ \E f \in Founders : Ends(f) /\ intake[view[f].task] # "pending"
      BY <2>1, ReviewStep
    <2> QED BY <2>2 DEF SerialInv, Current, Ends
  <1> QED BY <1>1, ReviewBegins, SerialInvInit, SerialInvStep, PTL
          DEF SerialSpec, Review!Spec

\* And a run that is RUNNING is under the claim of a task.
THEOREM SerialReviewsStrandNothing == SerialSpec => []Backed
  <1>1. Init => Backed
    BY DEF Init, Backed
  <1>2. SerialInv /\ Backed /\ [SerialNext]_vars => Backed'
    <2> SUFFICES ASSUME SerialInv, Backed, [SerialNext]_vars PROVE Backed'
      OBVIOUS
    <2>1. [Next]_vars /\ TypeInv
      BY DEF SerialNext, SerialInv, ReviewInv, FileInv, PatchInv
    <2>2. Backed' \/ \E f \in Founders : Ends(f) /\ view[f].run # runStatus
      BY <2>1, StrandStep
    <2> QED BY <2>2 DEF SerialInv, Current, Ends
  <1> QED BY <1>1, <1>2, SerialInvInit, SerialInvStep, PTL DEF SerialSpec

\* No resolved intake is resolved again but by an outdated founder.
LEMMA StandingStep ==
  ASSUME ReviewInv, [Next]_vars
  PROVE  \/ \A t \in Tasks : intake[t] \in Resolutions => intake'[t] = intake[t]
         \/ \E f \in Founders : Ends(f) /\ intake[view[f].task] # "pending"
  <1> DEFINE Goal == \/ \A t \in Tasks : intake[t] \in Resolutions => intake'[t] = intake[t]
                     \/ \E f \in Founders : Ends(f) /\ intake[view[f].task] # "pending"
  <1> USE DEF Processes
  <1>0. /\ TypeInv /\ TypeOK /\ InHand = Applying \cup {"read"}
        /\ {"approved", "clean", "patched", "invalid"} \subseteq Applying
        /\ "none" \notin Resolutions /\ "pending" \notin Resolutions
    BY DEF ReviewInv, FileInv, PatchInv, TypeInv, Applying, InHand,
           Resolutions, Applied, Rejected, Repairable
  <1>1. CASE intake' = intake
    BY <1>1
  <1>2. ASSUME NEW p \in Processes, NEW code \in Resolutions, Resolve(p, code),
               stage[p] \in InHand
        PROVE  Goal
    <2>1. /\ PatchOf(p) \in Tasks /\ Ends(p)
          /\ intake' = [intake EXCEPT ![PatchOf(p)] = code]
      BY <1>0, <1>2, ResolutionEffect DEF Ends
    <2>2. CASE intake[PatchOf(p)] \in Resolutions
      <3>1. p \in Founders /\ PatchOf(p) = view[p].task
        BY <1>0, <1>2, <2>2 DEF ReviewInv, Unjudged, PatchOf, InHand, Applying
      <3> QED BY <1>0, <2>1, <2>2, <3>1
    <2>3. CASE intake[PatchOf(p)] \notin Resolutions
      BY <1>0, <2>1, <2>3 DEF TypeOK
    <2> QED BY <2>2, <2>3
  <1>3. ASSUME NEW t \in Tasks, RecordPending(t), stage[t] # "done" PROVE Goal
    BY <1>0, <1>3 DEF RecordPending, ReviewInv, Unjudged, TypeOK
  <1>4. ASSUME NEW t \in Tasks, TaskStep(t) PROVE Goal
    BY <1>1, <1>3, <1>4
       DEF TaskStep, Route, Dispatch, DispatchRefused, LandForReview, LandForAutoApply,
           LandFailure, ResultRejected, AutoApplyRaises, Applying, rows
  <1>5. ASSUME NEW f \in Founders, FounderStep(f) PROVE Goal
    BY <1>0, <1>1, <1>2, <1>5
       DEF FounderStep, FounderReads, FounderApproves, FounderRejects, FounderRefused, rows,
           Resolutions, Rejected
  <1>6. ASSUME NEW p \in Processes, Application(p) PROVE Goal
    <2>1. UNCHANGED rows \/ (stage[p] \in InHand /\ \E code \in Resolutions : Resolve(p, code))
      BY <1>0, <1>6 DEF Application, ChecksBase, AppliesPatch, Validates, RollsBack,
                        TransactionLost, Resolutions, Applied, Rejected, Repairable
    <2> QED BY <1>1, <1>2, <1>6, <2>1 DEF rows
  <1>7. CASE \/ \E f \in Files : Edit(f)
             \/ \E t \in Tasks : Ages(t)
             \/ LeaseLapses \/ Reclaim \/ FounderReplies \/ UNCHANGED vars
    BY <1>1, <1>7 DEF Edit, Ages, LeaseLapses, Reclaim, FounderReplies, vars, rows
  <1> QED BY <1>4, <1>5, <1>6, <1>7 DEF Next

\* And a resolution that was recorded stands, which founders who overtake one
\* another break.
THEOREM SerialReviewsStand == SerialSpec => ResolvedPatchStands
  <1>1. SerialInv /\ [SerialNext]_vars =>
          [\A t \in Tasks : intake[t] \in Resolutions => intake'[t] = intake[t]]_vars
    <2> SUFFICES ASSUME SerialInv, [SerialNext]_vars
                 PROVE  \A t \in Tasks : intake[t] \in Resolutions => intake'[t] = intake[t]
      OBVIOUS
    <2>1. [Next]_vars /\ ReviewInv
      BY DEF SerialNext, SerialInv
    <2>2. \/ \A t \in Tasks : intake[t] \in Resolutions => intake'[t] = intake[t]
          \/ \E f \in Founders : Ends(f) /\ intake[view[f].task] # "pending"
      BY <2>1, StandingStep
    <2> QED BY <2>2 DEF SerialInv, Current, Ends
  <1> QED BY <1>1, SerialInvInit, SerialInvStep, PTL DEF SerialSpec, ResolvedPatchStands

=============================================================================
