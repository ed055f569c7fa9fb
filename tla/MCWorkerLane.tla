---------------------------- MODULE MCWorkerLane ----------------------------
(***************************************************************************)
(* The model-checked instance of WorkerLane, with what the repository's    *)
(* infra/worker_manifest.json declares.                                    *)
(***************************************************************************)
EXTENDS WorkerLane, TLC

CONSTANTS d1, d2, r1, r2, nowhere

TwoDispatchers == {d1, d2}
TwoRuns == {r1, r2}
MCBytes == {0, 1}
Interchangeable == Permutations(TwoDispatchers) \cup Permutations(TwoRuns)

MCManifest ==
  [tools |-> {"python"}, network |-> FALSE, multiFile |-> FALSE,
   scopes |-> {"single_file"}, outputs |-> {"unified_patch"}, dynamic |-> {"python"}]

\* The explored part of the state space: a route inspected before the first
\* call and output read during it; all that two calls can do, a third one
\* beside them until a patch lands, a container is lost or a verdict is
\* recorded; and longer histories of calls that keep their containers, and
\* their claims too, but for the finalizer of a call that is alone.
Explored ==
  /\ inspection # NoInspection => \A d \in Dispatchers : stage[d] = "idle" /\ calls = 0
  /\ stream # <<>> => calls = 1 /\ \A d \in Dispatchers : Id(d) = 1 \/ stage[d] = "idle"
  /\ \/ calls <= 2
     \/ calls = 3 /\ verdicts = <<>> /\ landed = {} /\ evicted = {}
     \/ /\ deaths = 0 /\ evicted = {} /\ excused = {}
        /\ \A d \in Dispatchers :
             Id(d) # 0 /\ stage[d] \notin {"recording", "storing"} =>
               \/ Holds(d)
               \/ stage[d] = "finalizing" /\ \A e \in Dispatchers \ {d} : stage[e] = "idle"

=============================================================================
