--------------------------- MODULE RoutingPolicy ---------------------------
(***************************************************************************)
(* The pure routing policy: which runtime executes a request under the     *)
(* founder's limits, and which requests the manifest of the container      *)
(* runtime admits.  A refusal is "refused", whatever its code; the runtime *)
(* of the crewai team, which no rule chooses, is left out.                 *)
(***************************************************************************)
EXTENDS Integers

Complexities == {"low", "medium", "high"}
WriteScopes == {"none", "single_file", "multi_file"}
OutputKinds == {"artifact_only", "unified_patch", "patch_and_artifact"}
Runtimes == {"bounded_local", "isolated_worker", "containerized_worker"}

ExecutionRequirements ==
  [complexity : Complexities, isolation : BOOLEAN, network : BOOLEAN,
   multiFile : BOOLEAN, scope : WriteScopes, output : OutputKinds]
SystemLimits ==
  [complexity : Complexities, network : BOOLEAN, isolated : BOOLEAN,
   available : SUBSET Runtimes \ {{}}]
Manifests ==
  [tools : SUBSET {"python"}, network : BOOLEAN, multiFile : BOOLEAN,
   scopes : SUBSET WriteScopes, outputs : SUBSET OutputKinds,
   dynamic : SUBSET {"python"}]

Rank(c) == CASE c = "low" -> 0 [] c = "medium" -> 1 [] OTHER -> 2

\* High complexity is not believed of a read-only request, nor of an offline
\* change of one file.
Normalized(r) ==
  IF r.complexity = "high" /\ ~r.network /\ ~r.multiFile
    THEN IF r.scope = "none" /\ r.output = "artifact_only"
           THEN [r EXCEPT !.complexity = "low"]
         ELSE IF r.scope = "single_file" THEN [r EXCEPT !.complexity = "medium"]
         ELSE r
    ELSE r

\* Fault: the request must be as complex as the limits allow.
ExactlyWithin(r, l) ==
  /\ r.network => l.network
  /\ r.isolation => l.isolated
  /\ Rank(r.complexity) = Rank(l.complexity)
WithinLimits(r, l) ==
  /\ r.network => l.network
  /\ r.isolation => l.isolated
  /\ Rank(r.complexity) <= Rank(l.complexity)

FitsBoundedLocal(r) ==
  /\ r.complexity = "low"
  /\ ~r.isolation /\ ~r.network /\ ~r.multiFile
  /\ r.scope = "none" /\ r.output = "artifact_only"
FitsWorker(r) == Rank(r.complexity) <= 1 /\ ~r.network

\* The cheapest lane first, a container before a plain subprocess.
Route(r, l) ==
  LET n == Normalized(r) IN
  IF ~WithinLimits(n, l) THEN "refused"
  ELSE IF "bounded_local" \in l.available /\ FitsBoundedLocal(n) THEN "bounded_local"
  ELSE IF "containerized_worker" \in l.available /\ FitsWorker(n) THEN "containerized_worker"
  ELSE IF "isolated_worker" \in l.available /\ FitsWorker(n) THEN "isolated_worker"
  ELSE "refused"

\* The static preflight of the container runtime.
Admits(m, r) ==
  /\ "python" \in m.tools
  /\ r.network => m.network
  /\ r.multiFile => m.multiFile
  /\ r.scope \in m.scopes /\ r.output \in m.outputs

\* What a container dispatch asks for, and the limits it asks under.
WorkerRequest ==
  [complexity |-> "low", isolation |-> TRUE, network |-> FALSE, multiFile |-> FALSE,
   scope |-> "single_file", output |-> "unified_patch"]
WorkerLimits ==
  [complexity |-> "medium", network |-> FALSE, isolated |-> TRUE,
   available |-> {"containerized_worker"}]

-----------------------------------------------------------------------------

\* l allows all that k allows.
Widens(l, k) ==
  /\ k.network => l.network
  /\ k.isolated => l.isolated
  /\ Rank(k.complexity) <= Rank(l.complexity)
  /\ k.available \subseteq l.available

=============================================================================
