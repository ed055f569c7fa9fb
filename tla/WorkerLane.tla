----------------------------- MODULE WorkerLane -----------------------------
(***************************************************************************)
(* The worker lane: container dispatches, the routes that founders inspect *)
(* before they choose a runtime, and the output of the latest call's       *)
(* container, as the capture inside the container sees it.                 *)
(***************************************************************************)
EXTENDS ContainerWorker, LogCapture

CONSTANTS
  ChunkBytes,  \* what a read of the pipe returns at most, 4096 in the code
  MaxStream    \* bound: bytes a worker writes

ASSUME ChunkAssumption == ChunkBytes \in Nat \ {0} /\ MaxStream \in Nat

VARIABLES
  inspection,  \* the route inspected last: request, limits, outcome
  stream,      \* what the worker has written
  capture      \* the state of the capture that reads it

laneVars == <<vars, inspection, stream, capture>>

Chunks == UNION {[1 .. n -> Bytes] : n \in 1 .. ChunkBytes}
NoInspection == [request |-> WorkerRequest, limits |-> WorkerLimits, outcome |-> "none"]

LaneInit ==
  /\ Init
  /\ inspection = NoInspection
  /\ stream = <<>> /\ capture = EmptyCapture

\* A founder inspects the route of any request under any limits.  Bound: once,
\* before the first call, as nothing reads what was inspected.
Inspect ==
  /\ inspection = NoInspection /\ calls = 0
  /\ \A d \in Dispatchers : stage[d] = "idle"
  /\ \E r \in ExecutionRequirements, l \in SystemLimits :
       inspection' = [request |-> r, limits |-> l, outcome |-> Route(r, l)]
  /\ UNCHANGED <<vars, stream, capture>>

\* A read of the pipe, while the latest call's container runs.
ReadPipe ==
  /\ AtWork(calls) /\ calls \in containers
  /\ \E chunk \in Chunks :
       /\ Len(stream) + Len(chunk) <= MaxStream
       /\ stream' = stream \o chunk
       /\ capture' = Feed(capture, chunk)
  /\ UNCHANGED <<vars, inspection>>

\* Every call has a container of its own, with a capture of its own.
Dispatch ==
  /\ Next
  /\ IF calls' = calls THEN UNCHANGED <<stream, capture>>
                       ELSE stream' = <<>> /\ capture' = EmptyCapture
  /\ UNCHANGED inspection

LaneNext == Dispatch \/ Inspect \/ ReadPipe

LaneSpec == LaneInit /\ [][LaneNext]_laneVars

-----------------------------------------------------------------------------
(* Properties.                                                             *)

\* A founder who widens the limits never turns a decision into a refusal, for
\* all the rules that are tried in between; and whatever the limits are, only
\* an available runtime executes, nothing executes with a network, and a
\* request that writes or wants isolation never shares the controller's lane.
RoutingIsSound ==
  LET r == inspection.request
      k == inspection.limits
      chosen == inspection.outcome
  IN  chosen \in Runtimes =>
        /\ chosen \in k.available
        /\ ~r.network
        /\ r.isolation \/ r.scope # "none" => chosen # "bounded_local"
        /\ \A l \in SystemLimits : Widens(l, k) => Route(r, l) # "refused"

\* Whatever chunks the pipe cuts the stream into, a founder is shown the
\* preview of the stream: nothing twice, and nothing lost uncounted.
CapturesAgree == Render(capture) = Preview(stream)

=============================================================================
