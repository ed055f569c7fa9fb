--------------------------- MODULE WorkerLaneProofs ---------------------------
(***************************************************************************)
(* Proofs about WorkerLane: the lane only adds to what dispatches do, the  *)
(* routing policy is sound for every request and all limits, and captures  *)
(* agree with the stream for any sizes of head, tail and chunks.           *)
(***************************************************************************)
EXTENDS WorkerLane, ContainerWorkerProofs, SequenceTheorems

\* Inspecting routes and reading pipes does not change what dispatches do: all
\* that is proved of ContainerWorker holds of the lane.
THEOREM LaneImplementsCalls == LaneSpec => Spec
  <1>1. LaneInit => Init
    BY DEF LaneInit
  <1>2. [LaneNext]_laneVars => [Next]_vars
    BY DEF LaneNext, laneVars, Dispatch, Inspect, ReadPipe
  <1> QED BY <1>1, <1>2, PTL DEF LaneSpec, Spec

-----------------------------------------------------------------------------
(* Routing.                                                                *)

\* Widening the limits keeps a request within them.
LEMMA WiderLimits ==
  ASSUME NEW r \in ExecutionRequirements, NEW k \in SystemLimits, NEW l \in SystemLimits,
         Widens(l, k), WithinLimits(r, k)
  PROVE  WithinLimits(r, l)
  <1>1. Rank(r.complexity) \in Nat /\ Rank(k.complexity) \in Nat /\ Rank(l.complexity) \in Nat
    BY DEF Rank
  <1>2. r.network \in BOOLEAN /\ k.network \in BOOLEAN
    BY DEF ExecutionRequirements, SystemLimits
  <1> QED BY <1>1, <1>2 DEF Widens, WithinLimits

LEMMA NormalizedRequest ==
  ASSUME NEW r \in ExecutionRequirements
  PROVE  /\ Normalized(r) \in ExecutionRequirements
         /\ Normalized(r).network = r.network /\ Normalized(r).isolation = r.isolation
         /\ Normalized(r).scope = r.scope
  BY DEF Normalized, ExecutionRequirements, Complexities

LEMMA RouteIsSound ==
  ASSUME NEW r \in ExecutionRequirements, NEW k \in SystemLimits, Route(r, k) \in Runtimes
  PROVE  /\ Route(r, k) \in k.available
         /\ ~r.network
         /\ r.isolation \/ r.scope # "none" => Route(r, k) # "bounded_local"
         /\ \A l \in SystemLimits : Widens(l, k) => Route(r, l) # "refused"
  <1> DEFINE n == Normalized(r)
  <1>1. /\ n \in ExecutionRequirements /\ n.network = r.network /\ n.isolation = r.isolation
        /\ n.scope = r.scope
    BY NormalizedRequest
  <1>2. Route(r, k) # "refused"
    BY DEF Runtimes
  <1>3. WithinLimits(n, k)
    BY <1>2 DEF Route
  <1>4. \/ /\ "bounded_local" \in k.available /\ FitsBoundedLocal(n)
           /\ Route(r, k) = "bounded_local"
        \/ /\ "containerized_worker" \in k.available /\ FitsWorker(n)
           /\ Route(r, k) = "containerized_worker"
        \/ /\ "isolated_worker" \in k.available /\ FitsWorker(n)
           /\ Route(r, k) = "isolated_worker"
    BY <1>2, <1>3 DEF Route
  <1>5. ~r.network
    BY <1>1, <1>4 DEF FitsBoundedLocal, FitsWorker
  <1>6. r.isolation \/ r.scope # "none" => Route(r, k) # "bounded_local"
    BY <1>1, <1>4 DEF FitsBoundedLocal
  <1>7. ASSUME NEW l \in SystemLimits, Widens(l, k) PROVE Route(r, l) # "refused"
    <2>1. WithinLimits(n, l)
      BY <1>1, <1>3, <1>7, WiderLimits
    <2>2. k.available \subseteq l.available
      BY <1>7 DEF Widens
    <2> HIDE DEF n
    <2>3. Route(r, l) # "refused"
      BY <1>4, <2>1, <2>2 DEF Route, n
    <2> QED BY <2>3
  <1> QED BY <1>4, <1>5, <1>6, <1>7

\* The founder's inspection tells the truth about every request: an available
\* runtime, no network, no write in the controller's lane, and no refusal under
\* limits that allow more.
THEOREM RoutesAreSound == LaneSpec => []RoutingIsSound
  <1> DEFINE Asked == \/ inspection.outcome = "none"
                      \/ /\ inspection.request \in ExecutionRequirements
                         /\ inspection.limits \in SystemLimits
                         /\ inspection.outcome = Route(inspection.request, inspection.limits)
  <1>1. LaneInit => Asked
    BY DEF LaneInit, NoInspection
  <1>2. Asked /\ [LaneNext]_laneVars => Asked'
    BY DEF LaneNext, laneVars, Dispatch, Inspect, ReadPipe
  <1>3. Asked => RoutingIsSound
    <2>1. "none" \notin Runtimes
      BY DEF Runtimes
    <2> QED BY <2>1, RouteIsSound DEF RoutingIsSound
  <1> QED BY <1>1, <1>2, <1>3, PTL DEF LaneSpec

-----------------------------------------------------------------------------
(* The capture of a stream, for any bytes and any sizes.                   *)

LEMMA FirstOfIs ==
  ASSUME NEW S, NEW s \in Seq(S), NEW n \in Nat
  PROVE  /\ FirstOf(s, n) \in Seq(S)
         /\ Len(FirstOf(s, n)) = IF Len(s) < n THEN Len(s) ELSE n
         /\ \A i \in 1 .. Len(FirstOf(s, n)) : FirstOf(s, n)[i] = s[i]
  <1> DEFINE k == IF Len(s) < n THEN Len(s) ELSE n
  <1>1. Len(s) \in Nat /\ k \in Nat /\ k <= Len(s)
    OBVIOUS
  <1>2. \A i \in 1 .. k : s[i] \in S
    BY <1>1
  <1> HIDE DEF k
  <1>3. /\ SubSeq(s, 1, k) \in Seq(S)
        /\ Len(SubSeq(s, 1, k)) = IF 1 <= k THEN k - 1 + 1 ELSE 0
        /\ \A i \in 1 .. k - 1 + 1 : SubSeq(s, 1, k)[i] = s[1 + i - 1]
    BY <1>1, <1>2, SubSeqProperties
  <1>4. Len(SubSeq(s, 1, k)) = k /\ \A i \in 1 .. k : SubSeq(s, 1, k)[i] = s[i]
    BY <1>1, <1>3
  <1> QED BY <1>3, <1>4 DEF FirstOf, k

LEMMA LastOfIs ==
  ASSUME NEW S, NEW s \in Seq(S), NEW n \in Nat
  PROVE  /\ LastOf(s, n) \in Seq(S)
         /\ Len(LastOf(s, n)) = IF Len(s) < n THEN Len(s) ELSE n
         /\ \A i \in 1 .. Len(LastOf(s, n)) :
              LastOf(s, n)[i] = s[Len(s) - Len(LastOf(s, n)) + i]
  <1> DEFINE m == IF Len(s) < n THEN 1 ELSE Len(s) - n + 1
  <1>1. Len(s) \in Nat /\ m \in Nat /\ 1 <= m /\ m <= Len(s) + 1
        /\ Len(s) - m + 1 = IF Len(s) < n THEN Len(s) ELSE n
    OBVIOUS
  <1>2. \A i \in m .. Len(s) : s[i] \in S
    BY <1>1
  <1> HIDE DEF m
  <1>3. /\ SubSeq(s, m, Len(s)) \in Seq(S)
        /\ Len(SubSeq(s, m, Len(s))) = IF m <= Len(s) THEN Len(s) - m + 1 ELSE 0
        /\ \A i \in 1 .. Len(s) - m + 1 : SubSeq(s, m, Len(s))[i] = s[m + i - 1]
    BY <1>1, <1>2, SubSeqProperties
  <1>4. /\ Len(SubSeq(s, m, Len(s))) = Len(s) - m + 1
        /\ \A i \in 1 .. Len(s) - m + 1 :
             SubSeq(s, m, Len(s))[i] = s[Len(s) - (Len(s) - m + 1) + i]
    BY <1>1, <1>3
  <1> QED BY <1>1, <1>3, <1>4 DEF LastOf, m

\* A prefix of at most n bytes, filled from the next chunk, is the prefix of
\* the longer stream.
LEMMA FilledPrefix ==
  ASSUME NEW S, NEW s \in Seq(S), NEW chunk \in Seq(S), NEW n \in Nat
  PROVE  Filled(FirstOf(s, n), chunk, n) = FirstOf(s \o chunk, n)
  <1> DEFINE f == FirstOf(s, n)
             g == FirstOf(s \o chunk, n)
             room == n - Len(f)
  <1>1. /\ f \in Seq(S) /\ Len(f) = (IF Len(s) < n THEN Len(s) ELSE n)
        /\ \A i \in 1 .. Len(f) : f[i] = s[i]
    BY FirstOfIs
  <1>2. /\ s \o chunk \in Seq(S) /\ Len(s \o chunk) = Len(s) + Len(chunk)
        /\ \A i \in 1 .. Len(s) + Len(chunk) :
             (s \o chunk)[i] = IF i <= Len(s) THEN s[i] ELSE chunk[i - Len(s)]
    BY ConcatProperties
  <1>3. /\ g \in Seq(S)
        /\ Len(g) = (IF Len(s) + Len(chunk) < n THEN Len(s) + Len(chunk) ELSE n)
        /\ \A i \in 1 .. Len(g) : g[i] = (s \o chunk)[i]
    BY <1>2, FirstOfIs
  <1>4. Len(s) \in Nat /\ Len(chunk) \in Nat /\ Len(f) \in Nat /\ room \in Int
    BY <1>1
  <1> HIDE DEF f, g
  <1>5. CASE room > 0
    <2>1. Len(f) = Len(s) /\ room \in Nat /\ Len(s) < n
      BY <1>1, <1>4, <1>5
    <2> DEFINE h == FirstOf(chunk, room)
    <2>2. /\ h \in Seq(S) /\ Len(h) = (IF Len(chunk) < room THEN Len(chunk) ELSE room)
          /\ \A i \in 1 .. Len(h) : h[i] = chunk[i]
      BY <2>1, FirstOfIs
    <2> HIDE DEF h
    <2>3. /\ f \o h \in Seq(S) /\ Len(f \o h) = Len(f) + Len(h)
          /\ \A i \in 1 .. Len(f) + Len(h) :
               (f \o h)[i] = IF i <= Len(f) THEN f[i] ELSE h[i - Len(f)]
      BY <1>1, <2>2, ConcatProperties
    <2>4. Len(f \o h) = Len(g) /\ Len(h) \in Nat
      BY <1>3, <1>4, <2>1, <2>2, <2>3
    <2>5. ASSUME NEW i \in 1 .. Len(g) PROVE (f \o h)[i] = g[i]
      <3>1. CASE i <= Len(s)
        BY <3>1, <1>1, <1>2, <1>3, <1>4, <2>1, <2>3, <2>4
      <3>2. CASE ~(i <= Len(s))
        <4>1. /\ i \in 1 .. Len(f) + Len(h) /\ i \in 1 .. Len(s) + Len(chunk)
              /\ i - Len(s) \in 1 .. Len(h)
          BY <3>2, <1>3, <1>4, <2>1, <2>2, <2>3, <2>4
        <4>2. (f \o h)[i] = chunk[i - Len(s)]
          BY <3>2, <4>1, <2>1, <2>2, <2>3
        <4>3. g[i] = chunk[i - Len(s)]
          BY <3>2, <4>1, <1>2, <1>3
        <4> QED BY <4>2, <4>3
      <3> QED BY <3>1, <3>2
    <2>6. f \o h = g
      BY <1>3, <2>3, <2>4, <2>5, SeqEqual
    <2> QED BY <1>5, <2>6 DEF Filled, f, g, h
  <1>6. CASE ~(room > 0)
    <2>1. Len(f) = n /\ n <= Len(s)
      BY <1>1, <1>4, <1>6
    <2>2. Len(g) = Len(f)
      BY <1>3, <1>4, <2>1
    <2>3. \A i \in 1 .. Len(f) : f[i] = g[i]
      BY <1>1, <1>2, <1>3, <1>4, <2>1, <2>2
    <2>4. f = g
      BY <1>1, <1>3, <2>2, <2>3, SeqEqual
    <2> QED BY <1>6, <2>4 DEF Filled, f, g
  <1> QED BY <1>5, <1>6

\* Two sequences with the same last n elements.
LEMMA SameSuffix ==
  ASSUME NEW S, NEW u \in Seq(S), NEW w \in Seq(S), NEW n \in Nat,
         Len(w) <= Len(u), Len(w) < n => Len(u) = Len(w),
         \A i \in 1 .. Len(w) : i > Len(w) - n => w[i] = u[Len(u) - Len(w) + i]
  PROVE  LastOf(w, n) = LastOf(u, n)
  <1>1. /\ LastOf(w, n) \in Seq(S)
        /\ Len(LastOf(w, n)) = IF Len(w) < n THEN Len(w) ELSE n
        /\ \A i \in 1 .. Len(LastOf(w, n)) :
             LastOf(w, n)[i] = w[Len(w) - Len(LastOf(w, n)) + i]
    BY LastOfIs
  <1>2. /\ LastOf(u, n) \in Seq(S)
        /\ Len(LastOf(u, n)) = IF Len(u) < n THEN Len(u) ELSE n
        /\ \A i \in 1 .. Len(LastOf(u, n)) :
             LastOf(u, n)[i] = u[Len(u) - Len(LastOf(u, n)) + i]
    BY LastOfIs
  <1>3. PICK f \in Seq(S), g \in Seq(S) : f = LastOf(w, n) /\ g = LastOf(u, n)
    BY <1>1, <1>2
  <1>4. /\ Len(f) = (IF Len(w) < n THEN Len(w) ELSE n)
        /\ \A i \in 1 .. Len(f) : f[i] = w[Len(w) - Len(f) + i]
    BY <1>1, <1>3
  <1>5. /\ Len(g) = (IF Len(u) < n THEN Len(u) ELSE n)
        /\ \A i \in 1 .. Len(g) : g[i] = u[Len(u) - Len(g) + i]
    BY <1>2, <1>3
  <1>6. /\ Len(u) \in Nat /\ Len(w) \in Nat /\ Len(f) \in Nat
        /\ Len(f) = Len(g) /\ Len(f) <= Len(w) /\ Len(f) <= n
    BY <1>4, <1>5
  <1>7. ASSUME NEW i \in 1 .. Len(f) PROVE f[i] = g[i]
    <2> DEFINE j == Len(w) - Len(f) + i
    <2>1. j \in Int /\ j = Len(w) - Len(f) + i
      BY <1>6
    <2> HIDE DEF j
    <2>2. j \in 1 .. Len(w) /\ j > Len(w) - n /\ Len(u) - Len(g) + i = Len(u) - Len(w) + j
      BY <1>6, <2>1
    <2>3. f[i] = w[j] /\ g[i] = u[Len(u) - Len(w) + j]
      BY <1>4, <1>5, <1>6, <2>1, <2>2
    <2> QED BY <2>2, <2>3
  <1> QED BY <1>3, <1>6, <1>7, SeqEqual

\* The last n bytes of the longer stream are those of the last n and the chunk.
LEMMA FollowedSuffix ==
  ASSUME NEW S, NEW s \in Seq(S), NEW chunk \in Seq(S), NEW n \in Nat
  PROVE  LastOf(LastOf(s, n) \o chunk, n) = LastOf(s \o chunk, n)
  <1>1. PICK t \in Seq(S) :
          /\ t = LastOf(s, n)
          /\ Len(t) = IF Len(s) < n THEN Len(s) ELSE n
          /\ \A i \in 1 .. Len(t) : t[i] = s[Len(s) - Len(t) + i]
    BY LastOfIs
  <1>a. /\ s \o chunk \in Seq(S) /\ Len(s \o chunk) = Len(s) + Len(chunk)
        /\ \A i \in 1 .. Len(s) + Len(chunk) :
             (s \o chunk)[i] = IF i <= Len(s) THEN s[i] ELSE chunk[i - Len(s)]
    BY ConcatProperties
  <1>2. PICK u \in Seq(S) :
          /\ u = s \o chunk /\ Len(u) = Len(s) + Len(chunk)
          /\ \A i \in 1 .. Len(s) + Len(chunk) :
               u[i] = IF i <= Len(s) THEN s[i] ELSE chunk[i - Len(s)]
    BY <1>a
  <1>b. /\ t \o chunk \in Seq(S) /\ Len(t \o chunk) = Len(t) + Len(chunk)
        /\ \A i \in 1 .. Len(t) + Len(chunk) :
             (t \o chunk)[i] = IF i <= Len(t) THEN t[i] ELSE chunk[i - Len(t)]
    BY ConcatProperties
  <1>3. PICK w \in Seq(S) :
          /\ w = t \o chunk /\ Len(w) = Len(t) + Len(chunk)
          /\ \A i \in 1 .. Len(t) + Len(chunk) :
               w[i] = IF i <= Len(t) THEN t[i] ELSE chunk[i - Len(t)]
    BY <1>b
  <1>4. /\ Len(s) \in Nat /\ Len(t) \in Nat /\ Len(chunk) \in Nat /\ Len(t) <= Len(s)
        /\ Len(w) <= Len(u) /\ (Len(w) < n => Len(u) = Len(w))
        /\ Len(u) - Len(w) = Len(s) - Len(t)
    BY <1>1, <1>2, <1>3
  <1>5. ASSUME NEW i \in 1 .. Len(w), i > Len(w) - n
        PROVE  w[i] = u[Len(u) - Len(w) + i]
    <2> DEFINE j == Len(u) - Len(w) + i
    <2>1. j \in Int /\ j = Len(u) - Len(w) + i
      BY <1>2, <1>3, <1>4
    <2> HIDE DEF j
    <2>a. i \in 1 .. Len(t) + Len(chunk) /\ i \in Nat /\ i >= 1 /\ i <= Len(t) + Len(chunk)
      BY <1>3, <1>4
    <2>b. j = Len(s) - Len(t) + i
      BY <1>4, <2>1
    <2>2. j = Len(s) - Len(t) + i /\ j \in 1 .. Len(s) + Len(chunk)
      BY <1>4, <2>a, <2>b
    <2>3. CASE i <= Len(t)
      <3>1. w[i] = t[i] /\ i \in 1 .. Len(t)
        BY <1>3, <1>4, <2>a, <2>3
      <3>3. t[i] = s[j]
        BY <1>1, <2>2, <3>1
      <3>2. u[j] = s[j]
        BY <1>2, <1>4, <2>2, <2>3
      <3> QED BY <3>1, <3>2, <3>3, <2>1
    <2>4. CASE ~(i <= Len(t))
      <3>1. w[i] = chunk[i - Len(t)]
        BY <1>3, <1>4, <2>4
      <3>2. u[j] = chunk[j - Len(s)] /\ j - Len(s) = i - Len(t)
        BY <1>2, <1>4, <2>2, <2>4
      <3> QED BY <3>1, <3>2, <2>1
    <2> QED BY <2>3, <2>4
  <1>6. LastOf(w, n) = LastOf(u, n)
    BY <1>2, <1>3, <1>4, <1>5, SameSuffix
  <1> QED BY <1>1, <1>2, <1>3, <1>6

LEMMA FeedIsCapture ==
  ASSUME NEW s \in Seq(Bytes), NEW chunk \in Seq(Bytes)
  PROVE  Feed(CaptureOf(s), chunk) = CaptureOf(s \o chunk)
  <1>1. Len(s \o chunk) = Len(s) + Len(chunk)
    BY ConcatProperties
  <1>2. MaxBytes \in Nat /\ HeadBytes \in Nat /\ TailBytes \in Nat
    BY LogPolicyAssumption
  <1>3. /\ Filled(FirstOf(s, MaxBytes), chunk, MaxBytes) = FirstOf(s \o chunk, MaxBytes)
        /\ Filled(FirstOf(s, HeadBytes), chunk, HeadBytes) = FirstOf(s \o chunk, HeadBytes)
        /\ LastOf(LastOf(s, TailBytes) \o chunk, TailBytes) = LastOf(s \o chunk, TailBytes)
    BY <1>2, FilledPrefix, FollowedSuffix
  <1> QED BY <1>1, <1>3 DEF Feed, CaptureOf

LEMMA RenderIsPreview ==
  ASSUME NEW s \in Seq(Bytes)
  PROVE  Render(CaptureOf(s)) = Preview(s)
  <1>1. /\ MaxBytes \in Nat /\ HeadBytes \in Nat \ {0} /\ TailBytes \in Nat \ {0}
        /\ HeadBytes + TailBytes <= MaxBytes /\ Len(s) \in Nat
    BY LogPolicyAssumption
  <1>2. CASE Len(s) <= MaxBytes
    <2>1. FirstOf(s, MaxBytes) = SubSeq(s, 1, Len(s))
      BY <1>1, <1>2 DEF FirstOf
    <2>2. SubSeq(s, 1, Len(s)) = s
      BY SubSeqFull
    <2> QED BY <1>2, <2>1, <2>2 DEF Render, CaptureOf, Preview
  <1>3. CASE ~(Len(s) <= MaxBytes)
    <2>1. /\ Len(s) - (HeadBytes + TailBytes) > 0
          /\ Len(s) - (HeadBytes + TailBytes) = Len(s) - HeadBytes - TailBytes
          /\ HeadBytes <= Len(s) /\ TailBytes <= Len(s)
      BY <1>1, <1>3
    <2>2. Len(s) \in Nat /\ ~(Len(s) < HeadBytes) /\ ~(Len(s) < TailBytes)
      BY <1>1, <2>1
    <2>3. /\ (IF Len(s) < HeadBytes THEN Len(s) ELSE HeadBytes) = HeadBytes
          /\ (IF Len(s) < TailBytes THEN 1 ELSE Len(s) - TailBytes + 1) = Len(s) - TailBytes + 1
      BY <2>2
    <2>4. /\ FirstOf(s, HeadBytes) = SubSeq(s, 1, HeadBytes)
          /\ LastOf(s, TailBytes) = SubSeq(s, Len(s) - TailBytes + 1, Len(s))
      BY <2>3 DEF FirstOf, LastOf
    <2> QED BY <1>3, <2>1, <2>4 DEF Render, CaptureOf, Preview
  <1> QED BY <1>2, <1>3

\* Whatever a worker writes and however the pipe cuts it, a founder is shown
\* the preview of the whole stream, for any sizes of head, tail and chunks.
THEOREM CapturesAreExact == LaneSpec => []CapturesAgree
  <1> DEFINE Followed == stream \in Seq(Bytes) /\ capture = CaptureOf(stream)
  <1>1. <<>> \in Seq(Bytes) /\ EmptyCapture = CaptureOf(<<>>)
    <2>1. MaxBytes \in Nat /\ HeadBytes \in Nat /\ TailBytes \in Nat /\ <<>> \in Seq(Bytes)
      BY LogPolicyAssumption
    <2>2. \A n \in Nat : FirstOf(<<>>, n) = <<>> /\ LastOf(<<>>, n) = <<>>
      <3> SUFFICES ASSUME NEW n \in Nat PROVE FirstOf(<<>>, n) = <<>> /\ LastOf(<<>>, n) = <<>>
        OBVIOUS
      <3>1. Len(<<>>) = 0
        OBVIOUS
      <3>2. /\ FirstOf(<<>>, n) \in Seq(Bytes)
            /\ Len(FirstOf(<<>>, n)) = IF Len(<<>>) < n THEN Len(<<>>) ELSE n
            /\ LastOf(<<>>, n) \in Seq(Bytes)
            /\ Len(LastOf(<<>>, n)) = IF Len(<<>>) < n THEN Len(<<>>) ELSE n
        BY <2>1, FirstOfIs, LastOfIs
      <3>3. Len(FirstOf(<<>>, n)) = 0 /\ Len(LastOf(<<>>, n)) = 0
        BY <3>1, <3>2
      <3> QED BY <3>2, <3>3, EmptySeq
    <2> QED BY <2>1, <2>2 DEF EmptyCapture, CaptureOf
  <1>2. LaneInit => Followed
    BY <1>1 DEF LaneInit
  <1>3. Followed /\ [LaneNext]_laneVars => Followed'
    <2> SUFFICES ASSUME Followed, [LaneNext]_laneVars PROVE Followed'
      OBVIOUS
    <2>1. CASE ReadPipe
      <3>1. PICK chunk \in Chunks : stream' = stream \o chunk /\ capture' = Feed(capture, chunk)
        BY <2>1 DEF ReadPipe
      <3>2. chunk \in Seq(Bytes)
        BY ChunkAssumption DEF Chunks
      <3>3. stream \o chunk \in Seq(Bytes)
        BY <3>2, ConcatProperties
      <3>4. Feed(CaptureOf(stream), chunk) = CaptureOf(stream \o chunk)
        BY <3>2, FeedIsCapture
      <3> QED BY <3>1, <3>3, <3>4
    <2>2. CASE ~ReadPipe
      BY <2>2, <1>1 DEF LaneNext, laneVars, Dispatch, Inspect
    <2> QED BY <2>1, <2>2
  <1>4. Followed => CapturesAgree
    BY RenderIsPreview DEF CapturesAgree
  <1> QED BY <1>2, <1>3, <1>4, PTL DEF LaneSpec

=============================================================================
