----------------------------- MODULE LogCapture -----------------------------
(***************************************************************************)
(* The bounded capture of a container's output stream: the capture is fed  *)
(* chunk by chunk while the worker writes, keeps the beginning and the end *)
(* of the stream, and renders a preview from them.  Decoding the bytes and *)
(* trimming white space are left out.                                      *)
(***************************************************************************)
EXTENDS Integers, Sequences

CONSTANTS
  Bytes,      \* what the worker writes
  HeadBytes,  \* head_bytes of the manifest, 1000 in the repository
  TailBytes,  \* tail_bytes, 3000
  MaxBytes    \* max_bytes, 4000

ASSUME LogPolicyAssumption ==
  /\ HeadBytes \in Nat \ {0} /\ TailBytes \in Nat \ {0} /\ MaxBytes \in Nat
  /\ HeadBytes + TailBytes <= MaxBytes

FirstOf(s, n) == SubSeq(s, 1, IF Len(s) < n THEN Len(s) ELSE n)
LastOf(s, n) == SubSeq(s, IF Len(s) < n THEN 1 ELSE Len(s) - n + 1, Len(s))

EmptyCapture == [total |-> 0, full |-> <<>>, head |-> <<>>, tail |-> <<>>]

\* What a chunk adds to a prefix of at most n bytes.
Filled(prefix, chunk, n) ==
  IF n - Len(prefix) > 0 THEN prefix \o FirstOf(chunk, n - Len(prefix)) ELSE prefix

\* Fault: the tail is the last chunk's.
FeedLastChunk(c, chunk) ==
  [total |-> c.total + Len(chunk),
   full |-> Filled(c.full, chunk, MaxBytes),
   head |-> Filled(c.head, chunk, HeadBytes),
   tail |-> LastOf(chunk, TailBytes)]
Feed(c, chunk) ==
  [total |-> c.total + Len(chunk),
   full |-> Filled(c.full, chunk, MaxBytes),
   head |-> Filled(c.head, chunk, HeadBytes),
   tail |-> LastOf(c.tail \o chunk, TailBytes)]

\* Head, number of bytes left out, tail; or the whole stream.
Render(c) ==
  IF c.total <= MaxBytes
    THEN [head |-> c.full, omitted |-> 0, tail |-> <<>>, truncated |-> FALSE]
    ELSE [head |-> c.head, tail |-> c.tail, truncated |-> TRUE,
          omitted |-> IF c.total - (HeadBytes + TailBytes) > 0
                        THEN c.total - (HeadBytes + TailBytes) ELSE 0]

-----------------------------------------------------------------------------

\* The capture of the stream s, however it was chunked.
CaptureOf(s) ==
  [total |-> Len(s), full |-> FirstOf(s, MaxBytes), head |-> FirstOf(s, HeadBytes),
   tail |-> LastOf(s, TailBytes)]

\* What a founder is shown of the stream s: nothing is counted twice, nothing
\* is lost without being counted.
Preview(s) ==
  IF Len(s) <= MaxBytes
    THEN [head |-> s, omitted |-> 0, tail |-> <<>>, truncated |-> FALSE]
    ELSE [head |-> SubSeq(s, 1, HeadBytes),
          omitted |-> Len(s) - HeadBytes - TailBytes,
          tail |-> SubSeq(s, Len(s) - TailBytes + 1, Len(s)), truncated |-> TRUE]

=============================================================================
