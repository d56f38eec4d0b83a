------------------------------ MODULE Segments ------------------------------
(***************************************************************************)
(* What the two ends of a stream share: the bytes of the stream, numbered    *)
(* from 0, and the segments they travel in.  A segment is the interval of    *)
(* bytes lo .. hi-1; which bytes they are is all that matters of their       *)
(* contents.  Offsets are Word32 in the code; streams here are far too short *)
(* to wrap.                                                                  *)
(***************************************************************************)
EXTENDS Integers, Sequences, FiniteSets

CONSTANTS
    MaxBytes,       \* bound of the model: bytes the application writes
    MinimumWindow   \* minimumWindow: the barrier both ends start with

ASSUME SegmentsAssumption ==
    MaxBytes \in Nat /\ MinimumWindow \in Nat \ {0}

Segment == {s \in [lo : 0..MaxBytes, hi : 0..MaxBytes] : s.lo < s.hi}

Length(s) == s.hi - s.lo

\* The bytes that the segments of S hold.
Bytes(S) == {b \in 0..MaxBytes : \E s \in S : s.lo <= b /\ b < s.hi}

\* Heap.peek: the segment with the least offset.
First(S) == CHOOSE s \in S : \A t \in S : s.lo <= t.lo
=============================================================================
