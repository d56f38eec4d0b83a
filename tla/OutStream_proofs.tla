-------------------------- MODULE OutStream_proofs --------------------------
(***************************************************************************)
(* What OutStream keeps, whatever the application, the channel and the reader *)
(* do, for every length of stream, packet and window.                        *)
(***************************************************************************)
EXTENDS OutStream, FiniteSetTheorems, WellFoundedInduction, TLAPS

\* A set of natural numbers has a least element.
LEMMA LeastOffset ==
    ASSUME NEW S, S \subseteq Nat, S # {}
    PROVE  \E x \in S : \A y \in S : x <= y
<1> DEFINE R == OpToRel(<, Nat)
<1>1. IsWellFoundedOn(R, Nat)
  BY NatLessThanWellFounded
<1>2. \A x, y \in Nat : y < x => <<y, x>> \in R
  BY DEF OpToRel
<1> HIDE DEF R
<1>3. PICK x \in S : \A y \in S : ~ (<<y, x>> \in R)
  BY <1>1, WFMin
<1>4. \A y \in S : ~ (y < x)
  BY <1>2, <1>3
<1>5. \A y \in S : x <= y
  BY <1>4
<1> QED BY <1>5

(***************************************************************************)
(* Segments                                                                 *)
(***************************************************************************)
LEMMA SegmentFields ==
    ASSUME NEW s \in Segment
    PROVE  s.lo \in 0..MaxBytes /\ s.hi \in 0..MaxBytes /\ s.lo < s.hi
BY DEF Segment

LEMMA SegmentMade ==
    ASSUME NEW lo \in Nat, NEW hi \in Nat, lo < hi, hi <= MaxBytes
    PROVE  [lo |-> lo, hi |-> hi] \in Segment
BY SegmentsAssumption DEF Segment

\* Heap.peek finds the segment with the least offset.
LEMMA FirstIsLeast ==
    ASSUME NEW S \in SUBSET Segment, S # {}
    PROVE  First(S) \in S /\ \A t \in S : First(S).lo <= t.lo
<1> DEFINE L == {s.lo : s \in S}
<1>1. L \subseteq Nat /\ L # {}
  BY SegmentFields
<1>2. PICK l \in L : \A k \in L : l <= k
  BY <1>1, LeastOffset
<1>3. PICK s \in S : s.lo = l
  BY <1>2
<1>4. \A t \in S : s.lo <= t.lo
  BY <1>2, <1>3
<1> QED BY <1>3, <1>4 DEF First

LEMMA BytesUnion ==
    ASSUME NEW S, NEW T PROVE Bytes(S \cup T) = Bytes(S) \cup Bytes(T)
BY DEF Bytes

LEMMA BytesOne ==
    ASSUME NEW lo \in Nat, NEW hi \in Nat, hi <= MaxBytes, NEW s, s.lo = lo, s.hi = hi
    PROVE  Bytes({s}) = lo..(hi - 1)
BY SegmentsAssumption DEF Bytes

LEMMA RangeJoin ==
    ASSUME NEW lo \in Nat, NEW mid \in Nat, NEW hi \in Nat, lo <= mid, mid <= hi
    PROVE  (lo..(mid - 1)) \cup (mid..(hi - 1)) = lo..(hi - 1)
OBVIOUS

LEMMA BytesNone == Bytes({}) = {}
BY DEF Bytes

\* Segments that hold no byte in common.
Apart(S) == \A s, t \in S : s # t => s.hi <= t.lo \/ t.hi <= s.lo

LEMMA BytesApart ==
    ASSUME NEW S \in SUBSET Segment, NEW T \in SUBSET Segment,
           Apart(S \cup T), S \cap T = {}
    PROVE  Bytes(S) \cap Bytes(T) = {}
<1> SUFFICES ASSUME NEW b \in Bytes(S), b \in Bytes(T) PROVE FALSE
  OBVIOUS
<1>1. PICK s \in S : s.lo <= b /\ b < s.hi
  BY DEF Bytes
<1>2. PICK t \in T : t.lo <= b /\ b < t.hi
  BY DEF Bytes
<1>3. s \in Segment /\ t \in Segment /\ b \in 0..MaxBytes /\ s # t
  BY <1>1, <1>2 DEF Bytes
<1>4. s.hi <= t.lo \/ t.hi <= s.lo
  BY <1>1, <1>2, <1>3 DEF Apart
<1> QED BY <1>1, <1>2, <1>3, <1>4, SegmentFields, SegmentsAssumption

LEMMA BytesFinite ==
    ASSUME NEW S
    PROVE  IsFiniteSet(Bytes(S)) /\ Cardinality(Bytes(S)) \in Nat
<1>1. IsFiniteSet(0..MaxBytes)
  BY FS_Interval, SegmentsAssumption
<1>2. Bytes(S) \subseteq 0..MaxBytes
  BY DEF Bytes
<1> QED BY <1>1, <1>2, FS_Subset, FS_CardinalityType

LEMMA CardApart ==
    ASSUME NEW S \in SUBSET Segment, NEW T \in SUBSET Segment,
           Apart(S \cup T), S \cap T = {}
    PROVE  Cardinality(Bytes(S \cup T)) = Cardinality(Bytes(S)) + Cardinality(Bytes(T))
<1> DEFINE s == Bytes(S)
           t == Bytes(T)
<1>1. s \cap t = {} /\ Bytes(S \cup T) = s \cup t
  BY BytesApart, BytesUnion
<1>2. /\ IsFiniteSet(s) /\ Cardinality(s) \in Nat
      /\ IsFiniteSet(t) /\ Cardinality(t) \in Nat
  BY BytesFinite
<1> HIDE DEF s, t
<1>3. Cardinality(s \cap t) = 0
  BY <1>1, FS_EmptySet
<1>4. Cardinality(s \cup t) = Cardinality(s) + Cardinality(t) - Cardinality(s \cap t)
  BY <1>2, FS_Union
<1>5. Cardinality(s \cup t) = Cardinality(s) + Cardinality(t)
  BY <1>2, <1>3, <1>4
<1> QED BY <1>1, <1>5 DEF s, t

LEMMA CardRange ==
    ASSUME NEW lo \in Nat, NEW hi \in Nat, lo <= hi
    PROVE  Cardinality(lo..(hi - 1)) = hi - lo
<1>1. Cardinality(lo..(hi - 1)) = IF lo > hi - 1 THEN 0 ELSE (hi - 1) - lo + 1
  BY FS_Interval
<1> QED BY <1>1

LEMMA CardOne ==
    ASSUME NEW lo \in Nat, NEW hi \in Nat, lo <= hi, hi <= MaxBytes,
           NEW s, s.lo = lo, s.hi = hi
    PROVE  Cardinality(Bytes({s})) = hi - lo
<1>1. Bytes({s}) = lo..(hi - 1)
  BY BytesOne
<1> QED BY <1>1, CardRange

-----------------------------------------------------------------------------
(***************************************************************************)
(* The queue as a record, and what the functions of the code do to it.       *)
(***************************************************************************)
Shutdowners == {"none", "pending", "true", "false"}
Queue == [state : OutStates,
          inflight : SUBSET Segment, inflightBytes : Int,
          retransmit : SUBSET Segment, retransmitBytes : Int,
          bytesSent : Int, sendOffset : Nat,
          barrier : Nat, buffer : Nat,
          rts : BOOLEAN, complete : BOOLEAN, shutdowner : Shutdowners,
          pull : Pull, confirmed : SUBSET (0..MaxBytes)]

\* The fields that neither updateRTS nor makeProgress changes.
Kept(s, d) ==
    /\ d.state = s.state /\ d.inflight = s.inflight /\ d.inflightBytes = s.inflightBytes
    /\ d.bytesSent = s.bytesSent /\ d.barrier = s.barrier /\ d.complete = s.complete
    /\ d.shutdowner = s.shutdowner /\ d.pull = s.pull /\ d.confirmed = s.confirmed

\* The segments that wait, and the write that waits behind them.
Waits(s, d) ==
    /\ d.retransmit = s.retransmit /\ d.retransmitBytes = s.retransmitBytes
    /\ d.sendOffset = s.sendOffset /\ d.buffer = s.buffer

Fits(s) == s.sendOffset + s.buffer <= MaxBytes

LEMMA UpdateFields ==
    ASSUME NEW s \in Queue
    PROVE  /\ updateRTS(s) \in Queue
           /\ Kept(s, updateRTS(s)) /\ Waits(s, updateRTS(s))
           /\ updateRTS(s).rts = amRTS(s) /\ amRTS(updateRTS(s)) = amRTS(s)
<1>1. amRTS(s) \in BOOLEAN
  BY DEF amRTS
<1>2. updateRTS(s) \in Queue
  BY <1>1 DEF updateRTS, Queue
<1>3. /\ Kept(s, updateRTS(s)) /\ Waits(s, updateRTS(s)) /\ updateRTS(s).rts = amRTS(s)
  BY DEF updateRTS, Queue, Kept, Waits
<1>4. amRTS(updateRTS(s)) = amRTS(s)
  BY <1>3 DEF amRTS, Kept, Waits
<1> QED BY <1>2, <1>3, <1>4

\* The write moves to the heap.
Moves(s, d) ==
    /\ d.retransmit = {[lo |-> s.sendOffset, hi |-> s.sendOffset + s.buffer]}
    /\ d.retransmitBytes = s.retransmitBytes + s.buffer
    /\ d.sendOffset = s.sendOffset + s.buffer
    /\ d.buffer = 0

LEMMA ProgressFields ==
    ASSUME NEW s \in Queue, Fits(s)
    PROVE  LET d == makeProgress(s) IN
           /\ d \in Queue /\ Kept(s, d)
           /\ \/ Progresses(s) /\ Moves(s, d) /\ d.rts = amRTS(d)
              \/ ~Progresses(s) /\ Waits(s, d) /\ d.rts = amRTS(d)
              \/ ~Progresses(s) /\ d = s /\ s.retransmit = {} /\ s.buffer = 0
<1> DEFINE segment == [lo |-> s.sendOffset, hi |-> s.sendOffset + s.buffer]
           m == [s EXCEPT !.retransmit = {segment},
                          !.retransmitBytes = @ + s.buffer,
                          !.sendOffset = @ + s.buffer,
                          !.buffer = 0]
<1>1. s.sendOffset \in Nat /\ s.buffer \in Nat /\ s.retransmitBytes \in Int
  BY DEF Queue
<1>2. CASE Progresses(s)
  <2>1. segment \in Segment
    BY <1>1, <1>2, SegmentMade DEF Progresses, Fits
  <2> HIDE DEF segment
  <2>2. s.retransmitBytes + s.buffer \in Int /\ s.sendOffset + s.buffer \in Nat
    BY <1>1
  <2>3. m \in Queue
    BY <2>1, <2>2 DEF Queue
  <2>4. Kept(s, m) /\ Moves(s, m)
    BY DEF Queue, Kept, Moves, segment
  <2>5. makeProgress(s) = updateRTS(m)
    BY <1>2 DEF makeProgress, segment
  <2> HIDE DEF m
  <2> QED BY <1>2, <2>3, <2>4, <2>5, UpdateFields DEF Kept, Moves, Waits
<1>3. CASE ~Progresses(s) /\ s.retransmit # {}
  <2>1. makeProgress(s) = updateRTS(s)
    BY <1>3 DEF makeProgress
  <2> QED BY <1>3, <2>1, UpdateFields
<1>4. CASE ~Progresses(s) /\ s.retransmit = {}
  <2>1. makeProgress(s) = s /\ s.buffer = 0
    BY <1>1, <1>4 DEF makeProgress, Progresses
  <2> QED BY <1>4, <2>1 DEF Kept
<1> QED BY <1>2, <1>3, <1>4

LEMMA ResetFields ==
    ASSUME NEW s \in Queue
    PROVE  LET d == doReset(s) IN
           /\ d \in Queue /\ d.state = "RESET"
           /\ d.retransmit = {} /\ d.retransmitBytes = 0 /\ d.buffer = 0
           /\ d.inflight = s.inflight /\ d.inflightBytes = s.inflightBytes
           /\ d.bytesSent = s.bytesSent /\ d.sendOffset = s.sendOffset
           /\ d.barrier = s.barrier /\ d.rts = s.rts /\ d.complete = s.complete
           /\ d.pull = s.pull /\ d.confirmed = s.confirmed
           /\ d.shutdowner = IF s.shutdowner = "pending" THEN "false" ELSE s.shutdowner
<1>1. ASSUME NEW e \in OutStates, NEW r \in SUBSET Segment, NEW y \in Int, NEW z \in Nat,
             NEW w \in Shutdowners
      PROVE  [s EXCEPT !.state = e, !.retransmit = r, !.retransmitBytes = y, !.buffer = z,
                       !.shutdowner = w] \in Queue
  <2> DEFINE t == [s EXCEPT !.state = e, !.shutdowner = w]
  <2>1. t \in Queue
    BY <1>1 DEF Queue
  <2>2. [t EXCEPT !.retransmit = r, !.retransmitBytes = y, !.buffer = z] \in Queue
    <3> HIDE DEF t
    <3> QED BY <2>1, <1>1 DEF Queue
  <2>3. [s EXCEPT !.state = e, !.retransmit = r, !.retransmitBytes = y, !.buffer = z,
                  !.shutdowner = w]
        = [t EXCEPT !.retransmit = r, !.retransmitBytes = y, !.buffer = z]
    BY <1>1 DEF Queue
  <2> QED BY <2>2, <2>3
<1>2. PICK e \in OutStates, r \in SUBSET Segment, y \in Int, z \in Nat, w \in Shutdowners :
         /\ e = "RESET" /\ r = {} /\ y = 0 /\ z = 0
         /\ w = IF s.shutdowner = "pending" THEN "false" ELSE s.shutdowner
  <2>1. "RESET" \in OutStates /\ {} \in SUBSET Segment /\ 0 \in Int /\ 0 \in Nat
    BY DEF OutStates
  <2>2. (IF s.shutdowner = "pending" THEN "false" ELSE s.shutdowner) \in Shutdowners
    BY DEF Queue, Shutdowners
  <2> HIDE DEF OutStates, Shutdowners, Segment
  <2> QED BY <2>1, <2>2, Zenon
<1>3. doReset(s) = [s EXCEPT !.state = e, !.retransmit = r, !.retransmitBytes = y,
                             !.buffer = z, !.shutdowner = w]
  BY <1>2 DEF doReset
<1>4. doReset(s) \in Queue
  <2>1. [s EXCEPT !.state = e, !.retransmit = r, !.retransmitBytes = y, !.buffer = z,
                  !.shutdowner = w] \in Queue
    BY <1>1
  <2> QED BY <2>1, <1>3, Zenon
<1> QED BY <1>4 DEF doReset, Queue

LEMMA DoneFields ==
    ASSUME NEW s \in Queue
    PROVE  LET d == checkDone(s) IN
           /\ d \in Queue /\ Waits(s, d) /\ d.rts = s.rts
           /\ d.state = s.state /\ d.inflight = s.inflight /\ d.inflightBytes = s.inflightBytes
           /\ d.pull = s.pull /\ d.confirmed = s.confirmed /\ d.barrier = s.barrier
           /\ \/ d.complete = s.complete /\ d.shutdowner = s.shutdowner
              \/ /\ d.complete = TRUE /\ amDone(s)
                 /\ d.shutdowner = IF s.shutdowner = "pending" THEN "true" ELSE s.shutdowner
<1>1. CASE amDone(s)
  <2>1. PICK c \in BOOLEAN, w \in Shutdowners :
           c = TRUE /\ w = IF s.shutdowner = "pending" THEN "true" ELSE s.shutdowner
    BY DEF Queue, Shutdowners
  <2>2. checkDone(s) = [s EXCEPT !.complete = c, !.shutdowner = w]
    BY <1>1, <2>1 DEF checkDone
  <2>3. [s EXCEPT !.complete = c, !.shutdowner = w] \in Queue
    BY DEF Queue
  <2> QED BY <1>1, <2>1, <2>2, <2>3 DEF Queue, Waits
<1>2. CASE ~amDone(s)
  BY <1>2 DEF checkDone, Waits
<1> QED BY <1>1, <1>2

-----------------------------------------------------------------------------
(***************************************************************************)
(* Where the bytes of the stream are: in segments that wait, are being pulled *)
(* or are in flight, or confirmed.                                           *)
(***************************************************************************)
Holds(s) == s.retransmit \cup s.inflight \cup s.pull.segments

Sorted(s) ==
    /\ Apart(Holds(s)) /\ \A t \in Holds(s) : t.hi <= s.sendOffset
    /\ s.retransmit \cap s.inflight = {} /\ s.retransmit \cap s.pull.segments = {}
    /\ s.inflight \cap s.pull.segments = {}

Found(s) ==
    /\ s.confirmed \subseteq 0..(s.sendOffset - 1) /\ Bytes(Holds(s)) \cap s.confirmed = {}
    /\ s.state # "RESET" => 0..(s.sendOffset - 1) \subseteq Bytes(Holds(s)) \cup s.confirmed

\* What a pull took is the start of what waits.
Taken(s) ==
    /\ s.pull.on => /\ s.pull.lo <= s.pull.hi /\ s.pull.hi <= s.sendOffset
                    /\ Bytes(s.pull.segments) = s.pull.lo..(s.pull.hi - 1)
                    /\ \A t \in s.retransmit : s.pull.hi <= t.lo
    /\ ~s.pull.on => s.pull = NoPull

\* A write waits only while more may be written.
Written(s) ==
    /\ Fits(s)
    /\ s.state # "CONNECTED" => s.buffer = 0
    /\ s.state = "RESET" => s.retransmit = {}

DataInv(s) == s \in Queue /\ Sorted(s) /\ Found(s) /\ Taken(s) /\ Written(s)

\* The invariant looks at no other field.
LEMMA DataAlike ==
    ASSUME NEW s, DataInv(s), NEW d \in Queue, Waits(s, d), d.state = s.state,
           d.inflight = s.inflight, d.pull = s.pull, d.confirmed = s.confirmed
    PROVE  DataInv(d)
BY DEF DataInv, Sorted, Found, Taken, Written, Fits, Holds, Waits

LEMMA DataUpdate == ASSUME NEW s, DataInv(s) PROVE DataInv(updateRTS(s))
<1>1. s \in Queue
  BY DEF DataInv
<1> QED BY <1>1, UpdateFields, DataAlike DEF Kept

LEMMA DataDone == ASSUME NEW s, DataInv(s) PROVE DataInv(checkDone(s))
<1>1. s \in Queue
  BY DEF DataInv
<1> QED BY <1>1, DoneFields, DataAlike

LEMMA DataReset == ASSUME NEW s, DataInv(s) PROVE DataInv(doReset(s))
<1> DEFINE d == doReset(s)
<1>1. /\ s \in Queue /\ d \in Queue /\ d.state = "RESET" /\ d.retransmit = {} /\ d.buffer = 0
      /\ d.inflight = s.inflight /\ d.sendOffset = s.sendOffset
      /\ d.pull = s.pull /\ d.confirmed = s.confirmed
  BY ResetFields DEF DataInv
<1> HIDE DEF d
<1>2. Holds(d) \subseteq Holds(s) /\ Bytes(Holds(d)) \subseteq Bytes(Holds(s))
  BY <1>1 DEF Holds, Bytes
<1>3. Sorted(d)
  BY <1>1, <1>2 DEF DataInv, Sorted, Apart
<1>4. Found(d)
  BY <1>1, <1>2 DEF DataInv, Found
<1>5. Taken(d)
  BY <1>1 DEF DataInv, Taken
<1>6. Written(d)
  <2>1. d.sendOffset \in Nat /\ d.sendOffset + s.buffer <= MaxBytes /\ s.buffer \in Nat
    BY <1>1 DEF DataInv, Written, Fits, Queue
  <2> QED BY <1>1, <2>1, SegmentsAssumption DEF Written, Fits
<1> QED BY <1>1, <1>3, <1>4, <1>5, <1>6 DEF DataInv, d

\* The write that moves to the heap has the next bytes.
LEMMA DataProgress ==
    ASSUME NEW s, DataInv(s)
    PROVE  DataInv(makeProgress(s))
<1> DEFINE d == makeProgress(s)
           segment == [lo |-> s.sendOffset, hi |-> s.sendOffset + s.buffer]
<1>1. /\ s \in Queue /\ d \in Queue /\ Kept(s, d)
      /\ (Progresses(s) /\ Moves(s, d)) \/ Waits(s, d)
  <2>1. s \in Queue /\ Fits(s)
    BY DEF DataInv, Written
  <2> QED BY <2>1, ProgressFields DEF Waits
<1>2. CASE Waits(s, d)
  BY <1>1, <1>2, DataAlike DEF Kept
<1>3. CASE Progresses(s) /\ Moves(s, d)
  <2>1. /\ s.sendOffset \in Nat /\ s.buffer \in Nat /\ s.buffer > 0
        /\ s.sendOffset + s.buffer <= MaxBytes /\ s.retransmit = {}
        /\ s.state = "CONNECTED"
    BY <1>1, <1>3 DEF Progresses, DataInv, Written, Fits, Queue
  <2>2. segment \in Segment /\ segment.lo = s.sendOffset
        /\ segment.hi = s.sendOffset + s.buffer
    BY <2>1, SegmentMade
  <2>3. /\ d.retransmit = {segment} /\ d.sendOffset = s.sendOffset + s.buffer
        /\ d.buffer = 0 /\ d.inflight = s.inflight /\ d.pull = s.pull
        /\ d.confirmed = s.confirmed /\ d.state = s.state
    BY <1>1, <1>3 DEF Moves, Kept
  <2> HIDE DEF d, segment
  <2>4. /\ Holds(d) = Holds(s) \cup {segment}
        /\ \A t \in Holds(s) : t \in Segment /\ t.hi <= s.sendOffset
    BY <1>1, <2>1, <2>3 DEF Holds, DataInv, Sorted, Queue, Pull
  <2>5. segment \notin Holds(s)
    BY <2>1, <2>2, <2>4, SegmentFields
  <2>6. Sorted(d)
    <3>1. Apart(Holds(d))
      BY <2>2, <2>4 DEF Apart, DataInv, Sorted
    <3>2. \A t \in Holds(d) : t.hi <= d.sendOffset
      BY <2>1, <2>2, <2>3, <2>4, SegmentFields, SegmentsAssumption
    <3> QED BY <3>1, <3>2, <2>3, <2>5 DEF Sorted, Holds, DataInv
  <2>7. Bytes({segment}) = s.sendOffset..(s.sendOffset + s.buffer - 1)
    BY <2>1, <2>2, BytesOne
  <2>8. Bytes(Holds(d)) = Bytes(Holds(s)) \cup (s.sendOffset..(s.sendOffset + s.buffer - 1))
    <3>1. Bytes(Holds(d)) = Bytes(Holds(s)) \cup Bytes({segment})
      BY <2>4, BytesUnion
    <3> QED BY <3>1, <2>7
  <2>9. Found(d)
    BY <2>1, <2>3, <2>8 DEF Found, DataInv
  <2>10. Taken(d)
    <3>1. s.pull \in Pull
      BY <1>1 DEF Queue
    <3>2. s.pull.hi \in 0..MaxBytes
      BY <3>1 DEF Pull
    <3> QED BY <3>2, <2>1, <2>2, <2>3, SegmentsAssumption DEF Taken, DataInv
  <2>11. Written(d)
    BY <2>1, <2>3 DEF Written, Fits
  <2> QED BY <1>1, <2>6, <2>9, <2>10, <2>11 DEF DataInv, d
<1> QED BY <1>1, <1>2, <1>3
-----------------------------------------------------------------------------
(***************************************************************************)
(* The counters.  While a pull goes on retransmitBytes still counts what it   *)
(* took.                                                                    *)
(***************************************************************************)
CountInv(s) ==
    ResetInCallback = FALSE =>
        /\ s.pull.on => s.state # "RESET"
        /\ s.inflightBytes = Cardinality(Bytes(s.inflight))
        /\ s.retransmitBytes = Cardinality(Bytes(s.retransmit)) + (s.pull.hi - s.pull.lo)

LEMMA CountAlike ==
    ASSUME NEW s, CountInv(s), NEW d, Waits(s, d), d.pull = s.pull,
           d.state = s.state \/ d.state # "RESET",
           d.inflight = s.inflight, d.inflightBytes = s.inflightBytes
    PROVE  CountInv(d)
BY DEF CountInv, Waits

LEMMA CountProgress ==
    ASSUME NEW s, DataInv(s), CountInv(s)
    PROVE  CountInv(makeProgress(s))
<1> DEFINE d == makeProgress(s)
           segment == [lo |-> s.sendOffset, hi |-> s.sendOffset + s.buffer]
<1>1. /\ s \in Queue /\ Kept(s, d)
      /\ (Progresses(s) /\ Moves(s, d)) \/ Waits(s, d)
  <2>1. s \in Queue /\ Fits(s)
    BY DEF DataInv, Written
  <2> QED BY <2>1, ProgressFields DEF Waits
<1>2. CASE Waits(s, d)
  BY <1>1, <1>2, CountAlike DEF Kept
<1>3. CASE Progresses(s) /\ Moves(s, d)
  <2>1. /\ s.sendOffset \in Nat /\ s.buffer \in Nat /\ s.retransmitBytes \in Int
        /\ s.sendOffset + s.buffer <= MaxBytes /\ s.retransmit = {}
        /\ s.pull.hi \in Int /\ s.pull.lo \in Int
    <3>1. s.pull \in Pull
      BY <1>1 DEF Queue
    <3> QED BY <3>1, <1>1, <1>3 DEF Progresses, DataInv, Written, Fits, Queue, Pull
  <2>2. segment.lo = s.sendOffset /\ segment.hi = s.sendOffset + s.buffer
    OBVIOUS
  <2>3. /\ d.retransmit = {segment} /\ d.retransmitBytes = s.retransmitBytes + s.buffer
        /\ d.inflight = s.inflight /\ d.inflightBytes = s.inflightBytes
        /\ d.pull = s.pull /\ d.state = s.state
    BY <1>1, <1>3 DEF Moves, Kept
  <2> HIDE DEF d, segment
  <2>4. s.sendOffset + s.buffer \in Nat /\ s.sendOffset <= s.sendOffset + s.buffer
    BY <2>1
  <2>5. Cardinality(Bytes({segment})) = s.buffer
    <3>1. Cardinality(Bytes({segment})) = (s.sendOffset + s.buffer) - s.sendOffset
      BY <2>1, <2>2, <2>4, CardOne
    <3> QED BY <3>1, <2>1
  <2>6. Cardinality(Bytes(s.retransmit)) = 0
    BY <2>1, BytesNone, FS_EmptySet
  <2>7. CountInv(d)
    BY <2>1, <2>3, <2>5, <2>6 DEF CountInv
  <2> QED BY <2>7 DEF d
<1> QED BY <1>1, <1>2, <1>3

QueueInv(s) == DataInv(s) /\ CountInv(s)

LEMMA InvUpdate == ASSUME NEW s, QueueInv(s) PROVE QueueInv(updateRTS(s))
<1>1. s \in Queue
  BY DEF QueueInv, DataInv
<1> QED BY <1>1, UpdateFields, DataUpdate, CountAlike DEF Kept, QueueInv

LEMMA InvDone == ASSUME NEW s, QueueInv(s) PROVE QueueInv(checkDone(s))
<1>1. s \in Queue
  BY DEF QueueInv, DataInv
<1> QED BY <1>1, DoneFields, DataDone, CountAlike DEF QueueInv

LEMMA InvProgress == ASSUME NEW s, QueueInv(s) PROVE QueueInv(makeProgress(s))
BY DataProgress, CountProgress DEF QueueInv

LEMMA InvReset ==
    ASSUME NEW s, QueueInv(s), s.pull.on => ResetInCallback PROVE QueueInv(doReset(s))
<1> DEFINE d == doReset(s)
<1>1. /\ d.retransmit = {} /\ d.retransmitBytes = 0
      /\ d.inflight = s.inflight /\ d.inflightBytes = s.inflightBytes /\ d.pull = s.pull
  BY ResetFields DEF QueueInv, DataInv
<1> HIDE DEF d
<1>2. CountInv(d)
  <2>1. SUFFICES ASSUME ResetInCallback = FALSE PROVE CountInv(d)
    BY DEF CountInv
  <2>2. s.pull.on \in BOOLEAN
    BY DEF QueueInv, DataInv, Queue, Pull
  <2>3. ~s.pull.on /\ s.pull = NoPull
    BY <2>1, <2>2 DEF QueueInv, DataInv, Taken
  <2>4. d.pull.hi = 0 /\ d.pull.lo = 0 /\ ~d.pull.on
    BY <2>3, <1>1 DEF NoPull
  <2>5. Cardinality(Bytes(d.retransmit)) = 0
    BY <1>1, BytesNone, FS_EmptySet
  <2> QED BY <2>4, <2>5, <1>1 DEF CountInv, QueueInv
<1> QED BY <1>2, DataReset DEF QueueInv, d

-----------------------------------------------------------------------------
(***************************************************************************)
(* What is in flight is in the packets whose fate is open.                   *)
(***************************************************************************)
Packet == [reset : BOOLEAN, lo : 0..MaxBytes, hi : 0..MaxBytes,
           segments : SUBSET Segment, eof : BOOLEAN]

PacketInv ==
    /\ packets \in Seq(Packet) /\ undecided \subseteq 1..Len(packets)
    /\ \A n \in undecided : LET p == packets[n] IN
          /\ p.lo <= p.hi /\ Bytes(p.segments) = p.lo..(p.hi - 1)
          /\ p.segments \subseteq out.inflight
          /\ p.reset => p.segments = {}
    /\ \A n, m \in undecided : n # m => packets[n].segments \cap packets[m].segments = {}
    /\ \A s \in out.inflight : \E n \in undecided : s \in packets[n].segments

OutInv == QueueInv(out) /\ PacketInv

\* A packet is sent, with segments that were not in flight.
LEMMA SendPackets ==
    ASSUME PacketInv, NEW packet \in Packet, Send(packet),
           packet.lo <= packet.hi, Bytes(packet.segments) = packet.lo..(packet.hi - 1),
           packet.segments \cap out.inflight = {}, packet.reset => packet.segments = {},
           out'.inflight = out.inflight \cup packet.segments
    PROVE  PacketInv'
<1> DEFINE l == Len(packets)
<1>1. l \in Nat /\ packets' = Append(packets, packet) /\ undecided' = undecided \cup {l + 1}
  BY DEF PacketInv, Send
<1>2. /\ packets' \in Seq(Packet) /\ Len(packets') = l + 1
      /\ packets'[l + 1] = packet /\ \A n \in 1..l : packets'[n] = packets[n]
  BY <1>1 DEF PacketInv
<1>3. \A n \in undecided : n \in 1..l /\ n # l + 1 /\ packets'[n] = packets[n]
  BY <1>1, <1>2 DEF PacketInv
<1> HIDE DEF l
<1>4. packets' \in Seq(Packet) /\ undecided' \subseteq 1..Len(packets')
  BY <1>1, <1>2, <1>3
<1>5. ASSUME NEW n \in undecided'
      PROVE  LET p == packets'[n] IN
             /\ p.lo <= p.hi /\ Bytes(p.segments) = p.lo..(p.hi - 1)
             /\ p.segments \subseteq out'.inflight
             /\ p.reset => p.segments = {}
  <2>1. CASE n = l + 1
    BY <2>1, <1>2
  <2>2. CASE n \in undecided
    BY <2>2, <1>3 DEF PacketInv
  <2> QED BY <2>1, <2>2, <1>1
<1>6. ASSUME NEW n \in undecided', NEW m \in undecided', n # m
      PROVE  packets'[n].segments \cap packets'[m].segments = {}
  <2>1. \A k \in undecided : packets'[k].segments \cap packet.segments = {}
    BY <1>3 DEF PacketInv
  <2>2. CASE n \in undecided /\ m \in undecided
    BY <2>2, <1>3, <1>6 DEF PacketInv
  <2>3. CASE n = l + 1 \/ m = l + 1
    BY <2>1, <2>3, <1>1, <1>2, <1>6
  <2> QED BY <2>2, <2>3, <1>1
<1>7. \A s \in out'.inflight : \E n \in undecided' : s \in packets'[n].segments
  <2>1. \A s \in out.inflight : \E n \in undecided : s \in packets'[n].segments
    BY <1>3 DEF PacketInv
  <2> QED BY <2>1, <1>1, <1>2
<1> QED BY <1>4, <1>5, <1>6, <1>7 DEF PacketInv

-----------------------------------------------------------------------------
(***************************************************************************)
(* A segment is pulled, whole or cut in two.                                 *)
(***************************************************************************)

\* What stays the same when segments are cut or pulled.
Steady(s, d) ==
    /\ d.state = s.state /\ d.inflight = s.inflight /\ d.inflightBytes = s.inflightBytes
    /\ d.sendOffset = s.sendOffset /\ d.buffer = s.buffer /\ d.confirmed = s.confirmed
    /\ d.pull.on = s.pull.on /\ d.pull.lo = s.pull.lo

\* The segment that waits first moves to the pull: it begins where the pull ends.
LEMMA TakeSegment ==
    ASSUME NEW s, QueueInv(s), s.pull.on, NEW g \in s.retransmit, g.lo = s.pull.hi,
           \A t \in s.retransmit : g.lo <= t.lo,
           s.state # "RESET",
           NEW d \in Queue, Steady(s, d), d.retransmit = s.retransmit \ {g},
           d.retransmitBytes = s.retransmitBytes,
           d.pull.hi = g.hi, d.pull.segments = s.pull.segments \cup {g}
    PROVE  QueueInv(d)
<1> DEFINE R == s.retransmit
           Q == s.retransmit \ {g}
           P == s.pull.segments
<1>1. /\ s \in Queue /\ s.pull \in Pull /\ R \in SUBSET Segment /\ P \in SUBSET Segment
      /\ s.inflight \in SUBSET Segment
      /\ g \in Segment /\ g.lo \in Nat /\ g.hi \in Nat /\ g.lo < g.hi /\ g.hi <= MaxBytes
      /\ s.sendOffset \in Nat /\ s.pull.lo \in Nat /\ s.pull.hi \in Nat
      /\ s.retransmitBytes \in Int
  <2>1. s \in Queue
    BY DEF QueueInv, DataInv
  <2>2. s.pull \in Pull /\ R \in SUBSET Segment
    BY <2>1 DEF Queue
  <2>3. P \in SUBSET Segment /\ s.pull.lo \in Nat /\ s.pull.hi \in Nat
    BY <2>2, SegmentsAssumption DEF Pull
  <2>4. g \in Segment
    BY <2>2
  <2>5. g.lo \in Nat /\ g.hi \in Nat /\ g.lo < g.hi /\ g.hi <= MaxBytes
    BY <2>4, SegmentFields, SegmentsAssumption
  <2>6. s.sendOffset \in Nat /\ s.inflight \in SUBSET Segment /\ s.retransmitBytes \in Int
    BY <2>1 DEF Queue
  <2> QED BY <2>1, <2>2, <2>3, <2>4, <2>5, <2>6
<1>2. /\ Apart(Holds(s)) /\ \A t \in Holds(s) : t.hi <= s.sendOffset
      /\ R \cap s.inflight = {} /\ R \cap P = {} /\ s.inflight \cap P = {}
  BY DEF QueueInv, DataInv, Sorted
<1>3. Holds(d) = Holds(s) /\ g \in Holds(s) /\ R \subseteq Holds(s)
  BY DEF Holds, Steady
<1>4. Sorted(d)
  BY <1>2, <1>3 DEF Sorted, Steady
<1>5. Found(d)
  BY <1>3 DEF Found, Steady, QueueInv, DataInv
<1>6. Taken(d)
  <2>1. /\ s.pull.lo <= s.pull.hi /\ s.pull.hi <= s.sendOffset
        /\ Bytes(P) = s.pull.lo..(s.pull.hi - 1)
    BY DEF QueueInv, DataInv, Taken
  <2>2. Bytes(P \cup {g}) = Bytes(P) \cup Bytes({g}) /\ Bytes({g}) = g.lo..(g.hi - 1)
    BY <1>1, BytesUnion, BytesOne
  <2>3. Bytes(P \cup {g}) = s.pull.lo..(g.hi - 1)
    <3>1. Bytes(P \cup {g}) = (s.pull.lo..(s.pull.hi - 1)) \cup (s.pull.hi..(g.hi - 1))
      BY <2>1, <2>2
    <3>2. s.pull.hi <= g.hi
      BY <1>1
    <3>3. (s.pull.lo..(s.pull.hi - 1)) \cup (s.pull.hi..(g.hi - 1)) = s.pull.lo..(g.hi - 1)
      BY <3>2, <2>1, <1>1, RangeJoin
    <3> QED BY <3>1, <3>3
  <2>4. g.hi <= s.sendOffset
    BY <1>2, <1>3
  <2>5. ASSUME NEW t \in Q PROVE g.hi <= t.lo
    <3>1. g.hi <= t.lo \/ t.hi <= g.lo
      BY <1>2, <1>3 DEF Apart
    <3>2. t.lo < t.hi /\ t.lo \in Nat /\ t.hi \in Nat
      BY <1>1, SegmentFields, SegmentsAssumption
    <3> QED BY <3>1, <3>2, <1>1
  <2> QED BY <2>1, <2>3, <2>4, <2>5, <1>1 DEF Taken, Steady
<1>7. Written(d)
  BY DEF Written, Fits, Steady, QueueInv, DataInv
<1>8. CountInv(d)
  <2>1. SUFFICES ASSUME ResetInCallback = FALSE PROVE CountInv(d)
    BY DEF CountInv
  <2>2. Cardinality(Bytes(R)) = Cardinality(Bytes(Q)) + Cardinality(Bytes({g}))
    <3>1. Q \cup {g} = R /\ Q \cap {g} = {} /\ Q \in SUBSET Segment /\ {g} \in SUBSET Segment
      BY <1>1
    <3>2. Apart(Q \cup {g})
      BY <1>2, <1>3, <3>1 DEF Apart
    <3>3. Cardinality(Bytes(Q \cup {g})) = Cardinality(Bytes(Q)) + Cardinality(Bytes({g}))
      BY <3>1, <3>2, CardApart
    <3> QED BY <3>1, <3>3
  <2>3. Cardinality(Bytes({g})) = g.hi - g.lo
    BY <1>1, CardOne
  <2>4. Cardinality(Bytes(R)) \in Nat /\ Cardinality(Bytes(Q)) \in Nat
    BY BytesFinite
  <2>5. /\ s.inflightBytes = Cardinality(Bytes(s.inflight))
        /\ s.retransmitBytes = Cardinality(Bytes(R)) + (s.pull.hi - s.pull.lo)
    BY <2>1 DEF QueueInv, CountInv
  <2>6. d.retransmitBytes = Cardinality(Bytes(Q)) + (g.hi - s.pull.lo)
    BY <2>2, <2>3, <2>4, <2>5, <1>1
  <2>7. d.retransmitBytes = Cardinality(Bytes(d.retransmit)) + (d.pull.hi - d.pull.lo)
    BY <2>6 DEF Steady
  <2> QED BY <2>5, <2>7 DEF CountInv, Steady
<1> QED BY <1>4, <1>5, <1>6, <1>7, <1>8 DEF QueueInv, DataInv

\* A segment that waits is cut in two.
LEMMA CutOne ==
    ASSUME NEW s, QueueInv(s), s.state # "RESET", NEW g \in s.retransmit,
           NEW e \in Nat, g.lo < e, e < g.hi,
           NEW a, a = [lo |-> g.lo, hi |-> e], NEW b, b = [lo |-> e, hi |-> g.hi],
           NEW d \in Queue, Steady(s, d), d.pull = s.pull,
           d.retransmit = (s.retransmit \ {g}) \cup {b} \cup {a},
           d.retransmitBytes = s.retransmitBytes
    PROVE  /\ QueueInv(d) /\ a \in d.retransmit
           /\ a \notin (s.retransmit \ {g}) \cup {b}
           /\ a \in Segment /\ b \in Segment
<1> DEFINE R == s.retransmit
           Q == s.retransmit \ {g}
           C == {b} \cup {a}
           H == s.inflight \cup s.pull.segments
<1>1. /\ s \in Queue /\ s.pull \in Pull /\ R \in SUBSET Segment
      /\ H \in SUBSET Segment /\ s.inflight \in SUBSET Segment
      /\ g \in Segment /\ g.lo \in Nat /\ g.hi \in Nat /\ g.lo < g.hi /\ g.hi <= MaxBytes
      /\ s.sendOffset \in Nat /\ s.pull.lo \in Nat /\ s.pull.hi \in Nat
  <2>1. s \in Queue
    BY DEF QueueInv, DataInv
  <2>2. s.pull \in Pull /\ R \in SUBSET Segment /\ s.inflight \in SUBSET Segment
    BY <2>1 DEF Queue
  <2>3. s.pull.segments \in SUBSET Segment /\ s.pull.lo \in Nat /\ s.pull.hi \in Nat
    BY <2>2, SegmentsAssumption DEF Pull
  <2>4. g \in Segment
    BY <2>2
  <2>5. g.lo \in Nat /\ g.hi \in Nat /\ g.lo < g.hi /\ g.hi <= MaxBytes
    BY <2>4, SegmentFields, SegmentsAssumption
  <2>6. s.sendOffset \in Nat
    BY <2>1 DEF Queue
  <2> QED BY <2>1, <2>2, <2>3, <2>4, <2>5, <2>6
<1>2. /\ a \in Segment /\ b \in Segment /\ C \in SUBSET Segment
      /\ a.lo = g.lo /\ a.hi = e /\ b.lo = e /\ b.hi = g.hi
  BY <1>1, SegmentMade, SegmentsAssumption
<1>3. /\ Apart(Holds(s)) /\ \A t \in Holds(s) : t.hi <= s.sendOffset
      /\ R \cap s.inflight = {} /\ R \cap s.pull.segments = {}
      /\ s.inflight \cap s.pull.segments = {}
      /\ Holds(s) = R \cup H /\ g \in Holds(s)
  BY DEF QueueInv, DataInv, Sorted, Holds
<1>4. Holds(d) = (Q \cup H) \cup C /\ Holds(s) = (Q \cup H) \cup {g} /\ g \notin Q \cup H
  BY <1>3 DEF Holds, Steady
<1> HIDE DEF C
<1>5. ASSUME NEW t \in Q \cup H
      PROVE  /\ g.hi <= t.lo \/ t.hi <= g.lo
             /\ t.lo \in Nat /\ t.hi \in Nat /\ t.lo < t.hi
             /\ t \notin C
  <2>1. t \in Segment /\ t # g
    BY <1>1, <1>4
  <2>2. g.hi <= t.lo \/ t.hi <= g.lo
    BY <2>1, <1>3, <1>4 DEF Apart
  <2>3. t.lo \in Nat /\ t.hi \in Nat /\ t.lo < t.hi
    BY <2>1, SegmentFields, SegmentsAssumption
  <2>4. t # a /\ t # b
    BY <2>2, <2>3, <1>1, <1>2
  <2> QED BY <2>2, <2>3, <2>4 DEF C
<1>6. Bytes(C) = Bytes({g})
  <2>1. Bytes(C) = Bytes({b}) \cup Bytes({a})
    BY BytesUnion DEF C
  <2>2. /\ Bytes({a}) = g.lo..(e - 1) /\ Bytes({b}) = e..(g.hi - 1)
        /\ Bytes({g}) = g.lo..(g.hi - 1)
    <3>1. e <= MaxBytes
      BY <1>1, SegmentsAssumption
    <3> QED BY <3>1, <1>1, <1>2, BytesOne
  <2>3. (g.lo..(e - 1)) \cup (e..(g.hi - 1)) = g.lo..(g.hi - 1)
    <3>1. g.lo <= e /\ e <= g.hi
      BY <1>1
    <3> QED BY <3>1, <1>1, RangeJoin
  <2> QED BY <2>1, <2>2, <2>3
<1>7. Bytes(Holds(d)) = Bytes(Holds(s))
  <2>1. Bytes(Holds(d)) = Bytes(Q \cup H) \cup Bytes(C)
    BY <1>4, BytesUnion
  <2>2. Bytes(Holds(s)) = Bytes(Q \cup H) \cup Bytes({g})
    BY <1>4, BytesUnion
  <2> QED BY <2>1, <2>2, <1>6
<1>8. Sorted(d)
  <2>1. \A c \in C : c.lo >= g.lo /\ c.hi <= g.hi /\ c.lo \in Nat /\ c.hi \in Nat
    BY <1>1, <1>2 DEF C
  <2>2. \A t \in Q \cup H, c \in C : c.hi <= t.lo \/ t.hi <= c.lo
    BY <2>1, <1>1, <1>5
  <2>3. \A c, t \in C : c # t => c.hi <= t.lo \/ t.hi <= c.lo
    BY <1>1, <1>2 DEF C
  <2>4. \A c, t \in Q \cup H : c # t => c.hi <= t.lo \/ t.hi <= c.lo
    BY <1>3, <1>4 DEF Apart
  <2>5. Apart(Holds(d))
    BY <2>2, <2>3, <2>4, <1>4 DEF Apart
  <2>6. \A t \in Holds(d) : t.hi <= d.sendOffset
    <3>1. g.hi <= s.sendOffset
      BY <1>3
    <3>2. \A c \in C : c.hi <= s.sendOffset
      BY <3>1, <2>1, <1>1
    <3> QED BY <3>2, <1>3, <1>4 DEF Steady
  <2>7. d.retransmit \cap H = {}
    <3>1. d.retransmit = Q \cup C
      BY DEF C
    <3> QED BY <3>1, <1>3, <1>5
  <2> QED BY <2>5, <2>6, <2>7, <1>3 DEF Sorted, Steady
<1>9. Found(d)
  BY <1>7 DEF Found, Steady, QueueInv, DataInv
<1>10. Taken(d)
  <2>1. \A t \in R : s.pull.on => s.pull.hi <= t.lo
    BY DEF QueueInv, DataInv, Taken
  <2>2. s.pull.on => s.pull.hi <= a.lo /\ s.pull.hi <= b.lo
    BY <2>1, <1>1, <1>2
  <2> QED BY <2>1, <2>2 DEF QueueInv, DataInv, Taken, Steady
<1>11. Written(d)
  BY DEF Written, Fits, Steady, QueueInv, DataInv
<1>12. CountInv(d)
  <2>1. Bytes(d.retransmit) = Bytes(R)
    <3>1. d.retransmit = Q \cup C /\ R = Q \cup {g}
      BY DEF C
    <3>2. Bytes(d.retransmit) = Bytes(Q) \cup Bytes(C) /\ Bytes(R) = Bytes(Q) \cup Bytes({g})
      BY <3>1, BytesUnion
    <3> QED BY <3>2, <1>6
  <2>2. CountInv(s)
    BY DEF QueueInv
  <2>3. d.pull = s.pull /\ d.inflight = s.inflight /\ d.inflightBytes = s.inflightBytes
        /\ d.state = s.state /\ d.retransmitBytes = s.retransmitBytes
    BY DEF Steady
  <2> QED BY <2>1, <2>2, <2>3 DEF CountInv
<1>13. a \in d.retransmit /\ a \notin Q \cup {b}
  <2>1. a \notin Q
    BY <1>5 DEF C
  <2>2. a # b
    BY <1>2
  <2> QED BY <2>1, <2>2
<1> QED BY <1>2, <1>8, <1>9, <1>10, <1>11, <1>12, <1>13 DEF QueueInv, DataInv

-----------------------------------------------------------------------------
(***************************************************************************)
(* The steps.                                                               *)
(***************************************************************************)
LEMMA QuietPackets ==
    ASSUME PacketInv, UNCHANGED <<packets, undecided>>, out'.inflight = out.inflight
    PROVE  PacketInv'
BY DEF PacketInv

LEMMA InvType == ASSUME NEW s, QueueInv(s) PROVE s \in Queue
BY DEF QueueInv, DataInv

LEMMA ProgressInflight ==
    ASSUME NEW s, QueueInv(s) PROVE makeProgress(s).inflight = s.inflight
<1>1. s \in Queue /\ Fits(s)
  BY DEF QueueInv, DataInv, Written
<1> QED BY <1>1, ProgressFields DEF Kept

LEMMA StepWrite ==
    ASSUME OutInv, NEW n \in Writes, Write(n) PROVE OutInv'
<1> DEFINE t == [out EXCEPT !.buffer = n]
<1>1. out \in Queue /\ n \in Nat /\ n > 0
  BY InvType, OutStreamAssumption DEF OutInv
<1>2. /\ out.buffer = 0 /\ out.state = "CONNECTED" /\ out.sendOffset + n <= MaxBytes
      /\ out' = makeProgress(t) /\ UNCHANGED <<packets, undecided>>
  BY DEF Write
<1>3. t \in Queue
  BY <1>1 DEF Queue
<1>4. /\ t.buffer = n /\ t.state = out.state /\ t.inflight = out.inflight
      /\ t.inflightBytes = out.inflightBytes /\ t.retransmit = out.retransmit
      /\ t.retransmitBytes = out.retransmitBytes /\ t.sendOffset = out.sendOffset
      /\ t.pull = out.pull /\ t.confirmed = out.confirmed
  BY <1>1 DEF Queue
<1> HIDE DEF t
<1>5. QueueInv(t)
  <2>1. QueueInv(out)
    BY DEF OutInv
  <2>2. Holds(t) = Holds(out)
    BY <1>4 DEF Holds
  <2>3. Sorted(t) /\ Found(t) /\ Taken(t)
    BY <2>1, <2>2, <1>4 DEF QueueInv, DataInv, Sorted, Found, Taken
  <2>4. Written(t)
    BY <1>2, <1>4 DEF Written, Fits
  <2>5. CountInv(t)
    BY <2>1, <1>4 DEF QueueInv, CountInv
  <2> QED BY <2>3, <2>4, <2>5, <1>3 DEF QueueInv, DataInv
<1>6. QueueInv(makeProgress(t)) /\ makeProgress(t).inflight = t.inflight
  BY <1>5, InvProgress, ProgressInflight
<1>7. PacketInv'
  BY <1>2, <1>4, <1>6, QuietPackets DEF OutInv
<1> QED BY <1>2, <1>6, <1>7 DEF OutInv

LEMMA StepShutdown ==
    ASSUME OutInv, Shutdown PROVE OutInv'
<1> DEFINE t == [out EXCEPT !.state = "SHUTDOWN_RETRANSMIT", !.shutdowner = "pending"]
<1>1. QueueInv(out) /\ out \in Queue
  BY InvType DEF OutInv
<1>2. out.buffer = 0 /\ out' = updateRTS(t) /\ UNCHANGED <<packets, undecided>>
  BY DEF Shutdown
<1>3. t \in Queue
  BY <1>1 DEF Queue, OutStates, Shutdowners
<1>4. /\ t.buffer = out.buffer /\ t.state = "SHUTDOWN_RETRANSMIT"
      /\ t.inflight = out.inflight
      /\ t.inflightBytes = out.inflightBytes /\ t.retransmit = out.retransmit
      /\ t.retransmitBytes = out.retransmitBytes /\ t.sendOffset = out.sendOffset
      /\ t.pull = out.pull /\ t.confirmed = out.confirmed
  BY <1>1 DEF Queue
<1> HIDE DEF t
<1>5. QueueInv(t)
  <2>1. out.state # "RESET"
    BY DEF Shutdown
  <2>2. Holds(t) = Holds(out)
    BY <1>4 DEF Holds
  <2>3. Sorted(t) /\ Found(t) /\ Taken(t)
    BY <2>1, <2>2, <1>1, <1>4 DEF QueueInv, DataInv, Sorted, Found, Taken
  <2>4. Written(t)
    BY <1>1, <1>2, <1>4 DEF Written, Fits, QueueInv, DataInv
  <2>5. CountInv(t)
    BY <1>1, <1>4 DEF QueueInv, CountInv
  <2> QED BY <2>3, <2>4, <2>5, <1>3 DEF QueueInv, DataInv
<1>6. QueueInv(updateRTS(t)) /\ updateRTS(t).inflight = t.inflight
  BY <1>3, <1>5, InvUpdate, UpdateFields DEF Kept
<1>7. PacketInv'
  BY <1>2, <1>4, <1>6, QuietPackets DEF OutInv
<1> QED BY <1>2, <1>6, <1>7 DEF OutInv

LEMMA StepReset ==
    ASSUME OutInv, Reset PROVE OutInv'
<1> DEFINE t == doReset(out)
<1>1. QueueInv(out) /\ out \in Queue
  BY InvType DEF OutInv
<1>2. /\ out.pull.on => ResetInCallback
      /\ out' = updateRTS(t) /\ UNCHANGED <<packets, undecided>>
  BY DEF Reset
<1>3. QueueInv(t) /\ t \in Queue /\ t.inflight = out.inflight
  BY <1>1, <1>2, InvReset, ResetFields
<1> HIDE DEF t
<1>4. QueueInv(updateRTS(t)) /\ updateRTS(t).inflight = t.inflight
  BY <1>3, InvUpdate, UpdateFields DEF Kept
<1>5. PacketInv'
  BY <1>2, <1>3, <1>4, QuietPackets DEF OutInv
<1> QED BY <1>2, <1>4, <1>5 DEF OutInv

LEMMA StepSetPriority ==
    ASSUME OutInv, SetPriority PROVE OutInv'
<1>1. /\ QueueInv(out) /\ out \in Queue
      /\ out' = updateRTS(out) /\ UNCHANGED <<packets, undecided>>
  BY InvType DEF OutInv, SetPriority
<1>2. QueueInv(updateRTS(out)) /\ updateRTS(out).inflight = out.inflight
  BY <1>1, InvUpdate, UpdateFields DEF Kept
<1>3. PacketInv'
  BY <1>1, <1>2, QuietPackets DEF OutInv
<1> QED BY <1>1, <1>2, <1>3 DEF OutInv

LEMMA StepPullReset ==
    ASSUME OutInv, PullReset PROVE OutInv'
<1> DEFINE packet == [reset |-> TRUE, lo |-> 0, hi |-> 0, segments |-> {}, eof |-> FALSE]
<1>1. QueueInv(out) /\ out \in Queue /\ PacketInv
  BY InvType DEF OutInv
<1>2. out' = [out EXCEPT !.rts = FALSE] /\ Send(packet)
  BY DEF PullReset
<1>3. /\ out' \in Queue /\ Kept(out, out') /\ Waits(out, out')
  BY <1>1, <1>2 DEF Queue, Kept, Waits
<1>4. QueueInv(out')
  BY <1>1, <1>3, DataAlike, CountAlike DEF QueueInv, Kept
<1>5. PacketInv'
  <2>1. packet \in Packet /\ packet.lo = 0 /\ packet.hi = 0 /\ packet.segments = {}
    BY SegmentsAssumption DEF Packet
  <2> HIDE DEF packet
  <2>2. packet.lo <= packet.hi /\ Bytes(packet.segments) = packet.lo..(packet.hi - 1)
    BY <2>1, BytesNone
  <2>3. /\ packet.segments \cap out.inflight = {}
        /\ out'.inflight = out.inflight \cup packet.segments
    BY <2>1, <1>3 DEF Kept
  <2> QED BY <2>1, <2>2, <2>3, <1>1, <1>2, SendPackets
<1> QED BY <1>4, <1>5 DEF OutInv

LEMMA StepPullBegin ==
    ASSUME OutInv, PullBegin PROVE OutInv'
<1> DEFINE offset == IF out.retransmit = {} THEN out.sendOffset
                     ELSE First(out.retransmit).lo
           began == [on |-> TRUE, lo |-> offset, hi |-> offset,
                     segments |-> {}, callback |-> FALSE]
<1>1. QueueInv(out) /\ out \in Queue /\ PacketInv
  BY InvType DEF OutInv
<1>2. /\ out' = [out EXCEPT !.pull = began] /\ UNCHANGED <<packets, undecided>>
      /\ ~out.pull.on /\ out.state # "RESET"
  BY DEF PullBegin, Pullable
<1>3. out.pull.segments = {} /\ out.pull.hi = 0 /\ out.pull.lo = 0
  BY <1>1, <1>2 DEF QueueInv, DataInv, Taken, NoPull
<1>4. /\ offset \in 0..MaxBytes /\ offset <= out.sendOffset
      /\ \A t \in out.retransmit : offset <= t.lo
  <2>1. out.retransmit \in SUBSET Segment /\ out.sendOffset \in Nat /\ out.buffer \in Nat
    BY <1>1 DEF Queue
  <2>2. CASE out.retransmit = {}
    <3>1. out.sendOffset <= MaxBytes
      BY <1>1, <2>1, SegmentsAssumption DEF QueueInv, DataInv, Written, Fits
    <3> QED BY <3>1, <2>1, <2>2
  <2>3. CASE out.retransmit # {}
    <3>1. /\ First(out.retransmit) \in out.retransmit
          /\ \A t \in out.retransmit : First(out.retransmit).lo <= t.lo
      BY <2>1, <2>3, FirstIsLeast
    <3>2. First(out.retransmit) \in Segment /\ First(out.retransmit).hi <= out.sendOffset
      BY <1>1, <2>1, <3>1 DEF QueueInv, DataInv, Sorted, Holds
    <3>3. /\ First(out.retransmit).lo \in 0..MaxBytes
          /\ First(out.retransmit).hi \in 0..MaxBytes
          /\ First(out.retransmit).lo < First(out.retransmit).hi
      BY <3>2, SegmentFields
    <3> QED BY <3>1, <3>2, <3>3, <2>1, <2>3, SegmentsAssumption
  <2> QED BY <2>2, <2>3
<1> HIDE DEF offset
<1>5. began \in Pull
  BY <1>4 DEF Pull
<1>6. out' \in Queue /\ Waits(out, out') /\ out'.pull = began
  BY <1>1, <1>2, <1>5 DEF Queue, Waits
<1>7. /\ out'.state = out.state /\ out'.inflight = out.inflight
      /\ out'.inflightBytes = out.inflightBytes /\ out'.confirmed = out.confirmed
  BY <1>1, <1>2 DEF Queue
<1>8. began.on /\ began.lo = offset /\ began.hi = offset /\ began.segments = {}
  OBVIOUS
<1> HIDE DEF began
<1>9. Holds(out') = Holds(out)
  BY <1>3, <1>6, <1>7, <1>8 DEF Holds, Waits
<1>10. Sorted(out') /\ Found(out') /\ Written(out')
  BY <1>1, <1>3, <1>6, <1>7, <1>8, <1>9
  DEF QueueInv, DataInv, Sorted, Found, Written, Fits, Waits
<1>11. Taken(out')
  <2>1. Bytes({}) = offset..(offset - 1)
    <3>1. offset \in Int
      BY <1>4
    <3>2. offset..(offset - 1) = {}
      BY <3>1
    <3> QED BY <3>2, BytesNone
  <2> QED BY <2>1, <1>4, <1>6, <1>8, SegmentsAssumption DEF Taken, Waits
<1>12. CountInv(out')
  <2>1. offset - offset = 0 - 0
    BY <1>4, SegmentsAssumption
  <2> QED BY <2>1, <1>1, <1>2, <1>3, <1>6, <1>7, <1>8 DEF QueueInv, CountInv, Waits
<1>13. PacketInv'
  BY <1>1, <1>2, <1>7, QuietPackets
<1> QED BY <1>6, <1>10, <1>11, <1>12, <1>13 DEF OutInv, QueueInv, DataInv

LEMMA StepPullSegment ==
    ASSUME OutInv, PullSegment PROVE OutInv'
<1> DEFINE g    == First(out.retransmit)
           rest == out.retransmit \ {g}
           end  == out.pull.hi + Room
           head == [lo |-> g.lo, hi |-> end]
           tail == [lo |-> end, hi |-> g.hi]
           w    == [out EXCEPT !.retransmit = rest]
<1>1. QueueInv(out) /\ out \in Queue /\ PacketInv
  BY InvType DEF OutInv
<1>2. /\ out.pull.on /\ Room > 0 /\ out.retransmit # {} /\ g.lo <= out.pull.hi
      /\ out' = IF Length(g) <= Room
                THEN [makeProgress(w) EXCEPT
                        !.pull.hi = @ + Length(g),
                        !.pull.segments = @ \cup {g},
                        !.pull.callback = Progresses(w)]
                ELSE [out EXCEPT !.retransmit = rest \cup {tail},
                                 !.pull.hi = end,
                                 !.pull.segments = @ \cup {head},
                                 !.pull.callback = FALSE]
      /\ UNCHANGED <<packets, undecided>>
  BY DEF PullSegment, PullsMore
<1>3. /\ out.retransmit \in SUBSET Segment /\ out.pull \in Pull
      /\ g \in out.retransmit /\ \A t \in out.retransmit : g.lo <= t.lo
  <2>1. out.retransmit \in SUBSET Segment /\ out.pull \in Pull
    BY <1>1 DEF Queue
  <2> QED BY <2>1, <1>2, FirstIsLeast
<1>4. /\ g \in Segment /\ g.lo \in Nat /\ g.hi \in Nat /\ g.lo < g.hi /\ g.hi <= MaxBytes
      /\ out.pull.hi \in Nat /\ out.pull.lo \in Nat /\ Room \in Int
      /\ out.pull.segments \in SUBSET Segment
      /\ g.lo = out.pull.hi /\ out.state # "RESET"
  <2>1. g \in Segment
    BY <1>3
  <2>2. g.lo \in Nat /\ g.hi \in Nat /\ g.lo < g.hi /\ g.hi <= MaxBytes
    BY <2>1, SegmentFields, SegmentsAssumption
  <2>3. out.pull.hi \in Nat /\ out.pull.lo \in Nat /\ out.pull.segments \in SUBSET Segment
    BY <1>3, SegmentsAssumption DEF Pull
  <2>4. out.pull.hi <= g.lo
    BY <1>1, <1>2, <1>3 DEF QueueInv, DataInv, Taken
  <2>5. out.state # "RESET"
    BY <1>1, <1>2 DEF QueueInv, DataInv, Written
  <2>6. Room \in Int
    BY <2>3, OutStreamAssumption DEF Room
  <2> QED BY <2>1, <2>2, <2>3, <2>4, <2>5, <2>6, <1>2
<1> HIDE DEF g, Room
<1>5. CASE Length(g) <= Room
  <2> DEFINE d  == makeProgress(w)
             np == [out.pull EXCEPT !.hi = @ + Length(g), !.segments = @ \cup {g},
                                    !.callback = Progresses(w)]
             x  == [w EXCEPT !.pull = np]
             e  == makeProgress(x)
  <2>1. w \in Queue /\ Fits(w)
    <3>1. rest \in SUBSET Segment
      BY <1>3
    <3>2. w \in Queue
      BY <1>1, <3>1 DEF Queue
    <3>3. w.sendOffset = out.sendOffset /\ w.buffer = out.buffer
      BY <1>1 DEF Queue
    <3> QED BY <3>2, <3>3, <1>1 DEF QueueInv, DataInv, Written, Fits
  <2>2. /\ w.retransmit = rest /\ w.retransmitBytes = out.retransmitBytes
        /\ w.pull = out.pull /\ w.state = out.state
        /\ w.inflight = out.inflight /\ w.inflightBytes = out.inflightBytes
        /\ w.sendOffset = out.sendOffset /\ w.buffer = out.buffer
        /\ w.confirmed = out.confirmed
    BY <1>1 DEF Queue
  <2>3. Length(g) = g.hi - g.lo
    BY DEF Length
  <2>4. /\ np \in Pull /\ np.on = out.pull.on /\ np.lo = out.pull.lo
        /\ np.hi = g.hi /\ np.segments = out.pull.segments \cup {g}
    <3>1. Progresses(w) \in BOOLEAN
      BY DEF Progresses
    <3>2. out.pull.hi + Length(g) = g.hi /\ g.hi \in 0..MaxBytes
      BY <2>3, <1>4, SegmentsAssumption
    <3>3. out.pull.segments \cup {g} \in SUBSET Segment
      BY <1>4
    <3> HIDE DEF w
    <3> QED BY <3>1, <3>2, <3>3, <1>3 DEF Pull
  <2> HIDE DEF w, np
  <2>5. /\ x \in Queue /\ x.pull = np /\ x.retransmit = w.retransmit
        /\ x.retransmitBytes = w.retransmitBytes /\ x.state = w.state
        /\ x.inflight = w.inflight /\ x.inflightBytes = w.inflightBytes
        /\ x.sendOffset = w.sendOffset /\ x.buffer = w.buffer
        /\ x.confirmed = w.confirmed
    BY <2>1, <2>4 DEF Queue
  <2> HIDE DEF x
  <2>6. QueueInv(x)
    <3>1. Steady(out, x)
      BY <2>2, <2>4, <2>5 DEF Steady
    <3>2. x.pull.hi = g.hi /\ x.pull.segments = out.pull.segments \cup {g}
      BY <2>4, <2>5
    <3>3. x.retransmit = out.retransmit \ {g} /\ x.retransmitBytes = out.retransmitBytes
      BY <2>2, <2>5
    <3> HIDE DEF rest
    <3> QED BY <3>1, <3>2, <3>3, <1>1, <1>2, <1>3, <1>4, <2>5, TakeSegment
  <2>7. QueueInv(e)
    BY <2>6, InvProgress
  <2>8. /\ d \in Queue /\ Kept(w, d)
        /\ \/ Progresses(w) /\ Moves(w, d)
           \/ ~Progresses(w) /\ Waits(w, d)
    BY <2>1, ProgressFields DEF Waits
  <2>9. /\ e \in Queue /\ Kept(x, e)
        /\ \/ Progresses(x) /\ Moves(x, e)
           \/ ~Progresses(x) /\ Waits(x, e)
    <3>1. Fits(x) /\ x \in Queue
      BY <2>1, <2>5 DEF Fits
    <3> QED BY <3>1, ProgressFields DEF Waits
  <2>10. Progresses(x) <=> Progresses(w)
    BY <2>5 DEF Progresses
  <2> HIDE DEF d, e
  <2>11. Waits(e, d) /\ d.state = e.state /\ d.inflight = e.inflight
         /\ d.inflightBytes = e.inflightBytes /\ d.confirmed = e.confirmed
    BY <2>5, <2>8, <2>9, <2>10 DEF Waits, Moves, Kept
  <2>12. out' = [d EXCEPT !.pull = np]
    <3>1. d.pull = out.pull
      BY <2>2, <2>8 DEF Kept
    <3>2. out' = [d EXCEPT !.pull.hi = @ + Length(g), !.pull.segments = @ \cup {g},
                           !.pull.callback = Progresses(w)]
      BY <1>2, <1>5 DEF d, w
    <3> QED BY <3>1, <3>2, <2>8, <1>3 DEF np, Queue, Pull
  <2>13. /\ out' \in Queue /\ Waits(d, out') /\ out'.pull = np
         /\ out'.state = d.state /\ out'.inflight = d.inflight
         /\ out'.inflightBytes = d.inflightBytes /\ out'.confirmed = d.confirmed
    BY <2>4, <2>8, <2>12 DEF Queue, Waits
  <2>14. Waits(e, out') /\ out'.pull = e.pull /\ out'.state = e.state
         /\ out'.inflight = e.inflight
         /\ out'.inflightBytes = e.inflightBytes /\ out'.confirmed = e.confirmed
    BY <2>5, <2>9, <2>11, <2>13 DEF Waits, Kept
  <2>15. QueueInv(out')
    BY <2>7, <2>13, <2>14, DataAlike, CountAlike DEF QueueInv
  <2>16. PacketInv'
    <3>1. out'.inflight = out.inflight
      BY <2>2, <2>8, <2>13 DEF Kept
    <3> QED BY <3>1, <1>1, <1>2, QuietPackets
  <2> QED BY <2>15, <2>16 DEF OutInv
<1>6. CASE ~(Length(g) <= Room)
  <2> DEFINE y == [out EXCEPT !.retransmit = rest \cup {tail} \cup {head}]
             np == [out.pull EXCEPT !.hi = end, !.segments = @ \cup {head}, !.callback = FALSE]
  <2>1. end \in Nat /\ g.lo < end /\ end < g.hi /\ end \in 0..MaxBytes
    BY <1>2, <1>4, <1>6, SegmentsAssumption DEF Length
  <2> HIDE DEF end
  <2>2. /\ head \in Segment /\ tail \in Segment /\ head.lo = g.lo /\ head.hi = end
        /\ tail.lo = end /\ tail.hi = g.hi
    BY <2>1, <1>4, SegmentMade, SegmentsAssumption
  <2>3. /\ y \in Queue /\ Steady(out, y) /\ y.pull = out.pull
        /\ y.retransmit = rest \cup {tail} \cup {head}
        /\ y.retransmitBytes = out.retransmitBytes
    <3> HIDE DEF tail, head
    <3>1. rest \cup {tail} \cup {head} \in SUBSET Segment
      BY <2>2, <1>3
    <3> QED BY <3>1, <1>1 DEF Queue, Steady
  <2> HIDE DEF y
  <2>4. QueueInv(y) /\ head \in y.retransmit /\ head \notin rest \cup {tail}
    BY <2>1, <2>3, <1>1, <1>3, <1>4, CutOne
  <2>5. \A t \in y.retransmit : head.lo <= t.lo
    BY <2>1, <2>2, <2>3, <1>3, <1>4
  <2> HIDE DEF head, tail
  <2>6. /\ np \in Pull /\ np.on = out.pull.on /\ np.lo = out.pull.lo
        /\ np.hi = end /\ np.segments = out.pull.segments \cup {head}
    <3>1. out.pull.segments \cup {head} \in SUBSET Segment
      BY <1>4, <2>2
    <3> QED BY <3>1, <2>1, <1>3 DEF Pull
  <2>7. out' = [out EXCEPT !.retransmit = rest \cup {tail}, !.pull = np]
    <3>1. out' = [out EXCEPT !.retransmit = rest \cup {tail}, !.pull.hi = end,
                             !.pull.segments = @ \cup {head}, !.pull.callback = FALSE]
      BY <1>2, <1>6 DEF end, head, tail
    <3> QED BY <3>1, <1>1, <1>3 DEF np, Queue, Pull
  <2> HIDE DEF np
  <2>8. /\ out' \in Queue /\ Steady(out, out') /\ out'.pull = np
        /\ out'.retransmit = rest \cup {tail} /\ out'.retransmitBytes = out.retransmitBytes
    <3>1. rest \cup {tail} \in SUBSET Segment
      BY <1>3, <2>2
    <3> QED BY <3>1, <2>6, <2>7, <1>1 DEF Queue, Steady
  <2> HIDE DEF rest
  <2>9. /\ Steady(y, out') /\ out'.retransmit = y.retransmit \ {head}
        /\ out'.retransmitBytes = y.retransmitBytes
        /\ out'.pull.hi = head.hi /\ out'.pull.segments = y.pull.segments \cup {head}
        /\ y.pull.on /\ head.lo = y.pull.hi /\ y.state # "RESET"
    <3>1. Steady(y, out')
      BY <2>3, <2>8 DEF Steady
    <3>2. out'.retransmit = y.retransmit \ {head}
      BY <2>3, <2>4, <2>8
    <3>3. /\ out'.pull.hi = head.hi /\ out'.pull.segments = y.pull.segments \cup {head}
          /\ out'.retransmitBytes = y.retransmitBytes
      BY <2>2, <2>3, <2>6, <2>8
    <3>4. y.pull.on /\ head.lo = y.pull.hi /\ y.state # "RESET"
      BY <1>2, <1>4, <2>2, <2>3 DEF Steady
    <3> QED BY <3>1, <3>2, <3>3, <3>4
  <2>10. QueueInv(out')
    BY <2>4, <2>5, <2>8, <2>9, TakeSegment
  <2>11. PacketInv'
    BY <2>8, <1>1, <1>2, QuietPackets DEF Steady
  <2> QED BY <2>10, <2>11 DEF OutInv
<1> QED BY <1>5, <1>6

LEMMA StepPullEnd ==
    ASSUME OutInv, PullEnd PROVE OutInv'
<1> DEFINE p   == out.pull
           P   == out.pull.segments
           len == out.pull.hi - out.pull.lo
           st  == IF AttachEOF THEN "SHUTDOWN_INFLIGHT" ELSE out.state
           t   == [out EXCEPT !.state = IF AttachEOF THEN "SHUTDOWN_INFLIGHT" ELSE @,
                              !.inflight = @ \cup P,
                              !.inflightBytes = @ + len,
                              !.retransmitBytes = @ - len,
                              !.pull = NoPull]
           packet == [reset |-> FALSE, lo |-> p.lo, hi |-> p.hi, segments |-> P,
                      eof |-> AttachEOF]
<1>1. QueueInv(out) /\ out \in Queue /\ PacketInv
  BY InvType DEF OutInv
<1>2. out.pull.on /\ out' = updateRTS(t) /\ Send(packet)
  BY DEF PullEnd
<1>3. /\ p \in Pull /\ P \in SUBSET Segment /\ p.lo \in 0..MaxBytes /\ p.hi \in 0..MaxBytes
      /\ p.lo \in Nat /\ p.hi \in Nat /\ p.lo <= p.hi
      /\ Bytes(P) = p.lo..(p.hi - 1)
      /\ out.inflight \in SUBSET Segment /\ out.inflightBytes \in Int
      /\ out.retransmit \in SUBSET Segment /\ out.retransmitBytes \in Int
  <2>1. /\ p \in Pull /\ out.inflight \in SUBSET Segment /\ out.inflightBytes \in Int
        /\ out.retransmit \in SUBSET Segment /\ out.retransmitBytes \in Int
    BY <1>1 DEF Queue
  <2>2. P \in SUBSET Segment /\ p.lo \in 0..MaxBytes /\ p.hi \in 0..MaxBytes
    BY <2>1 DEF Pull
  <2>3. p.lo <= p.hi /\ Bytes(P) = p.lo..(p.hi - 1)
    BY <1>1, <1>2 DEF QueueInv, DataInv, Taken
  <2> QED BY <2>1, <2>2, <2>3, SegmentsAssumption
<1>4. /\ st \in OutStates
      /\ st = "RESET" <=> out.state = "RESET"
      /\ st # "CONNECTED" => out.state # "CONNECTED"
  BY <1>1 DEF AttachEOF, Shutdowns, OutStates, Queue
<1>5. NoPull \in Pull
  BY SegmentsAssumption DEF NoPull, Pull
<1>6. /\ t \in Queue /\ t.state = st /\ t.inflight = out.inflight \cup P
      /\ t.inflightBytes = out.inflightBytes + len
      /\ t.retransmitBytes = out.retransmitBytes - len
      /\ t.pull = NoPull /\ t.retransmit = out.retransmit
      /\ t.sendOffset = out.sendOffset /\ t.buffer = out.buffer
      /\ t.confirmed = out.confirmed
  <2> DEFINE u == [out EXCEPT !.state = st, !.pull = NoPull]
             i == out.inflight \cup P
             ib == out.inflightBytes + len
             rb == out.retransmitBytes - len
  <2>1. u \in Queue
    <3> HIDE DEF st
    <3> QED BY <1>1, <1>4, <1>5 DEF Queue
  <2>2. i \in SUBSET Segment /\ ib \in Int /\ rb \in Int
    BY <1>3
  <2>3. t = [u EXCEPT !.inflight = i, !.inflightBytes = ib, !.retransmitBytes = rb]
    BY <1>1 DEF Queue
  <2>4. t \in Queue
    <3> HIDE DEF u, t, i, ib, rb
    <3> QED BY <2>1, <2>2, <2>3 DEF Queue
  <2> QED BY <2>4, <1>1 DEF Queue
<1> HIDE DEF t, st
<1>7. QueueInv(t)
  <2>1. NoPull.segments = {} /\ ~NoPull.on /\ NoPull.hi = 0 /\ NoPull.lo = 0
    BY DEF NoPull
  <2>2. Holds(t) = Holds(out)
    BY <1>6, <2>1 DEF Holds
  <2>3. Sorted(t)
    BY <1>1, <1>6, <2>1, <2>2 DEF QueueInv, DataInv, Sorted
  <2>4. Found(t) /\ Taken(t) /\ Written(t)
    BY <1>1, <1>4, <1>6, <2>1, <2>2 DEF QueueInv, DataInv, Found, Taken, Written, Fits
  <2>5. CountInv(t)
    <3>1. SUFFICES ASSUME ResetInCallback = FALSE PROVE CountInv(t)
      BY DEF CountInv
    <3>2. /\ out.inflightBytes = Cardinality(Bytes(out.inflight))
          /\ out.retransmitBytes = Cardinality(Bytes(out.retransmit)) + len
      BY <1>1, <3>1 DEF QueueInv, CountInv
    <3>3. Cardinality(Bytes(out.inflight \cup P))
          = Cardinality(Bytes(out.inflight)) + Cardinality(Bytes(P))
      <4>1. Apart(out.inflight \cup P) /\ out.inflight \cap P = {}
        BY <1>1 DEF QueueInv, DataInv, Sorted, Apart, Holds
      <4> QED BY <4>1, <1>3, CardApart
    <3>4. Cardinality(Bytes(P)) = len
      BY <1>3, CardRange
    <3>5. Cardinality(Bytes(out.retransmit)) \in Nat /\ len \in Int
      BY <1>3, BytesFinite
    <3>6. t.inflightBytes = Cardinality(Bytes(t.inflight))
      BY <1>6, <3>2, <3>3, <3>4
    <3>7. t.retransmitBytes = Cardinality(Bytes(t.retransmit)) + (t.pull.hi - t.pull.lo)
      BY <1>6, <3>2, <3>5, <2>1
    <3> QED BY <3>6, <3>7, <1>6, <2>1 DEF CountInv
  <2> QED BY <1>6, <2>3, <2>4, <2>5 DEF QueueInv, DataInv
<1>8. QueueInv(updateRTS(t)) /\ updateRTS(t).inflight = t.inflight
  BY <1>6, <1>7, InvUpdate, UpdateFields DEF Kept
<1>9. PacketInv'
  <2>1. /\ packet \in Packet /\ packet.lo = p.lo /\ packet.hi = p.hi
        /\ packet.segments = P /\ ~packet.reset
    <3>1. AttachEOF \in BOOLEAN
      BY DEF AttachEOF
    <3> QED BY <3>1, <1>3 DEF Packet
  <2>2. P \cap out.inflight = {}
    BY <1>1 DEF QueueInv, DataInv, Sorted
  <2> HIDE DEF packet
  <2>3. out'.inflight = out.inflight \cup packet.segments
    BY <1>2, <1>6, <1>8, <2>1
  <2> QED BY <2>1, <2>2, <2>3, <1>1, <1>2, <1>3, SendPackets
<1> QED BY <1>2, <1>8, <1>9 DEF OutInv

\* The fate of a packet is told.
LEMMA DecidePackets ==
    ASSUME PacketInv, NEW n \in undecided, UNCHANGED packets,
           undecided' = undecided \ {n},
           out'.inflight = out.inflight \ packets[n].segments
    PROVE  PacketInv'
<1>1. ASSUME NEW m \in undecided'
      PROVE  LET p == packets'[m] IN
             /\ p.lo <= p.hi /\ Bytes(p.segments) = p.lo..(p.hi - 1)
             /\ p.segments \subseteq out'.inflight
             /\ p.reset => p.segments = {}
  <2>1. m \in undecided /\ m # n /\ packets'[m] = packets[m]
    OBVIOUS
  <2>2. packets[m].segments \cap packets[n].segments = {}
    BY <2>1 DEF PacketInv
  <2> QED BY <2>1, <2>2 DEF PacketInv
<1>2. \A s \in out'.inflight : \E m \in undecided' : s \in packets'[m].segments
  BY DEF PacketInv
<1> QED BY <1>1, <1>2 DEF PacketInv

LEMMA StepAckReset ==
    ASSUME OutInv, NEW n, NEW ok, AckReset(n, ok) PROVE OutInv'
<1>1. QueueInv(out) /\ out \in Queue /\ PacketInv
  BY InvType DEF OutInv
<1>2. /\ n \in undecided /\ packets[n].reset
      /\ out' = [out EXCEPT !.complete = TRUE] \/ out' = [out EXCEPT !.rts = TRUE]
      /\ undecided' = undecided \ {n} /\ UNCHANGED packets
  BY DEF AckReset
<1>3. /\ out' \in Queue /\ Waits(out, out') /\ out'.state = out.state
      /\ out'.inflight = out.inflight /\ out'.inflightBytes = out.inflightBytes
      /\ out'.pull = out.pull /\ out'.confirmed = out.confirmed
  BY <1>1, <1>2 DEF Queue, Waits
<1>4. QueueInv(out')
  BY <1>1, <1>3, DataAlike, CountAlike DEF QueueInv
<1>5. packets[n].segments = {}
  BY <1>1, <1>2 DEF PacketInv
<1>6. PacketInv'
  BY <1>1, <1>2, <1>3, <1>5, DecidePackets
<1> QED BY <1>4, <1>6 DEF OutInv

LEMMA StepRecvBarrier ==
    ASSUME OutInv, NEW b \in Nat, RecvBarrier(b) PROVE OutInv'
<1> DEFINE t == [out EXCEPT !.barrier = b]
<1>1. QueueInv(out) /\ out \in Queue /\ PacketInv
  BY InvType DEF OutInv
<1>2. out' = makeProgress(t) /\ UNCHANGED <<packets, undecided>>
  BY DEF RecvBarrier
<1>3. /\ t \in Queue /\ Waits(out, t) /\ t.state = out.state
      /\ t.inflight = out.inflight /\ t.inflightBytes = out.inflightBytes
      /\ t.pull = out.pull /\ t.confirmed = out.confirmed
  BY <1>1 DEF Queue, Waits
<1> HIDE DEF t
<1>4. QueueInv(t)
  BY <1>1, <1>3, DataAlike, CountAlike DEF QueueInv
<1>5. QueueInv(makeProgress(t)) /\ makeProgress(t).inflight = t.inflight
  BY <1>4, InvProgress, ProgressInflight
<1>6. PacketInv'
  BY <1>1, <1>2, <1>3, <1>5, QuietPackets
<1> QED BY <1>2, <1>5, <1>6 DEF OutInv

LEMMA StepRecvReaderResets ==
    ASSUME OutInv, RecvReaderResets PROVE OutInv'
<1> DEFINE t == doReset(out)
<1>1. QueueInv(out) /\ out \in Queue /\ PacketInv
  BY InvType DEF OutInv
<1>2. /\ ~out.pull.on /\ out' = [t EXCEPT !.complete = TRUE]
      /\ UNCHANGED <<packets, undecided>>
  BY DEF RecvReaderResets
<1>3. QueueInv(t) /\ t \in Queue /\ t.inflight = out.inflight
  BY <1>1, <1>2, InvReset, ResetFields
<1> HIDE DEF t
<1>4. /\ out' \in Queue /\ Waits(t, out') /\ out'.state = t.state
      /\ out'.inflight = t.inflight /\ out'.inflightBytes = t.inflightBytes
      /\ out'.pull = t.pull /\ out'.confirmed = t.confirmed
  BY <1>2, <1>3 DEF Queue, Waits
<1>5. QueueInv(out')
  BY <1>3, <1>4, DataAlike, CountAlike DEF QueueInv
<1>6. PacketInv'
  BY <1>1, <1>2, <1>3, <1>4, QuietPackets
<1> QED BY <1>5, <1>6 DEF OutInv

\* Segments S leave the flight, to wait again or, when ok, to be confirmed.
LEMMA Landed ==
    ASSUME NEW s, QueueInv(s), ~s.pull.on, NEW S \in SUBSET s.inflight,
           NEW lo \in Nat, NEW hi \in Nat, lo <= hi, Bytes(S) = lo..(hi - 1),
           NEW d \in Queue,
           d.state = "RESET" <=> s.state = "RESET",
           d.state # "CONNECTED" => s.state # "CONNECTED",
           d.inflight = s.inflight \ S, d.inflightBytes = s.inflightBytes - (hi - lo),
           d.sendOffset = s.sendOffset, d.buffer = s.buffer, d.pull = s.pull,
           \/ /\ d.state # "RESET"
              /\ d.retransmit = s.retransmit \cup S
              /\ d.retransmitBytes = s.retransmitBytes + (hi - lo)
              /\ d.confirmed = s.confirmed
           \/ /\ d.retransmit = s.retransmit /\ d.retransmitBytes = s.retransmitBytes
              /\ \/ d.confirmed = s.confirmed \cup Bytes(S)
                 \/ d.confirmed = s.confirmed /\ d.state = "RESET"
    PROVE  QueueInv(d)
<1> DEFINE I == s.inflight
           R == s.retransmit
           J == s.inflight \ S
<1>1. /\ s \in Queue /\ I \in SUBSET Segment /\ R \in SUBSET Segment
      /\ S \in SUBSET Segment /\ J \in SUBSET Segment
      /\ s.inflightBytes \in Int /\ s.retransmitBytes \in Int /\ s.sendOffset \in Nat
      /\ s.confirmed \subseteq 0..MaxBytes
  <2>1. s \in Queue
    BY InvType
  <2> QED BY <2>1 DEF Queue
<1>2. s.pull = NoPull /\ NoPull.segments = {} /\ ~NoPull.on /\ NoPull.hi = 0 /\ NoPull.lo = 0
  BY DEF QueueInv, DataInv, Taken, NoPull
<1>3. /\ Apart(R \cup I) /\ R \cap I = {} /\ \A t \in R \cup I : t.hi <= s.sendOffset
      /\ Holds(s) = R \cup I
  <2>1. Holds(s) = R \cup I
    BY <1>2 DEF Holds
  <2> QED BY <2>1 DEF QueueInv, DataInv, Sorted
<1>4. /\ s.confirmed \subseteq 0..(s.sendOffset - 1) /\ Bytes(R \cup I) \cap s.confirmed = {}
      /\ s.state # "RESET" => 0..(s.sendOffset - 1) \subseteq Bytes(R \cup I) \cup s.confirmed
  BY <1>3 DEF QueueInv, DataInv, Found
<1>5. /\ s.sendOffset + s.buffer <= MaxBytes
      /\ s.state # "CONNECTED" => s.buffer = 0
      /\ s.state = "RESET" => R = {}
  BY DEF QueueInv, DataInv, Written, Fits
<1>6. Bytes(I) = Bytes(J) \cup Bytes(S) /\ Bytes(R \cup I) = Bytes(R \cup J) \cup Bytes(S)
  <2>1. I = J \cup S /\ R \cup I = (R \cup J) \cup S
    OBVIOUS
  <2> QED BY <2>1, BytesUnion
<1>7. Bytes(R \cup J) \cap Bytes(S) = {}
  <2>1. /\ (R \cup J) \cup S = R \cup I /\ (R \cup J) \cap S = {}
        /\ R \cup J \in SUBSET Segment
    BY <1>1, <1>3
  <2>2. Apart((R \cup J) \cup S)
    BY <2>1, <1>3
  <2> QED BY <2>1, <2>2, <1>1, BytesApart
<1>8. Taken(d)
  BY <1>2 DEF Taken
<1>9. ResetInCallback = FALSE =>
        /\ Cardinality(Bytes(I)) = Cardinality(Bytes(J)) + (hi - lo)
        /\ Cardinality(Bytes(R \cup S)) = Cardinality(Bytes(R)) + (hi - lo)
        /\ Cardinality(Bytes(J)) \in Nat /\ Cardinality(Bytes(R)) \in Nat
        /\ s.inflightBytes = Cardinality(Bytes(I))
        /\ s.retransmitBytes = Cardinality(Bytes(R))
        /\ hi - lo \in Nat
  <2>1. SUFFICES ASSUME ResetInCallback = FALSE
        PROVE  /\ Cardinality(Bytes(I)) = Cardinality(Bytes(J)) + (hi - lo)
               /\ Cardinality(Bytes(R \cup S)) = Cardinality(Bytes(R)) + (hi - lo)
               /\ Cardinality(Bytes(J)) \in Nat /\ Cardinality(Bytes(R)) \in Nat
               /\ s.inflightBytes = Cardinality(Bytes(I))
               /\ s.retransmitBytes = Cardinality(Bytes(R))
               /\ hi - lo \in Nat
    OBVIOUS
  <2>2. Cardinality(Bytes(J)) \in Nat /\ Cardinality(Bytes(R)) \in Nat
    BY BytesFinite
  <2>3. Cardinality(Bytes(S)) = hi - lo
    BY CardRange
  <2>4. Cardinality(Bytes(J \cup S)) = Cardinality(Bytes(J)) + Cardinality(Bytes(S))
    <3>1. Apart(J \cup S) /\ J \cap S = {}
      BY <1>3 DEF Apart
    <3> QED BY <3>1, <1>1, CardApart
  <2>5. Cardinality(Bytes(R \cup S)) = Cardinality(Bytes(R)) + Cardinality(Bytes(S))
    <3>1. Apart(R \cup S) /\ R \cap S = {}
      BY <1>3 DEF Apart
    <3> QED BY <3>1, <1>1, CardApart
  <2>6. /\ Cardinality(Bytes(I)) = Cardinality(Bytes(J)) + (hi - lo)
        /\ Cardinality(Bytes(R \cup S)) = Cardinality(Bytes(R)) + (hi - lo)
    <3>1. J \cup S = I
      OBVIOUS
    <3> HIDE DEF J, R, I
    <3> QED BY <3>1, <2>3, <2>4, <2>5
  <2>7. /\ s.inflightBytes = Cardinality(Bytes(I))
        /\ s.retransmitBytes = Cardinality(Bytes(R)) + (0 - 0)
    BY <2>1, <1>2 DEF QueueInv, CountInv
  <2> HIDE DEF J, R, I
  <2>8. s.retransmitBytes = Cardinality(Bytes(R))
    BY <2>2, <2>7
  <2>9. hi - lo \in Nat
    OBVIOUS
  <2> QED BY <2>2, <2>6, <2>7, <2>8, <2>9
<1>10. CASE /\ d.state # "RESET" /\ d.retransmit = R \cup S
            /\ d.retransmitBytes = s.retransmitBytes + (hi - lo)
            /\ d.confirmed = s.confirmed
  <2>1. Holds(d) = R \cup I
    BY <1>2, <1>10 DEF Holds
  <2>2. Sorted(d)
    BY <2>1, <1>2, <1>3, <1>10 DEF Sorted
  <2>3. Found(d) /\ Written(d)
    BY <2>1, <1>4, <1>5, <1>10 DEF Found, Written, Fits
  <2>4. CountInv(d)
    BY <1>2, <1>9, <1>10, <1>1 DEF CountInv
  <2> QED BY <2>2, <2>3, <2>4, <1>8 DEF QueueInv, DataInv
<1>11. CASE /\ d.retransmit = R /\ d.retransmitBytes = s.retransmitBytes
            /\ \/ d.confirmed = s.confirmed \cup Bytes(S)
               \/ d.confirmed = s.confirmed /\ d.state = "RESET"
  <2>1. Holds(d) = R \cup J
    BY <1>2, <1>11 DEF Holds
  <2>2. Sorted(d)
    <3>1. Apart(R \cup J) /\ \A t \in R \cup J : t.hi <= s.sendOffset
      BY <1>3 DEF Apart
    <3> QED BY <3>1, <2>1, <1>2, <1>3, <1>11 DEF Sorted
  <2>3. Bytes(S) \subseteq 0..(s.sendOffset - 1)
    <3>1. SUFFICES ASSUME NEW b \in Bytes(S) PROVE b \in 0..(s.sendOffset - 1)
      OBVIOUS
    <3>2. PICK t \in S : t.lo <= b /\ b < t.hi /\ b \in 0..MaxBytes
      BY <3>1 DEF Bytes
    <3>3. t.hi <= s.sendOffset /\ t.hi \in 0..MaxBytes
      BY <3>2, <1>1, <1>3, SegmentFields
    <3> QED BY <3>2, <3>3, <1>1, SegmentsAssumption
  <2>4. Found(d)
    <3>1. d.confirmed \subseteq 0..(s.sendOffset - 1)
      BY <2>3, <1>4, <1>11
    <3>2. Bytes(R \cup J) \cap d.confirmed = {}
      BY <1>4, <1>6, <1>7, <1>11
    <3>3. d.state # "RESET" => 0..(s.sendOffset - 1) \subseteq Bytes(R \cup J) \cup d.confirmed
      BY <1>4, <1>6, <1>11
    <3> QED BY <3>1, <3>2, <3>3, <2>1 DEF Found
  <2>5. Written(d)
    BY <1>5, <1>11 DEF Written, Fits
  <2>6. CountInv(d)
    <3>1. SUFFICES ASSUME ResetInCallback = FALSE PROVE CountInv(d)
      BY DEF CountInv
    <3>2. d.inflightBytes = Cardinality(Bytes(d.inflight))
      <4> HIDE DEF J, I
      <4> QED BY <1>9, <3>1 DEF J
    <3>3. d.retransmitBytes = Cardinality(Bytes(d.retransmit)) + (0 - 0)
      BY <1>9, <1>11, <3>1
    <3> QED BY <3>2, <3>3, <1>2 DEF CountInv
  <2> QED BY <2>2, <2>4, <2>5, <2>6, <1>8 DEF QueueInv, DataInv
<1> QED BY <1>10, <1>11

\* The queue after the fate of packet n is counted: AckData's state and counted.
AckState(n, ok) ==
    IF packets[n].eof /\ out.state \in Shutdowns \ {"SHUTDOWN_ACKD"}
    THEN IF ok THEN "SHUTDOWN_ACKD" ELSE "SHUTDOWN_RETRANSMIT"
    ELSE out.state

AckCounted(n, ok) ==
    LET p == packets[n]
        decided == [out EXCEPT !.state = AckState(n, ok), !.inflight = @ \ p.segments,
                               !.inflightBytes = @ - (p.hi - p.lo)]
    IN  IF ok THEN [decided EXCEPT !.bytesSent = @ + (p.hi - p.lo),
                                   !.confirmed = @ \cup Bytes(p.segments)]
        ELSE decided

AckAgain(n) ==
    [AckCounted(n, FALSE) EXCEPT
        !.retransmit = @ \cup packets[n].segments,
        !.retransmitBytes = @ + (packets[n].hi - packets[n].lo)]

\* How d stands to the queue when packet n landed.
Counts(n, d) ==
    /\ d.inflight = out.inflight \ packets[n].segments
    /\ d.inflightBytes = out.inflightBytes - (packets[n].hi - packets[n].lo)
    /\ d.sendOffset = out.sendOffset /\ d.buffer = out.buffer /\ d.pull = out.pull
    /\ d.rts = out.rts /\ d.complete = out.complete /\ d.shutdowner = out.shutdowner
    /\ d.barrier = out.barrier

LEMMA AckDataFields ==
    ASSUME OutInv, NEW n, NEW ok \in BOOLEAN, AckData(n, ok)
    PROVE  LET p == packets[n]
               S == packets[n].segments
               st == AckState(n, ok)
               counted == AckCounted(n, ok) IN
           /\ n \in undecided /\ ~out.pull.on /\ ~p.reset
           /\ undecided' = undecided \ {n} /\ UNCHANGED packets
           /\ p.lo \in Nat /\ p.hi \in Nat /\ p.lo <= p.hi /\ Bytes(S) = p.lo..(p.hi - 1)
           /\ S \in SUBSET out.inflight /\ S \in SUBSET Segment
           /\ st = "RESET" <=> out.state = "RESET"
           /\ st # "CONNECTED" <=> out.state # "CONNECTED"
           /\ st = "SHUTDOWN_RETRANSMIT" => ~ok \/ out.state = "SHUTDOWN_RETRANSMIT"
           /\ counted \in Queue /\ counted.state = st /\ Counts(n, counted)
           /\ counted.retransmit = out.retransmit
           /\ counted.retransmitBytes = out.retransmitBytes
           /\ ok => counted.confirmed = out.confirmed \cup Bytes(S)
           /\ ~ok => counted.confirmed = out.confirmed
           /\ \/ ok \/ st = "RESET"
              \/ /\ ~ok /\ st # "RESET" /\ AckAgain(n) \in Queue
                 /\ AckAgain(n).state = st /\ Counts(n, AckAgain(n))
                 /\ AckAgain(n).retransmit = out.retransmit \cup S
                 /\ AckAgain(n).retransmitBytes = out.retransmitBytes + (p.hi - p.lo)
                 /\ AckAgain(n).confirmed = out.confirmed
           /\ out' = IF ~ok /\ st # "RESET" THEN updateRTS(AckAgain(n))
                     ELSE checkDone(makeProgress(counted))
<1> DEFINE p   == packets[n]
           S   == packets[n].segments
           len == p.hi - p.lo
           st  == AckState(n, ok)
           decided == [out EXCEPT !.state = st, !.inflight = @ \ S,
                                  !.inflightBytes = @ - len]
           counted == AckCounted(n, ok)
           again   == AckAgain(n)
<1>1. out \in Queue /\ PacketInv
  BY InvType DEF OutInv
<1>2. /\ n \in undecided /\ ~out.pull.on /\ ~p.reset
      /\ out' = IF ~ok /\ st # "RESET" THEN updateRTS(again)
                ELSE checkDone(makeProgress(counted))
      /\ undecided' = undecided \ {n} /\ UNCHANGED packets
  <2>1. CASE ok
    BY <2>1 DEF AckData, AckState, AckCounted, Requeues
  <2>2. CASE ~ok
    <3>1. ok = FALSE
      BY <2>2
    <3> QED BY <3>1 DEF AckData, AckState, AckCounted, AckAgain, Requeues
  <2> QED BY <2>1, <2>2
<1>3. /\ p.lo \in Nat /\ p.hi \in Nat /\ p.lo <= p.hi /\ Bytes(S) = p.lo..(p.hi - 1)
      /\ S \in SUBSET out.inflight /\ S \in SUBSET Segment
  <2>1. n \in 1..Len(packets) /\ packets \in Seq(Packet)
    BY <1>1, <1>2 DEF PacketInv
  <2>2. p \in Packet
    BY <2>1
  <2>3. p.lo \in Nat /\ p.hi \in Nat /\ S \in SUBSET Segment
    BY <2>2, SegmentsAssumption DEF Packet
  <2>4. p.lo <= p.hi /\ Bytes(S) = p.lo..(p.hi - 1) /\ S \in SUBSET out.inflight
    BY <1>1, <1>2 DEF PacketInv
  <2> QED BY <2>3, <2>4
<1>4. /\ out.inflight \in SUBSET Segment /\ out.inflightBytes \in Int
      /\ out.retransmit \in SUBSET Segment /\ out.retransmitBytes \in Int
      /\ out.bytesSent \in Int /\ out.confirmed \subseteq 0..MaxBytes
      /\ out.inflight \ S \in SUBSET Segment /\ len \in Int
      /\ Bytes(S) \subseteq 0..MaxBytes
  BY <1>1, <1>3 DEF Queue, Bytes
<1>5. /\ st \in OutStates
      /\ st = "RESET" <=> out.state = "RESET"
      /\ st # "CONNECTED" <=> out.state # "CONNECTED"
      /\ st = "SHUTDOWN_RETRANSMIT" => ~ok \/ out.state = "SHUTDOWN_RETRANSMIT"
  BY <1>1 DEF AckState, Shutdowns, OutStates, Queue
<1> DEFINE Same(d) == d.rts = out.rts /\ d.complete = out.complete
                      /\ d.shutdowner = out.shutdowner /\ d.barrier = out.barrier
<1> HIDE DEF st, len, S
<1>6. /\ decided \in Queue /\ decided.state = st /\ decided.inflight = out.inflight \ S
      /\ decided.inflightBytes = out.inflightBytes - len
      /\ decided.sendOffset = out.sendOffset /\ decided.buffer = out.buffer
      /\ decided.pull = out.pull /\ decided.retransmit = out.retransmit
      /\ decided.retransmitBytes = out.retransmitBytes
      /\ decided.confirmed = out.confirmed /\ decided.bytesSent = out.bytesSent
      /\ Same(decided)
  <2> DEFINE i == out.inflight \ S
             ib == out.inflightBytes - len
  <2>1. i \in SUBSET Segment /\ ib \in Int
    BY <1>4
  <2>2. decided = [out EXCEPT !.state = st, !.inflight = i, !.inflightBytes = ib]
    BY <1>1 DEF Queue
  <2>3. decided \in Queue
    <3> HIDE DEF decided, i, ib
    <3> QED BY <2>1, <2>2, <1>1, <1>5 DEF Queue
  <2> QED BY <2>3, <1>1 DEF Queue
<1> HIDE DEF decided
<1>7. /\ counted \in Queue /\ counted.state = st /\ counted.inflight = out.inflight \ S
      /\ counted.inflightBytes = out.inflightBytes - len
      /\ counted.sendOffset = out.sendOffset /\ counted.buffer = out.buffer
      /\ counted.pull = out.pull /\ counted.retransmit = out.retransmit
      /\ counted.retransmitBytes = out.retransmitBytes
      /\ ok => counted.confirmed = out.confirmed \cup Bytes(S)
      /\ ~ok => counted.confirmed = out.confirmed
      /\ Same(counted)
  <2>1. CASE ok
    <3> DEFINE bs == out.bytesSent + len
               cf == out.confirmed \cup Bytes(S)
    <3>1. bs \in Int /\ cf \in SUBSET (0..MaxBytes)
      BY <1>4
    <3>2. counted = [decided EXCEPT !.bytesSent = bs, !.confirmed = cf]
      BY <2>1, <1>6 DEF AckCounted, decided, len, S, st
    <3>3. counted \in Queue
      <4> HIDE DEF counted, bs, cf
      <4> QED BY <3>1, <3>2, <1>6 DEF Queue
    <3> HIDE DEF counted, bs
    <3> QED BY <2>1, <3>2, <3>3, <1>6 DEF Queue
  <2>2. CASE ~ok
    <3>1. counted = decided
      BY <2>2 DEF AckCounted, decided, len, S, st
    <3> QED BY <2>2, <3>1, <1>6
  <2> QED BY <2>1, <2>2
<1> HIDE DEF counted
<1>8. ASSUME ~ok, st # "RESET"
      PROVE  /\ again \in Queue /\ again.state = st /\ again.inflight = out.inflight \ S
             /\ again.inflightBytes = out.inflightBytes - len
             /\ again.sendOffset = out.sendOffset /\ again.buffer = out.buffer
             /\ again.pull = out.pull /\ again.retransmit = out.retransmit \cup S
             /\ again.retransmitBytes = out.retransmitBytes + len
             /\ again.confirmed = out.confirmed /\ Same(again)
  <2> DEFINE r == out.retransmit \cup S
             rb == out.retransmitBytes + len
  <2>1. r \in SUBSET Segment /\ rb \in Int
    BY <1>3, <1>4
  <2>2. again = [counted EXCEPT !.retransmit = r, !.retransmitBytes = rb]
    <3>1. counted = AckCounted(n, FALSE)
      <4>1. ok = FALSE
        BY <1>8
      <4> QED BY <4>1 DEF counted
    <3>2. again = [AckCounted(n, FALSE) EXCEPT !.retransmit = @ \cup S,
                                               !.retransmitBytes = @ + len]
      BY DEF AckAgain, len, S
    <3>3. again = [counted EXCEPT !.retransmit = @ \cup S, !.retransmitBytes = @ + len]
      BY <3>1, <3>2
    <3> QED BY <3>3, <1>7 DEF Queue
  <2> HIDE DEF again
  <2>3. again \in Queue
    <3> HIDE DEF r, rb
    <3> QED BY <2>1, <2>2, <1>7 DEF Queue
  <2> QED BY <1>8, <2>2, <2>3, <1>7 DEF Queue
<1>9. Counts(n, counted)
  BY <1>7 DEF Counts, len, S
<1>10. ~ok /\ st # "RESET" => Counts(n, again)
  BY <1>8 DEF Counts, len, S
<1>11. \/ ok \/ st = "RESET"
       \/ /\ ~ok /\ st # "RESET" /\ again \in Queue /\ again.state = st /\ Counts(n, again)
          /\ again.retransmit = out.retransmit \cup S
          /\ again.retransmitBytes = out.retransmitBytes + len
          /\ again.confirmed = out.confirmed
  BY <1>8, <1>10
<1> HIDE DEF again
<1> QED BY <1>2, <1>3, <1>5, <1>7, <1>9, <1>11 DEF S, len, st, counted, again

LEMMA StepAckData ==
    ASSUME OutInv, NEW n, NEW ok \in BOOLEAN, AckData(n, ok) PROVE OutInv'
<1> DEFINE p == packets[n]
           S == packets[n].segments
           st == AckState(n, ok)
           counted == AckCounted(n, ok)
           again == AckAgain(n)
<1>1. QueueInv(out) /\ out \in Queue /\ PacketInv
  BY InvType DEF OutInv
<1>2. /\ n \in undecided /\ ~out.pull.on /\ undecided' = undecided \ {n} /\ UNCHANGED packets
      /\ p.lo \in Nat /\ p.hi \in Nat /\ p.lo <= p.hi /\ Bytes(S) = p.lo..(p.hi - 1)
      /\ S \in SUBSET out.inflight
      /\ st = "RESET" <=> out.state = "RESET"
      /\ st # "CONNECTED" => out.state # "CONNECTED"
  BY AckDataFields
<1>3. /\ counted \in Queue /\ counted.state = st /\ Counts(n, counted)
      /\ counted.retransmit = out.retransmit
      /\ counted.retransmitBytes = out.retransmitBytes
      /\ ok => counted.confirmed = out.confirmed \cup Bytes(S)
      /\ ~ok => counted.confirmed = out.confirmed
  BY AckDataFields
<1>4. out' = IF ~ok /\ st # "RESET" THEN updateRTS(again)
             ELSE checkDone(makeProgress(counted))
  BY AckDataFields
<1>5. \/ ok \/ st = "RESET"
      \/ /\ ~ok /\ st # "RESET" /\ again \in Queue /\ again.state = st /\ Counts(n, again)
         /\ again.retransmit = out.retransmit \cup S
         /\ again.retransmitBytes = out.retransmitBytes + (p.hi - p.lo)
         /\ again.confirmed = out.confirmed
  BY AckDataFields
<1> HIDE DEF p, S, st, counted, again
<1>6. CASE ~ok /\ st # "RESET"
  <2>1. QueueInv(again)
    BY <1>1, <1>2, <1>5, <1>6, Landed DEF Counts, S, p
  <2>2. QueueInv(updateRTS(again)) /\ updateRTS(again).inflight = again.inflight
    BY <1>5, <1>6, <2>1, InvUpdate, UpdateFields DEF Kept
  <2>3. PacketInv'
    <3>1. out'.inflight = out.inflight \ packets[n].segments
      BY <1>4, <1>5, <1>6, <2>2 DEF Counts
    <3> QED BY <3>1, <1>1, <1>2, DecidePackets
  <2> QED BY <1>4, <1>6, <2>2, <2>3 DEF OutInv
<1>7. CASE ok \/ st = "RESET"
  <2>1. QueueInv(counted)
    <3>1. \/ counted.confirmed = out.confirmed \cup Bytes(S)
          \/ counted.confirmed = out.confirmed /\ counted.state = "RESET"
      BY <1>3, <1>7
    <3> QED BY <3>1, <1>1, <1>2, <1>3, Landed DEF Counts, S, p
  <2> DEFINE m == makeProgress(counted)
  <2>2. QueueInv(m) /\ m.inflight = counted.inflight
    BY <2>1, InvProgress, ProgressInflight
  <2>3. out' = checkDone(m)
    BY <1>4, <1>7
  <2> HIDE DEF m
  <2>4. QueueInv(checkDone(m)) /\ checkDone(m).inflight = m.inflight
    BY <2>2, InvDone, InvType, DoneFields
  <2>5. PacketInv'
    <3>1. out'.inflight = out.inflight \ packets[n].segments
      BY <1>3, <2>2, <2>3, <2>4 DEF Counts
    <3> QED BY <3>1, <1>1, <1>2, DecidePackets
  <2> QED BY <2>3, <2>4, <2>5 DEF OutInv
<1> QED BY <1>6, <1>7

-----------------------------------------------------------------------------
(***************************************************************************)
(* The theorems about the bytes and their counters.                          *)
(***************************************************************************)
LEMMA StartsSound == OutInit => OutInv
<1> SUFFICES ASSUME OutInit PROVE OutInv
  OBVIOUS
<1>1. NoPull \in Pull
  BY SegmentsAssumption DEF NoPull, Pull
<1>2. out \in Queue
  <2>1. MinimumWindow \in Nat
    BY SegmentsAssumption
  <2> QED BY <1>1, <2>1 DEF OutInit, Queue, OutStates, Shutdowners
<1>3. /\ out.state = "CONNECTED" /\ out.inflight = {} /\ out.retransmit = {}
      /\ out.inflightBytes = 0 /\ out.retransmitBytes = 0 /\ out.sendOffset = 0
      /\ out.buffer = 0 /\ out.pull = NoPull /\ out.confirmed = {}
      /\ packets = <<>> /\ undecided = {}
  BY DEF OutInit
<1>4. NoPull.segments = {} /\ ~NoPull.on /\ NoPull.hi = 0 /\ NoPull.lo = 0
  BY DEF NoPull
<1>5. Sorted(out) /\ Taken(out)
  BY <1>3, <1>4 DEF Sorted, Apart, Taken, Holds
<1>6. Found(out)
  <2>1. Holds(out) = {} /\ 0..(0 - 1) = {}
    BY <1>3, <1>4 DEF Holds
  <2> QED BY <2>1, <1>3, BytesNone DEF Found
<1>7. Written(out)
  BY <1>3, SegmentsAssumption DEF Written, Fits
<1>8. CountInv(out)
  <2>1. Cardinality(Bytes({})) = 0
    BY BytesNone, FS_EmptySet
  <2> QED BY <2>1, <1>3, <1>4 DEF CountInv
<1>9. PacketInv
  BY <1>3 DEF PacketInv
<1> QED BY <1>2, <1>5, <1>6, <1>7, <1>8, <1>9 DEF OutInv, QueueInv, DataInv

LEMMA Steps ==
    ASSUME OutInv, [OutNext]_outVars PROVE OutInv'
<1>1. CASE \E n \in Writes : Write(n)
  BY <1>1, StepWrite
<1>2. CASE Shutdown
  BY <1>2, StepShutdown
<1>3. CASE Reset
  BY <1>3, StepReset
<1>4. CASE SetPriority
  BY <1>4, StepSetPriority
<1>5. CASE PullReset
  BY <1>5, StepPullReset
<1>6. CASE PullBegin
  BY <1>6, StepPullBegin
<1>7. CASE PullSegment
  BY <1>7, StepPullSegment
<1>8. CASE PullEnd
  BY <1>8, StepPullEnd
<1>9. CASE \E n \in undecided, ok \in BOOLEAN : AckReset(n, ok)
  BY <1>9, StepAckReset
<1>10. CASE \E n \in undecided, ok \in BOOLEAN : AckData(n, ok)
  BY <1>10, StepAckData
<1>11. CASE \E b \in 0..(MaxBytes + SillyWindow + 1) : RecvBarrier(b)
  <2>1. 0..(MaxBytes + SillyWindow + 1) \subseteq Nat
    BY SegmentsAssumption, OutStreamAssumption
  <2> QED BY <2>1, <1>11, StepRecvBarrier
<1>12. CASE RecvReaderResets
  BY <1>12, StepRecvReaderResets
<1>13. CASE UNCHANGED outVars
  <2>1. out' = out /\ UNCHANGED <<packets, undecided>>
    BY <1>13 DEF outVars
  <2>2. PacketInv'
    BY <2>1, QuietPackets DEF OutInv
  <2> QED BY <2>1, <2>2 DEF OutInv
<1> QED
  BY <1>1, <1>2, <1>3, <1>4, <1>5, <1>6, <1>7, <1>8, <1>9, <1>10, <1>11, <1>12, <1>13
  DEF OutNext, Application, Pulling, Acks

\* The inductive invariant: of the queue (what is where, and in what state of the
\* stream), of the packets and their closures, and of the two counters.
THEOREM OutSound == OutSpec => []OutInv
<1>1. OutInit => OutInv
  BY StartsSound
<1>2. OutInv /\ [OutNext]_outVars => OutInv'
  BY Steps
<1> QED BY <1>1, <1>2, PTL DEF OutSpec

\* Splitting, joining and requeueing segments neither lose nor double a byte of
\* the stream, whatever is lost, acknowledged, written or closed meanwhile.
THEOREM BytesAreSomewhere == OutSpec => []NoByteLost
<1>1. OutInv => NoByteLost
  <2> SUFFICES ASSUME OutInv, out.state # "RESET" PROVE NoByteLost
    BY DEF NoByteLost
  <2>1. Sorted(out) /\ Found(out)
    BY DEF OutInv, QueueInv, DataInv
  <2>2. Held = Holds(out)
    BY DEF Held, Holds
  <2>3. Bytes(Held) \cup out.confirmed = 0..(out.sendOffset - 1)
    <3>1. Bytes(Held) \subseteq 0..(out.sendOffset - 1)
      <4>1. SUFFICES ASSUME NEW b \in Bytes(Held) PROVE b \in 0..(out.sendOffset - 1)
        OBVIOUS
      <4>2. PICK t \in Held : t.lo <= b /\ b < t.hi /\ b \in 0..MaxBytes
        BY <4>1 DEF Bytes
      <4>3. t \in Segment
        <5>1. out \in Queue
          BY InvType DEF OutInv
        <5> QED BY <5>1 DEF Held, Queue, Pull
      <4>4. t.hi <= out.sendOffset /\ t.hi \in 0..MaxBytes /\ out.sendOffset \in Nat
        <5>1. out \in Queue
          BY InvType DEF OutInv
        <5>2. t.hi <= out.sendOffset
          BY <2>1, <2>2, <4>2 DEF Sorted
        <5> QED BY <5>1, <5>2, <4>3, SegmentFields DEF Queue
      <4> QED BY <4>2, <4>4, SegmentsAssumption
    <3> QED BY <3>1, <2>1, <2>2 DEF Found
  <2> QED BY <2>1, <2>2, <2>3 DEF NoByteLost, Sorted, Found, Apart, Holds, Held
<1> QED BY <1>1, OutSound, PTL

\* An application that does not reset a stream in the middle of its pull: then the
\* counters are the lengths of what they count, between any two calls.
THEOREM CountersExact ==
    ASSUME ResetInCallback = FALSE PROVE OutSpec => []Accounting
<1>1. OutInv => Accounting
  <2> SUFFICES ASSUME OutInv, ~out.pull.on PROVE Accounting
    BY DEF Accounting
  <2>1. out.pull = NoPull /\ out \in Queue
    BY InvType DEF OutInv, QueueInv, DataInv, Taken
  <2>2. /\ out.inflightBytes = Cardinality(Bytes(out.inflight))
        /\ out.retransmitBytes = Cardinality(Bytes(out.retransmit)) + (0 - 0)
    BY <2>1 DEF OutInv, QueueInv, CountInv, NoPull
  <2>3. Cardinality(Bytes(out.retransmit)) \in Nat
    BY BytesFinite
  <2>4. out.retransmitBytes = Cardinality(Bytes(out.retransmit))
    BY <2>2, <2>3
  <2> QED BY <2>2, <2>4 DEF Accounting
<1> QED BY <1>1, OutSound, PTL

-----------------------------------------------------------------------------
(***************************************************************************)
(* What HostDispatch and the shutdown callback are told.                     *)
(***************************************************************************)

\* A write waits behind a segment.
Behind(s) == s.buffer > 0 => s.retransmit # {}

\* true was told of a stream whose bytes were all acked, and that gets no more.
Heard(s) ==
    s.shutdowner = "true" => s.state # "CONNECTED" /\ s.confirmed = 0..(s.sendOffset - 1)

\* HostDispatch knows, or may not yet know, because a pull goes on.
Woken(s) == ~s.complete /\ ~s.pull.on /\ amRTS(s) => s.rts

ResetUndecided == out.state = "RESET" /\ \E n \in undecided : packets[n].reset

ToldInv == Heard(out) /\ Behind(out) /\ (Woken(out) \/ ResetUndecided)

LEMMA UpdateTells ==
    ASSUME NEW s \in Queue, Heard(s), Behind(s)
    PROVE  Heard(updateRTS(s)) /\ Behind(updateRTS(s)) /\ Woken(updateRTS(s))
BY UpdateFields DEF Heard, Behind, Woken, Kept, Waits

LEMMA ProgressTells ==
    ASSUME NEW s \in Queue, Written(s), Heard(s)
    PROVE  LET d == makeProgress(s) IN
           /\ d \in Queue /\ Kept(s, d) /\ Heard(d) /\ Behind(d)
           /\ Woken(d) \/ (d = s /\ s.retransmit = {})
<1> DEFINE d == makeProgress(s)
<1>1. /\ d \in Queue /\ Kept(s, d)
      /\ \/ Progresses(s) /\ Moves(s, d) /\ d.rts = amRTS(d)
         \/ ~Progresses(s) /\ Waits(s, d) /\ d.rts = amRTS(d)
         \/ ~Progresses(s) /\ d = s /\ s.retransmit = {} /\ s.buffer = 0
  BY ProgressFields DEF Written
<1>2. CASE Progresses(s) /\ Moves(s, d) /\ d.rts = amRTS(d)
  <2>1. s.shutdowner # "true"
    BY <1>2 DEF Progresses, Written, Heard
  <2> QED BY <2>1, <1>1, <1>2 DEF Heard, Behind, Woken, Moves, Kept
<1>3. CASE ~Progresses(s) /\ Waits(s, d) /\ d.rts = amRTS(d)
  BY <1>1, <1>3 DEF Heard, Behind, Woken, Waits, Kept, Progresses
<1>4. CASE d = s /\ s.retransmit = {} /\ s.buffer = 0
  BY <1>1, <1>4 DEF Behind
<1> QED BY <1>1, <1>2, <1>3, <1>4 DEF d

LEMMA ToldWrite ==
    ASSUME OutInv, ToldInv, NEW n \in Writes, Write(n) PROVE ToldInv'
<1> DEFINE t == [out EXCEPT !.buffer = n]
<1>1. out \in Queue /\ n \in Nat /\ n > 0
  BY InvType, OutStreamAssumption DEF OutInv
<1>2. /\ out.state = "CONNECTED" /\ out.sendOffset + n <= MaxBytes
      /\ out' = makeProgress(t) /\ UNCHANGED <<packets, undecided>>
  BY DEF Write
<1>3. t \in Queue
  BY <1>1 DEF Queue
<1>4. /\ t.buffer = n /\ t.state = out.state /\ t.retransmit = out.retransmit
      /\ t.sendOffset = out.sendOffset /\ t.confirmed = out.confirmed
      /\ t.shutdowner = out.shutdowner
  BY <1>1 DEF Queue
<1> HIDE DEF t
<1>5. Written(t) /\ Heard(t)
  BY <1>2, <1>4 DEF Written, Fits, Heard, ToldInv
<1>6. Heard(out') /\ Behind(out') /\ (Woken(out') \/ (out' = t /\ t.retransmit = {}))
  BY <1>2, <1>3, <1>5, ProgressTells
<1>7. out' = t /\ t.retransmit = {} => Woken(out')
  BY <1>2, <1>4 DEF Woken, amRTS
<1> QED BY <1>6, <1>7 DEF ToldInv

LEMMA ToldShutdown ==
    ASSUME OutInv, ToldInv, Shutdown PROVE ToldInv'
<1> DEFINE t == [out EXCEPT !.state = "SHUTDOWN_RETRANSMIT", !.shutdowner = "pending"]
<1>1. out \in Queue /\ out' = updateRTS(t) /\ out.buffer = 0
  BY InvType DEF OutInv, Shutdown
<1>2. t \in Queue /\ t.shutdowner = "pending" /\ t.buffer = 0
  BY <1>1 DEF Queue, OutStates, Shutdowners
<1> HIDE DEF t
<1>3. Heard(t) /\ Behind(t)
  BY <1>2 DEF Heard, Behind
<1> QED BY <1>1, <1>2, <1>3, UpdateTells DEF ToldInv

LEMMA ResetTells ==
    ASSUME NEW s \in Queue, Heard(s) PROVE Heard(doReset(s)) /\ Behind(doReset(s))
<1>1. LET d == doReset(s) IN
      /\ d.state = "RESET" /\ d.buffer = 0 /\ d.sendOffset = s.sendOffset
      /\ d.confirmed = s.confirmed
      /\ d.shutdowner = IF s.shutdowner = "pending" THEN "false" ELSE s.shutdowner
  BY ResetFields
<1> QED BY <1>1 DEF Heard, Behind

LEMMA ToldReset ==
    ASSUME OutInv, ToldInv, Reset PROVE ToldInv'
<1>1. out \in Queue /\ out' = updateRTS(doReset(out)) /\ Heard(out)
  BY InvType DEF OutInv, ToldInv, Reset
<1>2. doReset(out) \in Queue /\ Heard(doReset(out)) /\ Behind(doReset(out))
  BY <1>1, ResetFields, ResetTells
<1> QED BY <1>1, <1>2, UpdateTells DEF ToldInv

LEMMA ToldSetPriority ==
    ASSUME OutInv, ToldInv, SetPriority PROVE ToldInv'
<1>1. out \in Queue /\ out' = updateRTS(out) /\ Heard(out) /\ Behind(out)
  BY InvType DEF OutInv, ToldInv, SetPriority
<1> QED BY <1>1, UpdateTells DEF ToldInv

\* The reset that is sent is told of when its fate is.
LEMMA ToldPullReset ==
    ASSUME OutInv, ToldInv, PullReset PROVE ToldInv'
<1> DEFINE packet == [reset |-> TRUE, lo |-> 0, hi |-> 0, segments |-> {}, eof |-> FALSE]
           l == Len(packets)
<1>1. out \in Queue /\ packets \in Seq(Packet) /\ Heard(out) /\ Behind(out)
  BY InvType DEF OutInv, PacketInv, ToldInv
<1>2. /\ out' = [out EXCEPT !.rts = FALSE] /\ out.state = "RESET"
      /\ packets' = Append(packets, packet) /\ undecided' = undecided \cup {l + 1}
  BY DEF PullReset, Send
<1>3. /\ out'.state = "RESET" /\ out'.shutdowner = out.shutdowner
      /\ out'.confirmed = out.confirmed /\ out'.sendOffset = out.sendOffset
      /\ out'.buffer = out.buffer /\ out'.retransmit = out.retransmit
  BY <1>1, <1>2 DEF Queue
<1>4. Heard(out') /\ Behind(out')
  BY <1>1, <1>2, <1>3 DEF Heard, Behind
<1>5. packets'[l + 1].reset /\ l + 1 \in undecided'
  <2>1. packets'[l + 1] = packet
    BY <1>1, <1>2
  <2> QED BY <2>1, <1>2
<1> QED BY <1>3, <1>4, <1>5 DEF ToldInv, ResetUndecided

LEMMA ToldPullBegin ==
    ASSUME OutInv, ToldInv, PullBegin PROVE ToldInv'
<1>1. out \in Queue /\ Heard(out) /\ Behind(out)
  BY InvType DEF OutInv, ToldInv
<1>2. /\ out'.pull.on /\ out'.state = out.state /\ out'.shutdowner = out.shutdowner
      /\ out'.confirmed = out.confirmed /\ out'.sendOffset = out.sendOffset
      /\ out'.buffer = out.buffer /\ out'.retransmit = out.retransmit
  BY <1>1 DEF PullBegin, Queue
<1> QED BY <1>1, <1>2 DEF ToldInv, Heard, Behind, Woken

LEMMA ToldPullSegment ==
    ASSUME OutInv, ToldInv, PullSegment PROVE ToldInv'
<1> DEFINE g    == First(out.retransmit)
           rest == out.retransmit \ {g}
           w    == [out EXCEPT !.retransmit = rest]
           d    == makeProgress(w)
<1>1. out \in Queue /\ out' \in Queue /\ Heard(out) /\ Behind(out) /\ Written(out)
  <2>1. OutInv'
    BY StepPullSegment
  <2>2. QueueInv(out')
    BY <2>1 DEF OutInv
  <2> QED BY <2>2, InvType DEF OutInv, ToldInv, QueueInv, DataInv
<1>2. out.retransmit \in SUBSET Segment /\ out.pull.on /\ out.pull \in Pull
  BY <1>1 DEF Queue, PullSegment
<1>3. CASE Length(g) <= Room
  <2>1. out' = [d EXCEPT !.pull.hi = @ + Length(g), !.pull.segments = @ \cup {g},
                         !.pull.callback = Progresses(w)]
    BY <1>3 DEF PullSegment
  <2>2. w \in Queue
    <3>1. rest \in SUBSET Segment
      BY <1>2
    <3> QED BY <3>1, <1>1 DEF Queue
  <2>3. /\ w.retransmit = rest /\ w.state = out.state /\ w.pull = out.pull
        /\ w.sendOffset = out.sendOffset /\ w.buffer = out.buffer
        /\ w.confirmed = out.confirmed /\ w.shutdowner = out.shutdowner
    BY <1>1 DEF Queue
  <2> HIDE DEF w, g
  <2>4. Written(w) /\ Heard(w)
    BY <1>1, <2>3 DEF Written, Fits, Heard
  <2>5. d \in Queue /\ Kept(w, d) /\ Heard(d) /\ Behind(d)
    BY <2>2, <2>4, ProgressTells
  <2> HIDE DEF d
  <2>6. /\ out'.pull.on /\ out'.state = d.state /\ out'.shutdowner = d.shutdowner
        /\ out'.confirmed = d.confirmed /\ out'.sendOffset = d.sendOffset
        /\ out'.buffer = d.buffer /\ out'.retransmit = d.retransmit
    <3>1. d.pull = out.pull
      BY <2>3, <2>5 DEF Kept
    <3> QED BY <3>1, <2>1, <2>5, <1>2 DEF Queue, Pull
  <2> QED BY <2>5, <2>6 DEF ToldInv, Heard, Behind, Woken
<1>4. CASE ~(Length(g) <= Room)
  <2>1. PICK tail, head, end : out' = [out EXCEPT !.retransmit = rest \cup {tail},
                                  !.pull.hi = end, !.pull.segments = @ \cup {head},
                                  !.pull.callback = FALSE]
    BY <1>4 DEF PullSegment
  <2>2. /\ out'.pull.on /\ out'.state = out.state /\ out'.shutdowner = out.shutdowner
        /\ out'.confirmed = out.confirmed /\ out'.sendOffset = out.sendOffset
        /\ out'.retransmit # {}
    BY <2>1, <1>1, <1>2 DEF Queue, Pull
  <2> QED BY <2>2, <1>1 DEF ToldInv, Heard, Behind, Woken
<1> QED BY <1>3, <1>4

LEMMA ToldPullEnd ==
    ASSUME OutInv, ToldInv, PullEnd PROVE ToldInv'
<1>1. out \in Queue /\ Heard(out) /\ Behind(out) /\ out' \in Queue
  <2>1. OutInv'
    BY StepPullEnd
  <2>2. QueueInv(out')
    BY <2>1 DEF OutInv
  <2> QED BY <2>2, InvType DEF OutInv, ToldInv
<1>2. PICK t : /\ out' = updateRTS(t)
               /\ t = [out EXCEPT !.state = IF AttachEOF THEN "SHUTDOWN_INFLIGHT" ELSE @,
                          !.inflight = @ \cup out.pull.segments,
                          !.inflightBytes = @ + (out.pull.hi - out.pull.lo),
                          !.retransmitBytes = @ - (out.pull.hi - out.pull.lo),
                          !.pull = NoPull]
  BY DEF PullEnd
<1>3. /\ t.state = out.state \/ t.state = "SHUTDOWN_INFLIGHT"
      /\ t.shutdowner = out.shutdowner
      /\ t.confirmed = out.confirmed /\ t.sendOffset = out.sendOffset
      /\ t.buffer = out.buffer /\ t.retransmit = out.retransmit
  BY <1>1, <1>2 DEF Queue
<1>4. /\ out'.state = t.state /\ out'.shutdowner = t.shutdowner
      /\ out'.confirmed = t.confirmed /\ out'.sendOffset = t.sendOffset
      /\ out'.buffer = t.buffer /\ out'.retransmit = t.retransmit
      /\ out'.barrier = t.barrier /\ out'.rts = amRTS(t)
  BY <1>1, <1>2 DEF Queue, updateRTS
<1>5. amRTS(out') = amRTS(t)
  BY <1>4 DEF amRTS
<1> QED BY <1>1, <1>3, <1>4, <1>5 DEF ToldInv, Heard, Behind, Woken

LEMMA ToldRecvBarrier ==
    ASSUME OutInv, ToldInv, NEW b \in Nat, RecvBarrier(b) PROVE ToldInv'
<1> DEFINE t == [out EXCEPT !.barrier = b]
<1>1. out \in Queue /\ Heard(out) /\ Written(out)
  BY InvType DEF OutInv, ToldInv, QueueInv, DataInv
<1>2. /\ out' = makeProgress(t) /\ UNCHANGED <<packets, undecided>>
  BY DEF RecvBarrier
<1>3. /\ t \in Queue /\ Waits(out, t) /\ t.state = out.state
      /\ t.pull = out.pull /\ t.confirmed = out.confirmed
      /\ t.shutdowner = out.shutdowner /\ t.complete = out.complete /\ t.rts = out.rts
  BY <1>1 DEF Queue, Waits
<1> HIDE DEF t
<1>4. Written(t) /\ Heard(t)
  BY <1>1, <1>3 DEF Waits, Written, Fits, Heard
<1>5. Heard(out') /\ Behind(out') /\ (Woken(out') \/ (out' = t /\ t.retransmit = {}))
  BY <1>2, <1>3, <1>4, ProgressTells
<1>6. out' = t /\ t.retransmit = {} => Woken(out') \/ ResetUndecided'
  <2>1. SUFFICES ASSUME out' = t, t.retransmit = {} PROVE Woken(out') \/ ResetUndecided'
    OBVIOUS
  <2>2. CASE Woken(out)
    BY <2>1, <2>2, <1>3 DEF Woken, amRTS, Waits
  <2>3. CASE ResetUndecided
    BY <2>1, <2>3, <1>2, <1>3 DEF ResetUndecided
  <2> QED BY <2>2, <2>3 DEF ToldInv
<1> QED BY <1>5, <1>6 DEF ToldInv

LEMMA ToldRecvReaderResets ==
    ASSUME OutInv, ToldInv, RecvReaderResets PROVE ToldInv'
<1> DEFINE t == doReset(out)
<1>1. out \in Queue /\ out' = [t EXCEPT !.complete = TRUE] /\ Heard(out)
  BY InvType DEF OutInv, ToldInv, RecvReaderResets
<1>2. t \in Queue /\ Heard(t) /\ Behind(t)
  BY <1>1, ResetFields, ResetTells
<1> HIDE DEF t
<1>3. /\ out'.complete /\ out'.state = t.state /\ out'.shutdowner = t.shutdowner
      /\ out'.confirmed = t.confirmed /\ out'.sendOffset = t.sendOffset
      /\ out'.buffer = t.buffer /\ out'.retransmit = t.retransmit
  BY <1>1, <1>2 DEF Queue
<1> QED BY <1>2, <1>3 DEF ToldInv, Heard, Behind, Woken

LEMMA ToldAckReset ==
    ASSUME OutInv, ToldInv, NEW n, NEW ok, AckReset(n, ok) PROVE ToldInv'
<1>1. out \in Queue /\ Heard(out) /\ Behind(out)
  BY InvType DEF OutInv, ToldInv
<1>2. out' = [out EXCEPT !.complete = TRUE] \/ out' = [out EXCEPT !.rts = TRUE]
  BY DEF AckReset
<1>3. /\ out'.complete \/ out'.rts
      /\ out'.state = out.state /\ out'.shutdowner = out.shutdowner
      /\ out'.confirmed = out.confirmed /\ out'.sendOffset = out.sendOffset
      /\ out'.buffer = out.buffer /\ out'.retransmit = out.retransmit
  BY <1>1, <1>2 DEF Queue
<1> QED BY <1>1, <1>3 DEF ToldInv, Heard, Behind, Woken

\* A packet acked without its bytes waiting again: what is done is told, and a reset
\* that is still undecided is not this packet.
LEMMA ToldAckData ==
    ASSUME OutInv, ToldInv, NEW n, NEW ok \in BOOLEAN, AckData(n, ok) PROVE ToldInv'
<1> DEFINE S == packets[n].segments
           st == AckState(n, ok)
           counted == AckCounted(n, ok)
           again == AckAgain(n)
<1>1. /\ out \in Queue /\ Heard(out) /\ Behind(out) /\ Written(out) /\ Found(out)
      /\ out.confirmed \subseteq 0..(out.sendOffset - 1)
  BY InvType DEF OutInv, ToldInv, QueueInv, DataInv, Found
<1>2. OutInv' /\ QueueInv(out')
  <2>1. OutInv'
    BY StepAckData
  <2> QED BY <2>1 DEF OutInv
<1>3. /\ ~out.pull.on /\ ~packets[n].reset /\ undecided' = undecided \ {n} /\ UNCHANGED packets
      /\ st = "RESET" <=> out.state = "RESET"
      /\ st # "CONNECTED" <=> out.state # "CONNECTED"
      /\ st = "SHUTDOWN_RETRANSMIT" => ~ok \/ out.state = "SHUTDOWN_RETRANSMIT"
  BY AckDataFields
<1>4. /\ counted \in Queue /\ counted.state = st /\ Counts(n, counted)
      /\ counted.retransmit = out.retransmit
      /\ ok => counted.confirmed = out.confirmed \cup Bytes(S)
      /\ ~ok => counted.confirmed = out.confirmed
  BY AckDataFields
<1>5. out' = IF ~ok /\ st # "RESET" THEN updateRTS(again)
             ELSE checkDone(makeProgress(counted))
  BY AckDataFields
<1>6. \/ ok \/ st = "RESET"
      \/ /\ ~ok /\ st # "RESET" /\ again \in Queue /\ again.state = st /\ Counts(n, again)
         /\ again.retransmit = out.retransmit \cup S
         /\ again.confirmed = out.confirmed
  BY AckDataFields
<1> HIDE DEF S, st, counted, again
<1>7. CASE ~ok /\ st # "RESET"
  <2>1. Heard(again) /\ Behind(again)
    BY <1>1, <1>3, <1>6, <1>7 DEF Heard, Behind, Counts
  <2> QED BY <2>1, <1>5, <1>6, <1>7, UpdateTells DEF ToldInv
<1>8. CASE ok \/ st = "RESET"
  <2> DEFINE m == makeProgress(counted)
  <2>1. Heard(counted)
    <3>1. SUFFICES ASSUME out.shutdowner = "true"
          PROVE  st # "CONNECTED" /\ counted.confirmed = 0..(out.sendOffset - 1)
      BY <1>4 DEF Heard, Counts
    <3>2. out.state # "CONNECTED" /\ out.confirmed = 0..(out.sendOffset - 1)
      BY <1>1, <3>1 DEF Heard
    <3>3. Bytes(S) \subseteq out.confirmed
      <4>1. ASSUME NEW b \in Bytes(S) PROVE b \in 0..(out.sendOffset - 1)
        <5>1. S \in SUBSET out.inflight /\ S \in SUBSET Segment
          BY AckDataFields DEF S
        <5>2. PICK t \in S : t.lo <= b /\ b < t.hi /\ b \in 0..MaxBytes
          BY <4>1 DEF Bytes
        <5>3. t.hi <= out.sendOffset
          BY <5>1, <5>2 DEF OutInv, QueueInv, DataInv, Sorted, Holds
        <5>4. t.hi \in 0..MaxBytes /\ out.sendOffset \in Nat
          BY <5>1, <5>2, <1>1, SegmentFields DEF Queue
        <5> QED BY <5>2, <5>3, <5>4, SegmentsAssumption
      <4> QED BY <4>1, <3>2
    <3>4. counted.confirmed = out.confirmed
      BY <3>3, <1>4
    <3> QED BY <3>2, <3>4, <1>3
  <2>2. Written(counted)
    BY <1>1, <1>3, <1>4 DEF Written, Fits, Counts
  <2>3. /\ m \in Queue /\ Kept(counted, m) /\ Heard(m) /\ Behind(m)
        /\ Woken(m) \/ (m = counted /\ counted.retransmit = {})
    BY <2>1, <2>2, <1>4, ProgressTells
  <2>4. out' = checkDone(m)
    BY <1>5, <1>8
  <2> HIDE DEF m
  <2>5. /\ out' \in Queue /\ Waits(m, out') /\ out'.rts = m.rts
        /\ out'.state = m.state /\ out'.inflight = m.inflight
        /\ out'.pull = m.pull /\ out'.confirmed = m.confirmed /\ out'.barrier = m.barrier
        /\ \/ out'.complete = m.complete /\ out'.shutdowner = m.shutdowner
           \/ out'.complete = TRUE /\ amDone(m)
    BY <2>3, <2>4, DoneFields
  <2>6. Behind(out')
    BY <2>3, <2>5 DEF Behind, Waits
  <2>7. Heard(out')
    <3>1. CASE out'.shutdowner = m.shutdowner
      BY <3>1, <2>3, <2>5 DEF Heard, Waits
    <3>2. CASE amDone(m)
      <4>1. /\ out'.state = "SHUTDOWN_ACKD" /\ out'.inflight = {} /\ out'.retransmit = {}
            /\ out'.pull.segments = {}
        <5>1. out'.pull = NoPull
          BY <1>2, <1>3, <1>4, <2>3, <2>5 DEF Counts, Kept, QueueInv, DataInv, Taken
        <5> QED BY <5>1, <3>2, <2>5 DEF amDone, Waits, NoPull
      <4>2. Holds(out') = {}
        BY <4>1 DEF Holds
      <4>3. out'.confirmed = 0..(out'.sendOffset - 1)
        BY <1>2, <4>1, <4>2, BytesNone DEF QueueInv, DataInv, Found
      <4> QED BY <4>1, <4>3 DEF Heard
    <3> QED BY <2>5, <3>1, <3>2
  <2>8. Woken(out') \/ ResetUndecided'
    <3>1. amRTS(out') = amRTS(m)
      BY <2>5 DEF amRTS, Waits
    <3>2. CASE Woken(m)
      BY <3>1, <3>2, <2>5 DEF Woken
    <3>3. CASE m = counted /\ counted.retransmit = {} /\ ~Woken(m)
      <4>1. /\ ~out.complete /\ ~out.rts /\ st \in {"RESET", "SHUTDOWN_RETRANSMIT"}
            /\ ~out.pull.on
        BY <3>3, <1>4 DEF Woken, Counts, amRTS
      <4>2. out.state = "RESET" \/ out.state = "SHUTDOWN_RETRANSMIT"
        BY <4>1, <1>3, <1>8
      <4>3. amRTS(out)
        BY <4>2 DEF amRTS
      <4>4. ResetUndecided
        BY <4>1, <4>3 DEF ToldInv, Woken
      <4>5. out'.state = "RESET"
        BY <4>4, <3>3, <2>5, <1>3, <1>4 DEF ResetUndecided
      <4>6. \E k \in undecided' : packets'[k].reset
        BY <4>4, <1>3 DEF ResetUndecided
      <4> QED BY <4>5, <4>6 DEF ResetUndecided
    <3> QED BY <2>3, <3>2, <3>3
  <2> QED BY <2>6, <2>7, <2>8 DEF ToldInv
<1> QED BY <1>6, <1>7, <1>8

LEMMA ToldSteps ==
    ASSUME OutInv, ToldInv, [OutNext]_outVars PROVE ToldInv'
<1>1. CASE \E n \in Writes : Write(n)
  BY <1>1, ToldWrite
<1>2. CASE Shutdown
  BY <1>2, ToldShutdown
<1>3. CASE Reset
  BY <1>3, ToldReset
<1>4. CASE SetPriority
  BY <1>4, ToldSetPriority
<1>5. CASE PullReset
  BY <1>5, ToldPullReset
<1>6. CASE PullBegin
  BY <1>6, ToldPullBegin
<1>7. CASE PullSegment
  BY <1>7, ToldPullSegment
<1>8. CASE PullEnd
  BY <1>8, ToldPullEnd
<1>9. CASE \E n \in undecided, ok \in BOOLEAN : AckReset(n, ok)
  BY <1>9, ToldAckReset
<1>10. CASE \E n \in undecided, ok \in BOOLEAN : AckData(n, ok)
  BY <1>10, ToldAckData
<1>11. CASE \E b \in 0..(MaxBytes + SillyWindow + 1) : RecvBarrier(b)
  <2>1. 0..(MaxBytes + SillyWindow + 1) \subseteq Nat
    BY SegmentsAssumption, OutStreamAssumption
  <2> QED BY <2>1, <1>11, ToldRecvBarrier
<1>12. CASE RecvReaderResets
  BY <1>12, ToldRecvReaderResets
<1>13. CASE UNCHANGED outVars
  BY <1>13 DEF outVars, ToldInv, ResetUndecided, Heard, Behind, Woken, amRTS
<1> QED
  BY <1>1, <1>2, <1>3, <1>4, <1>5, <1>6, <1>7, <1>8, <1>9, <1>10, <1>11, <1>12, <1>13
  DEF OutNext, Application, Pulling, Acks

\* What HostDispatch and the application were told is up to date, between any two
\* steps of a handler: the second inductive invariant, which rests on the first.
THEOREM OutTold == OutSpec => []ToldInv
<1>1. OutInit => ToldInv
  BY DEF OutInit, ToldInv, Heard, Behind, Woken, amRTS, NoPull
<1>2. OutInv /\ ToldInv /\ [OutNext]_outVars => ToldInv'
  BY ToldSteps
<1> QED BY <1>1, <1>2, OutSound, PTL DEF OutSpec

\* A stream with something to send that the reader's barrier admits is never left out
\* of HostDispatch's queue, except while the fate of its reset is open.
THEOREM AlwaysWoken == OutSpec => []NoLostWakeup
<1>1. ToldInv => NoLostWakeup
  BY DEF ToldInv, Woken, ResetUndecided, NoLostWakeup
<1> QED BY <1>1, OutTold, PTL

\* A write is never left behind in an empty queue.
THEOREM WritesMoveOn == OutSpec => []BufferWaitsForSegments
<1>1. ToldInv => BufferWaitsForSegments
  BY DEF ToldInv, Behind, BufferWaitsForSegments
<1> QED BY <1>1, OutTold, PTL

\* Success is told only of a stream whose every byte was acknowledged.
THEOREM SuccessIsTrue == OutSpec => []TrueMeansAcked
<1>1. ToldInv => TrueMeansAcked
  BY DEF ToldInv, Heard, TrueMeansAcked
<1> QED BY <1>1, OutTold, PTL
=============================================================================
