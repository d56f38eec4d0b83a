--------------------------- MODULE InStream_proofs ---------------------------
(***************************************************************************)
(* What the functions of InStream keep, for every window and every length of *)
(* stream.  The properties that follow are proved in Stream_proofs, where     *)
(* there is a sender.                                                        *)
(***************************************************************************)
EXTENDS InStream, FiniteSetTheorems, SequenceTheorems, WellFoundedInduction, TLAPS

\* A set of natural numbers has a least element.
LEMMA LeastNatural ==
    ASSUME NEW S, S \subseteq Nat, S # {}
    PROVE  \E x \in S : \A y \in S : x <= y
<1> DEFINE R == OpToRel(<, Nat)
<1>1. IsWellFoundedOn(R, Nat)
  BY NatLessThanWellFounded
<1>2. \A x, y \in Nat : y < x => <<y, x>> \in R
  BY DEF OpToRel
<1> HIDE DEF R
<1>3. PICK x \in S : \A y \in S : ~ (<<y, x>> \in R)
  BY <1>1, WFMin
<1>4. \A y \in S : ~ (y < x)
  BY <1>2, <1>3
<1>5. \A y \in S : x <= y
  BY <1>4
<1> QED BY <1>5

(***************************************************************************)
(* transferQueue folds over the slices that wait.                            *)
(***************************************************************************)

\* The greatest of some numbers, as a fold takes them.
LEMMA MaxOfRange ==
    ASSUME NEW k \in Nat, NEW s \in SUBSET (1..k), s # {}
    PROVE  Max(s) \in s /\ \A y \in s : y <= Max(s)
<1> DEFINE D == {d \in Nat : k - d \in s}
<1>1. \A y \in s : y \in Int /\ k - y \in D
  OBVIOUS
<1>2. D \subseteq Nat /\ D # {}
  BY <1>1
<1>3. PICK d \in D : \A e \in D : d <= e
  BY <1>2, LeastNatural
<1>4. k - d \in s /\ d \in Nat
  BY <1>3
<1>5. \A y \in s : k - d >= y
  <2> SUFFICES ASSUME NEW y \in s PROVE k - d >= y
    OBVIOUS
  <2>1. y \in Int /\ d <= k - y
    BY <1>1, <1>3
  <2> QED BY <2>1, <1>4
<1> HIDE DEF D
<1> DEFINE top == Max(s)
<1>6. top \in s /\ \A y \in s : top >= y
  BY <1>4, <1>5 DEF Max
<1>7. \A y \in s : y <= top
  BY <1>6, <1>1
<1> QED BY <1>6, <1>7

Folds(begun, order, g, k) ==
    g = [s \in SUBSET (1..k) |->
            IF s = {} THEN begun ELSE Transfer(g[s \ {Max(s)}], order[Max(s)])]

LEMMA FoldExists ==
    ASSUME NEW begun, NEW order, NEW m \in Nat
    PROVE  \E g : Folds(begun, order, g, m)
<1> DEFINE S == {k \in Nat : ~\E g : Folds(begun, order, g, k)}
<1> SUFFICES ASSUME S # {} PROVE FALSE
  OBVIOUS
<1>1. PICK k \in S : \A j \in S : k <= j
  BY LeastNatural
<1>2. CASE k = 0
  <2> DEFINE g == [s \in SUBSET (1..0) |-> begun]
  <2>1. SUBSET (1..0) = {{}}
    OBVIOUS
  <2>2. Folds(begun, order, g, 0)
    BY <2>1 DEF Folds
  <2> QED BY <1>1, <1>2, <2>2
<1>3. CASE k # 0
  <2>1. k \in Nat /\ k - 1 \in Nat /\ k - 1 \notin S
    BY <1>1, <1>3
  <2>2. PICK g : Folds(begun, order, g, k - 1)
    BY <2>1
  <2> DEFINE step(h, s) == IF s = {} THEN begun ELSE Transfer(h[s \ {Max(s)}], order[Max(s)])
             h == [s \in SUBSET (1..k) |->
                     IF s = {} THEN begun
                     ELSE IF k \in s THEN Transfer(g[s \ {k}], order[k]) ELSE g[s]]
  <2>3. \A s \in SUBSET (1..(k - 1)) : g[s] = step(g, s)
    BY <2>2 DEF Folds
  <2>4. \A s \in SUBSET (1..k) : k \notin s => s \in SUBSET (1..(k - 1))
    BY <2>1
  <2>5. \A s \in SUBSET (1..(k - 1)) : h[s] = g[s]
    <3> SUFFICES ASSUME NEW s \in SUBSET (1..(k - 1)) PROVE h[s] = g[s]
      OBVIOUS
    <3>1. s \in SUBSET (1..k) /\ k \notin s
      BY <2>1
    <3>2. CASE s = {}
      BY <3>1, <3>2, <2>3
    <3>3. CASE s # {}
      BY <3>1, <3>3
    <3> QED BY <3>2, <3>3
  <2>6. ASSUME NEW s \in SUBSET (1..k), s # {} PROVE h[s] = step(h, s)
    <3>1. Max(s) \in s /\ \A y \in s : y <= Max(s)
      BY <2>1, <2>6, MaxOfRange
    <3>2. CASE k \in s
      <4>1. Max(s) = k
        <5>1. Max(s) \in 1..k /\ k <= Max(s)
          BY <3>1, <3>2
        <5> QED BY <5>1, <2>1
      <4>2. s \ {k} \in SUBSET (1..(k - 1))
        BY <2>1
      <4>3. h[s] = Transfer(g[s \ {k}], order[k])
        BY <2>6, <3>2
      <4>4. h[s \ {k}] = g[s \ {k}]
        BY <4>2, <2>5
      <4> QED BY <4>1, <4>3, <4>4, <2>6
    <3>3. CASE k \notin s
      <4>1. s \in SUBSET (1..(k - 1)) /\ s \ {Max(s)} \in SUBSET (1..(k - 1))
        BY <2>4, <3>3
      <4>2. h[s] = g[s] /\ h[s \ {Max(s)}] = g[s \ {Max(s)}]
        BY <4>1, <2>5
      <4> QED BY <4>1, <4>2, <2>3, <2>6
    <3> QED BY <3>2, <3>3
  <2>7. h[{}] = begun
    OBVIOUS
  <2>8. \A s \in SUBSET (1..k) : h[s] = step(h, s)
    BY <2>6, <2>7
  <2>9. Folds(begun, order, h, k)
    <3>1. h = [s \in SUBSET (1..k) |-> h[s]]
      OBVIOUS
    <3>2. h = [s \in SUBSET (1..k) |-> step(h, s)]
      BY <2>8, <3>1, Zenon
    <3> QED BY <3>2 DEF Folds
  <2> QED BY <1>1, <2>9
<1> QED BY <1>2, <1>3

\* All the slices of order, one after the other.
TransferEach(begun, order) == FoldLeft(Transfer, begun, order)

LEMMA FoldSteps ==
    ASSUME NEW begun, NEW order, NEW m \in Nat, DOMAIN order = 1..m
    PROVE  \E at : /\ at[0] = begun /\ at[m] = TransferEach(begun, order)
                   /\ \A k \in 1..m : at[k] = Transfer(at[k - 1], order[k])
<1> DEFINE fold == CHOOSE g : Folds(begun, order, g, m)
           at == [k \in 0..m |-> fold[1..k]]
<1>1. TransferEach(begun, order) = fold[1..m]
  BY DEF TransferEach, FoldLeft, MapThenFoldSet, Folds
<1>2. Folds(begun, order, fold, m)
  BY FoldExists
<1> HIDE DEF fold
<1>3. \A s \in SUBSET (1..m) :
        fold[s] = IF s = {} THEN begun ELSE Transfer(fold[s \ {Max(s)}], order[Max(s)])
  BY <1>2 DEF Folds
<1>4. at[0] = begun
  <2>1. 1..0 = {}
    OBVIOUS
  <2>2. fold[{}] = begun
    BY <1>3
  <2> QED BY <2>1, <2>2
<1>5. ASSUME NEW k \in 1..m PROVE at[k] = Transfer(at[k - 1], order[k])
  <2>1. k \in Nat /\ k - 1 \in 0..m /\ k \in 0..m
    OBVIOUS
  <2>6. (1..k) \in SUBSET (1..m) /\ k \in 1..k
    BY <2>1
  <2>2. Max(1..k) \in 1..k /\ \A y \in 1..k : y <= Max(1..k)
    BY <2>1, <2>6, MaxOfRange
  <2>3. Max(1..k) = k
    BY <2>1, <2>2
  <2>4. (1..k) \ {k} = 1..(k - 1)
    BY <2>1
  <2>5. fold[1..k] = Transfer(fold[1..(k - 1)], order[k])
    BY <1>3, <2>6, <2>3, <2>4
  <2> QED BY <2>5, <2>1
<1>6. at[m] = fold[1..m]
  OBVIOUS
<1> QED BY <1>1, <1>4, <1>5, <1>6
-----------------------------------------------------------------------------
(***************************************************************************)
(* The fields of the queue.                                                  *)
(***************************************************************************)
Resets == {"RESET", "RESET_DOWN"}
Endings == {"none", "SHUTDOWN", "RESET"}
Waiting == [lo : 0..MaxBytes, hi : 0..MaxBytes, packet : Nat]
InFields == {"state", "barrier", "lastBarrier", "window", "queue", "queuedBytes",
             "ready", "readyBytes", "offset", "bufferSize", "rts", "assigned",
             "complete", "crashed", "delivered", "told"}

IsReceiver(s) ==
    /\ DOMAIN s = InFields
    /\ s.state \in InStates /\ s.told \in Endings
    /\ s.barrier \in Nat /\ s.lastBarrier \in Nat /\ s.window \in Nat
    /\ s.queue \subseteq Waiting /\ IsFiniteSet(s.queue)
    /\ s.ready \in Seq(Slice) /\ s.readyBytes \in Int /\ s.offset \in 0..MaxBytes
    /\ s.bufferSize \in Nat \cup {-1, noBuffer}
    /\ s.rts \in BOOLEAN /\ s.assigned \in BOOLEAN /\ s.complete \in BOOLEAN
    /\ s.crashed \in BOOLEAN /\ s.delivered \in Seq(Int)

\* The fields that neither fireEvent nor RaiseBarrier changes.
Rest(s, d) ==
    /\ d.state = s.state /\ d.told = s.told /\ d.lastBarrier = s.lastBarrier
    /\ d.window = s.window /\ d.queue = s.queue /\ d.ready = s.ready
    /\ d.readyBytes = s.readyBytes /\ d.offset = s.offset /\ d.crashed = s.crashed
    /\ d.bufferSize = s.bufferSize /\ d.delivered = s.delivered

\* A stream asks to send when the barrier is worth telling.
Asks(s) == s.rts <=> s.barrier - s.lastBarrier >= BarrierIncrement

\* What fireEvent tells in each state.
Fired(s, d) ==
    /\ s.state \in {"CONNECTED", "RESET"} => d.assigned = s.assigned /\ d.complete = s.complete
    /\ s.state # "CONNECTED" => d.rts = s.rts
    /\ s.state = "SHUTDOWN" => d.complete = s.complete
    /\ s.state \in {"SHUTDOWN", "RESET_DOWN"} => (d.assigned <=> s.assigned /\ s.queue # {})
    /\ s.state = "RESET_DOWN" => (d.complete <=> s.complete \/ s.queue = {})
    /\ s.state = "CONNECTED" => Asks(d)

LEMMA Fire ==
    ASSUME NEW s, IsReceiver(s), NEW d, d = fireEvent(s)
    PROVE  IsReceiver(d) /\ Rest(s, d) /\ d.barrier = s.barrier /\ Fired(s, d)
<1> USE DEF InFields, InStates
<1>1. CASE s.state = "CONNECTED"
  <2>1. d = [s EXCEPT !.rts = s.barrier - s.lastBarrier >= BarrierIncrement]
    BY <1>1 DEF fireEvent
  <2> DEFINE asks == s.barrier - s.lastBarrier >= BarrierIncrement
  <2>2. asks \in BOOLEAN /\ d = [s EXCEPT !.rts = asks]
    BY <2>1
  <2>3. d.rts = asks /\ d.barrier = s.barrier /\ d.lastBarrier = s.lastBarrier
    BY <2>2 DEF IsReceiver
  <2>4. Asks(d)
    BY <2>3 DEF Asks
  <2> HIDE DEF asks
  <2> QED BY <1>1, <2>2, <2>4 DEF IsReceiver, Rest, Fired
<1>2. CASE s.state = "RESET"
  <2>1. d = s
    BY <1>2 DEF fireEvent
  <2> QED BY <1>2, <2>1 DEF IsReceiver, Rest, Fired
<1>3. CASE s.state = "SHUTDOWN"
  <2>1. d = IF s.queue = {} THEN [s EXCEPT !.assigned = FALSE] ELSE s
    BY <1>3 DEF fireEvent, Unassign
  <2> QED BY <1>3, <2>1 DEF IsReceiver, Rest, Fired
<1>4. CASE s.state = "RESET_DOWN"
  <2>1. d = IF s.queue = {} THEN [s EXCEPT !.assigned = FALSE, !.complete = TRUE] ELSE s
    BY <1>4 DEF fireEvent, Complete
  <2> QED BY <1>4, <2>1 DEF IsReceiver, Rest, Fired
<1> QED BY <1>1, <1>2, <1>3, <1>4 DEF IsReceiver

LEMMA MaxOfTwo ==
    ASSUME NEW a \in Int, NEW b \in Int
    PROVE  Max({a, b}) \in {a, b} /\ a <= Max({a, b}) /\ b <= Max({a, b})
<1> DEFINE S == {a, b}
<1>1. \E x \in S : \A y \in S : x >= y
  <2>1. CASE a <= b
    BY <2>1
  <2>2. CASE b <= a
    BY <2>2
  <2> QED BY <2>1, <2>2
<1>2. Max(S) \in S /\ \A y \in S : Max(S) >= y
  BY <1>1 DEF Max
<1>3. Max(S) \in Int
  BY <1>2
<1> QED BY <1>2, <1>3

\* The barrier never falls.
LEMMA RaiseAndFire ==
    ASSUME NEW s, IsReceiver(s), NEW d, d = fireEvent(RaiseBarrier(s))
    PROVE  /\ IsReceiver(d) /\ Rest(s, d) /\ s.barrier <= d.barrier /\ Fired(s, d)
           /\ s.offset - s.readyBytes + s.window <= d.barrier
<1> DEFINE x == s.offset - s.readyBytes + s.window
           top == Max({s.barrier, x})
           r == RaiseBarrier(s)
<1>1. top \in Nat /\ s.barrier <= top /\ x <= top
  <2>1. s.barrier \in Nat /\ x \in Int
    BY SegmentsAssumption DEF IsReceiver
  <2> HIDE DEF x
  <2>2. top \in {s.barrier, x} /\ s.barrier <= top /\ x <= top
    <3>1. s.barrier \in Int
      BY <2>1
    <3> QED BY <2>1, <3>1, MaxOfTwo, Zenon
  <2> HIDE DEF top
  <2> QED BY <2>1, <2>2
<1>2. r = [s EXCEPT !.barrier = top]
  BY DEF RaiseBarrier
<1> HIDE DEF top
<1>3. /\ IsReceiver(r) /\ Rest(s, r) /\ r.barrier = top
      /\ r.rts = s.rts /\ r.assigned = s.assigned /\ r.complete = s.complete
  BY <1>1, <1>2 DEF IsReceiver, Rest, InFields
<1> HIDE DEF r
<1>4. IsReceiver(d) /\ Rest(r, d) /\ d.barrier = r.barrier /\ Fired(r, d)
  BY <1>3, Fire DEF r
<1> QED BY <1>1, <1>3, <1>4 DEF Rest, Fired

-----------------------------------------------------------------------------
(***************************************************************************)
(* What the reader is given.                                                 *)
(***************************************************************************)
InOrder(q) == \A i \in 1..Len(q) : q[i] = i - 1

\* The slices of r are the bytes from .. to - 1, in order, and were copied.
Run(r, from, to) ==
    /\ \A i \in 1..Len(r) : r[i].held = "copied" /\ r[i].hi <= to
    /\ r = <<>> => from = to
    /\ r # <<>> => r[1].lo = from /\ r[Len(r)].hi = to
    /\ \A i \in 1..(Len(r) - 1) : r[i].hi = r[i + 1].lo

LEMMA SliceFields ==
    ASSUME NEW c \in Slice
    PROVE  /\ c.lo \in Nat /\ c.hi \in Nat /\ c.hi <= MaxBytes /\ c.lo <= c.hi
           /\ Length(c) = c.hi - c.lo /\ Length(c) \in Nat
BY SegmentsAssumption DEF Slice, Length

LEMMA SliceMade ==
    ASSUME NEW lo \in Nat, NEW hi \in Nat, lo <= hi, hi <= MaxBytes,
           NEW held \in {"copied", "borrowed", "stale"}
    PROVE  [lo |-> lo, hi |-> hi, held |-> held] \in Slice
BY SegmentsAssumption DEF Slice

LEMMA ContentsSeq ==
    ASSUME NEW c \in Slice
    PROVE  /\ Contents(c) \in Seq(Int) /\ Len(Contents(c)) = c.hi - c.lo
           /\ c.held # "stale" => \A i \in 1..(c.hi - c.lo) : Contents(c)[i] = c.lo + i - 1
<1>1. c.hi - c.lo \in Nat /\ c.lo \in Int
  BY SliceFields
<1> DEFINE n == c.hi - c.lo
           byte(i) == IF c.held = "stale" THEN Overwritten ELSE c.lo + i - 1
           q == [i \in 1..n |-> byte(i)]
<1>2. Contents(c) = q
  BY DEF Contents
<1>3. \A i \in 1..n : byte(i) \in Int
  BY <1>1 DEF Overwritten
<1>4. q \in Seq(Int) /\ Len(q) = n
  <2> HIDE DEF byte, n
  <2>1. n \in Nat
    BY <1>1 DEF n
  <2>2. q \in [1..n -> Int]
    BY <1>3
  <2> HIDE DEF q
  <2>3. q \in Seq(Int)
    BY <2>1, <2>2
  <2>4. Len(q) = n
    BY <2>1, <2>2, <2>3
  <2> QED BY <2>3, <2>4
<1> QED BY <1>2, <1>4

LEMMA GivenInOrder ==
    ASSUME NEW q \in Seq(Int), InOrder(q), NEW c \in Slice, c.held # "stale", c.lo = Len(q)
    PROVE  InOrder(q \o Contents(c)) /\ Len(q \o Contents(c)) = c.hi
<1> DEFINE g == Contents(c)
<1>1. /\ g \in Seq(Int) /\ Len(g) = c.hi - c.lo
      /\ \A i \in 1..(c.hi - c.lo) : g[i] = c.lo + i - 1
  BY ContentsSeq
<1>2. c.lo \in Nat /\ c.hi \in Nat /\ c.lo <= c.hi /\ Len(q) \in Nat
  BY SliceFields
<1> HIDE DEF g
<1>0. /\ Len(q \o g) = Len(q) + Len(g)
      /\ \A i \in 1..(Len(q) + Len(g)) : (q \o g)[i] = IF i <= Len(q) THEN q[i] ELSE g[i - Len(q)]
  BY <1>1, ConcatProperties
<1>6. Len(q) + Len(g) = c.hi
  BY <1>1, <1>2
<1>3. Len(q \o g) = c.hi
  BY <1>0, <1>6
<1>4. \A i \in 1..c.hi : (q \o g)[i] = IF i <= Len(q) THEN q[i] ELSE g[i - Len(q)]
  BY <1>0, <1>6
<1>5. ASSUME NEW i \in 1..c.hi PROVE (q \o g)[i] = i - 1
  <2>1. CASE i <= Len(q)
    BY <1>2, <1>4, <2>1 DEF InOrder
  <2>2. CASE ~(i <= Len(q))
    <3>1. i - Len(q) \in 1..(c.hi - c.lo)
      BY <1>2, <2>2
    <3>2. g[i - Len(q)] = c.lo + (i - Len(q)) - 1
      BY <1>1, <3>1
    <3>3. (q \o g)[i] = g[i - Len(q)]
      BY <1>4, <2>2
    <3>4. c.lo + (i - Len(q)) - 1 = i - 1
      BY <1>2
    <3> QED BY <3>2, <3>3, <3>4
  <2> QED BY <2>1, <2>2
<1> QED BY <1>3, <1>5 DEF InOrder, g

(***************************************************************************)
(* What is ready is counted.                                                  *)
(***************************************************************************)
\* total is the sum of the lengths of the slices of r.
Sums(r, total, sum) ==
    /\ sum[0] = 0 /\ sum[Len(r)] = total
    /\ \A i \in 1..Len(r) : sum[i] = sum[i - 1] + Length(r[i])
Counted(r, total) == \E sum \in [0..Len(r) -> Int] : Sums(r, total, sum)

LEMMA CountedNone == ASSUME NEW t \in Int PROVE Counted(<<>>, t) <=> t = 0
<1> DEFINE zero == [i \in 0..Len(<<>>) |-> 0]
<1>1. Len(<<>>) = 0 /\ 1..0 = {}
  OBVIOUS
<1>2. zero \in [0..Len(<<>>) -> Int] /\ Sums(<<>>, 0, zero)
  BY <1>1 DEF Sums
<1> HIDE DEF zero
<1>3. Counted(<<>>, 0)
  BY <1>2 DEF Counted
<1>4. Counted(<<>>, t) => t = 0
  BY <1>1 DEF Counted, Sums
<1> QED BY <1>3, <1>4

LEMMA CountedAlike ==
    ASSUME NEW r \in Seq(Slice), NEW q \in Seq(Slice), Len(q) = Len(r), NEW t, Counted(r, t),
           \A i \in 1..Len(r) : Length(q[i]) = Length(r[i])
    PROVE  Counted(q, t)
BY DEF Counted, Sums

LEMMA CountedAppend ==
    ASSUME NEW r \in Seq(Slice), NEW c \in Slice, NEW t \in Int, Counted(r, t)
    PROVE  Counted(Append(r, c), t + Length(c))
<1> DEFINE n == Len(r)
           q == Append(r, c)
<1>1. n \in Nat /\ Len(q) = n + 1 /\ q[n + 1] = c /\ \A i \in 1..n : q[i] = r[i]
  BY AppendProperties
<1>2. PICK f \in [0..n -> Int] : Sums(r, t, f)
  BY DEF Counted
<1>3. Length(c) \in Int
  BY SliceFields
<1> DEFINE g == [i \in 0..(n + 1) |-> IF i = n + 1 THEN t + Length(c) ELSE f[i]]
<1>4. g \in [0..(n + 1) -> Int]
  BY <1>1, <1>2, <1>3
<1>5. g[0] = 0 /\ g[n + 1] = t + Length(c) /\ \A i \in 0..n : g[i] = f[i]
  BY <1>1, <1>2 DEF Sums
<1> HIDE DEF g, q
<1>6. ASSUME NEW i \in 1..(n + 1) PROVE g[i] = g[i - 1] + Length(q[i])
  <2>1. CASE i = n + 1
    <3>1. i - 1 = n /\ n \in 0..n
      BY <1>1, <2>1
    <3>2. g[i - 1] = t
      BY <1>2, <1>5, <3>1 DEF Sums
    <3> QED BY <1>1, <1>5, <2>1, <3>2
  <2>2. CASE i # n + 1
    <3>1. i \in 1..n /\ i \in 0..n /\ i - 1 \in 0..n
      BY <1>1, <2>2
    <3> QED BY <1>1, <1>2, <1>5, <3>1 DEF Sums
  <2> QED BY <2>1, <2>2
<1>7. Sums(q, t + Length(c), g)
  BY <1>1, <1>5, <1>6 DEF Sums
<1> QED BY <1>1, <1>4, <1>7 DEF Counted, q

LEMMA CountedTail ==
    ASSUME NEW r \in Seq(Slice), r # <<>>, NEW t \in Int, Counted(r, t)
    PROVE  Counted(Tail(r), t - Length(Head(r)))
<1> DEFINE n == Len(r)
           q == Tail(r)
           x == Length(r[1])
<1>1. /\ n \in Nat \ {0} /\ Len(q) = n - 1 /\ Head(r) = r[1]
      /\ \A i \in 1..(n - 1) : q[i] = r[i + 1]
  <2>1. n \in Nat \ {0}
    BY EmptySeq
  <2>2. Head(r) = r[1]
    OBVIOUS
  <2> QED BY <2>1, <2>2, HeadTailProperties
<1>2. PICK f \in [0..n -> Int] : Sums(r, t, f)
  BY DEF Counted
<1>3. x \in Int
  <2>1. r[1] \in Slice
    <3>1. 1 \in 1..n
      BY <1>1
    <3> QED BY <3>1, ElementOfSeq
  <2> QED BY <2>1, SliceFields
<1>4. f[1] = x
  <2>1. 1 \in 1..n /\ 1 - 1 = 0
    BY <1>1
  <2>2. f[1] = f[1 - 1] + x
    BY <1>2, <2>1 DEF Sums
  <2> QED BY <1>2, <1>3, <2>1, <2>2 DEF Sums
<1> HIDE DEF x, q, n
<1> DEFINE g == [i \in 0..(n - 1) |-> f[i + 1] - x]
<1>5. \A i \in 0..(n - 1) : i + 1 \in 0..n /\ f[i + 1] \in Int
  BY <1>1, <1>2
<1>6. g \in [0..(n - 1) -> Int]
  BY <1>3, <1>5
<1>7. g[0] = 0 /\ g[n - 1] = t - x
  <2>1. 0 \in 0..(n - 1) /\ n - 1 \in 0..(n - 1) /\ 0 + 1 = 1 /\ (n - 1) + 1 = n
    BY <1>1
  <2>2. g[0] = f[0 + 1] - x /\ g[n - 1] = f[(n - 1) + 1] - x
    BY <2>1
  <2>3. f[n] = t
    BY <1>2 DEF Sums, n
  <2> QED BY <1>3, <1>4, <2>1, <2>2, <2>3
<1>8. ASSUME NEW i \in 1..(n - 1) PROVE g[i] = g[i - 1] + Length(q[i])
  <2>1. i \in 0..(n - 1) /\ i - 1 \in 0..(n - 1) /\ i + 1 \in 1..n /\ (i - 1) + 1 = i /\ (i + 1) - 1 = i
    BY <1>1
  <2>2. g[i] = f[i + 1] - x /\ g[i - 1] = f[i] - x
    BY <2>1
  <2>3. f[i + 1] = f[(i + 1) - 1] + Length(r[i + 1])
    BY <1>2, <2>1 DEF Sums, n
  <2>4. f[i + 1] = f[i] + Length(r[i + 1]) /\ q[i] = r[i + 1]
    BY <1>1, <2>1, <2>3
  <2>5. Length(r[i + 1]) \in Int
    <3>1. r[i + 1] \in Slice
      BY <2>1, ElementOfSeq DEF n
    <3> QED BY <3>1, SliceFields
  <2>6. f[i] \in Int /\ f[i + 1] \in Int
    BY <1>5, <2>1
  <2> QED BY <1>3, <2>2, <2>4, <2>5, <2>6
<1> HIDE DEF g
<1>9. Sums(q, t - x, g)
  BY <1>1, <1>7, <1>8 DEF Sums
<1>10. Counted(q, t - x)
  BY <1>1, <1>6, <1>9 DEF Counted
<1> QED BY <1>1, <1>10 DEF q, x

LEMMA CountedFront ==
    ASSUME NEW r \in Seq(Slice), NEW c \in Slice, NEW t \in Int, Counted(r, t)
    PROVE  Counted(<<c>> \o r, t + Length(c))
<1> DEFINE n == Len(r)
           q == <<c>> \o r
           x == Length(c)
<1>1. /\ n \in Nat /\ Len(q) = n + 1 /\ q[1] = c
      /\ \A i \in 2..(n + 1) : q[i] = r[i - 1]
  <2>1. <<c>> \in Seq(Slice) /\ Len(<<c>>) = 1 /\ <<c>>[1] = c /\ n \in Nat
    OBVIOUS
  <2>2. Len(q) = 1 + n /\ \A i \in 1..(1 + n) : q[i] = IF i <= 1 THEN <<c>>[i] ELSE r[i - 1]
    BY <2>1, ConcatProperties
  <2> HIDE DEF q
  <2> QED BY <2>1, <2>2
<1>2. PICK f \in [0..n -> Int] : Sums(r, t, f)
  BY DEF Counted
<1>3. x \in Int
  BY SliceFields
<1> HIDE DEF x, q
<1> DEFINE g == [i \in 0..(n + 1) |-> IF i = 0 THEN 0 ELSE f[i - 1] + x]
<1>4. \A i \in 1..(n + 1) : i - 1 \in 0..n /\ f[i - 1] \in Int
  BY <1>1, <1>2
<1>5. g \in [0..(n + 1) -> Int]
  BY <1>1, <1>3, <1>4
<1>6. g[0] = 0 /\ \A i \in 1..(n + 1) : g[i] = f[i - 1] + x
  BY <1>1
<1> HIDE DEF g
<1>7. f[0] = 0 /\ f[n] = t /\ \A i \in 1..n : f[i] = f[i - 1] + Length(r[i])
  BY <1>2 DEF Sums
<1>8. g[n + 1] = t + x
  <2>1. n + 1 \in 1..(n + 1) /\ (n + 1) - 1 = n
    BY <1>1
  <2>2. g[n + 1] = f[(n + 1) - 1] + x
    BY <1>6, <2>1
  <2> QED BY <1>7, <2>1, <2>2
<1>9. ASSUME NEW i \in 1..(n + 1) PROVE g[i] = g[i - 1] + Length(q[i])
  <2>1. CASE i = 1
    <3>1. 1 \in 1..(n + 1) /\ 1 - 1 = 0
      BY <1>1
    <3>2. g[1] = f[0] + x
      BY <1>6, <3>1
    <3>3. g[1] = g[1 - 1] + Length(q[1])
      BY <1>1, <1>3, <1>6, <1>7, <3>1, <3>2 DEF x
    <3> QED BY <2>1, <3>3
  <2>2. CASE i # 1
    <3>1. i \in 2..(n + 1) /\ i - 1 \in 1..n /\ i - 1 \in 1..(n + 1) /\ (i - 1) \in Int
      BY <1>1, <2>2
    <3>2. q[i] = r[i - 1] /\ g[i] = f[i - 1] + x /\ g[i - 1] = f[(i - 1) - 1] + x
      BY <1>1, <1>6, <3>1
    <3>3. f[i - 1] = f[(i - 1) - 1] + Length(r[i - 1])
      BY <1>7, <3>1
    <3>4. r[i - 1] \in Slice
      BY <3>1, ElementOfSeq
    <3>5. f[(i - 1) - 1] \in Int /\ Length(r[i - 1]) \in Int
      <4>1. (i - 1) - 1 \in 0..n
        BY <1>1, <3>1
      <4> DEFINE j == (i - 1) - 1
                 y == r[i - 1]
      <4> HIDE DEF j, y
      <4>2. f[j] \in Int
        BY <1>2, <4>1 DEF j
      <4>3. Length(y) \in Int
        BY <3>4, SliceFields DEF y
      <4> QED BY <4>2, <4>3 DEF j, y
    <3> QED BY <1>3, <3>2, <3>3, <3>5
  <2> QED BY <2>1, <2>2
<1>10. Sums(q, t + x, g)
  BY <1>1, <1>6, <1>8, <1>9 DEF Sums
<1> QED BY <1>1, <1>5, <1>10 DEF Counted, q, x

LEMMA HandFields ==
    ASSUME NEW s, IsReceiver(s), NEW c \in Slice, NEW d, d = Hand(s, c)
    PROVE  /\ IsReceiver(d) /\ d.delivered = s.delivered \o Contents(c)
           /\ \A f \in InFields \ {"delivered"} : d[f] = s[f]
<1> DEFINE q == s.delivered \o Contents(c)
<1>1. q \in Seq(Int)
  BY ContentsSeq, ConcatProperties DEF IsReceiver
<1>2. d = [s EXCEPT !.delivered = q]
  BY DEF Hand
<1> HIDE DEF q
<1>3. d.delivered = q /\ \A f \in InFields \ {"delivered"} : d[f] = s[f]
  BY <1>2 DEF IsReceiver, InFields
<1>4. IsReceiver(d)
  BY <1>1, <1>2 DEF IsReceiver, InFields
<1> QED BY <1>3, <1>4 DEF q

LEMMA RunTail ==
    ASSUME NEW r \in Seq(Slice), r # <<>>, NEW from, NEW to, Run(r, from, to)
    PROVE  /\ Head(r).held = "copied" /\ Head(r).lo = from
           /\ Head(r).hi <= to /\ Run(Tail(r), Head(r).hi, to)
<1> DEFINE t == Tail(r)
           n == Len(r)
<1>1. /\ n \in Nat /\ n # 0 /\ Head(r) = r[1] /\ t \in Seq(Slice) /\ Len(t) = n - 1
      /\ \A i \in 1..(n - 1) : t[i] = r[i + 1]
  <2>1. n \in Nat \ {0}
    BY EmptySeq
  <2>2. t \in Seq(Slice) /\ Len(t) = n - 1 /\ \A i \in 1..Len(t) : t[i] = r[i + 1]
    BY HeadTailProperties
  <2>3. Head(r) = r[1]
    OBVIOUS
  <2> QED BY <2>1, <2>2, <2>3
<1>2. /\ \A i \in 1..n : r[i].held = "copied" /\ r[i].hi <= to
      /\ r[1].lo = from /\ r[n].hi = to /\ \A i \in 1..(n - 1) : r[i].hi = r[i + 1].lo
  BY DEF Run
<1>3. (t = <<>>) <=> (n = 1)
  <2>1. (t = <<>>) => (Len(t) = 0)
    BY EmptySeq
  <2>2. (t # <<>>) => (Len(t) # 0)
    BY <1>1, EmptySeq
  <2> QED BY <1>1, <2>1, <2>2
<1> HIDE DEF t, n
<1>4. \A i \in 1..Len(t) : t[i].held = "copied" /\ t[i].hi <= to
  BY <1>1, <1>2
<1>5. t = <<>> => Head(r).hi = to
  BY <1>1, <1>2, <1>3
<1>6. t # <<>> => t[1].lo = Head(r).hi /\ t[Len(t)].hi = to
  <2> SUFFICES ASSUME t # <<>> PROVE t[1].lo = Head(r).hi /\ t[Len(t)].hi = to
    OBVIOUS
  <2>1. n > 1
    BY <1>1, <1>3
  <2>2. t[1] = r[2] /\ t[n - 1] = r[n] /\ r[1].hi = r[2].lo
    <3>1. 1 \in 1..(n - 1) /\ n - 1 \in 1..(n - 1) /\ (n - 1) + 1 = n
      BY <1>1, <2>1
    <3>2. 1 + 1 = 2
      OBVIOUS
    <3>3. t[1] = r[1 + 1] /\ t[n - 1] = r[(n - 1) + 1] /\ r[1].hi = r[1 + 1].lo
      BY <1>1, <1>2, <3>1
    <3> QED BY <3>1, <3>2, <3>3
  <2> QED BY <1>1, <1>2, <2>2
<1>7. \A i \in 1..(Len(t) - 1) : t[i].hi = t[i + 1].lo
  <2> SUFFICES ASSUME NEW i \in 1..(Len(t) - 1) PROVE t[i].hi = t[i + 1].lo
    OBVIOUS
  <2>1. i \in 1..(n - 1) /\ i + 1 \in 1..(n - 1)
    BY <1>1
  <2> QED BY <1>1, <1>2, <2>1
<1>8. Run(t, Head(r).hi, to)
  BY <1>4, <1>5, <1>6, <1>7 DEF Run
<1> QED BY <1>1, <1>2, <1>8 DEF t, n

LEMMA RunFront ==
    ASSUME NEW r \in Seq(Slice), NEW to \in Nat, NEW c \in Slice, c.held = "copied", c.hi <= to,
           Run(r, c.hi, to)
    PROVE  Run(<<c>> \o r, c.lo, to)
<1> DEFINE t == <<c>> \o r
           n == Len(r)
<1>1. /\ n \in Nat /\ Len(t) = n + 1 /\ t[1] = c /\ t # <<>>
      /\ \A i \in 2..(n + 1) : t[i] = r[i - 1]
  <2>1. <<c>> \in Seq(Slice) /\ Len(<<c>>) = 1 /\ n \in Nat
    OBVIOUS
  <2>2. t \in Seq(Slice) /\ Len(t) = Len(<<c>>) + n
        /\ \A i \in 1..(Len(<<c>>) + n) : t[i] = IF i <= Len(<<c>>) THEN <<c>>[i] ELSE r[i - Len(<<c>>)]
    BY <2>1, ConcatProperties
  <2> HIDE DEF t, n
  <2>3. Len(t) = n + 1
    BY <2>1, <2>2
  <2>4. t # <<>>
    BY <2>1, <2>3, EmptySeq
  <2>5. t[1] = c
    BY <2>1, <2>2
  <2>6. \A i \in 2..(n + 1) : t[i] = r[i - 1]
    BY <2>1, <2>2
  <2> QED BY <2>1, <2>3, <2>4, <2>5, <2>6
<1>2. (r = <<>>) <=> (n = 0)
  BY EmptySeq
<1>3. /\ \A i \in 1..n : r[i].held = "copied" /\ r[i].hi <= to
      /\ r = <<>> => c.hi = to
      /\ r # <<>> => r[1].lo = c.hi /\ r[n].hi = to
      /\ \A i \in 1..(n - 1) : r[i].hi = r[i + 1].lo
  BY DEF Run
<1> HIDE DEF t, n
<1>4. \A i \in 1..(n + 1) : t[i].held = "copied" /\ t[i].hi <= to
  <2> SUFFICES ASSUME NEW i \in 1..(n + 1) PROVE t[i].held = "copied" /\ t[i].hi <= to
    OBVIOUS
  <2>1. CASE i = 1
    BY <1>1, <2>1
  <2>2. CASE i # 1
    <3>1. i \in 2..(n + 1) /\ i - 1 \in 1..n
      BY <1>1, <2>2
    <3> QED BY <1>1, <1>3, <3>1
  <2> QED BY <2>1, <2>2
<1>5. t[n + 1].hi = to
  <2>1. CASE n = 0
    BY <1>1, <1>2, <1>3, <2>1
  <2>2. CASE n # 0
    <3>1. n + 1 \in 2..(n + 1) /\ (n + 1) - 1 = n
      BY <1>1, <2>2
    <3>2. t[n + 1] = r[n]
      BY <1>1, <3>1
    <3> QED BY <1>2, <1>3, <2>2, <3>2
  <2> QED BY <2>1, <2>2
<1>6. ASSUME NEW i \in 1..n PROVE t[i].hi = t[i + 1].lo
  <2>1. i + 1 \in 2..(n + 1) /\ (i + 1) - 1 = i
    BY <1>1
  <2>2. t[i + 1] = r[i]
    BY <1>1, <2>1
  <2>3. CASE i = 1
    <3>1. n # 0
      BY <1>1
    <3> QED BY <1>1, <1>2, <1>3, <2>2, <2>3, <3>1
  <2>4. CASE i # 1
    <3>1. i \in 2..(n + 1) /\ i - 1 \in 1..(n - 1) /\ (i - 1) + 1 = i
      BY <1>1, <2>4
    <3>2. t[i] = r[i - 1] /\ r[i - 1].hi = r[(i - 1) + 1].lo
      BY <1>1, <1>3, <3>1
    <3> QED BY <2>2, <3>1, <3>2
  <2> QED BY <2>3, <2>4
<1>7. (n + 1) - 1 = n
  BY <1>1
<1>8. Run(t, c.lo, to)
  BY <1>1, <1>4, <1>5, <1>6, <1>7 DEF Run
<1> QED BY <1>8 DEF t

LEMMA RunAppend ==
    ASSUME NEW r \in Seq(Slice), NEW from, NEW c \in Slice, c.held = "copied", Run(r, from, c.lo)
    PROVE  Run(Append(r, c), from, c.hi)
<1> DEFINE t == Append(r, c)
           n == Len(r)
<1>1. /\ n \in Nat /\ Len(t) = n + 1 /\ t[n + 1] = c /\ t # <<>>
      /\ \A i \in 1..n : t[i] = r[i]
  BY AppendProperties
<1>2. (r = <<>>) <=> (n = 0)
  BY EmptySeq
<1>3. /\ \A i \in 1..n : r[i].held = "copied" /\ r[i].hi <= c.hi
      /\ r = <<>> => from = c.lo
      /\ r # <<>> => r[1].lo = from /\ r[n].hi = c.lo
      /\ \A i \in 1..(n - 1) : r[i].hi = r[i + 1].lo
  <2>1. c.lo \in Nat /\ c.hi \in Nat /\ c.lo <= c.hi
    BY SliceFields
  <2>2. \A i \in 1..n : r[i].hi \in Nat /\ r[i].hi <= c.lo
    BY ElementOfSeq, SliceFields DEF Run
  <2>3. \A i \in 1..n : r[i].hi <= c.hi
    BY <2>1, <2>2
  <2> QED BY <2>3 DEF Run
<1> HIDE DEF t, n
<1>9. c.hi <= c.hi
  BY SliceFields
<1>4. \A i \in 1..(n + 1) : t[i].held = "copied" /\ t[i].hi <= c.hi
  <2> SUFFICES ASSUME NEW i \in 1..(n + 1) PROVE t[i].held = "copied" /\ t[i].hi <= c.hi
    OBVIOUS
  <2>1. CASE i = n + 1
    BY <1>1, <1>9, <2>1
  <2>2. CASE i # n + 1
    <3>1. i \in 1..n
      BY <1>1, <2>2
    <3> QED BY <1>1, <1>3, <3>1
  <2> QED BY <2>1, <2>2
<1>5. t[1].lo = from
  <2>1. CASE n = 0
    BY <1>1, <1>2, <1>3, <2>1
  <2>2. CASE n # 0
    <3>1. 1 \in 1..n
      BY <1>1, <2>2
    <3> QED BY <1>1, <1>2, <1>3, <2>2, <3>1
  <2> QED BY <2>1, <2>2
<1>6. ASSUME NEW i \in 1..n PROVE t[i].hi = t[i + 1].lo
  <2>1. CASE i = n
    <3>1. n # 0
      BY <1>1
    <3> QED BY <1>1, <1>2, <1>3, <2>1, <3>1
  <2>2. CASE i # n
    <3>1. i \in 1..(n - 1) /\ i + 1 \in 1..n
      BY <1>1, <2>2
    <3> QED BY <1>1, <1>3, <3>1
  <2> QED BY <2>1, <2>2
<1>7. (n + 1) - 1 = n
  BY <1>1
<1>8. Run(t, from, c.hi)
  BY <1>1, <1>4, <1>5, <1>6, <1>7 DEF Run
<1> QED BY <1>8 DEF t

-----------------------------------------------------------------------------
(***************************************************************************)
(* What holds between two handlers.                                          *)
(***************************************************************************)
\* Whose id was given back is complete, or is told so when it reads or resets; a
\* stream that was shut down does not ask to send.
IdGiven(s) ==
    /\ ~s.assigned => s.complete \/ (s.state = "SHUTDOWN" /\ s.queue = {})
    /\ ~s.assigned \/ s.complete => s.state # "CONNECTED"
    /\ s.state = "SHUTDOWN" => ~s.rts

\* Who hears of the end, and that a reset stream has nothing for the reader.
EndTold(s) ==
    /\ s.told = "SHUTDOWN" => ~s.assigned /\ s.bufferSize = noBuffer
    /\ s.told = "RESET" => s.state \in Resets
    /\ s.state \in Resets => s.ready = <<>> /\ s.bufferSize = noBuffer
    /\ s.bufferSize # noBuffer => s.ready = <<>>

\* The barrier leaves the sender a window beyond what was read.
Spare(s) == s.offset - s.readyBytes + s.window <= s.barrier
HasWindow(s) == s.state = "CONNECTED" => MinimumWindow <= s.window /\ Spare(s)

Good(s) == IsReceiver(s) /\ IdGiven(s) /\ EndTold(s) /\ HasWindow(s)

\* The reader was given the bytes in order, and the next ones are ready.
ReadyNext(s) ==
    /\ Run(s.ready, Len(s.delivered), s.offset) /\ Len(s.delivered) <= s.offset
    /\ s.readyBytes = s.offset - Len(s.delivered)
Delivery(s) ==
    /\ InOrder(s.delivered)
    /\ s.state \notin Resets /\ ~s.crashed => ReadyNext(s)

\* Byte b came: it was in order, or waits.
Brought(s, b) == b < s.offset \/ \E c \in s.queue : c.lo <= b /\ b < c.hi

\* The books of a receiver that is connected: what is ready is counted, what waits is
\* beyond the offset, and the barrier is told when that is worth it.
Books(s) ==
    /\ Counted(s.ready, s.readyBytes) /\ MinimumWindow <= s.barrier
    /\ \A c \in s.queue : s.offset < c.lo
    /\ Asks(s)

LEMMA TakeFields ==
    ASSUME NEW s, IsReceiver(s), s.ready # <<>>, NEW size \in Nat \cup {-1},
           NEW d, d = TakeReady(s, size)
    PROVE  /\ IsReceiver(d) /\ s.barrier <= d.barrier /\ Fired(s, d)
           /\ d.state = s.state /\ d.told = s.told /\ d.queue = s.queue
           /\ d.offset = s.offset /\ d.crashed = s.crashed /\ d.bufferSize = s.bufferSize
           /\ d.window = s.window /\ d.lastBarrier = s.lastBarrier /\ Spare(d)
           /\ Counted(s.ready, s.readyBytes) => Counted(d.ready, d.readyBytes)
           /\ InOrder(s.delivered) /\ ReadyNext(s) =>
                 /\ InOrder(d.delivered) /\ ReadyNext(d)
                 /\ Len(s.delivered) <= Len(d.delivered)
<1> DEFINE slice  == Head(s.ready)
           part   == size # -1 /\ size < Length(slice)
           report == IF part THEN [slice EXCEPT !.hi = slice.lo + size] ELSE slice
           cut    == [slice EXCEPT !.lo = slice.lo + size]
           rest   == IF part THEN <<cut>> ELSE <<>>
           ready  == rest \o Tail(s.ready)
           count  == s.readyBytes - Length(report)
           m      == [s EXCEPT !.ready = ready, !.readyBytes = count]
           t      == fireEvent(RaiseBarrier(m))
<1>1. slice \in Slice /\ Tail(s.ready) \in Seq(Slice)
  BY HeadTailProperties DEF IsReceiver
<1>2. /\ slice.lo \in Nat /\ slice.hi \in Nat /\ slice.hi <= MaxBytes /\ slice.lo <= slice.hi
      /\ Length(slice) = slice.hi - slice.lo
      /\ slice.held \in {"copied", "borrowed", "stale"}
      /\ slice = [lo |-> slice.lo, hi |-> slice.hi, held |-> slice.held]
  BY <1>1, SliceFields DEF Slice
<1>3. part => /\ size \in Nat /\ slice.lo + size < slice.hi
              /\ report = [lo |-> slice.lo, hi |-> slice.lo + size, held |-> slice.held]
              /\ cut = [lo |-> slice.lo + size, hi |-> slice.hi, held |-> slice.held]
  BY <1>2
<1>4. /\ report \in Slice /\ report.lo = slice.lo /\ report.held = slice.held
      /\ part => cut \in Slice /\ cut.lo = report.hi /\ cut.hi = slice.hi /\ cut.held = slice.held
      /\ ~part => report.hi = slice.hi
  <2>1. CASE part
    <3>1. slice.lo + size \in Nat /\ slice.lo <= slice.lo + size /\ slice.lo + size <= slice.hi
          /\ slice.lo + size <= MaxBytes
      BY <1>2, <1>3, <2>1, SegmentsAssumption
    <3> DEFINE mid == slice.lo + size
    <3> HIDE DEF mid
    <3>2. [lo |-> slice.lo, hi |-> mid, held |-> slice.held] \in Slice
      BY <1>2, <3>1, SliceMade DEF mid
    <3>3. [lo |-> mid, hi |-> slice.hi, held |-> slice.held] \in Slice
      BY <1>2, <3>1, SliceMade DEF mid
    <3> QED BY <1>3, <2>1, <3>2, <3>3 DEF mid
  <2>2. CASE ~part
    BY <1>1, <2>2
  <2> QED BY <2>1, <2>2
<1>5. Length(report) \in Nat
  BY <1>4, SliceFields
<1> DEFINE tail == Tail(s.ready)
<1>6. d = Hand(t, report)
  BY DEF TakeReady
<1> HIDE DEF slice, report, cut, part
<1>7. ready \in Seq(Slice)
  <2>1. rest \in Seq(Slice)
    BY <1>4
  <2> QED BY <1>1, <2>1, ConcatProperties
<1>8. count \in Int
  BY <1>5 DEF IsReceiver
<1> HIDE DEF ready, count, rest
<1>9. /\ IsReceiver(m) /\ m.ready = ready
      /\ m.state = s.state /\ m.told = s.told /\ m.queue = s.queue /\ m.offset = s.offset
      /\ m.crashed = s.crashed /\ m.bufferSize = s.bufferSize /\ m.barrier = s.barrier
      /\ m.rts = s.rts /\ m.assigned = s.assigned /\ m.complete = s.complete
      /\ m.delivered = s.delivered /\ m.window = s.window /\ m.readyBytes = count
      /\ m.lastBarrier = s.lastBarrier
  BY <1>7, <1>8 DEF IsReceiver, InFields
<1> HIDE DEF m
<1>10. /\ IsReceiver(t) /\ Rest(m, t) /\ m.barrier <= t.barrier /\ Fired(m, t)
       /\ m.offset - m.readyBytes + m.window <= t.barrier
  BY <1>9, RaiseAndFire
<1> HIDE DEF t
<1>11. /\ IsReceiver(d) /\ d.delivered = t.delivered \o Contents(report)
       /\ \A f \in InFields \ {"delivered"} : d[f] = t[f]
  BY <1>4, <1>6, <1>10, HandFields
<1>12. /\ d.state = t.state /\ d.told = t.told /\ d.queue = t.queue /\ d.offset = t.offset
       /\ d.crashed = t.crashed /\ d.bufferSize = t.bufferSize /\ d.barrier = t.barrier
       /\ d.rts = t.rts /\ d.assigned = t.assigned /\ d.complete = t.complete /\ d.ready = t.ready
       /\ d.window = t.window /\ d.readyBytes = t.readyBytes /\ d.lastBarrier = t.lastBarrier
  BY <1>11 DEF InFields
<1>14. d.window = s.window /\ d.lastBarrier = s.lastBarrier /\ Spare(d)
  BY <1>9, <1>10, <1>12 DEF Rest, Spare
<1>15. ASSUME Counted(s.ready, s.readyBytes) PROVE Counted(d.ready, d.readyBytes)
  <2>1. d.ready = ready /\ d.readyBytes = count
    BY <1>9, <1>10, <1>12 DEF Rest
  <2>2. s.readyBytes \in Int /\ s.ready \in Seq(Slice)
    BY DEF IsReceiver
  <2>3. Counted(tail, s.readyBytes - Length(slice))
    BY <1>15, <2>2, CountedTail DEF slice
  <2>4. CASE ~part
    <3>1. ready = tail
      BY <1>1, <2>4, ConcatEmptySeq DEF ready, rest
    <3>2. report = slice
      BY <2>4 DEF report
    <3> QED BY <2>1, <2>3, <3>1, <3>2 DEF count
  <2>5. CASE part
    <3>1. ready = <<cut>> \o tail /\ cut \in Slice
      BY <1>4, <2>5 DEF ready, rest
    <3>2. Length(cut) = cut.hi - cut.lo /\ Length(report) = report.hi - report.lo
          /\ report.hi \in Nat
      BY <1>4, <2>5, SliceFields
    <3>3. (s.readyBytes - Length(slice)) + Length(cut) = count
      BY <1>2, <1>4, <2>2, <2>5, <3>2 DEF count
    <3>4. s.readyBytes - Length(slice) \in Int
      BY <1>2, <2>2
    <3> DEFINE left == s.readyBytes - Length(slice)
    <3> HIDE DEF left
    <3>5. Counted(<<cut>> \o tail, left + Length(cut))
      BY <1>1, <2>3, <3>1, <3>4, CountedFront DEF left
    <3> QED BY <2>1, <3>1, <3>3, <3>5 DEF left
  <2> QED BY <2>4, <2>5
<1>13. ASSUME InOrder(s.delivered), ReadyNext(s)
       PROVE  /\ InOrder(d.delivered) /\ ReadyNext(d)
              /\ Len(s.delivered) <= Len(d.delivered)
  <2>1. /\ slice.held = "copied" /\ slice.lo = Len(s.delivered)
        /\ slice.hi <= s.offset /\ Run(tail, slice.hi, s.offset)
    BY <1>13, RunTail DEF IsReceiver, slice, ReadyNext
  <2>2. s.delivered \in Seq(Int) /\ s.offset \in Nat
    BY SegmentsAssumption DEF IsReceiver
  <2>3. InOrder(s.delivered \o Contents(report)) /\ Len(s.delivered \o Contents(report)) = report.hi
    BY <1>4, <1>13, <2>1, <2>2, GivenInOrder
  <2>4. d.delivered = s.delivered \o Contents(report) /\ d.ready = ready /\ d.offset = s.offset
    BY <1>9, <1>10, <1>11, <1>12 DEF Rest
  <2>5. Run(ready, report.hi, s.offset)
    <3>1. CASE part
      <4>1. Run(<<cut>> \o tail, cut.lo, s.offset)
        BY <1>1, <1>4, <2>1, <2>2, <3>1, RunFront
      <4> QED BY <1>4, <3>1, <4>1 DEF ready, rest
    <3>2. CASE ~part
      <4>1. ready = tail
        BY <1>1, <3>2, ConcatEmptySeq DEF ready, rest
      <4> QED BY <1>4, <2>1, <3>2, <4>1
    <3> QED BY <3>1, <3>2
  <2>6. Len(s.delivered) <= report.hi /\ report.hi <= s.offset
    <3>1. report.lo <= report.hi /\ report.hi \in Nat
      BY <1>4, SliceFields
    <3>2. report.hi <= slice.hi
      <4>1. CASE part
        <5>1. cut.lo <= cut.hi
          BY <1>4, <4>1, SliceFields
        <5> QED BY <1>4, <4>1, <5>1
      <4>2. CASE ~part
        BY <1>2, <1>4, <4>2
      <4> QED BY <4>1, <4>2
    <3> QED BY <1>2, <1>4, <2>1, <2>2, <3>1, <3>2
  <2>7. d.readyBytes = d.offset - Len(d.delivered)
    <3>1. d.readyBytes = count /\ count = s.readyBytes - Length(report)
      BY <1>9, <1>10, <1>12 DEF Rest, count
    <3>2. Length(report) = report.hi - report.lo /\ report.lo \in Nat /\ report.hi \in Nat
      BY <1>4, SliceFields
    <3>3. s.readyBytes = s.offset - Len(s.delivered) /\ report.lo = Len(s.delivered)
      BY <1>4, <1>13, <2>1 DEF ReadyNext
    <3> QED BY <2>2, <2>3, <2>4, <3>1, <3>2, <3>3
  <2> QED BY <2>3, <2>4, <2>5, <2>6, <2>7 DEF ReadyNext
<1>16. Fired(s, d)
  BY <1>9, <1>10, <1>12 DEF Rest, Fired, Asks
<1> QED BY <1>9, <1>10, <1>11, <1>12, <1>13, <1>14, <1>15, <1>16 DEF Rest

\* The application reads: it is given what is ready, hears of the end, or waits.
LEMMA ReadFields ==
    ASSUME NEW s, Good(s), s.state \in {"CONNECTED", "SHUTDOWN"}, s.told = "none",
           s.bufferSize = noBuffer, NEW size \in Nat \cup {-1}, NEW d, d = read(s, size)
    PROVE  /\ Good(d) /\ s.barrier <= d.barrier
           /\ d.state = s.state /\ d.queue = s.queue /\ d.offset = s.offset
           /\ d.crashed = s.crashed
           /\ s.state = "CONNECTED" => d.lastBarrier = s.lastBarrier /\ (Books(s) => Books(d))
           /\ \/ d.told = "none"
              \/ /\ d.told = "SHUTDOWN" /\ s.state = "SHUTDOWN" /\ s.queue = {}
                 /\ s.ready = <<>> /\ d.delivered = s.delivered
           /\ Delivery(s) /\ ~s.crashed => Delivery(d) /\ Len(s.delivered) <= Len(d.delivered)
<1>1. IsReceiver(s) /\ IdGiven(s) /\ EndTold(s) /\ HasWindow(s)
  BY DEF Good
<1>5. MinimumWindow \in Nat /\ s.barrier \in Nat
  BY <1>1, SegmentsAssumption DEF IsReceiver
<1>2. CASE s.ready # <<>>
  <2>1. d = TakeReady(s, size)
    BY <1>2 DEF read
  <2>2. /\ IsReceiver(d) /\ s.barrier <= d.barrier /\ Fired(s, d)
        /\ d.state = s.state /\ d.told = s.told /\ d.queue = s.queue
        /\ d.offset = s.offset /\ d.crashed = s.crashed /\ d.bufferSize = s.bufferSize
        /\ d.window = s.window /\ d.lastBarrier = s.lastBarrier /\ Spare(d)
        /\ Counted(s.ready, s.readyBytes) => Counted(d.ready, d.readyBytes)
        /\ InOrder(s.delivered) /\ ReadyNext(s) =>
              /\ InOrder(d.delivered) /\ ReadyNext(d)
              /\ Len(s.delivered) <= Len(d.delivered)
    BY <1>1, <1>2, <2>1, TakeFields
  <2>3. IdGiven(d) /\ EndTold(d) /\ HasWindow(d)
    BY <1>1, <2>2 DEF IdGiven, EndTold, Fired, Resets, HasWindow
  <2>4. ASSUME s.state = "CONNECTED", Books(s) PROVE Books(d)
    <3>1. d.barrier \in Nat
      BY <2>2 DEF IsReceiver
    <3>2. MinimumWindow <= d.barrier
      BY <1>5, <2>2, <2>4, <3>1 DEF Books
    <3> QED BY <2>2, <2>4, <3>2 DEF Books, Fired
  <2> QED BY <2>2, <2>3, <2>4 DEF Good, Delivery, Resets
<1>3. CASE s.ready = <<>> /\ s.state = "SHUTDOWN" /\ s.queue = {}
  <2> DEFINE m == [Complete(s) EXCEPT !.told = "SHUTDOWN"]
  <2>1. d = fireEvent(RaiseBarrier(m))
    BY <1>3 DEF read
  <2>2. /\ IsReceiver(m) /\ Rest([s EXCEPT !.told = "SHUTDOWN"], m) /\ m.barrier = s.barrier
        /\ m.told = "SHUTDOWN" /\ ~m.assigned /\ m.complete /\ m.rts = s.rts
    BY <1>1 DEF Complete, IsReceiver, InFields, Rest, Endings
  <2>3. /\ m.state = s.state /\ m.queue = s.queue /\ m.ready = s.ready /\ m.offset = s.offset
        /\ m.crashed = s.crashed /\ m.bufferSize = s.bufferSize /\ m.delivered = s.delivered
        /\ m.readyBytes = s.readyBytes
    BY <1>1, <2>2 DEF Rest, IsReceiver, InFields
  <2> HIDE DEF m
  <2>4. IsReceiver(d) /\ Rest(m, d) /\ m.barrier <= d.barrier /\ Fired(m, d)
    BY <2>1, <2>2, RaiseAndFire
  <2>5. IdGiven(d) /\ EndTold(d) /\ HasWindow(d)
    BY <1>1, <1>3, <2>2, <2>3, <2>4 DEF IdGiven, EndTold, Fired, Rest, Resets, HasWindow
  <2>6. Len(s.delivered) \in Nat
    BY <1>1 DEF IsReceiver
  <2> QED BY <1>3, <2>2, <2>3, <2>4, <2>5, <2>6 DEF Good, Delivery, ReadyNext, Rest, Resets
<1>4. CASE s.ready = <<>> /\ ~(s.state = "SHUTDOWN" /\ s.queue = {})
  <2> DEFINE m == [s EXCEPT !.bufferSize = size]
  <2>1. d = fireEvent(RaiseBarrier(m))
    BY <1>4 DEF read
  <2>2. /\ IsReceiver(m) /\ m.barrier = s.barrier /\ m.bufferSize = size
        /\ m.told = s.told /\ m.assigned = s.assigned /\ m.complete = s.complete /\ m.rts = s.rts
        /\ m.state = s.state /\ m.queue = s.queue /\ m.ready = s.ready /\ m.offset = s.offset
        /\ m.crashed = s.crashed /\ m.delivered = s.delivered
        /\ m.window = s.window /\ m.readyBytes = s.readyBytes
        /\ m.lastBarrier = s.lastBarrier
    BY <1>1 DEF IsReceiver, InFields
  <2> HIDE DEF m
  <2>3. /\ IsReceiver(d) /\ Rest(m, d) /\ m.barrier <= d.barrier /\ Fired(m, d)
        /\ m.offset - m.readyBytes + m.window <= d.barrier
    BY <2>1, <2>2, RaiseAndFire
  <2>4. IdGiven(d) /\ EndTold(d)
    BY <1>1, <1>4, <2>2, <2>3 DEF IdGiven, EndTold, Fired, Rest, Resets
  <2>6. HasWindow(d)
    BY <1>1, <2>2, <2>3 DEF HasWindow, Spare, Rest
  <2>5. Len(s.delivered) \in Nat
    BY <1>1 DEF IsReceiver
  <2>7. ASSUME s.state = "CONNECTED", Books(s) PROVE Books(d)
    <3>1. d.barrier \in Nat
      BY <2>3 DEF IsReceiver
    <3>2. MinimumWindow <= d.barrier
      BY <1>5, <2>2, <2>3, <2>7, <3>1 DEF Books
    <3> QED BY <2>2, <2>3, <2>7, <3>2 DEF Books, Fired, Rest
  <2> QED BY <2>2, <2>3, <2>4, <2>5, <2>6, <2>7 DEF Good, Delivery, ReadyNext, Rest, Resets
<1> QED BY <1>2, <1>3, <1>4

-----------------------------------------------------------------------------
(***************************************************************************)
(* Data arrive.                                                              *)
(***************************************************************************)
\* The books stay right, and what came is not forgotten.
Carries(s, d) ==
    /\ Counted(s.ready, s.readyBytes) => Counted(d.ready, d.readyBytes)
    /\ \A b \in Nat : Brought(s, b) => Brought(d, b)

\* The first k slices of order are no longer waiting, or are beyond the offset.
Swept(order, k, s) == \A i \in 1..k : order[i] \notin s.queue \/ s.offset < order[i].lo

\* What transfers of waiting slices keep.
Transferred(s, d) ==
    /\ IsReceiver(d) /\ d.queue \subseteq s.queue /\ s.offset <= d.offset
    /\ d.state = s.state /\ d.told = s.told /\ d.barrier = s.barrier
    /\ d.lastBarrier = s.lastBarrier /\ d.window = s.window /\ d.bufferSize = s.bufferSize
    /\ d.rts = s.rts /\ d.assigned = s.assigned /\ d.complete = s.complete
    /\ d.delivered = s.delivered
    /\ d.crashed \/ d.readyBytes - d.offset = s.readyBytes - s.offset
    /\ d.crashed \/ Carries(s, d)
    /\ \A from : Run(s.ready, from, s.offset) => Run(d.ready, from, d.offset)
    /\ \A top \in Nat : s.offset <= top /\ (\A c \in s.queue : c.hi <= top) => d.offset <= top

\* What the transfer of one slice, c, does.
Taking(s, c, d) ==
    /\ IsReceiver(d) /\ d.queue \subseteq s.queue /\ s.offset <= d.offset
    /\ d.state = s.state /\ d.told = s.told /\ d.barrier = s.barrier
    /\ d.lastBarrier = s.lastBarrier /\ d.window = s.window /\ d.bufferSize = s.bufferSize
    /\ d.rts = s.rts /\ d.assigned = s.assigned /\ d.complete = s.complete
    /\ d.delivered = s.delivered
    /\ d.crashed \/ (~s.crashed /\ d.readyBytes - d.offset = s.readyBytes - s.offset)
    /\ d.crashed \/ Carries(s, d)
    /\ d.crashed \/ (c.lo <= s.offset /\ c \notin d.queue) \/ (s.offset < c.lo /\ d = s)
    /\ \A from : Run(s.ready, from, s.offset) => Run(d.ready, from, d.offset)
    /\ d.offset = s.offset \/ d.offset = c.hi

\* A slice that is not among those that wait could reach beyond them.
LEMMA TransferFields ==
    ASSUME NEW s, IsReceiver(s), NEW c \in Waiting, NEW d, d = Transfer(s, c)
    PROVE  Taking(s, c, d)
<1>1. /\ c.lo \in Nat /\ c.hi \in Nat /\ c.hi <= MaxBytes
      /\ s.offset \in Nat /\ s.offset <= MaxBytes
      /\ \A x \in s.queue : x.lo \in Nat /\ x.hi \in Nat
  BY SegmentsAssumption DEF Waiting, IsReceiver
<1>2. CASE s.crashed \/ c.lo > s.offset
  <2>1. d = s
    BY <1>2 DEF Transfer
  <2>2. d.crashed \/ s.offset < c.lo
    BY <1>1, <1>2, <2>1
  <2>3. Carries(s, d)
    BY <2>1 DEF Carries
  <2> QED BY <1>1, <2>1, <2>2, <2>3 DEF Taking
<1>3. CASE ~(s.crashed \/ c.lo > s.offset) /\ c.hi < s.offset
  <2>1. d = [s EXCEPT !.crashed = TRUE]
    BY <1>3 DEF Transfer
  <2> QED BY <1>1, <2>1 DEF Taking, IsReceiver, InFields
<1>4. CASE ~(s.crashed \/ c.lo > s.offset) /\ ~(c.hi < s.offset)
  <2> DEFINE slice == [lo |-> s.offset, hi |-> c.hi, held |-> "copied"]
             queue == s.queue \ {c}
             bytes == s.queuedBytes - Length(c)
             ready == Append(s.ready, slice)
             count == s.readyBytes + c.hi - s.offset
             hi == c.hi
             m == [s EXCEPT !.queue = queue, !.queuedBytes = bytes]
             e == [m EXCEPT !.ready = ready, !.readyBytes = count, !.offset = hi]
  <2>1. s.offset <= c.hi
    BY <1>1, <1>4
  <2>2. slice \in Slice /\ slice.lo = s.offset /\ slice.hi = c.hi /\ slice.held = "copied"
    BY <1>1, <2>1, SliceMade
  <2>3. d = e
    BY <1>4 DEF Transfer
  <2> HIDE DEF slice
  <2>4. queue \subseteq s.queue /\ IsFiniteSet(queue)
    BY FS_RemoveElement DEF IsReceiver
  <2>5. ready \in Seq(Slice)
    BY <2>2, AppendProperties DEF IsReceiver
  <2>6. count \in Int /\ hi \in 0..MaxBytes
    BY <1>1, SegmentsAssumption DEF IsReceiver
  <2> HIDE DEF queue, bytes, ready, count, hi
  <2>7. /\ IsReceiver(m) /\ m.queue = queue
        /\ m.state = s.state /\ m.told = s.told /\ m.barrier = s.barrier
        /\ m.lastBarrier = s.lastBarrier /\ m.window = s.window /\ m.bufferSize = s.bufferSize
        /\ m.rts = s.rts /\ m.assigned = s.assigned /\ m.complete = s.complete
        /\ m.delivered = s.delivered /\ m.crashed = s.crashed
    BY <2>4 DEF IsReceiver, InFields
  <2> HIDE DEF m
  <2>8. /\ IsReceiver(e) /\ e.queue = m.queue /\ e.ready = ready /\ e.offset = hi
        /\ e.state = m.state /\ e.told = m.told /\ e.barrier = m.barrier
        /\ e.lastBarrier = m.lastBarrier /\ e.window = m.window /\ e.bufferSize = m.bufferSize
        /\ e.rts = m.rts /\ e.assigned = m.assigned /\ e.complete = m.complete
        /\ e.delivered = m.delivered /\ e.crashed = m.crashed /\ e.readyBytes = count
    BY <2>5, <2>6, <2>7 DEF IsReceiver, InFields
  <2>9. ASSUME NEW from, Run(s.ready, from, s.offset) PROVE Run(ready, from, hi)
    <3>1. s.ready \in Seq(Slice)
      BY DEF IsReceiver
    <3> QED BY <2>2, <2>9, <3>1, RunAppend DEF ready, hi
  <2>12. ASSUME Counted(s.ready, s.readyBytes) PROVE Counted(ready, count)
    <3>1. s.ready \in Seq(Slice) /\ s.readyBytes \in Int
      BY DEF IsReceiver
    <3>2. Counted(Append(s.ready, slice), s.readyBytes + Length(slice))
      BY <2>2, <2>12, <3>1, CountedAppend
    <3>3. s.readyBytes + Length(slice) = count
      BY <1>1, <2>2, <3>1 DEF Length, count
    <3> QED BY <3>2, <3>3 DEF ready
  <2> HIDE DEF e
  <2>13. ASSUME NEW b \in Nat, Brought(s, b) PROVE Brought(e, b)
    <3>1. e.queue = s.queue \ {c} /\ e.offset = c.hi
      BY <2>7, <2>8 DEF queue, hi
    <3>2. CASE b < s.offset
      BY <1>1, <2>1, <3>1, <3>2 DEF Brought
    <3>3. CASE \E x \in s.queue : x.lo <= b /\ b < x.hi
      <4>1. PICK x \in s.queue : x.lo <= b /\ b < x.hi
        BY <3>3
      <4>2. CASE x = c
        BY <3>1, <4>1, <4>2 DEF Brought
      <4>3. CASE x # c
        BY <3>1, <4>1, <4>3 DEF Brought
      <4> QED BY <4>2, <4>3
    <3> QED BY <2>13, <3>2, <3>3 DEF Brought
  <2>14. Carries(s, e)
    BY <2>8, <2>12, <2>13 DEF Carries
  <2>15. c.lo <= s.offset /\ c \notin e.queue
    BY <1>1, <1>4, <2>7, <2>8 DEF queue
  <2>10. hi = c.hi /\ s.offset <= hi
    BY <2>1 DEF hi
  <2>11. e.readyBytes - e.offset = s.readyBytes - s.offset
    <3>1. s.readyBytes \in Int
      BY DEF IsReceiver
    <3> QED BY <1>1, <2>8, <2>10, <3>1 DEF count
  <2> QED BY <1>4, <2>3, <2>4, <2>7, <2>8, <2>9, <2>10, <2>11, <2>14, <2>15 DEF Taking
<1> QED BY <1>2, <1>3, <1>4

LEMMA OrderIsOfQueue ==
    ASSUME NEW Q, IsFiniteSet(Q), NEW order \in Orders(Q)
    PROVE  \E m \in Nat :
              /\ DOMAIN order = 1..m /\ \A k \in 1..m : order[k] \in Q
              /\ \A c \in Q : \E k \in 1..m : order[k] = c
              /\ \A i, j \in 1..m : i < j => order[i].lo <= order[j].lo
<1> DEFINE m == Cardinality(Q)
<1>1. m \in Nat
  BY FS_CardinalityType
<1>2. /\ order \in [1..m -> Q] /\ \A i, j \in 1..m : i # j => order[i] # order[j]
      /\ \A i, j \in 1..Len(order) : i < j => order[i].lo <= order[j].lo
  BY DEF Orders, SetToSeqs
<1>3. IsFiniteSet(1..m) /\ Cardinality(1..m) = m
  <2>1. 1 \in Int /\ m \in Int /\ IF 1 > m THEN 0 = m ELSE m - 1 + 1 = m
    BY <1>1
  <2> HIDE DEF m
  <2> QED BY <2>1, FS_Interval
<1>4. order \in Injection(1..m, Q)
  BY <1>2 DEF Injection, IsInjective
<1>5. order \in Surjection(1..m, Q)
  BY <1>3, <1>4, FS_Injection
<1>6. \A c \in Q : \E k \in 1..m : order[k] = c
  BY <1>5 DEF Surjection
<1>7. Len(order) = m
  <2> HIDE DEF m
  <2> QED BY <1>1, <1>2
<1> QED BY <1>1, <1>2, <1>6, <1>7

LEMMA TransferAll ==
    ASSUME NEW s, IsReceiver(s), NEW order \in Orders(s.queue),
           NEW d, d = TransferEach(s, order)
    PROVE  Transferred(s, d) /\ (d.crashed \/ \A c \in d.queue : d.offset < c.lo)
<1>1. PICK m \in Nat :
          /\ DOMAIN order = 1..m /\ \A k \in 1..m : order[k] \in s.queue
          /\ \A c \in s.queue : \E k \in 1..m : order[k] = c
          /\ \A i, j \in 1..m : i < j => order[i].lo <= order[j].lo
  BY OrderIsOfQueue DEF IsReceiver
<1>2. PICK at : /\ at[0] = s /\ at[m] = d
                /\ \A k \in 1..m : at[k] = Transfer(at[k - 1], order[k])
  BY <1>1, FoldSteps
<1> DEFINE Right(k) == Transferred(s, at[k]) /\ (at[k].crashed \/ Swept(order, k, at[k]))
           Bad == {k \in 0..m : ~Right(k)}
<1>3. Bad = {}
  <2> SUFFICES ASSUME Bad # {} PROVE FALSE
    OBVIOUS
  <2>1. Bad \subseteq Nat
    OBVIOUS
  <2>2. PICK k \in Bad : \A j \in Bad : k <= j
    BY <2>1, LeastNatural
  <2>3. k \in 0..m /\ ~Right(k)
    BY <2>2
  <2>4. k # 0
    <3>1. s.offset \in Nat
      BY SegmentsAssumption DEF IsReceiver
    <3>2. Carries(s, s)
      BY DEF Carries
    <3>3. Transferred(s, s)
      BY <3>1, <3>2 DEF Transferred
    <3>4. Swept(order, 0, s)
      BY DEF Swept
    <3> QED BY <1>2, <2>3, <3>3, <3>4
  <2>5. k \in 1..m /\ k - 1 \in 0..m /\ ~(k <= k - 1)
    BY <2>3, <2>4
  <2>6. Right(k - 1)
    BY <2>2, <2>5
  <2> DEFINE a == at[k - 1]
             b == at[k]
             c == order[k]
  <2>7. b = Transfer(a, c) /\ c \in s.queue /\ c \in Waiting
    BY <1>1, <1>2, <2>5 DEF IsReceiver
  <2>8. /\ Transferred(s, a) /\ (a.crashed \/ Swept(order, k - 1, a))
        /\ ~(Transferred(s, b) /\ (b.crashed \/ Swept(order, k, b)))
    BY <2>3, <2>6
  <2> HIDE DEF a, b, c
  <2>9. IsReceiver(a)
    BY <2>8 DEF Transferred
  <2>10. /\ IsReceiver(b) /\ b.queue \subseteq a.queue /\ a.offset <= b.offset
         /\ b.state = a.state /\ b.told = a.told /\ b.barrier = a.barrier
         /\ b.lastBarrier = a.lastBarrier /\ b.window = a.window /\ b.bufferSize = a.bufferSize
         /\ b.rts = a.rts /\ b.assigned = a.assigned /\ b.complete = a.complete
         /\ b.delivered = a.delivered
         /\ b.crashed \/ (~a.crashed /\ b.readyBytes - b.offset = a.readyBytes - a.offset)
         /\ b.crashed \/ Carries(a, b)
         /\ b.crashed \/ (c.lo <= a.offset /\ c \notin b.queue) \/ (a.offset < c.lo /\ b = a)
         /\ \A from : Run(a.ready, from, a.offset) => Run(b.ready, from, b.offset)
         /\ b.offset = a.offset \/ b.offset = c.hi
    <3>1. Taking(a, c, b)
      BY <2>7, <2>9, TransferFields
    <3> QED BY <3>1 DEF Taking
  <2>11. s.offset \in Nat /\ a.offset \in Nat /\ b.offset \in Nat
    BY <2>9, <2>10, SegmentsAssumption DEF IsReceiver
  <2>12. \A top \in Nat : s.offset <= top /\ (\A x \in s.queue : x.hi <= top) => b.offset <= top
    <3> SUFFICES ASSUME NEW top \in Nat, s.offset <= top, \A x \in s.queue : x.hi <= top
                 PROVE  b.offset <= top
      OBVIOUS
    <3>1. a.offset <= top
      BY <2>8 DEF Transferred
    <3>2. c.hi <= top
      BY <2>7
    <3> QED BY <2>10, <3>1, <3>2
  <2>13. s.offset <= b.offset
    BY <2>8, <2>10, <2>11 DEF Transferred
  <2>14. \A from : Run(s.ready, from, s.offset) => Run(b.ready, from, b.offset)
    BY <2>8, <2>10 DEF Transferred
  <2>15. b.crashed \/ b.readyBytes - b.offset = s.readyBytes - s.offset
    BY <2>8, <2>10 DEF Transferred
  <2>16. /\ b.queue \subseteq s.queue /\ b.state = s.state /\ b.told = s.told
         /\ b.barrier = s.barrier /\ b.lastBarrier = s.lastBarrier /\ b.window = s.window
         /\ b.bufferSize = s.bufferSize /\ b.rts = s.rts /\ b.assigned = s.assigned
         /\ b.complete = s.complete /\ b.delivered = s.delivered
    BY <2>8, <2>10 DEF Transferred
  <2>18. b.crashed \/ Carries(s, b)
    BY <2>8, <2>10 DEF Transferred, Carries
  <2>17. Transferred(s, b)
    BY <2>10, <2>12, <2>13, <2>14, <2>15, <2>16, <2>18 DEF Transferred
  <2>19. ASSUME ~b.crashed, NEW i \in 1..k PROVE order[i] \notin b.queue \/ b.offset < order[i].lo
    <3>1. Swept(order, k - 1, a)
      BY <2>8, <2>10, <2>19
    <3>2. \A x \in s.queue : x.lo \in Nat
      BY SegmentsAssumption DEF IsReceiver, Waiting
    <3>3. CASE i = k
      BY <2>10, <2>19, <3>3 DEF c
    <3>4. CASE i # k
      <4>1. i \in 1..(k - 1) /\ i \in 1..m /\ k \in 1..m /\ i < k
        BY <2>5, <3>4
      <4>2. order[i] \notin a.queue \/ a.offset < order[i].lo
        BY <3>1, <4>1 DEF Swept
      <4>3. order[i].lo <= c.lo /\ order[i].lo \in Nat /\ c.lo \in Nat
        BY <1>1, <2>7, <3>2, <4>1 DEF c
      <4>4. CASE c.lo <= a.offset
        BY <2>10, <2>11, <4>2, <4>3, <4>4
      <4>5. CASE ~(c.lo <= a.offset)
        BY <2>10, <2>19, <4>2, <4>5
      <4> QED BY <4>4, <4>5
    <3> QED BY <3>3, <3>4
  <2>20. b.crashed \/ Swept(order, k, b)
    BY <2>19 DEF Swept
  <2> QED BY <2>8, <2>17, <2>20
<1>4. m \in 0..m
  OBVIOUS
<1>5. Transferred(s, d) /\ (d.crashed \/ Swept(order, m, d))
  BY <1>2, <1>3, <1>4
<1>6. ASSUME ~d.crashed, NEW c \in d.queue PROVE d.offset < c.lo
  <2>1. c \in s.queue
    BY <1>5 DEF Transferred
  <2>2. PICK k \in 1..m : order[k] = c
    BY <1>1, <2>1
  <2> QED BY <1>5, <1>6, <2>2 DEF Swept
<1> QED BY <1>5, <1>6

\* The books stay right, what came is not forgotten, and the bytes lo .. hi - 1 came.
Admits(s, lo, hi, d) ==
    /\ d.lastBarrier = s.lastBarrier
    /\ Books(s) => Books(d)
    /\ \A b \in Nat : Brought(s, b) \/ (lo <= b /\ b < hi) => Brought(d, b)

\* A stream that still waits for data.
Live(s) == s.state = "CONNECTED" /\ ~s.crashed

\* What transferQueue does: the reader takes the first recvd bytes of the new ones,
\* which end at hi, and tail holds the others.
Queued(s, tail, recvd, hi, d) ==
    /\ IsReceiver(d) /\ s.barrier <= d.barrier /\ s.offset <= d.offset
    /\ d.state = s.state /\ d.told = s.told /\ d.delivered = s.delivered
    /\ d.queue \subseteq s.queue
    /\ \/ d.crashed /\ d = [s EXCEPT !.crashed = TRUE]
       \/ /\ hi <= d.offset /\ d.bufferSize = noBuffer /\ ~d.crashed
          /\ d.window = s.window /\ Spare(d)
          /\ s.state \notin Resets =>
                d.readyBytes - d.offset = s.readyBytes - (s.offset + recvd)
          /\ s.state = "CONNECTED" => Admits(s, 0, hi, d)
          /\ \E m : /\ Fired(m, d) /\ m.state = s.state /\ m.queue = d.queue
                    /\ m.rts = s.rts /\ m.assigned = s.assigned /\ m.complete = s.complete
          /\ s.state \in Resets => d.ready = <<>>
          /\ s.state \notin Resets /\ s.ready = <<>>
                /\ (tail # <<>> => tail[1].held = "copied") =>
                Run(d.ready, s.offset + recvd, d.offset)
          /\ \A top \in Nat : hi <= top /\ (\A c \in s.queue : c.hi <= top) =>
                d.offset <= top

LEMMA TransferQueueFields ==
    ASSUME NEW s, IsReceiver(s), NEW tail, NEW recvd \in Nat, NEW hi \in 0..MaxBytes,
           \/ tail = <<>> /\ s.offset + recvd = hi
           \/ \E c \in Slice : tail = <<c>> /\ c.lo = s.offset + recvd /\ c.hi = hi,
           s.offset <= hi, NEW order \in Orders(s.queue),
           NEW d, d = transferQueue(s, tail, recvd, order)
    PROVE  Queued(s, tail, recvd, hi, d)
<1> DEFINE len   == IF tail = <<>> THEN 0 ELSE Length(tail[1])
           ready == tail \o s.ready
           count == s.readyBytes + len
           upto  == s.offset + recvd + len
           begun == [s EXCEPT !.ready = ready, !.readyBytes = count, !.offset = upto]
           moved == TransferEach(begun, order)
           kept  == IF s.state \in Resets
                    THEN [moved EXCEPT !.ready = <<>>, !.readyBytes = s.readyBytes]
                    ELSE moved
           m     == [kept EXCEPT !.bufferSize = noBuffer]
<1>1. d = IF moved.crashed THEN [s EXCEPT !.crashed = TRUE] ELSE fireEvent(RaiseBarrier(m))
  <2>1. begun = [s EXCEPT
            !.ready = tail \o @,
            !.readyBytes = @ + (IF tail = <<>> THEN 0 ELSE Length(tail[1])),
            !.offset = @ + recvd + (IF tail = <<>> THEN 0 ELSE Length(tail[1]))]
    OBVIOUS
  <2> HIDE DEF begun
  <2> QED BY <2>1 DEF transferQueue, TransferEach, Resets
<1>2. /\ s.offset \in Nat /\ hi \in Nat /\ hi <= MaxBytes /\ s.ready \in Seq(Slice)
      /\ s.readyBytes \in Int /\ <<>> \in Seq(Slice)
  BY SegmentsAssumption DEF IsReceiver
<1>3. ready \in Seq(Slice) /\ len \in Nat /\ upto = hi
      /\ (s.ready = <<>> /\ (tail # <<>> => tail[1].held = "copied") =>
             Run(ready, s.offset + recvd, hi))
      /\ (Counted(s.ready, s.readyBytes) => Counted(ready, s.readyBytes + len))
  <2>1. CASE tail = <<>> /\ s.offset + recvd = hi
    <3>1. len = 0 /\ upto = hi
      BY <1>2, <2>1
    <3>2. ready = s.ready
      BY <1>2, <2>1, ConcatEmptySeq
    <3>3. s.ready = <<>> => Run(ready, s.offset + recvd, hi)
      <4> SUFFICES ASSUME s.ready = <<>> PROVE Run(<<>>, hi, hi)
        BY <2>1, <3>2
      <4>1. Len(<<>>) = 0 /\ 1..0 = {} /\ 1..(0 - 1) = {}
        OBVIOUS
      <4> QED BY <4>1 DEF Run
    <3>4. s.readyBytes + len = s.readyBytes
      BY <1>2, <3>1
    <3> QED BY <1>2, <3>1, <3>2, <3>3, <3>4
  <2>2. ASSUME NEW c \in Slice, tail = <<c>>, c.lo = s.offset + recvd, c.hi = hi
        PROVE  ready \in Seq(Slice) /\ len \in Nat /\ upto = hi
               /\ (s.ready = <<>> /\ (tail # <<>> => tail[1].held = "copied") =>
                      Run(ready, s.offset + recvd, hi))
               /\ (Counted(s.ready, s.readyBytes) => Counted(ready, s.readyBytes + len))
    <3>1. tail \in Seq(Slice) /\ tail # <<>> /\ tail[1] = c /\ Len(tail) = 1
      BY <2>2
    <3>2. len = hi - (s.offset + recvd) /\ len \in Nat
      BY <2>2, <3>1, SliceFields
    <3>3. upto = hi
      BY <1>2, <3>2
    <3>4. ready \in Seq(Slice)
      BY <1>2, <3>1, ConcatProperties
    <3>5. ASSUME s.ready = <<>>, c.held = "copied" PROVE Run(ready, s.offset + recvd, hi)
      <4>1. ready = tail
        BY <3>1, <3>5, ConcatEmptySeq
      <4>2. 1..Len(tail) = {1} /\ 1..(Len(tail) - 1) = {}
        BY <3>1
      <4>3. hi <= hi
        BY <1>2
      <4>4. Run(tail, s.offset + recvd, hi)
        BY <2>2, <3>1, <3>5, <4>2, <4>3 DEF Run
      <4> QED BY <4>1, <4>4
    <3>6. ASSUME Counted(s.ready, s.readyBytes) PROVE Counted(ready, s.readyBytes + len)
      <4>1. len = Length(c) /\ ready = <<c>> \o s.ready
        BY <2>2, <3>1
      <4> QED BY <1>2, <2>2, <3>6, <4>1, CountedFront
    <3> QED BY <3>1, <3>2, <3>3, <3>4, <3>5, <3>6
  <2> QED BY <2>1, <2>2
<1> HIDE DEF ready
<1> DEFINE sum == count
<1>4. count \in Int /\ upto \in 0..MaxBytes
  BY <1>2, <1>3
<1>11. Counted(s.ready, s.readyBytes) => Counted(ready, count)
  BY <1>3
<1> HIDE DEF count, upto, len
<1>5. /\ IsReceiver(begun) /\ begun.ready = ready /\ begun.offset = upto
      /\ begun.state = s.state /\ begun.told = s.told /\ begun.barrier = s.barrier
      /\ begun.queue = s.queue /\ begun.bufferSize = s.bufferSize
      /\ begun.rts = s.rts /\ begun.assigned = s.assigned /\ begun.complete = s.complete
      /\ begun.delivered = s.delivered /\ begun.window = s.window
      /\ begun.readyBytes - begun.offset = s.readyBytes - (s.offset + recvd)
      /\ begun.lastBarrier = s.lastBarrier /\ begun.readyBytes = count
  <2>1. count - upto = s.readyBytes - (s.offset + recvd)
    BY <1>2, <1>3 DEF count, upto
  <2>2. begun.readyBytes = count /\ begun.offset = upto
    BY DEF IsReceiver, InFields
  <2>3. /\ IsReceiver(begun) /\ begun.ready = ready
      /\ begun.state = s.state /\ begun.told = s.told /\ begun.barrier = s.barrier
      /\ begun.queue = s.queue /\ begun.bufferSize = s.bufferSize
      /\ begun.rts = s.rts /\ begun.assigned = s.assigned /\ begun.complete = s.complete
      /\ begun.delivered = s.delivered /\ begun.window = s.window
      /\ begun.lastBarrier = s.lastBarrier
    BY <1>3, <1>4 DEF IsReceiver, InFields
  <2> QED BY <2>1, <2>2, <2>3
<1> HIDE DEF begun
<1>6. Transferred(begun, moved) /\ (moved.crashed \/ \A c \in moved.queue : moved.offset < c.lo)
  BY <1>5, TransferAll
<1> HIDE DEF moved
<1>7. /\ IsReceiver(kept) /\ kept.queue = moved.queue /\ kept.offset = moved.offset
      /\ kept.state = s.state /\ kept.told = s.told /\ kept.barrier = s.barrier
      /\ kept.rts = s.rts /\ kept.assigned = s.assigned /\ kept.complete = s.complete
      /\ kept.delivered = s.delivered /\ kept.window = s.window
      /\ kept.crashed = moved.crashed /\ kept.lastBarrier = s.lastBarrier
      /\ s.state \notin Resets => kept.readyBytes = moved.readyBytes
      /\ kept.ready = IF s.state \in Resets THEN <<>> ELSE moved.ready
  <2>1. IsReceiver(moved)
    BY <1>6 DEF Transferred
  <2> QED BY <1>2, <1>5, <1>6, <2>1 DEF Transferred, IsReceiver, InFields
<1> HIDE DEF kept
<1>8. /\ IsReceiver(m) /\ m.queue = kept.queue /\ m.offset = kept.offset
      /\ m.state = kept.state /\ m.told = kept.told /\ m.barrier = kept.barrier
      /\ m.rts = kept.rts /\ m.assigned = kept.assigned /\ m.complete = kept.complete
      /\ m.delivered = kept.delivered /\ m.ready = kept.ready /\ m.bufferSize = noBuffer
      /\ m.window = kept.window /\ m.readyBytes = kept.readyBytes /\ m.crashed = kept.crashed
      /\ m.lastBarrier = kept.lastBarrier
  BY <1>7 DEF IsReceiver, InFields
<1> HIDE DEF m
<1>9. CASE moved.crashed
  <2>1. d = [s EXCEPT !.crashed = TRUE]
    BY <1>1, <1>9
  <2>2. /\ IsReceiver(d) /\ d.crashed /\ d.barrier = s.barrier /\ d.offset = s.offset
        /\ d.state = s.state /\ d.told = s.told /\ d.delivered = s.delivered
        /\ d.queue = s.queue
    BY <2>1 DEF IsReceiver, InFields
  <2>3. s.barrier \in Nat
    BY DEF IsReceiver
  <2> QED BY <1>2, <2>1, <2>2, <2>3 DEF Queued
<1>10. CASE ~moved.crashed
  <2>1. d = fireEvent(RaiseBarrier(m))
    BY <1>1, <1>10
  <2>2. /\ IsReceiver(d) /\ Rest(m, d) /\ m.barrier <= d.barrier /\ Fired(m, d)
        /\ m.offset - m.readyBytes + m.window <= d.barrier
    BY <1>8, <2>1, RaiseAndFire
  <2>3. /\ d.offset = moved.offset /\ d.queue = moved.queue /\ d.ready = kept.ready
        /\ d.state = s.state /\ d.told = s.told /\ d.delivered = s.delivered
        /\ d.bufferSize = noBuffer /\ s.barrier <= d.barrier
    BY <1>7, <1>8, <2>2 DEF Rest
  <2>4. /\ Fired(m, d) /\ m.state = s.state /\ m.queue = d.queue
        /\ m.rts = s.rts /\ m.assigned = s.assigned /\ m.complete = s.complete
    BY <1>7, <1>8, <2>2, <2>3
  <2>5. hi <= moved.offset /\ moved.offset \in Nat
    BY <1>3, <1>5, <1>6, SegmentsAssumption DEF Transferred, IsReceiver
  <2>6. s.offset <= d.offset /\ hi <= d.offset
    BY <1>2, <2>3, <2>5
  <2>7. d.queue \subseteq s.queue
    BY <1>5, <1>6, <2>3 DEF Transferred
  <2>8. ASSUME s.state \notin Resets, s.ready = <<>>, tail # <<>> => tail[1].held = "copied"
        PROVE  Run(d.ready, s.offset + recvd, d.offset)
    <3>1. Run(begun.ready, s.offset + recvd, begun.offset)
      BY <1>3, <1>5, <2>8
    <3>2. Run(moved.ready, s.offset + recvd, moved.offset)
      BY <1>6, <3>1 DEF Transferred
    <3> QED BY <1>7, <2>3, <2>8, <3>2
  <2>9. s.state \in Resets => d.ready = <<>>
    BY <1>7, <2>3
  <2>10. \A top \in Nat : hi <= top /\ (\A c \in s.queue : c.hi <= top) => d.offset <= top
    BY <1>3, <1>5, <1>6, <2>3 DEF Transferred
  <2>11. ~d.crashed /\ d.window = s.window /\ Spare(d)
    BY <1>7, <1>8, <1>10, <2>2 DEF Rest, Spare
  <2>12. s.state \notin Resets => d.readyBytes - d.offset = s.readyBytes - (s.offset + recvd)
    <3>1. moved.readyBytes - moved.offset = begun.readyBytes - begun.offset
      BY <1>6, <1>10 DEF Transferred
    <3>2. s.state \notin Resets => d.readyBytes = moved.readyBytes
      BY <1>7, <1>8, <2>2 DEF Rest
    <3> QED BY <1>5, <2>3, <3>1, <3>2
  <2>13. ASSUME s.state = "CONNECTED" PROVE Admits(s, 0, hi, d)
    <3>1. /\ d.ready = moved.ready /\ d.readyBytes = moved.readyBytes
          /\ d.lastBarrier = s.lastBarrier
      BY <1>7, <1>8, <2>2, <2>13 DEF Rest, Resets
    <3>2. Carries(begun, moved)
      BY <1>6, <1>10 DEF Transferred
    <3>3. \A c \in d.queue : d.offset < c.lo
      BY <1>6, <1>10, <2>3
    <3>4. Asks(d)
      BY <1>7, <1>8, <2>2, <2>13 DEF Fired
    <3>5. ASSUME Books(s) PROVE Books(d)
      <4>1. Counted(d.ready, d.readyBytes)
        BY <1>5, <1>11, <3>1, <3>2, <3>5 DEF Carries, Books
      <4>2. s.barrier \in Nat /\ d.barrier \in Nat /\ MinimumWindow \in Nat
        BY <2>2, SegmentsAssumption DEF IsReceiver
      <4>3. MinimumWindow <= d.barrier
        BY <2>3, <3>5, <4>2 DEF Books
      <4> QED BY <3>3, <3>4, <4>1, <4>3 DEF Books
    <3>6. ASSUME NEW b \in Nat, Brought(s, b) \/ b < hi PROVE Brought(d, b)
      <4>1. Brought(begun, b)
        BY <1>2, <1>3, <1>5, <3>6 DEF Brought
      <4>2. Brought(moved, b)
        BY <3>2, <4>1 DEF Carries
      <4> QED BY <2>3, <4>2 DEF Brought
    <3> QED BY <3>1, <3>5, <3>6 DEF Admits
  <2> QED BY <2>2, <2>3, <2>4, <2>6, <2>7, <2>8, <2>9, <2>10, <2>11, <2>12, <2>13 DEF Queued
<1> QED BY <1>9, <1>10

\* What the arrival of the bytes up to hi changes.
Fed(s, hi, d) ==
    /\ Good(d) /\ s.barrier <= d.barrier /\ s.offset <= d.offset
    /\ d.state = s.state /\ d.told = s.told
    /\ \A top \in Nat : s.offset <= top /\ hi <= top /\ (\A c \in s.queue : c.hi <= top) =>
          d.offset <= top /\ \A c \in d.queue : c.hi <= top
    /\ s.bufferSize = noBuffer => d.delivered = s.delivered
    /\ Delivery(s) /\ ~s.crashed /\ (s.bufferSize # noBuffer \/ s.state \in Resets) =>
          /\ Delivery(d) /\ Len(s.delivered) <= Len(d.delivered)
          /\ Len(d.delivered) = Len(s.delivered) \/ Len(d.delivered) <= hi

\* The stream after transferQueue, before the reader is called back.
\* What transferQueue leaves: what is in order beyond the recvd bytes is ready.
Requeued(s, tail, recvd, hi, d) ==
    /\ Good(d) /\ s.barrier <= d.barrier /\ s.offset <= d.offset
    /\ d.state = s.state /\ d.told = s.told /\ d.delivered = s.delivered
    /\ d.queue \subseteq s.queue
    /\ ~d.crashed => hi <= d.offset /\ d.bufferSize = noBuffer
    /\ ~d.crashed /\ s.state \notin Resets =>
          d.readyBytes - d.offset = s.readyBytes - (s.offset + recvd)
    /\ ~d.crashed /\ s.state \notin Resets /\ s.ready = <<>>
          /\ (tail # <<>> => tail[1].held = "copied") =>
          Run(d.ready, s.offset + recvd, d.offset)
    /\ \A top \in Nat : hi <= top /\ (\A c \in s.queue : c.hi <= top) => d.offset <= top
    /\ Live(d) => Admits(s, 0, hi, d)

LEMMA TransferQueueGood ==
    ASSUME NEW s, Good(s), s.assigned, NEW tail, NEW recvd \in Nat, NEW hi \in 0..MaxBytes,
           \/ tail = <<>> /\ s.offset + recvd = hi
           \/ \E c \in Slice : tail = <<c>> /\ c.lo = s.offset + recvd /\ c.hi = hi,
           s.offset <= hi, NEW order \in Orders(s.queue),
           NEW d, d = transferQueue(s, tail, recvd, order)
    PROVE  Requeued(s, tail, recvd, hi, d)
<1>1. IsReceiver(s) /\ IdGiven(s) /\ EndTold(s) /\ HasWindow(s)
  BY DEF Good
<1>0. Queued(s, tail, recvd, hi, d)
  BY <1>1, TransferQueueFields
<1>2. /\ IsReceiver(d) /\ s.barrier <= d.barrier /\ s.offset <= d.offset
      /\ d.state = s.state /\ d.told = s.told /\ d.delivered = s.delivered
      /\ d.queue \subseteq s.queue
      /\ \/ d.crashed /\ d = [s EXCEPT !.crashed = TRUE]
         \/ /\ hi <= d.offset /\ d.bufferSize = noBuffer /\ ~d.crashed
            /\ d.window = s.window /\ Spare(d)
            /\ s.state \notin Resets =>
                  d.readyBytes - d.offset = s.readyBytes - (s.offset + recvd)
            /\ s.state = "CONNECTED" => Admits(s, 0, hi, d)
            /\ \E m : /\ Fired(m, d) /\ m.state = s.state /\ m.queue = d.queue
                      /\ m.rts = s.rts /\ m.assigned = s.assigned /\ m.complete = s.complete
            /\ s.state \in Resets => d.ready = <<>>
            /\ s.state \notin Resets /\ s.ready = <<>>
                  /\ (tail # <<>> => tail[1].held = "copied") =>
                  Run(d.ready, s.offset + recvd, d.offset)
            /\ \A top \in Nat : hi <= top /\ (\A c \in s.queue : c.hi <= top) =>
                  d.offset <= top
  BY <1>0 DEF Queued
<1>3. CASE d.crashed /\ d = [s EXCEPT !.crashed = TRUE]
  <2>1. /\ d.offset = s.offset /\ d.ready = s.ready /\ d.queue = s.queue
        /\ d.bufferSize = s.bufferSize /\ d.rts = s.rts /\ d.assigned = s.assigned
        /\ d.complete = s.complete /\ d.window = s.window /\ d.readyBytes = s.readyBytes
        /\ d.barrier = s.barrier
    BY <1>1, <1>3 DEF IsReceiver, InFields
  <2>2. Good(d)
    BY <1>1, <1>2, <2>1 DEF Good, IdGiven, EndTold, HasWindow, Spare
  <2>3. s.offset \in Nat /\ hi \in Nat
    BY <1>1, SegmentsAssumption DEF IsReceiver
  <2>4. ~Live(d)
    BY <1>3 DEF Live
  <2> QED BY <1>2, <1>3, <2>1, <2>2, <2>3, <2>4 DEF Requeued
<1>4. CASE ~d.crashed
  <2>1. PICK m : /\ Fired(m, d) /\ m.state = s.state /\ m.queue = d.queue
                 /\ m.rts = s.rts /\ m.assigned = s.assigned /\ m.complete = s.complete
    BY <1>2, <1>4
  <2>2. IdGiven(d)
    BY <1>1, <1>2, <2>1 DEF IdGiven, Fired, IsReceiver, InStates
  <2>3. EndTold(d)
    <3>1. d.bufferSize = noBuffer /\ (s.state \in Resets => d.ready = <<>>)
      BY <1>2, <1>4
    <3> QED BY <1>1, <1>2, <2>2, <2>1, <3>1 DEF EndTold, Fired, IsReceiver, InStates, Resets
  <2>4. HasWindow(d)
    BY <1>1, <1>2, <1>4 DEF HasWindow
  <2>5. Good(d)
    BY <1>2, <2>2, <2>3, <2>4 DEF Good
  <2>6. Live(d) => Admits(s, 0, hi, d)
    BY <1>2, <1>4 DEF Live
  <2> QED BY <1>2, <1>4, <2>5, <2>6 DEF Requeued
<1> QED BY <1>2, <1>3, <1>4

LEMMA HandGood ==
    ASSUME NEW s, Good(s), NEW c \in Slice, NEW d, d = Hand(s, c)
    PROVE  /\ Good(d) /\ d.delivered = s.delivered \o Contents(c)
           /\ d.barrier = s.barrier /\ d.offset = s.offset /\ d.state = s.state
           /\ d.told = s.told /\ d.queue = s.queue /\ d.ready = s.ready /\ d.crashed = s.crashed
           /\ d.bufferSize = s.bufferSize /\ d.readyBytes = s.readyBytes
           /\ d.lastBarrier = s.lastBarrier /\ d.rts = s.rts
<1>1. /\ IsReceiver(d) /\ d.delivered = s.delivered \o Contents(c)
      /\ \A f \in InFields \ {"delivered"} : d[f] = s[f]
  BY HandFields DEF Good
<1>2. /\ d.barrier = s.barrier /\ d.offset = s.offset /\ d.state = s.state
      /\ d.told = s.told /\ d.queue = s.queue /\ d.ready = s.ready /\ d.crashed = s.crashed
      /\ d.rts = s.rts /\ d.assigned = s.assigned /\ d.complete = s.complete
      /\ d.bufferSize = s.bufferSize /\ d.window = s.window /\ d.readyBytes = s.readyBytes
      /\ d.lastBarrier = s.lastBarrier
  BY <1>1 DEF InFields
<1> QED BY <1>1, <1>2 DEF Good, IdGiven, EndTold, HasWindow, Spare

LEMMA FeedFields ==
    ASSUME NEW s, Good(s), s.assigned, NEW hi \in 0..MaxBytes, s.offset < hi,
           NEW order \in Orders(s.queue), NEW d, d = feedReader(s, hi, order)
    PROVE  /\ Fed(s, hi, d) /\ d.queue \subseteq s.queue
           /\ ~d.crashed => hi <= d.offset /\ d.bufferSize = noBuffer
           /\ Live(d) => Admits(s, 0, hi, d)
<1> DEFINE lo == s.offset
           n == s.bufferSize
           data == [lo |-> lo, hi |-> hi, held |-> "borrowed"]
           rest == [lo |-> lo + n, hi |-> hi, held |-> "copied"]
           part == [lo |-> lo, hi |-> lo + n, held |-> "borrowed"]
<1>1. /\ lo \in Nat /\ hi \in Nat /\ lo <= hi /\ hi <= MaxBytes
      /\ n \in Nat \cup {-1, noBuffer} /\ s.delivered \in Seq(Int)
  BY SegmentsAssumption DEF Good, IsReceiver
<1>2. data \in Slice /\ data.lo = lo /\ data.hi = hi /\ Length(data) = hi - lo /\ hi - lo \in Nat
      /\ data.held = "borrowed"
  <2> HIDE DEF lo
  <2>1. data \in Slice
    BY <1>1, SliceMade
  <2>2. Length(data) = hi - lo /\ hi - lo \in Nat
    BY <1>1 DEF Length
  <2> QED BY <2>1, <2>2
<1>3. [data EXCEPT !.lo = s.offset + n, !.held = "copied"] = rest
      /\ [data EXCEPT !.hi = s.offset + n] = part
  <2> DEFINE mid == s.offset + n
  <2>0. rest = [lo |-> mid, hi |-> hi, held |-> "copied"]
        /\ part = [lo |-> lo, hi |-> mid, held |-> "borrowed"]
    OBVIOUS
  <2> HIDE DEF lo, n, rest, part
  <2>1. ASSUME NEW x
        PROVE  [data EXCEPT !.lo = x, !.held = "copied"] = [lo |-> x, hi |-> hi, held |-> "copied"]
    <3> DEFINE moved == [data EXCEPT !.lo = x]
    <3>1. moved = [lo |-> x, hi |-> hi, held |-> "borrowed"]
      OBVIOUS
    <3>2. [data EXCEPT !.lo = x, !.held = "copied"] = [moved EXCEPT !.held = "copied"]
      OBVIOUS
    <3> HIDE DEF moved
    <3>3. [moved EXCEPT !.held = "copied"] = [lo |-> x, hi |-> hi, held |-> "copied"]
      BY <3>1
    <3> QED BY <3>2, <3>3
  <2>2. ASSUME NEW x PROVE [data EXCEPT !.hi = x] = [lo |-> lo, hi |-> x, held |-> "borrowed"]
    OBVIOUS
  <2>3. [data EXCEPT !.lo = mid, !.held = "copied"] = rest
    BY <2>0, <2>1
  <2>4. [data EXCEPT !.hi = mid] = part
    BY <2>0, <2>2
  <2> QED BY <2>3, <2>4
<1>4. n # noBuffer => s.ready = <<>> /\ s.state \notin Resets
  BY DEF Good, EndTold
<1>5. ASSUME n # noBuffer, Delivery(s), ~s.crashed
      PROVE InOrder(s.delivered) /\ lo = Len(s.delivered) /\ s.readyBytes = 0
  <2>1. Run(<<>>, Len(s.delivered), lo)
    BY <1>4, <1>5 DEF Delivery, ReadyNext
  <2>2. lo = Len(s.delivered)
    BY <2>1 DEF Run
  <2> QED BY <1>1, <1>4, <1>5, <2>2 DEF Delivery, ReadyNext
<1> HIDE DEF lo, data, rest, part
<1>6. CASE n = noBuffer
  <2>1. d = transferQueue(s, <<data>>, 0, order)
    BY <1>6 DEF feedReader, data, lo
  <2>2. \E c \in Slice : <<data>> = <<c>> /\ c.lo = s.offset + 0 /\ c.hi = hi
    BY <1>1, <1>2 DEF lo
  <2>3. /\ Good(d) /\ s.barrier <= d.barrier /\ s.offset <= d.offset
        /\ d.state = s.state /\ d.told = s.told /\ d.delivered = s.delivered
        /\ d.queue \subseteq s.queue
        /\ ~d.crashed => hi <= d.offset /\ d.bufferSize = noBuffer
        /\ \A top \in Nat : hi <= top /\ (\A c \in s.queue : c.hi <= top) => d.offset <= top
        /\ Live(d) => Admits(s, 0, hi, d)
    <3>1. 0 \in Nat /\ s.offset <= hi
      BY <1>1 DEF lo
    <3>2. \/ <<data>> = <<>> /\ s.offset + 0 = hi
          \/ \E c \in Slice : <<data>> = <<c>> /\ c.lo = s.offset + 0 /\ c.hi = hi
      BY <2>2
    <3>3. Requeued(s, <<data>>, 0, hi, d)
      BY <2>1, <3>1, <3>2, TransferQueueGood
    <3> QED BY <3>3 DEF Requeued
  <2>4. Len(s.delivered) \in Nat
    BY <1>1
  <2>5. Fed(s, hi, d)
    BY <1>6, <2>3, <2>4 DEF Fed, Delivery
  <2> QED BY <2>3, <2>5
<1>7. ASSUME NEW tail, NEW recvd \in Nat, NEW c \in Slice, n # noBuffer,
             c.lo = lo, c.hi = lo + recvd, c.held = "borrowed",
             \/ tail = <<>> /\ lo + recvd = hi
             \/ \E x \in Slice : tail = <<x>> /\ x.lo = lo + recvd /\ x.hi = hi,
             tail # <<>> => tail[1].held = "copied",
             d = Hand(transferQueue(s, tail, recvd, order), c)
      PROVE  /\ Fed(s, hi, d) /\ d.queue \subseteq s.queue
             /\ ~d.crashed => hi <= d.offset /\ d.bufferSize = noBuffer
             /\ Live(d) => Admits(s, 0, hi, d)
  <2> DEFINE t == transferQueue(s, tail, recvd, order)
  <2>1. /\ Good(t) /\ s.barrier <= t.barrier /\ s.offset <= t.offset
        /\ t.state = s.state /\ t.told = s.told /\ t.delivered = s.delivered
        /\ t.queue \subseteq s.queue
        /\ ~t.crashed => hi <= t.offset /\ t.bufferSize = noBuffer
        /\ ~t.crashed /\ s.state \notin Resets =>
              t.readyBytes - t.offset = s.readyBytes - (s.offset + recvd)
        /\ ~t.crashed /\ s.state \notin Resets /\ s.ready = <<>>
              /\ (tail # <<>> => tail[1].held = "copied") =>
              Run(t.ready, s.offset + recvd, t.offset)
        /\ \A top \in Nat : hi <= top /\ (\A x \in s.queue : x.hi <= top) => t.offset <= top
        /\ Live(t) => Admits(s, 0, hi, t)
    <3>1. s.offset <= hi
      BY <1>1 DEF lo
    <3>2. \/ tail = <<>> /\ s.offset + recvd = hi
          \/ \E x \in Slice : tail = <<x>> /\ x.lo = s.offset + recvd /\ x.hi = hi
      BY <1>7 DEF lo
    <3>3. Requeued(s, tail, recvd, hi, t)
      BY <3>1, <3>2, TransferQueueGood
    <3> QED BY <3>3 DEF Requeued
  <2>2. d = Hand(t, c)
    BY <1>7
  <2> HIDE DEF t
  <2>3. /\ Good(d) /\ d.delivered = t.delivered \o Contents(c)
        /\ d.barrier = t.barrier /\ d.offset = t.offset /\ d.state = t.state
        /\ d.told = t.told /\ d.queue = t.queue /\ d.ready = t.ready /\ d.crashed = t.crashed
        /\ d.bufferSize = t.bufferSize /\ d.readyBytes = t.readyBytes
        /\ d.lastBarrier = t.lastBarrier /\ d.rts = t.rts
    BY <2>1, <2>2, HandGood
  <2>4. ASSUME Delivery(s), ~s.crashed
        PROVE  /\ Delivery(d) /\ Len(s.delivered) <= Len(d.delivered)
               /\ Len(d.delivered) <= hi
    <3>1. InOrder(s.delivered) /\ c.lo = Len(s.delivered) /\ s.readyBytes = 0
      BY <1>5, <1>7, <2>4
    <3>2. InOrder(d.delivered) /\ Len(d.delivered) = c.hi
      BY <1>1, <1>7, <2>1, <2>3, <3>1, GivenInOrder
    <3>3. c.lo <= c.hi /\ c.hi <= hi
      <4>1. c.lo <= c.hi /\ c.hi \in Nat
        BY SliceFields
      <4>2. CASE tail = <<>> /\ lo + recvd = hi
        BY <1>1, <1>7, <4>1, <4>2
      <4>3. CASE \E x \in Slice : tail = <<x>> /\ x.lo = lo + recvd /\ x.hi = hi
        <5>1. PICK x \in Slice : x.lo = lo + recvd /\ x.hi = hi
          BY <4>3
        <5> QED BY <1>7, <4>1, <5>1, SliceFields
      <4> QED BY <1>7, <4>1, <4>2, <4>3
    <3>4. ~d.crashed => Run(d.ready, c.hi, d.offset)
      BY <1>4, <1>7, <2>1, <2>3 DEF lo
    <3>5. ~d.crashed => c.hi <= d.offset
      <4>1. d.offset \in Nat /\ c.hi \in Nat /\ hi \in Nat
        BY <1>1, <2>3, SliceFields, SegmentsAssumption DEF Good, IsReceiver
      <4> QED BY <2>1, <2>3, <3>3, <4>1
    <3>6. ~d.crashed => d.readyBytes = d.offset - Len(d.delivered)
      <4>1. ~d.crashed => t.readyBytes - t.offset = 0 - c.hi
        BY <1>1, <1>4, <1>7, <2>1, <2>3, <3>1 DEF lo
      <4>2. t.readyBytes \in Int /\ t.offset \in Nat /\ c.hi \in Nat
        BY <2>1, SliceFields, SegmentsAssumption DEF Good, IsReceiver
      <4> QED BY <2>3, <3>2, <4>1, <4>2
    <3> QED BY <3>1, <3>2, <3>3, <3>4, <3>5, <3>6 DEF Delivery, ReadyNext
  <2>5. Fed(s, hi, d)
    BY <1>7, <2>1, <2>3, <2>4 DEF Fed
  <2>6. Live(d) => Admits(s, 0, hi, d)
    BY <2>1, <2>3 DEF Live, Admits, Books, Asks, Brought
  <2> QED BY <2>1, <2>3, <2>5, <2>6
<1>8. CASE n # noBuffer /\ (n = -1 \/ n >= Length(data))
  <2>1. d = Hand(transferQueue(s, <<>>, Length(data), order), data)
    BY <1>8 DEF feedReader, data, lo
  <2>2. lo + Length(data) = hi /\ Length(data) \in Nat
    BY <1>1, <1>2
  <2> QED BY <1>2, <1>7, <1>8, <2>1, <2>2
<1>9. CASE n # noBuffer /\ ~(n = -1 \/ n >= Length(data))
  <2>1. d = Hand(transferQueue(s, <<rest>>, n, order), part)
    BY <1>3, <1>9 DEF feedReader, data, lo
  <2>2. n \in Nat /\ n < hi - lo
    BY <1>1, <1>2, <1>9 DEF noBuffer
  <2> DEFINE mid == lo + n
  <2>3. mid \in Nat /\ lo <= mid /\ mid <= hi /\ mid <= MaxBytes
    BY <1>1, <2>2, SegmentsAssumption
  <2> HIDE DEF mid
  <2>4. rest \in Slice /\ rest.lo = mid /\ rest.hi = hi /\ rest.held = "copied"
    BY <1>1, <2>3, SliceMade DEF rest, mid
  <2>5. part \in Slice /\ part.lo = lo /\ part.hi = mid /\ part.held = "borrowed"
    BY <1>1, <2>3, SliceMade DEF part, mid
  <2>6. <<rest>>[1] = rest
    OBVIOUS
  <2> QED BY <1>7, <1>9, <2>1, <2>2, <2>4, <2>5, <2>6 DEF mid
<1> QED BY <1>6, <1>8, <1>9


LEMMA RecvDataFields ==
    ASSUME NEW s, Good(s), s.assigned, NEW n \in Nat, NEW lo \in 0..MaxBytes,
           NEW hi \in 0..MaxBytes, lo <= hi, NEW order \in Orders(s.queue),
           NEW d, d = recvData(s, n, lo, hi, order)
    PROVE  /\ Fed(s, hi, d)
           /\ ~d.crashed /\ d.delivered # s.delivered => d.bufferSize = noBuffer
           /\ lo <= s.offset /\ ~Refuses(s, hi) /\ ~d.crashed =>
                 hi <= d.offset /\ d.queue \subseteq s.queue
           /\ Live(d) => Admits(s, 0, 0, d)
           /\ Live(d) /\ ~Refuses(s, hi) => Admits(s, lo, hi, d)
<1>1. /\ s.offset \in Nat /\ lo \in Nat /\ hi \in Nat /\ IsReceiver(s)
      /\ Len(s.delivered) \in Nat /\ s.barrier \in Nat
  BY SegmentsAssumption DEF Good, IsReceiver
<1>2. CASE Refuses(s, hi) \/ lo = hi \/ hi <= s.offset
  <2>1. d = s
    BY <1>2 DEF recvData
  <2>2. Fed(s, hi, d)
    BY <1>1, <2>1 DEF Fed
  <2>3. Admits(s, 0, 0, d)
    <3>1. \A b \in Nat : ~(0 <= b /\ b < 0)
      OBVIOUS
    <3> QED BY <2>1, <3>1 DEF Admits
  <2>4. ~Refuses(s, hi) => Admits(s, lo, hi, d)
    <3>1. ASSUME ~Refuses(s, hi), NEW b \in Nat, lo <= b, b < hi PROVE Brought(s, b)
      BY <1>1, <1>2, <3>1 DEF Brought
    <3> QED BY <2>1, <3>1 DEF Admits
  <2> QED BY <1>1, <1>2, <2>1, <2>2, <2>3, <2>4
<1>3. CASE ~(Refuses(s, hi) \/ lo = hi \/ hi <= s.offset) /\ lo <= s.offset
  <2>1. d = feedReader(s, hi, order)
    BY <1>3 DEF recvData
  <2>2. s.offset < hi
    BY <1>1, <1>3
  <2>3. /\ Fed(s, hi, d) /\ d.queue \subseteq s.queue
        /\ ~d.crashed => hi <= d.offset /\ d.bufferSize = noBuffer
        /\ Live(d) => Admits(s, 0, hi, d)
    BY <2>1, <2>2, FeedFields
  <2>4. Admits(s, 0, hi, d) => Admits(s, 0, 0, d) /\ Admits(s, lo, hi, d)
    BY <1>1 DEF Admits
  <2> QED BY <2>3, <2>4
<1>4. CASE ~(Refuses(s, hi) \/ lo = hi \/ hi <= s.offset) /\ ~(lo <= s.offset)
  <2> DEFINE slice == [lo |-> lo, hi |-> hi, packet |-> n]
             queue == s.queue \cup {slice}
             bytes == s.queuedBytes + hi - lo
  <2>1. d = [s EXCEPT !.queue = queue, !.queuedBytes = bytes]
    BY <1>4 DEF recvData
  <2>2. slice \in Waiting /\ slice.hi = hi /\ slice.lo = lo
    BY DEF Waiting
  <2> HIDE DEF slice
  <2>3. queue \subseteq Waiting /\ IsFiniteSet(queue)
    BY <1>1, <2>2, FS_AddElement DEF IsReceiver
  <2>4. \A top : hi <= top /\ (\A c \in s.queue : c.hi <= top) => \A c \in queue : c.hi <= top
    BY <2>2
  <2> HIDE DEF queue, bytes
  <2>5. /\ IsReceiver(d) /\ d.queue = queue /\ d.barrier = s.barrier /\ d.offset = s.offset
        /\ d.state = s.state /\ d.told = s.told /\ d.ready = s.ready /\ d.window = s.window
        /\ d.readyBytes = s.readyBytes /\ d.bufferSize = s.bufferSize /\ d.crashed = s.crashed
        /\ d.rts = s.rts /\ d.assigned = s.assigned /\ d.complete = s.complete
        /\ d.delivered = s.delivered /\ d.lastBarrier = s.lastBarrier
    BY <1>1, <2>1, <2>3 DEF IsReceiver, InFields
  <2>6. Good(d)
    BY <2>5 DEF Good, IdGiven, EndTold, HasWindow, Spare
  <2>7. Delivery(s) => Delivery(d)
    BY <2>5 DEF Delivery, ReadyNext
  <2>9. ASSUME NEW top \in Nat, s.offset <= top, hi <= top, \A c \in s.queue : c.hi <= top
        PROVE  d.offset <= top /\ \A c \in d.queue : c.hi <= top
    BY <2>4, <2>5, <2>9
  <2>10. s.barrier <= d.barrier /\ s.offset <= d.offset /\ Len(s.delivered) <= Len(d.delivered)
    BY <1>1, <2>5
  <2>8. Fed(s, hi, d)
    BY <2>5, <2>6, <2>7, <2>9, <2>10 DEF Fed
  <2>11. Admits(s, lo, hi, d)
    <3>1. Books(s) => Books(d)
      BY <1>1, <1>4, <2>2, <2>5 DEF Books, Asks, queue
    <3>2. ASSUME NEW b \in Nat, Brought(s, b) \/ (lo <= b /\ b < hi) PROVE Brought(d, b)
      BY <2>2, <2>5, <3>2 DEF Brought, queue
    <3> QED BY <2>5, <3>1, <3>2 DEF Admits
  <2>12. Admits(s, 0, 0, d)
    <3>1. \A b \in Nat : ~(0 <= b /\ b < 0)
      OBVIOUS
    <3> QED BY <2>11, <3>1 DEF Admits
  <2> QED BY <1>1, <1>4, <2>5, <2>8, <2>11, <2>12
<1> QED BY <1>2, <1>3, <1>4

-----------------------------------------------------------------------------
(***************************************************************************)
(* The ends of the stream.                                                   *)
(***************************************************************************)
\* What a step that moves no data keeps.
Stays(s, d) ==
    /\ d.queue = s.queue /\ d.offset = s.offset /\ d.crashed = s.crashed
    /\ d.delivered = s.delivered /\ s.barrier <= d.barrier

LEMMA ShutdownFields ==
    ASSUME NEW s, Good(s), NEW d, d = shutdown(s)
    PROVE  /\ Good(d) /\ Stays(s, d)
           /\ IF s.state \in Resets THEN d.state \in Resets ELSE d.state = "SHUTDOWN"
           /\ d.ready = s.ready
           /\ \/ d.told = s.told
              \/ /\ d.told = "SHUTDOWN" /\ d.state = "SHUTDOWN" /\ s.queue = {}
                 /\ s.ready = <<>> /\ s.bufferSize # noBuffer
           /\ Delivery(s) => Delivery(d)
<1> DEFINE state == CASE s.state = "CONNECTED" -> "SHUTDOWN"
                      [] s.state = "RESET" -> "RESET_DOWN"
                      [] OTHER -> s.state
           rts == IF s.state = "CONNECTED" THEN FALSE ELSE s.rts
           m == [s EXCEPT !.state = state, !.rts = rts]
           f == fireEvent(m)
           ends == s.queue = {} /\ s.ready = <<>> /\ s.bufferSize # noBuffer
<1>1. d = IF ends THEN [f EXCEPT !.complete = TRUE, !.assigned = FALSE,
                                 !.bufferSize = noBuffer, !.told = "SHUTDOWN"]
                  ELSE f
  BY DEF shutdown
<1>2. IsReceiver(s) /\ IdGiven(s) /\ EndTold(s)
  BY DEF Good
<1>3. /\ state \in InStates /\ state # "CONNECTED" /\ rts \in BOOLEAN
      /\ state \in Resets <=> s.state \in Resets
      /\ state = "SHUTDOWN" => ~rts
      /\ state # "SHUTDOWN" => s.state # "CONNECTED"
  <2>1. CASE s.state = "CONNECTED"
    BY <2>1 DEF InStates, Resets
  <2>2. CASE s.state = "RESET"
    BY <1>2, <2>2 DEF InStates, Resets, IsReceiver
  <2>3. CASE s.state = "SHUTDOWN"
    BY <1>2, <2>3 DEF InStates, Resets, IsReceiver, IdGiven
  <2>4. CASE s.state = "RESET_DOWN"
    BY <1>2, <2>4 DEF InStates, Resets, IsReceiver
  <2> QED BY <1>2, <2>1, <2>2, <2>3, <2>4 DEF IsReceiver, InStates
<1>4. s.state = "SHUTDOWN" => state = "SHUTDOWN"
  OBVIOUS
<1> HIDE DEF state, rts
<1>5. /\ IsReceiver(m) /\ m.state = state /\ m.rts = rts /\ m.queue = s.queue
      /\ m.offset = s.offset /\ m.crashed = s.crashed /\ m.delivered = s.delivered
      /\ m.barrier = s.barrier /\ m.told = s.told /\ m.ready = s.ready
      /\ m.bufferSize = s.bufferSize /\ m.assigned = s.assigned /\ m.complete = s.complete
      /\ m.readyBytes = s.readyBytes
  BY <1>2, <1>3 DEF IsReceiver, InFields
<1> HIDE DEF m
<1>6. IsReceiver(f) /\ Rest(m, f) /\ f.barrier = m.barrier /\ Fired(m, f)
  BY <1>5, Fire
<1> HIDE DEF f
<1>7. CASE ~ends
  <2>1. d = f
    BY <1>1, <1>7
  <2>5. /\ d.state = state /\ d.told = s.told /\ d.queue = s.queue /\ d.ready = s.ready
        /\ d.bufferSize = s.bufferSize /\ d.state \in {"SHUTDOWN", "RESET", "RESET_DOWN"}
        /\ d.rts = rts
    BY <1>2, <1>3, <1>5, <1>6, <2>1 DEF Rest, Fired, InStates
  <2>6. /\ state = "RESET" => d.assigned = s.assigned /\ d.complete = s.complete
        /\ state = "SHUTDOWN" => d.complete = s.complete
        /\ state # "RESET" => (d.assigned <=> s.assigned /\ s.queue # {})
        /\ state = "RESET_DOWN" => (d.complete <=> s.complete \/ s.queue = {})
    BY <1>5, <1>6, <2>1, <2>5 DEF Fired
  <2>7. IdGiven(d)
    BY <1>2, <1>3, <1>4, <2>5, <2>6 DEF IdGiven
  <2>8. EndTold(d)
    BY <1>2, <1>3, <2>5, <2>6 DEF EndTold
  <2>2. IdGiven(d) /\ EndTold(d) /\ HasWindow(d)
    BY <2>5, <2>7, <2>8 DEF HasWindow
  <2>3. Delivery(s) => Delivery(d)
    BY <1>3, <1>5, <1>6, <2>1 DEF Delivery, ReadyNext, Rest
  <2>4. s.barrier <= d.barrier
    BY <1>2, <1>5, <1>6, <2>1 DEF IsReceiver
  <2> QED BY <1>2, <1>3, <1>5, <1>6, <2>1, <2>2, <2>3, <2>4
          DEF Good, Rest, Stays, Resets, IsReceiver, InStates
<1>8. CASE ends
  <2> DEFINE e == [f EXCEPT !.complete = TRUE, !.assigned = FALSE]
  <2>1. d = [e EXCEPT !.bufferSize = noBuffer, !.told = "SHUTDOWN"]
    BY <1>1, <1>8
  <2>2. /\ IsReceiver(e) /\ Rest(f, e) /\ e.barrier = f.barrier /\ e.rts = f.rts
        /\ e.complete /\ ~e.assigned
    BY <1>6 DEF IsReceiver, InFields, Rest
  <2> HIDE DEF e
  <2>3. /\ IsReceiver(d) /\ d.state = e.state /\ d.queue = e.queue /\ d.offset = e.offset
        /\ d.crashed = e.crashed /\ d.delivered = e.delivered /\ d.barrier = e.barrier
        /\ d.ready = e.ready /\ d.readyBytes = e.readyBytes /\ d.rts = e.rts
        /\ d.complete = e.complete /\ d.assigned = e.assigned
        /\ d.bufferSize = noBuffer /\ d.told = "SHUTDOWN"
    BY <2>1, <2>2 DEF IsReceiver, InFields, Endings
  <2>4. s.state \notin Resets /\ state = "SHUTDOWN"
    BY <1>2, <1>3, <1>8 DEF EndTold, InStates, Resets
  <2>5. d.state = "SHUTDOWN" /\ ~d.rts
    BY <1>3, <1>5, <1>6, <2>2, <2>3, <2>4 DEF Rest, Fired
  <2>6. IdGiven(d) /\ EndTold(d) /\ HasWindow(d)
    BY <2>2, <2>3, <2>5 DEF IdGiven, EndTold, HasWindow, Resets
  <2>7. Stays(s, d) /\ d.ready = s.ready /\ d.readyBytes = s.readyBytes
    BY <1>2, <1>5, <1>6, <2>2, <2>3 DEF Stays, Rest, IsReceiver
  <2>8. Delivery(s) => Delivery(d)
    BY <2>4, <2>7 DEF Delivery, ReadyNext, Stays
  <2> QED BY <1>8, <2>3, <2>4, <2>5, <2>6, <2>7, <2>8 DEF Good
<1> QED BY <1>7, <1>8


LEMMA FireGood ==
    ASSUME NEW s, Good(s), NEW d, d = fireEvent(s)
    PROVE  /\ Good(d) /\ Stays(s, d) /\ d.barrier = s.barrier
           /\ d.state = s.state /\ d.told = s.told
           /\ d.lastBarrier = s.lastBarrier /\ d.ready = s.ready /\ d.readyBytes = s.readyBytes
           /\ s.state = "CONNECTED" => Asks(d)
           /\ Delivery(s) => Delivery(d)
<1>1. IsReceiver(s) /\ IdGiven(s) /\ EndTold(s) /\ HasWindow(s)
  BY DEF Good
<1>2. IsReceiver(d) /\ Rest(s, d) /\ d.barrier = s.barrier /\ Fired(s, d)
  BY <1>1, Fire
<1>3. IdGiven(d)
  BY <1>1, <1>2 DEF IdGiven, Rest, Fired, IsReceiver, InStates
<1>4. EndTold(d)
  BY <1>1, <1>2 DEF EndTold, Rest, Fired, IsReceiver, InStates
<1>5. HasWindow(d)
  BY <1>1, <1>2 DEF HasWindow, Spare, Rest
<1>6. s.barrier <= d.barrier
  BY <1>2 DEF IsReceiver
<1>7. Delivery(s) => Delivery(d)
  BY <1>2 DEF Delivery, ReadyNext, Rest
<1>8. s.state = "CONNECTED" => Asks(d)
  BY <1>2 DEF Fired
<1> QED BY <1>2, <1>3, <1>4, <1>5, <1>6, <1>7, <1>8 DEF Good, Stays, Rest

\* The reader resets, or hears that the writer did.
LEMMA ReaderResetFields ==
    ASSUME NEW s, IsReceiver(s),
           ~s.assigned => s.complete \/ (s.state = "SHUTDOWN" /\ s.queue = {}),
           ~s.assigned \/ s.complete => s.state # "CONNECTED",
           s.told = "SHUTDOWN" => ~s.assigned /\ s.bufferSize = noBuffer,
           NEW d, d = reset(s)
    PROVE  /\ Good(d) /\ Stays(s, d) /\ d.state \in Resets
           /\ d.told \in {s.told, "RESET"} /\ (s.told = "SHUTDOWN" => d.told = s.told)
           /\ InOrder(s.delivered) => Delivery(d)
<1> DEFINE state == CASE s.state = "CONNECTED" -> "RESET"
                      [] s.state = "SHUTDOWN" -> "RESET_DOWN"
                      [] OTHER -> s.state
           told == IF s.bufferSize = noBuffer THEN s.told ELSE "RESET"
           m == [s EXCEPT !.state = state, !.ready = <<>>, !.readyBytes = 0]
           e == [m EXCEPT !.bufferSize = noBuffer, !.rts = TRUE, !.told = told]
<1>1. d = fireEvent(e)
  <2>1. e = [s EXCEPT !.state = state, !.ready = <<>>, !.readyBytes = 0,
                      !.bufferSize = noBuffer, !.rts = TRUE, !.told = told]
    OBVIOUS
  <2> HIDE DEF e
  <2> QED BY <2>1 DEF reset
<1>2. /\ state \in Resets /\ state \in InStates
      /\ s.state = "SHUTDOWN" => state = "RESET_DOWN"
      /\ state = "RESET" => s.state \in {"CONNECTED", "RESET"}
  <2>1. CASE s.state = "CONNECTED"
    BY <2>1 DEF Resets, InStates
  <2>2. CASE s.state # "CONNECTED"
    BY <2>2 DEF Resets, InStates, IsReceiver
  <2> QED BY <2>1, <2>2
<1>3. /\ told \in Endings /\ told \in {s.told, "RESET"}
      /\ s.told = "SHUTDOWN" => told = s.told
  BY DEF IsReceiver, Endings
<1>4. <<>> \in Seq(Slice)
  OBVIOUS
<1> HIDE DEF state, told
<1>5. /\ IsReceiver(m) /\ m.state = state /\ m.ready = <<>>
      /\ m.queue = s.queue /\ m.offset = s.offset /\ m.crashed = s.crashed
      /\ m.delivered = s.delivered /\ m.barrier = s.barrier /\ m.told = s.told
      /\ m.assigned = s.assigned /\ m.complete = s.complete
  BY <1>2, <1>4 DEF IsReceiver, InFields
<1> HIDE DEF m
<1>6. /\ IsReceiver(e) /\ e.state = state /\ e.ready = <<>> /\ e.bufferSize = noBuffer
      /\ e.told = told /\ e.queue = m.queue /\ e.offset = m.offset /\ e.crashed = m.crashed
      /\ e.delivered = m.delivered /\ e.barrier = m.barrier
      /\ e.assigned = m.assigned /\ e.complete = m.complete
  BY <1>3, <1>5 DEF IsReceiver, InFields
<1> HIDE DEF e
<1>7. IsReceiver(d) /\ Rest(e, d) /\ d.barrier = e.barrier /\ Fired(e, d)
  BY <1>1, <1>6, Fire
<1>8. d.state = state /\ d.told = told /\ d.ready = <<>> /\ d.bufferSize = noBuffer
      /\ d.queue = s.queue
  BY <1>5, <1>6, <1>7 DEF Rest
<1>9. /\ state = "RESET" => d.assigned = s.assigned /\ d.complete = s.complete
      /\ state = "RESET_DOWN" => (d.assigned <=> s.assigned /\ s.queue # {})
      /\ state = "RESET_DOWN" => (d.complete <=> s.complete \/ s.queue = {})
  BY <1>5, <1>6, <1>7 DEF Fired
<1>10. IdGiven(d)
  BY <1>2, <1>8, <1>9 DEF IdGiven, Resets
<1>11. EndTold(d)
  BY <1>2, <1>3, <1>8, <1>9 DEF EndTold, Resets
<1>12. HasWindow(d)
  BY <1>2, <1>8 DEF HasWindow, Resets
<1>13. Stays(s, d)
  BY <1>5, <1>6, <1>7 DEF Stays, Rest, IsReceiver
<1>14. InOrder(s.delivered) => Delivery(d)
  BY <1>2, <1>8, <1>13 DEF Delivery, Stays
<1> QED BY <1>2, <1>3, <1>7, <1>8, <1>10, <1>11, <1>12, <1>13, <1>14 DEF Good

-----------------------------------------------------------------------------
(***************************************************************************)
(* The packet buffer, and the barrier.                                       *)
(***************************************************************************)
\* Slices that were copied survive the next packet.
LEMMA OverwriteFields ==
    ASSUME NEW s, Good(s), NEW d, d = Overwrite(s)
    PROVE  /\ Good(d) /\ Stays(s, d) /\ d.barrier = s.barrier
           /\ d.state = s.state /\ d.told = s.told /\ d.assigned = s.assigned
           /\ d.complete = s.complete /\ d.bufferSize = s.bufferSize
           /\ Delivery(s) => Delivery(d)
           /\ Admits(s, 0, 0, d)
<1> DEFINE old(i) == s.ready[i]
           seen(i) == IF old(i).held = "borrowed" THEN [old(i) EXCEPT !.held = "stale"] ELSE old(i)
           r == [i \in DOMAIN s.ready |-> seen(i)]
           n == Len(s.ready)
<1>1. d = [s EXCEPT !.ready = r]
  BY DEF Overwrite
<1>2. IsReceiver(s) /\ s.ready \in Seq(Slice) /\ n \in Nat /\ DOMAIN s.ready = 1..n
  BY DEF Good, IsReceiver
<1>3. ASSUME NEW i \in 1..n
      PROVE  /\ seen(i) \in Slice /\ (old(i).held = "copied" => seen(i) = old(i))
             /\ Length(seen(i)) = Length(old(i))
  <2>1. old(i) \in Slice
    BY <1>2, ElementOfSeq
  <2> HIDE DEF old
  <2>2. old(i) = [lo |-> old(i).lo, hi |-> old(i).hi, held |-> old(i).held]
        /\ old(i).lo \in Nat /\ old(i).hi \in Nat /\ old(i).lo <= old(i).hi /\ old(i).hi <= MaxBytes
    BY <2>1, SliceFields DEF Slice
  <2>3. [old(i) EXCEPT !.held = "stale"] = [lo |-> old(i).lo, hi |-> old(i).hi, held |-> "stale"]
    BY <2>2
  <2>4. [old(i) EXCEPT !.held = "stale"] \in Slice
    BY <2>2, <2>3, SliceMade
  <2>5. Length([old(i) EXCEPT !.held = "stale"]) = Length(old(i))
    BY <2>3 DEF Length
  <2> QED BY <2>1, <2>4, <2>5
<1> HIDE DEF seen
<1>4. r \in Seq(Slice) /\ Len(r) = n /\ \A i \in 1..n : r[i] = seen(i)
  <2>1. r \in [1..n -> Slice]
    BY <1>2, <1>3
  <2>2. \A i \in 1..n : r[i] = seen(i)
    BY <1>2
  <2> HIDE DEF r, n
  <2>3. r \in Seq(Slice)
    BY <1>2, <2>1
  <2>4. Len(r) = n
    BY <1>2, <2>1, <2>3
  <2> QED BY <2>2, <2>3, <2>4
<1>5. (r = <<>>) <=> (s.ready = <<>>)
  <2> HIDE DEF r
  <2> QED BY <1>2, <1>4, EmptySeq
<1>6. ASSUME NEW from, NEW to, Run(s.ready, from, to) PROVE Run(r, from, to)
  <2>1. \A i \in 1..n : r[i] = s.ready[i]
    BY <1>3, <1>4, <1>6 DEF Run
  <2>2. s.ready # <<>> => n # 0
    BY <1>2, EmptySeq
  <2> HIDE DEF r, n, old
  <2>3. \A i \in 1..(n - 1) : i \in 1..n /\ i + 1 \in 1..n
    BY <1>2
  <2>4. n # 0 => 1 \in 1..n /\ n \in 1..n
    BY <1>2
  <2> QED BY <1>4, <1>5, <1>6, <2>1, <2>2, <2>3, <2>4 DEF Run, n
<1>11. ASSUME Counted(s.ready, s.readyBytes) PROVE Counted(r, s.readyBytes)
  <2>1. \A i \in 1..n : Length(r[i]) = Length(s.ready[i])
    BY <1>3, <1>4
  <2> HIDE DEF r, old
  <2> QED BY <1>2, <1>4, <1>11, <2>1, CountedAlike
<1> HIDE DEF r
<1>7. /\ IsReceiver(d) /\ d.ready = r /\ d.state = s.state /\ d.told = s.told
      /\ d.assigned = s.assigned /\ d.complete = s.complete /\ d.bufferSize = s.bufferSize
      /\ d.barrier = s.barrier /\ d.queue = s.queue /\ d.offset = s.offset
      /\ d.crashed = s.crashed /\ d.delivered = s.delivered /\ d.rts = s.rts
      /\ d.window = s.window /\ d.readyBytes = s.readyBytes /\ d.lastBarrier = s.lastBarrier
  BY <1>1, <1>2, <1>4 DEF IsReceiver, InFields
<1>8. Good(d)
  BY <1>5, <1>7 DEF Good, IdGiven, EndTold, HasWindow, Spare
<1>9. s.barrier <= d.barrier
  BY <1>2, <1>7 DEF IsReceiver
<1>10. Delivery(s) => Delivery(d)
  BY <1>6, <1>7 DEF Delivery, ReadyNext
<1>12. Admits(s, 0, 0, d)
  <2>1. Books(s) => Books(d)
    BY <1>7, <1>11 DEF Books, Asks
  <2>2. \A b \in Nat : Brought(s, b) \/ (0 <= b /\ b < 0) => Brought(d, b)
    BY <1>7 DEF Brought
  <2> QED BY <1>7, <2>1, <2>2 DEF Admits
<1> QED BY <1>7, <1>8, <1>9, <1>10, <1>12 DEF Stays


\* A step that the application and the sender do not notice.
Same(s, d) ==
    /\ Good(d) /\ Stays(s, d) /\ d.state = s.state /\ d.told = s.told
    /\ Delivery(s) => Delivery(d)

LEMMA ToldSame ==
    ASSUME NEW s, Good(s), NEW b \in Nat, NEW rts \in BOOLEAN,
           s.state = "SHUTDOWN" => ~rts, NEW d,
           d = [s EXCEPT !.rts = rts] \/ d = [s EXCEPT !.rts = rts, !.lastBarrier = b]
    PROVE  Same(s, d)
<1>1. /\ IsReceiver(d) /\ d.rts = rts /\ d.state = s.state /\ d.told = s.told
      /\ d.assigned = s.assigned /\ d.complete = s.complete /\ d.bufferSize = s.bufferSize
      /\ d.barrier = s.barrier /\ d.queue = s.queue /\ d.offset = s.offset
      /\ d.crashed = s.crashed /\ d.delivered = s.delivered /\ d.ready = s.ready
      /\ d.window = s.window /\ d.readyBytes = s.readyBytes
  <2>1. CASE d = [s EXCEPT !.rts = rts]
    BY <2>1 DEF Good, IsReceiver, InFields
  <2>2. CASE d = [s EXCEPT !.rts = rts, !.lastBarrier = b]
    BY <2>2 DEF Good, IsReceiver, InFields
  <2> QED BY <2>1, <2>2
<1>2. IdGiven(d) /\ EndTold(d) /\ HasWindow(d)
  BY <1>1 DEF Good, IdGiven, EndTold, HasWindow, Spare
<1>3. s.barrier <= d.barrier
  BY <1>1 DEF IsReceiver
<1>4. Delivery(s) => Delivery(d)
  BY <1>1 DEF Delivery, ReadyNext
<1> QED BY <1>1, <1>2, <1>3, <1>4 DEF Good, Same, Stays

\* The sender heard that the reader reset the stream.
LEMMA CompleteSame ==
    ASSUME NEW s, Good(s), s.state \in Resets, NEW d, d = Complete(s)
    PROVE  Same(s, d)
<1>1. /\ IsReceiver(d) /\ d.rts = s.rts /\ d.state = s.state /\ d.told = s.told
      /\ ~d.assigned /\ d.complete /\ d.bufferSize = s.bufferSize
      /\ d.barrier = s.barrier /\ d.queue = s.queue /\ d.offset = s.offset
      /\ d.crashed = s.crashed /\ d.delivered = s.delivered /\ d.ready = s.ready
  BY DEF Good, IsReceiver, InFields, Complete
<1>2. IdGiven(d) /\ EndTold(d) /\ HasWindow(d)
  BY <1>1 DEF Good, IdGiven, EndTold, HasWindow, Resets
<1>3. s.barrier <= d.barrier
  BY <1>1 DEF IsReceiver
<1>4. Delivery(s) => Delivery(d)
  BY <1>1 DEF Delivery, ReadyNext
<1> QED BY <1>1, <1>2, <1>3, <1>4 DEF Good, Same, Stays

\* The sender heard the barrier: the window grows with what was read meanwhile.
LEMMA WindowSame ==
    ASSUME NEW s, Good(s), NEW w \in Nat, MinimumWindow <= w, NEW d,
           d = fireEvent([s EXCEPT !.window = w,
                                   !.barrier = Max({@, s.offset - s.readyBytes + w})])
    PROVE  Same(s, d) /\ (s.state = "CONNECTED" => Admits(s, 0, 0, d))
<1> DEFINE x == s.offset - s.readyBytes + w
           top == Max({s.barrier, x})
           m == [s EXCEPT !.window = w, !.barrier = top]
<1>1. d = fireEvent(m)
  OBVIOUS
<1>2. top \in Nat /\ s.barrier <= top /\ x <= top
  <2>1. s.barrier \in Nat /\ x \in Int
    BY SegmentsAssumption DEF Good, IsReceiver
  <2> HIDE DEF x
  <2>2. top \in {s.barrier, x} /\ s.barrier <= top /\ x <= top
    <3>1. s.barrier \in Int
      BY <2>1
    <3> QED BY <2>1, <3>1, MaxOfTwo, Zenon
  <2> HIDE DEF top
  <2> QED BY <2>1, <2>2
<1> HIDE DEF top
<1>3. /\ IsReceiver(m) /\ m.rts = s.rts /\ m.state = s.state /\ m.told = s.told
      /\ m.assigned = s.assigned /\ m.complete = s.complete /\ m.bufferSize = s.bufferSize
      /\ m.barrier = top /\ m.queue = s.queue /\ m.offset = s.offset
      /\ m.crashed = s.crashed /\ m.delivered = s.delivered /\ m.ready = s.ready
      /\ m.window = w /\ m.readyBytes = s.readyBytes /\ m.lastBarrier = s.lastBarrier
  BY <1>2 DEF Good, IsReceiver, InFields
<1> HIDE DEF m
<1>4. Good(m)
  BY <1>2, <1>3 DEF Good, IdGiven, EndTold, HasWindow, Spare
<1>5. Delivery(s) => Delivery(m)
  BY <1>3 DEF Delivery, ReadyNext
<1>6. /\ Good(d) /\ Stays(m, d) /\ d.barrier = m.barrier
      /\ d.state = m.state /\ d.told = m.told
      /\ d.lastBarrier = m.lastBarrier /\ d.ready = m.ready /\ d.readyBytes = m.readyBytes
      /\ m.state = "CONNECTED" => Asks(d)
      /\ Delivery(m) => Delivery(d)
  BY <1>1, <1>4, FireGood
<1>7. ASSUME s.state = "CONNECTED" PROVE Admits(s, 0, 0, d)
  <2>1. ASSUME Books(s) PROVE Books(d)
    <3>1. s.barrier \in Nat /\ MinimumWindow \in Nat
      BY SegmentsAssumption DEF Good, IsReceiver
    <3>2. MinimumWindow <= d.barrier
      BY <1>2, <1>3, <1>6, <2>1, <3>1 DEF Books
    <3> QED BY <1>3, <1>6, <1>7, <2>1, <3>2 DEF Books, Stays
  <2>2. \A b \in Nat : Brought(s, b) \/ (0 <= b /\ b < 0) => Brought(d, b)
    BY <1>3, <1>6 DEF Brought, Stays
  <2> QED BY <1>3, <1>6, <2>1, <2>2 DEF Admits
<1> QED BY <1>2, <1>3, <1>5, <1>6, <1>7 DEF Same, Stays

LEMMA LostSame ==
    ASSUME NEW s, Good(s), NEW b, b.last \in Nat, NEW d, d = BarrierLost(s, b)
    PROVE  /\ Same(s, d) /\ d.barrier = s.barrier
           /\ \/ d = s /\ s.lastBarrier # b.barrier
              \/ /\ d.lastBarrier = b.last /\ d.ready = s.ready /\ d.readyBytes = s.readyBytes
                 /\ s.state = "CONNECTED" => Asks(d)
<1>1. CASE s.lastBarrier # b.barrier
  <2>1. d = s
    BY <1>1 DEF BarrierLost
  <2>2. s.barrier <= s.barrier
    BY DEF Good, IsReceiver
  <2> QED BY <1>1, <2>1, <2>2 DEF Same, Stays
<1>2. CASE s.lastBarrier = b.barrier
  <2> DEFINE m == [s EXCEPT !.lastBarrier = b.last]
  <2>1. d = fireEvent(m)
    BY <1>2 DEF BarrierLost
  <2>2. /\ IsReceiver(m) /\ m.rts = s.rts /\ m.state = s.state /\ m.told = s.told
        /\ m.assigned = s.assigned /\ m.complete = s.complete /\ m.bufferSize = s.bufferSize
        /\ m.barrier = s.barrier /\ m.queue = s.queue /\ m.offset = s.offset
        /\ m.crashed = s.crashed /\ m.delivered = s.delivered /\ m.ready = s.ready
        /\ m.window = s.window /\ m.readyBytes = s.readyBytes /\ m.lastBarrier = b.last
    BY DEF Good, IsReceiver, InFields
  <2> HIDE DEF m
  <2>3. Good(m)
    BY <2>2 DEF Good, IdGiven, EndTold, HasWindow, Spare
  <2>4. Delivery(s) => Delivery(m)
    BY <2>2 DEF Delivery, ReadyNext
  <2>5. /\ Good(d) /\ Stays(m, d) /\ d.barrier = m.barrier
        /\ d.state = m.state /\ d.told = m.told
        /\ d.lastBarrier = m.lastBarrier /\ d.ready = m.ready /\ d.readyBytes = m.readyBytes
        /\ m.state = "CONNECTED" => Asks(d)
        /\ Delivery(m) => Delivery(d)
    BY <2>1, <2>3, FireGood
  <2> QED BY <2>2, <2>4, <2>5 DEF Same, Stays
<1> QED BY <1>1, <1>2

-----------------------------------------------------------------------------
(***************************************************************************)
(* The actions.                                                              *)
(***************************************************************************)
Record == [reset : BOOLEAN, barrier : Nat, offset : Int, last : Nat]
\* What the reader says: a barrier it has, or that it reset the stream.
BarrierInv ==
    /\ barriers \in Seq(Record) /\ barriersOpen \subseteq 1..Len(barriers)
    /\ \A n \in 1..Len(barriers) :
          IF barriers[n].reset THEN in.state \in Resets ELSE barriers[n].barrier <= in.barrier

InInv == Good(in) /\ BarrierInv

LEMMA InStarts == InInit => InInv /\ Delivery(in)
<1> SUFFICES ASSUME InInit PROVE InInv /\ Delivery(in)
  OBVIOUS
<1>1. <<>> \in Seq(Slice) /\ <<>> \in Seq(Int) /\ Len(<<>>) = 0 /\ IsFiniteSet({}) /\ 1..0 = {}
      /\ 1..(0 - 1) = {} /\ <<>> \in Seq(Record)
  BY FS_EmptySet
<1>2. MinimumWindow \in Nat /\ 0 \in 0..MaxBytes
  BY SegmentsAssumption
<1>3. IsReceiver(in)
  BY <1>1, <1>2 DEF InInit, IsReceiver, InFields, InStates, Endings
<1>4. /\ in.state = "CONNECTED" /\ in.barrier = MinimumWindow /\ in.window = MinimumWindow
      /\ in.ready = <<>> /\ in.readyBytes = 0 /\ in.offset = 0 /\ in.assigned /\ ~in.complete
      /\ in.told = "none" /\ in.bufferSize = noBuffer /\ in.delivered = <<>>
      /\ barriers = <<>> /\ barriersOpen = {}
  BY DEF InInit
<1>5. IdGiven(in) /\ EndTold(in)
  BY <1>4 DEF IdGiven, EndTold, Resets
<1>6. HasWindow(in)
  BY <1>2, <1>4 DEF HasWindow, Spare
<1>7. BarrierInv
  BY <1>1, <1>4 DEF BarrierInv
<1>8. Delivery(in)
  <2>1. Run(<<>>, 0, 0)
    BY <1>1 DEF Run
  <2>2. InOrder(<<>>)
    BY <1>1 DEF InOrder
  <2>3. Len(in.delivered) = 0
    BY <1>1, <1>4
  <2>4. ReadyNext(in)
    <3>1. 0 <= 0 /\ 0 = 0 - 0
      OBVIOUS
    <3> QED BY <1>4, <2>1, <2>3, <3>1 DEF ReadyNext
  <2>5. InOrder(in.delivered)
    BY <1>4, <2>2
  <2> QED BY <2>4, <2>5 DEF Delivery
<1> QED BY <1>3, <1>5, <1>6, <1>7, <1>8 DEF InInv, Good


\* What the arrival of a segment p of the sender changes; ok: it may be acknowledged.
Got(s, p, ok, d) ==
    /\ Good(d) /\ s.barrier <= d.barrier /\ s.offset <= d.offset
    /\ s.state \in Resets => d.state \in Resets
    /\ s.state # "CONNECTED" => d.state # "CONNECTED"
    /\ \A top \in Nat : s.offset <= top /\ p.hi <= top /\ (\A c \in s.queue : c.hi <= top) =>
          d.offset <= top /\ \A c \in d.queue : c.hi <= top
    /\ d.state = "SHUTDOWN" => s.state = "SHUTDOWN" \/ (p.eof /\ ~p.reset /\ s.assigned)
    /\ s.told = "SHUTDOWN" => d.told = "SHUTDOWN"
    /\ d.told = "SHUTDOWN" =>
          \/ s.told = "SHUTDOWN" /\ d.delivered = s.delivered
          \/ /\ p.eof /\ ~p.reset /\ d.state = "SHUTDOWN" /\ d.queue = {} /\ d.ready = <<>>
             /\ d.delivered = s.delivered /\ ~d.crashed
    /\ p.reset /\ ok => d.state # "CONNECTED"
    /\ p.reset /\ s.assigned => d.state \in Resets
    /\ s.assigned /\ ~p.reset /\ Refuses(s, p.hi) => d.queue = s.queue
    /\ ok /\ ~p.reset /\ s.assigned => ~Refuses(s, p.hi)
    /\ s.assigned /\ ~p.reset /\ p.lo <= s.offset /\ ~Refuses(s, p.hi) /\ ~d.crashed =>
          p.hi <= d.offset /\ d.queue \subseteq s.queue
    /\ ~s.assigned => d.queue = s.queue
    /\ Eager /\ Delivery(s) =>
          /\ Delivery(d) /\ Len(s.delivered) <= Len(d.delivered)
          /\ d.delivered # s.delivered => Len(d.delivered) <= p.hi
    /\ Live(d) => Live(s) /\ Admits(s, 0, 0, d)
    /\ Live(d) /\ ok /\ ~p.reset => Admits(s, p.lo, p.hi, d)

LEMMA ArrivalOfData ==
    ASSUME NEW s, Good(s), s.assigned, ~s.crashed, NEW n \in Nat, NEW p, ~p.reset, p.eof \in BOOLEAN,
           p.lo \in 0..MaxBytes, p.hi \in 0..MaxBytes, p.lo <= p.hi, NEW ok \in BOOLEAN,
           NEW order \in Orders(s.queue), NEW fed, fed = recvData(s, n, p.lo, p.hi, order),
           ok <=> ~Refuses(s, p.hi) /\ ~fed.crashed,
           NEW d, d = IF p.eof /\ ~fed.crashed THEN shutdown(fed) ELSE fed,
           Eager => s.bufferSize # noBuffer \/ s.told # "none" \/ s.state \in Resets
    PROVE  Got(s, p, ok, d)
<1>1. /\ Fed(s, p.hi, fed)
      /\ ~fed.crashed /\ fed.delivered # s.delivered => fed.bufferSize = noBuffer
      /\ p.lo <= s.offset /\ ~Refuses(s, p.hi) /\ ~fed.crashed =>
            p.hi <= fed.offset /\ fed.queue \subseteq s.queue
      /\ Live(fed) => Admits(s, 0, 0, fed)
      /\ Live(fed) /\ ~Refuses(s, p.hi) => Admits(s, p.lo, p.hi, fed)
  BY RecvDataFields
<1>8. Refuses(s, p.hi) => fed.queue = s.queue
  BY DEF recvData
<1>2. /\ s.offset \in Nat /\ s.barrier \in Nat /\ s.delivered \in Seq(Int)
      /\ s.state \in InStates /\ s.told \in Endings
      /\ s.told = "SHUTDOWN" => ~s.assigned
      /\ s.told = "RESET" => s.state \in Resets
  BY SegmentsAssumption DEF Good, IsReceiver, EndTold
<1>3. s.told # "SHUTDOWN" /\ (Eager => s.bufferSize # noBuffer \/ s.state \in Resets)
  BY <1>2 DEF Endings
<1>4. /\ Good(fed) /\ s.barrier <= fed.barrier /\ s.offset <= fed.offset
      /\ fed.state = s.state /\ fed.told = s.told
      /\ \A top \in Nat : s.offset <= top /\ p.hi <= top /\ (\A c \in s.queue : c.hi <= top) =>
            fed.offset <= top /\ \A c \in fed.queue : c.hi <= top
  BY <1>1 DEF Fed
<1>5. Eager /\ Delivery(s) =>
         /\ Delivery(fed) /\ Len(s.delivered) <= Len(fed.delivered)
         /\ fed.delivered # s.delivered => Len(fed.delivered) <= p.hi
  <2> SUFFICES ASSUME Eager, Delivery(s)
               PROVE  /\ Delivery(fed) /\ Len(s.delivered) <= Len(fed.delivered)
                      /\ fed.delivered # s.delivered => Len(fed.delivered) <= p.hi
    OBVIOUS
  <2>1. /\ Delivery(fed) /\ Len(s.delivered) <= Len(fed.delivered)
        /\ Len(fed.delivered) = Len(s.delivered) \/ Len(fed.delivered) <= p.hi
    BY <1>1, <1>3 DEF Fed
  <2>2. fed.delivered \in Seq(Int)
    BY <1>4 DEF Good, IsReceiver
  <2>3. ASSUME Len(fed.delivered) = Len(s.delivered) PROVE fed.delivered = s.delivered
    <3>1. InOrder(s.delivered) /\ InOrder(fed.delivered)
      BY <2>1 DEF Delivery
    <3>2. \A i \in 1..Len(s.delivered) : fed.delivered[i] = s.delivered[i]
      BY <2>3, <3>1 DEF InOrder
    <3> QED BY <1>2, <2>2, <2>3, <3>2, SeqEqual
  <2> QED BY <2>1, <2>3
<1>6. CASE ~(p.eof /\ ~fed.crashed)
  <2>1. d = fed
    BY <1>6
  <2>2. /\ Live(d) => Live(s) /\ Admits(s, 0, 0, d)
        /\ Live(d) /\ ok /\ ~p.reset => Admits(s, p.lo, p.hi, d)
    BY <1>1, <1>4, <2>1 DEF Live
  <2> QED BY <1>1, <1>3, <1>4, <1>5, <1>8, <2>1, <2>2 DEF Got
<1>7. CASE p.eof /\ ~fed.crashed
  <2>1. d = shutdown(fed)
    BY <1>7
  <2>2. /\ Good(d) /\ Stays(fed, d)
        /\ IF fed.state \in Resets THEN d.state \in Resets ELSE d.state = "SHUTDOWN"
        /\ d.ready = fed.ready
        /\ \/ d.told = fed.told
           \/ /\ d.told = "SHUTDOWN" /\ d.state = "SHUTDOWN" /\ fed.queue = {}
              /\ fed.ready = <<>> /\ fed.bufferSize # noBuffer
        /\ Delivery(fed) => Delivery(d)
    BY <1>4, <2>1, ShutdownFields
  <2>9. fed.barrier \in Nat /\ d.barrier \in Nat
    BY <1>4, <2>2 DEF Good, IsReceiver
  <2>3. s.barrier <= d.barrier
    BY <1>2, <1>4, <2>2, <2>9 DEF Stays
  <2>4. d.offset = fed.offset /\ d.queue = fed.queue /\ d.crashed = fed.crashed
        /\ d.delivered = fed.delivered
    BY <2>2 DEF Stays
  <2>5. d.told = "SHUTDOWN" => /\ p.eof /\ ~p.reset /\ d.state = "SHUTDOWN" /\ d.queue = {}
                               /\ d.ready = <<>> /\ d.delivered = s.delivered /\ ~d.crashed
    BY <1>1, <1>3, <1>4, <1>7, <2>2, <2>4
  <2>6. /\ s.state \in Resets => d.state \in Resets
        /\ d.state # "CONNECTED"
    BY <1>4, <2>2 DEF Resets
  <2>7. Eager /\ Delivery(s) =>
           /\ Delivery(d) /\ Len(s.delivered) <= Len(d.delivered)
           /\ d.delivered # s.delivered => Len(d.delivered) <= p.hi
    BY <1>5, <2>2, <2>4
  <2>8. \A top \in Nat : s.offset <= top /\ p.hi <= top /\ (\A c \in s.queue : c.hi <= top) =>
            d.offset <= top /\ \A c \in d.queue : c.hi <= top
    BY <1>4, <2>4
  <2>10. ~Live(d)
    BY <2>6 DEF Live
  <2> QED BY <1>1, <1>4, <1>7, <1>8, <2>2, <2>3, <2>4, <2>5, <2>6, <2>7, <2>8, <2>10 DEF Got
<1> QED BY <1>6, <1>7


LEMMA ArrivalOfReset ==
    ASSUME NEW s, Good(s), NEW p, p.reset, NEW ok \in BOOLEAN, NEW d,
           d = reset([s EXCEPT !.state = "SHUTDOWN", !.ready = <<>>, !.readyBytes = 0]), s.assigned
    PROVE  Got(s, p, ok, d)
<1> DEFINE m == [s EXCEPT !.state = "SHUTDOWN", !.ready = <<>>, !.readyBytes = 0]
<1>1. IsReceiver(s) /\ EndTold(s)
  BY DEF Good
<1>2. <<>> \in Seq(Slice)
  OBVIOUS
<1>3. /\ IsReceiver(m) /\ m.state = "SHUTDOWN" /\ m.assigned /\ m.told = s.told
      /\ m.queue = s.queue /\ m.offset = s.offset /\ m.crashed = s.crashed
      /\ m.delivered = s.delivered /\ m.barrier = s.barrier
  <2> DEFINE down == "SHUTDOWN"
             e == [s EXCEPT !.state = down]
  <2>1. down \in InStates
    BY DEF InStates
  <2> DEFINE nothing == <<>>
             zero == 0
  <2>2. m = [e EXCEPT !.ready = nothing, !.readyBytes = zero]
    OBVIOUS
  <2>5. nothing \in Seq(Slice) /\ zero \in Int
    OBVIOUS
  <2> HIDE DEF down, m, nothing, zero
  <2>3. /\ IsReceiver(e) /\ e.state = down /\ e.assigned = s.assigned /\ e.told = s.told
        /\ e.queue = s.queue /\ e.offset = s.offset /\ e.crashed = s.crashed
        /\ e.delivered = s.delivered /\ e.barrier = s.barrier
    BY <1>1, <2>1 DEF IsReceiver, InFields
  <2> HIDE DEF e
  <2>4. /\ IsReceiver(m) /\ m.state = e.state /\ m.assigned = e.assigned /\ m.told = e.told
        /\ m.queue = e.queue /\ m.offset = e.offset /\ m.crashed = e.crashed
        /\ m.delivered = e.delivered /\ m.barrier = e.barrier
    BY <2>2, <2>3, <2>5 DEF IsReceiver, InFields
  <2> QED BY <2>3, <2>4 DEF down
<1>4. d = reset(m)
  OBVIOUS
<1> HIDE DEF m
<1>5. s.told # "SHUTDOWN"
  BY <1>1 DEF EndTold
<1>6. /\ Good(d) /\ Stays(m, d) /\ d.state \in Resets
      /\ d.told \in {m.told, "RESET"}
      /\ InOrder(m.delivered) => Delivery(d)
  BY <1>3, <1>4, <1>5, ReaderResetFields
<1>7. /\ d.queue = s.queue /\ d.offset = s.offset /\ d.delivered = s.delivered
      /\ s.barrier <= d.barrier /\ s.offset \in Nat /\ Len(s.delivered) \in Nat
  BY <1>1, <1>3, <1>6, SegmentsAssumption DEF Stays, IsReceiver
<1>8. d.state # "CONNECTED" /\ d.state # "SHUTDOWN" /\ d.told # "SHUTDOWN"
  BY <1>3, <1>5, <1>6 DEF Resets
<1>9. Delivery(s) => Delivery(d)
  BY <1>3, <1>6 DEF Delivery
<1>10. s.offset <= d.offset /\ Len(s.delivered) <= Len(d.delivered)
  BY <1>7
<1> QED BY <1>5, <1>6, <1>7, <1>8, <1>9, <1>10 DEF Got, Live

\* HostDispatch drops a segment of a stream whose id was given back.
LEMMA ArrivalTooLate ==
    ASSUME NEW s, Good(s), NEW p, NEW ok \in BOOLEAN, ~s.assigned
    PROVE  Got(s, p, ok, s)
<1>1. IsReceiver(s) /\ IdGiven(s)
  BY DEF Good
<1>2. /\ s.barrier \in Nat /\ s.offset \in Nat /\ Len(s.delivered) \in Nat
      /\ s.state # "CONNECTED"
  BY <1>1, SegmentsAssumption DEF IsReceiver, IdGiven
<1>3. s.barrier <= s.barrier /\ s.offset <= s.offset /\ Len(s.delivered) <= Len(s.delivered)
  BY <1>2
<1> QED BY <1>2, <1>3 DEF Got, Live

\* A slice that is overwritten changes nothing that Got tells of.
LEMMA GotAlike ==
    ASSUME NEW s, NEW t, Stays(s, t), t.barrier = s.barrier, t.state = s.state,
           t.told = s.told, t.assigned = s.assigned, Delivery(s) => Delivery(t),
           Admits(s, 0, 0, t), NEW p, NEW ok, NEW d, Got(t, p, ok, d)
    PROVE  Got(s, p, ok, d)
<1>1. ASSUME NEW lo, NEW hi, Admits(t, lo, hi, d) PROVE Admits(s, lo, hi, d)
  BY <1>1 DEF Admits
<1>2. /\ Live(d) => Live(s) /\ Admits(s, 0, 0, d)
      /\ Live(d) /\ ok /\ ~p.reset => Admits(s, p.lo, p.hi, d)
  BY <1>1 DEF Got, Live, Stays
<1> QED BY <1>2 DEF Got, Stays, Refuses

LEMMA Arrival ==
    ASSUME Good(in), NEW n \in Nat, NEW p, p.reset \in BOOLEAN, p.eof \in BOOLEAN,
           p.lo \in 0..MaxBytes, p.hi \in 0..MaxBytes, ~p.reset => p.lo <= p.hi,
           NEW ok \in BOOLEAN, RecvSegment(n, p, ok)
    PROVE  Got(in, p, ok, in')
<1> DEFINE s == Overwrite(in)
<1>1. /\ Good(s) /\ Stays(in, s) /\ s.barrier = in.barrier
      /\ s.state = in.state /\ s.told = in.told /\ s.assigned = in.assigned
      /\ s.complete = in.complete /\ s.bufferSize = in.bufferSize
      /\ Delivery(in) => Delivery(s)
      /\ Admits(in, 0, 0, s)
  BY OverwriteFields
<1>2. /\ ~in.crashed /\ ReaderCaughtUp
      /\ IF ~in.assigned THEN ok /\ in' = s
         ELSE IF p.reset
         THEN ok /\ in' = reset([s EXCEPT !.state = "SHUTDOWN", !.ready = <<>>, !.readyBytes = 0])
         ELSE \E order \in Orders(s.queue) :
                  LET fed == recvData(s, n, p.lo, p.hi, order)
                  IN  /\ ok <=> ~Refuses(s, p.hi) /\ ~fed.crashed
                      /\ in' = IF p.eof /\ ~fed.crashed THEN shutdown(fed) ELSE fed
  BY DEF RecvSegment
<1> HIDE DEF s
<1>3. ~s.crashed /\ (Eager => s.bufferSize # noBuffer \/ s.told # "none" \/ s.state \in Resets)
  BY <1>1, <1>2 DEF ReaderCaughtUp, Stays, Resets
<1>4. Got(s, p, ok, in')
  <2>1. CASE ~in.assigned
    BY <1>1, <1>2, <2>1, ArrivalTooLate
  <2>2. CASE in.assigned /\ p.reset
    BY <1>1, <1>2, <2>2, ArrivalOfReset
  <2>3. CASE in.assigned /\ ~p.reset
    <3>1. PICK order \in Orders(s.queue) :
              LET fed == recvData(s, n, p.lo, p.hi, order)
              IN  /\ ok <=> ~Refuses(s, p.hi) /\ ~fed.crashed
                  /\ in' = IF p.eof /\ ~fed.crashed THEN shutdown(fed) ELSE fed
      BY <1>2, <2>3
    <3> QED BY <1>1, <1>3, <2>3, <3>1, ArrivalOfData
  <2> QED BY <2>1, <2>2, <2>3
<1> QED BY <1>1, <1>4, GotAlike


-----------------------------------------------------------------------------
(***************************************************************************)
(* The other steps of the reader's host.                                     *)
(***************************************************************************)
\* What is said in barriers stays true.
LEMMA BarrierKept ==
    ASSUME InInv, Good(in)', in.barrier <= in'.barrier,
           in.state \in Resets => in'.state \in Resets,
           UNCHANGED barriers, barriersOpen' \subseteq barriersOpen
    PROVE  InInv'
<1>1. in.barrier \in Nat /\ in'.barrier \in Nat
  BY DEF InInv, Good, IsReceiver
<1>2. \A n \in 1..Len(barriers) : barriers[n] \in Record
  BY ElementOfSeq DEF InInv, BarrierInv
<1>3. ASSUME NEW n \in 1..Len(barriers)
      PROVE  IF barriers[n].reset THEN in'.state \in Resets ELSE barriers[n].barrier <= in'.barrier
  <2>1. barriers[n].barrier \in Nat
    BY <1>2 DEF Record
  <2> QED BY <1>1, <2>1 DEF InInv, BarrierInv
<1> QED BY <1>3 DEF InInv, BarrierInv

LEMMA StepRead ==
    ASSUME InInv, NEW size \in ReadSizes, Read(size)
    PROVE  /\ InInv' /\ in'.state = in.state /\ in'.queue = in.queue
           /\ in.barrier <= in'.barrier /\ in'.offset = in.offset /\ in'.crashed = in.crashed
           /\ \/ in'.told = "none"
              \/ /\ in'.told = "SHUTDOWN" /\ in.state = "SHUTDOWN" /\ in.queue = {}
                 /\ in.ready = <<>> /\ in'.delivered = in.delivered
           /\ Delivery(in) => Delivery(in)' /\ Len(in.delivered) <= Len(in'.delivered)
           /\ ~in.crashed /\ in.told = "none" /\ in.state \notin Resets
<1>1. /\ in' = read(in, size) /\ ~in.crashed /\ in.bufferSize = noBuffer
      /\ in.state \in {"CONNECTED", "SHUTDOWN"} /\ in.told = "none"
      /\ UNCHANGED <<barriers, barriersOpen>>
  BY DEF Read
<1>2. size \in Nat \cup {-1} /\ Good(in)
  BY InStreamAssumption DEF InInv
<1>3. /\ Good(in') /\ in.barrier <= in'.barrier
      /\ in'.state = in.state /\ in'.queue = in.queue /\ in'.offset = in.offset
      /\ in'.crashed = in.crashed
      /\ \/ in'.told = "none"
         \/ /\ in'.told = "SHUTDOWN" /\ in.state = "SHUTDOWN" /\ in.queue = {}
            /\ in.ready = <<>> /\ in'.delivered = in.delivered
      /\ Delivery(in) /\ ~in.crashed => Delivery(in') /\ Len(in.delivered) <= Len(in'.delivered)
  BY <1>1, <1>2, ReadFields
<1>4. InInv'
  BY <1>1, <1>3, BarrierKept
<1> QED BY <1>1, <1>3, <1>4 DEF Resets

LEMMA StepResetReader ==
    ASSUME InInv, ResetReader
    PROVE  /\ InInv' /\ Stays(in, in') /\ in'.state \in Resets
           /\ in'.told \in {in.told, "RESET"} /\ (in.told = "SHUTDOWN" => in'.told = in.told)
           /\ Delivery(in) => Delivery(in)'
<1>1. in' = reset(in) /\ UNCHANGED <<barriers, barriersOpen>>
  BY DEF ResetReader
<1>2. /\ IsReceiver(in)
      /\ ~in.assigned => in.complete \/ (in.state = "SHUTDOWN" /\ in.queue = {})
      /\ ~in.assigned \/ in.complete => in.state # "CONNECTED"
      /\ in.told = "SHUTDOWN" => ~in.assigned /\ in.bufferSize = noBuffer
  BY DEF InInv, Good, IdGiven, EndTold
<1>3. /\ Good(in') /\ Stays(in, in') /\ in'.state \in Resets
      /\ in'.told \in {in.told, "RESET"} /\ (in.told = "SHUTDOWN" => in'.told = in.told)
      /\ InOrder(in.delivered) => Delivery(in')
  BY <1>1, <1>2, ReaderResetFields
<1>4. InInv'
  BY <1>1, <1>3, BarrierKept DEF Stays
<1> QED BY <1>3, <1>4 DEF Delivery

LEMMA SameKept ==
    ASSUME InInv, Same(in, in'), UNCHANGED barriers, barriersOpen' \subseteq barriersOpen
    PROVE  InInv'
BY BarrierKept DEF Same, Stays

LEMMA StepOtherTraffic ==
    ASSUME InInv, OtherTraffic
    PROVE  InInv' /\ Same(in, in') /\ UNCHANGED <<barriers, barriersOpen>>
<1>1. in' = Overwrite(in) /\ UNCHANGED <<barriers, barriersOpen>>
  BY DEF OtherTraffic
<1>2. Good(in)
  BY DEF InInv
<1>3. Same(in, in')
  BY <1>1, <1>2, OverwriteFields DEF Same
<1> QED BY <1>1, <1>3, SameKept

LEMMA StepPullBarrier ==
    ASSUME InInv, PullBarrier
    PROVE  InInv' /\ Same(in, in')
<1> DEFINE s == Overwrite(in)
           b == [reset |-> in.state # "CONNECTED", barrier |-> in.barrier,
                 offset |-> in.offset - in.readyBytes, last |-> in.lastBarrier]
           n == Len(barriers)
<1>1. /\ in.state # "SHUTDOWN"
      /\ barriers' = Append(barriers, b) /\ barriersOpen' = barriersOpen \cup {n + 1}
      /\ \/ in' = [s EXCEPT !.rts = FALSE]
         \/ in' = [s EXCEPT !.rts = FALSE, !.lastBarrier = in.barrier]
  <2> DEFINE off == [s EXCEPT !.rts = FALSE]
  <2>1. /\ in.state # "SHUTDOWN" /\ barriersOpen' = barriersOpen \cup {n + 1}
        /\ barriers' = Append(barriers, b)
        /\ in' = IF in.state = "CONNECTED" THEN [off EXCEPT !.lastBarrier = in.barrier] ELSE off
    BY DEF PullBarrier
  <2>2. [off EXCEPT !.lastBarrier = in.barrier]
          = [s EXCEPT !.rts = FALSE, !.lastBarrier = in.barrier]
    OBVIOUS
  <2> QED BY <2>1, <2>2
<1>2. /\ Good(in) /\ IsReceiver(in) /\ in.barrier \in Nat /\ in.state \in InStates
      /\ barriers \in Seq(Record)
      /\ barriersOpen \subseteq 1..n /\ n \in Nat
  BY DEF InInv, Good, BarrierInv, IsReceiver
<1>3. /\ Good(s) /\ Stays(in, s) /\ s.barrier = in.barrier
      /\ s.state = in.state /\ s.told = in.told
      /\ Delivery(in) => Delivery(s)
  BY <1>2, OverwriteFields
<1>4. b \in Record /\ b.barrier = in.barrier /\ (b.reset => in.state \in Resets)
  <2>1. in.offset - in.readyBytes \in Int /\ in.lastBarrier \in Nat
    BY <1>2, SegmentsAssumption DEF IsReceiver
  <2>2. (in.state # "CONNECTED") \in BOOLEAN
    OBVIOUS
  <2> QED BY <1>1, <1>2, <2>1, <2>2 DEF Record, Resets, InStates
<1> HIDE DEF s, b
<1>5. Same(s, in')
  BY <1>1, <1>2, <1>3, ToldSame
<1>6. Same(in, in')
  <2>1. in.barrier <= in'.barrier
    BY <1>3, <1>5 DEF Same, Stays
  <2> QED BY <1>3, <1>5, <2>1 DEF Same, Stays
<1>7. BarrierInv'
  <2>1. /\ barriers' \in Seq(Record) /\ Len(barriers') = n + 1
        /\ \A i \in 1..n : barriers'[i] = barriers[i]
        /\ barriers'[n + 1] = b
    BY <1>1, <1>2, <1>4, AppendProperties
  <2>2. barriersOpen' \subseteq 1..(n + 1)
    BY <1>1, <1>2
  <2>3. in.barrier \in Nat /\ in'.barrier \in Nat /\ in.barrier <= in'.barrier
    BY <1>2, <1>6 DEF Same, Stays, Good, IsReceiver
  <2>4. ASSUME NEW i \in 1..(n + 1)
        PROVE  IF barriers'[i].reset THEN in'.state \in Resets ELSE barriers'[i].barrier <= in'.barrier
    <3>1. CASE i = n + 1
      BY <1>4, <1>6, <2>1, <2>3, <3>1 DEF Same
    <3>2. CASE i # n + 1
      <4>1. i \in 1..n
        BY <1>2, <3>2
      <4>2. barriers[i] \in Record
        BY <1>2, <4>1, ElementOfSeq
      <4>3. IF barriers[i].reset THEN in.state \in Resets ELSE barriers[i].barrier <= in.barrier
        BY <4>1 DEF InInv, BarrierInv
      <4>4. in'.state = in.state /\ barriers'[i] = barriers[i]
        BY <1>6, <2>1, <4>1 DEF Same
      <4>5. barriers[i].barrier \in Nat
        BY <4>2 DEF Record
      <4>6. barriers[i].barrier <= in.barrier => barriers[i].barrier <= in'.barrier
        BY <2>3, <4>5
      <4> QED BY <4>3, <4>4, <4>6
    <3> QED BY <3>1, <3>2
  <2> QED BY <2>1, <2>2, <2>4 DEF BarrierInv
<1> QED BY <1>5, <1>6, <1>7 DEF InInv, Same

LEMMA StepAckBarrier ==
    ASSUME InInv, NEW n \in barriersOpen, NEW ok \in BOOLEAN, AckBarrier(n, ok)
    PROVE  InInv' /\ Same(in, in') /\ UNCHANGED barriers
<1> DEFINE b == barriers[n]
           x == 2 * (in.offset - in.readyBytes - b.offset)
           window == Max({x, MinimumWindow})
<1>1. /\ UNCHANGED barriers /\ barriersOpen' \subseteq barriersOpen
      /\ in' = IF b.reset THEN IF ok THEN Complete(in) ELSE [in EXCEPT !.rts = TRUE]
               ELSE IF ok
               THEN fireEvent([in EXCEPT !.window = window,
                        !.barrier = Max({@, in.offset - in.readyBytes + window})])
               ELSE BarrierLost(in, b)
  BY DEF AckBarrier
<1>2. /\ Good(in) /\ n \in 1..Len(barriers) /\ b \in Record
      /\ b.reset => in.state \in Resets
  <2>1. n \in 1..Len(barriers)
    BY DEF InInv, BarrierInv
  <2>2. b \in Record
    BY <2>1, ElementOfSeq DEF InInv, BarrierInv
  <2> QED BY <2>1, <2>2 DEF InInv, BarrierInv
<1>3. b.offset \in Int /\ b.last \in Nat
  BY <1>2 DEF Record
<1>4. window \in Nat /\ MinimumWindow <= window
  <2>1. x \in Int /\ MinimumWindow \in Nat
    BY <1>2, <1>3, SegmentsAssumption DEF Good, IsReceiver
  <2> HIDE DEF x
  <2>2. window \in {x, MinimumWindow} /\ x <= window /\ MinimumWindow <= window
    <3>1. MinimumWindow \in Int
      BY <2>1
    <3> QED BY <2>1, <3>1, MaxOfTwo, Zenon
  <2> HIDE DEF window
  <2> QED BY <2>1, <2>2
<1> HIDE DEF b, window
<1>5. Same(in, in')
  <2>1. CASE b.reset /\ ok
    BY <1>1, <1>2, <2>1, CompleteSame
  <2>2. CASE b.reset /\ ~ok
    <3>1. in' = [in EXCEPT !.rts = TRUE] /\ in.state # "SHUTDOWN"
      BY <1>1, <1>2, <2>2 DEF Resets
    <3>2. TRUE \in BOOLEAN /\ 0 \in Nat
      OBVIOUS
    <3> QED BY <1>2, <3>1, <3>2, ToldSame
  <2>3. CASE ~b.reset /\ ok
    <3>1. in' = fireEvent([in EXCEPT !.window = window,
                        !.barrier = Max({@, in.offset - in.readyBytes + window})])
      BY <1>1, <2>3
    <3> QED BY <1>2, <1>4, <3>1, WindowSame
  <2>4. CASE ~b.reset /\ ~ok
    BY <1>1, <1>2, <1>3, <2>4, LostSame
  <2> QED BY <2>1, <2>2, <2>3, <2>4
<1> QED BY <1>1, <1>5, SameKept

(***************************************************************************)
(* While the reader waits: its books, and the barriers it told.              *)
(***************************************************************************)

\* Barriers are told in increasing order, each when that was worth it.
Rising ==
    \A n \in 1..Len(barriers) : ~barriers[n].reset =>
        /\ BarrierIncrement <= barriers[n].barrier - barriers[n].last
        /\ MinimumWindow <= barriers[n].barrier
        /\ \A m \in 1..n : ~barriers[m].reset => barriers[m].barrier <= barriers[n].barrier
ReaderInv == Rising /\ (Live(in) => Books(in))

\* A step of a connected receiver that brings no data forgets none, and tells nothing.
Keeps(s, d) == Live(d) => Live(s) /\ Admits(s, 0, 0, d)

LEMMA ReaderStarts == ASSUME InInit PROVE ReaderInv
<1>1. barriers = <<>> /\ in.ready = <<>> /\ in.readyBytes = 0 /\ in.queue = {}
      /\ in.barrier = MinimumWindow /\ in.lastBarrier = MinimumWindow /\ ~in.rts
  BY DEF InInit
<1>2. 1..Len(barriers) = {}
  <2>1. Len(<<>>) = 0
    OBVIOUS
  <2> QED BY <1>1, <2>1
<1>3. Counted(in.ready, in.readyBytes)
  BY <1>1, CountedNone
<1>4. MinimumWindow - MinimumWindow = 0 /\ ~(0 >= BarrierIncrement) /\ MinimumWindow <= MinimumWindow
  BY SegmentsAssumption, InStreamAssumption
<1>5. Books(in)
  BY <1>1, <1>3, <1>4 DEF Books, Asks
<1> QED BY <1>2, <1>5 DEF ReaderInv, Rising

LEMMA ReaderKept ==
    ASSUME ReaderInv, Live(in') => Live(in) /\ (Books(in) => Books(in')), UNCHANGED barriers
    PROVE  ReaderInv'
<1>1. Rising'
  BY DEF ReaderInv, Rising
<1>2. Live(in)' => Books(in)'
  BY DEF ReaderInv
<1> QED BY <1>1, <1>2 DEF ReaderInv

LEMMA AsksStill ==
    ASSUME NEW s, NEW d, IsReceiver(s), IsReceiver(d), Books(s), Books(d),
           d.lastBarrier = s.lastBarrier, s.barrier <= d.barrier
    PROVE  s.rts => d.rts
BY InStreamAssumption DEF IsReceiver, Books, Asks

LEMMA LiveRead ==
    ASSUME InInv, ReaderInv, NEW size \in ReadSizes, Read(size)
    PROVE  ReaderInv' /\ Keeps(in, in')
<1>1. /\ in' = read(in, size) /\ ~in.crashed /\ in.bufferSize = noBuffer
      /\ in.state \in {"CONNECTED", "SHUTDOWN"} /\ in.told = "none"
      /\ UNCHANGED barriers
  BY DEF Read
<1>2. size \in Nat \cup {-1} /\ Good(in)
  BY InStreamAssumption DEF InInv
<1>3. /\ in'.state = in.state /\ in'.queue = in.queue /\ in'.offset = in.offset
      /\ in'.crashed = in.crashed
      /\ in.state = "CONNECTED" => in'.lastBarrier = in.lastBarrier /\ (Books(in) => Books(in'))
  BY <1>1, <1>2, ReadFields
<1>4. Keeps(in, in')
  BY <1>3 DEF Keeps, Live, Admits, Brought
<1> QED BY <1>1, <1>4, ReaderKept DEF Keeps, Admits

LEMMA LiveResetReader ==
    ASSUME InInv, ReaderInv, ResetReader
    PROVE  ReaderInv' /\ ~Live(in')
<1>1. in'.state \in Resets /\ UNCHANGED barriers
  BY StepResetReader DEF ResetReader
<1>2. ~Live(in')
  BY <1>1 DEF Live, Resets
<1> QED BY <1>1, <1>2, ReaderKept

LEMMA LiveOtherTraffic ==
    ASSUME InInv, ReaderInv, OtherTraffic
    PROVE  ReaderInv' /\ Keeps(in, in')
<1>1. in' = Overwrite(in) /\ UNCHANGED barriers /\ Good(in)
  BY DEF OtherTraffic, InInv
<1>2. Keeps(in, in')
  BY <1>1, OverwriteFields DEF Keeps, Live, Stays
<1> QED BY <1>1, <1>2, ReaderKept DEF Keeps, Admits

LEMMA LivePullBarrier ==
    ASSUME InInv, ReaderInv, PullBarrier
    PROVE  /\ ReaderInv' /\ Len(barriers') = Len(barriers) + 1
           /\ \A n \in 1..Len(barriers) : barriers'[n] = barriers[n]
           /\ barriersOpen' = barriersOpen \cup {Len(barriers) + 1}
           /\ Live(in') => /\ Live(in) /\ ~barriers'[Len(barriers) + 1].reset
                           /\ in'.lastBarrier = barriers'[Len(barriers) + 1].barrier
                           /\ \A b \in Nat : Brought(in, b) => Brought(in', b)
<1> DEFINE s == Overwrite(in)
           r == [reset |-> in.state # "CONNECTED", barrier |-> in.barrier,
                 offset |-> in.offset - in.readyBytes, last |-> in.lastBarrier]
           k == Len(barriers)
           off == [s EXCEPT !.rts = FALSE]
<1>1. /\ in.rts /\ ~in.crashed /\ barriers' = Append(barriers, r)
      /\ barriersOpen' = barriersOpen \cup {k + 1}
      /\ in' = IF in.state = "CONNECTED" THEN [off EXCEPT !.lastBarrier = in.barrier] ELSE off
  BY DEF PullBarrier
<1>2. /\ Good(in) /\ Good(s) /\ IsReceiver(in) /\ IsReceiver(s) /\ barriers \in Seq(Record)
      /\ k \in Nat /\ in.barrier \in Nat /\ in.lastBarrier \in Nat
  <2>1. Good(in) /\ IsReceiver(in) /\ barriers \in Seq(Record) /\ k \in Nat
    BY DEF InInv, Good, BarrierInv
  <2>2. Good(s) /\ IsReceiver(s)
    BY <2>1, OverwriteFields DEF Good
  <2> QED BY <2>1, <2>2 DEF IsReceiver
<1>3. /\ s.barrier = in.barrier /\ s.state = in.state /\ s.crashed = in.crashed
      /\ s.queue = in.queue /\ s.offset = in.offset
      /\ Books(in) => Books(s)
  BY <1>2, OverwriteFields DEF Stays, Admits
<1>4. r.barrier = in.barrier /\ r.last = in.lastBarrier /\ (r.reset <=> in.state # "CONNECTED")
  OBVIOUS
<1> HIDE DEF s, r, off
<1>5. /\ Len(barriers') = k + 1 /\ barriers'[k + 1] = r
      /\ \A i \in 1..k : barriers'[i] = barriers[i]
  BY <1>1, <1>2, AppendProperties
<1>6. DOMAIN s = InFields
  BY <1>2 DEF IsReceiver
<1>7. /\ in'.state = in.state /\ in'.crashed = in.crashed /\ in'.queue = in.queue
      /\ in'.offset = in.offset /\ in'.ready = s.ready /\ in'.readyBytes = s.readyBytes
      /\ in'.barrier = in.barrier /\ ~in'.rts
      /\ in.state = "CONNECTED" => in'.lastBarrier = in.barrier
  BY <1>1, <1>3, <1>6 DEF off, InFields
<1>8. ASSUME in.state = "CONNECTED"
      PROVE  Books(in) /\ Books(in')
  <2>1. Books(in) /\ Books(s)
    BY <1>1, <1>3, <1>8 DEF ReaderInv, Live
  <2>2. ~(in.barrier - in.barrier >= BarrierIncrement)
    BY <1>2, InStreamAssumption
  <2>3. Asks(in')
    BY <1>7, <1>8, <2>2 DEF Asks
  <2> QED BY <1>3, <1>7, <2>1, <2>3 DEF Books
<1>9. Rising'
  <2>1. SUFFICES ASSUME NEW n \in 1..(k + 1), ~barriers'[n].reset
                 PROVE  /\ BarrierIncrement <= barriers'[n].barrier - barriers'[n].last
                        /\ MinimumWindow <= barriers'[n].barrier
                        /\ \A m \in 1..n : ~barriers'[m].reset =>
                              barriers'[m].barrier <= barriers'[n].barrier
    BY <1>5 DEF Rising
  <2>2. CASE n # k + 1
    <3>1. n \in 1..k /\ 1..n \subseteq 1..k
      BY <1>2, <2>2
    <3> QED BY <1>5, <2>1, <3>1 DEF ReaderInv, Rising
  <2>3. CASE n = k + 1
    <3>1. in.state = "CONNECTED" /\ barriers'[n] = r
      BY <1>4, <1>5, <2>1, <2>3
    <3>2. in.barrier - in.lastBarrier >= BarrierIncrement /\ MinimumWindow <= in.barrier
      BY <1>1, <1>8, <3>1 DEF Books, Asks
    <3>3. BarrierIncrement <= in.barrier - in.lastBarrier
      BY <1>2, <3>2, InStreamAssumption
    <3>4. ASSUME NEW m \in 1..n, ~barriers'[m].reset
          PROVE  barriers'[m].barrier <= in.barrier
      <4>1. CASE m = n
        BY <1>2, <1>4, <3>1, <4>1
      <4>2. CASE m # n
        <5>1. m \in 1..k
          BY <1>2, <2>3, <4>2
        <5> QED BY <1>5, <3>4, <5>1 DEF InInv, BarrierInv
      <4> QED BY <4>1, <4>2
    <3> QED BY <1>4, <3>1, <3>2, <3>3, <3>4
  <2> QED BY <2>2, <2>3
<1>10. ReaderInv'
  BY <1>7, <1>8, <1>9 DEF ReaderInv, Live
<1>11. \A b \in Nat : Brought(in, b) => Brought(in', b)
  BY <1>7 DEF Brought
<1> QED BY <1>1, <1>4, <1>5, <1>7, <1>10, <1>11 DEF Live

LEMMA LiveAckBarrier ==
    ASSUME InInv, ReaderInv, NEW n \in barriersOpen, NEW ok \in BOOLEAN, AckBarrier(n, ok)
    PROVE  /\ ReaderInv' /\ UNCHANGED barriers /\ barriersOpen' = barriersOpen \ {n}
           /\ Live(in') => /\ Live(in) /\ \A b \in Nat : Brought(in, b) => Brought(in', b)
                           /\ \/ in'.lastBarrier = in.lastBarrier
                                    /\ (ok \/ in.lastBarrier # barriers[n].barrier)
                                    /\ (in.rts => in'.rts)
                              \/ in'.rts
<1> DEFINE r == barriers[n]
           x == 2 * (in.offset - in.readyBytes - r.offset)
           window == Max({x, MinimumWindow})
<1>1. /\ UNCHANGED barriers /\ barriersOpen' = barriersOpen \ {n} /\ ~in.crashed
      /\ in' = IF r.reset THEN IF ok THEN Complete(in) ELSE [in EXCEPT !.rts = TRUE]
               ELSE IF ok
               THEN fireEvent([in EXCEPT !.window = window,
                        !.barrier = Max({@, in.offset - in.readyBytes + window})])
               ELSE BarrierLost(in, r)
  BY DEF AckBarrier
<1>2. /\ Good(in) /\ n \in 1..Len(barriers) /\ r \in Record
      /\ IF r.reset THEN in.state \in Resets ELSE r.barrier <= in.barrier
  <2>1. n \in 1..Len(barriers)
    BY DEF InInv, BarrierInv
  <2>2. r \in Record
    BY <2>1, ElementOfSeq DEF InInv, BarrierInv
  <2> QED BY <2>1, <2>2 DEF InInv, BarrierInv
<1>3. r.offset \in Int /\ r.last \in Nat /\ r.barrier \in Nat
  BY <1>2 DEF Record
<1>4. window \in Nat /\ MinimumWindow <= window
  <2>1. x \in Int /\ MinimumWindow \in Nat
    BY <1>2, <1>3, SegmentsAssumption DEF Good, IsReceiver
  <2> HIDE DEF x
  <2>2. window \in {x, MinimumWindow} /\ x <= window /\ MinimumWindow <= window
    <3>1. MinimumWindow \in Int
      BY <2>1
    <3> QED BY <2>1, <3>1, MaxOfTwo, Zenon
  <2> HIDE DEF window
  <2> QED BY <2>1, <2>2
<1> HIDE DEF r, window
<1>5. Same(in, in')
  BY StepAckBarrier
<1>6. CASE ~Live(in')
  BY <1>1, <1>6, ReaderKept
<1>7. CASE Live(in')
  <2>1. in.state = "CONNECTED" /\ Live(in) /\ ~r.reset /\ Books(in)
    BY <1>1, <1>2, <1>5, <1>7 DEF Live, Same, Resets, ReaderInv
  <2>2. \A b \in Nat : Brought(in, b) => Brought(in', b)
    BY <1>5 DEF Same, Stays, Brought
  <2>3. CASE ok
    <3>1. in' = fireEvent([in EXCEPT !.window = window,
                        !.barrier = Max({@, in.offset - in.readyBytes + window})])
      BY <1>1, <2>1, <2>3
    <3>2. Admits(in, 0, 0, in')
      BY <1>2, <1>4, <2>1, <3>1, WindowSame
    <3>3. in'.lastBarrier = in.lastBarrier /\ Books(in')
      BY <2>1, <3>2 DEF Admits
    <3>4. ReaderInv'
      BY <1>1, <2>1, <3>3, ReaderKept
    <3>5. in.rts => in'.rts
      BY <1>2, <1>5, <2>1, <3>3, AsksStill DEF Same, Stays, Good
    <3> QED BY <1>1, <2>1, <2>2, <2>3, <3>3, <3>4, <3>5
  <2>4. CASE ~ok
    <3>1. in' = BarrierLost(in, r)
      BY <1>1, <2>1, <2>4
    <3>2. /\ in'.barrier = in.barrier
          /\ \/ in' = in /\ in.lastBarrier # r.barrier
             \/ /\ in'.lastBarrier = r.last /\ in'.ready = in.ready
                /\ in'.readyBytes = in.readyBytes /\ Asks(in')
      BY <1>2, <1>3, <2>1, <3>1, LostSame
    <3>3. CASE in' = in /\ in.lastBarrier # r.barrier
      <4>1. ReaderInv'
        BY <1>1, <2>1, <3>3, ReaderKept
      <4> QED BY <1>1, <2>1, <2>2, <3>3, <4>1 DEF r
    <3>4. CASE /\ in'.lastBarrier = r.last /\ in'.ready = in.ready
               /\ in'.readyBytes = in.readyBytes /\ Asks(in')
      <4>1. Books(in')
        BY <1>5, <2>1, <3>2, <3>4 DEF Books, Same, Stays
      <4>2. BarrierIncrement <= r.barrier - r.last /\ r.barrier <= in.barrier
        BY <1>2, <2>1 DEF r, ReaderInv, Rising
      <4>3. in.barrier - r.last >= BarrierIncrement
        BY <1>2, <1>3, <4>2, InStreamAssumption DEF Good, IsReceiver
      <4>4. in'.rts
        BY <3>2, <3>4, <4>3 DEF Asks
      <4>5. ReaderInv'
        BY <1>1, <2>1, <4>1, ReaderKept
      <4> QED BY <1>1, <2>1, <2>2, <4>4, <4>5
    <3> QED BY <3>2, <3>3, <3>4
  <2> QED BY <2>3, <2>4
<1> QED BY <1>6, <1>7
=============================================================================
