------------------------------ MODULE InStream ------------------------------
(***************************************************************************)
(* The receiving end of a stream: cusp/stream/in-stream-queue.sml.           *)
(*                                                                          *)
(* Data in order goes to the reader that waits, or to ready; data out of     *)
(* order waits in queue, a heap by offset whose slices may overlap.  The     *)
(* barrier tells the sender how far it may write.  The functions below work  *)
(* on the record of fields, as the code's do, so that a handler is their     *)
(* composition; a callback to the application is the last thing a handler    *)
(* does (after the shutdown that an EOF causes, which commutes with reads).  *)
(*                                                                          *)
(* Data that reaches ready directly is not copied: the slice still lies in   *)
(* the one buffer that system/udp4.sml receives and sends every packet in,   *)
(* and the next packet overwrites it.                                       *)
(***************************************************************************)
EXTENDS Segments, SequencesExt

CONSTANTS
    MaxBarriers,        \* bound of the model: how often the stream is pulled
    BarrierIncrement,   \* barrierIncrement: what is worth telling the sender
    ReadSizes,          \* sizes of the application's reads (-1: any amount)
    Eager,              \* does the application read again in each callback?
    MayResetReader      \* does the application reset the stream?

ASSUME InStreamAssumption ==
    /\ MaxBarriers \in Nat
    /\ BarrierIncrement \in Nat \ {0}
    /\ ReadSizes \subseteq Nat \cup {-1}
    /\ {Eager, MayResetReader} \subseteq BOOLEAN

VARIABLES
    in,             \* the fields of the queue
    barriers,       \* what each pull told the sender, in order
    barriersOpen    \* the pulls whose ack closure was not called yet

inVars == <<in, barriers, barriersOpen>>

InStates == {"CONNECTED", "SHUTDOWN", "RESET", "RESET_DOWN"}
noBuffer == -2
Overwritten == -1       \* stands for a byte that was overwritten

InInit ==
    /\ in = [state |-> "CONNECTED",
             barrier |-> MinimumWindow, lastBarrier |-> MinimumWindow,
             window |-> MinimumWindow,
             queue |-> {}, queuedBytes |-> 0,
             ready |-> <<>>, readyBytes |-> 0,
             offset |-> 0,
             bufferSize |-> noBuffer,   \* noBuffer: nobody reads
             rts |-> FALSE,             \* the last RTS told to HostDispatch
             assigned |-> TRUE,         \* not told BECAME_UNASSIGNED yet
             complete |-> FALSE,        \* told BECAME_COMPLETE
             crashed |-> FALSE,         \* died of an uncaught Subscript
             delivered |-> <<>>,        \* history: bytes given to the reader
             told |-> "none"]           \* history: how the stream ended
    /\ barriers = <<>>
    /\ barriersOpen = {}

-----------------------------------------------------------------------------
Unassign(s) == [s EXCEPT !.assigned = FALSE]
Complete(s) == [s EXCEPT !.assigned = FALSE, !.complete = TRUE]

\* Mutant: a reset stream only gives its id back.
fireEventUnassigns(s) ==
    CASE s.state \in {"SHUTDOWN", "RESET_DOWN"} ->
            IF s.queue = {} THEN Unassign(s) ELSE s
      [] s.state = "RESET"      -> s
      [] s.state = "CONNECTED"  ->
            [s EXCEPT !.rts = s.barrier - s.lastBarrier >= BarrierIncrement]

fireEvent(s) ==
    CASE s.state = "SHUTDOWN"   -> IF s.queue = {} THEN Unassign(s) ELSE s
      [] s.state = "RESET"      -> s
      [] s.state = "RESET_DOWN" -> IF s.queue = {} THEN Complete(s) ELSE s
      [] s.state = "CONNECTED"  ->
            [s EXCEPT !.rts = s.barrier - s.lastBarrier >= BarrierIncrement]

\* Mutant: the barrier is not raised while more data is ready.
RaiseBarrierWhenEmpty(s) ==
    IF s.ready # <<>> THEN s
    ELSE [s EXCEPT !.barrier = Max({@, s.offset - s.readyBytes + s.window})]

\* Ensure that there is always a minimum window available.
RaiseBarrier(s) == [s EXCEPT !.barrier = Max({@, s.offset - s.readyBytes + s.window})]

\* The bytes of a slice as the application sees them.
Contents(slice) ==
    [i \in 1..(slice.hi - slice.lo) |->
        IF slice.held = "stale" THEN Overwritten ELSE slice.lo + i - 1]

Hand(s, slice) == [s EXCEPT !.delivered = @ \o Contents(slice)]

\* Mutant: all of the slice counts as read.
TakeWhole(s, size) ==
    LET slice  == Head(s.ready)
        part   == size # -1 /\ size < Length(slice)
        report == IF part THEN [slice EXCEPT !.hi = slice.lo + size] ELSE slice
        rest   == IF part THEN <<[slice EXCEPT !.lo = slice.lo + size]>> ELSE <<>>
    IN  Hand(fireEvent(RaiseBarrier([s EXCEPT
               !.ready = rest \o Tail(@),
               !.readyBytes = @ - Length(slice)])), report)

\* At most size bytes of the front of ready go to the reader.
TakeReady(s, size) ==
    LET slice  == Head(s.ready)
        part   == size # -1 /\ size < Length(slice)
        report == IF part THEN [slice EXCEPT !.hi = slice.lo + size] ELSE slice
        rest   == IF part THEN <<[slice EXCEPT !.lo = slice.lo + size]>> ELSE <<>>
    IN  Hand(fireEvent(RaiseBarrier([s EXCEPT
               !.ready = rest \o Tail(@),
               !.readyBytes = @ - Length(report)])), report)

\* The application's read: nothing ready, or the front of ready.
read(s, size) ==
    IF s.ready = <<>>
    THEN IF s.state = "SHUTDOWN" /\ s.queue = {}
         THEN fireEvent(RaiseBarrier([Complete(s) EXCEPT !.told = "SHUTDOWN"]))
         ELSE fireEvent(RaiseBarrier([s EXCEPT !.bufferSize = size]))
    ELSE TakeReady(s, size)

-----------------------------------------------------------------------------
(***************************************************************************)
(* Arrival of data.                                                          *)
(***************************************************************************)

\* Mutant: a slice is not trimmed.
TransferUntrimmed(s, slice) ==
    IF s.crashed \/ slice.lo > s.offset THEN s
    ELSE IF slice.hi < s.offset THEN [s EXCEPT !.crashed = TRUE]
    ELSE [s EXCEPT
            !.queue = @ \ {slice},
            !.queuedBytes = @ - Length(slice),
            !.ready = Append(@, [lo |-> slice.lo, hi |-> slice.hi, held |-> "copied"]),
            !.readyBytes = @ + Length(slice),
            !.offset = slice.hi]

\* One step of process in transferQueue: the slice that precedes the offset
\* is trimmed and appended to ready.  A slice that ends before the offset
\* cannot be trimmed: subslice raises Subscript.
Transfer(s, slice) ==
    IF s.crashed \/ slice.lo > s.offset THEN s
    ELSE IF slice.hi < s.offset THEN [s EXCEPT !.crashed = TRUE]
    ELSE [s EXCEPT
            !.queue = @ \ {slice},
            !.queuedBytes = @ - Length(slice),
            !.ready = Append(@, [lo |-> s.offset, hi |-> slice.hi, held |-> "copied"]),
            !.readyBytes = @ + slice.hi - s.offset,
            !.offset = slice.hi]

\* The orders in which the heap may yield its slices.
Orders(Q) ==
    {order \in SetToSeqs(Q) :
        \A i, j \in 1..Len(order) : i < j => order[i].lo <= order[j].lo}

\* transferQueue: tail is put at the front of ready, recvd bytes go to the
\* reader.
transferQueue(s, tail, recvd, order) ==
    LET begun == [s EXCEPT
            !.ready = tail \o @,
            !.readyBytes = @ + (IF tail = <<>> THEN 0 ELSE Length(tail[1])),
            !.offset = @ + recvd + (IF tail = <<>> THEN 0 ELSE Length(tail[1]))]
        moved == FoldLeft(Transfer, begun, order)
        kept  == IF s.state \in {"RESET", "RESET_DOWN"}
                 THEN [moved EXCEPT !.ready = <<>>, !.readyBytes = s.readyBytes]
                 ELSE moved
    IN  IF moved.crashed THEN [s EXCEPT !.crashed = TRUE]
        ELSE fireEvent(RaiseBarrier([kept EXCEPT !.bufferSize = noBuffer]))

\* feedReader: data in order meets the reader, if one waits.
feedReader(s, hi, order) ==
    LET data == [lo |-> s.offset, hi |-> hi, held |-> "borrowed"]
        n    == s.bufferSize
    IN  IF n = noBuffer THEN transferQueue(s, <<data>>, 0, order)
        ELSE IF n = -1 \/ n >= Length(data)
        THEN Hand(transferQueue(s, <<>>, Length(data), order), data)
        ELSE Hand(transferQueue(s, <<[data EXCEPT !.lo = s.offset + n, !.held = "copied"]>>,
                                n, order),
                  [data EXCEPT !.hi = s.offset + n])

Refuses(s, hi) == hi > s.barrier

recvData(s, n, lo, hi, order) ==
    IF Refuses(s, hi) \/ lo = hi \/ hi <= s.offset THEN s
    ELSE IF lo <= s.offset THEN feedReader(s, hi, order)
    ELSE [s EXCEPT !.queue = @ \cup {[lo |-> lo, hi |-> hi, packet |-> n]},
                   !.queuedBytes = @ + hi - lo]

shutdown(s) ==
    LET down == fireEvent([s EXCEPT
            !.state = CASE @ = "CONNECTED" -> "SHUTDOWN"
                        [] @ = "RESET" -> "RESET_DOWN"
                        [] OTHER -> @,
            !.rts = IF s.state = "CONNECTED" THEN FALSE ELSE @])
    IN  IF s.queue = {} /\ s.ready = <<>> /\ s.bufferSize # noBuffer
        THEN [down EXCEPT !.complete = TRUE, !.assigned = FALSE,
                          !.bufferSize = noBuffer, !.told = "SHUTDOWN"]
        ELSE down

reset(s) ==
    fireEvent([s EXCEPT
        !.state = CASE @ = "CONNECTED" -> "RESET"
                    [] @ = "SHUTDOWN" -> "RESET_DOWN"
                    [] OTHER -> @,
        !.ready = <<>>, !.readyBytes = 0, !.bufferSize = noBuffer,
        !.rts = TRUE,
        !.told = IF s.bufferSize = noBuffer THEN @ ELSE "RESET"])

\* The next packet the endpoint receives or sends overwrites borrowed slices.
Overwrite(s) ==
    [s EXCEPT !.ready = [i \in DOMAIN @ |->
        IF @[i].held = "borrowed" THEN [@[i] EXCEPT !.held = "stale"] ELSE @[i]]]

-----------------------------------------------------------------------------
(***************************************************************************)
(* Actions.                                                                  *)
(***************************************************************************)

\* A second read before the first completes raises RaceCondition; a read of a
\* reset stream only calls back RESET.
Read(size) ==
    /\ ~in.crashed /\ in.bufferSize = noBuffer
    /\ in.state \in {"CONNECTED", "SHUTDOWN"} /\ in.told = "none"
    /\ in' = read(in, size)
    /\ UNCHANGED <<barriers, barriersOpen>>

ResetReader ==
    /\ MayResetReader /\ ~in.crashed
    /\ in' = reset(in)
    /\ UNCHANGED <<barriers, barriersOpen>>

\* An eager application has always read again before more data arrives.
ReaderCaughtUp ==
    \/ ~Eager \/ in.bufferSize # noBuffer
    \/ in.told # "none" \/ in.state \in {"RESET", "RESET_DOWN"}

\* recv of segment n of the sender; taken: the channel may acknowledge it.
\* HostDispatch drops a segment of a stream that is no longer assigned, and
\* lets it be acknowledged.
RecvSegment(n, p, taken) ==
    /\ ~in.crashed /\ ReaderCaughtUp
    /\ LET s == Overwrite(in)
       IN  IF ~in.assigned THEN taken /\ in' = s
           ELSE IF p.reset
           THEN taken /\ in' = reset([s EXCEPT !.state = "SHUTDOWN",
                                               !.ready = <<>>, !.readyBytes = 0])
           ELSE \E order \in Orders(s.queue) :
                    LET fed == recvData(s, n, p.lo, p.hi, order)
                    IN  /\ taken <=> ~Refuses(s, p.hi) /\ ~fed.crashed
                        /\ in' = IF p.eof /\ ~fed.crashed THEN shutdown(fed) ELSE fed
    /\ UNCHANGED <<barriers, barriersOpen>>

\* The endpoint handles a packet that concerns other streams.
OtherTraffic ==
    /\ ~in.crashed
    /\ in' = Overwrite(in)
    /\ UNCHANGED <<barriers, barriersOpen>>

\* pull: tell the sender the barrier, or that the reader reset the stream.
PullBarrier ==
    /\ in.rts /\ ~in.complete /\ ~in.crashed
    /\ Len(barriers) < MaxBarriers
    /\ in.state # "SHUTDOWN"
    /\ LET s == [Overwrite(in) EXCEPT !.rts = FALSE]
           connected == in.state = "CONNECTED"
       IN  /\ in' = IF connected THEN [s EXCEPT !.lastBarrier = in.barrier] ELSE s
           /\ barriers' = Append(barriers,
                [reset |-> ~connected, barrier |-> in.barrier,
                 offset |-> in.offset - in.readyBytes, last |-> in.lastBarrier])
    /\ barriersOpen' = barriersOpen \cup {Len(barriers) + 1}

\* Mutant: a lost barrier is not told again.
BarrierForgotten(s, b) == s

\* A barrier was lost: unless a later one was sent, the sender knows the last.
BarrierLost(s, b) ==
    IF s.lastBarrier # b.barrier THEN s
    ELSE fireEvent([s EXCEPT !.lastBarrier = b.last])

AckBarrier(n, ok) ==
    /\ n \in barriersOpen /\ ~in.crashed
    /\ LET b       == barriers[n]
           offset  == in.offset - in.readyBytes
           window  == Max({2 * (offset - b.offset), MinimumWindow})
       IN  in' = IF b.reset THEN IF ok THEN Complete(in) ELSE [in EXCEPT !.rts = TRUE]
                 ELSE IF ok
                 THEN fireEvent([in EXCEPT !.window = window,
                                           !.barrier = Max({@, offset + window})])
                 ELSE BarrierLost(in, b)
    /\ barriersOpen' = barriersOpen \ {n}
    /\ UNCHANGED barriers

-----------------------------------------------------------------------------
(***************************************************************************)
(* Properties (checked in Stream, which supplies the sender)                 *)
(***************************************************************************)
Slice == {s \in [lo : 0..MaxBytes, hi : 0..MaxBytes,
                 held : {"copied", "borrowed", "stale"}] : s.lo <= s.hi}

\* The fields hold what their types say.
InTypeOK ==
    /\ in \in [state : InStates, barrier : Nat, lastBarrier : Nat, window : Nat,
               queue : SUBSET [lo : 0..MaxBytes, hi : 0..MaxBytes, packet : Nat],
               queuedBytes : Nat, ready : Seq(Slice), readyBytes : Nat,
               offset : 0..MaxBytes, bufferSize : ReadSizes \cup {noBuffer},
               rts : BOOLEAN, assigned : BOOLEAN, complete : BOOLEAN,
               crashed : BOOLEAN, delivered : Seq({Overwritten} \cup 0..MaxBytes),
               told : {"none", "SHUTDOWN", "RESET"}]
    /\ barriers \in Seq([reset : BOOLEAN, barrier : Nat, offset : 0..MaxBytes, last : Nat])
    /\ barriersOpen \subseteq 1..Len(barriers)

\* in-stream-queue.sml:16-20: the counters are the lengths of what is queued,
\* nobody waits while data is ready, no queued slice begins at or before the
\* offset, and what is not delivered is ready.
InAccounting ==
    ~in.crashed =>
        /\ in.queuedBytes = MapThenSumSet(Length, in.queue)
        /\ in.readyBytes = FoldLeft(LAMBDA sum, s : sum + Length(s), 0, in.ready)
        /\ in.bufferSize # noBuffer => in.ready = <<>>
        /\ \A s \in in.queue : s.lo > in.offset
        /\ in.state \in {"CONNECTED", "SHUTDOWN"} =>
              in.offset = Len(in.delivered) + in.readyBytes

\* in-stream-queue.sml:29: the sender may always be told a barrier a window
\* beyond what was read, and was never told more than the barrier.
WindowAvailable ==
    in.state = "CONNECTED" =>
        /\ in.barrier >= in.offset - in.readyBytes + in.window
        /\ in.window >= MinimumWindow
        /\ in.lastBarrier <= in.barrier

\* HostDispatch pulls a stream that is ready to send and not complete.  It is
\* never one whose id was given back (pullSegment would allocate it an id of
\* its own), and never one in the state whose pull is "unreachable".
PullIsSafe ==
    in.rts /\ ~in.complete => in.assigned /\ in.state # "SHUTDOWN"

\* No slice ends before the offset when transferQueue reaches it: trimming it
\* would raise Subscript.
NoSubscript == ~in.crashed
=============================================================================
