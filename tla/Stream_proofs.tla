---------------------------- MODULE Stream_proofs ----------------------------
(***************************************************************************)
(* What holds of a stream from end to end, for every length of stream, packet *)
(* and window, every loss and every order of arrival that Net allows.        *)
(***************************************************************************)
EXTENDS Stream, OutStream_proofs, InStream_proofs

(***************************************************************************)
(* What was sent.                                                            *)
(***************************************************************************)

\* The shutdown callback exists since the stream was shut down.
Closed(s) ==
    /\ s.state = "CONNECTED" => s.shutdowner = "none"
    /\ s.state \in Shutdowns => s.shutdowner # "none"

\* A packet before n brought all bytes below x, or the last of them.
Before(n, x) == x = 0 \/ \E m \in 1..(n - 1) : ~packets[m].reset /\ x <= packets[m].hi

Entry(n) == LET p == packets[n] IN
    /\ p.reset => out.state = "RESET" /\ ~p.eof /\ p.hi = 0
    /\ ~p.reset => /\ p.lo <= p.hi /\ p.hi <= out.sendOffset
                   /\ p.hi - p.lo <= MaxPayload /\ Before(n, p.lo)
    /\ p.eof => out.shutdowner # "none" /\ p.hi = out.sendOffset /\ out.state # "CONNECTED"

SentInv ==
    /\ Closed(out) /\ \A n \in 1..Len(packets) : Entry(n)
    /\ out.pull.on => /\ out.pull.hi - out.pull.lo <= MaxPayload
                      /\ Before(Len(packets) + 1, out.pull.lo)

(***************************************************************************)
(* What arrived.                                                             *)
(***************************************************************************)
TakenInv ==
    /\ taken \subseteq 1..Len(packets) /\ takenBarriers \subseteq 1..Len(barriers)
    /\ \A n \in taken : packets[n].reset => in.state # "CONNECTED"
    /\ out.complete => in.state # "CONNECTED" \/ out.shutdowner # "none"
    /\ in.state = "SHUTDOWN" \/ in.told = "SHUTDOWN" => out.shutdowner # "none"
    /\ in.offset <= out.sendOffset /\ \A c \in in.queue : c.hi <= out.sendOffset
    /\ \A b \in out.confirmed : \E n \in taken :
          ~packets[n].reset /\ packets[n].lo <= b /\ b < packets[n].hi
    /\ Eager => Delivery(in) /\ Len(in.delivered) <= out.sendOffset

(***************************************************************************)
(* A stream that is not shut down heeds the barrier.                         *)
(***************************************************************************)
Heeds(s) ==
    /\ s.state \in {"CONNECTED", "RESET"} /\ s.shutdowner = "none"
    /\ ~s.pull.on /\ s.state = "CONNECTED" /\ s.rts => amRTS(s)
    /\ s.pull.on => s.pull.lo + SillyWindow < s.barrier

FlowInv ==
    MayShutdown = FALSE => Heeds(out) /\ out.barrier <= in.barrier /\ WithinBarrier

(***************************************************************************)
(* Packets that arrive in order, at a reader who has read all, are admitted. *)
(***************************************************************************)
Orderly == Net = "reliable" /\ Eager = TRUE /\ MaxPayload <= MinimumWindow

OrderlyInv ==
    Orderly =>
        /\ \A n \in taken : 1..n \subseteq taken
        /\ in.state \notin Resets /\ ~in.crashed =>
              /\ in.queue = {}
              /\ \A n \in taken : ~packets[n].reset => packets[n].hi <= in.offset
              /\ in.state = "SHUTDOWN" => in.offset = out.sendOffset

\* The inductive invariant of the stream.
StreamInv ==
    /\ OutInv /\ ToldInv /\ InInv
    /\ SentInv /\ TakenInv /\ FlowInv /\ OrderlyInv

-----------------------------------------------------------------------------
(***************************************************************************)
(* The sender's steps.                                                       *)
(***************************************************************************)

\* What a step does to the bytes that were written, as the reader's side sees it:
\* nothing, a write, a shutdown, or a reset that drops what was not numbered yet.
Wrote(s, d) ==
    \/ /\ d.sendOffset + d.buffer = s.sendOffset + s.buffer
       /\ s.shutdowner # "none" => d.shutdowner # "none"
    \/ /\ d.sendOffset + d.buffer > s.sendOffset + s.buffer
       /\ s.shutdowner = "none" /\ d.shutdowner = "none"
    \/ /\ d.sendOffset = s.sendOffset /\ d.buffer = 0
       /\ s.shutdowner = "none" <=> d.shutdowner = "none"

\* The stream only grows, until it is closed, and what is closed stays so.
Onward(s, d) ==
    /\ s.sendOffset <= d.sendOffset
    /\ s.state = "RESET" => d.state = "RESET"
    /\ s.state # "CONNECTED" => d.state # "CONNECTED" /\ d.sendOffset = s.sendOffset
    /\ s.shutdowner # "none" => d.shutdowner # "none"
    /\ Closed(d) /\ Wrote(s, d)

Flows(s, d) == MayShutdown = FALSE /\ Heeds(s) => Heeds(d)

Calm(s, d) ==
    /\ d.pull = s.pull /\ d.confirmed = s.confirmed
    /\ d.complete = s.complete /\ d.barrier = s.barrier

LEMMA OutFields ==
    ASSUME OutInv
    PROVE  /\ out \in Queue /\ out.pull \in Pull
           /\ out.state \in OutStates /\ out.shutdowner \in Shutdowners
           /\ out.sendOffset \in Nat /\ out.buffer \in Nat /\ out.barrier \in Nat
           /\ out.pull.lo \in Nat /\ out.pull.hi \in Nat /\ out.pull.on \in BOOLEAN
           /\ out.state # "CONNECTED" => out.buffer = 0
           /\ out.state = "RESET" => out.retransmit = {}
           /\ Written(out) /\ Taken(out) /\ PacketInv
<1>1. out \in Queue /\ Written(out) /\ Taken(out) /\ PacketInv
  BY InvType DEF OutInv, QueueInv, DataInv
<1>2. out.pull \in Pull
  BY <1>1 DEF Queue
<1>3. out.pull.lo \in Nat /\ out.pull.hi \in Nat /\ out.pull.on \in BOOLEAN
  BY <1>2, SegmentsAssumption DEF Pull
<1> QED BY <1>1, <1>2, <1>3 DEF Queue, Written

\* A write waits or moves to the heap; the barrier may have changed before.
LEMMA ProgressOnward ==
    ASSUME NEW s \in Queue, Written(s), NEW d, d = makeProgress(s)
    PROVE  /\ d \in Queue /\ Kept(s, d) /\ s.sendOffset <= d.sendOffset
           /\ d.sendOffset + d.buffer = s.sendOffset + s.buffer
           /\ s.state # "CONNECTED" => d.sendOffset = s.sendOffset
           /\ \/ d.rts = amRTS(d)
              \/ d = s
<1>1. /\ d \in Queue /\ Kept(s, d)
      /\ \/ Progresses(s) /\ Moves(s, d) /\ d.rts = amRTS(d)
         \/ ~Progresses(s) /\ Waits(s, d) /\ d.rts = amRTS(d)
         \/ ~Progresses(s) /\ d = s /\ s.retransmit = {} /\ s.buffer = 0
  BY ProgressFields DEF Written
<1>2. s.sendOffset \in Nat /\ s.buffer \in Nat
  BY DEF Queue
<1>3. CASE Moves(s, d) /\ d.rts = amRTS(d)
  BY <1>1, <1>2, <1>3 DEF Moves, Written
<1>4. CASE Waits(s, d) /\ d.rts = amRTS(d)
  BY <1>1, <1>2, <1>4 DEF Waits
<1>5. CASE d = s
  BY <1>1, <1>2, <1>5
<1> QED BY <1>1, <1>3, <1>4, <1>5

LEMMA OnWrite ==
    ASSUME OutInv, Closed(out), NEW n \in Writes, Write(n)
    PROVE  Onward(out, out') /\ Calm(out, out') /\ Flows(out, out') /\ UNCHANGED packets
<1> DEFINE t == [out EXCEPT !.buffer = n]
<1>1. n \in Nat /\ n > 0
  BY OutStreamAssumption
<1>2. /\ out.buffer = 0 /\ out.state = "CONNECTED" /\ out.sendOffset + n <= MaxBytes
      /\ out' = makeProgress(t) /\ UNCHANGED <<packets, undecided>>
  BY DEF Write
<1>3. /\ t \in Queue /\ t.state = "CONNECTED" /\ t.buffer = n /\ t.sendOffset = out.sendOffset
      /\ t.pull = out.pull /\ t.confirmed = out.confirmed /\ t.complete = out.complete
      /\ t.barrier = out.barrier /\ t.shutdowner = out.shutdowner /\ t.state = out.state
  BY <1>1, <1>2, OutFields DEF Queue
<1> HIDE DEF t
<1>4. Written(t)
  BY <1>2, <1>3 DEF Written, Fits
<1>5. /\ out' \in Queue /\ Kept(t, out')
      /\ \/ Moves(t, out') /\ out'.rts = amRTS(out')
         \/ Waits(t, out') /\ out'.rts = amRTS(out')
  BY <1>1, <1>2, <1>3, <1>4, ProgressFields DEF Written
<1>6. /\ out'.sendOffset + out'.buffer = out.sendOffset + n /\ out.sendOffset <= out'.sendOffset
      /\ out'.sendOffset + out'.buffer > out.sendOffset + out.buffer
  BY <1>1, <1>2, <1>3, <1>5, OutFields DEF Moves, Waits
<1>7. /\ out'.state = "CONNECTED" /\ out'.shutdowner = out.shutdowner
      /\ out'.pull = out.pull /\ out'.barrier = out.barrier
      /\ out'.complete = out.complete /\ out'.confirmed = out.confirmed
  BY <1>3, <1>5 DEF Kept
<1>8. Closed(out') /\ out.shutdowner = "none"
  BY <1>2, <1>7 DEF Closed, Shutdowns
<1>9. Onward(out, out')
  BY <1>2, <1>6, <1>7, <1>8 DEF Onward, Wrote
<1>10. Heeds(out) => Heeds(out')
  BY <1>5, <1>7 DEF Heeds
<1> QED BY <1>2, <1>7, <1>9, <1>10 DEF Calm, Flows

LEMMA OnShutdown ==
    ASSUME OutInv, Closed(out), Shutdown
    PROVE  Onward(out, out') /\ Calm(out, out') /\ Flows(out, out') /\ UNCHANGED packets
<1> DEFINE t == [out EXCEPT !.state = "SHUTDOWN_RETRANSMIT", !.shutdowner = "pending"]
<1>1. /\ MayShutdown /\ out.state = "CONNECTED" /\ out.buffer = 0
      /\ out' = updateRTS(t) /\ UNCHANGED packets
  BY DEF Shutdown
<1>2. /\ t \in Queue /\ t.state = "SHUTDOWN_RETRANSMIT" /\ t.shutdowner = "pending"
      /\ t.buffer = out.buffer /\ t.sendOffset = out.sendOffset /\ t.pull = out.pull
      /\ t.confirmed = out.confirmed /\ t.complete = out.complete /\ t.barrier = out.barrier
  BY OutFields DEF Queue, OutStates, Shutdowners
<1> HIDE DEF t
<1>3. Kept(t, out') /\ Waits(t, out')
  BY <1>1, <1>2, UpdateFields
<1>4. Closed(out')
  BY <1>2, <1>3 DEF Closed, Kept
<1>5. Onward(out, out')
  BY <1>1, <1>2, <1>3, <1>4, OutFields DEF Onward, Wrote, Kept, Waits
<1> QED BY <1>1, <1>2, <1>3, <1>5 DEF Calm, Flows, Kept

\* A reset, of the writer or of the reader.
LEMMA ResetOnward ==
    ASSUME OutInv, Closed(out), NEW d, d.state = "RESET", d.buffer = 0, d.sendOffset = out.sendOffset,
           d.shutdowner = IF out.shutdowner = "pending" THEN "false" ELSE out.shutdowner
    PROVE  Onward(out, d)
<1>1. Closed(d)
  BY DEF Closed, Shutdowns
<1>2. out.shutdowner = "none" <=> d.shutdowner = "none"
  OBVIOUS
<1>3. out.sendOffset <= d.sendOffset
  BY OutFields
<1> QED BY <1>1, <1>2, <1>3 DEF Onward, Wrote

LEMMA OnReset ==
    ASSUME OutInv, Closed(out), Reset
    PROVE  Onward(out, out') /\ Calm(out, out') /\ Flows(out, out') /\ UNCHANGED packets
<1> DEFINE t == doReset(out)
<1>1. out' = updateRTS(t) /\ UNCHANGED packets
  BY DEF Reset
<1>2. /\ t \in Queue /\ t.state = "RESET" /\ t.buffer = 0
      /\ t.sendOffset = out.sendOffset /\ t.pull = out.pull
      /\ t.confirmed = out.confirmed /\ t.complete = out.complete /\ t.barrier = out.barrier
      /\ t.shutdowner = IF out.shutdowner = "pending" THEN "false" ELSE out.shutdowner
  BY OutFields, ResetFields
<1> HIDE DEF t
<1>3. Kept(t, out') /\ Waits(t, out')
  BY <1>1, <1>2, UpdateFields
<1>4. Onward(out, out')
  BY <1>2, <1>3, ResetOnward DEF Kept, Waits
<1>5. Heeds(out) => Heeds(out')
  BY <1>2, <1>3 DEF Heeds, Kept
<1> QED BY <1>1, <1>2, <1>3, <1>4, <1>5 DEF Calm, Flows, Kept

LEMMA OnSetPriority ==
    ASSUME OutInv, Closed(out), SetPriority
    PROVE  Onward(out, out') /\ Calm(out, out') /\ Flows(out, out') /\ UNCHANGED packets
<1>1. out' = updateRTS(out) /\ UNCHANGED packets
  BY DEF SetPriority
<1>2. Kept(out, out') /\ Waits(out, out') /\ out'.rts = amRTS(out) /\ amRTS(out') = amRTS(out)
  BY <1>1, OutFields, UpdateFields
<1>3. Onward(out, out')
  BY <1>2, OutFields DEF Onward, Wrote, Closed, Kept, Waits
<1>4. Heeds(out) => Heeds(out')
  BY <1>2 DEF Heeds, Kept
<1> QED BY <1>1, <1>2, <1>3, <1>4 DEF Calm, Flows, Kept


\* A step of a pull, which adds to what was pulled.
Pulls(s, d) ==
    /\ d.confirmed = s.confirmed /\ d.complete = s.complete /\ d.barrier = s.barrier
    /\ d.pull.on => d.pull.hi - d.pull.lo <= MaxPayload

LEMMA OnPullReset ==
    ASSUME OutInv, Closed(out), PullReset
    PROVE  /\ Onward(out, out') /\ Calm(out, out') /\ Flows(out, out') /\ ~out.pull.on
           /\ out.state = "RESET" /\ out'.state = "RESET"
           /\ packets' = Append(packets,
                [reset |-> TRUE, lo |-> 0, hi |-> 0, segments |-> {}, eof |-> FALSE])
<1>1. out' = [out EXCEPT !.rts = FALSE] /\ ~out.pull.on /\ out.state = "RESET"
  BY DEF PullReset, Pullable
<1>2. packets' = Append(packets,
         [reset |-> TRUE, lo |-> 0, hi |-> 0, segments |-> {}, eof |-> FALSE])
  BY DEF PullReset, Send
<1>3. Kept(out, out') /\ Waits(out, out') /\ ~out'.rts
  BY <1>1, OutFields DEF Queue, Kept, Waits
<1>4. Onward(out, out')
  BY <1>3, OutFields DEF Onward, Wrote, Closed, Kept, Waits
<1>5. Heeds(out) => Heeds(out')
  BY <1>3 DEF Heeds, Kept
<1> QED BY <1>1, <1>2, <1>3, <1>4, <1>5 DEF Calm, Flows, Kept

LEMMA OnPullBegin ==
    ASSUME OutInv, Closed(out), PullBegin
    PROVE  /\ Onward(out, out') /\ Pulls(out, out') /\ Flows(out, out') /\ UNCHANGED packets
           /\ ~out.pull.on /\ out.state # "RESET"
           /\ out'.pull.lo = IF out.retransmit = {} THEN out.sendOffset
                             ELSE First(out.retransmit).lo
<1> DEFINE offset == IF out.retransmit = {} THEN out.sendOffset
                     ELSE First(out.retransmit).lo
           began == [on |-> TRUE, lo |-> offset, hi |-> offset,
                     segments |-> {}, callback |-> FALSE]
<1>1. /\ out' = [out EXCEPT !.pull = began] /\ UNCHANGED packets
      /\ ~out.pull.on /\ out.state # "RESET" /\ out.rts
  BY DEF PullBegin, Pullable
<1>2. offset \in Nat
  <2>1. out.retransmit \in SUBSET Segment
    BY OutFields DEF Queue
  <2>2. CASE out.retransmit # {}
    <3>1. First(out.retransmit) \in Segment
      BY <2>1, <2>2, FirstIsLeast
    <3> QED BY <2>2, <3>1, SegmentFields, SegmentsAssumption
  <2> QED BY <2>2, OutFields
<1>3. began.on /\ began.lo = offset /\ began.hi = offset
  OBVIOUS
<1> HIDE DEF began, offset
<1>4. /\ out'.state = out.state /\ out'.shutdowner = out.shutdowner /\ out'.rts = out.rts
      /\ out'.sendOffset = out.sendOffset /\ out'.buffer = out.buffer
      /\ out'.confirmed = out.confirmed /\ out'.complete = out.complete
      /\ out'.barrier = out.barrier /\ out'.pull = began
  BY <1>1, OutFields DEF Queue
<1>5. Onward(out, out')
  BY <1>4, OutFields DEF Onward, Wrote, Closed
<1>6. Pulls(out, out')
  <2>1. offset - offset <= MaxPayload
    BY <1>2, OutStreamAssumption
  <2> QED BY <1>3, <1>4, <2>1 DEF Pulls
<1>7. Heeds(out) => Heeds(out')
  <2> SUFFICES ASSUME Heeds(out) PROVE Heeds(out')
    OBVIOUS
  <2>1. out.state = "CONNECTED" /\ amRTS(out)
    BY <1>1 DEF Heeds
  <2>2. out.retransmit # {} /\ offset < out.barrier - SillyWindow
    BY <2>1 DEF amRTS, offset
  <2>3. offset + SillyWindow < out.barrier
    BY <1>2, <2>2, OutFields, OutStreamAssumption
  <2> QED BY <1>3, <1>4, <2>3 DEF Heeds
<1> QED BY <1>1, <1>3, <1>4, <1>5, <1>6, <1>7 DEF Flows, offset

LEMMA OnPullSegment ==
    ASSUME OutInv, Closed(out), PullSegment
    PROVE  /\ Onward(out, out') /\ Pulls(out, out') /\ Flows(out, out') /\ UNCHANGED packets
           /\ out.pull.on /\ out'.pull.lo = out.pull.lo
<1> DEFINE g    == First(out.retransmit)
           rest == out.retransmit \ {g}
           end  == out.pull.hi + Room
           head == [lo |-> g.lo, hi |-> end]
           tail == [lo |-> end, hi |-> g.hi]
           w    == [out EXCEPT !.retransmit = rest]
           calls == Progresses(w)
<1>1. /\ out.pull.on /\ Room > 0 /\ out.retransmit # {} /\ UNCHANGED packets
      /\ out' = IF Length(g) <= Room
                THEN [makeProgress(w) EXCEPT
                        !.pull.hi = @ + Length(g),
                        !.pull.segments = @ \cup {g},
                        !.pull.callback = calls]
                ELSE [out EXCEPT !.retransmit = rest \cup {tail},
                                 !.pull.hi = end,
                                 !.pull.segments = @ \cup {head},
                                 !.pull.callback = FALSE]
  BY DEF PullSegment, PullsMore
<1>2. out.retransmit \in SUBSET Segment /\ g \in out.retransmit
  <2>1. out.retransmit \in SUBSET Segment
    BY OutFields DEF Queue
  <2> QED BY <1>1, <2>1, FirstIsLeast
<1>3. /\ g.lo \in Nat /\ g.hi \in Nat /\ Length(g) \in Int
      /\ out.pull.lo \in Nat /\ out.pull.hi \in Nat /\ MaxPayload \in Nat
      /\ Room = MaxPayload - (out.pull.hi - out.pull.lo)
  BY <1>2, OutFields, SegmentFields, SegmentsAssumption, OutStreamAssumption DEF Length, Room
<1>4. rest \in SUBSET Segment /\ rest \subseteq out.retransmit
  BY <1>2
<1> HIDE DEF g, calls
<1>5. CASE Length(g) <= Room
  <2>1. /\ w \in Queue /\ w.state = out.state /\ w.shutdowner = out.shutdowner
        /\ w.sendOffset = out.sendOffset /\ w.buffer = out.buffer
        /\ w.confirmed = out.confirmed /\ w.complete = out.complete
        /\ w.barrier = out.barrier /\ w.pull = out.pull /\ w.retransmit = rest
    BY <1>4, OutFields DEF Queue
  <2> HIDE DEF w
  <2>2. Written(w)
    BY <1>4, <2>1, OutFields DEF Written, Fits
  <2> DEFINE m == makeProgress(w)
  <2>3. /\ m \in Queue /\ Kept(w, m) /\ w.sendOffset <= m.sendOffset
        /\ m.sendOffset + m.buffer = w.sendOffset + w.buffer
        /\ w.state # "CONNECTED" => m.sendOffset = w.sendOffset
    BY <2>1, <2>2, ProgressOnward
  <2>4. out' = [m EXCEPT !.pull.hi = @ + Length(g), !.pull.segments = @ \cup {g},
                         !.pull.callback = calls]
    BY <1>1, <1>5
  <2> HIDE DEF m
  <2>5. /\ out'.state = m.state /\ out'.shutdowner = m.shutdowner
        /\ out'.sendOffset = m.sendOffset /\ out'.buffer = m.buffer
        /\ out'.confirmed = m.confirmed /\ out'.complete = m.complete
        /\ out'.barrier = m.barrier /\ out'.pull.on = m.pull.on
        /\ out'.pull.lo = m.pull.lo /\ out'.pull.hi = m.pull.hi + Length(g)
    <3>1. m.pull \in Pull
      BY <2>3 DEF Queue
    <3> QED BY <2>3, <2>4, <3>1 DEF Queue, Pull
  <2>6. /\ out'.state = out.state /\ out'.shutdowner = out.shutdowner
        /\ out'.confirmed = out.confirmed /\ out'.complete = out.complete
        /\ out'.barrier = out.barrier /\ out'.pull.on
        /\ out'.pull.lo = out.pull.lo /\ out'.pull.hi = out.pull.hi + Length(g)
    BY <1>1, <2>1, <2>3, <2>5 DEF Kept
  <2>7. Onward(out, out')
    BY <2>1, <2>3, <2>5, <2>6 DEF Onward, Wrote, Closed
  <2>8. Pulls(out, out')
    <3>1. (out.pull.hi + Length(g)) - out.pull.lo <= MaxPayload
      BY <1>3, <1>5
    <3> QED BY <2>6, <3>1 DEF Pulls
  <2>9. Heeds(out) => Heeds(out')
    BY <1>1, <2>6 DEF Heeds
  <2> QED BY <1>1, <2>6, <2>7, <2>8, <2>9 DEF Flows
<1>6. CASE ~(Length(g) <= Room)
  <2> DEFINE more == rest \cup {tail}
             cut == head
  <2>1. out' = [out EXCEPT !.retransmit = more, !.pull.hi = end,
                           !.pull.segments = @ \cup {cut}, !.pull.callback = FALSE]
    BY <1>1, <1>6
  <2> HIDE DEF more, cut, end
  <2>2. /\ out'.state = out.state /\ out'.shutdowner = out.shutdowner
        /\ out'.sendOffset = out.sendOffset /\ out'.buffer = out.buffer
        /\ out'.confirmed = out.confirmed /\ out'.complete = out.complete
        /\ out'.barrier = out.barrier /\ out'.pull.on = out.pull.on
        /\ out'.pull.lo = out.pull.lo /\ out'.pull.hi = end
    <3>1. out.pull \in Pull /\ out \in Queue
      BY OutFields
    <3> QED BY <2>1, <3>1 DEF Queue, Pull
  <2>3. Onward(out, out')
    BY <2>2, OutFields DEF Onward, Wrote, Closed
  <2>4. Pulls(out, out')
    <3>1. end - out.pull.lo <= MaxPayload
      BY <1>3 DEF end
    <3> QED BY <2>2, <3>1 DEF Pulls
  <2>5. Heeds(out) => Heeds(out')
    BY <1>1, <2>2 DEF Heeds
  <2> QED BY <1>1, <2>2, <2>3, <2>4, <2>5 DEF Flows
<1> QED BY <1>5, <1>6


LEMMA OnPullEnd ==
    ASSUME OutInv, Closed(out), PullEnd
    PROVE  /\ Onward(out, out') /\ Pulls(out, out') /\ Flows(out, out')
           /\ out.pull.on /\ ~out'.pull.on
           /\ AttachEOF => out.state \in Shutdowns /\ out.pull.hi = out.sendOffset
           /\ packets' = Append(packets,
                [reset |-> FALSE, lo |-> out.pull.lo, hi |-> out.pull.hi,
                 segments |-> out.pull.segments, eof |-> AttachEOF])
<1> DEFINE P   == out.pull.segments
           len == out.pull.hi - out.pull.lo
           st  == IF AttachEOF THEN "SHUTDOWN_INFLIGHT" ELSE out.state
           t   == [out EXCEPT !.state = st, !.inflight = @ \cup P,
                              !.inflightBytes = @ + len,
                              !.retransmitBytes = @ - len,
                              !.pull = NoPull]
<1>1. /\ out.pull.on /\ out' = updateRTS(t)
      /\ packets' = Append(packets,
           [reset |-> FALSE, lo |-> out.pull.lo, hi |-> out.pull.hi,
            segments |-> P, eof |-> AttachEOF])
  BY DEF PullEnd, Send
<1>2. AttachEOF => out.state \in Shutdowns /\ out.pull.hi = out.sendOffset
  BY DEF AttachEOF, Shutdowns
<1>3. st \in OutStates
  BY OutFields DEF OutStates
<1>4. NoPull \in Pull /\ ~NoPull.on
  BY SegmentsAssumption DEF NoPull, Pull
<1>5. P \in SUBSET Segment /\ len \in Int
  BY OutFields DEF Pull
<1> HIDE DEF st, P, len
<1>6. /\ t \in Queue /\ t.state = st /\ t.shutdowner = out.shutdowner
      /\ t.sendOffset = out.sendOffset /\ t.buffer = out.buffer
      /\ t.confirmed = out.confirmed /\ t.complete = out.complete
      /\ t.barrier = out.barrier /\ t.pull = NoPull
  <2> DEFINE u == [out EXCEPT !.state = st, !.pull = NoPull]
             flight == out.inflight \cup P
             sum == out.inflightBytes + len
             rest == out.retransmitBytes - len
  <2>1. u \in Queue /\ u.state = st /\ u.pull = NoPull /\ u.shutdowner = out.shutdowner
        /\ u.sendOffset = out.sendOffset /\ u.buffer = out.buffer
        /\ u.confirmed = out.confirmed /\ u.complete = out.complete
        /\ u.barrier = out.barrier
    BY <1>3, <1>4, OutFields DEF Queue
  <2>2. t = [u EXCEPT !.inflight = flight, !.inflightBytes = sum, !.retransmitBytes = rest]
    BY OutFields DEF Queue
  <2>3. flight \in SUBSET Segment /\ sum \in Int /\ rest \in Int
    BY <1>5, OutFields DEF Queue
  <2> HIDE DEF u, t, flight, sum, rest
  <2> QED BY <2>1, <2>2, <2>3 DEF Queue
<1> HIDE DEF t
<1>7. Kept(t, out') /\ Waits(t, out') /\ out'.rts = amRTS(t) /\ amRTS(out') = amRTS(t)
  BY <1>1, <1>6, UpdateFields
<1>8. /\ st = "RESET" <=> out.state = "RESET"
      /\ st = "CONNECTED" <=> out.state = "CONNECTED"
      /\ st \in Shutdowns <=> out.state \in Shutdowns
      /\ out.state \in {"CONNECTED", "RESET"} => st = out.state
  BY <1>2, OutFields DEF st, Shutdowns, OutStates
<1>9. Closed(out')
  BY <1>6, <1>7, <1>8 DEF Closed, Kept
<1>10. Onward(out, out')
  BY <1>6, <1>7, <1>8, <1>9, OutFields DEF Onward, Wrote, Kept, Waits
<1>11. Heeds(out) => Heeds(out')
  BY <1>4, <1>6, <1>7, <1>8 DEF Heeds, Kept
<1> QED BY <1>1, <1>2, <1>4, <1>6, <1>7, <1>10, <1>11 DEF Pulls, Flows, Kept, P

LEMMA OnAckReset ==
    ASSUME OutInv, Closed(out), out.state = "RESET", NEW n, NEW ok, AckReset(n, ok)
    PROVE  /\ Onward(out, out') /\ Flows(out, out') /\ UNCHANGED packets
           /\ out'.pull = out.pull /\ out'.barrier = out.barrier
           /\ out'.confirmed = out.confirmed
           /\ out'.complete => out.complete \/ ok
<1>1. /\ UNCHANGED packets
      /\ \/ ok /\ out' = [out EXCEPT !.complete = TRUE]
         \/ out' = [out EXCEPT !.rts = TRUE]
  BY DEF AckReset
<1>2. /\ out'.state = out.state /\ out'.shutdowner = out.shutdowner
      /\ out'.sendOffset = out.sendOffset /\ out'.buffer = out.buffer
      /\ out'.confirmed = out.confirmed /\ out'.barrier = out.barrier
      /\ out'.pull = out.pull /\ (out'.complete => out.complete \/ ok)
  BY <1>1, OutFields DEF Queue
<1>3. Onward(out, out')
  BY <1>2, OutFields DEF Onward, Wrote, Closed
<1>4. Heeds(out) => Heeds(out')
  BY <1>2 DEF Heeds
<1> QED BY <1>1, <1>2, <1>3, <1>4 DEF Flows

LEMMA OnAckData ==
    ASSUME OutInv, Closed(out), NEW n, NEW ok \in BOOLEAN, AckData(n, ok)
    PROVE  /\ Onward(out, out') /\ Flows(out, out') /\ UNCHANGED packets
           /\ out'.pull = out.pull /\ out'.barrier = out.barrier
           /\ out'.complete => out.complete \/ out'.shutdowner # "none"
           /\ ~packets[n].reset
           /\ IF ok THEN out'.confirmed = out.confirmed \cup packets[n].lo..(packets[n].hi - 1)
              ELSE out'.confirmed = out.confirmed
<1> DEFINE p == packets[n]
           S == packets[n].segments
           st == AckState(n, ok)
           counted == AckCounted(n, ok)
           again == AckAgain(n)
<1>1. /\ ~p.reset /\ UNCHANGED packets /\ Bytes(S) = p.lo..(p.hi - 1) /\ ~out.pull.on
      /\ st = "RESET" <=> out.state = "RESET"
      /\ st # "CONNECTED" <=> out.state # "CONNECTED"
  BY AckDataFields
<1>2. /\ counted \in Queue /\ counted.state = st /\ Counts(n, counted)
      /\ counted.retransmit = out.retransmit
      /\ ok => counted.confirmed = out.confirmed \cup Bytes(S)
      /\ ~ok => counted.confirmed = out.confirmed
  BY AckDataFields
<1>3. \/ ok \/ st = "RESET"
      \/ /\ ~ok /\ st # "RESET" /\ again \in Queue /\ again.state = st /\ Counts(n, again)
         /\ again.confirmed = out.confirmed
  BY AckDataFields
<1>4. out' = IF ~ok /\ st # "RESET" THEN updateRTS(again)
             ELSE checkDone(makeProgress(counted))
  BY AckDataFields
<1>5. /\ st \in OutStates
      /\ st \in Shutdowns <=> out.state \in Shutdowns
      /\ out.state \in {"CONNECTED", "RESET"} => st = out.state
  <2>1. st \in OutStates
    BY OutFields DEF AckState, OutStates
  <2> QED BY <2>1, <1>1, OutFields DEF Shutdowns, OutStates
<1> HIDE DEF p, S, st, counted, again
<1>6. CASE ~ok /\ st # "RESET"
  <2>1. Kept(again, out') /\ Waits(again, out') /\ out'.rts = amRTS(out')
    <3>1. updateRTS(again) = out'
      BY <1>4, <1>6
    <3> QED BY <1>3, <1>6, <3>1, UpdateFields
  <2>2. /\ out'.state = st /\ out'.shutdowner = out.shutdowner
        /\ out'.sendOffset = out.sendOffset /\ out'.buffer = out.buffer
        /\ out'.confirmed = out.confirmed /\ out'.complete = out.complete
        /\ out'.barrier = out.barrier /\ out'.pull = out.pull
    BY <1>3, <1>6, <2>1 DEF Counts, Kept, Waits
  <2>3. Closed(out')
    BY <1>1, <1>5, <2>2 DEF Closed
  <2>4. Onward(out, out')
    BY <1>1, <2>2, <2>3, OutFields DEF Onward, Wrote
  <2>5. Heeds(out) => Heeds(out')
    BY <1>1, <1>5, <2>1, <2>2 DEF Heeds
  <2> QED BY <1>1, <1>6, <2>2, <2>4, <2>5 DEF Flows, p
<1>7. CASE ok \/ st = "RESET"
  <2> DEFINE m == makeProgress(counted)
  <2>1. Written(counted)
    BY <1>1, <1>2, OutFields DEF Written, Fits, Counts
  <2>2. /\ m \in Queue /\ Kept(counted, m) /\ counted.sendOffset <= m.sendOffset
        /\ m.sendOffset + m.buffer = counted.sendOffset + counted.buffer
        /\ counted.state # "CONNECTED" => m.sendOffset = counted.sendOffset
        /\ m.rts = amRTS(m) \/ m = counted
    BY <1>2, <2>1, ProgressOnward
  <2>3. out' = checkDone(m)
    BY <1>4, <1>7
  <2> HIDE DEF m
  <2>4. /\ Waits(m, out') /\ out'.rts = m.rts
        /\ out'.state = m.state /\ out'.pull = m.pull /\ out'.confirmed = m.confirmed
        /\ out'.barrier = m.barrier
        /\ \/ out'.complete = m.complete /\ out'.shutdowner = m.shutdowner
           \/ /\ out'.complete = TRUE /\ amDone(m)
              /\ out'.shutdowner = IF m.shutdowner = "pending" THEN "true" ELSE m.shutdowner
    BY <2>2, <2>3, DoneFields
  <2>5. /\ out'.state = st /\ m.state = st /\ out'.pull = out.pull /\ out'.barrier = out.barrier
        /\ m.complete = out.complete /\ m.shutdowner = out.shutdowner
        /\ out'.sendOffset + out'.buffer = out.sendOffset + out.buffer
        /\ out.sendOffset <= out'.sendOffset
        /\ out.state # "CONNECTED" => out'.sendOffset = out.sendOffset
        /\ out'.shutdowner = "none" <=> out.shutdowner = "none"
    BY <1>1, <1>2, <2>2, <2>4 DEF Counts, Kept, Waits
  <2>6. Closed(out')
    BY <1>1, <1>5, <2>5 DEF Closed
  <2>7. Onward(out, out')
    BY <1>1, <2>5, <2>6 DEF Onward, Wrote
  <2>8. out'.complete => out.complete \/ out'.shutdowner # "none"
    <3>1. amDone(m) => st \in Shutdowns
      BY <2>5 DEF amDone, Shutdowns, OutStates
    <3> QED BY <2>4, <2>5, <2>6, <3>1 DEF Closed
  <2>9. ASSUME MayShutdown = FALSE, Heeds(out) PROVE Heeds(out')
    <3>1. amRTS(out') = amRTS(m)
      BY <2>4 DEF amRTS, Waits
    <3>2. out.state \in {"CONNECTED", "RESET"} /\ st = out.state /\ out.shutdowner = "none"
      BY <1>5, <2>9 DEF Heeds
    <3>3. st = "CONNECTED" /\ out'.rts => amRTS(out')
      <4>1. CASE m.rts = amRTS(m)
        BY <2>4, <3>1, <4>1
      <4>2. CASE m = counted
        <5>1. m.rts = out.rts /\ m.retransmit = out.retransmit /\ m.barrier = out.barrier
          BY <1>2, <4>2 DEF Counts
        <5>2. amRTS(m) = amRTS(out)
          BY <5>1, <2>5, <3>2 DEF amRTS
        <5> QED BY <1>1, <2>4, <2>9, <3>1, <3>2, <5>1, <5>2 DEF Heeds
      <4> QED BY <2>2, <4>1, <4>2
    <3> QED BY <1>1, <2>5, <3>2, <3>3 DEF Heeds
  <2>10. IF ok THEN out'.confirmed = out.confirmed \cup p.lo..(p.hi - 1)
         ELSE out'.confirmed = out.confirmed
    BY <1>1, <1>2, <2>2, <2>4 DEF Kept
  <2> QED BY <1>1, <2>5, <2>7, <2>8, <2>9, <2>10 DEF Flows, p
<1> QED BY <1>6, <1>7

\* The barrier of the reader arrives.
LEMMA OnRecvBarrier ==
    ASSUME OutInv, Closed(out), NEW b \in Nat, RecvBarrier(b)
    PROVE  /\ Onward(out, out') /\ Flows(out, out') /\ UNCHANGED packets
           /\ out'.barrier = b /\ out'.pull = out.pull
           /\ out'.confirmed = out.confirmed /\ out'.complete = out.complete
<1> DEFINE t == [out EXCEPT !.barrier = b]
<1>1. out' = makeProgress(t) /\ UNCHANGED packets /\ ~out.pull.on
  BY DEF RecvBarrier
<1>2. /\ t \in Queue /\ Waits(out, t) /\ t.state = out.state /\ t.barrier = b
      /\ t.pull = out.pull /\ t.confirmed = out.confirmed
      /\ t.shutdowner = out.shutdowner /\ t.complete = out.complete /\ t.rts = out.rts
  BY OutFields DEF Queue, Waits
<1> HIDE DEF t
<1>3. Written(t)
  BY <1>2, OutFields DEF Waits, Written, Fits
<1>4. /\ out' \in Queue /\ Kept(t, out') /\ t.sendOffset <= out'.sendOffset
      /\ out'.sendOffset + out'.buffer = t.sendOffset + t.buffer
      /\ t.state # "CONNECTED" => out'.sendOffset = t.sendOffset
  BY <1>1, <1>2, <1>3, ProgressOnward
<1>5. out'.rts = amRTS(out') \/ (out' = t /\ out.retransmit = {})
  BY <1>1, <1>2, <1>3, ProgressFields DEF Written, Waits
<1>6. /\ out'.state = out.state /\ out'.shutdowner = out.shutdowner
      /\ out'.barrier = b /\ out'.pull = out.pull /\ out'.confirmed = out.confirmed
      /\ out'.complete = out.complete
  BY <1>2, <1>4 DEF Kept
<1>7. Onward(out, out')
  BY <1>2, <1>4, <1>6 DEF Onward, Wrote, Closed, Waits
<1>8. Heeds(out) => Heeds(out')
  <2>1. out' = t /\ out.retransmit = {} /\ out.state = "CONNECTED" /\ Heeds(out) => ~out'.rts
    BY <1>1, <1>2 DEF Heeds, amRTS
  <2> QED BY <1>1, <1>5, <1>6, <2>1 DEF Heeds
<1> QED BY <1>1, <1>6, <1>7, <1>8 DEF Flows

LEMMA OnRecvReaderResets ==
    ASSUME OutInv, Closed(out), RecvReaderResets
    PROVE  /\ Onward(out, out') /\ Flows(out, out') /\ UNCHANGED packets
           /\ out'.barrier = out.barrier /\ out'.pull = out.pull
           /\ out'.confirmed = out.confirmed
<1> DEFINE t == doReset(out)
<1>1. out' = [t EXCEPT !.complete = TRUE] /\ UNCHANGED packets
  BY DEF RecvReaderResets
<1>2. /\ t \in Queue /\ t.state = "RESET" /\ t.buffer = 0
      /\ t.sendOffset = out.sendOffset /\ t.pull = out.pull
      /\ t.confirmed = out.confirmed /\ t.barrier = out.barrier
      /\ t.shutdowner = IF out.shutdowner = "pending" THEN "false" ELSE out.shutdowner
  BY OutFields, ResetFields
<1> HIDE DEF t
<1>3. /\ out'.state = "RESET" /\ out'.buffer = 0 /\ out'.sendOffset = out.sendOffset
      /\ out'.pull = out.pull /\ out'.confirmed = out.confirmed /\ out'.barrier = out.barrier
      /\ out'.shutdowner = IF out.shutdowner = "pending" THEN "false" ELSE out.shutdowner
  BY <1>1, <1>2 DEF Queue
<1>4. Onward(out, out')
  BY <1>3, ResetOnward
<1>5. Heeds(out) => Heeds(out')
  BY <1>3 DEF Heeds
<1> QED BY <1>1, <1>3, <1>4, <1>5 DEF Flows


-----------------------------------------------------------------------------
(***************************************************************************)
(* What a step of the sender keeps.                                          *)
(***************************************************************************)
Longer ==
    /\ Len(packets) <= Len(packets')
    /\ \A n \in 1..Len(packets) : packets'[n] = packets[n]

LEMMA PacketFields ==
    ASSUME OutInv, NEW n \in 1..Len(packets)
    PROVE  /\ packets[n].reset \in BOOLEAN /\ packets[n].eof \in BOOLEAN
           /\ packets[n].lo \in 0..MaxBytes /\ packets[n].hi \in 0..MaxBytes
           /\ packets[n].lo \in Nat /\ packets[n].hi \in Nat
<1>1. packets[n] \in Packet
  BY ElementOfSeq DEF OutInv, PacketInv
<1> QED BY <1>1, SegmentsAssumption DEF Packet

LEMMA PacketsCount == ASSUME OutInv PROVE Len(packets) \in Nat
BY DEF OutInv, PacketInv

LEMMA LongerAppend ==
    ASSUME OutInv, NEW p, packets' = Append(packets, p)
    PROVE  Longer /\ Len(packets') = Len(packets) + 1 /\ packets'[Len(packets) + 1] = p
<1>1. packets \in Seq(Packet) /\ Len(packets) \in Nat
  BY DEF OutInv, PacketInv
<1> QED BY <1>1 DEF Longer

LEMMA LongerSame == ASSUME OutInv, UNCHANGED packets PROVE Longer
BY PacketsCount DEF Longer

LEMMA BeforeKept ==
    ASSUME OutInv, Longer, NEW n \in 1..(Len(packets) + 1), NEW x, Before(n, x)
    PROVE  x = 0 \/ \E m \in 1..(n - 1) : ~packets'[m].reset /\ x <= packets'[m].hi
<1>1. \A m \in 1..(n - 1) : m \in 1..Len(packets) /\ packets'[m] = packets[m]
  BY PacketsCount DEF Longer
<1> QED BY <1>1 DEF Before

LEMMA EntryKept ==
    ASSUME OutInv, OutInv', Onward(out, out'), Longer, NEW n \in 1..Len(packets), Entry(n)
    PROVE  Entry(n)'
<1> DEFINE p == packets[n]
<1>1. packets'[n] = p /\ p.hi \in Nat /\ p.lo \in Nat
  BY PacketFields DEF Longer
<1>2. out.sendOffset \in Nat /\ out'.sendOffset \in Nat /\ out.sendOffset <= out'.sendOffset
  <2>1. out.sendOffset \in Nat
    BY OutFields
  <2>2. out' \in Queue
    BY InvType DEF OutInv
  <2> QED BY <2>1, <2>2 DEF Queue, Onward
<1>3. p.reset => out'.state = "RESET" /\ ~p.eof /\ p.hi = 0
  BY DEF Entry, Onward
<1>4. ~p.reset => Before(n, p.lo)'
  <2> SUFFICES ASSUME ~p.reset PROVE Before(n, p.lo)'
    OBVIOUS
  <2>1. Before(n, p.lo)
    BY DEF Entry
  <2>2. n \in 1..(Len(packets) + 1)
    BY PacketsCount
  <2>3. p.lo = 0 \/ \E m \in 1..(n - 1) : ~packets'[m].reset /\ p.lo <= packets'[m].hi
    BY <2>1, <2>2, BeforeKept
  <2> QED BY <2>3, <1>1 DEF Before
<1>5. ~p.reset => p.lo <= p.hi /\ p.hi <= out'.sendOffset /\ p.hi - p.lo <= MaxPayload
  <2> SUFFICES ASSUME ~p.reset
               PROVE  p.lo <= p.hi /\ p.hi <= out'.sendOffset /\ p.hi - p.lo <= MaxPayload
    OBVIOUS
  <2>1. p.lo <= p.hi /\ p.hi <= out.sendOffset /\ p.hi - p.lo <= MaxPayload
    BY DEF Entry
  <2> QED BY <1>1, <1>2, <2>1
<1>6. p.eof => out'.shutdowner # "none" /\ p.hi = out'.sendOffset /\ out'.state # "CONNECTED"
  BY DEF Entry, Onward
<1> QED BY <1>1, <1>3, <1>4, <1>5, <1>6 DEF Entry, Before

\* What a step of the sender has to show beside Onward: of the packet it sends, if any,
\* of a pull, and of what it learnt from what was taken.
Sends ==
    \A n \in 1..Len(packets') : n > Len(packets) =>
        /\ Entry(n)'
        /\ MayShutdown = FALSE /\ ~packets'[n].reset => packets'[n].hi <= in.barrier

Pulled ==
    out'.pull.on => /\ out'.pull.hi - out'.pull.lo <= MaxPayload
                    /\ Before(Len(packets) + 1, out'.pull.lo)
                    /\ UNCHANGED packets

Learns ==
    /\ out'.complete => out.complete \/ out'.shutdowner # "none" \/ in.state # "CONNECTED"
    /\ \A b \in out'.confirmed : b \in out.confirmed \/ \E n \in taken :
          ~packets[n].reset /\ packets[n].lo <= b /\ b < packets[n].hi
    /\ MayShutdown = FALSE /\ Heeds(out) /\ out.barrier <= in.barrier =>
          out'.barrier <= in.barrier

LEMMA SenderStep ==
    ASSUME StreamInv, OutInv', ToldInv', UNCHANGED <<inVars, taken>>,
           takenBarriers' \subseteq 1..Len(barriers),
           Onward(out, out'), Flows(out, out'), Longer, Sends, Pulled, Learns
    PROVE  StreamInv' /\ Onward(out, out')
<1>1. /\ in' = in /\ barriers' = barriers /\ barriersOpen' = barriersOpen /\ taken' = taken
  BY DEF inVars
<1>2. InInv'
  BY <1>1 DEF StreamInv, InInv, BarrierInv
<1>3. Len(packets) \in Nat /\ Len(packets') \in Nat
  <2>1. packets' \in Seq(Packet)
    BY DEF OutInv, PacketInv
  <2> QED BY <2>1, PacketsCount DEF StreamInv
<1>4. /\ out.sendOffset \in Nat /\ out'.sendOffset \in Nat /\ out.sendOffset <= out'.sendOffset
      /\ in.offset \in Nat /\ in.offset <= out.sendOffset /\ in.barrier \in Nat
      /\ \A c \in in.queue : c.hi \in Nat
      /\ Len(in.delivered) \in Nat
  <2>1. out.sendOffset \in Nat
    BY OutFields DEF StreamInv
  <2>2. out' \in Queue
    BY InvType DEF OutInv
  <2>3. IsReceiver(in)
    BY DEF StreamInv, InInv, Good
  <2>4. \A c \in in.queue : c.hi \in Nat
    BY <2>3, SegmentsAssumption DEF IsReceiver, Waiting
  <2>5. in.offset \in Nat /\ in.barrier \in Nat /\ Len(in.delivered) \in Nat
    BY <2>3, SegmentsAssumption DEF IsReceiver
  <2> QED BY <2>1, <2>2, <2>4, <2>5 DEF Queue, Onward, StreamInv, TakenInv
<1>5. SentInv'
  <2>1. \A n \in 1..Len(packets') : Entry(n)'
    <3> SUFFICES ASSUME NEW n \in 1..Len(packets') PROVE Entry(n)'
      OBVIOUS
    <3>1. CASE n > Len(packets)
      BY <3>1 DEF Sends
    <3>2. CASE ~(n > Len(packets))
      <4>1. n \in 1..Len(packets)
        BY <1>3, <3>2
      <4> QED BY <4>1, EntryKept DEF StreamInv, SentInv
    <3> QED BY <3>1, <3>2
  <2>2. Closed(out')
    BY DEF Onward
  <2>3. out'.pull.on => /\ out'.pull.hi - out'.pull.lo <= MaxPayload
                        /\ Before(Len(packets) + 1, out.pull.lo)'
    BY DEF Pulled, Before
  <2> QED BY <2>1, <2>2, <2>3 DEF SentInv
<1>6. \A n \in taken : n \in 1..Len(packets) /\ n \in 1..Len(packets') /\ packets'[n] = packets[n]
  <2>1. taken \subseteq 1..Len(packets)
    BY DEF StreamInv, TakenInv
  <2>2. Len(packets) <= Len(packets')
    BY DEF Longer
  <2> QED BY <1>3, <2>1, <2>2 DEF Longer
<1>7. TakenInv'
  <2>1. taken' \subseteq 1..Len(packets') /\ takenBarriers' \subseteq 1..Len(barriers')
    BY <1>1, <1>6
  <2>2. \A n \in taken' : packets'[n].reset => in'.state # "CONNECTED"
    BY <1>1, <1>6 DEF StreamInv, TakenInv
  <2>3. out'.complete => in'.state # "CONNECTED" \/ out'.shutdowner # "none"
    BY <1>1 DEF StreamInv, TakenInv, Learns, Onward
  <2>4. in'.state = "SHUTDOWN" \/ in'.told = "SHUTDOWN" => out'.shutdowner # "none"
    BY <1>1 DEF StreamInv, TakenInv, Onward
  <2>5. in'.offset <= out'.sendOffset
    BY <1>1, <1>4
  <2>6. \A c \in in'.queue : c.hi <= out'.sendOffset
    <3> SUFFICES ASSUME NEW c \in in.queue PROVE c.hi <= out'.sendOffset
      BY <1>1
    <3>1. c.hi <= out.sendOffset /\ c.hi \in Nat
      BY <1>4 DEF StreamInv, TakenInv
    <3> QED BY <3>1, <1>4
  <2>7. \A b \in out'.confirmed : \E n \in taken' :
          ~packets'[n].reset /\ packets'[n].lo <= b /\ b < packets'[n].hi
    BY <1>1, <1>6 DEF StreamInv, TakenInv, Learns
  <2>8. Eager => Delivery(in') /\ Len(in'.delivered) <= out'.sendOffset
    <3> SUFFICES ASSUME Eager PROVE Delivery(in) /\ Len(in.delivered) <= out'.sendOffset
      BY <1>1
    <3>1. Delivery(in) /\ Len(in.delivered) <= out.sendOffset
      BY DEF StreamInv, TakenInv
    <3> QED BY <3>1, <1>4
  <2> QED BY <2>1, <2>2, <2>3, <2>4, <2>5, <2>6, <2>7, <2>8 DEF TakenInv
<1>8. FlowInv'
  <2> SUFFICES ASSUME MayShutdown = FALSE
               PROVE  Heeds(out') /\ out'.barrier <= in'.barrier /\ WithinBarrier'
    BY DEF FlowInv
  <2>1. Heeds(out) /\ out.barrier <= in.barrier /\ WithinBarrier
    BY DEF StreamInv, FlowInv
  <2>2. Heeds(out') /\ out'.barrier <= in'.barrier
    BY <1>1, <2>1 DEF Flows, Learns
  <2>3. ASSUME NEW n \in 1..Len(packets'), ~packets'[n].reset
        PROVE  packets'[n].hi <= in'.barrier
    <3>1. CASE n > Len(packets)
      BY <1>1, <2>3, <3>1 DEF Sends
    <3>2. CASE ~(n > Len(packets))
      <4>1. n \in 1..Len(packets) /\ packets'[n] = packets[n]
        BY <1>3, <3>2 DEF Longer
      <4> QED BY <1>1, <2>1, <2>3, <4>1 DEF WithinBarrier
    <3> QED BY <3>1, <3>2
  <2>4. DOMAIN packets' = 1..Len(packets')
    BY DEF OutInv, PacketInv
  <2> QED BY <2>2, <2>3, <2>4 DEF WithinBarrier
<1>9. OrderlyInv'
  <2> SUFFICES ASSUME Orderly
               PROVE  /\ \A n \in taken' : 1..n \subseteq taken'
                      /\ in'.state \notin Resets /\ ~in'.crashed =>
                            /\ in'.queue = {}
                            /\ \A n \in taken' : ~packets'[n].reset => packets'[n].hi <= in'.offset
                            /\ in'.state = "SHUTDOWN" => in'.offset = out'.sendOffset
    BY DEF OrderlyInv, Orderly
  <2>1. in.state = "SHUTDOWN" => out'.sendOffset = out.sendOffset
    BY DEF StreamInv, TakenInv, SentInv, Closed, Onward
  <2> QED BY <1>1, <1>6, <2>1 DEF StreamInv, OrderlyInv
<1> QED BY <1>2, <1>5, <1>7, <1>8, <1>9 DEF StreamInv


\* A step that sends nothing.
LEMMA SendsNothing == ASSUME OutInv, UNCHANGED packets PROVE Longer /\ Sends
<1>1. Len(packets) \in Nat
  BY PacketsCount
<1>2. \A n \in 1..Len(packets') : ~(n > Len(packets))
  BY <1>1
<1> QED BY <1>2, LongerSame DEF Sends

LEMMA CalmStep ==
    ASSUME StreamInv, OutInv', ToldInv', UNCHANGED <<inVars, netVars>>,
           Onward(out, out'), Calm(out, out'), Flows(out, out'), UNCHANGED packets
    PROVE  StreamInv' /\ Onward(out, out')
<1>1. Longer /\ Sends
  BY SendsNothing DEF StreamInv
<1>2. Pulled
  BY DEF Pulled, Calm, StreamInv, SentInv
<1>3. Learns
  BY DEF Learns, Calm
<1>4. taken' = taken /\ takenBarriers' \subseteq 1..Len(barriers)
  BY DEF netVars, StreamInv, TakenInv
<1> QED BY <1>1, <1>2, <1>3, <1>4, SenderStep

\* A pull begins where what was sent ends, or with bytes that were sent and lost.
LEMMA FrontSent ==
    ASSUME StreamInv, ~out.pull.on, out.state # "RESET",
           NEW offset, offset = IF out.retransmit = {} THEN out.sendOffset
                                ELSE First(out.retransmit).lo
    PROVE  Before(Len(packets) + 1, offset)
<1>1. /\ OutInv /\ out \in Queue /\ out.sendOffset \in Nat /\ out.retransmit \in SUBSET Segment
      /\ Found(out) /\ Sorted(out) /\ Taken(out) /\ PacketInv
  BY OutFields DEF StreamInv, OutInv, QueueInv, DataInv, Queue
<1>2. offset \in Nat /\ offset <= out.sendOffset /\ \A t \in out.retransmit : offset <= t.lo
  <2>1. CASE out.retransmit = {}
    BY <1>1, <2>1
  <2>2. CASE out.retransmit # {}
    <3>1. /\ First(out.retransmit) \in out.retransmit
          /\ \A t \in out.retransmit : First(out.retransmit).lo <= t.lo
      BY <1>1, <2>2, FirstIsLeast
    <3>2. /\ First(out.retransmit).lo \in Nat /\ First(out.retransmit).hi \in Nat
          /\ First(out.retransmit).lo < First(out.retransmit).hi
      BY <1>1, <3>1, SegmentFields, SegmentsAssumption
    <3>3. First(out.retransmit).hi <= out.sendOffset
      BY <1>1, <3>1 DEF Sorted, Holds
    <3> QED BY <1>1, <2>2, <3>1, <3>2, <3>3
  <2> QED BY <2>1, <2>2
<1> SUFFICES ASSUME offset # 0 PROVE Before(Len(packets) + 1, offset)
  BY DEF Before
<1> DEFINE b == offset - 1
<1>3. b \in 0..(out.sendOffset - 1) /\ b \in Nat
  BY <1>1, <1>2
<1>4. b \in Bytes(Holds(out)) \/ b \in out.confirmed
  BY <1>1, <1>3 DEF Found
<1>5. Len(packets) \in Nat /\ (Len(packets) + 1) - 1 = Len(packets)
  BY <1>1, PacketsCount
<1>6. CASE b \in out.confirmed
  <2>1. PICK n \in taken : ~packets[n].reset /\ packets[n].lo <= b /\ b < packets[n].hi
    BY <1>6 DEF StreamInv, TakenInv
  <2>2. n \in 1..Len(packets)
    BY DEF StreamInv, TakenInv
  <2>3. offset <= packets[n].hi
    <3>1. packets[n].hi \in Nat
      BY <1>1, <2>2, PacketFields
    <3> QED BY <1>2, <2>1, <3>1
  <2> QED BY <1>5, <2>1, <2>2, <2>3 DEF Before
<1>7. CASE b \in Bytes(Holds(out))
  <2>1. PICK t \in Holds(out) : t.lo <= b /\ b < t.hi
    BY <1>7 DEF Bytes
  <2>2. t \notin out.retransmit
    <3>1. SUFFICES ASSUME t \in out.retransmit PROVE FALSE
      OBVIOUS
    <3>2. t.lo \in Nat /\ offset <= t.lo
      BY <1>1, <1>2, <3>1, SegmentFields, SegmentsAssumption
    <3> QED BY <1>2, <2>1, <3>2
  <2>3. out.pull.segments = {}
    BY <1>1 DEF Taken, NoPull
  <2>4. t \in out.inflight
    BY <2>1, <2>2, <2>3 DEF Holds
  <2>5. PICK n \in undecided : t \in packets[n].segments
    BY <1>1, <2>4 DEF PacketInv
  <2>6. /\ n \in 1..Len(packets) /\ ~packets[n].reset
        /\ Bytes(packets[n].segments) = packets[n].lo..(packets[n].hi - 1)
    BY <1>1, <2>5 DEF PacketInv
  <2>7. b \in Bytes(packets[n].segments)
    BY <1>7, <2>1, <2>5 DEF Bytes
  <2>8. offset <= packets[n].hi
    <3>1. packets[n].hi \in Nat /\ packets[n].lo \in Nat
      BY <1>1, <2>6, PacketFields
    <3> QED BY <1>2, <2>6, <2>7, <3>1
  <2> QED BY <1>5, <2>6, <2>8 DEF Before
<1> QED BY <1>4, <1>6, <1>7

LEMMA InvPullReset ==
    ASSUME StreamInv, OutInv', ToldInv', UNCHANGED <<inVars, netVars>>, PullReset
    PROVE  StreamInv' /\ Onward(out, out')
<1> DEFINE p == [reset |-> TRUE, lo |-> 0, hi |-> 0, segments |-> {}, eof |-> FALSE]
<1>1. OutInv /\ Closed(out)
  BY DEF StreamInv, SentInv
<1>2. /\ Onward(out, out') /\ Calm(out, out') /\ Flows(out, out') /\ ~out.pull.on
      /\ out'.state = "RESET" /\ packets' = Append(packets, p)
  BY <1>1, OnPullReset
<1>3. p.reset /\ ~p.eof /\ p.hi = 0
  OBVIOUS
<1> HIDE DEF p
<1>4. Longer /\ Len(packets') = Len(packets) + 1 /\ packets'[Len(packets) + 1] = p
  BY <1>1, <1>2, LongerAppend
<1>5. Sends
  <2> SUFFICES ASSUME NEW n \in 1..Len(packets'), n > Len(packets)
               PROVE  Entry(n)' /\ packets'[n].reset
    BY DEF Sends
  <2>1. n = Len(packets) + 1
    BY <1>1, <1>4, PacketsCount
  <2> QED BY <1>2, <1>3, <1>4, <2>1 DEF Entry
<1>6. Pulled
  BY <1>2 DEF Pulled, Calm
<1>7. Learns
  BY <1>2 DEF Learns, Calm
<1>8. taken' = taken /\ takenBarriers' \subseteq 1..Len(barriers)
  BY DEF netVars, StreamInv, TakenInv
<1> QED BY <1>2, <1>4, <1>5, <1>6, <1>7, <1>8, SenderStep

LEMMA InvPullBegin ==
    ASSUME StreamInv, OutInv', ToldInv', UNCHANGED <<inVars, netVars>>, PullBegin
    PROVE  StreamInv' /\ Onward(out, out')
<1>1. OutInv /\ Closed(out)
  BY DEF StreamInv, SentInv
<1>2. /\ Onward(out, out') /\ Pulls(out, out') /\ Flows(out, out') /\ UNCHANGED packets
      /\ ~out.pull.on /\ out.state # "RESET"
      /\ out'.pull.lo = IF out.retransmit = {} THEN out.sendOffset
                        ELSE First(out.retransmit).lo
  BY <1>1, OnPullBegin
<1>3. Before(Len(packets) + 1, out'.pull.lo)
  BY <1>2, FrontSent
<1>4. Pulled
  BY <1>2, <1>3 DEF Pulled, Pulls
<1>5. Learns
  BY <1>2 DEF Learns, Pulls
<1>6. taken' = taken /\ takenBarriers' \subseteq 1..Len(barriers)
  BY DEF netVars, StreamInv, TakenInv
<1> QED BY <1>1, <1>2, <1>4, <1>5, <1>6, SendsNothing, SenderStep

LEMMA InvPullSegment ==
    ASSUME StreamInv, OutInv', ToldInv', UNCHANGED <<inVars, netVars>>, PullSegment
    PROVE  StreamInv' /\ Onward(out, out')
<1>1. OutInv /\ Closed(out)
  BY DEF StreamInv, SentInv
<1>2. /\ Onward(out, out') /\ Pulls(out, out') /\ Flows(out, out') /\ UNCHANGED packets
      /\ out.pull.on /\ out'.pull.lo = out.pull.lo
  BY <1>1, OnPullSegment
<1>3. Before(Len(packets) + 1, out'.pull.lo)
  BY <1>2 DEF StreamInv, SentInv
<1>4. Pulled
  BY <1>2, <1>3 DEF Pulled, Pulls
<1>5. Learns
  BY <1>2 DEF Learns, Pulls
<1>6. taken' = taken /\ takenBarriers' \subseteq 1..Len(barriers)
  BY DEF netVars, StreamInv, TakenInv
<1> QED BY <1>1, <1>2, <1>4, <1>5, <1>6, SendsNothing, SenderStep

LEMMA InvPullEnd ==
    ASSUME StreamInv, OutInv', ToldInv', UNCHANGED <<inVars, netVars>>, PullEnd
    PROVE  StreamInv' /\ Onward(out, out')
<1> DEFINE p == [reset |-> FALSE, lo |-> out.pull.lo, hi |-> out.pull.hi,
                 segments |-> out.pull.segments, eof |-> AttachEOF]
<1>1. OutInv /\ Closed(out) /\ SentInv
  BY DEF StreamInv, SentInv
<1>2. /\ Onward(out, out') /\ Pulls(out, out') /\ Flows(out, out')
      /\ out.pull.on /\ ~out'.pull.on /\ packets' = Append(packets, p)
      /\ AttachEOF => out.state \in Shutdowns /\ out.pull.hi = out.sendOffset
  BY <1>1, OnPullEnd
<1>3. ~p.reset /\ p.lo = out.pull.lo /\ p.hi = out.pull.hi /\ (p.eof <=> AttachEOF)
  OBVIOUS
<1> HIDE DEF p
<1>4. Longer /\ Len(packets') = Len(packets) + 1 /\ packets'[Len(packets) + 1] = p
  BY <1>1, <1>2, LongerAppend
<1>5. /\ p.lo \in Nat /\ p.hi \in Nat /\ p.lo <= p.hi /\ p.hi <= out.sendOffset
      /\ p.hi - p.lo <= MaxPayload /\ Before(Len(packets) + 1, p.lo)
      /\ out.sendOffset \in Nat
  BY <1>1, <1>2, <1>3, OutFields DEF Taken, SentInv
<1>6. p.eof => out'.shutdowner # "none" /\ p.hi = out'.sendOffset /\ out'.state # "CONNECTED"
  BY <1>1, <1>2, <1>3 DEF Closed, Onward, Shutdowns
<1>7. p.hi <= out'.sendOffset
  <2>1. out' \in Queue
    BY InvType DEF OutInv
  <2>2. out'.sendOffset \in Nat /\ out.sendOffset <= out'.sendOffset
    BY <1>2, <2>1 DEF Onward, Queue
  <2> QED BY <1>5, <2>2
<1>8. Before(Len(packets) + 1, p.lo) =>
        p.lo = 0 \/ \E m \in 1..((Len(packets) + 1) - 1) : ~packets'[m].reset /\ p.lo <= packets'[m].hi
  <2>1. Len(packets) + 1 \in 1..(Len(packets) + 1)
    BY <1>1, PacketsCount
  <2> QED BY <1>1, <1>4, <2>1, BeforeKept
<1>9. MayShutdown = FALSE => p.hi <= in.barrier
  <2> SUFFICES ASSUME MayShutdown = FALSE PROVE p.hi <= in.barrier
    OBVIOUS
  <2>1. out.pull.lo + SillyWindow < out.barrier /\ out.barrier <= in.barrier
    BY <1>2 DEF StreamInv, FlowInv, Heeds
  <2>2. out.barrier \in Nat /\ in.barrier \in Nat /\ SillyWindow \in Nat /\ MaxPayload \in Nat
        /\ MaxPayload <= SillyWindow + 1
    BY <1>1, OutFields, OutStreamAssumption DEF StreamInv, InInv, Good, IsReceiver
  <2>3. p.hi <= out.barrier
    BY <1>3, <1>5, <2>1, <2>2
  <2> QED BY <1>5, <2>1, <2>2, <2>3
<1>10. Sends
  <2> SUFFICES ASSUME NEW n \in 1..Len(packets'), n > Len(packets)
               PROVE  /\ Entry(n)'
                      /\ MayShutdown = FALSE => packets'[n].hi <= in.barrier
    BY DEF Sends
  <2>1. n = Len(packets) + 1 /\ packets'[n] = p
    BY <1>1, <1>4, PacketsCount
  <2>2. Entry(n)'
    <3>1. p.lo = 0 \/ \E m \in 1..(n - 1) : ~packets'[m].reset /\ p.lo <= packets'[m].hi
      BY <1>5, <1>8, <2>1
    <3> QED BY <1>3, <1>5, <1>6, <1>7, <2>1, <3>1 DEF Entry, Before
  <2> QED BY <1>9, <2>1, <2>2
<1>11. Pulled
  BY <1>2 DEF Pulled
<1>12. Learns
  BY <1>2 DEF Learns, Pulls
<1>13. taken' = taken /\ takenBarriers' \subseteq 1..Len(barriers)
  BY DEF netVars, StreamInv, TakenInv
<1> QED BY <1>2, <1>4, <1>10, <1>11, <1>12, <1>13, SenderStep

LEMMA InvSenderRuns ==
    ASSUME StreamInv, SenderRuns PROVE StreamInv' /\ Onward(out, out')
<1>1. OutInv /\ ToldInv /\ Closed(out) /\ UNCHANGED <<inVars, netVars>>
  BY DEF StreamInv, SentInv, SenderRuns
<1>2. OutInv' /\ ToldInv'
  <2>1. [OutNext]_outVars
    BY DEF SenderRuns, OutNext
  <2> QED BY <1>1, <2>1, Steps, ToldSteps
<1>3. CASE \E n \in Writes : Write(n)
  BY <1>1, <1>2, <1>3, OnWrite, CalmStep
<1>4. CASE Shutdown
  BY <1>1, <1>2, <1>4, OnShutdown, CalmStep
<1>5. CASE Reset
  BY <1>1, <1>2, <1>5, OnReset, CalmStep
<1>6. CASE SetPriority
  BY <1>1, <1>2, <1>6, OnSetPriority, CalmStep
<1>7. CASE PullReset
  BY <1>1, <1>2, <1>7, InvPullReset
<1>8. CASE PullBegin
  BY <1>1, <1>2, <1>8, InvPullBegin
<1>9. CASE PullSegment
  BY <1>1, <1>2, <1>9, InvPullSegment
<1>10. CASE PullEnd
  BY <1>1, <1>2, <1>10, InvPullEnd
<1> QED BY <1>3, <1>4, <1>5, <1>6, <1>7, <1>8, <1>9, <1>10 DEF SenderRuns, Application, Pulling


LEMMA InvSegmentDecided ==
    ASSUME StreamInv, NEW n \in undecided, NEW ok \in BOOLEAN, SegmentDecided(n, ok)
    PROVE  StreamInv' /\ Onward(out, out')
<1>1. /\ OutInv /\ ToldInv /\ Closed(out) /\ UNCHANGED <<inVars, netVars>> /\ Acks(n, ok)
      /\ ok => n \in taken
  BY DEF StreamInv, SentInv, SegmentDecided
<1>2. OutInv' /\ ToldInv'
  <2>1. [OutNext]_outVars
    BY <1>1 DEF OutNext
  <2> QED BY <1>1, <2>1, Steps, ToldSteps
<1>3. taken' = taken /\ takenBarriers' \subseteq 1..Len(barriers)
  BY <1>1 DEF netVars, StreamInv, TakenInv
<1>4. CASE AckReset(n, ok)
  <2>1. packets[n].reset /\ ~out.pull.on
    BY <1>4 DEF AckReset
  <2>2. n \in 1..Len(packets)
    BY <1>1 DEF OutInv, PacketInv
  <2>3. out.state = "RESET"
    BY <2>1, <2>2 DEF StreamInv, SentInv, Entry
  <2>4. /\ Onward(out, out') /\ Flows(out, out') /\ UNCHANGED packets
        /\ out'.pull = out.pull /\ out'.barrier = out.barrier
        /\ out'.confirmed = out.confirmed
        /\ out'.complete => out.complete \/ ok
    BY <1>1, <1>4, <2>3, OnAckReset
  <2>5. Pulled
    BY <2>1, <2>4 DEF Pulled
  <2>6. ok => in.state # "CONNECTED"
    BY <1>1, <2>1 DEF StreamInv, TakenInv
  <2>7. Learns
    BY <2>4, <2>6 DEF Learns
  <2> QED BY <1>1, <1>2, <1>3, <2>4, <2>5, <2>7, SendsNothing, SenderStep
<1>5. CASE AckData(n, ok)
  <2>1. ~out.pull.on
    BY <1>5 DEF AckData
  <2>2. n \in 1..Len(packets)
    BY <1>1 DEF OutInv, PacketInv
  <2>3. /\ Onward(out, out') /\ Flows(out, out') /\ UNCHANGED packets
        /\ out'.pull = out.pull /\ out'.barrier = out.barrier
        /\ out'.complete => out.complete \/ out'.shutdowner # "none"
        /\ ~packets[n].reset
        /\ IF ok THEN out'.confirmed = out.confirmed \cup packets[n].lo..(packets[n].hi - 1)
           ELSE out'.confirmed = out.confirmed
    BY <1>1, <1>5, OnAckData
  <2>4. Pulled
    BY <2>1, <2>3 DEF Pulled
  <2>5. Learns
    <3>1. \A b \in packets[n].lo..(packets[n].hi - 1) : packets[n].lo <= b /\ b < packets[n].hi
      BY <1>1, <2>2, PacketFields
    <3> QED BY <1>1, <2>3, <3>1 DEF Learns
  <2> QED BY <1>1, <1>2, <1>3, <2>3, <2>4, <2>5, SendsNothing, SenderStep
<1> QED BY <1>1, <1>4, <1>5 DEF Acks

LEMMA InvBarrierArrives ==
    ASSUME StreamInv, ~out.pull.on, NEW n \in DOMAIN barriers, BarrierArrives(n)
    PROVE  StreamInv' /\ Onward(out, out')
<1>1. /\ OutInv /\ ToldInv /\ Closed(out) /\ UNCHANGED <<inVars, taken>>
      /\ takenBarriers' = takenBarriers \cup {n}
  BY DEF StreamInv, SentInv, BarrierArrives
<1>2. /\ n \in 1..Len(barriers) /\ barriers[n] \in Record
      /\ IF barriers[n].reset THEN in.state \in Resets ELSE barriers[n].barrier <= in.barrier
  <2>1. barriers \in Seq(Record)
    BY DEF StreamInv, InInv, BarrierInv
  <2>2. n \in 1..Len(barriers)
    BY <2>1
  <2>3. barriers[n] \in Record
    BY <2>1, <2>2, ElementOfSeq
  <2> QED BY <2>2, <2>3 DEF StreamInv, InInv, BarrierInv
<1>3. takenBarriers' \subseteq 1..Len(barriers)
  BY <1>1, <1>2 DEF StreamInv, TakenInv
<1>4. CASE UNCHANGED outVars
  <2>1. [OutNext]_outVars /\ out' = out /\ UNCHANGED packets
    BY <1>4 DEF outVars
  <2>2. OutInv' /\ ToldInv'
    BY <1>1, <2>1, Steps, ToldSteps
  <2>3. Onward(out, out') /\ Flows(out, out')
    <3>1. out.sendOffset <= out.sendOffset
      BY <1>1, OutFields
    <3> QED BY <1>1, <2>1, <3>1 DEF Onward, Wrote, Flows
  <2>4. Pulled /\ Learns
    BY <2>1 DEF Pulled, Learns
  <2> QED BY <1>1, <1>3, <2>1, <2>2, <2>3, <2>4, SendsNothing, SenderStep
<1>5. CASE barriers[n].reset /\ RecvReaderResets
  <2>1. [OutNext]_outVars
    BY <1>5 DEF OutNext
  <2>2. OutInv' /\ ToldInv'
    BY <1>1, <2>1, Steps, ToldSteps
  <2>3. /\ Onward(out, out') /\ Flows(out, out') /\ UNCHANGED packets
        /\ out'.barrier = out.barrier /\ out'.pull = out.pull
        /\ out'.confirmed = out.confirmed
    BY <1>1, <1>5, OnRecvReaderResets
  <2>4. in.state # "CONNECTED"
    BY <1>2, <1>5 DEF Resets
  <2>5. Pulled /\ Learns
    BY <2>3, <2>4 DEF Pulled, Learns
  <2> QED BY <1>1, <1>3, <2>2, <2>3, <2>5, SendsNothing, SenderStep
<1>6. CASE ~barriers[n].reset /\ RecvBarrier(barriers[n].barrier)
  <2>1. barriers[n].barrier \in Nat
    BY <1>2 DEF Record
  <2>2. OutInv' /\ ToldInv'
    BY <1>1, <1>6, <2>1, StepRecvBarrier, ToldRecvBarrier
  <2>3. /\ Onward(out, out') /\ Flows(out, out') /\ UNCHANGED packets
        /\ out'.barrier = barriers[n].barrier /\ out'.pull = out.pull
        /\ out'.confirmed = out.confirmed /\ out'.complete = out.complete
    BY <1>1, <1>6, <2>1, OnRecvBarrier
  <2>4. Pulled /\ Learns
    BY <1>2, <1>6, <2>3 DEF Pulled, Learns
  <2> QED BY <1>1, <1>3, <2>2, <2>3, <2>4, SendsNothing, SenderStep
<1> QED BY <1>4, <1>5, <1>6 DEF BarrierArrives

-----------------------------------------------------------------------------
(***************************************************************************)
(* What a step of the reader's host keeps.                                   *)
(***************************************************************************)

\* A step of the reader's host that takes no packet, d after s.
Calms(s, d) ==
    /\ s.barrier <= d.barrier /\ d.queue = s.queue /\ d.offset = s.offset
    /\ d.crashed = s.crashed
    /\ d.state = s.state \/ d.state \in Resets
    /\ s.state # "CONNECTED" => d.state # "CONNECTED"
    /\ s.state \in Resets => d.state \in Resets
    /\ s.told = "SHUTDOWN" => d.told = "SHUTDOWN"
    /\ d.told = "SHUTDOWN" =>
          \/ s.told = "SHUTDOWN"
          \/ /\ s.state = "SHUTDOWN" /\ s.ready = <<>> /\ ~s.crashed
             /\ d.delivered = s.delivered
    /\ Delivery(s) => Delivery(d) /\ Len(s.delivered) <= Len(d.delivered)
    /\ d.delivered = s.delivered \/ (d.state \notin Resets /\ ~d.crashed)

\* What the type of a receiver says of the numbers it keeps.
LEMMA ReceiverNumbers ==
    ASSUME NEW s, IsReceiver(s)
    PROVE  /\ s.offset \in Nat /\ s.barrier \in Nat /\ s.window \in Nat
           /\ s.delivered \in Seq(Int) /\ Len(s.delivered) \in Nat
<1>1. s.offset \in Nat /\ s.barrier \in Nat /\ s.window \in Nat
  BY SegmentsAssumption DEF IsReceiver
<1>2. s.delivered \in Seq(Int)
  BY DEF IsReceiver
<1> QED BY <1>1, <1>2

\* The end is told once, when the bytes are given, and no byte is taken back.
Hears(s, d) ==
    /\ s.told = "SHUTDOWN" => d.told = "SHUTDOWN"
    /\ Eager => Len(s.delivered) <= Len(d.delivered)
    /\ d.told = "SHUTDOWN" /\ s.told # "SHUTDOWN" =>
          d.delivered = s.delivered /\ (Orderly => Len(s.delivered) = out.sendOffset)

\* A reader with nothing left to read, all of whose bytes are numbered x or less.
LEMMA AllGiven ==
    ASSUME NEW s, s.state = "SHUTDOWN", ~s.crashed, s.ready = <<>>, Delivery(s)
    PROVE  Len(s.delivered) = s.offset
BY DEF Delivery, ReadyNext, Run, Resets

LEMMA ReceiverStep ==
    ASSUME StreamInv, InInv', Calms(in, in'), UNCHANGED <<outVars, netVars>>,
           Len(barriers) <= Len(barriers')
    PROVE  StreamInv' /\ out' = out /\ Hears(in, in')
<1>1. /\ out' = out /\ packets' = packets /\ undecided' = undecided
      /\ taken' = taken /\ takenBarriers' = takenBarriers
  BY DEF outVars, netVars
<1>2. OutInv' /\ ToldInv'
  BY Steps, ToldSteps DEF StreamInv
<1>3. SentInv'
  BY <1>1 DEF StreamInv, SentInv, Entry, Before
<1>4. IsReceiver(in) /\ IsReceiver(in') /\ out.sendOffset \in Nat /\ out.barrier \in Nat
  BY OutFields DEF StreamInv, InInv, Good
<1>5. Eager => Delivery(in') /\ Len(in'.delivered) <= out.sendOffset
  <2> SUFFICES ASSUME Eager PROVE Delivery(in') /\ Len(in'.delivered) <= out.sendOffset
    OBVIOUS
  <2>1. Delivery(in') /\ Len(in.delivered) <= out.sendOffset /\ in'.offset <= out.sendOffset
    BY DEF StreamInv, TakenInv, Calms
  <2>2. CASE in'.delivered = in.delivered
    BY <2>1, <2>2
  <2>3. CASE in'.state \notin Resets /\ ~in'.crashed
    <3>1. Len(in'.delivered) <= in'.offset
      BY <2>1, <2>3 DEF Delivery, ReadyNext
    <3>2. Len(in'.delivered) \in Nat /\ in'.offset \in Nat
      BY <1>4, SegmentsAssumption DEF IsReceiver
    <3> QED BY <1>4, <2>1, <3>1, <3>2
  <2> QED BY <2>1, <2>2, <2>3 DEF Calms
<1>6. TakenInv'
  <2>1. Len(barriers) \in Nat /\ Len(barriers') \in Nat
    BY DEF StreamInv, InInv, BarrierInv
  <2>2. takenBarriers' \subseteq 1..Len(barriers')
    BY <1>1, <2>1 DEF StreamInv, TakenInv
  <2>3. in'.state = "SHUTDOWN" => in.state = "SHUTDOWN"
    BY DEF Calms, Resets
  <2> QED BY <1>1, <1>5, <2>2, <2>3 DEF StreamInv, TakenInv, Calms
<1>7. FlowInv'
  <2> SUFFICES ASSUME MayShutdown = FALSE
               PROVE  Heeds(out) /\ out.barrier <= in'.barrier /\ WithinBarrier'
    BY <1>1 DEF FlowInv
  <2>1. Heeds(out) /\ out.barrier <= in.barrier /\ WithinBarrier
    BY DEF StreamInv, FlowInv
  <2>2. in.barrier \in Nat /\ in'.barrier \in Nat /\ in.barrier <= in'.barrier
    BY <1>4 DEF IsReceiver, Calms
  <2>3. \A n \in DOMAIN packets : packets[n].hi \in Nat
    BY PacketFields DEF StreamInv, OutInv, PacketInv
  <2> QED BY <1>1, <1>4, <2>1, <2>2, <2>3 DEF WithinBarrier
<1>8. OrderlyInv'
  <2>1. in'.state = "SHUTDOWN" => in.state = "SHUTDOWN"
    BY DEF Calms, Resets
  <2>2. in'.state \notin Resets => in.state \notin Resets
    BY DEF Calms
  <2> QED BY <1>1, <2>1, <2>2 DEF StreamInv, OrderlyInv, Orderly, Calms
<1>9. Hears(in, in')
  <2>1. Eager => Delivery(in)
    BY DEF StreamInv, TakenInv
  <2>2. ASSUME in'.told = "SHUTDOWN", in.told # "SHUTDOWN"
        PROVE  in'.delivered = in.delivered /\ (Orderly => Len(in.delivered) = out.sendOffset)
    <3>1. /\ in.state = "SHUTDOWN" /\ in.ready = <<>> /\ ~in.crashed
          /\ in'.delivered = in.delivered
      BY <2>2 DEF Calms
    <3>2. ASSUME Orderly PROVE Len(in.delivered) = out.sendOffset
      <4>1. Len(in.delivered) = in.offset
        BY <2>1, <3>1, <3>2, AllGiven DEF Orderly
      <4>2. in.offset = out.sendOffset
        BY <3>1, <3>2 DEF StreamInv, OrderlyInv, Resets
      <4> QED BY <4>1, <4>2
    <3> QED BY <3>1, <3>2
  <2> QED BY <2>1, <2>2 DEF Hears, Calms
<1> QED BY <1>1, <1>2, <1>3, <1>6, <1>7, <1>8, <1>9 DEF StreamInv

LEMMA SameCalm ==
    ASSUME InInv, Same(in, in')
    PROVE  Calms(in, in')
<1>1. Len(in.delivered) \in Nat
  BY ReceiverNumbers DEF InInv, Good
<1>2. Len(in.delivered) <= Len(in'.delivered)
  BY <1>1 DEF Same, Stays
<1> QED BY <1>2 DEF Same, Stays, Calms

LEMMA InvReceiverRuns ==
    ASSUME StreamInv, ReceiverRuns PROVE StreamInv' /\ out' = out /\ Hears(in, in')
<1>1. InInv /\ UNCHANGED <<outVars, netVars>> /\ Len(barriers) \in Nat
  BY DEF StreamInv, ReceiverRuns, InInv, BarrierInv
<1>2. CASE \E size \in ReadSizes : Read(size)
  <2>1. PICK size \in ReadSizes : Read(size)
    BY <1>2
  <2>2. UNCHANGED barriers /\ Len(barriers) <= Len(barriers')
    BY <1>1, <2>1 DEF Read
  <2>3. /\ InInv' /\ in'.state = in.state /\ in'.queue = in.queue
        /\ in'.offset = in.offset /\ in'.crashed = in.crashed
        /\ \/ in'.told = "none"
           \/ /\ in'.told = "SHUTDOWN" /\ in.state = "SHUTDOWN" /\ in.ready = <<>>
              /\ in'.delivered = in.delivered
        /\ Delivery(in) => Delivery(in') /\ Len(in.delivered) <= Len(in'.delivered)
        /\ in.told = "none" /\ ~in.crashed /\ in.state \notin Resets /\ in.barrier <= in'.barrier
    BY <1>1, <2>1, StepRead
  <2>4. Calms(in, in')
    BY <2>3 DEF Calms
  <2> QED BY <1>1, <2>2, <2>3, <2>4, ReceiverStep
<1>3. CASE ResetReader
  <2>1. UNCHANGED barriers /\ Len(barriers) <= Len(barriers')
    BY <1>1, <1>3 DEF ResetReader
  <2>2. /\ InInv' /\ Stays(in, in') /\ in'.state \in Resets
        /\ in'.told \in {in.told, "RESET"} /\ (in.told = "SHUTDOWN" => in'.told = in.told)
        /\ Delivery(in) => Delivery(in')
    BY <1>1, <1>3, StepResetReader
  <2>3. Len(in.delivered) \in Nat
    BY <1>1, ReceiverNumbers DEF InInv, Good
  <2>4. Len(in.delivered) <= Len(in'.delivered)
    BY <2>2, <2>3 DEF Stays
  <2>5. Calms(in, in')
    BY <2>2, <2>4 DEF Calms, Stays, Resets
  <2> QED BY <1>1, <2>1, <2>2, <2>5, ReceiverStep
<1>4. CASE OtherTraffic
  <2>1. InInv' /\ Same(in, in') /\ UNCHANGED barriers
    BY <1>1, <1>4, StepOtherTraffic
  <2> QED BY <1>1, <2>1, SameCalm, ReceiverStep
<1>5. CASE PullBarrier
  <2>1. InInv' /\ Same(in, in')
    BY <1>1, <1>5, StepPullBarrier
  <2>2. Len(barriers) <= Len(barriers')
    <3>1. PICK b : barriers' = Append(barriers, b)
      BY <1>5 DEF PullBarrier
    <3>2. barriers \in Seq(Record)
      BY <1>1 DEF InInv, BarrierInv
    <3>3. Len(barriers') = Len(barriers) + 1
      BY <3>1, <3>2
    <3> QED BY <1>1, <3>3
  <2> QED BY <1>1, <2>1, <2>2, SameCalm, ReceiverStep
<1> QED BY <1>2, <1>3, <1>4, <1>5 DEF ReceiverRuns

LEMMA InvBarrierDecided ==
    ASSUME StreamInv, NEW n \in barriersOpen, NEW ok \in BOOLEAN, BarrierDecided(n, ok)
    PROVE  StreamInv' /\ out' = out /\ Hears(in, in')
<1>1. /\ InInv /\ UNCHANGED <<outVars, netVars>> /\ AckBarrier(n, ok) /\ Len(barriers) \in Nat
  BY DEF StreamInv, BarrierDecided, InInv, BarrierInv
<1>2. InInv' /\ Same(in, in') /\ UNCHANGED barriers
  BY <1>1, StepAckBarrier
<1>3. Len(barriers) <= Len(barriers')
  BY <1>1, <1>2
<1> QED BY <1>1, <1>2, <1>3, SameCalm, ReceiverStep


\* What a segment that arrives does to the reader, beside the two ends' own invariants.
LEMMA ArrivalGets ==
    ASSUME StreamInv, NEW n \in 1..Len(packets), NEW ok \in BOOLEAN,
           RecvSegment(n, packets[n], ok)
    PROVE  Got(in, packets[n], ok, in') /\ InInv'
<1>1. /\ packets[n].reset \in BOOLEAN /\ packets[n].eof \in BOOLEAN
      /\ packets[n].lo \in 0..MaxBytes /\ packets[n].hi \in 0..MaxBytes
      /\ ~packets[n].reset => packets[n].lo <= packets[n].hi
  BY PacketFields DEF StreamInv, SentInv, Entry
<1>2. Good(in) /\ n \in Nat
  BY DEF StreamInv, InInv
<1>3. Got(in, packets[n], ok, in')
  BY <1>1, <1>2, Arrival
<1>4. UNCHANGED <<barriers, barriersOpen>>
  BY DEF RecvSegment
<1>5. InInv'
  BY <1>3, <1>4, BarrierKept DEF StreamInv, Got
<1> QED BY <1>3, <1>5

\* The segment begins where the reader has bytes, or before, and is admitted.
LEMMA OrderlyAdmits ==
    ASSUME StreamInv, Orderly, NEW n \in 1..Len(packets), Arrives(n, taken),
           ReaderCaughtUp, in.state = "CONNECTED", ~in.crashed, ~packets[n].reset
    PROVE  packets[n].lo <= in.offset /\ ~Refuses(in, packets[n].hi)
<1> DEFINE p == packets[n]
<1>1. /\ p.lo \in Nat /\ p.hi \in Nat /\ p.hi - p.lo <= MaxPayload /\ Before(n, p.lo)
  BY PacketFields DEF StreamInv, SentInv, Entry
<1>2. /\ IsReceiver(in) /\ EndTold(in) /\ HasWindow(in) /\ IdGiven(in)
      /\ in.offset \in Nat /\ in.barrier \in Nat /\ in.window \in Nat
      /\ MinimumWindow \in Nat /\ MaxPayload \in Nat /\ MaxPayload <= MinimumWindow
  BY SegmentsAssumption, OutStreamAssumption DEF StreamInv, InInv, Good, IsReceiver, Orderly
<1>3. p.lo <= in.offset
  <2>1. CASE p.lo = 0
    BY <1>2, <2>1
  <2>2. CASE p.lo # 0
    <3>1. PICK m \in 1..(n - 1) : ~packets[m].reset /\ p.lo <= packets[m].hi
      BY <1>1, <2>2 DEF Before
    <3>2. m \in taken
      BY <3>1 DEF Arrives, Orderly
    <3>3. packets[m].hi <= in.offset
      BY <3>1, <3>2 DEF StreamInv, OrderlyInv, Resets
    <3>4. packets[m].hi \in Nat
      <4>1. m \in 1..Len(packets)
        BY PacketsCount DEF StreamInv
      <4> QED BY <4>1, PacketFields DEF StreamInv
    <3> QED BY <1>1, <1>2, <3>1, <3>3, <3>4
  <2> QED BY <2>1, <2>2
<1>4. in.bufferSize # noBuffer
  BY <1>2 DEF ReaderCaughtUp, Orderly, EndTold, IdGiven, IsReceiver, Endings, Resets
<1>5. in.ready = <<>>
  BY <1>2, <1>4 DEF EndTold
<1>6. ReadyNext(in)
  BY DEF StreamInv, TakenInv, Orderly, Delivery, Resets
<1>7. in.readyBytes = 0
  <2>1. Len(in.delivered) = in.offset
    BY <1>5, <1>6 DEF ReadyNext, Run
  <2> QED BY <1>2, <1>6, <2>1 DEF ReadyNext
<1>8. MinimumWindow <= in.window /\ in.offset - 0 + in.window <= in.barrier
  BY <1>2, <1>7 DEF HasWindow, Spare
<1>9. p.hi <= in.barrier
  BY <1>1, <1>2, <1>3, <1>8
<1> QED BY <1>1, <1>2, <1>3, <1>9 DEF Refuses

LEMMA OrderlyArrives ==
    ASSUME StreamInv, NEW n \in 1..Len(packets), NEW ok \in BOOLEAN, Arrives(n, taken),
           RecvSegment(n, packets[n], ok), taken' = IF ok THEN taken \cup {n} ELSE taken,
           UNCHANGED outVars
    PROVE  OrderlyInv'
<1> DEFINE p == packets[n]
<1>1. out' = out /\ packets' = packets
  BY DEF outVars
<1>2. SUFFICES ASSUME Orderly
      PROVE  /\ \A m \in taken' : 1..m \subseteq taken'
             /\ in'.state \notin Resets /\ ~in'.crashed =>
                   /\ in'.queue = {}
                   /\ \A m \in taken' : ~packets[m].reset => packets[m].hi <= in'.offset
                   /\ in'.state = "SHUTDOWN" => in'.offset = out.sendOffset
  BY <1>1 DEF OrderlyInv, Orderly
<1>3. \A m \in taken' : 1..m \subseteq taken'
  <2>1. \A m \in 1..(n - 1) : m \in taken
    BY <1>2 DEF Arrives, Orderly
  <2>2. 1..n \subseteq taken \cup {n}
    BY <2>1
  <2> QED BY <1>2, <2>2 DEF StreamInv, OrderlyInv
<1>4. SUFFICES ASSUME in'.state \notin Resets, ~in'.crashed
      PROVE  /\ in'.queue = {}
             /\ \A m \in taken' : ~packets[m].reset => packets[m].hi <= in'.offset
             /\ in'.state = "SHUTDOWN" => in'.offset = out.sendOffset
  BY <1>3
<1>5. Got(in, p, ok, in') /\ InInv' /\ ~in.crashed /\ ReaderCaughtUp
  BY ArrivalGets DEF RecvSegment
<1>6. /\ in.state \notin Resets /\ in.state \in InStates /\ IdGiven(in)
      /\ in.state = "CONNECTED" \/ in.state = "SHUTDOWN"
  BY <1>4, <1>5 DEF Got, StreamInv, InInv, Good, IsReceiver, InStates, Resets
<1>7. /\ in.queue = {}
      /\ \A m \in taken : ~packets[m].reset => packets[m].hi <= in.offset
      /\ in.state = "SHUTDOWN" => in.offset = out.sendOffset
  BY <1>2, <1>5, <1>6 DEF StreamInv, OrderlyInv
<1>8. /\ in.offset \in Nat /\ in'.offset \in Nat /\ out.sendOffset \in Nat /\ p.hi \in Nat
      /\ in.offset <= in'.offset /\ p.lo \in Nat
      /\ \A m \in taken : packets[m].hi \in Nat
  <2>1. IsReceiver(in) /\ IsReceiver(in')
    BY <1>5 DEF StreamInv, InInv, Good
  <2>2. \A m \in taken : packets[m].hi \in Nat
    BY PacketFields DEF StreamInv, TakenInv
  <2>3. in.offset \in Nat /\ in'.offset \in Nat
    BY <2>1, ReceiverNumbers
  <2>4. in.offset <= in'.offset
    BY <1>5 DEF Got
  <2>5. out.sendOffset \in Nat /\ p.hi \in Nat /\ p.lo \in Nat
    BY PacketFields, OutFields DEF StreamInv
  <2> QED BY <2>2, <2>3, <2>4, <2>5
<1>9. p.hi <= out.sendOffset /\ in'.offset <= out.sendOffset
  <2>1. p.hi <= out.sendOffset
    BY <1>8 DEF StreamInv, SentInv, Entry
  <2>2. in.offset <= out.sendOffset /\ \A c \in in.queue : c.hi <= out.sendOffset
    BY DEF StreamInv, TakenInv
  <2> QED BY <1>5, <1>8, <2>1, <2>2 DEF Got
<1>10. \A m \in taken : ~packets[m].reset => packets[m].hi <= in'.offset
  <2> SUFFICES ASSUME NEW m \in taken, ~packets[m].reset PROVE packets[m].hi <= in'.offset
    OBVIOUS
  <2>1. packets[m].hi <= in.offset /\ packets[m].hi \in Nat
    BY <1>7, <1>8
  <2> QED BY <1>8, <2>1
<1>11. CASE in.state = "SHUTDOWN"
  <2>1. in'.offset = out.sendOffset
    BY <1>7, <1>8, <1>9, <1>11
  <2>2. in'.queue = {}
    <3>1. CASE ~in.assigned
      BY <1>5, <1>7, <3>1 DEF Got
    <3>2. CASE in.assigned
      <4>1. ~p.reset
        BY <1>4, <1>5, <3>2 DEF Got
      <4>2. p.lo <= in.offset
        <5>1. p.lo <= p.hi
          BY <4>1 DEF StreamInv, SentInv, Entry
        <5> QED BY <1>7, <1>8, <1>9, <1>11, <5>1
      <4>3. CASE Refuses(in, p.hi)
        BY <1>5, <1>7, <3>2, <4>1, <4>3 DEF Got
      <4>4. CASE ~Refuses(in, p.hi)
        <5>1. in'.queue \subseteq in.queue
          BY <1>4, <1>5, <3>2, <4>1, <4>2, <4>4 DEF Got
        <5> QED BY <1>7, <5>1
      <4> QED BY <4>3, <4>4
    <3> QED BY <3>1, <3>2
  <2> QED BY <1>9, <1>10, <2>1, <2>2
<1>12. CASE in.state = "CONNECTED"
  <2>1. in.assigned
    BY <1>6, <1>12 DEF IdGiven
  <2>2. ~p.reset
    BY <1>4, <1>5, <2>1 DEF Got
  <2>3. p.lo <= in.offset /\ ~Refuses(in, p.hi)
    BY <1>2, <1>5, <1>12, <2>2, OrderlyAdmits
  <2>4. p.hi <= in'.offset /\ in'.queue \subseteq in.queue
    BY <1>4, <1>5, <2>1, <2>2, <2>3 DEF Got
  <2>5. in'.state = "SHUTDOWN" => p.eof
    BY <1>5, <1>12 DEF Got
  <2>6. p.eof => p.hi = out.sendOffset
    BY DEF StreamInv, SentInv, Entry
  <2> QED BY <1>7, <1>8, <1>9, <1>10, <2>4, <2>5, <2>6
<1> QED BY <1>6, <1>11, <1>12

LEMMA InvSegmentArrives ==
    ASSUME StreamInv, NEW n \in DOMAIN packets, SegmentArrives(n)
    PROVE  StreamInv' /\ out' = out /\ Hears(in, in')
<1>1. PICK ok \in BOOLEAN :
        /\ RecvSegment(n, packets[n], ok)
        /\ taken' = IF ok THEN taken \cup {n} ELSE taken
  BY DEF SegmentArrives
<1> DEFINE p == packets[n]
<1>2. /\ out' = out /\ packets' = packets /\ undecided' = undecided
      /\ takenBarriers' = takenBarriers /\ Arrives(n, taken) /\ UNCHANGED outVars
  BY DEF SegmentArrives, outVars
<1>3. n \in 1..Len(packets) /\ UNCHANGED <<barriers, barriersOpen>>
  BY <1>1 DEF StreamInv, OutInv, PacketInv, RecvSegment
<1>4. Got(in, p, ok, in') /\ InInv'
  BY <1>1, <1>3, ArrivalGets
<1>5. OutInv' /\ ToldInv'
  BY <1>2, Steps, ToldSteps DEF StreamInv
<1>6. SentInv'
  BY <1>2 DEF StreamInv, SentInv, Entry, Before
<1>7. /\ in.offset \in Nat /\ out.sendOffset \in Nat /\ p.hi \in Nat /\ p.hi <= out.sendOffset
      /\ in.barrier \in Nat /\ in'.barrier \in Nat /\ out.barrier \in Nat
      /\ Len(in.delivered) \in Nat /\ Len(in'.delivered) \in Nat
  <2>1. IsReceiver(in) /\ IsReceiver(in')
    BY <1>4 DEF StreamInv, InInv, Good
  <2>2. p.hi \in Nat /\ out.sendOffset \in Nat /\ out.barrier \in Nat
    BY <1>3, PacketFields, OutFields DEF StreamInv
  <2>3. p.hi <= out.sendOffset
    BY <1>3, <2>2 DEF StreamInv, SentInv, Entry
  <2> QED BY <2>1, <2>2, <2>3, ReceiverNumbers
<1>8. TakenInv'
  <2>1. taken' \subseteq 1..Len(packets) /\ taken \subseteq taken'
    BY <1>1, <1>3 DEF StreamInv, TakenInv
  <2>2. \A m \in taken' : packets[m].reset => in'.state # "CONNECTED"
    BY <1>1, <1>4 DEF StreamInv, TakenInv, Got
  <2>3. out.complete => in'.state # "CONNECTED" \/ out.shutdowner # "none"
    BY <1>4 DEF StreamInv, TakenInv, Got
  <2>4. p.eof => out.shutdowner # "none"
    BY <1>3 DEF StreamInv, SentInv, Entry
  <2>5. in'.state = "SHUTDOWN" \/ in'.told = "SHUTDOWN" => out.shutdowner # "none"
    BY <1>4, <2>4 DEF StreamInv, TakenInv, Got
  <2>6. in'.offset <= out.sendOffset /\ \A c \in in'.queue : c.hi <= out.sendOffset
    <3>1. in.offset <= out.sendOffset /\ \A c \in in.queue : c.hi <= out.sendOffset
      BY DEF StreamInv, TakenInv
    <3> QED BY <1>4, <1>7, <3>1 DEF Got
  <2>7. \A b \in out.confirmed : \E m \in taken' :
          ~packets[m].reset /\ packets[m].lo <= b /\ b < packets[m].hi
    BY <2>1 DEF StreamInv, TakenInv
  <2>8. Eager => Delivery(in') /\ Len(in'.delivered) <= out.sendOffset
    <3> SUFFICES ASSUME Eager PROVE Delivery(in') /\ Len(in'.delivered) <= out.sendOffset
      OBVIOUS
    <3>1. Delivery(in) /\ Len(in.delivered) <= out.sendOffset
      BY DEF StreamInv, TakenInv
    <3>2. /\ Delivery(in')
          /\ in'.delivered # in.delivered => Len(in'.delivered) <= p.hi
      BY <1>4, <3>1 DEF Got
    <3> QED BY <1>7, <3>1, <3>2
  <2>9. takenBarriers' \subseteq 1..Len(barriers')
    BY <1>2, <1>3 DEF StreamInv, TakenInv
  <2> QED BY <1>2, <2>1, <2>2, <2>3, <2>5, <2>6, <2>7, <2>8, <2>9 DEF TakenInv
<1>9. FlowInv'
  <2> SUFFICES ASSUME MayShutdown = FALSE
               PROVE  Heeds(out) /\ out.barrier <= in'.barrier /\ WithinBarrier'
    BY <1>2 DEF FlowInv
  <2>1. Heeds(out) /\ out.barrier <= in.barrier /\ WithinBarrier
    BY DEF StreamInv, FlowInv
  <2>2. in.barrier <= in'.barrier
    BY <1>4 DEF Got
  <2>3. \A m \in DOMAIN packets : packets[m].hi \in Nat
    <3>1. OutInv /\ DOMAIN packets = 1..Len(packets)
      BY DEF StreamInv, OutInv, PacketInv
    <3> QED BY <3>1, PacketFields
  <2> QED BY <1>2, <1>7, <2>1, <2>2, <2>3 DEF WithinBarrier
<1>10. OrderlyInv'
  BY <1>1, <1>2, <1>3, OrderlyArrives
<1>11. Hears(in, in')
  <2>1. Eager => Delivery(in) /\ Delivery(in')
    BY <1>8 DEF StreamInv, TakenInv
  <2>2. ASSUME in'.told = "SHUTDOWN", in.told # "SHUTDOWN"
        PROVE  in'.delivered = in.delivered /\ (Orderly => Len(in.delivered) = out.sendOffset)
    <3>1. /\ in'.state = "SHUTDOWN" /\ in'.ready = <<>> /\ ~in'.crashed
          /\ in'.delivered = in.delivered
      BY <1>4, <2>2 DEF Got
    <3>2. ASSUME Orderly PROVE Len(in.delivered) = out.sendOffset
      <4>1. Len(in'.delivered) = in'.offset
        BY <2>1, <3>1, <3>2, AllGiven DEF Orderly
      <4>2. in'.offset = out'.sendOffset
        BY <1>10, <3>1, <3>2 DEF OrderlyInv, Orderly, Resets
      <4> QED BY <1>2, <3>1, <4>1, <4>2
    <3> QED BY <3>1, <3>2
  <2> QED BY <1>4, <2>1, <2>2 DEF Hears, Got
<1> QED BY <1>2, <1>4, <1>5, <1>6, <1>8, <1>9, <1>10, <1>11 DEF StreamInv

-----------------------------------------------------------------------------
(***************************************************************************)
(* Every state of the stream is sound.                                       *)
(***************************************************************************)
LEMMA StreamStarts == StreamInit => StreamInv
<1> SUFFICES ASSUME StreamInit PROVE StreamInv
  OBVIOUS
<1>1. OutInit /\ InInit /\ taken = {} /\ takenBarriers = {}
  BY DEF StreamInit
<1>2. OutInv /\ InInv /\ Delivery(in)
  BY <1>1, StartsSound, InStarts
<1>3. ToldInv
  BY <1>1 DEF OutInit, ToldInv, Heard, Behind, Woken, amRTS, NoPull
<1>4. /\ out.state = "CONNECTED" /\ out.retransmit = {} /\ out.sendOffset = 0
      /\ out.barrier = MinimumWindow /\ ~out.rts /\ ~out.complete /\ ~out.pull.on
      /\ out.shutdowner = "none" /\ out.confirmed = {} /\ packets = <<>>
  BY <1>1 DEF OutInit, NoPull
<1>5. /\ in.state = "CONNECTED" /\ in.barrier = MinimumWindow /\ in.queue = {}
      /\ in.offset = 0 /\ in.delivered = <<>> /\ in.told = "none"
  BY <1>1 DEF InInit
<1>6. Len(packets) = 0 /\ 1..Len(packets) = {} /\ DOMAIN packets = {}
  BY <1>4
<1>7. SentInv
  BY <1>4, <1>6 DEF SentInv, Closed, Shutdowns
<1>8. TakenInv
  <2>1. Len(in.delivered) = 0
    BY <1>5
  <2> QED BY <1>1, <1>2, <1>4, <1>5, <2>1 DEF TakenInv
<1>9. FlowInv
  <2>1. MinimumWindow \in Nat
    BY SegmentsAssumption
  <2> QED BY <1>4, <1>5, <1>6, <2>1 DEF FlowInv, Heeds, WithinBarrier
<1>10. OrderlyInv
  BY <1>1, <1>5 DEF OrderlyInv
<1> QED BY <1>2, <1>3, <1>7, <1>8, <1>9, <1>10 DEF StreamInv

\* A step keeps the invariant, and it is the sender's or the reader's.
LEMMA StreamSteps ==
    ASSUME StreamInv, [StreamNext]_streamVars
    PROVE  /\ StreamInv'
           /\ \/ in' = in /\ Onward(out, out')
              \/ out' = out /\ Hears(in, in')
<1>1. CASE SenderRuns
  BY <1>1, InvSenderRuns DEF SenderRuns, inVars
<1>2. CASE ~out.pull.on /\ ReceiverRuns
  BY <1>2, InvReceiverRuns
<1>3. CASE ~out.pull.on /\ \E n \in DOMAIN packets : SegmentArrives(n)
  BY <1>3, InvSegmentArrives
<1>4. CASE ~out.pull.on /\ \E n \in undecided, ok \in BOOLEAN : SegmentDecided(n, ok)
  BY <1>4, InvSegmentDecided DEF SegmentDecided, inVars
<1>5. CASE ~out.pull.on /\ \E n \in DOMAIN barriers : BarrierArrives(n)
  BY <1>5, InvBarrierArrives DEF BarrierArrives, inVars
<1>6. CASE ~out.pull.on /\ \E n \in barriersOpen, ok \in BOOLEAN : BarrierDecided(n, ok)
  BY <1>6, InvBarrierDecided
<1>7. CASE UNCHANGED streamVars
  <2>1. /\ UNCHANGED <<outVars, inVars, netVars>> /\ in' = in /\ out' = out
    BY <1>7 DEF streamVars, outVars, inVars
  <2>2. Len(in.delivered) \in Nat /\ Len(barriers) \in Nat /\ barriers' = barriers
    BY <2>1, ReceiverNumbers DEF StreamInv, InInv, Good, BarrierInv, inVars
  <2>3. InInv' /\ Calms(in, in') /\ Len(barriers) <= Len(barriers')
    <3>1. InInv'
      BY <2>1 DEF StreamInv, InInv, BarrierInv, inVars
    <3>2. in.barrier \in Nat
      BY ReceiverNumbers DEF StreamInv, InInv, Good
    <3> QED BY <2>1, <2>2, <3>1, <3>2 DEF Calms
  <2> QED BY <2>1, <2>3, ReceiverStep
<1> QED BY <1>1, <1>2, <1>3, <1>4, <1>5, <1>6, <1>7 DEF StreamNext

\* The sender's queue, the reader's, what was sent and what arrived, what the
\* barrier admits, and the order of arrival, in every reachable state.
THEOREM StreamSound == StreamSpec => []StreamInv
<1>1. StreamInv /\ [StreamNext]_streamVars => StreamInv'
  BY StreamSteps
<1> QED BY <1>1, StreamStarts, PTL DEF StreamSpec

-----------------------------------------------------------------------------
(***************************************************************************)
(* What follows.                                                             *)
(***************************************************************************)

\* in-stream-queue.sml:211: HostDispatch never pulls a barrier out of a queue that was
\* unassigned or that has shut down.
THEOREM PullNeverUnsafe == StreamSpec => []PullIsSafe
<1>1. StreamInv => PullIsSafe
  BY DEF StreamInv, InInv, Good, IdGiven, IsReceiver, PullIsSafe
<1> QED BY <1>1, StreamSound, PTL

\* out-stream.sig:45: a sender that resets before it shuts down never makes the reader
\* hear of a regular end, and its queue is complete only when the reader's was reset.
THEOREM ResetNeverLost == StreamSpec => []ResetIsSeen
<1>1. StreamInv => ResetIsSeen
  <2> SUFFICES ASSUME StreamInv, out.state = "RESET", out.shutdowner = "none"
               PROVE  /\ in.told # "SHUTDOWN"
                      /\ out.complete => in.state \in {"RESET", "RESET_DOWN"} \/ in.crashed
    BY DEF ResetIsSeen
  <2>1. in.state \in InStates
    BY DEF StreamInv, InInv, Good, IsReceiver
  <2>2. in.told # "SHUTDOWN" /\ in.state # "SHUTDOWN"
    BY DEF StreamInv, TakenInv
  <2>3. out.complete => in.state # "CONNECTED"
    BY DEF StreamInv, TakenInv
  <2> QED BY <2>1, <2>2, <2>3 DEF InStates
<1> QED BY <1>1, StreamSound, PTL

\* in-stream-queue.sml:26: while a stream is not shut down, no segment of it ends beyond
\* what the reader would admit, however packets and barriers are lost or overtake
\* each other.  (A shutdown makes the sender ignore the barrier: out-stream-queue.sml:80.)
THEOREM BarrierHeeded ==
    ASSUME MayShutdown = FALSE
    PROVE  StreamSpec => []WithinBarrier
<1>1. StreamInv => WithinBarrier
  BY DEF StreamInv, FlowInv
<1> QED BY <1>1, StreamSound, PTL

\* out-stream.sig:26: on a channel that loses nothing, to a reader that reads at once, true
\* is told of a shutdown only when every byte arrived; segments fit the first window.
THEOREM TrueIsTrue ==
    ASSUME Net = "reliable", Eager = TRUE, MaxPayload <= MinimumWindow
    PROVE  StreamSpec => []TrueMeansDelivered
<1>1. StreamInv => TrueMeansDelivered
  <2> SUFFICES ASSUME StreamInv, out.shutdowner = "true",
                      in.state \notin Resets, ~in.crashed
               PROVE  in.offset = out.sendOffset
    BY DEF TrueMeansDelivered, Resets
  <2>1. in.offset \in Nat /\ out.sendOffset \in Nat /\ in.offset <= out.sendOffset
    BY ReceiverNumbers, OutFields DEF StreamInv, InInv, Good, TakenInv
  <2>2. out.confirmed = 0..(out.sendOffset - 1)
    BY DEF StreamInv, ToldInv, Heard
  <2>3. \A n \in taken : ~packets[n].reset => packets[n].hi <= in.offset /\ packets[n].hi \in Nat
    <3>1. \A n \in taken : packets[n].hi \in Nat
      BY PacketFields DEF StreamInv, TakenInv
    <3>2. \A n \in taken : ~packets[n].reset => packets[n].hi <= in.offset
      BY DEF StreamInv, OrderlyInv, Orderly
    <3> QED BY <3>1, <3>2
  <2>4. ASSUME in.offset < out.sendOffset PROVE FALSE
    <3>1. in.offset \in out.confirmed
      BY <2>1, <2>2, <2>4
    <3>2. PICK n \in taken : ~packets[n].reset /\ in.offset < packets[n].hi
      BY <3>1 DEF StreamInv, TakenInv
    <3> QED BY <2>1, <2>3, <3>2
  <2> QED BY <2>1, <2>4
<1> QED BY <1>1, StreamSound, PTL

LEMMA GivenAsWritten ==
    ASSUME Eager = TRUE, StreamInv
    PROVE  DeliveredIntact /\ DeliveredInOrder
<1>1. InOrder(in.delivered) /\ in.delivered \in Seq(Int)
  BY ReceiverNumbers DEF StreamInv, InInv, Good, TakenInv, Delivery
<1>2. DOMAIN in.delivered = 1..Len(in.delivered)
  BY <1>1
<1>3. \A i \in DOMAIN in.delivered : in.delivered[i] = i - 1 /\ i \in Nat /\ i > 0
  BY <1>1, <1>2 DEF InOrder
<1> QED BY <1>3 DEF DeliveredIntact, DeliveredInOrder, Overwritten

\* in-stream.sig:26: a reader that reads at once is given the bytes in the order they
\* were written, each once, whatever the network does.
THEOREM NothingReordered ==
    ASSUME Eager = TRUE
    PROVE  StreamSpec => []DeliveredInOrder
<1>1. StreamInv => DeliveredInOrder
  BY GivenAsWritten
<1> QED BY <1>1, StreamSound, PTL

\* in-stream.sig:27: it is given no byte that a later packet overwrote in the buffer.
THEOREM NothingOverwritten ==
    ASSUME Eager = TRUE
    PROVE  StreamSpec => []DeliveredIntact
<1>1. StreamInv => DeliveredIntact
  BY GivenAsWritten
<1> QED BY <1>1, StreamSound, PTL

-----------------------------------------------------------------------------
(***************************************************************************)
(* The stream implements ByteStream.                                         *)
(***************************************************************************)

\* A step of the sender writes, closes, drops what was not sent, or is not seen.
LEMMA SenderImplements ==
    ASSUME Eager = TRUE, StreamInv, StreamInv', in' = in, Onward(out, out')
    PROVE  [Abstract!Next]_(Abstract!vars)
<1> DEFINE w == out.sendOffset + out.buffer
           v == out'.sendOffset + out'.buffer
<1>1. /\ out.sendOffset \in Nat /\ out.buffer \in Nat /\ w \in Nat
      /\ out'.sendOffset \in Nat /\ out'.buffer \in Nat /\ v \in Nat
  <2>1. /\ out.sendOffset \in Nat /\ out.buffer \in Nat
        /\ out'.sendOffset \in Nat /\ out'.buffer \in Nat
    <3>1. OutInv
      BY DEF StreamInv
    <3>2. OutInv'
      BY DEF StreamInv
    <3>3. out'.sendOffset \in Nat /\ out'.buffer \in Nat
      BY <3>2, InvType DEF OutInv, QueueInv, Queue
    <3> QED BY <3>1, <3>3, OutFields
  <2> QED BY <2>1
<1>2. Len(in.delivered) \in Nat /\ Len(in.delivered) <= out.sendOffset
  BY ReceiverNumbers DEF StreamInv, InInv, Good, TakenInv
<1>3. CASE v = w /\ (out.shutdowner # "none" => out'.shutdowner # "none")
  <2>1. CASE out.shutdowner = "none" /\ out'.shutdowner # "none"
    BY <1>3, <2>1 DEF Abstract!Next, Abstract!Close
  <2>2. CASE out.shutdowner # "none" <=> out'.shutdowner # "none"
    BY <1>3, <2>2 DEF Abstract!vars
  <2> QED BY <1>3, <2>1, <2>2
<1>4. CASE v > w /\ out.shutdowner = "none" /\ out'.shutdowner = "none"
  BY <1>1, <1>4 DEF Abstract!Next, Abstract!Write
<1>5. CASE /\ out'.sendOffset = out.sendOffset /\ out'.buffer = 0
           /\ out.shutdowner = "none" <=> out'.shutdowner = "none"
  <2>1. CASE out.buffer = 0
    BY <1>5, <2>1 DEF Abstract!vars
  <2>2. CASE out.buffer # 0
    <3>1. v \in Len(in.delivered)..(w - 1)
      BY <1>1, <1>2, <1>5, <2>2
    <3> QED BY <1>5, <3>1 DEF Abstract!Next, Abstract!Abandon
  <2> QED BY <2>1, <2>2
<1> QED BY <1>3, <1>4, <1>5 DEF Onward, Wrote

\* A step of the reader's host gives bytes, tells the end, or is not seen.
LEMMA ReaderImplements ==
    ASSUME Eager = TRUE, MayShutdown = FALSE \/ Orderly,
           StreamInv, StreamInv', out' = out, Hears(in, in')
    PROVE  [Abstract!Next]_(Abstract!vars)
<1>1. /\ out.sendOffset \in Nat /\ out.buffer \in Nat
      /\ out.state # "CONNECTED" => out.buffer = 0
  BY OutFields DEF StreamInv
<1>2. /\ Len(in.delivered) \in Nat /\ Len(in'.delivered) \in Nat
      /\ in.delivered \in Seq(Int) /\ in'.delivered \in Seq(Int)
      /\ InOrder(in.delivered) /\ InOrder(in'.delivered)
      /\ Len(in'.delivered) <= out.sendOffset /\ Len(in.delivered) <= Len(in'.delivered)
  <2>1. IsReceiver(in) /\ IsReceiver(in')
    BY DEF StreamInv, InInv, Good
  <2> QED BY <2>1, ReceiverNumbers DEF StreamInv, TakenInv, Delivery, Hears
<1>3. CASE in.told = "SHUTDOWN" <=> in'.told = "SHUTDOWN"
  <2>1. CASE Len(in.delivered) = Len(in'.delivered)
    <3>1. in'.delivered = in.delivered
      BY <1>2, <2>1, SeqEqual DEF InOrder
    <3> QED BY <1>3, <3>1 DEF Abstract!vars
  <2>2. CASE Len(in.delivered) < Len(in'.delivered)
    <3>1. Len(in'.delivered) <= out.sendOffset + out.buffer
      BY <1>1, <1>2
    <3> QED BY <1>2, <1>3, <2>2, <3>1 DEF Abstract!Next, Abstract!Deliver, InOrder
  <2> QED BY <1>2, <2>1, <2>2
<1>4. CASE in.told # "SHUTDOWN" /\ in'.told = "SHUTDOWN"
  <2>1. out.shutdowner # "none"
    BY <1>4 DEF StreamInv, TakenInv
  <2>2. Orderly
    BY <2>1 DEF StreamInv, FlowInv, Heeds
  <2>3. in'.delivered = in.delivered /\ Len(in.delivered) = out.sendOffset
    BY <1>4, <2>2 DEF Hears
  <2>4. out.buffer = 0
    BY <1>1, <2>1 DEF StreamInv, SentInv, Closed
  <2>5. Len(in.delivered) = out.sendOffset + out.buffer
    BY <1>1, <2>3, <2>4
  <2> QED BY <1>4, <2>1, <2>3, <2>5 DEF Abstract!Next, Abstract!End
<1> QED BY <1>3, <1>4 DEF Hears

\* in-stream.sig:26-27, out-stream.sig:26: to a reader that reads at once, the stream is
\* the abstract ByteStream: the bytes come in order, each once, and the end is told
\* after the last of them.  A stream that is not shut down needs nothing more; for one
\* that is, segments fit the first window and the channel loses and reorders nothing.
THEOREM StreamImplements ==
    ASSUME Eager = TRUE, MayShutdown = FALSE \/ Orderly
    PROVE  StreamSpec => ImplementsByteStream
<1>1. StreamInit => Abstract!Init
  BY DEF StreamInit, OutInit, InInit, Abstract!Init
<1>2. StreamInv /\ StreamInv' /\ [StreamNext]_streamVars => [Abstract!Next]_(Abstract!vars)
  BY StreamSteps, SenderImplements, ReaderImplements
<1> QED BY <1>1, <1>2, StreamSound, PTL DEF StreamSpec, ImplementsByteStream, Abstract!Spec

-----------------------------------------------------------------------------
(***************************************************************************)
(* The ends never wait for each other.                                       *)
(***************************************************************************)

\* The sender knows the barrier x, or will: it is the first, or a packet of those held
\* says so, one that is under way or that arrived.
Known(x, held, q) ==
    x = MinimumWindow \/ \E n \in held : ~q[n].reset /\ q[n].barrier = x

\* What arrived is in the reader's queue, or was.
Arrived ==
    Live(in) => \A n \in taken : ~packets[n].reset =>
        \A b \in packets[n].lo..(packets[n].hi - 1) : Brought(in, b)
\* The barrier that the reader believes the sender has is one that the sender has or will
\* have; if it got lost, the reader asks to send it.
Tells == Live(in) => in.rts \/ Known(in.lastBarrier, barriersOpen \cup takenBarriers, barriers)
\* The sender's barrier is the greatest of those that arrived.
Obeys ==
    in.state = "CONNECTED" /\ out.state = "CONNECTED" =>
        MinimumWindow <= out.barrier /\ \A n \in takenBarriers : barriers[n].barrier <= out.barrier
\* On a reliable channel barriers arrive without gaps.
NoGaps == Net = "reliable" => \A m \in takenBarriers : 1..(m - 1) \subseteq takenBarriers

LiveInv == ReaderInv /\ Arrived /\ Tells /\ Obeys /\ NoGaps

LEMMA KnownStill ==
    ASSUME NEW x, NEW held, NEW q, NEW still, NEW r, Known(x, held, q),
           held \subseteq still, \A n \in held : r[n] = q[n]
    PROVE  Known(x, still, r)
BY DEF Known

LEMMA LiveStarts == StreamInit => LiveInv
<1> SUFFICES ASSUME StreamInit PROVE LiveInv
  OBVIOUS
<1>1. OutInit /\ InInit /\ taken = {} /\ takenBarriers = {}
  BY DEF StreamInit
<1>2. in.lastBarrier = MinimumWindow /\ out.barrier = MinimumWindow /\ MinimumWindow \in Nat
  BY <1>1, SegmentsAssumption DEF InInit, OutInit
<1> QED BY <1>1, <1>2, ReaderStarts DEF LiveInv, Arrived, Tells, Known, Obeys, NoGaps

\* The sender's own steps, and the fate of its packets, leave its barrier alone.
LEMMA SenderLives ==
    ASSUME StreamInv, LiveInv, UNCHANGED <<inVars, netVars>>, Longer,
           Onward(out, out'), out'.barrier = out.barrier
    PROVE  LiveInv'
<1>1. /\ in' = in /\ barriers' = barriers /\ barriersOpen' = barriersOpen
      /\ taken' = taken /\ takenBarriers' = takenBarriers
  BY DEF inVars, netVars
<1>2. ReaderInv'
  BY <1>1 DEF LiveInv, ReaderInv, Rising
<1>3. Arrived'
  <2>1. taken \subseteq 1..Len(packets)
    BY DEF StreamInv, TakenInv
  <2>2. \A n \in taken : packets'[n] = packets[n]
    BY <2>1 DEF Longer
  <2> QED BY <1>1, <2>2 DEF LiveInv, Arrived
<1>4. Tells' /\ NoGaps'
  BY <1>1 DEF LiveInv, Tells, NoGaps
<1>5. Obeys'
  BY <1>1 DEF LiveInv, Obeys, Onward
<1> QED BY <1>2, <1>3, <1>4, <1>5 DEF LiveInv

LEMMA LivesSenderRuns == ASSUME StreamInv, LiveInv, SenderRuns PROVE LiveInv'
<1>1. OutInv /\ Closed(out) /\ UNCHANGED <<inVars, netVars>>
  BY DEF StreamInv, SentInv, SenderRuns
<1>2. Onward(out, out')
  BY InvSenderRuns
<1> SUFFICES Longer /\ out'.barrier = out.barrier
  BY <1>1, <1>2, SenderLives
<1>3. CASE \E n \in Writes : Write(n)
  BY <1>1, <1>3, OnWrite, LongerSame DEF Calm
<1>4. CASE Shutdown
  BY <1>1, <1>4, OnShutdown, LongerSame DEF Calm
<1>5. CASE Reset
  BY <1>1, <1>5, OnReset, LongerSame DEF Calm
<1>6. CASE SetPriority
  BY <1>1, <1>6, OnSetPriority, LongerSame DEF Calm
<1>7. CASE PullReset
  BY <1>1, <1>7, OnPullReset, LongerAppend DEF Calm
<1>8. CASE PullBegin
  BY <1>1, <1>8, OnPullBegin, LongerSame DEF Pulls
<1>9. CASE PullSegment
  BY <1>1, <1>9, OnPullSegment, LongerSame DEF Pulls
<1>10. CASE PullEnd
  BY <1>1, <1>10, OnPullEnd, LongerAppend DEF Pulls
<1> QED BY <1>3, <1>4, <1>5, <1>6, <1>7, <1>8, <1>9, <1>10 DEF SenderRuns, Application, Pulling

LEMMA LivesSegmentDecided ==
    ASSUME StreamInv, LiveInv, NEW n \in undecided, NEW ok \in BOOLEAN, SegmentDecided(n, ok)
    PROVE  LiveInv'
<1>1. OutInv /\ Closed(out) /\ UNCHANGED <<inVars, netVars>> /\ Acks(n, ok)
  BY DEF StreamInv, SentInv, SegmentDecided
<1>2. Onward(out, out')
  BY InvSegmentDecided
<1> SUFFICES UNCHANGED packets /\ out'.barrier = out.barrier
  BY <1>1, <1>2, LongerSame, SenderLives
<1>3. CASE AckReset(n, ok)
  <2>1. packets[n].reset /\ n \in 1..Len(packets)
    BY <1>1, <1>3 DEF AckReset, OutInv, PacketInv
  <2>2. out.state = "RESET"
    BY <2>1 DEF StreamInv, SentInv, Entry
  <2> QED BY <1>1, <1>3, <2>2, OnAckReset
<1>4. CASE AckData(n, ok)
  BY <1>1, <1>4, OnAckData
<1> QED BY <1>1, <1>3, <1>4 DEF Acks

\* The reader's own steps, and the fate of its packets, forget no byte.
LEMMA ReaderLives ==
    ASSUME StreamInv, LiveInv, ReaderInv', UNCHANGED <<outVars, netVars>>,
           in'.state = "CONNECTED" => in.state = "CONNECTED",
           Live(in') => Live(in) /\ \A b \in Nat : Brought(in, b) => Brought(in', b),
           \A n \in 1..Len(barriers) : barriers'[n] = barriers[n],
           Live(in') => in'.rts \/ Known(in'.lastBarrier, barriersOpen' \cup takenBarriers, barriers')
    PROVE  LiveInv'
<1>1. /\ out' = out /\ packets' = packets /\ taken' = taken /\ takenBarriers' = takenBarriers
      /\ taken \subseteq 1..Len(packets) /\ takenBarriers \subseteq 1..Len(barriers)
  BY DEF outVars, netVars, StreamInv, TakenInv
<1>2. Arrived'
  <2>1. SUFFICES ASSUME Live(in'), NEW n \in taken, ~packets[n].reset,
                        NEW b \in packets[n].lo..(packets[n].hi - 1)
                 PROVE  Brought(in', b)
    BY <1>1 DEF Arrived
  <2>2. b \in Nat
    <3>1. n \in 1..Len(packets) /\ OutInv
      BY <1>1 DEF StreamInv
    <3>2. packets[n].lo \in Nat /\ packets[n].hi \in Nat
      BY <3>1, PacketFields
    <3> QED BY <3>2
  <2>3. Brought(in, b)
    BY <2>1 DEF LiveInv, Arrived
  <2> QED BY <2>1, <2>2, <2>3
<1>3. Tells'
  BY <1>1 DEF Tells
<1>4. Obeys'
  BY <1>1 DEF LiveInv, Obeys
<1>5. NoGaps'
  BY <1>1 DEF LiveInv, NoGaps
<1> QED BY <1>2, <1>3, <1>4, <1>5 DEF LiveInv

\* A reader that keeps its books, and tells nothing, asks as it did.
LEMMA KeepsLives ==
    ASSUME StreamInv, LiveInv, ReaderInv', InInv', Keeps(in, in'), in.barrier <= in'.barrier,
           in'.state = "CONNECTED" => in.state = "CONNECTED",
           UNCHANGED <<outVars, netVars, barriers, barriersOpen>>
    PROVE  LiveInv'
<1>1. Live(in') => /\ Live(in) /\ in'.lastBarrier = in.lastBarrier
                   /\ \A b \in Nat : Brought(in, b) => Brought(in', b)
  BY DEF Keeps, Admits
<1>2. Live(in') => (in.rts => in'.rts)
  <2> SUFFICES ASSUME Live(in') PROVE in.rts => in'.rts
    OBVIOUS
  <2>1. Live(in)' => Books(in)'
    BY DEF ReaderInv
  <2>2. Books(in) /\ Books(in')
    BY <1>1, <2>1 DEF LiveInv, ReaderInv
  <2>3. IsReceiver(in)
    BY DEF StreamInv, InInv, Good
  <2>4. IsReceiver(in')
    BY DEF InInv, Good
  <2> QED BY <1>1, <2>2, <2>3, <2>4, AsksStill
<1>3. Live(in') => in'.rts \/ Known(in'.lastBarrier, barriersOpen' \cup takenBarriers, barriers')
  BY <1>1, <1>2 DEF LiveInv, Tells
<1> QED BY <1>1, <1>3, ReaderLives

LEMMA LivesReceiverRuns == ASSUME StreamInv, LiveInv, ReceiverRuns PROVE LiveInv'
<1>1. InInv /\ ReaderInv /\ UNCHANGED <<outVars, netVars>> /\ Len(barriers) \in Nat
  BY DEF StreamInv, LiveInv, ReceiverRuns, InInv, BarrierInv
<1>2. ASSUME NEW size \in ReadSizes, Read(size) PROVE LiveInv'
  <2>1. UNCHANGED <<barriers, barriersOpen>>
    BY <1>2 DEF Read
  <2>2. InInv' /\ in'.state = in.state /\ in.barrier <= in'.barrier
    BY <1>1, <1>2, StepRead
  <2>3. ReaderInv' /\ Keeps(in, in')
    BY <1>1, <1>2, LiveRead
  <2> QED BY <1>1, <2>1, <2>2, <2>3, KeepsLives
<1>3. CASE ResetReader
  <2>1. UNCHANGED <<barriers, barriersOpen>>
    BY <1>3 DEF ResetReader
  <2>2. in'.state # "CONNECTED"
    BY <1>1, <1>3, StepResetReader DEF Resets
  <2>3. ReaderInv' /\ ~Live(in')
    BY <1>1, <1>3, LiveResetReader
  <2> QED BY <1>1, <2>1, <2>2, <2>3, ReaderLives
<1>4. CASE OtherTraffic
  <2>1. InInv' /\ Same(in, in') /\ UNCHANGED <<barriers, barriersOpen>>
    BY <1>1, <1>4, StepOtherTraffic
  <2>2. ReaderInv' /\ Keeps(in, in')
    BY <1>1, <1>4, LiveOtherTraffic
  <2> QED BY <1>1, <2>1, <2>2, KeepsLives DEF Same, Stays
<1>5. CASE PullBarrier
  <2> DEFINE k == Len(barriers) + 1
  <2>1. in'.state = in.state
    BY <1>1, <1>5, StepPullBarrier DEF Same
  <2>2. /\ ReaderInv' /\ \A n \in 1..Len(barriers) : barriers'[n] = barriers[n]
        /\ barriersOpen' = barriersOpen \cup {k}
        /\ Live(in') => /\ Live(in) /\ ~barriers'[k].reset /\ in'.lastBarrier = barriers'[k].barrier
                        /\ \A b \in Nat : Brought(in, b) => Brought(in', b)
    BY <1>1, <1>5, LivePullBarrier
  <2>3. Live(in') => Known(in'.lastBarrier, barriersOpen' \cup takenBarriers, barriers')
    BY <2>2 DEF Known
  <2> QED BY <1>1, <2>1, <2>2, <2>3, ReaderLives
<1> QED BY <1>2, <1>3, <1>4, <1>5 DEF ReceiverRuns

LEMMA LivesBarrierDecided ==
    ASSUME StreamInv, LiveInv, NEW n \in barriersOpen, NEW ok \in BOOLEAN, BarrierDecided(n, ok)
    PROVE  LiveInv'
<1>1. /\ InInv /\ ReaderInv /\ UNCHANGED <<outVars, netVars>> /\ AckBarrier(n, ok)
      /\ ok => n \in takenBarriers
  BY DEF StreamInv, LiveInv, BarrierDecided
<1>2. in'.state = in.state
  BY <1>1, StepAckBarrier DEF Same
<1>3. /\ ReaderInv' /\ UNCHANGED barriers /\ barriersOpen' = barriersOpen \ {n}
      /\ Live(in') => /\ Live(in) /\ \A b \in Nat : Brought(in, b) => Brought(in', b)
                      /\ \/ /\ in'.lastBarrier = in.lastBarrier
                            /\ ok \/ in.lastBarrier # barriers[n].barrier
                            /\ in.rts => in'.rts
                         \/ in'.rts
  BY <1>1, LiveAckBarrier
<1>4. ASSUME Live(in'), ~in'.rts
      PROVE  Known(in'.lastBarrier, barriersOpen' \cup takenBarriers, barriers')
  <2>1. /\ in'.lastBarrier = in.lastBarrier /\ (ok \/ in.lastBarrier # barriers[n].barrier)
        /\ Known(in.lastBarrier, barriersOpen \cup takenBarriers, barriers)
    BY <1>3, <1>4 DEF LiveInv, Tells
  <2>2. CASE in.lastBarrier = MinimumWindow
    BY <2>1, <2>2 DEF Known
  <2>3. CASE in.lastBarrier # MinimumWindow
    <3>1. PICK m \in barriersOpen \cup takenBarriers :
            ~barriers[m].reset /\ barriers[m].barrier = in.lastBarrier
      BY <2>1, <2>3 DEF Known
    <3>2. m \in barriersOpen' \cup takenBarriers
      BY <1>1, <1>3, <2>1, <3>1
    <3> QED BY <1>3, <2>1, <3>1, <3>2 DEF Known
  <2> QED BY <2>2, <2>3
<1> QED BY <1>1, <1>2, <1>3, <1>4, ReaderLives

LEMMA LivesSegmentArrives ==
    ASSUME StreamInv, LiveInv, NEW n \in DOMAIN packets, SegmentArrives(n)
    PROVE  LiveInv'
<1>1. PICK ok \in BOOLEAN :
        /\ RecvSegment(n, packets[n], ok)
        /\ taken' = IF ok THEN taken \cup {n} ELSE taken
  BY DEF SegmentArrives
<1>2. /\ out' = out /\ packets' = packets /\ takenBarriers' = takenBarriers
      /\ UNCHANGED <<barriers, barriersOpen>>
  BY <1>1 DEF SegmentArrives, outVars, RecvSegment
<1>3. n \in 1..Len(packets) /\ taken \subseteq 1..Len(packets) /\ OutInv
  BY DEF StreamInv, OutInv, PacketInv, TakenInv
<1>4. Got(in, packets[n], ok, in') /\ InInv'
  BY <1>1, <1>3, ArrivalGets
<1>5. /\ Live(in') => Live(in) /\ Admits(in, 0, 0, in')
      /\ Live(in') /\ ok /\ ~packets[n].reset => Admits(in, packets[n].lo, packets[n].hi, in')
      /\ in'.state = "CONNECTED" => in.state = "CONNECTED"
      /\ in.barrier <= in'.barrier
  BY <1>4 DEF Got
<1>6. ReaderInv'
  BY <1>2, <1>5, ReaderKept DEF LiveInv, Admits
<1>7. Arrived'
  <2>1. SUFFICES ASSUME Live(in'), NEW m \in taken', ~packets[m].reset,
                        NEW b \in packets[m].lo..(packets[m].hi - 1)
                 PROVE  Brought(in', b)
    BY <1>2 DEF Arrived
  <2>2. m \in 1..Len(packets)
    BY <1>1, <1>3, <2>1
  <2>3. b \in Nat /\ packets[m].lo <= b /\ b < packets[m].hi
    <3>1. packets[m].lo \in Nat /\ packets[m].hi \in Nat
      BY <1>3, <2>2, PacketFields
    <3> QED BY <3>1
  <2>4. CASE m \in taken
    <3>1. Brought(in, b)
      BY <1>5, <2>1, <2>4 DEF LiveInv, Arrived
    <3> QED BY <1>5, <2>1, <2>3, <3>1 DEF Admits
  <2>5. CASE m \notin taken
    <3>1. m = n /\ ok
      BY <1>1, <2>5
    <3>2. Admits(in, packets[m].lo, packets[m].hi, in')
      BY <1>5, <2>1, <3>1
    <3> QED BY <2>3, <3>2 DEF Admits
  <2> QED BY <2>4, <2>5
<1>8. Tells'
  <2>1. SUFFICES ASSUME Live(in'), ~in'.rts
                 PROVE  Known(in'.lastBarrier, barriersOpen \cup takenBarriers, barriers)
    BY <1>2 DEF Tells
  <2>2. Live(in)' => Books(in)'
    BY <1>6 DEF ReaderInv
  <2>3. Live(in) /\ Books(in) /\ Books(in') /\ in'.lastBarrier = in.lastBarrier
    BY <1>5, <2>1, <2>2 DEF LiveInv, ReaderInv, Admits
  <2>4. IsReceiver(in)
    BY DEF StreamInv, InInv, Good
  <2>5. IsReceiver(in')
    BY <1>4 DEF Got, Good
  <2>6. ~in.rts
    BY <1>5, <2>1, <2>3, <2>4, <2>5, AsksStill
  <2> QED BY <2>3, <2>6 DEF LiveInv, Tells
<1>9. Obeys' /\ NoGaps'
  BY <1>2, <1>5 DEF LiveInv, Obeys, NoGaps
<1> QED BY <1>6, <1>7, <1>8, <1>9 DEF LiveInv

\* Unless barriers overtake each other, one that arrives is the greatest so far.
LEMMA ArrivesLast ==
    ASSUME StreamInv, LiveInv, Net # "any", NEW n \in 1..Len(barriers), Arrives(n, takenBarriers)
    PROVE  /\ \A m \in takenBarriers : m \in 1..n
           /\ Net = "reliable" => 1..(n - 1) \subseteq takenBarriers
<1>1. takenBarriers \subseteq 1..Len(barriers) /\ Len(barriers) \in Nat
  BY DEF StreamInv, TakenInv, InInv, BarrierInv
<1>2. n \notin takenBarriers
  BY DEF Arrives
<1>3. CASE Net = "reliable"
  <2>1. 1..(n - 1) \subseteq takenBarriers
    BY <1>3 DEF Arrives
  <2>2. ASSUME NEW m \in takenBarriers, m > n PROVE FALSE
    <3>1. 1..(m - 1) \subseteq takenBarriers
      BY <1>3 DEF LiveInv, NoGaps
    <3>2. n \in 1..(m - 1)
      BY <1>1, <2>2
    <3> QED BY <1>2, <3>1, <3>2
  <2> QED BY <1>1, <2>1, <2>2
<1>4. CASE Net = "ordered"
  <2>1. \A m \in takenBarriers : m < n
    BY <1>4 DEF Arrives
  <2> QED BY <1>1, <1>4, <2>1
<1> QED BY <1>3, <1>4, StreamAssumption

LEMMA LivesBarrierArrives ==
    ASSUME StreamInv, LiveInv, Net # "any", ~out.pull.on,
           NEW n \in DOMAIN barriers, BarrierArrives(n)
    PROVE  LiveInv'
<1>1. /\ OutInv /\ Closed(out) /\ UNCHANGED <<inVars, taken>>
      /\ takenBarriers' = takenBarriers \cup {n} /\ Arrives(n, takenBarriers)
  BY DEF StreamInv, SentInv, BarrierArrives
<1>2. /\ in' = in /\ barriers' = barriers /\ barriersOpen' = barriersOpen /\ taken' = taken
      /\ packets' = packets
  BY <1>1 DEF inVars, BarrierArrives, outVars, RecvReaderResets, RecvBarrier
<1>3. n \in 1..Len(barriers) /\ Len(barriers) \in Nat /\ takenBarriers \subseteq 1..Len(barriers)
      /\ barriers[n] \in Record
      /\ IF barriers[n].reset THEN in.state \in Resets ELSE barriers[n].barrier <= in.barrier
  <2>1. barriers \in Seq(Record) /\ takenBarriers \subseteq 1..Len(barriers)
    BY DEF StreamInv, InInv, BarrierInv, TakenInv
  <2>2. n \in 1..Len(barriers)
    BY <2>1
  <2>3. barriers[n] \in Record
    BY <2>1, <2>2, ElementOfSeq
  <2> QED BY <2>1, <2>2, <2>3 DEF StreamInv, InInv, BarrierInv
<1>4. /\ \A m \in takenBarriers : m \in 1..n
      /\ Net = "reliable" => 1..(n - 1) \subseteq takenBarriers
  BY <1>1, <1>3, ArrivesLast
<1>5. ReaderInv' /\ Arrived'
  BY <1>2 DEF LiveInv, ReaderInv, Rising, Arrived
<1>6. Tells'
  <2>1. SUFFICES ASSUME Live(in), ~in.rts
                 PROVE  Known(in.lastBarrier, barriersOpen \cup takenBarriers', barriers)
    BY <1>2 DEF Tells
  <2>2. Known(in.lastBarrier, barriersOpen \cup takenBarriers, barriers)
    BY <2>1 DEF LiveInv, Tells
  <2>3. barriersOpen \cup takenBarriers \subseteq barriersOpen \cup takenBarriers'
    BY <1>1
  <2> QED BY <2>2, <2>3, KnownStill
<1>7. NoGaps'
  BY <1>1, <1>2, <1>4 DEF LiveInv, NoGaps
<1>8. Obeys'
  <2>1. SUFFICES ASSUME in.state = "CONNECTED", out'.state = "CONNECTED"
                 PROVE  /\ MinimumWindow <= out'.barrier
                        /\ \A m \in takenBarriers' : barriers[m].barrier <= out'.barrier
    BY <1>2 DEF Obeys
  <2>2. Onward(out, out')
    BY InvBarrierArrives
  <2>3. out.state = "CONNECTED" /\ ~out.complete /\ ~barriers[n].reset
    BY <1>1, <1>3, <2>1, <2>2 DEF Onward, Closed, StreamInv, TakenInv, Resets
  <2>4. RecvBarrier(barriers[n].barrier)
    BY <2>3 DEF BarrierArrives
  <2>5. out'.barrier = barriers[n].barrier /\ barriers[n].barrier \in Nat
    <3>1. barriers[n].barrier \in Nat
      BY <1>3 DEF Record
    <3> QED BY <1>1, <2>4, <3>1, OnRecvBarrier
  <2>6. /\ MinimumWindow <= barriers[n].barrier
        /\ \A m \in 1..n : ~barriers[m].reset => barriers[m].barrier <= barriers[n].barrier
    BY <1>3, <2>3 DEF LiveInv, ReaderInv, Rising
  <2>7. ASSUME NEW m \in takenBarriers' PROVE barriers[m].barrier <= barriers[n].barrier
    <3>1. m \in 1..n /\ m \in 1..Len(barriers)
      BY <1>1, <1>3, <1>4
    <3>2. ~barriers[m].reset
      BY <2>1, <3>1 DEF StreamInv, InInv, BarrierInv, Resets
    <3> QED BY <2>6, <3>1, <3>2
  <2> QED BY <2>5, <2>6, <2>7
<1> QED BY <1>5, <1>6, <1>7, <1>8 DEF LiveInv

LEMMA LivesStep ==
    ASSUME Net # "any", StreamInv, LiveInv, [StreamNext]_streamVars
    PROVE  LiveInv'
<1>1. CASE SenderRuns
  BY <1>1, LivesSenderRuns
<1>2. CASE ~out.pull.on /\ ReceiverRuns
  BY <1>2, LivesReceiverRuns
<1>3. CASE ~out.pull.on /\ \E n \in DOMAIN packets : SegmentArrives(n)
  BY <1>3, LivesSegmentArrives
<1>4. CASE ~out.pull.on /\ \E n \in undecided, ok \in BOOLEAN : SegmentDecided(n, ok)
  BY <1>4, LivesSegmentDecided
<1>5. CASE ~out.pull.on /\ \E n \in DOMAIN barriers : BarrierArrives(n)
  BY <1>5, LivesBarrierArrives
<1>6. CASE ~out.pull.on /\ \E n \in barriersOpen, ok \in BOOLEAN : BarrierDecided(n, ok)
  BY <1>6, LivesBarrierDecided
<1>7. CASE UNCHANGED streamVars
  BY <1>7 DEF streamVars, outVars, inVars, netVars, LiveInv, ReaderInv, Rising, Arrived,
              Tells, Obeys, NoGaps
<1> QED BY <1>1, <1>2, <1>3, <1>4, <1>5, <1>6, <1>7 DEF StreamNext

\* All below x arrived, if none of it waits to be sent or is under way.
LEMMA AllBrought ==
    ASSUME StreamInv, LiveInv, Live(in), undecided = {}, ~out.pull.on, out.state = "CONNECTED",
           NEW x \in Nat, x <= out.sendOffset, \A t \in out.retransmit : x <= t.lo
    PROVE  x <= in.offset
<1>1. /\ OutInv /\ out.sendOffset \in Nat /\ out.retransmit \in SUBSET Segment
      /\ Found(out) /\ Taken(out) /\ PacketInv
  BY OutFields DEF StreamInv, OutInv, QueueInv, DataInv, Queue
<1>2. in.offset \in Nat /\ in.queue \subseteq Waiting
  BY ReceiverNumbers DEF StreamInv, InInv, Good, IsReceiver
<1>3. Holds(out) = out.retransmit
  <2>1. out.inflight = {}
    BY <1>1 DEF PacketInv
  <2>2. out.pull.segments = {}
    BY <1>1 DEF Taken, NoPull
  <2> QED BY <2>1, <2>2 DEF Holds
<1> SUFFICES ASSUME in.offset < x PROVE FALSE
  BY <1>2
<1>4. in.offset \in 0..(out.sendOffset - 1)
  BY <1>1, <1>2
<1>5. in.offset \notin Bytes(Holds(out))
  <2>1. SUFFICES ASSUME NEW t \in out.retransmit, t.lo <= in.offset PROVE FALSE
    BY <1>3 DEF Bytes
  <2>2. t.lo \in Nat /\ x <= t.lo
    BY <1>1, SegmentFields, SegmentsAssumption
  <2> QED BY <1>2, <2>1, <2>2
<1>6. in.offset \in out.confirmed
  BY <1>1, <1>4, <1>5 DEF Found
<1>7. PICK n \in taken : ~packets[n].reset /\ packets[n].lo <= in.offset /\ in.offset < packets[n].hi
  BY <1>6 DEF StreamInv, TakenInv
<1>8. in.offset \in packets[n].lo..(packets[n].hi - 1)
  <2>1. n \in 1..Len(packets)
    BY DEF StreamInv, TakenInv
  <2>2. packets[n].lo \in Nat /\ packets[n].hi \in Nat
    BY <1>1, <2>1, PacketFields
  <2> QED BY <1>2, <1>7, <2>2
<1>9. Brought(in, in.offset)
  BY <1>7, <1>8 DEF LiveInv, Arrived
<1>10. PICK c \in in.queue : c.lo <= in.offset
  BY <1>2, <1>9 DEF Brought
<1>11. in.offset < c.lo /\ c.lo \in Nat
  <2>1. c \in Waiting
    BY <1>2
  <2>2. c.lo \in Nat
    BY <2>1, SegmentsAssumption DEF Waiting
  <2> QED BY <2>2 DEF LiveInv, ReaderInv, Books
<1> QED BY <1>2, <1>10, <1>11

LEMMA NobodyWaits ==
    ASSUME BarrierIncrement + SillyWindow <= MinimumWindow, StreamInv, LiveInv
    PROVE  NeverStuck
<1> SUFFICES ASSUME Quiet, out.state = "CONNECTED", in.state = "CONNECTED",
                    ~in.crashed, in.ready = <<>>
             PROVE  out.buffer = 0 /\ in.offset = out.sendOffset
  BY DEF NeverStuck
<1>1. /\ undecided = {} /\ barriersOpen = {} /\ ~out.pull.on /\ ~out.rts /\ ~in.rts
  BY DEF Quiet
<1>2. /\ OutInv /\ out.sendOffset \in Nat /\ out.buffer \in Nat /\ out.barrier \in Nat
      /\ out.retransmit \in SUBSET Segment /\ Sorted(out)
      /\ Behind(out) /\ (Woken(out) \/ ResetUndecided)
  BY OutFields DEF StreamInv, OutInv, QueueInv, DataInv, Queue, ToldInv
<1>3. /\ Good(in) /\ IsReceiver(in) /\ in.offset \in Nat /\ in.barrier \in Nat
      /\ in.lastBarrier \in Nat /\ in.readyBytes \in Int /\ in.window \in Nat
      /\ in.offset <= out.sendOffset
  BY ReceiverNumbers DEF StreamInv, InInv, Good, IsReceiver, TakenInv
<1>4. Live(in) /\ Books(in)
  BY DEF Live, LiveInv, ReaderInv
<1>5. ~out.complete
  BY DEF StreamInv, TakenInv, SentInv, Closed
<1>6. ~amRTS(out)
  BY <1>1, <1>2, <1>5 DEF Woken, ResetUndecided
<1>7. CASE out.retransmit = {}
  <2>1. out.sendOffset <= in.offset
    BY <1>1, <1>2, <1>4, <1>7, AllBrought
  <2> QED BY <1>2, <1>3, <1>7, <2>1 DEF Behind
<1>8. CASE out.retransmit # {}
  <2> DEFINE f == First(out.retransmit)
  <2>1. f \in out.retransmit /\ \A t \in out.retransmit : f.lo <= t.lo
    BY <1>2, <1>8, FirstIsLeast
  <2>2. f.lo \in Nat /\ f.hi \in Nat /\ f.lo < f.hi
    BY <1>2, <2>1, SegmentFields, SegmentsAssumption
  <2>3. f.lo <= out.sendOffset
    <3>1. f.hi <= out.sendOffset
      BY <1>2, <2>1 DEF Sorted, Holds
    <3> QED BY <1>2, <2>2, <3>1
  <2>4. ~(f.lo < out.barrier - SillyWindow)
    BY <1>6, <1>8 DEF amRTS
  <2> HIDE DEF f
  <2>5. f.lo <= in.offset
    BY <1>1, <1>4, <2>1, <2>2, <2>3, AllBrought
  <2>6. in.readyBytes = 0
    BY <1>3, <1>4, CountedNone DEF Books
  <2>7. in.offset + MinimumWindow <= in.barrier
    <3>1. MinimumWindow <= in.window /\ in.offset - in.readyBytes + in.window <= in.barrier
      BY <1>3 DEF Good, HasWindow, Spare
    <3> QED BY <1>3, <2>6, <3>1, SegmentsAssumption
  <2>8. ~(in.barrier - in.lastBarrier >= BarrierIncrement)
    BY <1>1, <1>4 DEF Books, Asks
  <2>9. in.lastBarrier <= out.barrier
    <3>1. Known(in.lastBarrier, barriersOpen \cup takenBarriers, barriers)
      BY <1>1, <1>4 DEF LiveInv, Tells
    <3>2. MinimumWindow <= out.barrier /\ \A n \in takenBarriers : barriers[n].barrier <= out.barrier
      BY DEF LiveInv, Obeys
    <3> QED BY <1>1, <3>1, <3>2 DEF Known
  <2> QED BY <1>2, <1>3, <2>2, <2>4, <2>5, <2>7, <2>8, <2>9,
             SegmentsAssumption, InStreamAssumption, OutStreamAssumption
<1> QED BY <1>7, <1>8

\* in-stream-queue.sml:29-35, out-stream-queue.sml:85: when no packet is under way, neither
\* end asks to send, and the reader has read what is ready, all that was written arrived:
\* the reader never waits for data that the sender keeps back for want of a barrier that
\* the reader does not tell.  The channel may lose packets but not reorder them, and the
\* window leaves room for an increment of the barrier and the silly window.
THEOREM NothingStuck ==
    ASSUME Net # "any", BarrierIncrement + SillyWindow <= MinimumWindow
    PROVE  StreamSpec => []NeverStuck
<1>1. StreamSpec => [](StreamInv /\ LiveInv)
  <2>1. StreamInit => StreamInv /\ LiveInv
    BY StreamStarts, LiveStarts
  <2>2. (StreamInv /\ LiveInv) /\ [StreamNext]_streamVars => (StreamInv /\ LiveInv)'
    BY StreamSteps, LivesStep
  <2> QED BY <2>1, <2>2, PTL DEF StreamSpec
<1>2. StreamInv /\ LiveInv => NeverStuck
  BY NobodyWaits
<1> QED BY <1>1, <1>2, PTL
=============================================================================
