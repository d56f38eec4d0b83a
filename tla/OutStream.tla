------------------------------ MODULE OutStream ------------------------------
(***************************************************************************)
(* The sending end of a stream: cusp/stream/out-stream-queue.sml.            *)
(*                                                                          *)
(* The queue holds one pending write (buffer), the segments that wait to be  *)
(* sent or sent again (retransmit) and those sent whose fate is open         *)
(* (inflight).  The channel calls pull to fill a packet, and later the       *)
(* closure that pull returned, once, with the fate of that packet.           *)
(*                                                                          *)
(* The application runs inside the queue: makeProgress calls back READY.     *)
(* Everywhere but in pull this is the last thing a call does, so the         *)
(* application's answer is an action of its own.  Pull goes on afterwards:   *)
(* it is the sequence PullBegin, PullSegment..., PullEnd, between which only *)
(* the application acts, and only if it was called back.                     *)
(***************************************************************************)
EXTENDS Segments

CONSTANTS
    MaxPackets,      \* bound of the model: how often the stream is pulled
    MaxPayload,      \* stream bytes that fit in a packet
    SillyWindow,     \* 2048: closer to the barrier no segment is begun
    Writes,          \* lengths of the buffers the application writes
    MayShutdown,     \* does the application shut the stream down?
    MayReset,        \* does the application reset the stream ...
    ResetInCallback  \* ... even from READY, in the middle of a pull?

ASSUME OutStreamAssumption ==
    /\ MaxPackets \in Nat
    /\ MaxPayload \in Nat \ {0}
    /\ SillyWindow \in Nat /\ MaxPayload <= SillyWindow + 1
    /\ Writes \subseteq Nat \ {0}
    /\ {MayShutdown, MayReset, ResetInCallback} \subseteq BOOLEAN

VARIABLES
    out,        \* the fields of the queue
    packets,    \* what each pull put in its packet, in order
    undecided   \* the pulls whose ack closure was not called yet

outVars == <<out, packets, undecided>>

OutStates == {"CONNECTED", "RESET",
              "SHUTDOWN_RETRANSMIT", "SHUTDOWN_INFLIGHT", "SHUTDOWN_ACKD"}
Shutdowns == OutStates \ {"CONNECTED", "RESET"}

\* A pull in progress: it has taken segments, which hold the bytes lo..hi-1.
Pull == [on : BOOLEAN, lo : 0..MaxBytes, hi : 0..MaxBytes,
         segments : SUBSET Segment, callback : BOOLEAN]
NoPull == [on |-> FALSE, lo |-> 0, hi |-> 0, segments |-> {}, callback |-> FALSE]

OutInit ==
    /\ out = [state |-> "CONNECTED",
              inflight |-> {}, inflightBytes |-> 0,
              retransmit |-> {}, retransmitBytes |-> 0,
              bytesSent |-> 0, sendOffset |-> 0,
              barrier |-> MinimumWindow,
              buffer |-> 0,             \* length of the pending write
              rts |-> FALSE,            \* the last RTS told to HostDispatch
              complete |-> FALSE,       \* told BECAME_COMPLETE
              shutdowner |-> "none",    \* what the shutdown callback was told
              pull |-> NoPull,
              confirmed |-> {}]         \* history: bytes acked
    /\ packets = <<>>
    /\ undecided = {}

-----------------------------------------------------------------------------
\* Mutant: a segment may begin up to the barrier.
amRTSToBarrier(s) ==
    \/ s.state \in {"RESET", "SHUTDOWN_RETRANSMIT"}
    \/ s.retransmit # {} /\ First(s.retransmit).lo <= s.barrier

amRTS(s) ==
    \/ s.state \in {"RESET", "SHUTDOWN_RETRANSMIT"}
    \/ s.retransmit # {} /\ First(s.retransmit).lo < s.barrier - SillyWindow

updateRTS(s) == [s EXCEPT !.rts = amRTS(s)]

\* Does makeProgress move the pending write to the heap, and call back READY?
Progresses(s) == s.retransmit = {} /\ s.buffer > 0

\* Mutant: HostDispatch is told only of new segments.
makeProgressSilent(s) ==
    IF Progresses(s)
    THEN updateRTS([s EXCEPT
            !.retransmit = {[lo |-> s.sendOffset, hi |-> s.sendOffset + s.buffer]},
            !.retransmitBytes = @ + s.buffer,
            !.sendOffset = @ + s.buffer,
            !.buffer = 0])
    ELSE s

makeProgress(s) ==
    IF Progresses(s)
    THEN updateRTS([s EXCEPT
            !.retransmit = {[lo |-> s.sendOffset, hi |-> s.sendOffset + s.buffer]},
            !.retransmitBytes = @ + s.buffer,
            !.sendOffset = @ + s.buffer,
            !.buffer = 0])
    ELSE IF s.retransmit # {} THEN updateRTS(s) ELSE s

\* Mutants: a field is not reset, or one too many is.
doResetKeepsBuffer(s) ==
    [s EXCEPT !.state = "RESET", !.retransmit = {}, !.retransmitBytes = 0,
              !.shutdowner = IF @ = "pending" THEN "false" ELSE @]
doResetKeepsCount(s) ==
    [s EXCEPT !.state = "RESET", !.retransmit = {}, !.buffer = 0,
              !.shutdowner = IF @ = "pending" THEN "false" ELSE @]
doResetInflight(s) ==
    [s EXCEPT !.state = "RESET", !.inflightBytes = 0,
              !.retransmit = {}, !.retransmitBytes = 0, !.buffer = 0,
              !.shutdowner = IF @ = "pending" THEN "false" ELSE @]

doReset(s) ==
    [s EXCEPT !.state = "RESET",
              !.retransmit = {}, !.retransmitBytes = 0, !.buffer = 0,
              !.shutdowner = IF @ = "pending" THEN "false" ELSE @]

amDone(s) == s.state = "SHUTDOWN_ACKD" /\ s.inflight = {} /\ s.retransmit = {}

checkDone(s) ==
    IF amDone(s)
    THEN [s EXCEPT !.complete = TRUE,
                   !.shutdowner = IF @ = "pending" THEN "true" ELSE @]
    ELSE s

-----------------------------------------------------------------------------
(***************************************************************************)
(* Calls of the application.  A call it may not make (a second write, a      *)
(* write after shutdown: RaceCondition) is not made; one on a reset stream   *)
(* only calls back RESET.                                                    *)
(***************************************************************************)
ApplicationRuns == out.pull.on => out.pull.callback

Write(n) ==
    /\ ApplicationRuns
    /\ out.buffer = 0 /\ out.state = "CONNECTED"
    /\ out.sendOffset + n <= MaxBytes
    /\ out' = makeProgress([out EXCEPT !.buffer = n])
    /\ UNCHANGED <<packets, undecided>>

Shutdown ==
    /\ MayShutdown /\ ApplicationRuns
    /\ out.buffer = 0 /\ out.state = "CONNECTED"
    /\ out' = updateRTS([out EXCEPT !.state = "SHUTDOWN_RETRANSMIT",
                                    !.shutdowner = "pending"])
    /\ UNCHANGED <<packets, undecided>>

Reset ==
    /\ MayReset /\ ApplicationRuns
    /\ out.pull.on => ResetInCallback
    /\ out' = updateRTS(doReset(out))
    /\ UNCHANGED <<packets, undecided>>

SetPriority ==
    /\ ApplicationRuns
    /\ out' = updateRTS(out)
    /\ UNCHANGED <<packets, undecided>>

-----------------------------------------------------------------------------
(***************************************************************************)
(* pull: HostDispatch pulls a stream that is ready to send.                  *)
(***************************************************************************)
Pullable ==
    out.rts /\ ~out.complete /\ ~out.pull.on /\ Len(packets) < MaxPackets

Send(packet) ==
    /\ packets' = Append(packets, packet)
    /\ undecided' = undecided \cup {Len(packets) + 1}

PullReset ==
    /\ Pullable /\ out.state = "RESET"
    /\ out' = [out EXCEPT !.rts = FALSE]
    /\ Send([reset |-> TRUE, lo |-> 0, hi |-> 0, segments |-> {}, eof |-> FALSE])

PullBegin ==
    /\ Pullable /\ out.state # "RESET"
    /\ LET offset == IF out.retransmit = {} THEN out.sendOffset
                     ELSE First(out.retransmit).lo
       IN  out' = [out EXCEPT !.pull =
                      [on |-> TRUE, lo |-> offset, hi |-> offset,
                       segments |-> {}, callback |-> FALSE]]
    /\ UNCHANGED <<packets, undecided>>

\* pullContiguousSegments goes on while there is room in the packet and the
\* next segment begins no later than where the packet ends.
Room == MaxPayload - (out.pull.hi - out.pull.lo)
PullsMore == Room > 0 /\ out.retransmit # {} /\ First(out.retransmit).lo <= out.pull.hi

PullSegment ==
    /\ out.pull.on /\ PullsMore
    /\ LET segment == First(out.retransmit)
           rest    == out.retransmit \ {segment}
           end     == out.pull.hi + Room
           head    == [lo |-> segment.lo, hi |-> end]
           tail    == [lo |-> end, hi |-> segment.hi]
           whole   == [out EXCEPT !.retransmit = rest]
       IN  out' = IF Length(segment) <= Room
                  THEN [makeProgress(whole) EXCEPT
                          !.pull.hi = @ + Length(segment),
                          !.pull.segments = @ \cup {segment},
                          !.pull.callback = Progresses(whole)]
                  ELSE [out EXCEPT !.retransmit = rest \cup {tail},
                                   !.pull.hi = end,
                                   !.pull.segments = @ \cup {head},
                                   !.pull.callback = FALSE]
    /\ UNCHANGED <<packets, undecided>>

\* Mutant: the end of the stream goes with any data.
AttachEarly == out.state \in Shutdowns \ {"SHUTDOWN_ACKD"}

\* The end of the stream goes with its last byte, or by itself.
AttachEOF ==
    /\ out.state \in Shutdowns \ {"SHUTDOWN_ACKD"}
    /\ out.pull.hi = out.sendOffset

PullEnd ==
    /\ out.pull.on /\ ~PullsMore
    /\ LET len == out.pull.hi - out.pull.lo
       IN  /\ out' = updateRTS([out EXCEPT
                        !.state = IF AttachEOF THEN "SHUTDOWN_INFLIGHT" ELSE @,
                        !.inflight = @ \cup out.pull.segments,
                        !.inflightBytes = @ + len,
                        !.retransmitBytes = @ - len,
                        !.pull = NoPull])
           /\ Send([reset |-> FALSE, lo |-> out.pull.lo, hi |-> out.pull.hi,
                    segments |-> out.pull.segments, eof |-> AttachEOF])

-----------------------------------------------------------------------------
(***************************************************************************)
(* The fate of a packet: ok, or lost (declared missing or timed out).        *)
(***************************************************************************)
\* Mutant: a reset that was lost is forgotten.
AckResetForgets(n, ok) ==
    /\ n \in undecided /\ ~out.pull.on /\ packets[n].reset
    /\ out' = [out EXCEPT !.complete = TRUE]
    /\ undecided' = undecided \ {n}
    /\ UNCHANGED packets

AckReset(n, ok) ==
    /\ n \in undecided /\ ~out.pull.on /\ packets[n].reset
    /\ out' = IF ok THEN [out EXCEPT !.complete = TRUE] ELSE [out EXCEPT !.rts = TRUE]
    /\ undecided' = undecided \ {n}
    /\ UNCHANGED packets

\* Mutant: after a shutdown nothing is sent again.
RequeuesConnected(state, ok) == ~ok /\ state = "CONNECTED"

Requeues(state, ok) == ~ok /\ state # "RESET"

AckData(n, ok) ==
    /\ n \in undecided /\ ~out.pull.on /\ ~packets[n].reset
    /\ LET p       == packets[n]
           len     == p.hi - p.lo
           state   == IF p.eof /\ out.state \in Shutdowns \ {"SHUTDOWN_ACKD"}
                      THEN IF ok THEN "SHUTDOWN_ACKD" ELSE "SHUTDOWN_RETRANSMIT"
                      ELSE out.state
           decided == [out EXCEPT !.state = state,
                                  !.inflight = @ \ p.segments,
                                  !.inflightBytes = @ - len]
           counted == IF ok THEN [decided EXCEPT
                                    !.bytesSent = @ + len,
                                    !.confirmed = @ \cup Bytes(p.segments)]
                      ELSE decided
       IN  out' = IF Requeues(state, ok)
                  THEN updateRTS([counted EXCEPT
                          !.retransmit = @ \cup p.segments,
                          !.retransmitBytes = @ + len])
                  ELSE checkDone(makeProgress(counted))
    /\ undecided' = undecided \ {n}
    /\ UNCHANGED packets

(***************************************************************************)
(* What the reader sends back.  HostDispatch drops it once the stream is     *)
(* complete: its sequence number is no longer the current one.               *)
(***************************************************************************)
RecvBarrier(b) ==
    /\ ~out.pull.on /\ ~out.complete
    /\ out' = makeProgress([out EXCEPT !.barrier = b])
    /\ UNCHANGED <<packets, undecided>>

RecvReaderResets ==
    /\ ~out.pull.on /\ ~out.complete
    /\ out' = [doReset(out) EXCEPT !.complete = TRUE]
    /\ UNCHANGED <<packets, undecided>>

-----------------------------------------------------------------------------
Application == (\E n \in Writes : Write(n)) \/ Shutdown \/ Reset \/ SetPriority
Pulling == PullReset \/ PullBegin \/ PullSegment \/ PullEnd
Acks(n, ok) == AckReset(n, ok) \/ AckData(n, ok)

\* The queue on its own: any fate of any packet, any barrier at any time.
OutNext ==
    \/ Application
    \/ Pulling
    \/ \E n \in undecided, ok \in BOOLEAN : Acks(n, ok)
    \/ \E b \in 0..(MaxBytes + SillyWindow + 1) : RecvBarrier(b)
    \/ RecvReaderResets

OutSpec == OutInit /\ [][OutNext]_outVars

-----------------------------------------------------------------------------
(***************************************************************************)
(* Properties                                                               *)
(***************************************************************************)

\* The fields hold what their types say, and no counter is negative except
\* retransmitBytes (see Accounting).
OutTypeOK ==
    /\ out \in [state : OutStates,
                inflight : SUBSET Segment, inflightBytes : Nat,
                retransmit : SUBSET Segment, retransmitBytes : Int,
                bytesSent : Nat, sendOffset : 0..MaxBytes,
                barrier : Nat, buffer : 0..MaxBytes,
                rts : BOOLEAN, complete : BOOLEAN,
                shutdowner : {"none", "pending", "true", "false"},
                pull : Pull, confirmed : SUBSET (0..MaxBytes)]
    /\ packets \in Seq([reset : BOOLEAN, lo : 0..MaxBytes, hi : 0..MaxBytes,
                        segments : SUBSET Segment, eof : BOOLEAN])
    /\ undecided \subseteq 1..Len(packets)

\* Until the stream is reset no byte is lost or doubled by splitting, joining
\* and requeueing segments: each byte given to the heap is in exactly one
\* segment, waiting, being pulled or in flight, or it is confirmed.
Held == out.retransmit \cup out.inflight \cup out.pull.segments
NoByteLost ==
    out.state # "RESET" =>
        /\ Bytes(Held) \cup out.confirmed = 0..(out.sendOffset - 1)
        /\ Bytes(Held) \cap out.confirmed = {}
        /\ \A s, t \in Held : s # t => s.hi <= t.lo \/ t.hi <= s.lo
        /\ out.retransmit \cap (out.inflight \cup out.pull.segments) = {}
        /\ out.inflight \cap out.pull.segments = {}

\* out-stream-queue.sml:18-19: between calls, inflightBytes and retransmitBytes
\* are the lengths of the segments in inflight and in retransmit.
Accounting ==
    ~out.pull.on =>
        /\ out.inflightBytes = Cardinality(Bytes(out.inflight))
        /\ out.retransmitBytes = Cardinality(Bytes(out.retransmit))

\* No wake-up is lost: a stream that has something to send that the barrier
\* admits has told HostDispatch so, or waits for the fate of its reset.
NoLostWakeup ==
    ~out.complete /\ ~out.pull.on /\ amRTS(out) =>
        \/ out.rts
        \/ out.state = "RESET" /\ \E n \in undecided : packets[n].reset

\* A pending write is never forgotten: it waits only behind a segment, and
\* whoever takes the last segment calls makeProgress.
BufferWaitsForSegments == out.buffer > 0 => out.retransmit # {}

\* The shutdown callback hears true only when every byte and the end of the
\* stream were acknowledged.
TrueMeansAcked ==
    out.shutdowner = "true" => out.confirmed = 0..(out.sendOffset - 1)
=============================================================================
