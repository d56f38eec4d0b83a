---------------------------- MODULE HostDispatch ----------------------------
(***************************************************************************)
(* The streams of two hosts over the channels between them                  *)
(* (cusp/stream/host-dispatch.fun): how streams get ids, when ids are used  *)
(* again, and how the sequence numbers of ids keep the segments of one      *)
(* stream from another.  Host "w" writes and host "r" reads; the other      *)
(* direction uses other ids, other halves of the sequence numbers, and the  *)
(* same code.                                                               *)
(*                                                                          *)
(* A stream is what HostDispatch sees of OutStream and InStream: a few      *)
(* segments of data, the last with the end of the stream, and resets of     *)
(* either end.  Its reader reads again in each callback.  A channel keeps   *)
(* what AckChannel promises: a packet is taken at most once, within the     *)
(* window, and its fate is ok only if it was taken.                         *)
(***************************************************************************)
EXTENDS Integers, Sequences, FiniteSets, SequencesExt, FiniteSetsExt

CONSTANTS
    Streams,        \* the streams w opens
    Size,           \* how many segments of data each has
    Window,         \* how far the channel looks back, and the cooldown (16)
    MayReset,       \* the streams an application may reset, or refuse
    MaxSegments,    \* bound: segments in a packet
    MaxPackets,     \* bound: packets w sends
    MaxReplies,     \* bound: packets r sends
    MaxSessions,    \* bound: channels that get established
    Avoided         \* what does not happen (see Hazards)

\* "slow reset": a new stream comes with the id of one whose reader still waits
\* to hear that its own reset arrived.  "half wipe": one end entered a session
\* that wipes its state, the other did not, and they resume in the next.
Hazards == {"slow reset", "half wipe"}

ASSUME HostDispatchAssumption ==
    /\ Size \in [Streams -> Nat \ {0}]
    /\ Window \in Nat \ {0}
    /\ {MaxSegments, MaxPackets, MaxReplies, MaxSessions} \subseteq Nat
    /\ Avoided \subseteq Hazards

VARIABLES
    writer,     \* what w keeps: its streams and the tables of ids
    reader,     \* what r keeps: the readers and the tables of ids
    packets,    \* what w sent: [session, load, taken, open], the load segments
    replies,    \* what r sent: the same, the load one reply
    link,       \* for each host its last session, is it up, and the last wipe
    sessions    \* for each session, do both ends wipe their state?

vars == <<writer, reader, packets, replies, link, sessions>>

Hosts == {"w", "r"}
nill == -1
None == 0
All(s) == 1..Size[s]

\* The next sequence number of an id, which has four bits.
Tick(seq) == (seq + 1) % 16

FREE(next) == <<"FREE", next>>
ALLOC(s) == <<"ALLOC", s>>

-----------------------------------------------------------------------------
(***************************************************************************)
(* The writing host                                                         *)
(***************************************************************************)
NewOut == [state |-> "unborn", id |-> nill, prefix |-> FALSE, inHeap |-> FALSE,
           rts |-> FALSE, waiting |-> {}, acked |-> {}, told |-> "none", from |-> {}]

\* The tables of a new host, and of one that wipes its state.
NewWriter(out) ==
    [out |-> out, outStreams |-> [i \in {0} |-> FREE(nill)], writeFree |-> 0,
     cooldowns |-> [i \in 0..(Window - 1) |-> nill], cooldownIndex |-> 0,
     seqNums |-> [i \in {0} |-> 0]]

\* The ids on the list that starts with id.
Chain(w, id) ==
    LET n == Cardinality(DOMAIN w.outStreams)
        at[k \in 0..n] == IF k = 0 THEN id
                          ELSE IF at[k-1] \notin DOMAIN w.outStreams THEN nill
                          ELSE w.outStreams[at[k-1]][2]
    IN  [k \in 1..Cardinality({j \in 0..n : at[j] # nill}) |-> at[k-1]]

\* The ids that have cooled down go to the free list, in the opposite order.
tickCooldown(w) ==
    LET index  == IF w.cooldownIndex = Window - 1 THEN 0 ELSE w.cooldownIndex + 1
        cooled == Chain(w, w.cooldowns[index])
    IN [w EXCEPT
          !.outStreams = [i \in DOMAIN @ |->
              IF \E k \in DOMAIN cooled : cooled[k] = i
              THEN LET k == CHOOSE k \in DOMAIN cooled : cooled[k] = i
                   IN FREE(IF k = 1 THEN w.writeFree ELSE cooled[k-1])
              ELSE @[i]],
          !.writeFree = IF cooled = <<>> THEN @ ELSE Last(cooled),
          !.cooldowns = [@ EXCEPT ![index] = nill],
          !.cooldownIndex = index]

\* Mutant: the list that is emptied at the next pull.
pushCooldownNext(w, id) ==
    LET index == (w.cooldownIndex + 1) % Window
    IN  [w EXCEPT !.outStreams[id] = FREE(w.cooldowns[index]), !.cooldowns[index] = id]

pushCooldown(w, id) ==
    [w EXCEPT !.outStreams[id] = FREE(w.cooldowns[w.cooldownIndex]),
              !.cooldowns[w.cooldownIndex] = id]

expand(w) ==
    LET old == Cardinality(DOMAIN w.outStreams)
        new == 2 * old
    IN [w EXCEPT
          !.outStreams = [i \in 0..(new - 1) |->
              IF i < old THEN @[i]
              ELSE FREE(IF i = new - 1 THEN w.writeFree ELSE i + 1)],
          !.writeFree = old,
          !.seqNums = [i \in 0..(new - 1) |-> IF i < old THEN @[i] ELSE 0]]

\* A stream that is pulled for the first time gets an id.
allocId(w, s) ==
    LET e  == IF w.writeFree = nill THEN expand(w) ELSE w
        id == e.writeFree
    IN [e EXCEPT !.writeFree = e.outStreams[id][2],
                 !.outStreams[id] = ALLOC(s),
                 !.out[s].id = id]

Gone(o) == [o EXCEPT !.id = nill, !.prefix = FALSE, !.inHeap = FALSE, !.rts = FALSE,
                     !.waiting = {}]

\* The stream is done with its id, unless that was taken from it before, and its
\* record with everything.
BecameComplete(w, s) ==
    LET id   == w.out[s].id
        gone == [w EXCEPT !.out[s] = Gone(@)]
    IN  IF id = nill THEN gone
        ELSE pushCooldown([gone EXCEPT !.seqNums[id] = Tick(@)], id)

RTS(w, s, on) == IF w.out[s].inHeap THEN [w EXCEPT !.out[s].rts = on] ELSE w
doReset(w, s) ==
    [w EXCEPT !.out[s].state = "reset", !.out[s].waiting = {},
              !.out[s].told = IF @ = "none" THEN "false" ELSE @]

\* One segment of stream s, and the tables after it.
Pulled(w, s) ==
    LET a == IF w.out[s].id = nill THEN allocId(w, s) ELSE w
        o == a.out[s]
        n == IF o.state = "reset" THEN None ELSE Min(o.waiting)
    IN [writer |-> RTS([a EXCEPT !.out[s].waiting = @ \ {n}], s, o.waiting \ {n} # {}),
        segment |-> [of |-> s, id |-> o.id, create |-> o.prefix,
                     seq |-> a.seqNums[o.id], data |-> n]]

\* The fate of a segment.
AckReset(w, s, ok) == IF ok THEN BecameComplete(w, s) ELSE RTS(w, s, TRUE)
AckData(w, s, n, ok) ==
    IF w.out[s].state = "reset" THEN w
    ELSE IF ~ok THEN RTS([w EXCEPT !.out[s].waiting = @ \cup {n}], s, TRUE)
    ELSE LET a == [w EXCEPT !.out[s].acked = @ \cup {n}]
         IN IF a.out[s].acked # All(s) THEN a
            ELSE [BecameComplete(a, s) EXCEPT !.out[s] =
                     [@ EXCEPT !.state = "acked", !.told = "true"]]
\* Mutant: the prefix is cleared whatever the fate.
AckClears(w, segment, ok) ==
    LET s == segment.of
        c == [w EXCEPT !.out[s].prefix = FALSE]
    IN  IF segment.data = None THEN AckReset(c, s, ok) ELSE AckData(c, s, segment.data, ok)

\* A packet that arrived clears the prefix of its streams, and then each stream
\* hears of its segment.
Ack(w, segment, ok) ==
    LET s == segment.of
        c == IF ok THEN [w EXCEPT !.out[s].prefix = FALSE] ELSE w
    IN  IF segment.data = None THEN AckReset(c, s, ok) ELSE AckData(c, s, segment.data, ok)

\* A segment of r, which carries the sequence number its reader has.
RecvReply(w, reply) ==
    LET id == reply.id
    IN  IF \/ id \notin DOMAIN w.outStreams
           \/ reply.seq # w.seqNums[id]
           \/ w.outStreams[id][1] = "FREE"
        THEN w
        ELSE LET s == w.outStreams[id][2]
                 h == [w EXCEPT !.out[s].from = @ \cup {reply.of}]
             IN  IF reply.resets THEN BecameComplete(doReset(h, s), s) ELSE h

\* wipeState: a stream of which no packet was acknowledged stays and is ready
\* to send, without an id; the others are reset.
Survivors(w) ==
    [s \in Streams |->
        LET o == IF w.out[s].prefix THEN w.out[s] ELSE doReset(w, s).out[s]
        IN  IF ~w.out[s].inHeap THEN w.out[s]
            ELSE IF o.state = "reset" THEN Gone(o)
            ELSE [o EXCEPT !.id = nill, !.rts = TRUE]]

\* Mutant: the cooldowns stay.
WipeOutCooldowns(w) == [NewWriter(Survivors(w)) EXCEPT !.cooldowns = w.cooldowns]

WipeOut(w) == NewWriter(Survivors(w))

-----------------------------------------------------------------------------
(***************************************************************************)
(* The reading host                                                         *)
(***************************************************************************)
NewIn(s, id, epoch) ==
    [of |-> s, epoch |-> epoch, id |-> id, state |-> "connected", next |-> 0,
     queue |-> {}, inHeap |-> TRUE, rts |-> FALSE, from |-> {}, told |-> "none"]

NewReader(in) ==
    [in |-> in, inStreams |-> [i \in {0} |-> None], seqNums |-> [i \in {0} |-> 0]]

\* An id that is not in the table has no reader, and number 0.
Sub(f, id) == IF id \in DOMAIN f THEN f[id] ELSE 0

\* The table grows to the power of two above id.
expandSubReader(r, id) ==
    IF id \in DOMAIN r.inStreams THEN r
    ELSE LET power[k \in 0..id] == IF k = 0 THEN 1 ELSE 2 * power[k-1]
             size == CHOOSE n \in (id + 1)..(2 * id + 1) : \E k \in 0..id : n = power[k]
         IN [r EXCEPT !.inStreams = [i \in 0..(size - 1) |-> Sub(@, i)],
                      !.seqNums = [i \in 0..(size - 1) |-> Sub(@, i)]]

InGone(o) == [o EXCEPT !.id = nill, !.inHeap = FALSE, !.rts = FALSE, !.queue = {}]

\* The reader i is done with its id, unless that was taken from it before, and
\* with the heap.
InComplete(r, i) ==
    LET id   == r.in[i].id
        gone == [r EXCEPT !.in[i] = InGone(@)]
    IN  IF id = nill THEN gone
        ELSE [gone EXCEPT !.seqNums[id] = Tick(@), !.inStreams[id] = None]

InRTS(r, i, on) == IF r.in[i].inHeap THEN [r EXCEPT !.in[i].rts = on] ELSE r
Tell(r, i, what) == [r EXCEPT !.in[i].told = IF @ = "none" THEN what ELSE @]

\* fireEvent, and the application that reads on: a reader that knows the end
\* is done when nothing waits for a gap to close.
fireEvent(r, i) ==
    IF r.in[i].state \notin {"shutdown", "reset down"} \/ r.in[i].queue # {} THEN r
    ELSE IF r.in[i].state = "shutdown" THEN InComplete(Tell(r, i, "shutdown"), i)
    ELSE InComplete(r, i)

InReset(r, i) ==
    LET next == [connected |-> "reset", shutdown |-> "reset down"]
        a == [r EXCEPT !.in[i].state = IF @ \in DOMAIN next THEN next[@] ELSE @]
    IN  fireEvent(Tell(InRTS(a, i, TRUE), i, "reset"), i)

\* The segment n of the data, the last of which ends the stream.
recvData(r, i, n) ==
    LET o    == r.in[i]
        have == o.queue \cup {n}
        next == IF n # o.next + 1 THEN o.next
                ELSE Max({m \in have : (o.next + 1)..m \subseteq have})
        a    == [r EXCEPT !.in[i].next = next, !.in[i].queue = {m \in have : m > next}]
        end  == [connected |-> "shutdown", reset |-> "reset down"]
        b    == IF n = Size[o.of] /\ o.state \in DOMAIN end
                THEN [a EXCEPT !.in[i].state = end[o.state]] ELSE a
    IN  fireEvent(IF b.in[i].state = "shutdown" THEN InRTS(b, i, FALSE) ELSE b, i)

\* A segment that opens a stream gets a reader, which the application may refuse.
gotConnection(r, segment, epoch, refused) ==
    LET i == Len(r.in) + 1
        a == [r EXCEPT !.in = Append(@, NewIn(segment.of, segment.id, epoch)),
                       !.inStreams[segment.id] = i]
    IN  IF segment.of \in refused THEN InReset(a, i) ELSE a

\* A segment for the reader that has its id.
ToReader(r, segment) ==
    LET i == Sub(r.inStreams, segment.id)
        h == [r EXCEPT !.in[i].from = @ \cup {segment.of}]
    IN  IF i = None THEN r
        ELSE IF segment.data = None
             THEN InReset([h EXCEPT !.in[i].state = "shutdown"], i)
             ELSE recvData(h, i, segment.data)

recvSegment(r, segment, epoch, refused) ==
    IF ~segment.create THEN ToReader(r, segment)
    ELSE IF segment.seq # Sub(r.seqNums, segment.id) THEN r
    ELSE LET e == expandSubReader(r, segment.id)
         IN  ToReader(IF e.inStreams[segment.id] # None THEN e
                      ELSE gotConnection(e, segment, epoch, refused), segment)

\* The fate of a reply: a reset that arrived completes its reader.
AckReply(r, reply, ok) ==
    IF ~reply.resets THEN r
    ELSE IF ok THEN InComplete(r, reply.reader) ELSE InRTS(r, reply.reader, TRUE)

WipeIn(r) ==
    NewReader([i \in DOMAIN r.in |->
        IF r.in[i].inHeap THEN InReset([r EXCEPT !.in[i] = InGone(@)], i).in[i]
        ELSE r.in[i]])

-----------------------------------------------------------------------------
(***************************************************************************)
(* Steps of the writing host                                                *)
(***************************************************************************)
NewPacket(h, load) ==
    [session |-> link[h].session, load |-> load, taken |-> FALSE, open |-> TRUE]

\* Nobody needs what is in a packet that was taken and whose fate was told.
Forget(sent) == [k \in DOMAIN sent |->
    IF sent[k].taken /\ ~sent[k].open THEN [sent[k] EXCEPT !.load = <<>>] ELSE sent[k]]
TakePacket(sent, k) == Forget([sent EXCEPT ![k].taken = TRUE])
CloseAll(sent, S) == Forget([k \in DOMAIN sent |->
    IF k \in S THEN [sent[k] EXCEPT !.open = FALSE] ELSE sent[k]])

\* connect; the application writes all it has at once.
Connect(s) ==
    /\ writer.out[s].state = "unborn"
    /\ writer' = [writer EXCEPT !.out[s] =
           [@ EXCEPT !.state = "open", !.prefix = TRUE, !.inHeap = TRUE,
                     !.rts = TRUE, !.waiting = All(s)]]
    /\ UNCHANGED <<reader, packets, replies, link, sessions>>

\* The application resets a stream, or sets the priority of one it reset.
Reset(s) ==
    /\ s \in MayReset /\ writer.out[s].state \in {"open", "reset"}
    /\ writer' = RTS(doReset(writer, s), s, TRUE)
    /\ UNCHANGED <<reader, packets, replies, link, sessions>>

\* Up to n segments of streams that are ready to send, and what is left after.
Ready(w) == {s \in Streams : w.out[s].inHeap /\ w.out[s].rts}
Fills(w) ==
    LET fill[n \in 0..MaxSegments] ==
          IF n = 0 THEN {[writer |-> w, segments |-> <<>>]}
          ELSE UNION {{[writer |-> Pulled(f.writer, s).writer,
                        segments |-> Append(f.segments, Pulled(f.writer, s).segment)] :
                           s \in Ready(f.writer)} : f \in fill[n-1]}
    IN  UNION {fill[n] : n \in 0..MaxSegments}

Pull ==
    /\ link["w"].up /\ Len(packets) < MaxPackets
    /\ \E f \in Fills(tickCooldown(writer)) :
          /\ writer' = f.writer
          /\ packets' = Append(packets, NewPacket("w", f.segments))
    /\ UNCHANGED <<reader, replies, link, sessions>>

\* The channel tells the fate of a packet, and each of its segments hears of it.
AckAll(w, load, ok) == FoldLeft(LAMBDA x, segment : Ack(x, segment, ok), w, load)

Fate(k, ok) ==
    /\ packets[k].open
    /\ ok => packets[k].taken
    /\ writer' = AckAll(writer, packets[k].load, ok)
    /\ packets' = CloseAll(packets, {k})
    /\ UNCHANGED <<reader, replies, link, sessions>>

\* A packet of r arrives, which r's channel lets through at most once.
ReplyArrives(k) ==
    /\ link["w"].up /\ replies[k].session = link["w"].session /\ ~replies[k].taken
    /\ writer' = RecvReply(writer, replies[k].load[1])
    /\ replies' = TakePacket(replies, k)
    /\ UNCHANGED <<reader, packets, link, sessions>>

(***************************************************************************)
(* Steps of the reading host                                                *)
(***************************************************************************)

\* The id of a reader that waits to hear that its reset arrived comes again.
SlowReset(segment) ==
    LET i == Sub(reader.inStreams, segment.id)
    IN  /\ segment.create /\ i # None
        /\ reader.in[i].of # segment.of /\ reader.in[i].state \in {"reset", "reset down"}

RecvAll(r, load, epoch, refused) ==
    FoldLeft(LAMBDA x, segment : recvSegment(x, segment, epoch, refused), r, load)

\* A packet arrives in its session, once, and less than Window packets late.
Arrive(k, refused) ==
    /\ link["r"].up /\ packets[k].session = link["r"].session /\ ~packets[k].taken
    /\ \A n \in DOMAIN packets :
          packets[n].session = packets[k].session /\ packets[n].taken => n - k < Window
    /\ "slow reset" \in Avoided =>
           \A j \in DOMAIN packets[k].load : ~SlowReset(packets[k].load[j])
    /\ reader' = RecvAll(reader, packets[k].load, link["r"].wiped, refused)
    /\ packets' = TakePacket(packets, k)
    /\ UNCHANGED <<writer, replies, link, sessions>>

\* The application resets a reader.
ResetReader(i) ==
    /\ reader.in[i].inHeap /\ reader.in[i].of \in MayReset
    /\ reader' = InReset(reader, i)
    /\ UNCHANGED <<writer, packets, replies, link, sessions>>

\* pull: a reader that was reset says so, one that is open moves the barrier.
PullReply(i) ==
    LET o == reader.in[i]
        resets == o.state \in {"reset", "reset down"}
    IN  /\ link["r"].up /\ Len(replies) < MaxReplies
        /\ o.inHeap
        /\ o.rts \/ (o.state = "connected" /\ o.next > 0)
        /\ reader' = InRTS(reader, i, FALSE)
        /\ replies' = Append(replies, NewPacket("r",
               <<[of |-> o.of, reader |-> i, id |-> o.id, resets |-> resets,
                  seq |-> Sub(reader.seqNums, o.id)]>>))
        /\ UNCHANGED <<writer, packets, link, sessions>>

ReplyFate(k, ok) ==
    /\ replies[k].open
    /\ ok => replies[k].taken
    /\ reader' = AckReply(reader, replies[k].load[1], ok)
    /\ replies' = CloseAll(replies, {k})
    /\ UNCHANGED <<writer, packets, link, sessions>>

-----------------------------------------------------------------------------
(***************************************************************************)
(* Channels: the end of one, and the start of the next                      *)
(***************************************************************************)
\* destroy of the channel tells that everything undecided was lost.
CutWriter(w) ==
    FoldLeft(LAMBDA x, p : IF p.open THEN AckAll(x, p.load, FALSE) ELSE x, w, packets)
CutReader(r) ==
    FoldLeft(LAMBDA x, p : IF p.open THEN AckReply(x, p.load[1], FALSE) ELSE x, r, replies)

\* unbind: the channel of host h ends.
Lose(h) ==
    /\ link[h].up
    /\ link' = [link EXCEPT ![h].up = FALSE]
    /\ \/ /\ h = "w" /\ UNCHANGED <<reader, replies>>
          /\ writer' = CutWriter(writer) /\ packets' = CloseAll(packets, DOMAIN packets)
       \/ /\ h = "r" /\ UNCHANGED <<writer, packets>>
          /\ reader' = CutReader(reader) /\ replies' = CloseAll(replies, DOMAIN replies)
    /\ UNCHANGED sessions

\* goESTABLISHED: host h is the first or the second in the newest session.  It
\* resumes if both ends know each other; else the state of streams is wiped, and
\* then bind destroys the channel that still lingers.
Bind(h, agreed) ==
    LET n == Len(agreed)
    IN  /\ link[h].session < n /\ sessions' = agreed
        /\ link' = [link EXCEPT ![h] = [session |-> n, up |-> TRUE,
                       wiped |-> IF agreed[n] THEN n ELSE @.wiped]]
        /\ \/ /\ h = "w" /\ packets' = CloseAll(packets, DOMAIN packets)
              /\ writer' = CutWriter(IF agreed[n] THEN WipeOut(writer) ELSE writer)
              /\ UNCHANGED <<reader, replies>>
           \/ /\ h = "r" /\ replies' = CloseAll(replies, DOMAIN replies)
              /\ reader' = CutReader(IF agreed[n] THEN WipeIn(reader) ELSE reader)
              /\ UNCHANGED <<writer, packets>>

\* A new session resumes only what both know.
BindFirst(h, wipe) ==
    /\ Len(sessions) < MaxSessions
    /\ "half wipe" \in Avoided => wipe \/ link["w"].wiped = link["r"].wiped
    /\ Bind(h, Append(sessions, wipe))

-----------------------------------------------------------------------------
Init ==
    /\ writer = NewWriter([s \in Streams |-> NewOut])
    /\ reader = NewReader(<<>>)
    /\ packets = <<>>
    /\ replies = <<>>
    /\ link = [h \in Hosts |-> [session |-> 1, up |-> TRUE, wiped |-> 1]]
    /\ sessions = <<TRUE>>

Next ==
    \/ \E s \in Streams : Connect(s) \/ Reset(s)
    \/ Pull
    \/ \E k \in DOMAIN packets :
          \/ \E ok \in BOOLEAN : Fate(k, ok)
          \/ \E refused \in {{}, MayReset} : Arrive(k, refused)
    \/ \E k \in DOMAIN replies :
          \/ ReplyArrives(k)
          \/ \E ok \in BOOLEAN : ReplyFate(k, ok)
    \/ \E i \in DOMAIN reader.in : ResetReader(i) \/ PullReply(i)
    \/ \E h \in Hosts : 
          \/ Lose(h)
          \/ Bind(h, sessions)
          \/ \E wipe \in BOOLEAN : BindFirst(h, wipe)

Spec == Init /\ [][Next]_vars

-----------------------------------------------------------------------------
(***************************************************************************)
(* Properties                                                               *)
(***************************************************************************)

\* Although ids are used again, segments are lost, repeated and late, and
\* channels end and resume, what is sent of a stream reaches only the reader of
\* that stream, and what its reader sends only that stream; and as long as no
\* state is wiped, a stream gets at most one reader.
OwnReader ==
    /\ \A i \in DOMAIN reader.in : reader.in[i].from \subseteq {reader.in[i].of}
    /\ \A s \in Streams : writer.out[s].from \subseteq {s}
    /\ \A i, j \in DOMAIN reader.in :
          reader.in[i].of = reader.in[j].of /\ reader.in[i].epoch = reader.in[j].epoch
             => i = j

\* A writer that is told its stream was delivered has a reader that got every
\* segment or was reset, and a reader that is told of the end got every segment:
\* a packet is acknowledged as a whole, also where recvSegment skipped segments.
AckedWasHeard ==
    /\ \A s \in Streams : writer.out[s].told = "true" =>
          \E i \in DOMAIN reader.in : reader.in[i].of = s /\
              (reader.in[i].next = Size[s] \/ reader.in[i].told = "reset")
    /\ \A i \in DOMAIN reader.in : reader.in[i].told = "shutdown" =>
          reader.in[i].next = Size[reader.in[i].of]

\* The tables and the records of streams agree, and every id without a stream is
\* on exactly one list, so that it comes back: pulls, acks, resets and wipes
\* reach the tables in every order.
Lists == [c \in {nill} \cup DOMAIN writer.cooldowns |->
    Chain(writer, IF c = nill THEN writer.writeFree ELSE writer.cooldowns[c])]
On(c, id) == {k \in DOMAIN Lists[c] : Lists[c][k] = id}
TablesSound ==
    /\ \A s \in Streams, id \in DOMAIN writer.outStreams :
          writer.out[s].id = id <=> writer.outStreams[id] = ALLOC(s)
    /\ \A s \in Streams : writer.out[s].id \in DOMAIN writer.outStreams \cup {nill}
    /\ \A id \in DOMAIN writer.outStreams : writer.outStreams[id][1] = "FREE" =>
          Cardinality(UNION {{c} \X On(c, id) : c \in DOMAIN Lists}) = 1
    /\ \A i \in DOMAIN reader.in, id \in DOMAIN reader.inStreams :
          reader.in[i].id = id <=> reader.inStreams[id] = i
    /\ \A i \in DOMAIN reader.in : reader.in[i].inHeap => reader.in[i].id # nill
=============================================================================
