------------------------------- MODULE Stream -------------------------------
(***************************************************************************)
(* One stream from end to end: the sender's OutStream on one host, the       *)
(* receiver's InStream on another, and the channel between them, which       *)
(* delivers each packet at most once, tells the sender of a packet ok only   *)
(* if it was taken, and decides the fate of each packet once.  AckChannel    *)
(* has these guarantees.  Lost means decided before, or without, arrival:    *)
(* a packet called lost may still arrive.                                    *)
(***************************************************************************)
EXTENDS OutStream, InStream

CONSTANT
    Net     \* "reliable": packets arrive in order, none is lost
            \* "ordered":  packets may be lost, but not overtake each other
            \* "any":      they may be lost and overtake each other

ASSUME StreamAssumption == Net \in {"reliable", "ordered", "any"}

VARIABLES
    taken,          \* the sender's packets that the receiver's host took
    takenBarriers   \* the receiver's packets that the sender's host took

netVars == <<taken, takenBarriers>>
streamVars == <<outVars, inVars, netVars>>

StreamInit == OutInit /\ InInit /\ taken = {} /\ takenBarriers = {}

\* May packet n arrive when those of T were taken?
Arrives(n, T) ==
    /\ n \notin T
    /\ CASE Net = "reliable" -> \A m \in 1..(n-1) : m \in T
         [] Net = "ordered"  -> \A m \in T : m < n
         [] Net = "any"      -> TRUE

-----------------------------------------------------------------------------
SenderRuns ==
    /\ Application \/ Pulling
    /\ UNCHANGED <<inVars, netVars>>

ReceiverRuns ==
    /\ \/ \E size \in ReadSizes : Read(size)
       \/ ResetReader
       \/ OtherTraffic
       \/ PullBarrier
    /\ UNCHANGED <<outVars, netVars>>

SegmentArrives(n) ==
    /\ Arrives(n, taken)
    /\ \E ok \in BOOLEAN :
          /\ RecvSegment(n, packets[n], ok)
          /\ taken' = IF ok THEN taken \cup {n} ELSE taken
    /\ UNCHANGED <<outVars, takenBarriers>>

SegmentDecided(n, ok) ==
    /\ ok => n \in taken
    /\ Acks(n, ok)
    /\ UNCHANGED <<inVars, netVars>>

\* HostDispatch drops it, and takes it, if the sender is complete.
BarrierArrives(n) ==
    /\ Arrives(n, takenBarriers)
    /\ takenBarriers' = takenBarriers \cup {n}
    /\ IF out.complete THEN UNCHANGED outVars
       ELSE IF barriers[n].reset THEN RecvReaderResets
       ELSE RecvBarrier(barriers[n].barrier)
    /\ UNCHANGED <<inVars, taken>>

BarrierDecided(n, ok) ==
    /\ ok => n \in takenBarriers
    /\ AckBarrier(n, ok)
    /\ UNCHANGED <<outVars, netVars>>

\* A pull takes no time: nothing else happens while the sender is in one.
StreamNext ==
    \/ SenderRuns
    \/ /\ ~out.pull.on
       /\ \/ ReceiverRuns
          \/ \E n \in DOMAIN packets : SegmentArrives(n)
          \/ \E n \in undecided, ok \in BOOLEAN : SegmentDecided(n, ok)
          \/ \E n \in DOMAIN barriers : BarrierArrives(n)
          \/ \E n \in barriersOpen, ok \in BOOLEAN : BarrierDecided(n, ok)

StreamSpec == StreamInit /\ [][StreamNext]_streamVars

-----------------------------------------------------------------------------
(***************************************************************************)
(* Properties                                                               *)
(***************************************************************************)

\* The stream promises what ByteStream says, whatever the network does.
Abstract == INSTANCE ByteStream WITH
    written   <- out.sendOffset + out.buffer,
    closed    <- out.shutdowner # "none",
    delivered <- in.delivered,
    ended     <- in.told = "SHUTDOWN"
ImplementsByteStream == Abstract!Spec

\* in-stream-queue.sml:26 - the sender is not allowed to exceed the barrier:
\* no segment that was sent ends beyond what the receiver would admit.
WithinBarrier ==
    \A n \in DOMAIN packets : ~packets[n].reset => packets[n].hi <= in.barrier

\* The ends never wait for each other: when no packet is under way and neither
\* end asks to send, and the reader has read what is ready, everything that
\* was written arrived.
Quiet ==
    /\ undecided = {} /\ barriersOpen = {} /\ ~out.pull.on
    /\ ~out.rts /\ ~in.rts
NeverStuck ==
    Quiet /\ out.state = "CONNECTED" /\ in.state = "CONNECTED"
          /\ ~in.crashed /\ in.ready = <<>> =>
        out.buffer = 0 /\ in.offset = out.sendOffset

\* out-stream.sig:26: shutdown hears true once all data is finally delivered
\* to the remote in-stream, unless that was reset.
TrueMeansDelivered ==
    out.shutdowner = "true" /\ in.state \notin {"RESET", "RESET_DOWN"} /\ ~in.crashed =>
        in.offset = out.sendOffset

\* out-stream.sig:45 - if the sender resets before it shuts down, the receiver
\* never hears of a regular end, and hears of the reset before the sender's
\* queue is complete.
ResetIsSeen ==
    out.state = "RESET" /\ out.shutdowner = "none" =>
        /\ in.told # "SHUTDOWN"
        /\ out.complete => in.state \in {"RESET", "RESET_DOWN"} \/ in.crashed

\* in-stream.sig:26-27 - what the reader is given is what it received: no byte
\* was overwritten while it waited.
DeliveredIntact == \A i \in DOMAIN in.delivered : in.delivered[i] # Overwritten

\* Bytes are given to the reader in the order they were written, each once.
DeliveredInOrder ==
    \A i \in DOMAIN in.delivered : in.delivered[i] \in {i - 1, Overwritten}
=============================================================================
