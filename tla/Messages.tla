------------------------------ MODULE Messages ------------------------------
(***************************************************************************)
(* The message classes of cbindings/util on one stream: BufferedOutStream    *)
(* takes writes at any time and shuts down after the last, a                *)
(* SingleMessageOutStream writes one message and shuts down, and a           *)
(* SingleMessageInStream collects what comes.                               *)
(*                                                                         *)
(* As in SingleCycle, stack holds the calls that wait to run, the next       *)
(* first; what is left of a method after a call waits behind that call.     *)
(* "user" is the ShutdownHandler a program gives a BufferedOutStream.        *)
(***************************************************************************)
EXTENDS Pipe

CONSTANTS
    MaxBytes,       \* bound: bytes the program writes
    Avoided         \* what the program does not do

Hazards == {"used after reset"}
ASSUME MessagesAssumption == MaxBytes \in Nat /\ Avoided \subseteq Hazards

VARIABLES
    sender,     \* the BufferedOutStream or SingleMessageOutStream
    receiver,   \* the SingleMessageInStream
    pipe,       \* the stream
    lost,       \* the sides that found the channel dead
    stack,      \* the calls to run
    given,      \* how many bytes the program wrote, the bytes 1, 2, ...
    taken,      \* the bytes the stream was given
    told,       \* what the sender's handlers heard
    heard,      \* what the receiver's handler heard
    failed      \* how the program failed, or "no"

network == <<pipe, stack, failed>>
ghosts  == <<given, taken, told, heard>>
vars == <<sender, receiver, network, lost, ghosts>>

Do(event, e) == [to |-> e, event |-> event, data |-> <<>>]
Rest == Tail(stack)
Idle == failed = "no" /\ stack = <<>>

Living == {"alive", "reset"}
Gone(e) == \/ e = "sender" /\ sender.life = "dead"
           \/ e = "receiver" /\ receiver.life = "dead"
Methods == {"READY", "RESET", "TRUE", "FALSE", "DATA", "SHUTDOWN", "cleared"}
Runs(event, e) ==
    /\ failed = "no" /\ stack # <<>>
    /\ Head(stack).to = e /\ Head(stack).event = event
    /\ event \in Methods => ~Gone(e)

Fail(how) == failed' = how /\ UNCHANGED <<pipe, stack>>
OutDone(result, rest) ==
    IF result.raised THEN Fail("exception")
    ELSE /\ pipe' = [pipe EXCEPT !.out = result.end]
         /\ stack' = result.calls \o rest
         /\ UNCHANGED failed
InDone(result, rest) ==
    IF result.raised THEN Fail("exception")
    ELSE /\ pipe' = [pipe EXCEPT !.in = result.end]
         /\ stack' = result.calls \o rest
         /\ UNCHANGED failed

OsWrite(data, rest) ==
    /\ OutDone(OutWrite(pipe.out, data, "sender"), rest)
    /\ taken' = taken \o data

\* The bytes a write of n bytes gives next.
Piece(n) == [i \in 1..n |-> given + i]

-----------------------------------------------------------------------------
(***************************************************************************)
(* BufferedOutStream                                                        *)
(***************************************************************************)
Unborn == [kind |-> "none", life |-> "unborn", ready |-> FALSE, buf |-> <<>>,
           shutdownRequest |-> FALSE]
NewBuffered == [Unborn EXCEPT !.kind = "buffered", !.life = "alive", !.ready = TRUE]

Wrap ==
    /\ Idle /\ sender.life = "unborn"
    /\ sender' = NewBuffered
    /\ UNCHANGED <<receiver, network, lost, ghosts>>

\* The program writes nothing after it asked for the end.
Open ==
    /\ Idle /\ sender.kind = "buffered" /\ ~sender.shutdownRequest
    /\ sender.life \in (IF "used after reset" \in Avoided THEN {"alive"} ELSE Living)

\* write: directly, or behind what waits.
Write(n) ==
    /\ Open /\ given + n <= MaxBytes
    /\ given' = given + n
    /\ IF sender.ready
       THEN /\ sender' = [sender EXCEPT !.ready = FALSE]
            /\ OsWrite(Piece(n), <<>>)
       ELSE /\ sender' = [sender EXCEPT !.buf = @ \o Piece(n)]
            /\ UNCHANGED <<taken, network>>
    /\ UNCHANGED <<receiver, lost, told, heard>>

\* shutdown: now if nothing waits, else after the last write.
OsShutdown(handler, rest) == OutDone(OutShutdown(pipe.out, handler), rest)
ShutdownAtOnce == OsShutdown("user", <<>>)
ShutdownWhenReady == IF sender.ready THEN OsShutdown("user", <<>>) ELSE UNCHANGED network
Shutdown ==
    /\ Open
    /\ sender' = [sender EXCEPT !.shutdownRequest = TRUE]
    /\ ShutdownWhenReady
    /\ UNCHANGED <<receiver, lost, ghosts>>

\* reset forgets what waits and resets the stream.
Forgotten(life) == [sender EXCEPT !.ready = FALSE, !.buf = <<>>, !.life = life]
Reset ==
    /\ Idle /\ sender.kind = "buffered" /\ sender.life \in Living
    /\ sender' = Forgotten("reset")
    /\ OutDone(OutReset(pipe.out), <<>>)
    /\ UNCHANGED <<receiver, lost, ghosts>>

\* onReady writes what waits, then empties the buffer; with nothing to write it
\* shuts down if it was asked to, or is ready.
EndsAtOnce == sender.buf # <<>> /\ ~sender.shutdownRequest
MoreToWrite == sender.buf # <<>>
EndWaits == sender.shutdownRequest
BufferedReady ==
    /\ Runs("READY", "sender") /\ sender.kind = "buffered"
    /\ CASE MoreToWrite ->
              OsWrite(sender.buf, <<Do("cleared", "sender")>> \o Rest) /\ UNCHANGED sender
         [] ~MoreToWrite /\ EndWaits ->
              OsShutdown("user", Rest) /\ UNCHANGED <<sender, taken>>
         [] OTHER ->
              /\ sender' = [sender EXCEPT !.ready = TRUE]
              /\ stack' = Rest
              /\ UNCHANGED <<pipe, failed, taken>>
    /\ UNCHANGED <<receiver, lost, given, told, heard>>

Cleared ==
    /\ Runs("cleared", "sender")
    /\ sender' = [sender EXCEPT !.buf = <<>>]
    /\ stack' = Rest
    /\ UNCHANGED <<receiver, pipe, failed, lost, ghosts>>

-----------------------------------------------------------------------------
(***************************************************************************)
(* SingleMessageOutStream, and the end of both                              *)
(***************************************************************************)
Send(n) ==
    /\ Idle /\ sender.life = "unborn" /\ n <= MaxBytes
    /\ sender' = [Unborn EXCEPT !.kind = "message", !.life = "alive"]
    /\ given' = n
    /\ OsWrite(Piece(n), <<>>)
    /\ UNCHANGED <<receiver, lost, told, heard>>

MessageReady ==
    /\ Runs("READY", "sender") /\ sender.kind = "message"
    /\ OsShutdown("sender", Rest)
    /\ UNCHANGED <<sender, receiver, lost, ghosts>>

\* ~BufferedOutStream and ~SingleMessageOutStream reset the stream, whose last
\* callback still finds the object.
DeleteSender(rest) ==
    /\ sender.life \in Living
    /\ sender' = Forgotten("dying")
    /\ OutDone(OutReset(pipe.out), <<Do("destroyed", "sender")>> \o rest)
Delete == Idle /\ DeleteSender(<<>>) /\ UNCHANGED <<receiver, lost, ghosts>>

\* onReset and onShutdown tell the handler, which may delete the object.
SenderTold ==
    /\ \E event \in {"RESET", "TRUE", "FALSE"}, e \in {"sender", "user"} : Runs(event, e)
    /\ told' = Append(told, Head(stack).event)
    /\ DeleteSender(Rest) \/ (stack' = Rest /\ UNCHANGED <<sender, pipe, failed>>)
    /\ UNCHANGED <<receiver, lost, given, taken, heard>>

SenderDestroyed ==
    /\ Runs("destroyed", "sender")
    /\ sender' = [sender EXCEPT !.life = "dead"]
    /\ stack' = Rest
    /\ UNCHANGED <<receiver, pipe, failed, lost, ghosts>>

-----------------------------------------------------------------------------
(***************************************************************************)
(* SingleMessageInStream                                                    *)
(***************************************************************************)
NoReceiver == [life |-> "unborn", buffer |-> <<>>]

\* The service makes one for the stream and reads, or nobody listens.
Accept ==
    /\ Runs("accept", "receiver")
    /\ \/ /\ receiver' = [receiver EXCEPT !.life = "alive"]
          /\ InDone(InRead(NewIn, "receiver"), Rest)
       \/ /\ InDone(InReset(NewIn), Rest)
          /\ UNCHANGED receiver
    /\ UNCHANGED <<sender, lost, ghosts>>

\* onReceive appends; it does not read on.
OnReceive ==
    /\ Runs("DATA", "receiver")
    /\ receiver' = [receiver EXCEPT !.buffer = @ \o Head(stack).data]
    /\ stack' = Rest
    /\ UNCHANGED <<sender, pipe, failed, lost, ghosts>>

DeleteReceiver(rest) ==
    /\ receiver.life = "alive"
    /\ receiver' = [receiver EXCEPT !.life = "dying"]
    /\ InDone(InReset(pipe.in), <<Do("destroyed", "receiver")>> \o rest)
Drop == Idle /\ DeleteReceiver(<<>>) /\ UNCHANGED <<sender, lost, ghosts>>

\* onShutdown hands over the message, onReset says there will be none.
Heard ==
    /\ Runs("SHUTDOWN", "receiver") \/ Runs("RESET", "receiver")
    /\ heard' = Append(heard, IF Head(stack).event = "RESET" THEN <<"reset">>
                              ELSE <<"message", receiver.buffer>>)
    /\ DeleteReceiver(Rest) \/ (stack' = Rest /\ UNCHANGED <<receiver, pipe, failed>>)
    /\ UNCHANGED <<sender, lost, given, taken, told>>

ReceiverDestroyed ==
    /\ Runs("destroyed", "receiver")
    /\ receiver' = [receiver EXCEPT !.life = "dead"]
    /\ stack' = Rest
    /\ UNCHANGED <<sender, pipe, failed, lost, ghosts>>

-----------------------------------------------------------------------------
(***************************************************************************)
(* What the network does                                                    *)
(***************************************************************************)
objects == <<sender, receiver>>

Pull ==
    /\ Idle /\ lost = {} /\ ReadyToSend(pipe)
    /\ stack' = <<Do("pull", "network")>>
    /\ UNCHANGED <<objects, pipe, failed, lost, ghosts>>

PullOn ==
    /\ Runs("pull", "network")
    /\ \/ \E n \in Sizes(pipe) :
             LET p == PullPiece(pipe, n)
             IN pipe' = p.end /\ stack' = p.calls \o stack
       \/ /\ pipe.packet # <<>> \/ pipe.out.heap = <<>>
          /\ pipe' = SendPacket(pipe) /\ stack' = Rest
    /\ UNCHANGED <<objects, failed, lost, ghosts>>

\* The first packet, whatever it holds, connects the stream.
Connecting == IF pipe.in.state = "none" THEN <<Do("accept", "receiver")>> ELSE <<>>

Deliver ==
    /\ Idle /\ lost = {}
    /\ \E n \in TakenNext(pipe) :
          LET packet == pipe.wire[n]
              eof == IF packet.eof THEN <<Do("eof", "network")>> ELSE <<>>
          IN /\ stack' = Connecting
                   \o <<[to |-> "network", event |-> "arrive", data |-> packet.data]>> \o eof
             /\ pipe' = Take(pipe, n)
    /\ UNCHANGED <<objects, failed, lost, ghosts>>

WriterResetArrives ==
    /\ Idle /\ lost = {} /\ ResetsReader(pipe)
    /\ stack' = Connecting \o <<Do("writerResets", "network")>>
    /\ pipe' = [pipe EXCEPT !.out.complete = TRUE, !.wire = <<>>]
    /\ UNCHANGED <<objects, failed, lost, ghosts>>

Received(event) ==
    CASE event = "arrive"       -> InData(pipe.in, Head(stack).data)
      [] event = "eof"          -> InEnd(pipe.in)
      [] event = "writerResets" -> InWriterResets(pipe.in)
Arrives ==
    /\ \E event \in {"arrive", "eof", "writerResets"} :
          /\ Runs(event, "network")
          /\ InDone(IF Unassigned(pipe.in) THEN Done(pipe.in, <<>>) ELSE Received(event), Rest)
    /\ UNCHANGED <<objects, lost, ghosts>>

ReaderResetArrives ==
    /\ Idle /\ lost = {} /\ ResetsWriter(pipe)
    /\ LET o == IF pipe.out.complete THEN Done(pipe.out, <<>>) ELSE OutReset(pipe.out)
       IN /\ pipe' = [pipe EXCEPT !.in.complete = TRUE, !.wire = <<>>,
                                  !.out = [o.end EXCEPT !.complete = TRUE]]
          /\ stack' = o.calls
    /\ UNCHANGED <<objects, failed, lost, ghosts>>

AckArrives ==
    /\ Idle /\ lost = {} /\ AllTaken(pipe)
    /\ OutDone(OutAcked(pipe.out), <<>>)
    /\ UNCHANGED <<objects, lost, ghosts>>

\* The channel dies, and each side resets its end of the stream when it finds out.
Lose(side) ==
    /\ Idle /\ side \notin lost
    /\ lost' = lost \cup {side}
    /\ CASE side = "sender" /\ ~pipe.out.complete ->
              LET o == OutReset(pipe.out) IN OutDone([o EXCEPT !.end.complete = TRUE], <<>>)
         [] side = "receiver" /\ pipe.in.state # "none" /\ ~pipe.in.complete ->
              LET i == InReset(pipe.in) IN InDone([i EXCEPT !.end.complete = TRUE], <<>>)
         [] OTHER -> UNCHANGED network
    /\ UNCHANGED <<objects, ghosts>>

-----------------------------------------------------------------------------
Init ==
    /\ sender = Unborn /\ receiver = NoReceiver
    /\ pipe = NewPipe /\ lost = {} /\ stack = <<>>
    /\ given = 0 /\ taken = <<>> /\ told = <<>> /\ heard = <<>>
    /\ failed = "no"

Callback ==
    \/ BufferedReady \/ Cleared \/ MessageReady \/ SenderTold \/ SenderDestroyed
    \/ Accept \/ OnReceive \/ Heard \/ ReceiverDestroyed
    \/ PullOn \/ Arrives

Packets == Pull \/ Deliver \/ WriterResetArrives \/ ReaderResetArrives \/ AckArrives

User ==
    \/ Wrap \/ (\E n \in 1..MaxBytes : Write(n)) \/ Shutdown \/ Reset
    \/ (\E n \in 0..MaxBytes : Send(n))
    \/ Delete \/ Drop

Next == Callback \/ Packets \/ User \/ (\E side \in {"sender", "receiver"} : Lose(side))

Spec == Init /\ [][Next]_vars

\* A callback runs on, packets go and arrive, and when one side of a channel is
\* gone the other finds out.
Fairness ==
    /\ WF_vars(Callback)
    /\ WF_vars(Pull) /\ WF_vars(Deliver) /\ WF_vars(AckArrives)
    /\ WF_vars(WriterResetArrives) /\ WF_vars(ReaderResetArrives)
    /\ \A side \in {"sender", "receiver"} : WF_vars(lost # {} /\ Lose(side))
FairSpec == Spec /\ Fairness

-----------------------------------------------------------------------------
(***************************************************************************)
(* Properties                                                               *)
(***************************************************************************)
\* bufferedoutstream.cpp:28-38, 94-107 - the stream is given the bytes the
\* program wrote, each once and in order, and all of them before it is told to
\* shut down; so a message that its sender is told was sent was handed over
\* whole.  (Whether the other end has it then is up to the stream.)
Count(n) == [i \in 1..n |-> i]
WrittenInOrder ==
    /\ taken = Count(Len(taken)) /\ Len(taken) <= given
    /\ pipe.out.state \in {"shutdown", "ending", "acked"} => Len(taken) = given
    /\ \A n \in DOMAIN told : told[n] = "TRUE" => Len(taken) = given

\* bufferedoutstream.cpp:23-26, 30, 53; singlemessageoutstream.cpp:27-45 - the
\* stream is never written twice at a time nor after its end, nothing is called
\* on an object that is gone, and the handlers of each side hear of one outcome,
\* also when the object is deleted in the callback that tells them.
ToldOnce ==
    /\ failed = "no"
    /\ stack # <<>> /\ Head(stack).event \in Methods => ~Gone(Head(stack).to)
    /\ Len(told) <= 1 /\ Len(heard) <= 1

=============================================================================
