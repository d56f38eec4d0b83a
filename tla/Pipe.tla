-------------------------------- MODULE Pipe --------------------------------
(***************************************************************************)
(* A stream as the classes of cusp/cbindings/util see it: what write, read,  *)
(* shutdown and reset do to its two ends (cusp/stream/out-stream-queue.sml   *)
(* and in-stream-queue.sml), which callbacks they make, and when: some make  *)
(* them before they return.                                                 *)
(*                                                                         *)
(* What is lost is sent again, so wire holds what was sent and not taken yet. *)
(* The receiving end takes the data in order, whatever order they come in;   *)
(* but an end of the stream that comes without data may be taken before data  *)
(* that were lost, which are skipped then.  Stream has the segments that this  *)
(* stands for.  (An end that comes while later data wait in the queue of the *)
(* receiving end is taken with the last of them here.)                       *)
(*                                                                         *)
(* A handler that waits is a sequence with at most one element.  A call is   *)
(* [to, event, data]; each operation returns the calls it makes, in order.   *)
(***************************************************************************)
EXTENDS Naturals, Sequences

Tell(waiting, event, data) ==
    [n \in DOMAIN waiting |-> [to |-> waiting[n], event |-> event, data |-> data]]

Done(end, calls) == [end |-> end, calls |-> calls, raised |-> FALSE]
Raises(end) == [end |-> end, calls |-> <<>>, raised |-> TRUE]

-----------------------------------------------------------------------------
(***************************************************************************)
(* The sending end.  buffer is waiting exactly while writer is; heap holds   *)
(* at most one piece, because what is sent again stays on the wire.  The end  *)
(* of the stream is "shutdown" until it is sent, then "ending", then "acked". *)
(***************************************************************************)
NewOut == [state |-> "connected", heap |-> <<>>, buffer |-> <<>>,
           writer |-> <<>>, shutdowner |-> <<>>, complete |-> FALSE]

MakeProgress(o) ==
    IF o.heap # <<>> \/ o.writer = <<>> THEN Done(o, <<>>)
    ELSE Done([o EXCEPT !.heap = <<o.buffer>>, !.buffer = <<>>, !.writer = <<>>],
              Tell(o.writer, "READY", <<>>))

OutWrite(o, data, handler) ==
    IF o.writer # <<>> \/ o.state \in {"shutdown", "ending", "acked"} THEN Raises(o)
    ELSE IF o.state = "reset" THEN Done(o, Tell(<<handler>>, "RESET", <<>>))
    ELSE MakeProgress([o EXCEPT !.buffer = data, !.writer = <<handler>>])

OutShutdown(o, handler) ==
    IF o.writer # <<>> \/ o.state \in {"shutdown", "ending", "acked"} THEN Raises(o)
    ELSE IF o.state = "reset" THEN Done(o, Tell(<<handler>>, "FALSE", <<>>))
    ELSE Done([o EXCEPT !.state = "shutdown", !.shutdowner = <<handler>>], <<>>)

\* The handlers stay, and hear of the reset again.
ResetKeeps(o) ==
    Done([o EXCEPT !.state = "reset", !.heap = <<>>, !.buffer = <<>>],
         Tell(o.shutdowner, "FALSE", <<>>) \o Tell(o.writer, "RESET", <<>>))
OutReset(o) ==
    Done([o EXCEPT !.state = "reset", !.heap = <<>>, !.buffer = <<>>,
                   !.writer = <<>>, !.shutdowner = <<>>],
         Tell(o.shutdowner, "FALSE", <<>>) \o Tell(o.writer, "RESET", <<>>))

\* All was sent and acknowledged.
OutAcked(o) ==
    Done([o EXCEPT !.state = "acked", !.complete = TRUE, !.shutdowner = <<>>],
         Tell(o.shutdowner, "TRUE", <<>>))

-----------------------------------------------------------------------------
(***************************************************************************)
(* The receiving end.  It is "none" until the first packet arrives.  Once it  *)
(* knows the end of the stream it has no id any more, and packets that still  *)
(* come for it are skipped, though acknowledged.                             *)
(***************************************************************************)
NoIn == [state |-> "none", ready |-> <<>>, reader |-> <<>>, complete |-> FALSE]
NewIn == [NoIn EXCEPT !.state = "connected"]

InRead(i, handler) ==
    IF i.state \in {"reset", "resetDown"} THEN Done(i, Tell(<<handler>>, "RESET", <<>>))
    ELSE IF i.reader # <<>> THEN Raises(i)
    ELSE IF i.ready # <<>> THEN
        Done([i EXCEPT !.ready = Tail(@)], Tell(<<handler>>, "DATA", Head(i.ready)))
    ELSE IF i.state = "shutdown" THEN
        Done([i EXCEPT !.complete = TRUE], Tell(<<handler>>, "SHUTDOWN", <<>>))
    ELSE Done([i EXCEPT !.reader = <<handler>>], <<>>)

InData(i, data) ==
    IF data = <<>> \/ i.state \in {"reset", "resetDown"} THEN Done(i, <<>>)
    ELSE IF i.reader = <<>> THEN Done([i EXCEPT !.ready = <<data>> \o @], <<>>)
    ELSE Done([i EXCEPT !.reader = <<>>], Tell(i.reader, "DATA", data))

InEnd(i) ==
    LET state == CASE i.state = "connected" -> "shutdown"
                   [] i.state = "reset"     -> "resetDown"
                   [] OTHER                 -> i.state
        told  == i.ready = <<>> /\ i.reader # <<>>
    IN Done([i EXCEPT !.state = state, !.reader = IF told THEN <<>> ELSE @,
                      !.complete = @ \/ told \/ state = "resetDown"],
            IF told THEN Tell(i.reader, "SHUTDOWN", <<>>) ELSE <<>>)

InReset(i) ==
    LET down == i.state \in {"shutdown", "resetDown"}
    IN Done([i EXCEPT !.state = IF down THEN "resetDown" ELSE "reset",
                      !.ready = <<>>, !.reader = <<>>, !.complete = @ \/ down],
            Tell(i.reader, "RESET", <<>>))

Unassigned(i) == i.complete \/ i.state = "shutdown"

\* A reset that looks like the end of the data.
ResetAsEnd(i) == InEnd([i EXCEPT !.ready = <<>>])
InWriterResets(i) == InReset([i EXCEPT !.state = "shutdown", !.ready = <<>>])

-----------------------------------------------------------------------------
(***************************************************************************)
(* Both ends and what is between them.  A pull takes pieces from the sending *)
(* end into a packet; every piece it finishes lets the writer go on, in the  *)
(* middle of the pull.                                                      *)
(***************************************************************************)
NoPipe == [out |-> [NewOut EXCEPT !.complete = TRUE], in |-> NoIn, packet |-> <<>>, wire |-> <<>>]
NewPipe == [NoPipe EXCEPT !.out = NewOut]

ReadyToSend(p) ==
    /\ ~p.out.complete
    /\ p.out.state # "reset"
    /\ p.out.heap # <<>> \/ p.out.state = "shutdown"

\* Pull n elements of the piece that waits.
Sizes(p) == IF p.out.heap = <<>> THEN {}
            ELSE (IF Head(p.out.heap) = <<>> THEN {0} ELSE 1..Len(Head(p.out.heap)))
PullPiece(p, n) ==
    LET piece == Head(p.out.heap)
        rest  == SubSeq(piece, n + 1, Len(piece))
        moved == IF n < Len(piece) THEN Done([p.out EXCEPT !.heap = <<rest>>], <<>>)
                 ELSE MakeProgress([p.out EXCEPT !.heap = <<>>])
    IN Done([p EXCEPT !.out = moved.end, !.packet = @ \o SubSeq(piece, 1, n)], moved.calls)

\* The end goes with the last of the data.
Ends(p) == p.out.state = "shutdown" /\ p.out.heap = <<>>
SendPacket(p) ==
    [p EXCEPT !.out.state = IF Ends(p) THEN "ending" ELSE @,
              !.packet = <<>>,
              !.wire = Append(@, [data |-> p.packet, eof |-> Ends(p)])]

\* The packets that may be taken next: the first, or an end without data.
TakenNext(p) == {n \in DOMAIN p.wire : n = 1 \/ (p.wire[n].eof /\ p.wire[n].data = <<>>)}
Take(p, n) ==
    [p EXCEPT !.wire = SubSeq(p.wire, 1, n - 1) \o SubSeq(p.wire, n + 1, Len(p.wire))]

\* Every packet was taken, the one with the end too.
AllTaken(p) == p.out.state = "ending" /\ ~p.out.complete /\ p.wire = <<>>
ResetsReader(p) == p.out.state = "reset" /\ ~p.out.complete
ResetsWriter(p) == p.in.state = "reset" /\ ~p.in.complete
=============================================================================
