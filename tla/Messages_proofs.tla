--------------------------- MODULE Messages_proofs ---------------------------
(***************************************************************************)
(* Proofs about Messages: what the stream is given is what the program       *)
(* wrote (WrittenInOrder), and each side hears of one outcome (ToldOnce).    *)
(*                                                                         *)
(* The calls on the stack are of few kinds, and only few may wait behind     *)
(* each (Follows), so a callback of the sender never waits behind another.   *)
(* SenderInv says who the sender's end of the stream will still tell,        *)
(* ReceiverInv the same of the other end.                                   *)
(***************************************************************************)
EXTENDS Messages, SequenceTheorems, TLAPS

Outcomes == {"RESET", "TRUE", "FALSE"}
Endings  == {"SHUTDOWN", "RESET"}
Arrivals == {"arrive", "eof", "writerResets"}

Bytes == Seq(Nat)
Calls == [to : {"sender", "user", "receiver", "network"},
          event : Methods \cup Arrivals \cup {"destroyed", "accept", "pull"},
          data : Bytes]

IsOutcome(c) == c.to \in {"sender", "user"} /\ c.event \in Outcomes
IsEnding(c)  == c.to = "receiver" /\ c.event \in Endings
IsData(c)    == c.to = "receiver" /\ c.event = "DATA"
IsArrival(c) == c.to = "network" /\ c.event \in Arrivals

ReadyCall   == Do("READY", "sender")
ClearedCall == Do("cleared", "sender")
PullCall    == Do("pull", "network")
AcceptCall  == Do("accept", "receiver")
EofCall     == Do("eof", "network")
ResetsCall  == Do("writerResets", "network")
Destroy(e)  == Do("destroyed", e)

Kind(c) ==
    \/ c \in {ReadyCall, ClearedCall, PullCall, AcceptCall, EofCall, ResetsCall}
    \/ c = Destroy("sender") \/ c = Destroy("receiver")
    \/ IsOutcome(c) \/ IsEnding(c) \/ IsData(c)
    \/ c.to = "network" /\ c.event = "arrive"

\* The call d may wait behind the call c.
Follows(c, d) ==
    \/ c \in {ReadyCall, ClearedCall} /\ d = PullCall
    \/ IsOutcome(c) /\ d = Destroy("sender")
    \/ IsEnding(c) /\ d = Destroy("receiver")
    \/ c = AcceptCall /\ (d = ResetsCall \/ (d.to = "network" /\ d.event = "arrive"))
    \/ c.event \in {"arrive", "DATA"} /\ d = EofCall

Asked == sender.kind = "message" \/ sender.shutdownRequest
All   == Len(taken) = given

\* What holds while c waits in the stack.
Waits(c) ==
    /\ c = PullCall => pipe.out.state \in {"connected", "shutdown"}
    /\ c = Destroy("sender") => sender.life = "dying"
    /\ c = Destroy("receiver") => receiver.life = "dying"

\* Nobody will tell the sender anything.
Silent == pipe.out.writer = <<>> /\ pipe.out.shutdowner = <<>>

\* What holds when c is the next to run.
Runnable(c) ==
    /\ c = ReadyCall => /\ sender.life = "alive" /\ ~sender.ready /\ told = <<>>
                        /\ pipe.out.state = "connected" /\ pipe.out.heap # <<>> /\ Silent
    /\ c = ClearedCall => /\ sender.kind = "buffered" /\ sender.life = "alive"
                          /\ ~sender.ready /\ All
    /\ IsOutcome(c) => /\ Silent /\ told = <<>> /\ (~sender.ready \/ Asked)
                       /\ sender.life \in {"alive", "reset", "dying"}
                       /\ c.event = "TRUE" => All /\ Asked
    /\ c = AcceptCall => pipe.in = NoIn
    /\ IsArrival(c) => pipe.in.state # "none"
    /\ IsData(c) => /\ pipe.in.reader = <<>> /\ pipe.in.state # "none"
                    /\ receiver.life = "alive"
    /\ IsEnding(c) => /\ pipe.in.reader = <<>> /\ pipe.in.state # "none"
                      /\ heard = <<>> /\ receiver.life \in {"alive", "dying"}

Shape(s) ==
    /\ s \in Seq(Calls)
    /\ \A n \in 1..Len(s) : Kind(s[n])
    /\ \A n \in 1..(Len(s) - 1) : Follows(s[n], s[n+1])

StackInv ==
    /\ Shape(stack)
    /\ \A n \in 1..Len(stack) : Waits(stack[n])
    /\ Len(stack) > 0 => Runnable(stack[1])

Pending == Len(stack) > 0 /\ stack[1] = ClearedCall

OutStates   == {"connected", "shutdown", "ending", "acked", "reset"}
InStates    == {"none", "connected", "shutdown", "reset", "resetDown"}
Pieces      == Seq(Bytes)
Wires       == Seq([data : Bytes, eof : BOOLEAN])
Writers     == {<<>>, <<"sender">>}
Shutdowners == {<<>>, <<"sender">>, <<"user">>}
Readers     == {<<>>, <<"receiver">>}

OutType == [state : OutStates, heap : Pieces, buffer : Bytes, writer : Writers,
            shutdowner : Shutdowners, complete : BOOLEAN]
InType  == [state : InStates, ready : Pieces, reader : Readers, complete : BOOLEAN]

PipeType ==
    [out : OutType, in : InType, packet : Bytes, wire : Wires]

SenderType ==
    [kind : {"none", "buffered", "message"},
     life : {"unborn", "alive", "reset", "dying", "dead"},
     ready : BOOLEAN, buf : Bytes, shutdownRequest : BOOLEAN]

ReceiverType == [life : {"unborn", "alive", "dying", "dead"}, buffer : Bytes]

TypeInv ==
    /\ sender \in SenderType /\ receiver \in ReceiverType
    /\ pipe \in PipeType /\ Len(pipe.out.heap) <= 1
    /\ lost \in SUBSET {"sender", "receiver"}
    /\ given \in Nat /\ taken \in Bytes
    /\ told \in Seq(Outcomes) /\ Len(told) <= 1
    /\ heard \in Seq({<<"reset">>} \cup {"message"} \X Bytes) /\ Len(heard) <= 1
    /\ failed = "no"

\* Who will hear of an outcome, and that nobody hears twice.
SenderInv ==
    /\ sender.kind = "none" <=> sender.life = "unborn"
    /\ sender.life = "unborn" =>
          /\ ~sender.ready /\ ~sender.shutdownRequest /\ sender.buf = <<>>
          /\ told = <<>> /\ given = 0 /\ Silent /\ pipe.out.heap = <<>>
          /\ pipe.out.state \in {"connected", "reset"}
    /\ sender.life \in {"reset", "dying", "dead"} =>
          ~sender.ready /\ pipe.out.state = "reset"
    /\ sender.kind = "message" => ~sender.ready
    /\ sender.ready => pipe.out.writer = <<>> /\ sender.buf = <<>>
    /\ sender.ready /\ ~Asked => told = <<>> /\ pipe.out.state \in {"connected", "reset"}
    /\ pipe.out.writer # <<>> =>
          /\ pipe.out.writer = <<"sender">> /\ sender.life = "alive" /\ ~sender.ready
          /\ pipe.out.state = "connected" /\ pipe.out.shutdowner = <<>> /\ told = <<>>
          /\ pipe.out.heap # <<>>
    /\ pipe.out.writer = <<>> => pipe.out.buffer = <<>>
    /\ pipe.out.shutdowner # <<>> =>
          /\ pipe.out.state \in {"shutdown", "ending"}
          /\ sender.life = "alive" /\ told = <<>>
    /\ pipe.out.state \in {"shutdown", "ending", "acked"} => All /\ Asked
    /\ pipe.out.state \in {"ending", "acked", "reset"} => pipe.out.heap = <<>>
    /\ \A n \in DOMAIN told : told[n] = "TRUE" => All /\ Asked

\* The bytes the stream was given, and those that wait to be written.
WriteInv ==
    /\ taken = Count(Len(taken)) /\ Len(taken) <= given
    /\ sender.kind = "message" => All
    /\ sender.kind = "buffered" /\ sender.life = "alive" /\ ~Pending =>
          /\ Len(taken) + Len(sender.buf) = given
          /\ \A n \in 1..Len(sender.buf) : sender.buf[n] = Len(taken) + n

ReceiverInv ==
    /\ pipe.in.state = "none" =>
          pipe.in = NoIn /\ receiver = NoReceiver /\ heard = <<>>
    /\ pipe.in.reader # <<>> =>
          /\ receiver = [life |-> "alive", buffer |-> <<>>] /\ heard = <<>>
          /\ pipe.in.state \in {"connected", "shutdown"} /\ ~pipe.in.complete

MessagesInv ==
    /\ TypeInv /\ StackInv
    /\ SenderInv /\ WriteInv /\ ReceiverInv

-----------------------------------------------------------------------------
(***************************************************************************)
(* Sequences, and the stack                                                 *)
(***************************************************************************)
LEMMA Popped ==
    ASSUME NEW S, NEW s \in Seq(S), s # <<>>
    PROVE  /\ Tail(s) \in Seq(S) /\ Len(Tail(s)) = Len(s) - 1 /\ Len(s) > 0
           /\ Head(s) = s[1]
           /\ \A n \in 1..(Len(s) - 1) : Tail(s)[n] = s[n+1]
  OBVIOUS

LEMMA Pushed ==
    ASSUME NEW S, NEW s \in Seq(S), NEW c \in S
    PROVE  /\ <<c>> \o s \in Seq(S) /\ Len(<<c>> \o s) = Len(s) + 1
           /\ (<<c>> \o s)[1] = c
           /\ \A n \in 1..Len(s) : (<<c>> \o s)[n+1] = s[n]
           /\ \A n \in 2..(Len(s) + 1) : (<<c>> \o s)[n] = s[n-1]
  OBVIOUS

LEMMA NothingPushed ==
    ASSUME NEW S, NEW s \in Seq(S)
    PROVE  <<>> \o s = s /\ s \o <<>> = s
  OBVIOUS

LEMMA Appended ==
    ASSUME NEW S, NEW s \in Seq(S), NEW x \in S
    PROVE  /\ Append(s, x) \in Seq(S) /\ Len(Append(s, x)) = Len(s) + 1
           /\ Append(s, x)[Len(s) + 1] = x
           /\ \A n \in 1..Len(s) : Append(s, x)[n] = s[n]
  OBVIOUS

LEMMA Joined ==
    ASSUME NEW S, NEW s \in Seq(S), NEW t \in Seq(S)
    PROVE  /\ s \o t \in Seq(S) /\ Len(s \o t) = Len(s) + Len(t)
           /\ \A n \in 1..Len(s) : (s \o t)[n] = s[n]
           /\ \A n \in 1..Len(t) : (s \o t)[Len(s) + n] = t[n]
  OBVIOUS

\* What waits behind a call, and behind a call in its place.
LEMMA PoppedShape ==
    ASSUME NEW s, Shape(s), s # <<>>
    PROVE  Shape(Tail(s)) /\ (Tail(s) # <<>> => Follows(s[1], Tail(s)[1]))
<1>1. /\ Tail(s) \in Seq(Calls) /\ Len(Tail(s)) = Len(s) - 1
      /\ \A n \in 1..(Len(s) - 1) : Tail(s)[n] = s[n+1]
  BY Popped DEF Shape
<1>2. \A n \in 1..Len(Tail(s)) : Kind(Tail(s)[n])
  BY <1>1 DEF Shape
<1>3. \A n \in 1..(Len(Tail(s)) - 1) : Follows(Tail(s)[n], Tail(s)[n+1])
  BY <1>1 DEF Shape
<1>4. Tail(s) # <<>> => Len(s) > 1 /\ Tail(s)[1] = s[2]
  BY <1>1 DEF Shape
<1>5. Len(s) > 1 => Follows(s[1], s[2])
  BY DEF Shape
<1> QED BY <1>1, <1>2, <1>3, <1>4, <1>5 DEF Shape

LEMMA PushedShape ==
    ASSUME NEW s, Shape(s), NEW c \in Calls, Kind(c), s # <<>> => Follows(c, s[1])
    PROVE  Shape(<<c>> \o s)
<1>1. /\ <<c>> \o s \in Seq(Calls) /\ Len(<<c>> \o s) = Len(s) + 1
      /\ (<<c>> \o s)[1] = c
      /\ \A n \in 2..(Len(s) + 1) : (<<c>> \o s)[n] = s[n-1]
  BY Pushed DEF Shape
<1>2. \A n \in 1..Len(<<c>> \o s) : Kind((<<c>> \o s)[n])
  BY <1>1 DEF Shape
<1>3. ASSUME NEW n \in 1..Len(s)
      PROVE  Follows((<<c>> \o s)[n], (<<c>> \o s)[n+1])
  <2>1. (<<c>> \o s)[n+1] = s[n]
    BY <1>1 DEF Shape
  <2>2. CASE n = 1
    BY <1>1, <2>1, <2>2 DEF Shape
  <2>3. CASE n # 1
    <3>1. (<<c>> \o s)[n] = s[n-1] /\ n-1 \in 1..(Len(s) - 1)
      BY <1>1, <2>3 DEF Shape
    <3> QED BY <2>1, <3>1 DEF Shape
  <2> QED BY <2>2, <2>3
<1> QED BY <1>1, <1>2, <1>3 DEF Shape

LEMMA EmptyShape == Shape(<<>>)
  BY DEF Shape

\* Only these calls wait behind another.
Late(c) == \/ c \in {PullCall, ResetsCall, EofCall} \/ (c.to = "network" /\ c.event = "arrive")
           \/ c = Destroy("sender") \/ c = Destroy("receiver")
LEMMA OnlyLate ==
    ASSUME NEW s, Shape(s), NEW n \in 2..Len(s)
    PROVE  Late(s[n])
<1>1. n-1 \in 1..(Len(s) - 1) /\ (n-1)+1 = n
  BY DEF Shape
<1>2. Follows(s[n-1], s[n])
  BY <1>1 DEF Shape
<1> QED BY <1>2 DEF Follows, Late

-----------------------------------------------------------------------------
(***************************************************************************)
(* What the operations of Pipe do                                           *)
(***************************************************************************)
\* Who may wait, and what may be about.
LEMMA Members ==
    /\ <<>> \in Writers /\ <<"sender">> \in Writers
    /\ <<>> \in Shutdowners /\ <<"sender">> \in Shutdowners /\ <<"user">> \in Shutdowners
    /\ <<>> \in Readers /\ <<"receiver">> \in Readers
    /\ <<>> \in Bytes /\ <<>> \in Pieces /\ <<>> \in Wires
    /\ \A d \in Bytes : <<d>> \in Pieces /\ <<d>> # <<>> /\ Len(<<d>>) = 1 /\ <<d>>[1] = d
    /\ \A w \in Writers : w # <<>> => w = <<"sender">>
    /\ \A w \in Shutdowners : w # <<>> => w = <<"sender">> \/ w = <<"user">>
    /\ \A w \in Readers : w # <<>> => w = <<"receiver">>
    /\ <<"sender">> # <<>> /\ <<"user">> # <<>> /\ <<"receiver">> # <<>>
<1>1. \A d \in Bytes : <<d>> \in Pieces /\ <<d>> # <<>> /\ Len(<<d>>) = 1 /\ <<d>>[1] = d
  BY DEF Pieces
<1>2. <<>> \in Bytes /\ <<>> \in Pieces /\ <<>> \in Wires
  BY DEF Bytes, Pieces, Wires
<1>3. \A x : <<x>> # <<>>
  OBVIOUS
<1> QED BY <1>1, <1>2, <1>3, Zenon DEF Writers, Shutdowners, Readers

LEMMA Joining ==
    ASSUME NEW s \in Bytes, NEW t \in Bytes
    PROVE  s \o t \in Bytes /\ (s \o t # <<>> <=> s # <<>> \/ t # <<>>)
  BY DEF Bytes

Call(e, event, d) == [to |-> e, event |-> event, data |-> d]

LEMMA TellNobody == \A event, d : Tell(<<>>, event, d) = <<>>
  BY DEF Tell

LEMMA TellOne == \A e, event, d : Tell(<<e>>, event, d) = <<Call(e, event, d)>>
  BY DEF Tell, Call

LEMMA Written ==
    ASSUME NEW o \in OutType, NEW d \in Bytes, o.writer = <<>>,
           o.state \in {"connected", "reset"}
    PROVE  LET r == OutWrite(o, d, "sender")
           IN /\ ~r.raised
              /\ o.state = "reset" => r.end = o /\ r.calls = <<Call("sender", "RESET", <<>>)>>
              /\ o.state = "connected" /\ o.heap = <<>> =>
                    /\ r.end = [o EXCEPT !.heap = <<d>>, !.buffer = <<>>, !.writer = <<>>]
                    /\ r.calls = <<ReadyCall>>
              /\ o.state = "connected" /\ o.heap # <<>> =>
                    /\ r.end = [o EXCEPT !.buffer = d, !.writer = <<"sender">>]
                    /\ r.calls = <<>>
<1> DEFINE q == [o EXCEPT !.buffer = d, !.writer = <<"sender">>]
<1>1. q.heap = o.heap /\ q.writer = <<"sender">> /\ q.buffer = d /\ q.writer # <<>>
  BY Members DEF OutType
<1>2. [q EXCEPT !.heap = <<q.buffer>>, !.buffer = <<>>, !.writer = <<>>]
        = [o EXCEPT !.heap = <<d>>, !.buffer = <<>>, !.writer = <<>>]
  BY DEF OutType
<1>3. CASE o.state = "reset"
  BY <1>3, TellOne DEF OutWrite, Done
<1>4. CASE o.state = "connected" /\ o.heap = <<>>
  <2>1. OutWrite(o, d, "sender") = MakeProgress(q)
    BY <1>4 DEF OutWrite
  <2>2. MakeProgress(q) = Done([q EXCEPT !.heap = <<q.buffer>>, !.buffer = <<>>, !.writer = <<>>],
                               Tell(q.writer, "READY", <<>>))
    BY <1>1, <1>4 DEF MakeProgress
  <2> QED BY <1>1, <1>2, <1>4, <2>1, <2>2, TellOne DEF Done, Call, ReadyCall, Do
<1>5. CASE o.state = "connected" /\ o.heap # <<>>
  BY <1>1, <1>5 DEF OutWrite, MakeProgress, Done
<1> QED BY <1>3, <1>4, <1>5

LEMMA ShutDown ==
    ASSUME NEW o \in OutType, NEW e, o.writer = <<>>, o.state \in {"connected", "reset"}
    PROVE  LET r == OutShutdown(o, e)
           IN /\ ~r.raised
              /\ o.state = "reset" => r.end = o /\ r.calls = <<Call(e, "FALSE", <<>>)>>
              /\ o.state = "connected" =>
                    /\ r.end = [o EXCEPT !.state = "shutdown", !.shutdowner = <<e>>]
                    /\ r.calls = <<>>
  BY TellOne DEF OutShutdown, Done

\* Who waited hears of the reset.
ResetEnd(o) == [o EXCEPT !.state = "reset", !.heap = <<>>, !.buffer = <<>>,
                         !.writer = <<>>, !.shutdowner = <<>>]
LEMMA WasReset ==
    ASSUME NEW o \in OutType, o.writer = <<>> \/ o.shutdowner = <<>>
    PROVE  LET r == OutReset(o)
           IN /\ ~r.raised /\ r.end = ResetEnd(o)
              /\ o.writer = <<>> /\ o.shutdowner = <<>> => r.calls = <<>>
              /\ o.writer # <<>> => r.calls = <<Call("sender", "RESET", <<>>)>>
              /\ o.shutdowner # <<>> => \E e \in {"sender", "user"} :
                    o.shutdowner = <<e>> /\ r.calls = <<Call(e, "FALSE", <<>>)>>
<1> DEFINE r == OutReset(o)
           first  == Tell(o.shutdowner, "FALSE", <<>>)
           second == Tell(o.writer, "RESET", <<>>)
<1>1. ~r.raised /\ r.end = ResetEnd(o) /\ r.calls = first \o second
  BY DEF OutReset, ResetEnd, Done
<1>2. \A x : <<>> \o <<x>> = <<x>> /\ <<x>> \o <<>> = <<x>>
  OBVIOUS
<1>3. <<>> \o <<>> = <<>>
  OBVIOUS
<1>4. /\ o.writer = <<>> \/ o.writer = <<"sender">>
      /\ o.shutdowner = <<>> \/ \E e \in {"sender", "user"} : o.shutdowner = <<e>>
  BY Members DEF OutType
<1>5. /\ o.writer = <<>> => second = <<>>
      /\ o.writer = <<"sender">> => second = <<Call("sender", "RESET", <<>>)>>
      /\ o.shutdowner = <<>> => first = <<>>
      /\ \A e : o.shutdowner = <<e>> => first = <<Call(e, "FALSE", <<>>)>>
  <2>1. o.writer = <<>> => second = <<>>
    BY TellNobody
  <2>2. o.writer = <<"sender">> => second = <<Call("sender", "RESET", <<>>)>>
    BY TellOne
  <2>3. o.shutdowner = <<>> => first = <<>>
    BY TellNobody
  <2>4. \A e : o.shutdowner = <<e>> => first = <<Call(e, "FALSE", <<>>)>>
    BY TellOne
  <2> QED BY <2>1, <2>2, <2>3, <2>4
<1> HIDE DEF r, first, second
<1>6. CASE o.shutdowner = <<>>
  BY <1>1, <1>2, <1>3, <1>4, <1>5, <1>6, Members DEF r
<1>7. ASSUME NEW e \in {"sender", "user"}, o.shutdowner = <<e>>
      PROVE  o.writer = <<>> /\ r.calls = <<Call(e, "FALSE", <<>>)>>
  <2>1. o.writer = <<>>
    BY <1>7, Members
  <2>2. r.calls = first
    BY <1>1, <1>2, <1>5, <1>7, <2>1
  <2> QED BY <1>5, <1>7, <2>1, <2>2
<1>8. CASE o.shutdowner # <<>>
  BY <1>1, <1>4, <1>7, <1>8, Zenon DEF r
<1> QED BY <1>6, <1>8

LEMMA Acked ==
    ASSUME NEW o \in OutType
    PROVE  LET r == OutAcked(o)
           IN /\ ~r.raised
              /\ r.end = [o EXCEPT !.state = "acked", !.complete = TRUE, !.shutdowner = <<>>]
              /\ o.shutdowner = <<>> => r.calls = <<>>
              /\ o.shutdowner # <<>> => \E e \in {"sender", "user"} :
                    o.shutdowner = <<e>> /\ r.calls = <<Call(e, "TRUE", <<>>)>>
<1> DEFINE r == OutAcked(o)
<1>1. /\ ~r.raised
      /\ r.end = [o EXCEPT !.state = "acked", !.complete = TRUE, !.shutdowner = <<>>]
      /\ r.calls = Tell(o.shutdowner, "TRUE", <<>>)
  BY DEF OutAcked, Done
<1>2. o.shutdowner = <<>> \/ \E e \in {"sender", "user"} : o.shutdowner = <<e>>
  BY Members DEF OutType
<1> HIDE DEF r
<1>3. ASSUME NEW e \in {"sender", "user"}, o.shutdowner = <<e>>
      PROVE  r.calls = <<Call(e, "TRUE", <<>>)>>
  BY <1>1, <1>3, TellOne
<1> QED BY <1>1, <1>2, <1>3, TellNobody DEF r

\* A pull takes some of the piece that waits, or all of it.
LEMMA PieceOff ==
    ASSUME NEW p \in PipeType, Len(p.out.heap) <= 1, NEW n \in Sizes(p)
    PROVE  LET r == PullPiece(p, n)
           IN /\ p.out.heap # <<>> /\ r.end \in PipeType /\ Len(r.end.out.heap) <= 1
              /\ r.end.in = p.in /\ r.end.wire = p.wire
              /\ p.packet # <<>> => r.end.packet # <<>>
              /\ p.out.heap[1] # <<>> => r.end.packet # <<>>
              /\ \/ \E d \in Bytes : r.end.out = [p.out EXCEPT !.heap = <<d>>] /\ r.calls = <<>>
                 \/ p.out.writer = <<>> /\ r.end.out = [p.out EXCEPT !.heap = <<>>] /\ r.calls = <<>>
                 \/ /\ p.out.writer # <<>> /\ r.calls = <<ReadyCall>>
                    /\ r.end.out = [p.out EXCEPT !.heap = <<p.out.buffer>>, !.buffer = <<>>, !.writer = <<>>]
<1> DEFINE piece == p.out.heap[1]
           sent  == SubSeq(piece, 1, n)
           rest  == SubSeq(piece, n+1, Len(piece))
           empty == [p.out EXCEPT !.heap = <<>>]
           moved == IF n < Len(piece) THEN Done([p.out EXCEPT !.heap = <<rest>>], <<>>)
                    ELSE MakeProgress(empty)
           r == PullPiece(p, n)
<1>1. p.out \in OutType /\ p.packet \in Bytes /\ p.out.heap # <<>>
  BY DEF PipeType, Sizes
<1>2. piece \in Bytes /\ Head(p.out.heap) = piece
  BY <1>1 DEF OutType, Pieces
<1>3. n \in Nat /\ n <= Len(piece) /\ (piece # <<>> => n >= 1)
  BY <1>1, <1>2 DEF Sizes, Bytes
<1>4. sent \in Bytes /\ rest \in Bytes /\ (piece # <<>> => sent # <<>>)
  <2>1. sent \in Bytes /\ Len(sent) = n
    BY <1>2, <1>3 DEF Bytes
  <2>2. rest \in Bytes
    BY <1>2, <1>3 DEF Bytes
  <2> HIDE DEF sent, rest, piece
  <2>4. \A x : x = <<>> => Len(x) = 0
    OBVIOUS
  <2>5. sent = <<>> => n = 0
    BY <2>1, <2>4
  <2> QED BY <1>3, <2>1, <2>2, <2>5
<1>5. r = Done([p EXCEPT !.out = moved.end, !.packet = @ \o sent], moved.calls)
  BY <1>2 DEF PullPiece
<1>6. /\ p.packet \o sent \in Bytes
      /\ p.packet # <<>> \/ piece # <<>> => p.packet \o sent # <<>>
  BY <1>1, <1>4, Joining
<1> HIDE DEF r
<1>7. \/ moved = Done([p.out EXCEPT !.heap = <<rest>>], <<>>)
      \/ p.out.writer = <<>> /\ moved = Done(empty, <<>>)
      \/ /\ p.out.writer # <<>>
         /\ moved = Done([p.out EXCEPT !.heap = <<p.out.buffer>>, !.buffer = <<>>, !.writer = <<>>],
                         <<ReadyCall>>)
  <2>1. /\ empty.heap = <<>> /\ empty.writer = p.out.writer /\ empty.buffer = p.out.buffer
        /\ [empty EXCEPT !.heap = <<empty.buffer>>, !.buffer = <<>>, !.writer = <<>>]
              = [p.out EXCEPT !.heap = <<p.out.buffer>>, !.buffer = <<>>, !.writer = <<>>]
    BY <1>1 DEF OutType
  <2> HIDE DEF empty
  <2>2. CASE n < Len(piece)
    BY <2>2
  <2>3. CASE ~(n < Len(piece)) /\ p.out.writer = <<>>
    BY <2>1, <2>3 DEF MakeProgress
  <2>4. CASE ~(n < Len(piece)) /\ p.out.writer # <<>>
    <3>1. p.out.writer = <<"sender">>
      BY <1>1, <2>4, Members DEF OutType
    <3>2. Tell(<<"sender">>, "READY", <<>>) = <<ReadyCall>>
      BY TellOne DEF Call, ReadyCall, Do
    <3>3. moved = Done([empty EXCEPT !.heap = <<empty.buffer>>, !.buffer = <<>>, !.writer = <<>>],
                       Tell(empty.writer, "READY", <<>>))
      BY <2>1, <2>4 DEF MakeProgress
    <3> QED BY <2>1, <2>4, <3>1, <3>2, <3>3
  <2> QED BY <2>2, <2>3, <2>4
<1> HIDE DEF moved, rest, sent, piece
<1>8. /\ r.calls = moved.calls
      /\ r.end = [p EXCEPT !.out = moved.end, !.packet = p.packet \o sent]
  BY <1>5 DEF Done
<1>9. /\ r.end.out = moved.end /\ r.end.in = p.in /\ r.end.wire = p.wire
      /\ r.end.packet = p.packet \o sent
      /\ moved.end \in OutType => r.end \in PipeType
  BY <1>6, <1>8 DEF PipeType
<1>10. /\ p.out.heap # <<>> /\ r.end.in = p.in /\ r.end.wire = p.wire
       /\ p.packet # <<>> => r.end.packet # <<>>
       /\ p.out.heap[1] # <<>> => r.end.packet # <<>>
  BY <1>1, <1>6, <1>9 DEF piece
<1>11. CASE moved = Done([p.out EXCEPT !.heap = <<rest>>], <<>>)
  <2>1. moved.end = [p.out EXCEPT !.heap = <<rest>>] /\ moved.calls = <<>>
    BY <1>11 DEF Done
  <2>2. moved.end \in OutType /\ Len(moved.end.heap) <= 1
    BY <1>1, <1>4, <2>1, Members DEF OutType
  <2> QED BY <1>4, <1>8, <1>9, <1>10, <2>1, <2>2 DEF r
<1>12. CASE p.out.writer = <<>> /\ moved = Done(empty, <<>>)
  <2>1. moved.end = empty /\ moved.calls = <<>>
    BY <1>12 DEF Done
  <2>2. moved.end \in OutType /\ moved.end.heap = <<>>
    BY <1>1, <2>1, Members DEF OutType
  <2> QED BY <1>8, <1>9, <1>10, <1>12, <2>1, <2>2 DEF r
<1>13. CASE /\ p.out.writer # <<>>
            /\ moved = Done([p.out EXCEPT !.heap = <<p.out.buffer>>, !.buffer = <<>>, !.writer = <<>>],
                         <<ReadyCall>>)
  <2>1. /\ moved.end = [p.out EXCEPT !.heap = <<p.out.buffer>>, !.buffer = <<>>, !.writer = <<>>]
        /\ moved.calls = <<ReadyCall>>
    BY <1>13 DEF Done
  <2>2. /\ p.out.buffer \in Bytes /\ <<p.out.buffer>> \in Pieces /\ Len(<<p.out.buffer>>) = 1
        /\ <<>> \in Bytes /\ <<>> \in Writers
    BY <1>1, Members DEF OutType
  <2>3. moved.end \in OutType /\ moved.end.heap = <<p.out.buffer>>
    BY <1>1, <2>1, <2>2 DEF OutType
  <2>4. /\ r.end.out = [p.out EXCEPT !.heap = <<p.out.buffer>>, !.buffer = <<>>, !.writer = <<>>]
        /\ r.calls = <<ReadyCall>>
    BY <1>8, <1>9, <2>1
  <2>5. r.end \in PipeType /\ Len(r.end.out.heap) <= 1
    BY <1>9, <2>2, <2>3
  <2> QED BY <1>10, <1>13, <2>4, <2>5 DEF r
<1> QED BY <1>7, <1>11, <1>12, <1>13

-----------------------------------------------------------------------------
\* The receiving end: what each operation leaves, and whom it tells.
LEMMA FirstRead ==
    LET r == InRead(NewIn, "receiver")
    IN  ~r.raised /\ r.calls = <<>> /\ r.end = [NewIn EXCEPT !.reader = <<"receiver">>]
  BY DEF InRead, NewIn, NoIn, Done

LEMMA DataCame ==
    ASSUME NEW i \in InType, NEW d \in Bytes
    PROVE  LET r == InData(i, d)
           IN /\ ~r.raised /\ r.end \in InType /\ r.end.state = i.state
              /\ r.end.complete = i.complete
              /\ \/ r.calls = <<>> /\ r.end.reader = i.reader
                    /\ (d = <<>> \/ i.reader = <<>> \/ i.state \in {"reset", "resetDown"})
                 \/ /\ i.reader # <<>> /\ r.end.reader = <<>>
                    /\ r.calls = <<Call("receiver", "DATA", d)>>
<1> DEFINE r == InData(i, d)
<1>1. CASE d = <<>> \/ i.state \in {"reset", "resetDown"}
  BY <1>1 DEF InData, Done
<1>2. CASE ~(d = <<>> \/ i.state \in {"reset", "resetDown"}) /\ i.reader = <<>>
  <2>1. r.end = [i EXCEPT !.ready = <<d>> \o i.ready] /\ r.calls = <<>> /\ ~r.raised
    BY <1>2 DEF InData, Done
  <2>2. <<d>> \o i.ready \in Pieces
    BY DEF InType, Pieces
  <2>3. /\ r.end \in InType /\ r.end.state = i.state /\ r.end.reader = i.reader
        /\ r.end.complete = i.complete
    BY <2>1, <2>2 DEF InType
  <2> QED BY <1>2, <2>1, <2>3
<1>3. CASE ~(d = <<>> \/ i.state \in {"reset", "resetDown"}) /\ i.reader # <<>>
  <2>1. i.reader = <<"receiver">>
    BY <1>3, Members DEF InType
  <2>2. Tell(i.reader, "DATA", d) = <<Call("receiver", "DATA", d)>>
    BY <2>1, TellOne
  <2>3. r.end = [i EXCEPT !.reader = <<>>] /\ r.calls = Tell(i.reader, "DATA", d) /\ ~r.raised
    BY <1>3 DEF InData, Done
  <2>4. /\ r.end \in InType /\ r.end.state = i.state /\ r.end.reader = <<>>
        /\ r.end.complete = i.complete
    BY <2>3, Members DEF InType
  <2> QED BY <1>3, <2>2, <2>3, <2>4
<1> QED BY <1>1, <1>2, <1>3

LEMMA EndCame ==
    ASSUME NEW i \in InType, i.state # "none"
    PROVE  LET r == InEnd(i)
           IN /\ ~r.raised /\ r.end \in InType /\ r.end.state # "none"
              /\ i.state \in {"connected", "shutdown"} => r.end.state = "shutdown"
              /\ \/ r.calls = <<>> /\ r.end.reader = i.reader
                    /\ (i.state \in {"connected", "shutdown"} => r.end.complete = i.complete)
                 \/ /\ i.reader # <<>> /\ r.end.reader = <<>>
                    /\ r.calls = <<Call("receiver", "SHUTDOWN", <<>>)>>
<1> DEFINE state == CASE i.state = "connected" -> "shutdown"
                      [] i.state = "reset"     -> "resetDown"
                      [] OTHER                 -> i.state
           told1 == i.ready = <<>> /\ i.reader # <<>>
           end == [i EXCEPT !.state = state, !.reader = IF told1 THEN <<>> ELSE @,
                            !.complete = @ \/ told1 \/ state = "resetDown"]
<1>1. InEnd(i) = Done(end, IF told1 THEN Tell(i.reader, "SHUTDOWN", <<>>) ELSE <<>>)
  BY DEF InEnd
<1>2. /\ state \in InStates /\ state # "none"
      /\ i.state \in {"connected", "shutdown"} => state = "shutdown"
  BY DEF InType, InStates
<1>3. (i.complete \/ told1 \/ state = "resetDown") \in BOOLEAN
  OBVIOUS
<1>4. (IF told1 THEN <<>> ELSE i.reader) \in Readers
  BY Members DEF InType
<1>5. told1 => Tell(i.reader, "SHUTDOWN", <<>>) = <<Call("receiver", "SHUTDOWN", <<>>)>>
  <2>1. told1 => i.reader = <<"receiver">>
    BY Members DEF InType
  <2> QED BY <2>1, TellOne
<1> HIDE DEF state
<1>6. /\ end \in InType /\ end.state = state
      /\ end.complete = (i.complete \/ told1 \/ state = "resetDown")
      /\ end.reader = IF told1 THEN <<>> ELSE i.reader
  BY <1>2, <1>3, <1>4 DEF InType
<1>7. ~told1 /\ state = "shutdown" => end.complete = i.complete
  BY <1>6 DEF InType
<1> HIDE DEF end
<1> QED BY <1>1, <1>2, <1>5, <1>6, <1>7 DEF Done

LEMMA InWasReset ==
    ASSUME NEW i \in InType
    PROVE  LET r == InReset(i)
           IN /\ ~r.raised /\ r.end \in InType /\ r.end.reader = <<>>
              /\ r.end.state \in {"reset", "resetDown"}
              /\ i.reader = <<>> => r.calls = <<>>
              /\ i.reader # <<>> => r.calls = <<Call("receiver", "RESET", <<>>)>>
<1> DEFINE down == i.state \in {"shutdown", "resetDown"}
           state == IF down THEN "resetDown" ELSE "reset"
           end == [i EXCEPT !.state = state, !.ready = <<>>, !.reader = <<>>,
                            !.complete = @ \/ down]
<1>1. InReset(i) = Done(end, Tell(i.reader, "RESET", <<>>))
  BY DEF InReset
<1>2. (i.complete \/ down) \in BOOLEAN
  OBVIOUS
<1>3. state \in InStates /\ state \in {"reset", "resetDown"}
  BY DEF InStates
<1> HIDE DEF state
<1>4. end \in InType /\ end.reader = <<>> /\ end.state = state
  BY <1>2, <1>3, Members DEF InType
<1>5. i.reader = <<>> \/ i.reader = <<"receiver">>
  BY Members DEF InType
<1> HIDE DEF end
<1>6. /\ i.reader = <<>> => Tell(i.reader, "RESET", <<>>) = <<>>
      /\ i.reader # <<>> =>
            Tell(i.reader, "RESET", <<>>) = <<Call("receiver", "RESET", <<>>)>>
  <2>1. i.reader = <<>> => Tell(i.reader, "RESET", <<>>) = <<>>
    BY TellNobody
  <2>2. i.reader = <<"receiver">> =>
            Tell(i.reader, "RESET", <<>>) = <<Call("receiver", "RESET", <<>>)>>
    BY TellOne
  <2> QED BY <1>5, <2>1, <2>2
<1> QED BY <1>1, <1>3, <1>4, <1>6 DEF Done

LEMMA InWriterReset ==
    ASSUME NEW i \in InType
    PROVE  LET r == InWriterResets(i)
           IN /\ ~r.raised /\ r.end \in InType /\ r.end.reader = <<>>
              /\ r.end.state \in {"reset", "resetDown"}
              /\ i.reader = <<>> => r.calls = <<>>
              /\ i.reader # <<>> => r.calls = <<Call("receiver", "RESET", <<>>)>>
<1> DEFINE j == [i EXCEPT !.state = "shutdown", !.ready = <<>>]
<1>1. "shutdown" \in InStates
  BY DEF InStates
<1>2. j \in InType /\ j.reader = i.reader
  BY <1>1, Members DEF InType
<1>3. InWriterResets(i) = InReset(j)
  BY DEF InWriterResets
<1> HIDE DEF j
<1> QED BY <1>2, <1>3, InWasReset

-----------------------------------------------------------------------------
(***************************************************************************)
(* What a step leaves alone                                                 *)
(***************************************************************************)
LEMMA StackIs ==
    ASSUME NEW base, Shape(base), stack' = base,
           \A n \in 1..Len(base) : Waits(base[n])',
           base # <<>> => Runnable(base[1])'
    PROVE  StackInv'
<1>1. Len(base) > 0 => base # <<>>
  OBVIOUS
<1> QED BY <1>1 DEF StackInv, Shape

LEMMA StackPush ==
    ASSUME NEW base, NEW c \in Calls, Kind(c), Shape(base),
           base # <<>> => Follows(c, base[1]),
           \A n \in 1..Len(base) : Waits(base[n])', Waits(c)', Runnable(c)',
           stack' = <<c>> \o base
    PROVE  StackInv'
<1> DEFINE s == <<c>> \o base
<1>1. Shape(s)
  BY PushedShape
<1>2. /\ Len(s) = Len(base) + 1 /\ s[1] = c
      /\ \A n \in 2..(Len(base) + 1) : s[n] = base[n-1]
  BY Pushed DEF Shape
<1>3. Len(base) \in Nat
  BY DEF Shape
<1> HIDE DEF s
<1>4. ASSUME NEW n \in 1..Len(s)
      PROVE  Waits(s[n])'
  <2>1. CASE n = 1
    BY <1>2, <2>1
  <2>2. CASE n # 1
    <3>1. s[n] = base[n-1] /\ n-1 \in 1..Len(base)
      BY <1>2, <1>3, <2>2
    <3> QED BY <3>1
  <2> QED BY <2>1, <2>2
<1>5. Runnable(s[1])'
  BY <1>2
<1> QED BY <1>1, <1>4, <1>5, StackIs DEF s

\* One call is all there is.
LEMMA StackOne ==
    ASSUME NEW c \in Calls, Kind(c), Waits(c)', Runnable(c)', stack' = <<c>>
    PROVE  StackInv'
<1>1. <<c>> \o <<>> = <<c>> /\ \A n \in 1..Len(<<>>) : FALSE
  OBVIOUS
<1> QED BY <1>1, EmptyShape, StackPush

LEMMA StackTwo ==
    ASSUME NEW c \in Calls, Kind(c), NEW d \in Calls, Kind(d), Follows(c, d),
           Waits(c)', Waits(d)', Runnable(c)', stack' = <<c>> \o <<d>>
    PROVE  StackInv'
<1>1. <<d>> \o <<>> = <<d>> /\ Len(<<d>>) = 1 /\ <<d>>[1] = d
  OBVIOUS
<1>2. Shape(<<d>>)
  BY <1>1, EmptyShape, PushedShape
<1> DEFINE base == <<d>>
<1>3. /\ Follows(c, base[1]) /\ Shape(base) /\ stack' = <<c>> \o base
      /\ \A n \in 1..Len(base) : Waits(base[n])'
  BY <1>1, <1>2
<1> HIDE DEF base
<1> QED BY <1>3, StackPush

LEMMA StackNone ==
    ASSUME stack' = <<>>
    PROVE  StackInv'
<1>1. \A n \in 1..Len(<<>>) : FALSE
  OBVIOUS
<1> QED BY <1>1, EmptyShape, StackIs

\* What waits behind the call that runs.
LEMMA Remaining ==
    ASSUME StackInv, stack # <<>>, NEW rest, rest = Tail(stack)
    PROVE  /\ Shape(rest) /\ stack[1] \in Calls /\ Head(stack) = stack[1] /\ Kind(stack[1])
           /\ Waits(stack[1]) /\ Runnable(stack[1])
           /\ \A n \in 1..Len(rest) : Late(rest[n]) /\ Waits(rest[n])
           /\ rest # <<>> => Follows(stack[1], rest[1]) /\ rest[1] \in Calls
           /\ Len(rest) = Len(stack) - 1
           /\ \A n \in 1..Len(rest) : rest[n] = stack[n+1]
<1>1. /\ stack \in Seq(Calls) /\ Len(stack) > 0 /\ Head(stack) = stack[1]
      /\ Len(rest) = Len(stack) - 1 /\ \A n \in 1..(Len(stack) - 1) : rest[n] = stack[n+1]
  BY Popped DEF StackInv, Shape
<1>2. Shape(rest) /\ (rest # <<>> => Follows(stack[1], rest[1]))
  BY PoppedShape DEF StackInv
<1>3. ASSUME NEW n \in 1..Len(rest)
      PROVE  Late(rest[n]) /\ Waits(rest[n])
  <2>1. rest[n] = stack[n+1] /\ n+1 \in 2..Len(stack) /\ n+1 \in 1..Len(stack)
    BY <1>1
  <2> QED BY <2>1, OnlyLate DEF StackInv
<1>4. stack[1] \in Calls /\ Kind(stack[1]) /\ Waits(stack[1]) /\ Runnable(stack[1])
  BY <1>1 DEF StackInv, Shape
<1>5. rest # <<>> => rest[1] \in Calls
  BY <1>2 DEF Shape
<1> QED BY <1>1, <1>2, <1>3, <1>4, <1>5

\* A call that waited is next.
LEMMA LateRuns ==
    ASSUME NEW c, Late(c), IsArrival(c) => pipe'.in.state # "none"
    PROVE  Runnable(c)'
  BY DEF Late, Runnable, IsArrival, IsOutcome, IsEnding, IsData, ReadyCall, ClearedCall,
         PullCall, AcceptCall, EofCall, ResetsCall, Destroy, Do, Outcomes, Endings

LEMMA SenderFrame ==
    ASSUME SenderInv, UNCHANGED <<sender, given, told>>, Len(taken') = Len(taken),
           pipe'.out = pipe.out
    PROVE  SenderInv'
  BY DEF SenderInv, Silent, Asked, All

LEMMA WriteFrame ==
    ASSUME WriteInv, UNCHANGED <<sender, given, taken>>, Pending => Pending'
    PROVE  WriteInv'
  BY DEF WriteInv, All

LEMMA ReceiverFrame ==
    ASSUME ReceiverInv, UNCHANGED <<receiver, heard>>, pipe'.in = pipe.in,
           given' = given \/ ~Asked, Asked => Asked'
    PROVE  ReceiverInv'
  BY DEF ReceiverInv

-----------------------------------------------------------------------------
(***************************************************************************)
(* Steps that write, shut down or reset the sending end                     *)
(***************************************************************************)
LEMMA OutWrites ==
    ASSUME TypeInv, NEW d \in Bytes, NEW rest \in Seq(Calls), OsWrite(d, rest),
           pipe.out.writer = <<>>, pipe.out.state \in {"connected", "reset"}
    PROVE  /\ failed' = "no" /\ taken' = taken \o d
           /\ pipe' \in PipeType /\ Len(pipe'.out.heap) <= 1
           /\ pipe'.in = pipe.in /\ pipe'.wire = pipe.wire /\ pipe'.packet = pipe.packet
           /\ pipe'.out.state = pipe.out.state /\ pipe'.out.shutdowner = pipe.out.shutdowner
           /\ \/ /\ pipe.out.state = "reset" /\ pipe'.out = pipe.out
                 /\ stack' = <<Call("sender", "RESET", <<>>)>> \o rest
              \/ /\ pipe.out.state = "connected" /\ pipe.out.heap = <<>>
                 /\ pipe'.out.heap = <<d>> /\ pipe'.out.buffer = <<>> /\ pipe'.out.writer = <<>>
                 /\ stack' = <<ReadyCall>> \o rest
              \/ /\ pipe.out.state = "connected" /\ pipe.out.heap # <<>>
                 /\ pipe'.out.heap = pipe.out.heap /\ pipe'.out.buffer = d
                 /\ pipe'.out.writer = <<"sender">>
                 /\ stack' = rest
<1> DEFINE o == pipe.out
           r == OutWrite(o, d, "sender")
<1>1. o \in OutType /\ Len(o.heap) <= 1 /\ pipe \in PipeType
  BY DEF TypeInv, PipeType
<1>2. /\ ~r.raised
      /\ o.state = "reset" => r.end = o /\ r.calls = <<Call("sender", "RESET", <<>>)>>
      /\ o.state = "connected" /\ o.heap = <<>> =>
            /\ r.end = [o EXCEPT !.heap = <<d>>, !.buffer = <<>>, !.writer = <<>>]
            /\ r.calls = <<ReadyCall>>
      /\ o.state = "connected" /\ o.heap # <<>> =>
            /\ r.end = [o EXCEPT !.buffer = d, !.writer = <<"sender">>]
            /\ r.calls = <<>>
  BY <1>1, Written
<1>3. /\ taken' = taken \o d /\ failed' = "no"
      /\ pipe' = [pipe EXCEPT !.out = r.end] /\ stack' = r.calls \o rest
  BY <1>2 DEF OsWrite, OutDone, TypeInv
<1>4. <<d>> \in Pieces /\ Len(<<d>>) = 1 /\ <<>> \in Bytes /\ <<>> \in Writers
      /\ <<"sender">> \in Writers
  BY Members
<1>5. /\ r.end \in OutType /\ Len(r.end.heap) <= 1 /\ r.end.state = o.state
      /\ r.end.shutdowner = o.shutdowner
      /\ o.state = "connected" /\ o.heap = <<>> =>
            r.end.heap = <<d>> /\ r.end.buffer = <<>> /\ r.end.writer = <<>>
      /\ o.state = "connected" /\ o.heap # <<>> =>
            r.end.heap = o.heap /\ r.end.buffer = d /\ r.end.writer = <<"sender">>
  <2>1. CASE o.state = "reset"
    BY <1>1, <1>2, <2>1
  <2>2. CASE o.state = "connected" /\ o.heap = <<>>
    <3>1. r.end = [o EXCEPT !.heap = <<d>>, !.buffer = <<>>, !.writer = <<>>]
      BY <1>2, <2>2
    <3> HIDE DEF r
    <3>2. /\ r.end.heap = <<d>> /\ r.end.buffer = <<>> /\ r.end.writer = <<>>
          /\ r.end.state = o.state /\ r.end.shutdowner = o.shutdowner
      BY <1>1, <3>1 DEF OutType
    <3>3. r.end \in OutType
      BY <1>1, <1>4, <3>1 DEF OutType
    <3> QED BY <1>4, <2>2, <3>2, <3>3
  <2>3. CASE o.state = "connected" /\ o.heap # <<>>
    BY <1>1, <1>2, <1>4, <2>3 DEF OutType
  <2> QED BY <2>1, <2>2, <2>3
<1>6. <<>> \o rest = rest
  BY NothingPushed
<1> HIDE DEF r
<1>7. /\ pipe' \in PipeType /\ pipe'.out = r.end /\ pipe'.in = pipe.in
      /\ pipe'.wire = pipe.wire /\ pipe'.packet = pipe.packet
  BY <1>1, <1>3, <1>5 DEF PipeType
<1> QED BY <1>2, <1>3, <1>5, <1>6, <1>7

LEMMA OutShuts ==
    ASSUME TypeInv, NEW e \in {"sender", "user"}, NEW rest \in Seq(Calls), OsShutdown(e, rest),
           pipe.out.writer = <<>>, pipe.out.state \in {"connected", "reset"}
    PROVE  /\ failed' = "no"
           /\ pipe' \in PipeType /\ Len(pipe'.out.heap) <= 1
           /\ pipe'.in = pipe.in /\ pipe'.wire = pipe.wire /\ pipe'.packet = pipe.packet
           /\ pipe'.out.heap = pipe.out.heap /\ pipe'.out.writer = <<>>
           /\ pipe'.out.buffer = pipe.out.buffer
           /\ \/ /\ pipe.out.state = "reset" /\ pipe'.out = pipe.out
                 /\ stack' = <<Call(e, "FALSE", <<>>)>> \o rest
              \/ /\ pipe.out.state = "connected" /\ pipe'.out.state = "shutdown"
                 /\ pipe'.out.shutdowner = <<e>> /\ stack' = rest
<1> DEFINE o == pipe.out
           r == OutShutdown(o, e)
<1>1. o \in OutType /\ Len(o.heap) <= 1 /\ pipe \in PipeType
  BY DEF TypeInv, PipeType
<1>2. /\ ~r.raised
      /\ o.state = "reset" => r.end = o /\ r.calls = <<Call(e, "FALSE", <<>>)>>
      /\ o.state = "connected" =>
            /\ r.end = [o EXCEPT !.state = "shutdown", !.shutdowner = <<e>>]
            /\ r.calls = <<>>
  BY <1>1, ShutDown
<1>3. /\ failed' = "no" /\ pipe' = [pipe EXCEPT !.out = r.end] /\ stack' = r.calls \o rest
  BY <1>2 DEF OsShutdown, OutDone, TypeInv
<1>4. <<e>> \in Shutdowners /\ "shutdown" \in OutStates
  BY Members DEF OutStates
<1>5. /\ r.end \in OutType /\ Len(r.end.heap) <= 1 /\ r.end.heap = o.heap
      /\ r.end.writer = <<>> /\ r.end.buffer = o.buffer
      /\ o.state = "connected" => r.end.state = "shutdown" /\ r.end.shutdowner = <<e>>
  <2>1. CASE o.state = "reset"
    BY <1>1, <1>2, <2>1
  <2>2. CASE o.state = "connected"
    BY <1>1, <1>2, <1>4, <2>2 DEF OutType
  <2> QED BY <2>1, <2>2
<1>6. <<>> \o rest = rest
  BY NothingPushed
<1> HIDE DEF r
<1>7. /\ pipe' \in PipeType /\ pipe'.out = r.end /\ pipe'.in = pipe.in
      /\ pipe'.wire = pipe.wire /\ pipe'.packet = pipe.packet
  BY <1>1, <1>3, <1>5 DEF PipeType
<1> QED BY <1>2, <1>3, <1>5, <1>6, <1>7

\* The end of the stream after a reset, and whom the reset tells.
WasResetTo(o) ==
    /\ o \in OutType /\ o.state = "reset" /\ o.heap = <<>> /\ o.buffer = <<>>
    /\ o.writer = <<>> /\ o.shutdowner = <<>>
ResetTells(calls) ==
    \/ Silent /\ calls = <<>>
    \/ ~Silent /\ \E e \in {"sender", "user"}, event \in {"RESET", "FALSE"} :
                     calls = <<Call(e, event, <<>>)>>

LEMMA OutResets ==
    ASSUME TypeInv, SenderInv
    PROVE  LET r == OutReset(pipe.out)
           IN ~r.raised /\ WasResetTo(r.end) /\ ResetTells(r.calls)
<1> DEFINE o == pipe.out
           r == OutReset(o)
<1>1. o \in OutType
  BY DEF TypeInv, PipeType
<1>2. o.writer = <<>> \/ o.shutdowner = <<>>
  BY DEF SenderInv
<1>3. /\ ~r.raised /\ r.end = ResetEnd(o)
      /\ o.writer = <<>> /\ o.shutdowner = <<>> => r.calls = <<>>
      /\ o.writer # <<>> => r.calls = <<Call("sender", "RESET", <<>>)>>
      /\ o.shutdowner # <<>> => \E e \in {"sender", "user"} :
            o.shutdowner = <<e>> /\ r.calls = <<Call(e, "FALSE", <<>>)>>
  BY <1>1, <1>2, WasReset
<1>4. <<>> \in Bytes /\ <<>> \in Pieces /\ <<>> \in Writers /\ <<>> \in Shutdowners
      /\ "reset" \in OutStates
  BY Members DEF OutStates
<1> HIDE DEF r
<1>5. WasResetTo(r.end)
  BY <1>1, <1>3, <1>4 DEF WasResetTo, ResetEnd, OutType
<1>6. ResetTells(r.calls)
  BY <1>3 DEF ResetTells, Silent
<1> QED BY <1>3, <1>5, <1>6 DEF r

-----------------------------------------------------------------------------
(***************************************************************************)
(* The calls that steps push                                                *)
(***************************************************************************)
LEMMA Counting ==
    ASSUME NEW t \in Bytes, t = Count(Len(t)), NEW d \in Bytes,
           \A n \in 1..Len(d) : d[n] = Len(t) + n
    PROVE  /\ t \o d \in Bytes /\ Len(t \o d) = Len(t) + Len(d)
           /\ t \o d = Count(Len(t \o d))
<1>1. /\ t \o d \in Bytes /\ Len(t \o d) = Len(t) + Len(d) /\ Len(t) \in Nat /\ Len(d) \in Nat
      /\ \A n \in 1..Len(t) : (t \o d)[n] = t[n]
      /\ \A n \in 1..Len(d) : (t \o d)[Len(t) + n] = d[n]
  BY DEF Bytes
<1>2. \A n \in 1..Len(t) : t[n] = n
  BY DEF Count
<1>3. ASSUME NEW n \in 1..(Len(t) + Len(d))
      PROVE  (t \o d)[n] = n
  <2>1. CASE n <= Len(t)
    BY <1>1, <1>2, <2>1
  <2>2. CASE n > Len(t)
    <3>1. n - Len(t) \in 1..Len(d) /\ Len(t) + (n - Len(t)) = n
      BY <1>1, <2>2
    <3> QED BY <1>1, <3>1
  <2> QED BY <1>1, <2>1, <2>2
<1>4. Count(Len(t) + Len(d)) \in Seq(Nat) /\ Len(Count(Len(t) + Len(d))) = Len(t) + Len(d)
  BY <1>1 DEF Count
<1>5. \A n \in 1..(Len(t) + Len(d)) : Count(Len(t) + Len(d))[n] = n
  BY <1>1 DEF Count
<1>6. ASSUME NEW x \in Seq(Nat), NEW y \in Seq(Nat), Len(x) = Len(y),
             \A n \in 1..Len(x) : x[n] = y[n]
      PROVE  x = y
  BY <1>6
<1>7. t \o d = Count(Len(t) + Len(d))
  BY <1>1, <1>3, <1>4, <1>5, <1>6 DEF Bytes
<1> QED BY <1>1, <1>7

LEMMA PieceIs ==
    ASSUME TypeInv, NEW n \in Nat
    PROVE  Piece(n) \in Bytes /\ Len(Piece(n)) = n /\ \A k \in 1..n : Piece(n)[k] = given + k
  BY DEF Piece, Bytes, TypeInv

LEMMA Events ==
    /\ \A e \in {"sender", "user"}, event \in Outcomes :
          /\ Call(e, event, <<>>) \in Calls /\ IsOutcome(Call(e, event, <<>>))
          /\ Kind(Call(e, event, <<>>)) /\ Call(e, event, <<>>).event = event
    /\ \A event \in Endings :
          /\ Call("receiver", event, <<>>) \in Calls /\ IsEnding(Call("receiver", event, <<>>))
          /\ Kind(Call("receiver", event, <<>>)) /\ Call("receiver", event, <<>>).event = event
    /\ \A d \in Bytes :
          /\ Call("receiver", "DATA", d) \in Calls /\ IsData(Call("receiver", "DATA", d))
          /\ Kind(Call("receiver", "DATA", d)) /\ Call("receiver", "DATA", d).data = d
          /\ Call("network", "arrive", d) \in Calls /\ Kind(Call("network", "arrive", d))
          /\ Call("network", "arrive", d).event = "arrive"
          /\ Call("network", "arrive", d).data = d /\ Call("network", "arrive", d).to = "network"
<1>1. <<>> \in Bytes
  BY Members
<1> QED BY <1>1 DEF Call, Calls, IsOutcome, IsEnding, IsData, Kind, Outcomes, Endings,
             Methods, Arrivals

LEMMA Plain ==
    /\ ReadyCall \in Calls /\ Kind(ReadyCall) /\ ClearedCall \in Calls /\ Kind(ClearedCall)
    /\ PullCall \in Calls /\ Kind(PullCall) /\ AcceptCall \in Calls /\ Kind(AcceptCall)
    /\ EofCall \in Calls /\ Kind(EofCall) /\ ResetsCall \in Calls /\ Kind(ResetsCall)
    /\ Destroy("sender") \in Calls /\ Kind(Destroy("sender"))
    /\ Destroy("receiver") \in Calls /\ Kind(Destroy("receiver"))
<1>1. <<>> \in Bytes
  BY Members
<1>2. /\ ReadyCall \in Calls /\ ClearedCall \in Calls /\ PullCall \in Calls /\ AcceptCall \in Calls
      /\ EofCall \in Calls /\ ResetsCall \in Calls
      /\ Destroy("sender") \in Calls /\ Destroy("receiver") \in Calls
  BY <1>1 DEF ReadyCall, ClearedCall, PullCall, AcceptCall, EofCall, ResetsCall, Destroy, Do,
        Calls, Methods, Arrivals
<1> QED BY <1>2 DEF Kind

\* Which call it is that runs.
LEMMA Which ==
    ASSUME NEW c, Kind(c)
    PROVE  /\ c.to = "sender" /\ c.event = "READY" => c = ReadyCall
           /\ c.to = "sender" /\ c.event = "cleared" => c = ClearedCall
           /\ c.to = "network" /\ c.event = "pull" => c = PullCall
           /\ c.to = "receiver" /\ c.event = "accept" => c = AcceptCall
           /\ c.to = "network" /\ c.event = "eof" => c = EofCall
           /\ c.to = "network" /\ c.event = "writerResets" => c = ResetsCall
           /\ c.to = "sender" /\ c.event = "destroyed" => c = Destroy("sender")
           /\ c.to = "receiver" /\ c.event = "destroyed" => c = Destroy("receiver")
  BY DEF Kind, ReadyCall, ClearedCall, PullCall, AcceptCall, EofCall, ResetsCall, Destroy, Do,
         IsOutcome, IsEnding, IsData, Outcomes, Endings

LEMMA OutcomeRuns ==
    ASSUME NEW c, IsOutcome(c), Silent', told' = <<>>, ~sender'.ready \/ Asked',
           sender'.life \in {"alive", "reset", "dying"}, c.event = "TRUE" => All' /\ Asked'
    PROVE  Waits(c)' /\ Runnable(c)'
  BY DEF Waits, Runnable, IsOutcome, IsArrival, IsEnding, IsData, Outcomes, Endings, ReadyCall,
         ClearedCall, PullCall, AcceptCall, EofCall, ResetsCall, Destroy, Do

LEMMA EndingRuns ==
    ASSUME NEW c, IsEnding(c), pipe'.in.reader = <<>>, pipe'.in.state # "none", heard' = <<>>,
           receiver'.life \in {"alive", "dying"}
    PROVE  Waits(c)' /\ Runnable(c)'
  BY DEF Waits, Runnable, IsOutcome, IsArrival, IsEnding, IsData, Outcomes, Endings, ReadyCall,
         ClearedCall, PullCall, AcceptCall, EofCall, ResetsCall, Destroy, Do

LEMMA DataRuns ==
    ASSUME NEW c, IsData(c), pipe'.in.reader = <<>>, pipe'.in.state # "none",
           receiver'.life = "alive"
    PROVE  Waits(c)' /\ Runnable(c)'
  BY DEF Waits, Runnable, IsOutcome, IsArrival, IsEnding, IsData, Outcomes, Endings, ReadyCall,
         ClearedCall, PullCall, AcceptCall, EofCall, ResetsCall, Destroy, Do

LEMMA ReadyRuns ==
    ASSUME sender'.life = "alive", ~sender'.ready, told' = <<>>, pipe'.out.state = "connected",
           pipe'.out.heap # <<>>, Silent'
    PROVE  Waits(ReadyCall)' /\ Runnable(ReadyCall)'
  BY DEF Waits, Runnable, IsOutcome, IsArrival, IsEnding, IsData, Outcomes, Endings, ReadyCall,
         ClearedCall, PullCall, AcceptCall, EofCall, ResetsCall, Destroy, Do

LEMMA ClearedRuns ==
    ASSUME sender'.kind = "buffered", sender'.life = "alive", ~sender'.ready, All'
    PROVE  Waits(ClearedCall)' /\ Runnable(ClearedCall)'
  BY DEF Waits, Runnable, IsOutcome, IsArrival, IsEnding, IsData, Outcomes, Endings, ReadyCall,
         ClearedCall, PullCall, AcceptCall, EofCall, ResetsCall, Destroy, Do

LEMMA DestroyWaits ==
    /\ sender'.life = "dying" => Waits(Destroy("sender"))' /\ Runnable(Destroy("sender"))'
    /\ receiver'.life = "dying" => Waits(Destroy("receiver"))' /\ Runnable(Destroy("receiver"))'
  BY DEF Waits, Runnable, IsOutcome, IsArrival, IsEnding, IsData, Outcomes, Endings, ReadyCall,
         ClearedCall, PullCall, AcceptCall, EofCall, ResetsCall, Destroy, Do

LEMMA NetworkWaits ==
    /\ pipe'.out.state \in {"connected", "shutdown"} => Waits(PullCall)' /\ Runnable(PullCall)'
    /\ pipe'.in = NoIn => Waits(AcceptCall)' /\ Runnable(AcceptCall)'
    /\ Waits(ResetsCall)' /\ (pipe'.in.state # "none" => Runnable(ResetsCall)')
    /\ \A d : /\ Waits(Call("network", "arrive", d))'
              /\ pipe'.in.state # "none" => Runnable(Call("network", "arrive", d))'
<1> USE DEF IsOutcome, IsArrival, IsEnding, IsData, Outcomes, Endings, Arrivals, ReadyCall,
         ClearedCall, PullCall, AcceptCall, EofCall, ResetsCall, Destroy, Do, Call
<1>1. pipe'.out.state \in {"connected", "shutdown"} => Waits(PullCall)' /\ Runnable(PullCall)'
  BY DEF Waits, Runnable
<1>2. pipe'.in = NoIn => Waits(AcceptCall)' /\ Runnable(AcceptCall)'
  BY DEF Waits, Runnable
<1>3. Waits(ResetsCall)' /\ (pipe'.in.state # "none" => Runnable(ResetsCall)')
  BY DEF Waits, Runnable
<1>4. ASSUME NEW d
      PROVE  /\ Waits(Call("network", "arrive", d))'
             /\ pipe'.in.state # "none" => Runnable(Call("network", "arrive", d))'
  BY DEF Waits, Runnable
<1> HIDE DEF Call, Do, PullCall, AcceptCall, ResetsCall, NoIn
<1> QED BY <1>1, <1>2, <1>3, <1>4

LEMMA EofRuns ==
    Waits(EofCall)' /\ (pipe'.in.state # "none" => Runnable(EofCall)')
  BY DEF Waits, Runnable, IsOutcome, IsArrival, IsEnding, IsData, Outcomes, Endings, Arrivals,
         ReadyCall, ClearedCall, PullCall, AcceptCall, EofCall, ResetsCall, Destroy, Do

LEMMA NothingBehind ==
    ASSUME NEW c, NEW d,
           c \in {PullCall, EofCall, ResetsCall, Destroy("sender"), Destroy("receiver")}
    PROVE  ~Follows(c, d)
  BY DEF Follows, IsOutcome, IsEnding, PullCall, EofCall, ResetsCall, Destroy, ReadyCall, ClearedCall,
         AcceptCall, Do, Outcomes, Endings

LEMMA ShortSequences ==
    ASSUME NEW S, NEW s \in Seq(S)
    PROVE  /\ Len(s) = 1 => s = <<s[1]>>
           /\ Len(s) = 0 => s = <<>>
           /\ s = <<>> => Len(s) = 0
  OBVIOUS

\* Behind a call other than accept there is at most one.
LEMMA AtMostOne ==
    ASSUME NEW first, first # AcceptCall, NEW rest, Shape(rest),
           rest # <<>> => Follows(first, rest[1])
    PROVE  rest = <<>> \/ (Len(rest) = 1 /\ rest = <<rest[1]>>)
<1>1. rest \in Seq(Calls) /\ Len(rest) \in Nat
  BY DEF Shape
<1>2. CASE Len(rest) > 1
  <2>1. 1 \in 1..(Len(rest) - 1) /\ 1 + 1 = 2 /\ rest # <<>>
    BY <1>1, <1>2
  <2>2. Follows(rest[1], rest[2]) /\ Follows(first, rest[1])
    BY <2>1 DEF Shape
  <2>3. rest[1] \in {PullCall, EofCall, Destroy("sender"), Destroy("receiver")}
    BY <2>2 DEF Follows
  <2> QED BY <2>2, <2>3, NothingBehind
<1>3. CASE Len(rest) = 1
  BY <1>1, <1>3, ShortSequences
<1>4. CASE Len(rest) = 0
  BY <1>1, <1>4, ShortSequences
<1>5. \A k \in Nat : k > 1 \/ k = 1 \/ k = 0
  OBVIOUS
<1> QED BY <1>1, <1>2, <1>3, <1>4, <1>5, Zenon

LEMMA Behind ==
    ASSUME StackInv, stack # <<>>, stack[1] # AcceptCall, NEW rest, rest = Tail(stack)
    PROVE  \/ rest = <<>>
           \/ \E d \in Calls : rest = <<d>> /\ Follows(stack[1], d) /\ Waits(d) /\ Late(d) /\ Kind(d)
<1>1. /\ Shape(rest)
      /\ \A n \in 1..Len(rest) : Late(rest[n]) /\ Waits(rest[n])
      /\ rest # <<>> => Follows(stack[1], rest[1]) /\ rest[1] \in Calls
  BY Remaining
<1>2. rest = <<>> \/ (Len(rest) = 1 /\ rest = <<rest[1]>>)
  BY <1>1, AtMostOne
<1>3. ASSUME rest # <<>>
      PROVE  Late(rest[1]) /\ Waits(rest[1]) /\ Kind(rest[1])
  <2>1. 1 \in 1..Len(rest)
    BY <1>2, <1>3
  <2> QED BY <1>1, <2>1 DEF Shape
<1> QED BY <1>1, <1>2, <1>3, Zenon

\* No data and no end of the stream is in the stack.
-----------------------------------------------------------------------------
(***************************************************************************)
(* Steps that reset the sending end                                         *)
(***************************************************************************)
Forgets == sender.life \in Living /\ \E life \in {"reset", "dying"} : sender' = Forgotten(life)

LEMMA ForgetsIs ==
    ASSUME TypeInv, Forgets
    PROVE  /\ sender' \in SenderType /\ ~sender'.ready /\ sender'.buf = <<>>
           /\ sender'.life \in {"reset", "dying"} /\ sender'.kind = sender.kind
           /\ sender'.shutdownRequest = sender.shutdownRequest /\ (Asked' <=> Asked)
<1>1. PICK life \in {"reset", "dying"} : sender' = Forgotten(life)
  BY DEF Forgets
<1>2. sender \in SenderType /\ <<>> \in Bytes
  BY Members DEF TypeInv
<1>3. /\ sender' \in SenderType /\ sender'.ready = FALSE /\ sender'.buf = <<>>
      /\ sender'.life = life /\ sender'.kind = sender.kind
      /\ sender'.shutdownRequest = sender.shutdownRequest
  BY <1>1, <1>2 DEF Forgotten, SenderType
<1> QED BY <1>1, <1>3 DEF Asked

LEMMA SenderGoes ==
    ASSUME TypeInv, SenderInv, WasResetTo(pipe'.out), UNCHANGED <<given, taken>>,
           \/ sender' = sender /\ told' = told
           \/ Forgets,
           \A n \in DOMAIN told' : told'[n] = "TRUE" => All /\ Asked
    PROVE  SenderInv'
<1>1. CASE sender' = sender /\ told' = told
  BY <1>1 DEF SenderInv, WasResetTo, Asked, All, Silent
<1>2. CASE Forgets
  <2>1. /\ ~sender'.ready /\ sender'.buf = <<>> /\ sender'.life \in {"reset", "dying"}
        /\ sender'.kind = sender.kind /\ (Asked' <=> Asked) /\ sender.life # "unborn"
    BY <1>2, ForgetsIs DEF Forgets, Living
  <2>2. All' <=> All
    BY DEF All
  <2> QED BY <2>1, <2>2 DEF SenderInv, WasResetTo
<1> QED BY <1>1, <1>2

LEMMA WriteGoes ==
    ASSUME TypeInv, WriteInv, UNCHANGED <<given, taken>>, sender' = sender \/ Forgets,
           Pending => Pending'
    PROVE  WriteInv'
<1>1. CASE sender' = sender
  BY <1>1, WriteFrame
<1>2. CASE Forgets
  <2>1. sender'.life \in {"reset", "dying"} /\ sender'.kind = sender.kind
    BY <1>2, ForgetsIs
  <2> QED BY <2>1 DEF WriteInv, All
<1> QED BY <1>1, <1>2

LEMMA ReceiverGoes ==
    ASSUME ReceiverInv, UNCHANGED <<receiver, heard, given>>, Asked => Asked',
           pipe'.in.state = pipe.in.state, pipe'.in.reader = pipe.in.reader,
           pipe.in.state = "none" \/ pipe.in.reader # <<>> => pipe'.in = pipe.in
    PROVE  ReceiverInv'
  BY DEF ReceiverInv

\* The first reset of the sending end, with nothing in the stack.
LEMMA ResetInIdle ==
    ASSUME MessagesInv, stack = <<>>, NEW calls, ResetTells(calls),
           WasResetTo(pipe'.out), pipe' \in PipeType,
           pipe'.wire = pipe.wire \/ pipe'.wire = <<>>,
           pipe'.in.state = pipe.in.state, pipe'.in.reader = pipe.in.reader,
           pipe.in.state = "none" \/ pipe.in.reader # <<>> => pipe'.in = pipe.in,
           UNCHANGED <<receiver, ghosts, failed>>, lost' \in SUBSET {"sender", "receiver"},
           \/ sender' = sender /\ stack' = calls
           \/ Forgets /\ sender'.life = "reset" /\ stack' = calls
           \/ Forgets /\ sender'.life = "dying" /\ stack' = calls \o <<Destroy("sender")>>
    PROVE  MessagesInv'
<1>1. sender' = sender \/ Forgets
  OBVIOUS
<1>2. (Asked' <=> Asked) /\ (All' <=> All) /\ sender' \in SenderType
  <2>1. CASE sender' = sender
    BY <2>1 DEF MessagesInv, TypeInv, Asked, All, ghosts
  <2>2. CASE Forgets
    BY <2>2, ForgetsIs DEF MessagesInv, All, ghosts
  <2> QED BY <1>1, <2>1, <2>2
<1>3. TypeInv'
  BY <1>2 DEF MessagesInv, TypeInv, WasResetTo, ghosts
<1>4. SenderInv'
  <2>1. \A n \in DOMAIN told' : told'[n] = "TRUE" => All /\ Asked
    BY DEF MessagesInv, SenderInv, ghosts
  <2> QED BY <1>1, <2>1, SenderGoes DEF MessagesInv, ghosts
<1>5. WriteInv'
  <2>1. ~Pending
    BY DEF Pending
  <2> QED BY <1>1, <2>1, WriteGoes DEF MessagesInv, ghosts
<1>6. ReceiverInv'
  BY <1>2, ReceiverGoes DEF MessagesInv, ghosts
<1>7. StackInv'
  <2>1. Silent'
    BY DEF Silent, WasResetTo
  <2>2. CASE Silent /\ calls = <<>>
    <3>1. CASE stack' = <<>>
      BY <3>1, StackNone
    <3>2. CASE sender'.life = "dying" /\ stack' = calls \o <<Destroy("sender")>>
      <4>1. stack' = <<Destroy("sender")>>
        BY <2>2, <3>2
      <4>2. Destroy("sender") # EofCall /\ Destroy("sender").event # "arrive"
        BY DEF Destroy, EofCall, Do
      <4> QED BY <3>2, <4>1, <4>2, DestroyWaits, Plain, StackOne
    <3> QED BY <2>2, <3>1, <3>2
  <2>3. CASE ~Silent /\ \E e \in {"sender", "user"}, event \in {"RESET", "FALSE"} :
                     calls = <<Call(e, event, <<>>)>>
    <3>1. PICK e \in {"sender", "user"}, event \in {"RESET", "FALSE"} :
                     calls = <<Call(e, event, <<>>)>>
      BY <2>3
    <3> DEFINE c == Call(e, event, <<>>)
    <3>2. /\ c \in Calls /\ IsOutcome(c) /\ Kind(c) /\ c.event \in {"RESET", "FALSE"}
          /\ c.event # "TRUE"
      BY Events DEF Outcomes
    <3>3. sender.life = "alive" /\ told = <<>> /\ (~sender.ready \/ Asked)
      BY <2>3 DEF MessagesInv, SenderInv, Silent
    <3>4. /\ told' = <<>> /\ (~sender'.ready \/ Asked')
          /\ sender'.life \in {"alive", "reset", "dying"}
      <4>1. CASE sender' = sender
        BY <3>3, <4>1 DEF ghosts, Asked
      <4>2. CASE Forgets
        BY <3>3, <4>2, ForgetsIs DEF ghosts, MessagesInv
      <4> QED BY <1>1, <4>1, <4>2
    <3>5. c # EofCall /\ c.event # "arrive"
      BY <3>2 DEF IsOutcome, EofCall, Do
    <3> HIDE DEF c
    <3>6. Waits(c)' /\ Runnable(c)'
      BY <2>1, <3>2, <3>4, OutcomeRuns
    <3>7. CASE stack' = calls
      BY <3>1, <3>2, <3>5, <3>6, <3>7, StackOne DEF c
    <3>8. CASE sender'.life = "dying" /\ stack' = calls \o <<Destroy("sender")>>
      <4>1. stack' = <<c>> \o <<Destroy("sender")>>
        BY <3>1, <3>8 DEF c
      <4>4. Follows(c, Destroy("sender"))
        BY <3>2 DEF Follows
      <4>5. StackInv'
        BY <3>2, <3>6, <3>8, <4>1, <4>4, DestroyWaits, Plain, StackTwo
      <4> QED BY <4>5
    <3> QED BY <3>7, <3>8
  <2> QED BY <2>2, <2>3 DEF ResetTells
<1> QED BY <1>3, <1>4, <1>5, <1>6, <1>7 DEF MessagesInv

LEMMA Tells ==
    ASSUME NEW calls, ResetTells(calls)
    PROVE  calls \o <<>> = calls
<1>1. \A x : <<x>> \o <<>> = <<x>>
  OBVIOUS
<1>2. <<>> \o <<>> = <<>>
  OBVIOUS
<1> QED BY <1>1, <1>2, Zenon DEF ResetTells

LEMMA ResetHolds ==
    ASSUME MessagesInv, Reset
    PROVE  MessagesInv'
<1>1. /\ Idle /\ sender.life \in Living /\ sender' = Forgotten("reset")
      /\ OutDone(OutReset(pipe.out), <<>>) /\ UNCHANGED <<receiver, lost, ghosts>>
  BY DEF Reset
<1> DEFINE r == OutReset(pipe.out)
<1>2. ~r.raised /\ WasResetTo(r.end) /\ ResetTells(r.calls)
  BY OutResets DEF MessagesInv
<1>3. stack = <<>> /\ pipe' = [pipe EXCEPT !.out = r.end] /\ stack' = r.calls \o <<>>
      /\ failed' = failed
  BY <1>1, <1>2 DEF OutDone, Idle
<1>4. stack' = r.calls
  BY <1>2, <1>3, Tells
<1> HIDE DEF r
<1>5. /\ pipe' \in PipeType /\ pipe'.out = r.end /\ pipe'.in = pipe.in /\ pipe'.wire = pipe.wire
  BY <1>2, <1>3 DEF MessagesInv, TypeInv, PipeType, WasResetTo
<1>6. Forgets /\ sender'.life = "reset"
  BY <1>1 DEF Forgets, Forgotten, MessagesInv, TypeInv, SenderType
<1>7. lost' \in SUBSET {"sender", "receiver"}
  BY <1>1 DEF MessagesInv, TypeInv
<1> QED BY <1>1, <1>2, <1>3, <1>4, <1>5, <1>6, <1>7, ResetInIdle

LEMMA DeleteHolds ==
    ASSUME MessagesInv, Delete
    PROVE  MessagesInv'
<1> DEFINE r == OutReset(pipe.out)
<1>1. /\ Idle /\ sender.life \in Living /\ sender' = Forgotten("dying")
      /\ OutDone(r, <<Do("destroyed", "sender")>> \o <<>>) /\ UNCHANGED <<receiver, lost, ghosts>>
  BY DEF Delete, DeleteSender
<1>2. ~r.raised /\ WasResetTo(r.end) /\ ResetTells(r.calls)
  BY OutResets DEF MessagesInv
<1>3. \A x : <<x>> \o <<>> = <<x>>
  OBVIOUS
<1>4. stack = <<>> /\ pipe' = [pipe EXCEPT !.out = r.end]
      /\ stack' = r.calls \o <<Destroy("sender")>> /\ failed' = failed
  BY <1>1, <1>2, <1>3 DEF OutDone, Idle, Destroy
<1> HIDE DEF r
<1>5. /\ pipe' \in PipeType /\ pipe'.out = r.end /\ pipe'.in = pipe.in /\ pipe'.wire = pipe.wire
  BY <1>2, <1>4 DEF MessagesInv, TypeInv, PipeType, WasResetTo
<1>6. Forgets /\ sender'.life = "dying"
  BY <1>1 DEF Forgets, Forgotten, MessagesInv, TypeInv, SenderType
<1>7. lost' \in SUBSET {"sender", "receiver"}
  BY <1>1 DEF MessagesInv, TypeInv
<1> QED BY <1>1, <1>2, <1>4, <1>5, <1>6, <1>7, ResetInIdle

LEMMA ReaderResetArrivesHolds ==
    ASSUME MessagesInv, ReaderResetArrives
    PROVE  MessagesInv'
<1> DEFINE r == IF pipe.out.complete THEN Done(pipe.out, <<>>) ELSE OutReset(pipe.out)
<1>1. /\ Idle /\ pipe.in.state = "reset"
      /\ pipe' = [pipe EXCEPT !.in.complete = TRUE, !.wire = <<>>,
                              !.out = [r.end EXCEPT !.complete = TRUE]]
      /\ stack' = r.calls
      /\ UNCHANGED <<objects, failed, lost, ghosts>>
  BY DEF ReaderResetArrives, ResetsWriter
<1>2. CASE ~pipe.out.complete
  <2>1. WasResetTo(r.end) /\ ResetTells(r.calls)
    BY <1>2, OutResets DEF MessagesInv
  <2> HIDE DEF r
  <2>2. WasResetTo([r.end EXCEPT !.complete = TRUE])
    BY <2>1 DEF WasResetTo, OutType
  <2>3. pipe \in PipeType /\ pipe.in \in InType /\ [pipe.in EXCEPT !.complete = TRUE] \in InType
    BY DEF MessagesInv, TypeInv, PipeType, InType
  <2>4. /\ pipe' \in PipeType /\ pipe'.out = [r.end EXCEPT !.complete = TRUE]
        /\ pipe'.in = [pipe.in EXCEPT !.complete = TRUE] /\ pipe'.wire = <<>>
    <3> DEFINE o == [r.end EXCEPT !.complete = TRUE]
               i == [pipe.in EXCEPT !.complete = TRUE]
    <3>1. o \in OutType /\ i \in InType /\ pipe \in PipeType
      BY <2>2, <2>3 DEF WasResetTo
    <3>2. pipe' = [pipe EXCEPT !.in = i, !.wire = <<>>, !.out = o]
      BY <1>1
    <3> HIDE DEF o, i
    <3>3. pipe' \in PipeType /\ pipe'.out = o /\ pipe'.in = i /\ pipe'.wire = <<>>
      BY <3>1, <3>2, Members DEF PipeType
    <3> QED BY <3>3 DEF o, i
  <2>5. pipe'.in.state = pipe.in.state /\ pipe'.in.reader = pipe.in.reader
    BY <2>3, <2>4 DEF InType
  <2>10. pipe.in.state # "none" /\ pipe.in.reader = <<>>
    BY <1>1 DEF MessagesInv, ReceiverInv
  <2>6. lost' \in SUBSET {"sender", "receiver"}
    BY <1>1 DEF MessagesInv, TypeInv
  <2>7. stack = <<>> /\ UNCHANGED <<sender, receiver>>
    BY <1>1 DEF Idle, objects
  <2> QED BY <1>1, <2>1, <2>2, <2>4, <2>5, <2>6, <2>7, <2>10, ResetInIdle
<1>3. CASE pipe.out.complete
  <2>1. r.end = pipe.out /\ r.calls = <<>>
    BY <1>3 DEF Done
  <2> HIDE DEF r
  <2>2. pipe \in PipeType /\ pipe.in \in InType /\ [pipe.in EXCEPT !.complete = TRUE] \in InType
        /\ pipe.out \in OutType /\ pipe.out.complete = TRUE
    BY <1>3 DEF MessagesInv, TypeInv, PipeType, InType, OutType
  <2>3. [r.end EXCEPT !.complete = TRUE] = pipe.out
    BY <2>1, <2>2 DEF OutType
  <2>4. /\ pipe' \in PipeType /\ pipe'.out = pipe.out
        /\ pipe'.in = [pipe.in EXCEPT !.complete = TRUE] /\ pipe'.wire = <<>>
        /\ pipe'.packet = pipe.packet
    <3> DEFINE i == [pipe.in EXCEPT !.complete = TRUE]
    <3>1. pipe' = [pipe EXCEPT !.in = i, !.wire = <<>>, !.out = pipe.out]
      BY <1>1, <2>3
    <3>2. i \in InType
      BY <2>2
    <3> HIDE DEF i
    <3>3. /\ pipe' \in PipeType /\ pipe'.out = pipe.out /\ pipe'.in = i /\ pipe'.wire = <<>>
          /\ pipe'.packet = pipe.packet
      BY <2>2, <3>1, <3>2, Members DEF PipeType
    <3> QED BY <3>3 DEF i
  <2>5. pipe'.in.state = pipe.in.state /\ pipe'.in.reader = pipe.in.reader
        /\ pipe.in.state # "none"
    BY <1>1, <2>2, <2>4 DEF InType
  <2>6. stack = <<>> /\ stack' = <<>> /\ UNCHANGED <<sender, receiver, lost, failed, ghosts>>
    BY <1>1, <2>1 DEF Idle, objects
  <2>7. StackInv'
    BY <2>6, StackNone
  <2>8. SenderInv' /\ WriteInv' /\ ReceiverInv'
    <3>1. SenderInv'
      BY <2>4, <2>6, SenderFrame DEF MessagesInv, ghosts
    <3>2. WriteInv'
      BY <2>6, WriteFrame DEF MessagesInv, ghosts, Pending
    <3>3. ReceiverInv'
      <4>1. pipe.in.state # "none" /\ pipe.in.reader = <<>>
        BY <1>1 DEF MessagesInv, ReceiverInv
      <4> QED BY <2>5, <2>6, <4>1, ReceiverGoes DEF MessagesInv, ghosts, Asked
    <3> QED BY <3>1, <3>2, <3>3
  <2>9. TypeInv'
    BY <2>4, <2>6 DEF MessagesInv, TypeInv, ghosts
  <2> QED BY <2>7, <2>8, <2>9 DEF MessagesInv
<1> QED BY <1>2, <1>3

\* A step that changes nothing but who found the channel dead.
LEMMA OnlyLost ==
    ASSUME MessagesInv, UNCHANGED <<objects, network, ghosts>>,
           lost' \in SUBSET {"sender", "receiver"}
    PROVE  MessagesInv'
<1>1. UNCHANGED <<sender, receiver, pipe, stack, failed, given, taken, told, heard>>
  BY DEF objects, network, ghosts
<1>2. TypeInv'
  BY <1>1 DEF MessagesInv, TypeInv
<1>3. StackInv'
  BY <1>1 DEF MessagesInv, StackInv, Waits, Runnable, Silent, All, Asked
<1>4. SenderInv' /\ WriteInv' /\ ReceiverInv'
  BY <1>1 DEF MessagesInv, SenderInv, WriteInv, ReceiverInv, Silent, All, Asked, Pending
<1> QED BY <1>2, <1>3, <1>4 DEF MessagesInv

-----------------------------------------------------------------------------
(***************************************************************************)
(* Steps of the receiving end that nobody reads                             *)
(***************************************************************************)
Reports == Seq({<<"reset">>} \cup ({"message"} \X Bytes))
HeardInv == heard \in Reports /\ Len(heard) <= 1

LEMMA InStops ==
    ASSUME MessagesInv, ~Pending, StackInv',
           pipe' \in PipeType, pipe'.out = pipe.out, pipe'.wire = pipe.wire,
           pipe'.packet = pipe.packet, pipe'.in.reader = <<>>, pipe'.in.state # "none",
           UNCHANGED <<sender, given, taken, told, failed>>,
           lost' \in SUBSET {"sender", "receiver"}, receiver' \in ReceiverType, HeardInv'
    PROVE  MessagesInv'
<1>1. TypeInv'
  BY DEF MessagesInv, TypeInv, HeardInv, Reports
<1>2. SenderInv'
  BY SenderFrame DEF MessagesInv
<1>3. WriteInv'
  BY WriteFrame DEF MessagesInv
<1>4. ReceiverInv'
  BY DEF ReceiverInv, HeardInv
<1> QED BY <1>1, <1>2, <1>3, <1>4 DEF MessagesInv

LEMMA InFields ==
    ASSUME NEW p \in PipeType, NEW i \in InType, NEW q, q = [p EXCEPT !.in = i]
    PROVE  /\ q \in PipeType /\ q.in = i /\ q.out = p.out /\ q.wire = p.wire
           /\ q.packet = p.packet
  BY DEF PipeType

\* What was heard, when nothing more is.
LEMMA HeardStays ==
    ASSUME MessagesInv, UNCHANGED heard
    PROVE  HeardInv'
  BY DEF MessagesInv, TypeInv, HeardInv, Reports

LEMMA HeardFirst ==
    ASSUME heard = <<>>, NEW x \in {<<"reset">>} \cup ({"message"} \X Bytes),
           heard' = Append(heard, x)
    PROVE  HeardInv'
<1>2. heard' = <<x>>
  OBVIOUS
<1>3. heard' \in Reports /\ Len(heard') = 1 /\ DOMAIN heard' = {1} /\ heard'[1] = x
  BY <1>2 DEF Reports
<1> QED BY <1>3 DEF HeardInv

LEMMA LoseReceiver ==
    ASSUME MessagesInv, stack = <<>>, pipe.in.state # "none",
           LET i == InReset(pipe.in) IN InDone([i EXCEPT !.end.complete = TRUE], <<>>),
           UNCHANGED <<objects, ghosts>>, lost' \in SUBSET {"sender", "receiver"}
    PROVE  MessagesInv'
<1> DEFINE r == InReset(pipe.in)
           i == [r.end EXCEPT !.complete = TRUE]
<1>1. pipe \in PipeType /\ pipe.in \in InType
  BY DEF MessagesInv, TypeInv, PipeType
<1>2. /\ ~r.raised /\ r.end \in InType /\ r.end.reader = <<>>
      /\ r.end.state \in {"reset", "resetDown"}
      /\ pipe.in.reader = <<>> => r.calls = <<>>
      /\ pipe.in.reader # <<>> => r.calls = <<Call("receiver", "RESET", <<>>)>>
  BY <1>1, InWasReset
<1>3. [r EXCEPT !.end.complete = TRUE].raised = r.raised
      /\ [r EXCEPT !.end.complete = TRUE].end = i
      /\ [r EXCEPT !.end.complete = TRUE].calls = r.calls
  BY DEF InReset, Done
<1>4. /\ failed' = failed /\ pipe' = [pipe EXCEPT !.in = i] /\ stack' = r.calls \o <<>>
  BY <1>2, <1>3 DEF InDone
<1> HIDE DEF r
<1>5. i \in InType /\ i.reader = <<>> /\ i.state # "none"
  BY <1>2 DEF InType
<1> HIDE DEF i
<1>6. /\ pipe' \in PipeType /\ pipe'.in = i /\ pipe'.out = pipe.out /\ pipe'.wire = pipe.wire
      /\ pipe'.packet = pipe.packet
  BY <1>1, <1>4, <1>5, InFields
<1>7. UNCHANGED <<sender, receiver, given, taken, told, heard>>
  BY DEF objects, ghosts
<1>8. StackInv'
  <2>1. CASE pipe.in.reader = <<>>
    BY <1>2, <1>4, <2>1, StackNone
  <2>2. CASE pipe.in.reader # <<>>
    <3>1. stack' = <<Call("receiver", "RESET", <<>>)>>
      BY <1>2, <1>4, <2>2
    <3>2. heard' = <<>> /\ receiver'.life = "alive"
      BY <1>7, <2>2 DEF MessagesInv, ReceiverInv
    <3> DEFINE c == Call("receiver", "RESET", <<>>)
    <3>3. c \in Calls /\ Kind(c) /\ IsEnding(c) /\ c.event = "RESET"
      BY Events DEF Endings
    <3> HIDE DEF c
    <3>4. Waits(c)' /\ Runnable(c)'
      BY <1>5, <1>6, <3>2, <3>3, EndingRuns
    <3> QED BY <3>1, <3>3, <3>4, StackOne DEF c
  <2> QED BY <2>1, <2>2
<1>9. HeardInv' /\ receiver' \in ReceiverType /\ ~Pending
  BY <1>7, HeardStays DEF MessagesInv, TypeInv, Pending
<1> QED BY <1>4, <1>5, <1>6, <1>7, <1>8, <1>9, InStops

LEMMA LoseHolds ==
    ASSUME MessagesInv, NEW side \in {"sender", "receiver"}, Lose(side)
    PROVE  MessagesInv'
<1>1. stack = <<>> /\ lost' = lost \cup {side} /\ UNCHANGED <<objects, ghosts>>
  BY DEF Lose, Idle
<1>2. lost' \in SUBSET {"sender", "receiver"}
  BY <1>1 DEF MessagesInv, TypeInv
<1>3. CASE side = "sender" /\ ~pipe.out.complete
  <2> DEFINE r == OutReset(pipe.out)
             o == [r.end EXCEPT !.complete = TRUE]
  <2>1. ~r.raised /\ WasResetTo(r.end) /\ ResetTells(r.calls)
    BY OutResets DEF MessagesInv
  <2>2. [r EXCEPT !.end.complete = TRUE].raised = r.raised
        /\ [r EXCEPT !.end.complete = TRUE].end = o
        /\ [r EXCEPT !.end.complete = TRUE].calls = r.calls
    BY DEF OutReset, Done
  <2>3. OutDone([r EXCEPT !.end.complete = TRUE], <<>>)
    BY <1>3 DEF Lose
  <2>4. /\ failed' = failed /\ pipe' = [pipe EXCEPT !.out = o] /\ stack' = r.calls \o <<>>
    BY <2>1, <2>2, <2>3 DEF OutDone
  <2>5. stack' = r.calls
    BY <2>1, <2>4, Tells
  <2> HIDE DEF r
  <2>6. WasResetTo(o)
    BY <2>1 DEF WasResetTo, OutType
  <2> HIDE DEF o
  <2>7. /\ pipe' \in PipeType /\ pipe'.out = o /\ pipe'.in = pipe.in /\ pipe'.wire = pipe.wire
    BY <2>4, <2>6 DEF MessagesInv, TypeInv, PipeType, WasResetTo
  <2>8. sender' = sender /\ receiver' = receiver
    BY <1>1 DEF objects
  <2> QED BY <1>1, <1>2, <2>1, <2>4, <2>5, <2>6, <2>7, <2>8, ResetInIdle
<1>4. CASE side = "receiver" /\ pipe.in.state # "none" /\ ~pipe.in.complete
  <2>1. LET i == InReset(pipe.in) IN InDone([i EXCEPT !.end.complete = TRUE], <<>>)
    BY <1>4 DEF Lose
  <2> QED BY <1>1, <1>2, <1>4, <2>1, LoseReceiver
<1>5. CASE UNCHANGED network
  BY <1>1, <1>2, <1>5, OnlyLost
<1> QED BY <1>3, <1>4, <1>5 DEF Lose

LEMMA DropHolds ==
    ASSUME MessagesInv, Drop
    PROVE  MessagesInv'
<1> DEFINE r == InReset(pipe.in)
<1>1. /\ Idle /\ receiver.life = "alive" /\ receiver' = [receiver EXCEPT !.life = "dying"]
      /\ InDone(r, <<Destroy("receiver")>> \o <<>>) /\ UNCHANGED <<sender, lost, ghosts>>
  BY DEF Drop, DeleteReceiver, Destroy
<1>2. pipe \in PipeType /\ pipe.in \in InType
  BY DEF MessagesInv, TypeInv, PipeType
<1>3. /\ ~r.raised /\ r.end \in InType /\ r.end.reader = <<>>
      /\ r.end.state \in {"reset", "resetDown"}
      /\ pipe.in.reader = <<>> => r.calls = <<>>
      /\ pipe.in.reader # <<>> => r.calls = <<Call("receiver", "RESET", <<>>)>>
  BY <1>2, InWasReset
<1>4. \A x : <<x>> \o <<>> = <<x>>
  OBVIOUS
<1>5. /\ failed' = failed /\ pipe' = [pipe EXCEPT !.in = r.end]
      /\ stack' = r.calls \o <<Destroy("receiver")>>
  BY <1>1, <1>3, <1>4 DEF InDone
<1> HIDE DEF r
<1>6. /\ pipe' \in PipeType /\ pipe'.in = r.end /\ pipe'.out = pipe.out
      /\ pipe'.wire = pipe.wire /\ pipe'.packet = pipe.packet
  BY <1>2, <1>3, <1>5, InFields
<1>7. UNCHANGED <<sender, lost, given, taken, told, heard>> /\ stack = <<>>
  BY <1>1 DEF ghosts, Idle
<1>8. receiver' \in ReceiverType /\ receiver'.life = "dying"
  BY <1>1 DEF MessagesInv, TypeInv, ReceiverType
<1>9. StackInv'
  <2>1. Destroy("receiver") \in Calls /\ Kind(Destroy("receiver"))
    BY Plain
  <2>2. Waits(Destroy("receiver"))' /\ Runnable(Destroy("receiver"))'
    BY <1>8, DestroyWaits
  <2>3. CASE pipe.in.reader = <<>>
    <3>1. \A x : <<>> \o <<x>> = <<x>>
      OBVIOUS
    <3>2. stack' = <<Destroy("receiver")>>
      BY <1>3, <1>5, <2>3, <3>1, Zenon
    <3> QED BY <2>1, <2>2, <3>2, StackOne
  <2>4. CASE pipe.in.reader # <<>>
    <3> DEFINE c == Call("receiver", "RESET", <<>>)
    <3>1. stack' = <<c>> \o <<Destroy("receiver")>>
      BY <1>3, <1>5, <2>4
    <3>2. c \in Calls /\ Kind(c) /\ IsEnding(c) /\ c.event = "RESET"
      BY Events DEF Endings
    <3> HIDE DEF c
    <3>3. heard' = <<>>
      BY <1>7, <2>4 DEF MessagesInv, ReceiverInv
    <3>4. Waits(c)' /\ Runnable(c)'
      BY <1>3, <1>6, <1>8, <3>2, <3>3, EndingRuns
    <3>5. Follows(c, Destroy("receiver"))
      BY <3>2 DEF Follows
    <3> QED BY <2>1, <2>2, <3>1, <3>2, <3>4, <3>5, StackTwo
  <2> QED BY <2>3, <2>4
<1>10. HeardInv' /\ ~Pending /\ lost' \in SUBSET {"sender", "receiver"}
  BY <1>7, HeardStays DEF MessagesInv, TypeInv, Pending
<1> QED BY <1>3, <1>5, <1>6, <1>7, <1>8, <1>9, <1>10, InStops

\* The calls to the receiver that wait behind one, and how they run.
LEMMA ReceiverRuns ==
    ASSUME MessagesInv, NEW event \in {"DATA", "SHUTDOWN", "RESET", "destroyed"},
           Runs(event, "receiver")
    PROVE  /\ stack # <<>> /\ stack[1] \in Calls /\ stack[1] = Head(stack) /\ ~Pending
           /\ stack[1] # AcceptCall /\ stack[1].event = event
           /\ event = "DATA" => IsData(stack[1])
           /\ event \in Endings => IsEnding(stack[1])
           /\ event = "destroyed" => stack[1] = Destroy("receiver")
           /\ Waits(stack[1]) /\ Runnable(stack[1])
<1>1. stack # <<>> /\ Head(stack).to = "receiver" /\ Head(stack).event = event
  BY DEF Runs
<1>2. /\ stack[1] \in Calls /\ Head(stack) = stack[1] /\ Kind(stack[1])
      /\ Waits(stack[1]) /\ Runnable(stack[1])
  BY <1>1, Remaining DEF MessagesInv
<1>3. stack[1] # ClearedCall /\ stack[1] # AcceptCall
  BY <1>1, <1>2 DEF ClearedCall, AcceptCall, Do
<1>4. event = "destroyed" => stack[1] = Destroy("receiver")
  BY <1>1, <1>2, Which
<1> QED BY <1>1, <1>2, <1>3, <1>4 DEF IsData, IsEnding, Pending

LEMMA OnReceiveHolds ==
    ASSUME MessagesInv, OnReceive
    PROVE  MessagesInv'
<1> DEFINE c == stack[1]
<1>1. /\ Runs("DATA", "receiver") /\ receiver' = [receiver EXCEPT !.buffer = @ \o Head(stack).data]
      /\ stack' = Rest /\ UNCHANGED <<sender, pipe, failed, lost, given, taken, told, heard>>
  BY DEF OnReceive, ghosts
<1>2. /\ stack # <<>> /\ c = Head(stack) /\ ~Pending /\ c # AcceptCall /\ c \in Calls
      /\ IsData(c) /\ Runnable(c)
  BY <1>1, ReceiverRuns
<1>3. pipe.in.reader = <<>> /\ pipe.in.state # "none" /\ receiver.life = "alive"
  BY <1>2 DEF Runnable
<1>4. receiver' \in ReceiverType
  <2>1. c.data \in Bytes
    BY <1>2 DEF Calls
  <2>2. receiver \in ReceiverType /\ receiver.buffer \in Bytes
    BY DEF MessagesInv, TypeInv, ReceiverType
  <2> DEFINE b == receiver.buffer \o c.data
  <2>3. b \in Bytes
    BY <2>1, <2>2, Joining
  <2>4. receiver' = [receiver EXCEPT !.buffer = b]
    BY <1>1, <1>2
  <2> HIDE DEF b
  <2> QED BY <2>2, <2>3, <2>4 DEF ReceiverType
<1>5. PICK rest : rest = Tail(stack)
  OBVIOUS
<1>6. stack' = rest
  BY <1>1, <1>5 DEF Rest
<1>7. \/ rest = <<>>
      \/ \E d \in Calls : rest = <<d>> /\ Follows(c, d) /\ Waits(d) /\ Late(d) /\ Kind(d)
  BY <1>2, <1>5, Behind DEF MessagesInv
<1>8. StackInv'
  <2>1. CASE rest = <<>>
    BY <1>6, <2>1, StackNone
  <2>2. ASSUME NEW d \in Calls, rest = <<d>>, Follows(c, d), Waits(d), Late(d), Kind(d)
        PROVE  StackInv'
    <3>1. Waits(d)'
      BY <1>1, <2>2 DEF Waits, All, Asked
    <3>3. Runnable(d)'
      BY <1>1, <1>3, <2>2, LateRuns
    <3> QED BY <1>6, <2>2, <3>1, <3>3, StackOne
  <2> QED BY <1>7, <2>1, <2>2
<1>9. HeardInv' /\ lost' \in SUBSET {"sender", "receiver"} /\ pipe' \in PipeType
  BY <1>1, HeardStays DEF MessagesInv, TypeInv
<1> QED BY <1>1, <1>2, <1>3, <1>4, <1>8, <1>9, InStops

LEMMA ReceiverDestroyedHolds ==
    ASSUME MessagesInv, ReceiverDestroyed
    PROVE  MessagesInv'
<1> DEFINE c == stack[1]
<1>1. /\ Runs("destroyed", "receiver") /\ receiver' = [receiver EXCEPT !.life = "dead"]
      /\ stack' = Rest /\ UNCHANGED <<sender, pipe, failed, lost, given, taken, told, heard>>
  BY DEF ReceiverDestroyed, ghosts
<1>2. /\ stack # <<>> /\ ~Pending /\ c # AcceptCall /\ c = Destroy("receiver") /\ Waits(c)
  BY <1>1, ReceiverRuns
<1>3. receiver.life = "dying"
  BY <1>2 DEF Waits
<1>4. pipe.in.reader = <<>> /\ pipe.in.state # "none"
  BY <1>3 DEF MessagesInv, ReceiverInv, NoReceiver
<1>5. receiver' \in ReceiverType
  BY <1>1 DEF MessagesInv, TypeInv, ReceiverType
<1>6. PICK rest : rest = Tail(stack)
  OBVIOUS
<1>7. \/ rest = <<>>
      \/ \E d \in Calls : rest = <<d>> /\ Follows(c, d) /\ Waits(d) /\ Late(d) /\ Kind(d)
  BY <1>2, <1>6, Behind DEF MessagesInv
<1>8. stack' = <<>>
  BY <1>1, <1>2, <1>6, <1>7, NothingBehind DEF Rest
<1>9. HeardInv' /\ lost' \in SUBSET {"sender", "receiver"} /\ pipe' \in PipeType
  BY <1>1, HeardStays DEF MessagesInv, TypeInv
<1> QED BY <1>1, <1>2, <1>4, <1>5, <1>8, <1>9, InStops, StackNone

LEMMA HeardHolds ==
    ASSUME MessagesInv, Heard
    PROVE  MessagesInv'
<1> DEFINE c == stack[1]
<1>1. /\ Runs("SHUTDOWN", "receiver") \/ Runs("RESET", "receiver")
      /\ heard' = Append(heard, IF Head(stack).event = "RESET" THEN <<"reset">>
                                ELSE <<"message", receiver.buffer>>)
      /\ DeleteReceiver(Rest) \/ (stack' = Rest /\ UNCHANGED <<receiver, pipe, failed>>)
      /\ UNCHANGED <<sender, lost, given, taken, told>>
  BY DEF Heard
<1>2. /\ stack # <<>> /\ c = Head(stack) /\ ~Pending /\ c # AcceptCall /\ c \in Calls
      /\ IsEnding(c) /\ Runnable(c) /\ c.event \in Endings
  BY <1>1, ReceiverRuns DEF Endings
<1>3. /\ pipe.in.reader = <<>> /\ pipe.in.state # "none" /\ heard = <<>>
      /\ receiver.life \in {"alive", "dying"}
  BY <1>2 DEF Runnable
<1>4. HeardInv'
  <2> DEFINE x == IF Head(stack).event = "RESET" THEN <<"reset">>
                  ELSE <<"message", receiver.buffer>>
  <2>1. heard' = Append(heard, x)
    BY <1>1
  <2>2. x \in {<<"reset">>} \cup ({"message"} \X Bytes)
    BY DEF MessagesInv, TypeInv, ReceiverType
  <2> HIDE DEF x
  <2> QED BY <1>3, <2>1, <2>2, HeardFirst
<1>5. PICK rest : rest = Tail(stack)
  OBVIOUS
<1>6. \/ rest = <<>>
      \/ \E d \in Calls : rest = <<d>> /\ Follows(c, d) /\ Waits(d) /\ Late(d) /\ Kind(d)
  BY <1>2, <1>5, Behind DEF MessagesInv
<1>7. \/ rest = <<>>
      \/ rest = <<Destroy("receiver")>> /\ Waits(Destroy("receiver"))
  <2>1. ASSUME NEW d \in Calls, Follows(c, d)
        PROVE  d = Destroy("receiver")
    BY <1>2, <2>1 DEF Follows, IsEnding, IsOutcome, ReadyCall, ClearedCall, AcceptCall, Do, Endings
  <2> QED BY <1>6, <2>1
<1>8. Destroy("receiver") \in Calls /\ Kind(Destroy("receiver"))
  BY Plain
<1>9. receiver \in ReceiverType /\ pipe \in PipeType /\ pipe.in \in InType
      /\ lost' \in SUBSET {"sender", "receiver"}
  BY <1>1 DEF MessagesInv, TypeInv, PipeType
<1>10. CASE DeleteReceiver(Rest)
  <2> DEFINE r == InReset(pipe.in)
  <2>1. receiver.life = "alive" /\ receiver' = [receiver EXCEPT !.life = "dying"]
        /\ InDone(r, <<Destroy("receiver")>> \o rest)
    BY <1>5, <1>10 DEF DeleteReceiver, Destroy, Rest
  <2>2. rest = <<>>
    BY <1>7, <2>1 DEF Waits
  <2>3. /\ ~r.raised /\ r.end \in InType /\ r.end.reader = <<>>
        /\ r.end.state \in {"reset", "resetDown"} /\ r.calls = <<>>
    BY <1>3, <1>9, InWasReset
  <2>4. \A x : <<>> \o (<<x>> \o <<>>) = <<x>>
    OBVIOUS
  <2>5. /\ failed' = failed /\ pipe' = [pipe EXCEPT !.in = r.end]
        /\ stack' = r.calls \o (<<Destroy("receiver")>> \o rest)
    BY <2>1, <2>3 DEF InDone
  <2>6. stack' = <<Destroy("receiver")>>
    BY <2>2, <2>3, <2>4, <2>5, Zenon
  <2> HIDE DEF r
  <2>7. /\ pipe' \in PipeType /\ pipe'.in = r.end /\ pipe'.out = pipe.out
        /\ pipe'.wire = pipe.wire /\ pipe'.packet = pipe.packet
    BY <1>9, <2>3, <2>5, InFields
  <2>8. receiver' \in ReceiverType /\ receiver'.life = "dying"
    BY <1>9, <2>1 DEF ReceiverType
  <2>9. StackInv'
    BY <1>8, <2>6, <2>8, DestroyWaits, StackOne
  <2> QED BY <1>1, <1>2, <1>4, <1>9, <2>3, <2>5, <2>7, <2>8, <2>9, InStops
<1>11. CASE stack' = Rest /\ UNCHANGED <<receiver, pipe, failed>>
  <2>1. StackInv'
    <3>1. CASE rest = <<>>
      BY <1>5, <1>11, <3>1, StackNone DEF Rest
    <3>2. CASE rest = <<Destroy("receiver")>> /\ Waits(Destroy("receiver"))
      <4>1. stack' = <<Destroy("receiver")>>
        BY <1>5, <1>11, <3>2 DEF Rest
      <4>2. receiver'.life = "dying"
        BY <1>11, <3>2 DEF Waits
      <4> QED BY <1>8, <4>1, <4>2, DestroyWaits, StackOne
    <3> QED BY <1>7, <3>1, <3>2
  <2> QED BY <1>1, <1>2, <1>3, <1>4, <1>9, <1>11, <2>1, InStops
<1> QED BY <1>1, <1>10, <1>11

-----------------------------------------------------------------------------
(***************************************************************************)
(* Steps of the receiving end that data may still reach                     *)
(***************************************************************************)
\* A step of the receiving end while nobody read anything.
LEMMA InGoesOn ==
    ASSUME MessagesInv, ~Pending, StackInv',
           pipe' \in PipeType, pipe'.out = pipe.out, pipe'.wire = pipe.wire,
           pipe'.packet = pipe.packet, pipe'.in.state # "none",
           UNCHANGED <<sender, given, taken, told, failed>>,
           lost' \in SUBSET {"sender", "receiver"},
           receiver' = [life |-> "alive", buffer |-> <<>>], heard' = <<>>, heard = <<>>,
           pipe'.in.state \in {"connected", "shutdown"}, ~pipe'.in.complete
    PROVE  MessagesInv'
<1>1. receiver' \in ReceiverType
  BY Members DEF ReceiverType
<1>2. TypeInv'
  BY <1>1 DEF MessagesInv, TypeInv
<1>3. SenderInv'
  BY SenderFrame DEF MessagesInv
<1>4. WriteInv'
  BY WriteFrame DEF MessagesInv
<1>5. DOMAIN heard' = {}
  OBVIOUS
<1>6. ReceiverInv'
  BY <1>5 DEF ReceiverInv
<1> QED BY <1>2, <1>3, <1>4, <1>6 DEF MessagesInv

LEMMA AcceptHolds ==
    ASSUME MessagesInv, Accept
    PROVE  MessagesInv'
<1> DEFINE c == stack[1]
<1>1. /\ Runs("accept", "receiver") /\ stack # <<>>
      /\ \/ /\ receiver' = [receiver EXCEPT !.life = "alive"]
            /\ InDone(InRead(NewIn, "receiver"), Rest)
         \/ /\ InDone(InReset(NewIn), Rest)
            /\ UNCHANGED receiver
      /\ UNCHANGED <<sender, lost, given, taken, told, heard>>
  BY DEF Accept, Runs, ghosts
<1>2. PICK rest : rest = Tail(stack)
  OBVIOUS
<1>3. /\ Shape(rest) /\ Kind(c) /\ Runnable(c) /\ Head(stack) = c
      /\ \A n \in 1..Len(rest) : Late(rest[n]) /\ Waits(rest[n])
  BY <1>1, <1>2, Remaining DEF MessagesInv
<1>4. c = AcceptCall
  BY <1>1, <1>3, Which DEF Runs
<1>5. pipe.in = NoIn /\ pipe.in.state = "none"
  BY <1>3, <1>4 DEF Runnable, NoIn
<1>6. receiver = NoReceiver /\ heard = <<>>
  BY <1>5 DEF MessagesInv, ReceiverInv
<1>7. c # EofCall /\ c.event # "arrive" /\ c # ClearedCall
  BY <1>4 DEF AcceptCall, EofCall, ClearedCall, Do
<1>8. pipe \in PipeType /\ lost' \in SUBSET {"sender", "receiver"} /\ ~Pending
      /\ receiver \in ReceiverType
  BY <1>1, <1>7 DEF MessagesInv, TypeInv, Pending
<1>9. /\ NewIn \in InType /\ NewIn.reader = <<>> /\ NewIn.state = "connected"
      /\ NewIn.complete = FALSE
  <2>1. "none" \in InStates /\ "connected" \in InStates
    BY DEF InStates
  <2>2. NoIn \in InType /\ NoIn.reader = <<>> /\ NoIn.complete = FALSE
    BY <2>1, Members DEF NoIn, InType
  <2> QED BY <2>1, <2>2 DEF NewIn, InType
<1>10. ASSUME stack' = rest, pipe'.out = pipe.out, pipe'.wire = pipe.wire, pipe'.in.state # "none"
       PROVE  StackInv'
  <2>1. ASSUME NEW n \in 1..Len(rest)
        PROVE  Waits(rest[n])'
    <3>1. Waits(rest[n])
      BY <1>3
    <3>2. rest[n] # Destroy("receiver")
      BY <1>6, <3>1 DEF Waits, NoReceiver
    <3> QED BY <1>1, <1>10, <3>1, <3>2 DEF Waits, All, Asked
  <2>2. ASSUME rest # <<>>
        PROVE  Runnable(rest[1])'
    <3>1. Late(rest[1])
      BY <1>3, <2>2 DEF Shape
    <3> QED BY <1>10, <3>1, LateRuns
  <2> QED BY <1>3, <1>10, <2>1, <2>2, StackIs
<1>11. CASE receiver' = [receiver EXCEPT !.life = "alive"] /\ InDone(InRead(NewIn, "receiver"), Rest)
  <2> DEFINE i == [NewIn EXCEPT !.reader = <<"receiver">>]
  <2>1. failed' = failed /\ pipe' = [pipe EXCEPT !.in = i] /\ stack' = <<>> \o rest
    BY <1>2, <1>11, FirstRead DEF InDone, Rest
  <2>2. i \in InType /\ i.state = "connected" /\ ~i.complete
    BY <1>9, Members DEF InType, InStates
  <2> HIDE DEF i
  <2>3. /\ pipe' \in PipeType /\ pipe'.in = i /\ pipe'.out = pipe.out /\ pipe'.wire = pipe.wire
        /\ pipe'.packet = pipe.packet
    BY <1>8, <2>1, <2>2, InFields
  <2>4. stack' = rest
    BY <1>3, <2>1, NothingPushed DEF Shape
  <2>5. StackInv'
    BY <1>10, <2>2, <2>3, <2>4
  <2>7. receiver' = [life |-> "alive", buffer |-> <<>>]
    BY <1>6, <1>11 DEF NoReceiver
  <2> QED BY <1>1, <1>6, <1>8, <2>1, <2>2, <2>3, <2>5, <2>7, InGoesOn
<1>12. CASE InDone(InReset(NewIn), Rest) /\ UNCHANGED receiver
  <2> DEFINE r == InReset(NewIn)
  <2>1. /\ ~r.raised /\ r.end \in InType /\ r.end.reader = <<>>
        /\ r.end.state \in {"reset", "resetDown"} /\ r.calls = <<>>
    BY <1>9, InWasReset
  <2>2. failed' = failed /\ pipe' = [pipe EXCEPT !.in = r.end] /\ stack' = r.calls \o rest
    BY <1>2, <1>12, <2>1 DEF InDone, Rest
  <2> HIDE DEF r
  <2>3. /\ pipe' \in PipeType /\ pipe'.in = r.end /\ pipe'.out = pipe.out /\ pipe'.wire = pipe.wire
        /\ pipe'.packet = pipe.packet
    BY <1>8, <2>1, <2>2, InFields
  <2>4. stack' = rest
    BY <1>3, <2>1, <2>2, NothingPushed DEF Shape
  <2>5. StackInv'
    BY <1>10, <2>1, <2>3, <2>4
  <2>6. HeardInv'
    BY <1>1, HeardStays
  <2> QED BY <1>1, <1>8, <1>12, <2>1, <2>2, <2>3, <2>5, <2>6, InStops
<1> QED BY <1>1, <1>11, <1>12

\* An arrival that the receiving end ignores, or that nobody waits for.
LEMMA ArrivalStops ==
    ASSUME MessagesInv, StackInv', IsArrival(stack[1]), NEW i \in InType,
           i.reader = <<>>, i.state # "none", pipe' = [pipe EXCEPT !.in = i],
           UNCHANGED <<objects, failed, lost, ghosts>>
    PROVE  MessagesInv'
<1>1. pipe \in PipeType
  BY DEF MessagesInv, TypeInv
<1>2. /\ pipe' \in PipeType /\ pipe'.in = i /\ pipe'.out = pipe.out
      /\ pipe'.wire = pipe.wire /\ pipe'.packet = pipe.packet
  BY <1>1, InFields
<1>3. UNCHANGED <<sender, receiver, given, taken, told, heard>>
  BY DEF objects, ghosts
<1>4. ~Pending
  BY DEF Pending, IsArrival, ClearedCall, Do
<1>5. HeardInv' /\ lost' \in SUBSET {"sender", "receiver"} /\ receiver' \in ReceiverType
  BY <1>3, HeardStays DEF MessagesInv, TypeInv
<1> QED BY <1>2, <1>3, <1>4, <1>5, InStops

\* An arrival that a reader still waits behind.
LEMMA ArrivalGoesOn ==
    ASSUME MessagesInv, StackInv', IsArrival(stack[1]), NEW i \in InType,
           pipe.in.reader # <<>>, i.state \in {"connected", "shutdown"}, ~i.complete,
           pipe' = [pipe EXCEPT !.in = i],
           UNCHANGED <<objects, failed, lost, ghosts>>
    PROVE  MessagesInv'
<1>1. pipe \in PipeType
  BY DEF MessagesInv, TypeInv
<1>2. /\ pipe' \in PipeType /\ pipe'.in = i /\ pipe'.out = pipe.out
      /\ pipe'.wire = pipe.wire /\ pipe'.packet = pipe.packet
  BY <1>1, InFields
<1>3. UNCHANGED <<sender, receiver, given, taken, told, heard>>
  BY DEF objects, ghosts
<1>4. ~Pending
  BY DEF Pending, IsArrival, ClearedCall, Do
<1>5. receiver = [life |-> "alive", buffer |-> <<>>] /\ heard = <<>>
  BY DEF MessagesInv, ReceiverInv
<1>6. lost' \in SUBSET {"sender", "receiver"}
  BY DEF MessagesInv, TypeInv
<1> QED BY <1>2, <1>3, <1>4, <1>5, <1>6, InGoesOn

\* What an arrival leaves in the stack.
LEMMA ArrivalRest ==
    ASSUME MessagesInv, stack # <<>>, IsArrival(stack[1]),
           pipe'.in.state # "none", UNCHANGED <<sender, given, taken>>,
           pipe'.out = pipe.out, pipe'.wire = pipe.wire
    PROVE  /\ \/ Tail(stack) = <<>>
              \/ Tail(stack) = <<EofCall>> /\ Waits(EofCall) /\ stack[1].event = "arrive"
           /\ Tail(stack) = <<EofCall>> => Waits(EofCall)' /\ Runnable(EofCall)'
           /\ stack' = Tail(stack) => StackInv'
<1>0. PICK rest : rest = Tail(stack)
  OBVIOUS
<1>1. stack[1] # AcceptCall
  BY DEF IsArrival, AcceptCall, Do
<1>2. \/ rest = <<>>
      \/ \E d \in Calls : rest = <<d>> /\ Follows(stack[1], d) /\ Waits(d) /\ Late(d) /\ Kind(d)
  BY <1>0, <1>1, Behind DEF MessagesInv
<1>3. ASSUME NEW d, Follows(stack[1], d)
      PROVE  d = EofCall /\ stack[1].event = "arrive"
  BY <1>3 DEF Follows, IsArrival, Arrivals, ReadyCall, ClearedCall, AcceptCall, Do, IsOutcome,
              IsEnding
<1>4. rest = <<>> \/ (rest = <<EofCall>> /\ Waits(EofCall) /\ stack[1].event = "arrive")
  BY <1>2, <1>3
<1>5. EofCall \in Calls /\ Kind(EofCall) /\ Late(EofCall)
  BY Plain DEF Late
<1>6. ASSUME rest = <<EofCall>>
      PROVE  Waits(EofCall)' /\ Runnable(EofCall)'
  BY EofRuns
<1>7. stack' = rest => StackInv'
  BY <1>4, <1>5, <1>6, StackOne, StackNone
<1> QED BY <1>0, <1>4, <1>6, <1>7

LEMMA ArrivesHolds ==
    ASSUME MessagesInv, Arrives
    PROVE  MessagesInv'
<1> DEFINE c == stack[1]
<1>1. PICK event \in Arrivals :
          /\ Runs(event, "network")
          /\ InDone(IF Unassigned(pipe.in) THEN Done(pipe.in, <<>>) ELSE Received(event), Rest)
  BY DEF Arrives, Arrivals
<1>2. UNCHANGED <<objects, lost, ghosts>> /\ UNCHANGED <<sender, given, taken, heard, receiver>>
  BY DEF Arrives, objects, ghosts
<1>3. stack # <<>> /\ Head(stack).to = "network" /\ Head(stack).event = event
  BY <1>1 DEF Runs
<1>4. PICK rest : rest = Tail(stack)
  OBVIOUS
<1>5. /\ c \in Calls /\ Kind(c) /\ Waits(c) /\ Runnable(c) /\ Head(stack) = c /\ Shape(rest)
  BY <1>3, <1>4, Remaining DEF MessagesInv
<1>6. IsArrival(c) /\ c.event = event /\ c.data \in Bytes
  BY <1>1, <1>3, <1>5 DEF IsArrival, Calls
<1>7. pipe.in.state # "none" /\ pipe \in PipeType /\ pipe.in \in InType
  BY <1>5, <1>6 DEF Runnable, MessagesInv, TypeInv, PipeType
<1>8. pipe.in.reader # <<>> =>
          /\ receiver.life = "alive" /\ receiver.buffer = <<>> /\ heard = <<>>
          /\ pipe.in.state \in {"connected", "shutdown"} /\ ~pipe.in.complete
  BY DEF MessagesInv, ReceiverInv
<1>9. rest \in Seq(Calls) /\ <<>> \o rest = rest
  BY <1>5, NothingPushed DEF Shape
\* What an outcome r of the receiving end comes to.
<1>10. ASSUME NEW i \in InType, i.state # "none", pipe' = [pipe EXCEPT !.in = i]
       PROVE  /\ rest = <<>> \/ (rest = <<EofCall>> /\ Waits(EofCall) /\ c.event = "arrive")
              /\ rest = <<EofCall>> => Waits(EofCall)' /\ Runnable(EofCall)'
              /\ stack' = rest => StackInv'
              /\ pipe'.in = i /\ pipe'.wire = pipe.wire
  <2>1. /\ pipe' \in PipeType /\ pipe'.in = i /\ pipe'.out = pipe.out
        /\ pipe'.wire = pipe.wire /\ pipe'.packet = pipe.packet
    BY <1>7, <1>10, InFields
  <2>2. pipe'.in.state # "none" /\ UNCHANGED <<sender, given, taken>>
    BY <1>2, <1>10, <2>1
  <2>3. /\ rest = <<>> \/ (rest = <<EofCall>> /\ Waits(EofCall) /\ c.event = "arrive")
        /\ rest = <<EofCall>> => Waits(EofCall)' /\ Runnable(EofCall)'
        /\ stack' = rest => StackInv'
    BY <1>3, <1>4, <1>6, <2>1, <2>2, ArrivalRest
  <2> QED BY <2>1, <2>3
<1>11. ASSUME NEW i \in InType, i.state # "none", i.reader = <<>>,
              pipe' = [pipe EXCEPT !.in = i], stack' = rest, failed' = failed
       PROVE  MessagesInv'
  BY <1>2, <1>6, <1>10, <1>11, ArrivalStops
<1>12. CASE Unassigned(pipe.in)
  <2>1. failed' = failed /\ pipe' = [pipe EXCEPT !.in = pipe.in] /\ stack' = <<>> \o rest
    BY <1>1, <1>4, <1>12 DEF InDone, Done, Rest
  <2>2. CASE pipe.in.reader = <<>>
    BY <1>7, <1>9, <1>11, <2>1, <2>2
  <2>3. CASE pipe.in.reader # <<>>
    <3>1. StackInv'
      BY <1>7, <1>9, <1>10, <2>1
    <3> QED BY <1>2, <1>6, <1>7, <1>8, <2>1, <2>3, <3>1, ArrivalGoesOn
  <2> QED BY <2>2, <2>3
<1>13. CASE ~Unassigned(pipe.in) /\ event = "arrive"
  <2>8. PICK data : data = c.data
    OBVIOUS
  <2> DEFINE r == InData(pipe.in, data)
             d == Call("receiver", "DATA", data)
  <2>1. /\ ~r.raised /\ r.end \in InType /\ r.end.state = pipe.in.state
        /\ r.end.complete = pipe.in.complete
        /\ \/ r.calls = <<>> /\ r.end.reader = pipe.in.reader
              /\ (c.data = <<>> \/ pipe.in.reader = <<>> \/ pipe.in.state \in {"reset", "resetDown"})
           \/ /\ pipe.in.reader # <<>> /\ r.end.reader = <<>>
              /\ r.calls = <<d>>
    BY <1>6, <1>7, <2>8, DataCame
  <2>2. InDone(r, rest)
    BY <1>1, <1>4, <1>5, <1>13, <2>8 DEF Received, Rest
  <2>3. failed' = failed /\ pipe' = [pipe EXCEPT !.in = r.end] /\ stack' = r.calls \o rest
    BY <2>1, <2>2 DEF InDone
  <2>4. /\ d \in Calls /\ Kind(d) /\ IsData(d) /\ d.event = "DATA"
    BY <1>6, <2>8, Events DEF Call
  <2> HIDE DEF r, d
  <2>5. CASE r.calls = <<>> /\ r.end.reader = <<>>
    BY <1>7, <1>9, <1>11, <2>1, <2>3, <2>5
  <2>6. CASE r.calls = <<>> /\ r.end.reader # <<>>
    <3>1. pipe.in.reader # <<>> /\ c.data = <<>> /\ r.end.state \in {"connected", "shutdown"}
          /\ ~r.end.complete
      BY <1>8, <2>1, <2>6
    <3>2. stack' = rest
      BY <1>9, <2>3, <2>6
    <3>3. StackInv' /\ pipe'.wire = pipe.wire
      BY <1>7, <1>10, <2>1, <2>3, <3>2
    <3> QED BY <1>2, <1>6, <2>1, <2>3, <3>1, <3>3, ArrivalGoesOn
  <2>7. CASE pipe.in.reader # <<>> /\ r.end.reader = <<>> /\ r.calls = <<d>>
    <3>1. /\ rest = <<>> \/ rest = <<EofCall>>
          /\ rest = <<EofCall>> => Waits(EofCall)' /\ Runnable(EofCall)'
          /\ pipe'.in = r.end
      BY <1>7, <1>10, <2>1, <2>3
    <3>7. pipe'.in.reader = <<>> /\ pipe'.in.state # "none" /\ receiver'.life = "alive"
      BY <1>2, <1>7, <1>8, <2>1, <2>7, <3>1
    <3>2. Waits(d)' /\ Runnable(d)'
      BY <2>4, <3>7, DataRuns
    <3>3. stack' = <<d>> \o rest
      BY <2>3, <2>7
    <3>6. StackInv'
      <4>1. CASE rest = <<>>
        <5>1. \A x : <<x>> \o <<>> = <<x>>
          OBVIOUS
        <5>2. stack' = <<d>>
          BY <3>3, <4>1, <5>1, Zenon
        <5> QED BY <2>4, <3>2, <5>2, StackOne
      <4>2. CASE rest = <<EofCall>>
        <5>1. Follows(d, EofCall)
          BY <2>4 DEF Follows
        <5> QED BY <2>4, <3>1, <3>2, <3>3, <4>2, <5>1, Plain, StackTwo
      <4> QED BY <3>1, <4>1, <4>2
    <3> QED BY <1>2, <1>6, <1>7, <2>1, <2>3, <2>7, <3>6, ArrivalStops
  <2> QED BY <2>1, <2>5, <2>6, <2>7
<1>14. CASE ~Unassigned(pipe.in) /\ event = "eof"
  <2> DEFINE r == InEnd(pipe.in)
             d == Call("receiver", "SHUTDOWN", <<>>)
  <2>1. /\ ~r.raised /\ r.end \in InType /\ r.end.state # "none"
        /\ pipe.in.state \in {"connected", "shutdown"} => r.end.state = "shutdown"
        /\ \/ r.calls = <<>> /\ r.end.reader = pipe.in.reader
              /\ (pipe.in.state \in {"connected", "shutdown"} => r.end.complete = pipe.in.complete)
           \/ /\ pipe.in.reader # <<>> /\ r.end.reader = <<>>
              /\ r.calls = <<d>>
    BY <1>7, EndCame
  <2>2. InDone(r, rest)
    BY <1>1, <1>4, <1>14 DEF Received, Rest
  <2>3. failed' = failed /\ pipe' = [pipe EXCEPT !.in = r.end] /\ stack' = r.calls \o rest
    BY <2>1, <2>2 DEF InDone
  <2>4. d \in Calls /\ Kind(d) /\ IsEnding(d) /\ d.event = "SHUTDOWN"
    BY Events DEF Endings
  <2> HIDE DEF r, d
  <2>7. rest = <<>>
    BY <1>6, <1>10, <1>14, <2>1, <2>3
  <2>8. CASE r.calls = <<>> /\ r.end.reader = <<>>
    BY <1>9, <1>11, <2>1, <2>3, <2>8
  <2>10. CASE r.calls = <<>> /\ r.end.reader # <<>>
    <3>1. pipe.in.reader # <<>> /\ r.end.state = "shutdown" /\ ~r.end.complete
      BY <1>8, <2>1, <2>10
    <3>2. stack' = rest
      BY <1>9, <2>3, <2>10
    <3>3. StackInv'
      BY <1>10, <2>1, <2>3, <3>2
    <3> QED BY <1>2, <1>6, <2>1, <2>3, <3>1, <3>3, ArrivalGoesOn
  <2>11. CASE pipe.in.reader # <<>> /\ r.end.reader = <<>> /\ r.calls = <<d>>
    <3>2. pipe'.in = r.end
      BY <1>10, <2>1, <2>3
    <3>3. heard' = <<>> /\ receiver'.life \in {"alive", "dying"}
      BY <1>2, <1>8, <2>11
    <3>4. Waits(d)' /\ Runnable(d)'
      BY <2>1, <2>4, <2>11, <3>2, <3>3, EndingRuns
    <3>5. stack' = <<d>>
      <4>1. \A x : <<x>> \o <<>> = <<x>>
        OBVIOUS
      <4> QED BY <2>3, <2>7, <2>11, <4>1, Zenon
    <3>6. StackInv'
      BY <2>4, <3>4, <3>5, StackOne
    <3> QED BY <1>2, <1>6, <2>1, <2>3, <2>11, <3>6, ArrivalStops
  <2> QED BY <2>1, <2>8, <2>10, <2>11
<1>15. CASE ~Unassigned(pipe.in) /\ event = "writerResets"
  <2> DEFINE r == InWriterResets(pipe.in)
             d == Call("receiver", "RESET", <<>>)
  <2>1. /\ ~r.raised /\ r.end \in InType /\ r.end.reader = <<>>
        /\ r.end.state \in {"reset", "resetDown"}
        /\ pipe.in.reader = <<>> => r.calls = <<>>
        /\ pipe.in.reader # <<>> => r.calls = <<d>>
    BY <1>7, InWriterReset
  <2>2. InDone(r, rest)
    BY <1>1, <1>4, <1>15 DEF Received, Rest
  <2>3. failed' = failed /\ pipe' = [pipe EXCEPT !.in = r.end] /\ stack' = r.calls \o rest
    BY <2>1, <2>2 DEF InDone
  <2>4. d \in Calls /\ Kind(d) /\ IsEnding(d) /\ d.event = "RESET"
    BY Events DEF Endings
  <2> HIDE DEF r, d
  <2>5. CASE pipe.in.reader = <<>>
    BY <1>9, <1>11, <2>1, <2>3, <2>5
  <2>6. CASE pipe.in.reader # <<>>
    <3>1. rest = <<>> /\ pipe'.in = r.end
      BY <1>6, <1>10, <1>15, <2>1, <2>3
    <3>2. heard' = <<>> /\ receiver'.life \in {"alive", "dying"}
      BY <1>2, <1>8, <2>6
    <3>3. Waits(d)' /\ Runnable(d)'
      BY <2>1, <2>4, <3>1, <3>2, EndingRuns
    <3>4. stack' = <<d>>
      <4>1. \A x : <<x>> \o <<>> = <<x>>
        OBVIOUS
      <4> QED BY <2>1, <2>3, <2>6, <3>1, <4>1, Zenon
    <3>5. StackInv'
      BY <2>4, <3>3, <3>4, StackOne
    <3> QED BY <1>2, <1>6, <2>1, <2>3, <3>5, ArrivalStops
  <2> QED BY <2>5, <2>6
<1> QED BY <1>1, <1>12, <1>13, <1>14, <1>15 DEF Arrivals

-----------------------------------------------------------------------------
(***************************************************************************)
(* Steps of the sender                                                      *)
(***************************************************************************)
LEMMA WrapHolds ==
    ASSUME MessagesInv, Wrap
    PROVE  MessagesInv'
<1>1. /\ stack = <<>> /\ sender.life = "unborn" /\ sender' = NewBuffered
      /\ UNCHANGED <<receiver, pipe, stack, failed, lost, given, taken, told, heard>>
  BY DEF Wrap, Idle, network, ghosts
<1>2. /\ sender' \in SenderType /\ sender'.kind = "buffered" /\ sender'.life = "alive"
      /\ sender'.ready = TRUE /\ sender'.buf = <<>> /\ sender'.shutdownRequest = FALSE
  BY <1>1, Members DEF NewBuffered, Unborn, SenderType
<1>3. /\ sender.kind = "none" /\ ~sender.shutdownRequest /\ told = <<>> /\ given = 0 /\ Silent
      /\ pipe.out.heap = <<>> /\ pipe.out.state \in {"connected", "reset"}
  BY <1>1 DEF MessagesInv, SenderInv
<1>4. ~Asked
  BY <1>3 DEF Asked
<1>5. TypeInv'
  BY <1>1, <1>2 DEF MessagesInv, TypeInv
<1>6. StackInv'
  BY <1>1, StackNone
<1>7. SenderInv'
  BY <1>1, <1>2, <1>3, <1>4 DEF MessagesInv, SenderInv, Silent, Asked, All
<1>8. WriteInv'
  <2>1. Len(taken) = 0 /\ taken \in Seq(Nat)
    BY <1>3 DEF MessagesInv, TypeInv, WriteInv, Bytes
  <2>2. Len(<<>>) = 0 /\ \A n \in 1..Len(<<>>) : FALSE
    OBVIOUS
  <2> QED BY <1>1, <1>2, <1>3, <2>1, <2>2 DEF MessagesInv, WriteInv
<1>9. ReceiverInv'
  BY <1>1, <1>4, ReceiverFrame DEF MessagesInv
<1> QED BY <1>5, <1>6, <1>7, <1>8, <1>9 DEF MessagesInv

LEMMA PullHolds ==
    ASSUME MessagesInv, Pull
    PROVE  MessagesInv'
<1>1. /\ stack = <<>> /\ stack' = <<PullCall>> /\ ReadyToSend(pipe)
      /\ UNCHANGED <<sender, receiver, pipe, failed, lost, given, taken, told, heard>>
  BY DEF Pull, Idle, PullCall, objects, ghosts
<1>2. pipe.out.state \in {"connected", "shutdown"}
  BY <1>1 DEF ReadyToSend, MessagesInv, SenderInv, TypeInv, PipeType, OutType, OutStates
<1>3. StackInv'
  BY <1>1, <1>2, NetworkWaits, Plain, StackOne
<1>6. TypeInv'
  BY <1>1 DEF MessagesInv, TypeInv
<1>7. SenderInv'
  BY <1>1, SenderFrame DEF MessagesInv
<1>8. WriteInv'
  BY <1>1, WriteFrame DEF MessagesInv, Pending
<1>9. ReceiverInv'
  BY <1>1, ReceiverFrame DEF MessagesInv, Asked
<1> QED BY <1>3, <1>6, <1>7, <1>8, <1>9 DEF MessagesInv

\* A call to the sender or its handler, and what waits behind it.
LEMMA SenderRuns ==
    ASSUME MessagesInv, NEW c, stack # <<>>, c = stack[1],
           c \in {ReadyCall, ClearedCall} \/ IsOutcome(c) \/ c = Destroy("sender")
    PROVE  /\ Waits(c) /\ Runnable(c) /\ c \in Calls
           /\ \/ Tail(stack) = <<>>
              \/ /\ c \in {ReadyCall, ClearedCall} /\ Tail(stack) = <<PullCall>>
                 /\ pipe.out.state \in {"connected", "shutdown"}
              \/ /\ IsOutcome(c) /\ Tail(stack) = <<Destroy("sender")>> /\ sender.life = "dying"

<1>1. PICK rest : rest = Tail(stack)
  OBVIOUS
<1>2. Waits(c) /\ Runnable(c) /\ c \in Calls
  BY <1>1, Remaining DEF MessagesInv
<1>3. c # AcceptCall /\ c # EofCall /\ c.event # "arrive"
  BY DEF IsOutcome, Outcomes, ReadyCall, ClearedCall, AcceptCall, EofCall, Destroy, Do
<1>4. \/ rest = <<>>
      \/ \E d \in Calls : rest = <<d>> /\ Follows(c, d) /\ Waits(d) /\ Late(d) /\ Kind(d)
  BY <1>1, <1>3, Behind DEF MessagesInv
<1>5. ASSUME NEW d, Follows(c, d)
      PROVE  \/ c \in {ReadyCall, ClearedCall} /\ d = PullCall
             \/ IsOutcome(c) /\ d = Destroy("sender")
  <2>1. c # Destroy("sender")
    BY <1>5, NothingBehind
  <2>2. ~IsEnding(c) /\ c.event # "DATA"
    BY <2>1 DEF IsOutcome, IsEnding, Outcomes, Endings, ReadyCall, ClearedCall, Do
  <2> QED BY <1>3, <1>5, <2>2 DEF Follows
<1>6. \/ rest = <<>>
      \/ /\ c \in {ReadyCall, ClearedCall} /\ rest = <<PullCall>>
         /\ pipe.out.state \in {"connected", "shutdown"}
      \/ /\ IsOutcome(c) /\ rest = <<Destroy("sender")>> /\ sender.life = "dying"
  BY <1>4, <1>5 DEF Waits
<1> QED BY <1>1, <1>2, <1>6

\* The stack after a call to the sender has run and nothing was pushed.
LEMMA RestStays ==
    ASSUME MessagesInv, NEW c, stack # <<>>, c = stack[1], stack' = Tail(stack),
           c \in {ReadyCall, ClearedCall} \/ IsOutcome(c) \/ c = Destroy("sender"),
           pipe'.out.state \in {"connected", "shutdown"} \/ pipe'.out.state = pipe.out.state,
           sender'.life = "dying" \/ sender.life # "dying"
    PROVE  StackInv'
<1>1. \/ Tail(stack) = <<>>
      \/ /\ c \in {ReadyCall, ClearedCall} /\ Tail(stack) = <<PullCall>>
         /\ pipe.out.state \in {"connected", "shutdown"}
      \/ /\ IsOutcome(c) /\ Tail(stack) = <<Destroy("sender")>> /\ sender.life = "dying"
  BY SenderRuns
<1>2. CASE Tail(stack) = <<>>
  BY <1>2, StackNone
<1>3. CASE Tail(stack) = <<PullCall>> /\ pipe.out.state \in {"connected", "shutdown"}
  BY <1>3, NetworkWaits, Plain, StackOne
<1>4. CASE Tail(stack) = <<Destroy("sender")>> /\ sender.life = "dying"
  BY <1>4, DestroyWaits, Plain, StackOne
<1> QED BY <1>1, <1>2, <1>3, <1>4

LEMMA ClearedHolds ==
    ASSUME MessagesInv, Cleared
    PROVE  MessagesInv'
<1>1. /\ Runs("cleared", "sender") /\ sender' = [sender EXCEPT !.buf = <<>>] /\ stack' = Tail(stack)
      /\ UNCHANGED <<receiver, pipe, failed, lost, given, taken, told, heard>>
  BY DEF Cleared, ghosts, Rest
<1>2. stack # <<>> /\ stack[1] = ClearedCall
  <2>1. stack # <<>> /\ Head(stack).to = "sender" /\ Head(stack).event = "cleared"
    BY <1>1 DEF Runs
  <2> QED BY <2>1, Remaining, Which DEF MessagesInv
<1>3. Runnable(ClearedCall)
  BY <1>1, <1>2, SenderRuns
<1>4. sender.kind = "buffered" /\ sender.life = "alive" /\ ~sender.ready /\ All
  BY <1>3 DEF Runnable
<1>5. /\ sender' \in SenderType /\ sender'.buf = <<>> /\ sender'.kind = sender.kind
      /\ sender'.life = sender.life /\ sender'.ready = sender.ready
      /\ sender'.shutdownRequest = sender.shutdownRequest
  BY <1>1, Members DEF MessagesInv, TypeInv, SenderType
<1>6. (Asked' <=> Asked) /\ (All' <=> All)
  BY <1>1, <1>5 DEF Asked, All
<1>7. TypeInv'
  BY <1>1, <1>5 DEF MessagesInv, TypeInv
<1>8. StackInv'
  BY <1>1, <1>2, <1>4, RestStays
<1>9. SenderInv'
  BY <1>1, <1>4, <1>5, <1>6 DEF MessagesInv, SenderInv, Silent
<1>10. WriteInv'
  <2>1. Len(<<>>) = 0 /\ \A n \in 1..Len(<<>>) : FALSE
    OBVIOUS
  <2>2. Len(taken) \in Nat
    BY DEF MessagesInv, TypeInv, Bytes
  <2> QED BY <1>1, <1>4, <1>5, <1>6, <2>1, <2>2 DEF MessagesInv, WriteInv, All
<1>11. ReceiverInv'
  BY <1>1, <1>6, ReceiverFrame DEF MessagesInv
<1> QED BY <1>7, <1>8, <1>9, <1>10, <1>11 DEF MessagesInv

LEMMA SenderDestroyedHolds ==
    ASSUME MessagesInv, SenderDestroyed
    PROVE  MessagesInv'
<1>1. /\ Runs("destroyed", "sender") /\ sender' = [sender EXCEPT !.life = "dead"]
      /\ stack' = Tail(stack)
      /\ UNCHANGED <<receiver, pipe, failed, lost, given, taken, told, heard>>
  BY DEF SenderDestroyed, ghosts, Rest
<1>2. stack # <<>> /\ stack[1] = Destroy("sender")
  <2>1. stack # <<>> /\ Head(stack).to = "sender" /\ Head(stack).event = "destroyed"
    BY <1>1 DEF Runs
  <2> QED BY <2>1, Remaining, Which DEF MessagesInv
<1>3. Waits(Destroy("sender"))
  BY <1>1, <1>2, SenderRuns
<1>4. sender.life = "dying"
  BY <1>3 DEF Waits
<1>5. stack' = <<>>
  <2>1. Destroy("sender") \notin {ReadyCall, ClearedCall} /\ ~IsOutcome(Destroy("sender"))
    BY DEF Destroy, ReadyCall, ClearedCall, Do, IsOutcome, Outcomes
  <2> QED BY <1>1, <1>2, <2>1, SenderRuns
<1>6. /\ sender' \in SenderType /\ sender'.buf = sender.buf /\ sender'.kind = sender.kind
      /\ sender'.life = "dead" /\ sender'.ready = sender.ready
      /\ sender'.shutdownRequest = sender.shutdownRequest
  BY <1>1 DEF MessagesInv, TypeInv, SenderType
<1>7. (Asked' <=> Asked) /\ (All' <=> All)
  BY <1>1, <1>6 DEF Asked, All
<1>8. TypeInv'
  BY <1>1, <1>6 DEF MessagesInv, TypeInv
<1>9. SenderInv'
  BY <1>1, <1>4, <1>6, <1>7 DEF MessagesInv, SenderInv, Silent
<1>10. WriteInv'
  BY <1>1, <1>6, <1>7 DEF MessagesInv, WriteInv
<1>11. ReceiverInv'
  BY <1>1, <1>7, ReceiverFrame DEF MessagesInv
<1> QED BY <1>5, <1>8, <1>9, <1>10, <1>11, StackNone DEF MessagesInv

LEMMA SenderToldHolds ==
    ASSUME MessagesInv, SenderTold
    PROVE  MessagesInv'
<1>1. PICK c : c = Head(stack)
  OBVIOUS
<1>2. /\ stack # <<>> /\ c.to \in {"sender", "user"} /\ c.event \in Outcomes
      /\ told' = Append(told, c.event)
      /\ DeleteSender(Rest) \/ (stack' = Rest /\ UNCHANGED <<sender, pipe, failed>>)
      /\ UNCHANGED <<receiver, lost, given, taken, heard>>
  BY <1>1 DEF SenderTold, Runs, Outcomes
<1>3. IsOutcome(c) /\ c = stack[1]
  BY <1>1, <1>2, Remaining DEF IsOutcome, MessagesInv
<1>4. PICK rest : rest = Tail(stack)
  OBVIOUS
<1>5. /\ Runnable(c)
      /\ rest = <<>> \/ (rest = <<Destroy("sender")>> /\ sender.life = "dying")
  <2>1. c \notin {ReadyCall, ClearedCall}
    BY <1>3 DEF IsOutcome, Outcomes, ReadyCall, ClearedCall, Do
  <2> QED BY <1>2, <1>3, <1>4, <2>1, SenderRuns
<1>6. /\ Silent /\ told = <<>> /\ (~sender.ready \/ Asked)
      /\ sender.life \in {"alive", "reset", "dying"}
      /\ c.event = "TRUE" => All /\ Asked
  BY <1>3, <1>5 DEF Runnable
<1>7. told' = <<c.event>> /\ told' \in Seq(Outcomes) /\ Len(told') = 1
      /\ DOMAIN told' = {1} /\ told'[1] = c.event
  <2>1. told' = <<c.event>>
    BY <1>2, <1>6
  <2> QED BY <1>2, <2>1
<1>8. \A n \in DOMAIN told' : told'[n] = "TRUE" => All /\ Asked
  BY <1>6, <1>7
<1>9. ~Pending
  BY <1>3 DEF Pending, IsOutcome, ClearedCall, Do, Outcomes
<1>10. CASE DeleteSender(Rest)
  <2> DEFINE r == OutReset(pipe.out)
  <2>1. /\ sender.life \in Living /\ sender' = Forgotten("dying")
        /\ OutDone(r, <<Destroy("sender")>> \o rest)
    BY <1>4, <1>10 DEF DeleteSender, Destroy, Rest
  <2>2. ~r.raised /\ WasResetTo(r.end) /\ r.calls = <<>>
    BY <1>6, OutResets DEF MessagesInv, ResetTells
  <2>3. /\ failed' = failed /\ pipe' = [pipe EXCEPT !.out = r.end]
        /\ stack' = r.calls \o (<<Destroy("sender")>> \o rest)
    BY <2>1, <2>2 DEF OutDone
  <2> HIDE DEF r
  <2>4. rest = <<>>
    BY <1>5, <2>1 DEF Living
  <2>5. stack' = <<Destroy("sender")>>
    <3>1. \A x : <<>> \o (<<x>> \o <<>>) = <<x>>
      OBVIOUS
    <3> QED BY <2>2, <2>3, <2>4, <3>1, Zenon
  <2>6. /\ pipe' \in PipeType /\ pipe'.out = r.end /\ pipe'.in = pipe.in
        /\ pipe'.wire = pipe.wire
    BY <2>2, <2>3 DEF MessagesInv, TypeInv, PipeType, WasResetTo
  <2>7. Forgets /\ sender'.life = "dying"
    BY <2>1 DEF Forgets, Forgotten, MessagesInv, TypeInv, SenderType
  <2>8. sender' \in SenderType /\ (Asked' <=> Asked) /\ (All' <=> All)
    BY <1>2, <2>7, ForgetsIs DEF MessagesInv, All
  <2>9. TypeInv'
    BY <1>2, <1>7, <2>2, <2>3, <2>6, <2>8 DEF MessagesInv, TypeInv, WasResetTo
  <2>10. StackInv'
    BY <2>5, <2>7, DestroyWaits, Plain, StackOne
  <2>11. SenderInv'
    BY <1>2, <1>8, <2>2, <2>6, <2>7, SenderGoes DEF MessagesInv
  <2>12. WriteInv'
    BY <1>2, <1>9, <2>7, WriteGoes DEF MessagesInv
  <2>13. ReceiverInv'
    BY <1>2, <2>6, <2>8, ReceiverFrame DEF MessagesInv
  <2> QED BY <2>9, <2>10, <2>11, <2>12, <2>13 DEF MessagesInv
<1>11. CASE stack' = Rest /\ UNCHANGED <<sender, pipe, failed>>
  <2>1. stack' = rest
    BY <1>4, <1>11 DEF Rest
  <2>2. TypeInv'
    BY <1>2, <1>7, <1>11 DEF MessagesInv, TypeInv
  <2>3. StackInv'
    BY <1>2, <1>3, <1>4, <1>11, <2>1, RestStays
  <2>4. SenderInv'
    BY <1>2, <1>6, <1>8, <1>11 DEF MessagesInv, SenderInv, Silent, Asked, All
  <2>5. WriteInv'
    BY <1>2, <1>9, <1>11, WriteFrame DEF MessagesInv
  <2>6. ReceiverInv'
    BY <1>2, <1>11, ReceiverFrame DEF MessagesInv, Asked
  <2> QED BY <2>2, <2>3, <2>4, <2>5, <2>6 DEF MessagesInv
<1> QED BY <1>2, <1>10, <1>11

\* The sender shuts the stream down, in a callback or not.
LEMMA Shuts ==
    ASSUME MessagesInv, NEW e \in {"sender", "user"}, NEW rest, OsShutdown(e, rest),
           \/ rest = <<>>
           \/ rest = <<PullCall>> /\ pipe.out.state = "connected", ~Pending,
           Silent, pipe.out.state \in {"connected", "reset"}, All, told = <<>>,
           sender.life = "alive", sender' \in SenderType, sender'.life = "alive",
           sender'.kind = sender.kind, sender'.buf = sender.buf, sender'.ready = sender.ready,
           Asked', UNCHANGED <<receiver, lost, ghosts>>
    PROVE  MessagesInv'
<1>1. UNCHANGED <<given, taken, told, heard>> /\ All'
  BY DEF ghosts, All
<1>2. PullCall # EofCall /\ PullCall.event # "arrive" /\ PullCall \in Calls /\ Kind(PullCall)
  BY Plain DEF PullCall, EofCall, Do
<1>3. rest \in Seq(Calls)
  <2>2. \A c \in Calls : <<c>> \in Seq(Calls)
    OBVIOUS
  <2>3. <<>> \in Seq(Calls)
    OBVIOUS
  <2> QED BY <1>2, <2>2, <2>3, Zenon
<1>4. /\ failed' = "no"
      /\ pipe' \in PipeType /\ Len(pipe'.out.heap) <= 1
      /\ pipe'.in = pipe.in /\ pipe'.wire = pipe.wire /\ pipe'.packet = pipe.packet
      /\ pipe'.out.heap = pipe.out.heap /\ pipe'.out.writer = <<>>
      /\ pipe'.out.buffer = pipe.out.buffer
      /\ \/ /\ pipe.out.state = "reset" /\ pipe'.out = pipe.out
            /\ stack' = <<Call(e, "FALSE", <<>>)>> \o rest
         \/ /\ pipe.out.state = "connected" /\ pipe'.out.state = "shutdown"
            /\ pipe'.out.shutdowner = <<e>> /\ stack' = rest
  <2>1. TypeInv /\ pipe.out.writer = <<>>
    BY DEF MessagesInv, Silent
  <2> QED BY <1>3, <2>1, OutShuts
<1>5. TypeInv'
  BY <1>1, <1>4 DEF MessagesInv, TypeInv
<1>6. WriteInv'
  BY <1>1 DEF MessagesInv, WriteInv, All
<1>7. ReceiverInv'
  BY <1>1, <1>4, ReceiverFrame DEF MessagesInv
<1>8. CASE pipe.out.state = "reset"
  <2> DEFINE c == Call(e, "FALSE", <<>>)
  <2>1. c \in Calls /\ Kind(c) /\ IsOutcome(c) /\ c.event = "FALSE"
    BY Events DEF Outcomes
  <2>3. stack' = <<c>>
    <3>1. \A x : <<x>> \o <<>> = <<x>>
      OBVIOUS
    <3>2. rest = <<>>
      BY <1>8
    <3> QED BY <1>4, <1>8, <3>1, <3>2, Zenon
  <2> HIDE DEF c
  <2>4. pipe'.out = pipe.out
    BY <1>4, <1>8
  <2>5. Silent' /\ told' = <<>>
    BY <1>1, <2>4 DEF Silent
  <2>6. StackInv'
    BY <2>1, <2>3, <2>5, OutcomeRuns, StackOne
  <2>7. SenderInv'
    BY <1>1, <1>8, <2>4 DEF MessagesInv, SenderInv, Silent
  <2> QED BY <1>5, <1>6, <1>7, <2>6, <2>7 DEF MessagesInv
<1>9. CASE pipe.out.state = "connected"
  <2>1. /\ pipe'.out.state = "shutdown" /\ pipe'.out.shutdowner = <<e>> /\ stack' = rest
    BY <1>4, <1>9
  <2>2. StackInv'
    BY <1>2, <2>1, NetworkWaits, StackOne, StackNone
  <2>3. SenderInv'
    <3>1. pipe.out.heap = pipe'.out.heap /\ pipe'.out.writer = <<>> /\ pipe'.out.buffer = <<>>
      BY <1>4 DEF MessagesInv, SenderInv, Silent
    <3> QED BY <1>1, <2>1, <3>1 DEF MessagesInv, SenderInv
  <2> QED BY <1>5, <1>6, <1>7, <2>2, <2>3 DEF MessagesInv
<1> QED BY <1>8, <1>9

\* What is there to write, and what was written, while nothing is half done.
LEMMA AllWritten ==
    ASSUME MessagesInv, ~Pending, sender.life = "alive",
           sender.kind = "message" \/ (sender.kind = "buffered" /\ sender.buf = <<>>)
    PROVE  All
<1>1. Len(<<>>) = 0 /\ Len(taken) \in Nat
  BY DEF MessagesInv, TypeInv, Bytes
<1> QED BY <1>1 DEF MessagesInv, WriteInv, All

LEMMA ShutdownHolds ==
    ASSUME MessagesInv, Shutdown
    PROVE  MessagesInv'
<1>1. /\ stack = <<>> /\ sender.kind = "buffered" /\ ~sender.shutdownRequest
      /\ sender.life \in Living /\ sender' = [sender EXCEPT !.shutdownRequest = TRUE]
      /\ IF sender.ready THEN OsShutdown("user", <<>>) ELSE UNCHANGED network
      /\ UNCHANGED <<receiver, lost, ghosts>>
  BY DEF Shutdown, Open, Idle, Living, ShutdownWhenReady
<1>2. /\ sender' \in SenderType /\ sender'.kind = sender.kind /\ sender'.life = sender.life
      /\ sender'.buf = sender.buf /\ sender'.ready = sender.ready /\ sender'.shutdownRequest
  BY <1>1 DEF MessagesInv, TypeInv, SenderType
<1>3. ~Asked /\ Asked' /\ ~Pending
  BY <1>1, <1>2 DEF Asked, Pending
<1>4. CASE sender.ready
  <2>1. /\ sender.life = "alive" /\ pipe.out.writer = <<>> /\ sender.buf = <<>> /\ told = <<>>
        /\ pipe.out.state \in {"connected", "reset"}
    BY <1>1, <1>3, <1>4 DEF MessagesInv, SenderInv, Living
  <2>2. Silent
    BY <2>1 DEF Silent, MessagesInv, SenderInv
  <2>3. All
    BY <1>1, <1>3, <2>1, AllWritten
  <2>4. OsShutdown("user", <<>>)
    BY <1>1, <1>4
  <2> QED BY <1>1, <1>2, <1>3, <2>1, <2>2, <2>3, <2>4, Shuts
<1>5. CASE ~sender.ready
  <2>1. UNCHANGED <<pipe, stack, failed, receiver, lost, given, taken, told, heard>>
    BY <1>1, <1>5 DEF network, ghosts
  <2>2. TypeInv'
    BY <1>2, <2>1 DEF MessagesInv, TypeInv
  <2>3. StackInv'
    BY <1>1, <2>1, StackNone
  <2>4. SenderInv'
    BY <1>1, <1>2, <1>3, <1>5, <2>1 DEF MessagesInv, SenderInv, Silent, All
  <2>5. WriteInv'
    BY <1>2, <2>1 DEF MessagesInv, WriteInv, All, Pending
  <2>6. ReceiverInv'
    BY <1>3, <2>1, ReceiverFrame DEF MessagesInv
  <2> QED BY <2>2, <2>3, <2>4, <2>5, <2>6 DEF MessagesInv
<1> QED BY <1>4, <1>5

\* onReady, and what waits behind it.
LEMMA ReadyIs ==
    ASSUME MessagesInv, Runs("READY", "sender")
    PROVE  /\ stack # <<>> /\ stack[1] = ReadyCall
           /\ sender.life = "alive" /\ ~sender.ready /\ told = <<>>
           /\ pipe.out.state = "connected" /\ pipe.out.heap # <<>> /\ Silent
           /\ Rest = <<>> \/ Rest = <<PullCall>>
           /\ ~Pending
<1>1. stack # <<>> /\ stack[1] = ReadyCall
  <2>1. stack # <<>> /\ Head(stack).to = "sender" /\ Head(stack).event = "READY"
    BY DEF Runs
  <2> QED BY <2>1, Remaining, Which DEF MessagesInv
<1>2. ~IsOutcome(ReadyCall) /\ ReadyCall # ClearedCall
  BY DEF IsOutcome, Outcomes, ReadyCall, ClearedCall, Do
<1>3. /\ Runnable(ReadyCall)
      /\ Tail(stack) = <<>> \/ Tail(stack) = <<PullCall>>
  BY <1>1, <1>2, SenderRuns
<1>4. ~Pending
  BY <1>1, <1>2 DEF Pending
<1> QED BY <1>1, <1>3, <1>4 DEF Runnable, Rest

LEMMA MessageReadyHolds ==
    ASSUME MessagesInv, MessageReady
    PROVE  MessagesInv'
<1>1. /\ Runs("READY", "sender") /\ sender.kind = "message"
      /\ OsShutdown("sender", Rest) /\ UNCHANGED <<sender, receiver, lost, ghosts>>
  BY DEF MessageReady
<1>2. PICK rest : rest = Rest
  OBVIOUS
<1>3. /\ sender.life = "alive" /\ told = <<>> /\ pipe.out.state = "connected" /\ Silent
      /\ rest = <<>> \/ rest = <<PullCall>>
      /\ ~Pending
  BY <1>1, <1>2, ReadyIs
<1>4. All /\ Asked'
  BY <1>1, <1>3, AllWritten DEF Asked
<1>5. sender' \in SenderType
  BY <1>1 DEF MessagesInv, TypeInv
<1>6. OsShutdown("sender", rest)
  BY <1>1, <1>2
<1> QED BY <1>1, <1>3, <1>4, <1>5, <1>6, Shuts

\* A write that the stream takes while nothing else waits, or in onReady.
LEMMA Writes ==
    ASSUME MessagesInv, stack = <<>>, ~Asked, told = <<>>, Silent, All,
           pipe.out.state \in {"connected", "reset"},
           NEW n \in Nat, n > 0 \/ (Len(taken) = 0 /\ pipe.out.heap = <<>>),
           OsWrite(Piece(n), <<>>), given' = given + n,
           sender' \in SenderType, sender'.life = "alive", ~sender'.ready, sender'.buf = <<>>,
           sender'.kind \in {"buffered", "message"},
           UNCHANGED <<receiver, lost, told, heard>>
    PROVE  MessagesInv'
<1> DEFINE d == Piece(n)
<1>1. /\ d \in Bytes /\ Len(d) = n /\ \A k \in 1..n : d[k] = given + k
      /\ given \in Nat /\ taken \in Bytes /\ Len(taken) \in Nat
  <2>1. TypeInv
    BY DEF MessagesInv
  <2>2. /\ d \in Bytes /\ Len(d) = n /\ \A k \in 1..n : d[k] = given + k
    BY <2>1, PieceIs
  <2> QED BY <2>1, <2>2 DEF TypeInv, Bytes
<1>2. PICK piece : piece = d
  OBVIOUS
<1>3. /\ failed' = "no" /\ taken' = taken \o piece
      /\ pipe' \in PipeType /\ Len(pipe'.out.heap) <= 1
      /\ pipe'.in = pipe.in /\ pipe'.wire = pipe.wire /\ pipe'.packet = pipe.packet
      /\ pipe'.out.state = pipe.out.state /\ pipe'.out.shutdowner = <<>>
      /\ \/ /\ pipe.out.state = "reset" /\ pipe'.out = pipe.out
            /\ stack' = <<Call("sender", "RESET", <<>>)>> \o <<>>
         \/ /\ pipe.out.state = "connected" /\ pipe.out.heap = <<>>
            /\ pipe'.out.heap = <<piece>> /\ pipe'.out.buffer = <<>> /\ pipe'.out.writer = <<>>
            /\ stack' = <<ReadyCall>> \o <<>>
         \/ /\ pipe.out.state = "connected" /\ pipe.out.heap # <<>>
            /\ pipe'.out.heap = pipe.out.heap /\ pipe'.out.buffer = piece
            /\ pipe'.out.writer = <<"sender">>
            /\ stack' = <<>>
  <2>1. TypeInv /\ pipe.out.writer = <<>> /\ pipe.out.shutdowner = <<>>
    BY DEF MessagesInv, Silent
  <2>2. OsWrite(piece, <<>>) /\ piece \in Bytes /\ <<>> \in Seq(Calls)
    BY <1>1, <1>2
  <2> HIDE DEF d
  <2> QED BY <2>1, <2>2, OutWrites
<1> HIDE DEF d
<1>4. /\ taken' \in Bytes /\ Len(taken') = Len(taken) + n /\ taken' = Count(Len(taken'))
  <2>1. taken = Count(Len(taken)) /\ Len(taken) = given
    BY DEF MessagesInv, WriteInv, All
  <2>2. \A k \in 1..Len(piece) : piece[k] = Len(taken) + k
    BY <1>1, <1>2, <2>1
  <2> QED BY <1>1, <1>2, <1>3, <2>1, <2>2, Counting
<1>5. All' /\ given' \in Nat
  BY <1>1, <1>4 DEF All
<1>7. pipe.out.writer = <<>> /\ pipe.out.buffer = <<>>
  BY DEF MessagesInv, SenderInv, Silent
<1>8. TypeInv'
  BY <1>3, <1>4, <1>5 DEF MessagesInv, TypeInv
<1>9. WriteInv'
  <2>1. Len(<<>>) = 0 /\ \A k \in 1..Len(<<>>) : FALSE
    OBVIOUS
  <2>2. Len(taken') + 0 = given' /\ Len(taken') <= given'
    BY <1>5 DEF All
  <2> QED BY <1>4, <1>5, <2>1, <2>2 DEF WriteInv
<1>10. ReceiverInv'
  BY <1>3, ReceiverFrame DEF MessagesInv
<1>11. SenderInv'
  <2>1. \A k \in DOMAIN told' : FALSE
    OBVIOUS
  <2>2. piece \in Bytes
    BY <1>1, <1>2
  <2>3. <<piece>> # <<>> /\ <<"sender">> # <<>>
    BY <2>2, Members
  <2>4. CASE pipe.out.state = "reset"
    <3>1. pipe'.out = pipe.out
      BY <1>3, <2>4
    <3> QED BY <1>7, <2>1, <2>4, <3>1 DEF MessagesInv, SenderInv, Silent
  <2>5. CASE pipe.out.state = "connected" /\ pipe.out.heap = <<>>
    <3>1. /\ pipe'.out.heap = <<piece>> /\ pipe'.out.buffer = <<>> /\ pipe'.out.writer = <<>>
      BY <1>3, <2>5
    <3> QED BY <1>3, <2>1, <2>5, <3>1 DEF SenderInv, Silent
  <2>6. CASE pipe.out.state = "connected" /\ pipe.out.heap # <<>>
    <3>1. /\ pipe'.out.heap = pipe.out.heap /\ pipe'.out.buffer = piece
          /\ pipe'.out.writer = <<"sender">>
      BY <1>3, <2>6
    <3> QED BY <1>3, <2>1, <2>3, <2>6, <3>1 DEF SenderInv, Silent
  <2> QED BY <2>4, <2>5, <2>6
<1>12. StackInv'
  <2>1. \A x : <<x>> \o <<>> = <<x>>
    OBVIOUS
  <2>2. CASE pipe.out.state = "reset"
    <3> DEFINE c == Call("sender", "RESET", <<>>)
    <3>1. c \in Calls /\ Kind(c) /\ IsOutcome(c) /\ c.event = "RESET"
      BY Events DEF Outcomes
    <3>2. c # EofCall
      BY <3>1 DEF EofCall, Do
    <3>3. stack' = <<c>>
      BY <1>3, <2>1, <2>2, Zenon
    <3> HIDE DEF c
    <3>4. Silent' /\ told' = <<>>
      BY <1>3, <1>7, <2>2 DEF Silent
    <3>5. Waits(c)' /\ Runnable(c)'
      BY <3>1, <3>4, OutcomeRuns
    <3> QED BY <3>1, <3>2, <3>3, <3>5, StackOne
  <2>3. CASE pipe.out.state = "connected" /\ pipe.out.heap = <<>>
    <3>1. stack' = <<ReadyCall>>
      BY <1>3, <2>1, <2>3, Zenon
    <3>2. piece \in Bytes
      BY <1>1, <1>2
    <3>3. pipe'.out.heap # <<>> /\ pipe'.out.state = "connected" /\ told' = <<>>
      BY <1>3, <2>3, <3>2, Members
    <3>4. Silent'
      BY <1>3, <2>3 DEF Silent
    <3>5. ReadyCall # EofCall /\ ReadyCall.event # "arrive"
      BY DEF ReadyCall, EofCall, Do
    <3>6. Waits(ReadyCall)' /\ Runnable(ReadyCall)'
      BY <3>3, <3>4, ReadyRuns
    <3> QED BY <3>1, <3>5, <3>6, Plain, StackOne
  <2>4. CASE pipe.out.state = "connected" /\ pipe.out.heap # <<>>
    BY <1>3, <2>4, StackNone
  <2> QED BY <2>2, <2>3, <2>4
<1> QED BY <1>8, <1>9, <1>10, <1>11, <1>12 DEF MessagesInv

LEMMA SendHolds ==
    ASSUME MessagesInv, NEW n \in Nat, Send(n)
    PROVE  MessagesInv'
<1>1. /\ stack = <<>> /\ sender.life = "unborn"
      /\ sender' = [Unborn EXCEPT !.kind = "message", !.life = "alive"]
      /\ given' = n /\ OsWrite(Piece(n), <<>>) /\ UNCHANGED <<receiver, lost, told, heard>>
  BY DEF Send, Idle
<1>2. /\ sender.kind = "none" /\ ~sender.shutdownRequest /\ told = <<>> /\ given = 0 /\ Silent
      /\ pipe.out.heap = <<>> /\ pipe.out.state \in {"connected", "reset"}
  BY <1>1 DEF MessagesInv, SenderInv
<1>3. ~Asked
  BY <1>2 DEF Asked
<1>4. Len(taken) = 0 /\ All /\ given' = given + n
  <2>1. Len(taken) \in Nat /\ Len(taken) <= given
    BY DEF MessagesInv, TypeInv, WriteInv, Bytes
  <2> QED BY <1>1, <1>2, <2>1 DEF All
<1>5. /\ sender' \in SenderType /\ sender'.kind = "message" /\ sender'.life = "alive"
      /\ sender'.ready = FALSE /\ sender'.buf = <<>>
  BY <1>1, Members DEF Unborn, SenderType
<1> QED BY <1>1, <1>2, <1>3, <1>4, <1>5, Writes

\* Numbers in order, and more of them.
LEMMA NumbersJoin ==
    ASSUME NEW b \in Bytes, NEW p \in Bytes, NEW a \in Nat,
           \A k \in 1..Len(b) : b[k] = a + k,
           \A k \in 1..Len(p) : p[k] = a + Len(b) + k
    PROVE  /\ Len(b \o p) = Len(b) + Len(p)
           /\ \A k \in 1..Len(b \o p) : (b \o p)[k] = a + k
<1>1. /\ Len(b \o p) = Len(b) + Len(p) /\ Len(b) \in Nat /\ Len(p) \in Nat
      /\ \A k \in 1..Len(b) : (b \o p)[k] = b[k]
      /\ \A k \in 1..Len(p) : (b \o p)[Len(b) + k] = p[k]
  BY Joined DEF Bytes
<1>2. ASSUME NEW k \in 1..Len(b \o p)
      PROVE  (b \o p)[k] = a + k
  <2>1. CASE k <= Len(b)
    BY <1>1, <2>1
  <2>2. CASE k > Len(b)
    <3>1. PICK m \in 1..Len(p) : k = Len(b) + m
      <4>1. k - Len(b) \in 1..Len(p) /\ k = Len(b) + (k - Len(b))
        BY <1>1, <2>2
      <4> QED BY <4>1
    <3> QED BY <1>1, <3>1
  <2> QED BY <1>1, <2>1, <2>2
<1> QED BY <1>1, <1>2

LEMMA WriteHolds ==
    ASSUME MessagesInv, NEW n \in Nat \ {0}, Write(n)
    PROVE  MessagesInv'
<1>1. /\ stack = <<>> /\ sender.kind = "buffered" /\ ~sender.shutdownRequest
      /\ sender.life \in Living /\ given' = given + n
      /\ IF sender.ready
         THEN /\ sender' = [sender EXCEPT !.ready = FALSE]
              /\ OsWrite(Piece(n), <<>>)
         ELSE /\ sender' = [sender EXCEPT !.buf = @ \o Piece(n)]
              /\ UNCHANGED <<taken, network>>
      /\ UNCHANGED <<receiver, lost, told, heard>>
  BY DEF Write, Open, Idle, Living
<1>2. ~Asked /\ ~Pending
  BY <1>1 DEF Asked, Pending
<1>3. sender \in SenderType
  BY DEF MessagesInv, TypeInv
<1>4. CASE sender.ready
  <2>1. /\ sender.life = "alive" /\ pipe.out.writer = <<>> /\ sender.buf = <<>> /\ told = <<>>
        /\ pipe.out.state \in {"connected", "reset"}
    BY <1>1, <1>2, <1>4 DEF MessagesInv, SenderInv, Living
  <2>2. Silent
    BY <2>1 DEF Silent, MessagesInv, SenderInv
  <2>3. All
    BY <1>1, <1>2, <2>1, AllWritten
  <2>4. sender' = [sender EXCEPT !.ready = FALSE] /\ OsWrite(Piece(n), <<>>)
    BY <1>1, <1>4
  <2>5. /\ sender' \in SenderType /\ sender'.life = "alive" /\ ~sender'.ready
        /\ sender'.buf = <<>> /\ sender'.kind = "buffered"
    BY <1>1, <1>3, <2>1, <2>4 DEF SenderType
  <2>6. n \in Nat /\ n > 0
    OBVIOUS
  <2> QED BY <1>1, <1>2, <2>1, <2>2, <2>3, <2>4, <2>5, <2>6, Writes
<1>5. CASE ~sender.ready
  <2>1. PICK piece : piece = Piece(n)
    OBVIOUS
  <2>2. /\ sender' = [sender EXCEPT !.buf = sender.buf \o piece]
        /\ UNCHANGED <<taken, pipe, stack, failed>>
    BY <1>1, <1>5, <2>1 DEF network
  <2>3. /\ piece \in Bytes /\ Len(piece) = n /\ \A k \in 1..n : piece[k] = given + k
    BY <2>1, PieceIs DEF MessagesInv
  <2>4. sender.buf \in Bytes /\ sender.buf \o piece \in Bytes
    BY <1>3, <2>3, Joining DEF SenderType
  <2>5. /\ sender' \in SenderType /\ sender'.kind = sender.kind /\ sender'.life = sender.life
        /\ sender'.ready = sender.ready /\ sender'.shutdownRequest = sender.shutdownRequest
        /\ sender'.buf = sender.buf \o piece
    BY <1>3, <2>2, <2>4 DEF SenderType
  <2>6. given \in Nat /\ Len(taken) \in Nat
    BY DEF MessagesInv, TypeInv, Bytes
  <2>7. ~Asked'
    BY <1>2, <2>5 DEF Asked
  <2>8. TypeInv'
    BY <1>1, <2>2, <2>5, <2>6 DEF MessagesInv, TypeInv
  <2>9. StackInv'
    BY <1>1, <2>2, StackNone
  <2>10. SenderInv'
    BY <1>1, <1>2, <1>5, <2>2, <2>5, <2>7 DEF MessagesInv, SenderInv, Silent
  <2>11. WriteInv'
    <3>1. taken' = Count(Len(taken')) /\ Len(taken') <= given'
      BY <1>1, <2>2, <2>6 DEF MessagesInv, WriteInv
    <3>2. PICK b : b = sender.buf
      OBVIOUS
    <3>3. ASSUME sender.life = "alive"
          PROVE  /\ Len(taken) + Len(b \o piece) = given'
                 /\ \A k \in 1..Len(b \o piece) : (b \o piece)[k] = Len(taken) + k
      <4>1. /\ Len(taken) + Len(b) = given
            /\ \A k \in 1..Len(b) : b[k] = Len(taken) + k
        BY <1>1, <1>2, <3>2, <3>3 DEF MessagesInv, WriteInv
      <4>2. b \in Bytes /\ Len(b) \in Nat
        BY <2>4, <3>2 DEF Bytes
      <4>3. \A k \in 1..Len(piece) : piece[k] = Len(taken) + Len(b) + k
        BY <2>3, <4>1
      <4>4. /\ Len(b \o piece) = Len(b) + Len(piece)
            /\ \A k \in 1..Len(b \o piece) : (b \o piece)[k] = Len(taken) + k
        BY <2>3, <2>6, <4>1, <4>2, <4>3, NumbersJoin
      <4> QED BY <1>1, <2>3, <2>6, <4>1, <4>2, <4>4
    <3>4. sender'.buf = b \o piece
      BY <2>5, <3>2
    <3> QED BY <1>1, <2>2, <2>5, <3>1, <3>3, <3>4 DEF WriteInv
  <2>12. ReceiverInv'
    BY <1>1, <1>2, <2>2, ReceiverFrame DEF MessagesInv
  <2> QED BY <2>8, <2>9, <2>10, <2>11, <2>12 DEF MessagesInv
<1> QED BY <1>4, <1>5

LEMMA BufferedReadyHolds ==
    ASSUME MessagesInv, BufferedReady
    PROVE  MessagesInv'
<1>1. /\ Runs("READY", "sender") /\ sender.kind = "buffered"
      /\ \/ /\ sender.buf # <<>> /\ OsWrite(sender.buf, <<ClearedCall>> \o Rest)
            /\ UNCHANGED sender
         \/ /\ sender.buf = <<>> /\ sender.shutdownRequest
            /\ OsShutdown("user", Rest) /\ UNCHANGED <<sender, taken>>
         \/ /\ sender.buf = <<>> /\ ~sender.shutdownRequest
            /\ sender' = [sender EXCEPT !.ready = TRUE] /\ stack' = Rest
            /\ UNCHANGED <<pipe, failed, taken>>
      /\ UNCHANGED <<receiver, lost, given, told, heard>>
  BY DEF BufferedReady, MoreToWrite, EndWaits, ClearedCall
<1>2. PICK rest : rest = Rest
  OBVIOUS
<1>3. /\ stack # <<>> /\ stack[1] = ReadyCall /\ sender.life = "alive" /\ ~sender.ready
      /\ told = <<>> /\ pipe.out.state = "connected" /\ pipe.out.heap # <<>> /\ Silent
      /\ rest = <<>> \/ rest = <<PullCall>>
      /\ ~Pending
  BY <1>1, <1>2, ReadyIs
<1>4. sender \in SenderType
  BY DEF MessagesInv, TypeInv
<1>5. rest \in Seq(Calls) /\ Shape(rest)
  <2>1. Shape(rest)
    BY <1>2, <1>3, Remaining DEF MessagesInv, Rest
  <2> QED BY <2>1 DEF Shape
<1>6. CASE /\ sender.buf # <<>> /\ OsWrite(sender.buf, <<ClearedCall>> \o Rest)
           /\ UNCHANGED sender
  <2>1. PICK d : d = sender.buf
    OBVIOUS
  <2>2. d \in Bytes /\ TypeInv /\ pipe.out.writer = <<>>
    BY <1>3, <1>4, <2>1 DEF SenderType, MessagesInv, Silent
  <2>3. <<ClearedCall>> \o rest \in Seq(Calls)
    BY <1>5, Plain, Pushed
  <2>4. OsWrite(d, <<ClearedCall>> \o rest)
    BY <1>2, <1>6, <2>1
  <2>5. /\ failed' = "no" /\ taken' = taken \o d
        /\ pipe' \in PipeType /\ Len(pipe'.out.heap) <= 1
        /\ pipe'.in = pipe.in /\ pipe'.wire = pipe.wire /\ pipe'.packet = pipe.packet
        /\ pipe'.out.state = "connected" /\ pipe'.out.shutdowner = pipe.out.shutdowner
        /\ pipe'.out.heap = pipe.out.heap /\ pipe'.out.buffer = d
        /\ pipe'.out.writer = <<"sender">>
        /\ stack' = <<ClearedCall>> \o rest
    BY <1>3, <2>2, <2>3, <2>4, OutWrites
  <2>6. /\ Len(taken) + Len(d) = given /\ taken = Count(Len(taken)) /\ taken \in Bytes
        /\ \A n \in 1..Len(d) : d[n] = Len(taken) + n
    BY <1>1, <1>3, <2>1 DEF MessagesInv, WriteInv, TypeInv
  <2>7. taken' \in Bytes /\ taken' = Count(Len(taken')) /\ Len(taken') = given /\ All'
    BY <1>1, <2>2, <2>5, <2>6, Counting DEF All
  <2>8. TypeInv'
    BY <1>1, <1>6, <2>5, <2>7 DEF MessagesInv, TypeInv
  <2>9. StackInv'
    <3>1. \A n \in 1..Len(rest) : Waits(rest[n])'
      <4>1. Waits(PullCall)'
        BY <2>5, NetworkWaits
      <4>2. Len(<<PullCall>>) = 1 /\ <<PullCall>>[1] = PullCall
        OBVIOUS
      <4>3. \A n \in 1..Len(<<>>) : FALSE
        OBVIOUS
      <4> QED BY <1>3, <4>1, <4>2, <4>3
    <3>2. rest # <<>> => Follows(ClearedCall, rest[1])
      <4>1. <<PullCall>>[1] = PullCall
        OBVIOUS
      <4> QED BY <1>3, <4>1 DEF Follows
    <3>3. Waits(ClearedCall)' /\ Runnable(ClearedCall)'
      BY <1>1, <1>3, <1>6, <2>7, ClearedRuns
    <3> QED BY <1>5, <2>5, <3>1, <3>2, <3>3, Plain, StackPush
  <2>10. stack' # <<>> /\ stack'[1] = ClearedCall /\ Len(stack') > 0
    BY <1>5, <2>5, Plain, Pushed
  <2>11. SenderInv'
    <3>1. <<"sender">> # <<>>
      BY Members
    <3>2. pipe'.out.shutdowner = <<>>
      BY <1>3, <2>5 DEF Silent
    <3>3. \A n \in DOMAIN told' : FALSE
      BY <1>1, <1>3
    <3> QED BY <1>1, <1>3, <1>6, <2>5, <3>1, <3>2, <3>3 DEF MessagesInv, SenderInv, Silent
  <2>12. WriteInv'
    <3>1. Pending'
      BY <2>10 DEF Pending
    <3>2. given \in Nat /\ given' = given
      BY <1>1 DEF MessagesInv, TypeInv
    <3> QED BY <2>7, <3>1, <3>2 DEF WriteInv
  <2>13. ReceiverInv'
    BY <1>1, <1>6, <2>5, ReceiverFrame DEF MessagesInv, Asked
  <2> QED BY <2>8, <2>9, <2>11, <2>12, <2>13 DEF MessagesInv
<1>7. CASE /\ sender.buf = <<>> /\ sender.shutdownRequest
           /\ OsShutdown("user", Rest) /\ UNCHANGED <<sender, taken>>
  <2>1. All /\ Asked' /\ sender' \in SenderType
    BY <1>1, <1>3, <1>4, <1>7, AllWritten DEF Asked
  <2>2. OsShutdown("user", rest)
    BY <1>2, <1>7
  <2>3. UNCHANGED <<receiver, lost, ghosts>>
    BY <1>1, <1>7 DEF ghosts
  <2> QED BY <1>3, <1>7, <2>1, <2>2, <2>3, Shuts
<1>8. CASE /\ sender.buf = <<>> /\ ~sender.shutdownRequest
           /\ sender' = [sender EXCEPT !.ready = TRUE] /\ stack' = Rest
           /\ UNCHANGED <<pipe, failed, taken>>
  <2>1. /\ sender' \in SenderType /\ sender'.kind = "buffered" /\ sender'.life = "alive"
        /\ sender'.ready = TRUE /\ sender'.buf = <<>> /\ sender'.shutdownRequest = FALSE
    BY <1>1, <1>3, <1>4, <1>8 DEF SenderType
  <2>2. (Asked' <=> Asked) /\ (All' <=> All)
    BY <1>1, <1>8, <2>1 DEF Asked, All
  <2>3. TypeInv'
    BY <1>1, <1>8, <2>1 DEF MessagesInv, TypeInv
  <2>4. StackInv'
    <3>1. stack' = Tail(stack)
      BY <1>8 DEF Rest
    <3> QED BY <1>3, <1>8, <3>1, RestStays
  <2>5. SenderInv'
    <3>1. \A n \in DOMAIN told' : FALSE
      BY <1>1, <1>3
    <3> QED BY <1>1, <1>3, <1>8, <2>1, <3>1 DEF MessagesInv, SenderInv, Silent
  <2>6. WriteInv'
    BY <1>1, <1>3, <1>8, <2>1 DEF MessagesInv, WriteInv
  <2>7. ReceiverInv'
    BY <1>1, <1>8, <2>2, ReceiverFrame DEF MessagesInv
  <2> QED BY <2>3, <2>4, <2>5, <2>6, <2>7 DEF MessagesInv
<1> QED BY <1>1, <1>6, <1>7, <1>8

-----------------------------------------------------------------------------
(***************************************************************************)
(* Steps of the network                                                     *)
(***************************************************************************)
LEMMA AckArrivesHolds ==
    ASSUME MessagesInv, AckArrives
    PROVE  MessagesInv'
<1> DEFINE r == OutAcked(pipe.out)
<1>1. /\ stack = <<>> /\ pipe.out.state = "ending" /\ pipe.wire = <<>> /\ OutDone(r, <<>>)
      /\ UNCHANGED <<sender, receiver, lost, given, taken, told, heard>>
  BY DEF AckArrives, AllTaken, Idle, objects, ghosts
<1>2. /\ pipe \in PipeType /\ pipe.out \in OutType /\ Len(pipe.out.heap) <= 1
      /\ <<>> \in Shutdowners /\ "acked" \in OutStates
  BY Members DEF MessagesInv, TypeInv, PipeType, OutStates
<1>3. /\ All /\ Asked /\ pipe.out.writer = <<>> /\ pipe.out.buffer = <<>>
      /\ pipe.out.heap = <<>> /\ sender.life # "unborn"
      /\ sender.life \notin {"reset", "dying", "dead"}
  BY <1>1 DEF MessagesInv, SenderInv
<1>4. sender.life = "alive"
  BY <1>3 DEF MessagesInv, TypeInv, SenderType
<1>5. /\ ~r.raised
      /\ r.end = [pipe.out EXCEPT !.state = "acked", !.complete = TRUE, !.shutdowner = <<>>]
      /\ pipe.out.shutdowner = <<>> => r.calls = <<>>
      /\ pipe.out.shutdowner # <<>> => \E e \in {"sender", "user"} :
            r.calls = <<Call(e, "TRUE", <<>>)>>
  BY <1>2, Acked
<1> HIDE DEF r
<1>6. PICK o : o = r.end
  OBVIOUS
<1>7. /\ o \in OutType /\ o.state = "acked" /\ o.shutdowner = <<>> /\ o.writer = <<>>
      /\ o.buffer = <<>> /\ o.heap = <<>>
  BY <1>2, <1>3, <1>5, <1>6 DEF OutType
<1>8. pipe' = [pipe EXCEPT !.out = o] /\ stack' = r.calls \o <<>> /\ failed' = "no"
  BY <1>1, <1>5, <1>6 DEF OutDone, MessagesInv, TypeInv
<1>9. /\ pipe' \in PipeType /\ pipe'.out = o /\ pipe'.in = pipe.in
      /\ pipe'.wire = <<>> /\ pipe'.packet = pipe.packet
  BY <1>1, <1>2, <1>3, <1>7, <1>8 DEF PipeType
<1>10. Asked' /\ All' /\ Silent'
  BY <1>1, <1>3, <1>7, <1>9 DEF Asked, All, Silent
<1>11. TypeInv'
  BY <1>1, <1>2, <1>3, <1>7, <1>8, <1>9 DEF MessagesInv, TypeInv
<1>12. StackInv'
  <2>1. CASE pipe.out.shutdowner = <<>>
    BY <1>5, <1>8, <2>1, StackNone
  <2>2. CASE pipe.out.shutdowner # <<>>
    <3>1. PICK e \in {"sender", "user"} : r.calls = <<Call(e, "TRUE", <<>>)>>
      BY <1>5, <2>2
    <3>2. PICK c : c = Call(e, "TRUE", <<>>)
      OBVIOUS
    <3>3. c \in Calls /\ IsOutcome(c) /\ Kind(c)
      BY <3>2, Events DEF Outcomes
    <3>4. stack' = <<c>>
      BY <1>8, <3>1, <3>2
    <3>5. told' = <<>>
      BY <1>1, <2>2 DEF MessagesInv, SenderInv
    <3>6. Waits(c)' /\ Runnable(c)'
      BY <1>1, <1>4, <1>10, <3>3, <3>5, OutcomeRuns
    <3> QED BY <3>3, <3>4, <3>6, StackOne
  <2> QED BY <2>1, <2>2
<1>13. SenderInv'
  BY <1>1, <1>3, <1>4, <1>7, <1>9, <1>10 DEF MessagesInv, SenderInv
<1>14. WriteInv'
  BY <1>1, WriteFrame DEF MessagesInv, Pending
<1>15. ReceiverInv'
  BY <1>1, <1>9, <1>10, ReceiverFrame DEF MessagesInv
<1> QED BY <1>11, <1>12, <1>13, <1>14, <1>15 DEF MessagesInv

\* The call that connects the stream comes first.
LEMMA Connects ==
    ASSUME NEW base, Shape(base), base # <<>>, Follows(AcceptCall, base[1]),
           \A n \in 1..Len(base) : Waits(base[n])',
           pipe'.in.state # "none" => Runnable(base[1])',
           pipe.in.state = "none" => pipe.in = NoIn, pipe'.in = pipe.in,
           stack' = Connecting \o base
    PROVE  /\ StackInv'
           /\ stack' = base \/ stack' = <<AcceptCall>> \o base
<1>1. CASE pipe.in.state = "none"
  <2>1. stack' = <<AcceptCall>> \o base
    BY <1>1 DEF Connecting, AcceptCall
  <2>2. Waits(AcceptCall)' /\ Runnable(AcceptCall)'
    BY <1>1, NetworkWaits
  <2> QED BY <2>1, <2>2, Plain, StackPush
<1>2. CASE pipe.in.state # "none"
  <2>1. stack' = base
    <3>1. Connecting = <<>>
      BY <1>2 DEF Connecting
    <3> QED BY <3>1, NothingPushed DEF Shape
  <2>2. Runnable(base[1])'
    BY <1>2
  <2> QED BY <2>1, <2>2, StackIs
<1> QED BY <1>1, <1>2

LEMMA WriterResetArrivesHolds ==
    ASSUME MessagesInv, WriterResetArrives
    PROVE  MessagesInv'
<1>1. /\ stack = <<>> /\ pipe.out.state = "reset" /\ stack' = Connecting \o <<ResetsCall>>
      /\ pipe' = [pipe EXCEPT !.out.complete = TRUE, !.wire = <<>>]
      /\ UNCHANGED <<sender, receiver, failed, lost, given, taken, told, heard>>
  BY DEF WriterResetArrives, ResetsReader, Idle, ResetsCall, objects, ghosts
<1>2. /\ pipe \in PipeType /\ pipe.out \in OutType /\ Len(pipe.out.heap) <= 1
  BY DEF MessagesInv, TypeInv, PipeType
<1>3. PICK o : o = [pipe.out EXCEPT !.complete = TRUE]
  OBVIOUS
<1>4. /\ o \in OutType /\ o.state = "reset" /\ o.heap = pipe.out.heap /\ o.buffer = pipe.out.buffer
      /\ o.writer = pipe.out.writer /\ o.shutdowner = pipe.out.shutdowner
  BY <1>1, <1>2, <1>3 DEF OutType
<1>5. pipe' = [pipe EXCEPT !.out = o, !.wire = <<>>]
  BY <1>1, <1>3
<1>6. /\ pipe' \in PipeType /\ pipe'.out = o /\ pipe'.in = pipe.in /\ pipe'.wire = <<>>
      /\ pipe'.packet = pipe.packet
  BY <1>2, <1>4, <1>5, Members DEF PipeType
<1>7. (Asked' <=> Asked) /\ (All' <=> All) /\ ~Pending
  BY <1>1 DEF Asked, All, Pending
<1>8. TypeInv'
  BY <1>1, <1>2, <1>4, <1>6 DEF MessagesInv, TypeInv
<1>9. StackInv'
  <2> DEFINE base == <<ResetsCall>>
  <2>1. Shape(base)
    BY Plain, EmptyShape, PushedShape, NothingPushed DEF Shape
  <2>2. Len(base) = 1 /\ base[1] = ResetsCall /\ base # <<>>
    OBVIOUS
  <2>3. stack' = Connecting \o base
    BY <1>1
  <2> HIDE DEF base
  <2>6. Follows(AcceptCall, base[1])
    BY <2>2 DEF Follows
  <2>7. /\ \A n \in 1..Len(base) : Waits(base[n])'
        /\ pipe'.in.state # "none" => Runnable(base[1])'
    BY <2>2, NetworkWaits
  <2>8. pipe.in.state = "none" => pipe.in = NoIn
    BY DEF MessagesInv, ReceiverInv
  <2>9. StackInv' /\ (stack' = base \/ stack' = <<AcceptCall>> \o base)
    BY <1>6, <2>1, <2>2, <2>3, <2>6, <2>7, <2>8, Connects
  <2> QED BY <2>9
<1>10. SenderInv'
  BY <1>1, <1>4, <1>6, <1>7 DEF MessagesInv, SenderInv, Silent
<1>11. WriteInv'
  BY <1>1, <1>7, WriteFrame DEF MessagesInv
<1>12. ReceiverInv'
  BY <1>1, <1>6, <1>7, ReceiverFrame DEF MessagesInv
<1> QED BY <1>8, <1>9, <1>10, <1>11, <1>12 DEF MessagesInv

\* What is left of the packets when one is taken.
LEMMA Taken ==
    ASSUME NEW w \in Wires, NEW n \in DOMAIN w, NEW t,
           t = SubSeq(w, 1, n - 1) \o SubSeq(w, n + 1, Len(w))
    PROVE  t \in Wires /\ w[n].data \in Bytes /\ w[n].eof \in BOOLEAN
<1> DEFINE P == [data : Bytes, eof : BOOLEAN]
<1>1. w \in Seq(P)
  BY DEF Wires
<1> HIDE DEF P
<1>2. w[n] \in P
  BY <1>1
<1>3. SubSeq(w, 1, n - 1) \in Seq(P) /\ SubSeq(w, n + 1, Len(w)) \in Seq(P)
  <2>1. Len(w) \in Nat /\ n \in 1..Len(w)
    BY <1>1
  <2> QED BY <1>1, <2>1, SubSeqProperties
<1>4. t \in Seq(P)
  BY <1>3
<1> QED BY <1>2, <1>4 DEF P, Wires

LEMMA DeliverHolds ==
    ASSUME MessagesInv, Deliver
    PROVE  MessagesInv'
<1>1. PICK n \in TakenNext(pipe) :
          LET eof == IF pipe.wire[n].eof THEN <<Do("eof", "network")>> ELSE <<>>
          IN /\ stack' = Connecting
                   \o <<[to |-> "network", event |-> "arrive", data |-> pipe.wire[n].data]>> \o eof
             /\ pipe' = Take(pipe, n)
  BY Zenon DEF Deliver
<1>2. PICK first : first = pipe.wire[n]
  OBVIOUS
<1>3. PICK t : t = SubSeq(pipe.wire, 1, n - 1) \o SubSeq(pipe.wire, n + 1, Len(pipe.wire))
  OBVIOUS
<1>4. PICK c : c = Call("network", "arrive", first.data)
  OBVIOUS
<1>5. /\ stack = <<>> /\ pipe' = [pipe EXCEPT !.wire = t]
      /\ UNCHANGED <<sender, receiver, failed, lost, given, taken, told, heard>>
  BY <1>1, <1>3 DEF Deliver, Take, Idle, objects, ghosts
<1>6. pipe \in PipeType /\ pipe.wire \in Wires /\ n \in DOMAIN pipe.wire
  BY DEF TakenNext, MessagesInv, TypeInv, PipeType
<1>8. t \in Wires /\ first.data \in Bytes /\ first.eof \in BOOLEAN
  BY <1>2, <1>3, <1>6, Taken
<1>9. /\ pipe' \in PipeType /\ pipe'.wire = t /\ pipe'.in = pipe.in /\ pipe'.out = pipe.out
      /\ pipe'.packet = pipe.packet
  BY <1>5, <1>6, <1>8 DEF PipeType
<1>10. stack' = Connecting \o (<<c>> \o IF first.eof THEN <<EofCall>> ELSE <<>>)
  <2>1. stack' = (Connecting \o <<c>>) \o IF first.eof THEN <<EofCall>> ELSE <<>>
    BY <1>1, <1>2, <1>4 DEF Call, EofCall
  <2>2. Connecting \in Seq(Calls)
    BY Plain DEF Connecting, AcceptCall
  <2>3. c \in Calls
    BY <1>4, <1>8, Events
  <2>4. ASSUME NEW x \in Seq(Calls), NEW y \in Seq(Calls), NEW z \in Seq(Calls)
        PROVE  (x \o y) \o z = x \o (y \o z)
    OBVIOUS
  <2>5. <<c>> \in Seq(Calls)
    BY <2>3
  <2>6. (IF first.eof THEN <<EofCall>> ELSE <<>>) \in Seq(Calls)
    BY Plain
  <2> QED BY <2>1, <2>2, <2>4, <2>5, <2>6
<1>11. /\ c \in Calls /\ Kind(c) /\ c.event = "arrive" /\ c.data = first.data /\ c.to = "network"
       /\ c # EofCall
  <2>1. /\ c \in Calls /\ Kind(c) /\ c.event = "arrive" /\ c.data = first.data /\ c.to = "network"
    BY <1>4, <1>8, Events
  <2> QED BY <2>1 DEF EofCall, Do
<1>12. /\ ~first.eof => stack' = Connecting \o <<c>>
       /\ first.eof => stack' = Connecting \o (<<c>> \o <<EofCall>>)
  <2>1. <<c>> \o <<>> = <<c>>
    OBVIOUS
  <2> QED BY <1>10, <2>1
<1>13. (Asked' <=> Asked) /\ (All' <=> All) /\ ~Pending
  BY <1>5 DEF Asked, All, Pending
<1>14. PICK base : base = IF first.eof THEN <<c>> \o <<EofCall>> ELSE <<c>>
  OBVIOUS
<1>15. /\ Shape(base) /\ base # <<>> /\ base[1] = c
       /\ \A k \in 1..Len(base) : Waits(base[k])'
  <2>1. /\ <<c>> \in Seq(Calls) /\ <<EofCall>> \in Seq(Calls) /\ <<c>> \o <<>> = <<c>>
        /\ <<EofCall>> \o <<>> = <<EofCall>> /\ <<EofCall>>[1] = EofCall
    BY <1>11, Plain
  <2>2. Shape(<<c>>) /\ Shape(<<EofCall>>)
    BY <1>11, <2>1, Plain, EmptyShape, PushedShape
  <2>3. Waits(c)'
    BY <1>4, NetworkWaits
  <2>6. CASE first.eof
    <3>1. Waits(EofCall)'
      BY EofRuns
    <3>2. Follows(c, EofCall)
      BY <1>11 DEF Follows
    <3>3. base = <<c>> \o <<EofCall>>
      BY <1>14, <2>6
    <3>5. Shape(base)
      BY <1>11, <2>1, <2>2, <3>2, <3>3, PushedShape
    <3>6. Len(base) = 2 /\ base[1] = c /\ base[2] = EofCall /\ base # <<>>
      BY <2>1, <3>3
    <3>7. \A k \in 1..Len(base) : Waits(base[k])'
      <4>1. \A k \in 1..2 : k = 1 \/ k = 2
        OBVIOUS
      <4> QED BY <2>3, <3>1, <3>6, <4>1
    <3> QED BY <3>5, <3>6, <3>7
  <2>7. CASE ~first.eof
    <3>1. base = <<c>>
      BY <1>14, <2>7
    <3>2. Len(<<c>>) = 1 /\ <<c>>[1] = c /\ <<c>> # <<>>
      OBVIOUS
    <3>3. \A k \in 1..Len(base) : Waits(base[k])'
      BY <2>3, <3>1, <3>2
    <3> QED BY <2>2, <3>1, <3>2, <3>3
  <2> QED BY <2>6, <2>7
<1>16. stack' = Connecting \o base
  BY <1>12, <1>14
<1>17. StackInv'
  <2>1. Follows(AcceptCall, base[1])
    BY <1>11, <1>15 DEF Follows
  <2>2. pipe'.in.state # "none" => Runnable(base[1])'
    BY <1>4, <1>15, NetworkWaits
  <2>3. pipe.in.state = "none" => pipe.in = NoIn
    BY DEF MessagesInv, ReceiverInv
  <2> QED BY <1>9, <1>15, <1>16, <2>1, <2>2, <2>3, Connects
<1>20. TypeInv'
  BY <1>5, <1>9 DEF MessagesInv, TypeInv
<1>21. SenderInv'
  BY <1>5, <1>9, SenderFrame DEF MessagesInv
<1>22. WriteInv'
  BY <1>5, <1>13, WriteFrame DEF MessagesInv
<1>23. ReceiverInv'
  BY <1>5, <1>9, <1>13, ReceiverFrame DEF MessagesInv
<1> QED BY <1>17, <1>20, <1>21, <1>22, <1>23 DEF MessagesInv

\* A pull runs with nothing behind it.
LEMMA PullIs ==
    ASSUME MessagesInv, Runs("pull", "network")
    PROVE  /\ stack = <<PullCall>> /\ Rest = <<>> /\ ~Pending
           /\ pipe.out.state \in {"connected", "shutdown"}
<1>1. /\ stack # <<>> /\ Head(stack).to = "network" /\ Head(stack).event = "pull"
  BY DEF Runs
<1>2. PICK rest : rest = Tail(stack)
  OBVIOUS
<1>3. /\ stack[1] = Head(stack) /\ Kind(stack[1]) /\ Waits(stack[1]) /\ Len(rest) = Len(stack) - 1
      /\ rest # <<>> => Follows(stack[1], rest[1])
      /\ Shape(rest)
  BY <1>1, <1>2, Remaining DEF MessagesInv
<1>4. stack[1] = PullCall
  BY <1>1, <1>3, Which
<1>5. rest = <<>>
  BY <1>3, <1>4, NothingBehind
<1>6. stack = <<PullCall>>
  <2>1. stack \in Seq(Calls) /\ Len(rest) = 0
    BY <1>5 DEF MessagesInv, StackInv, Shape
  <2>2. Len(stack) = 1
    BY <1>3, <2>1
  <2> QED BY <1>4, <2>1, <2>2, ShortSequences
<1>7. PullCall # ClearedCall
  BY DEF PullCall, EofCall, ClearedCall, Do
<1>9. pipe.out.state \in {"connected", "shutdown"}
  BY <1>3, <1>4 DEF Waits
<1> QED BY <1>2, <1>4, <1>5, <1>6, <1>7, <1>9 DEF Rest, Pending

\* A pull goes on.
LEMMA PieceHolds ==
    ASSUME MessagesInv, Runs("pull", "network"), NEW n \in Sizes(pipe), NEW r,
           r = PullPiece(pipe, n), pipe' = r.end, stack' = r.calls \o stack,
           UNCHANGED <<objects, failed, lost, ghosts>>
    PROVE  MessagesInv'
<1>1. /\ stack = <<PullCall>> /\ ~Pending
      /\ pipe.out.state \in {"connected", "shutdown"}
  BY PullIs
<1>2. UNCHANGED <<sender, receiver, failed, lost, given, taken, told, heard>>
  BY DEF objects, ghosts
<1>3. pipe \in PipeType /\ Len(pipe.out.heap) <= 1 /\ pipe.out \in OutType /\ pipe.out.buffer \in Bytes
  BY DEF MessagesInv, TypeInv, PipeType, OutType
<1>4. /\ pipe.out.heap # <<>> /\ pipe' \in PipeType /\ Len(pipe'.out.heap) <= 1
      /\ pipe'.in = pipe.in /\ pipe'.wire = pipe.wire
      /\ pipe.packet # <<>> => pipe'.packet # <<>>
      /\ pipe.out.heap[1] # <<>> => pipe'.packet # <<>>
      /\ \/ \E d \in Bytes : pipe'.out = [pipe.out EXCEPT !.heap = <<d>>] /\ r.calls = <<>>
         \/ pipe.out.writer = <<>> /\ pipe'.out = [pipe.out EXCEPT !.heap = <<>>] /\ r.calls = <<>>
         \/ /\ pipe.out.writer # <<>> /\ r.calls = <<ReadyCall>>
            /\ pipe'.out = [pipe.out EXCEPT !.heap = <<pipe.out.buffer>>, !.buffer = <<>>,
                                            !.writer = <<>>]
  BY <1>3, PieceOff
<1>5. /\ pipe'.out.state = pipe.out.state /\ pipe'.out.shutdowner = pipe.out.shutdowner
      /\ \/ /\ pipe'.out.heap # <<>> /\ pipe'.out.buffer = pipe.out.buffer
            /\ pipe'.out.writer = pipe.out.writer /\ r.calls = <<>>
         \/ /\ pipe.out.writer = <<>> /\ pipe'.out.heap = <<>> /\ pipe'.out.writer = <<>>
            /\ pipe'.out.buffer = pipe.out.buffer /\ r.calls = <<>>
         \/ /\ pipe.out.writer # <<>> /\ r.calls = <<ReadyCall>> /\ pipe'.out.heap # <<>>
            /\ pipe'.out.heap[1] = pipe.out.buffer /\ pipe'.out.buffer = <<>>
            /\ pipe'.out.writer = <<>>
  <2>1. CASE \E d \in Bytes : pipe'.out = [pipe.out EXCEPT !.heap = <<d>>] /\ r.calls = <<>>
    <3>1. PICK d \in Bytes : pipe'.out = [pipe.out EXCEPT !.heap = <<d>>] /\ r.calls = <<>>
      BY <2>1
    <3>2. PICK h : h = <<d>>
      OBVIOUS
    <3>3. h # <<>>
      BY <3>2
    <3> QED BY <1>3, <3>1, <3>2, <3>3 DEF OutType
  <2>2. CASE pipe.out.writer = <<>> /\ pipe'.out = [pipe.out EXCEPT !.heap = <<>>] /\ r.calls = <<>>
    BY <1>3, <2>2 DEF OutType
  <2>3. CASE /\ pipe.out.writer # <<>> /\ r.calls = <<ReadyCall>>
             /\ pipe'.out = [pipe.out EXCEPT !.heap = <<pipe.out.buffer>>, !.buffer = <<>>,
                                             !.writer = <<>>]
    <3>1. PICK h : h = <<pipe.out.buffer>>
      OBVIOUS
    <3>2. h # <<>> /\ h[1] = pipe.out.buffer
      BY <3>1
    <3> QED BY <1>3, <2>3, <3>1, <3>2 DEF OutType
  <2> QED BY <1>4, <2>1, <2>2, <2>3
<1>6. (Asked' <=> Asked) /\ (All' <=> All)
  BY <1>2 DEF Asked, All
<1>7. pipe.out.writer # <<>> =>
         /\ sender.life = "alive" /\ ~sender.ready /\ told = <<>>
         /\ pipe.out.state = "connected" /\ pipe.out.shutdowner = <<>>
  BY DEF MessagesInv, SenderInv
<1>8. TypeInv'
  BY <1>2, <1>4 DEF MessagesInv, TypeInv
<1>9. StackInv'
  <2>1. Waits(PullCall)' /\ Runnable(PullCall)'
    BY <1>1, <1>5, NetworkWaits
  <2>2. CASE r.calls = <<>>
    <3>1. <<>> \o <<PullCall>> = <<PullCall>>
      OBVIOUS
    <3>2. stack' = <<PullCall>>
      BY <1>1, <2>2, <3>1
    <3>3. StackInv'
      BY <2>1, <3>2, Plain, StackOne
    <3> QED BY <1>1, <3>2, <3>3
  <2>3. CASE pipe.out.writer # <<>> /\ r.calls = <<ReadyCall>>
    <3>1. stack' = <<ReadyCall>> \o <<PullCall>>
      BY <1>1, <2>3
    <3>2. Silent'
      BY <1>5, <1>7, <2>3 DEF Silent
    <3>3. pipe'.out.heap # <<>> /\ pipe'.out.state = "connected"
      BY <1>5, <1>7, <2>3
    <3>4. Waits(ReadyCall)' /\ Runnable(ReadyCall)'
      BY <1>2, <1>7, <2>3, <3>2, <3>3, ReadyRuns
    <3>5. Follows(ReadyCall, PullCall)
      BY DEF Follows
    <3>6. StackInv'
      BY <2>1, <3>1, <3>4, <3>5, Plain, StackTwo
    <3> QED BY <3>1, <3>6
  <2> QED BY <1>5, <2>2, <2>3
<1>10. SenderInv'
  BY <1>1, <1>2, <1>4, <1>5, <1>6 DEF MessagesInv, SenderInv, Silent
<1>11. WriteInv'
  BY <1>1, <1>2, WriteFrame DEF MessagesInv
<1>12. ReceiverInv'
  BY <1>2, <1>4, <1>6, ReceiverFrame DEF MessagesInv
<1> QED BY <1>8, <1>9, <1>10, <1>11, <1>12 DEF MessagesInv

\* The packet goes, and with the last of the data the end of the stream.
LEMMA PacketHolds ==
    ASSUME MessagesInv, Runs("pull", "network"), pipe.packet # <<>> \/ pipe.out.heap = <<>>,
           pipe' = SendPacket(pipe), stack' = Rest, UNCHANGED <<objects, failed, lost, ghosts>>
    PROVE  MessagesInv'
<1>1. /\ stack = <<PullCall>> /\ stack' = <<>> /\ ~Pending
      /\ pipe.out.state \in {"connected", "shutdown"}
  BY PullIs
<1>2. UNCHANGED <<sender, receiver, failed, lost, given, taken, told, heard>>
  BY DEF objects, ghosts
<1>3. /\ pipe \in PipeType /\ Len(pipe.out.heap) <= 1 /\ pipe.out \in OutType
      /\ pipe.wire \in Wires /\ pipe.packet \in Bytes
  BY DEF MessagesInv, TypeInv, PipeType
<1>4. PICK ends \in BOOLEAN : ends = Ends(pipe)
  BY DEF Ends
<1>5. PICK w : w = pipe.wire
  OBVIOUS
<1>6. PICK packet : packet = [data |-> pipe.packet, eof |-> ends]
  OBVIOUS
<1>7. PICK o : o = [pipe.out EXCEPT !.state = IF ends THEN "ending" ELSE @]
  OBVIOUS
<1>8. pipe' = [pipe EXCEPT !.out = o, !.packet = <<>>, !.wire = Append(w, packet)]
  BY <1>3, <1>4, <1>5, <1>6, <1>7 DEF SendPacket, PipeType, OutType
<1>9. /\ o \in OutType /\ o.heap = pipe.out.heap /\ o.buffer = pipe.out.buffer
      /\ o.writer = pipe.out.writer /\ o.shutdowner = pipe.out.shutdowner
      /\ ends => o.state = "ending"
      /\ ~ends => o.state = pipe.out.state
  BY <1>3, <1>7 DEF OutType, OutStates
<1>10. /\ Append(w, packet) \in Wires /\ Len(Append(w, packet)) = Len(w) + 1
       /\ Append(w, packet)[Len(w) + 1] = packet
       /\ \A k \in 1..Len(w) : Append(w, packet)[k] = w[k]
       /\ packet.data = pipe.packet /\ packet.eof = ends
       /\ Len(w) \in Nat /\ DOMAIN w = 1..Len(w)
       /\ DOMAIN Append(w, packet) = 1..(Len(w) + 1)
  <2> DEFINE P == [data : Bytes, eof : BOOLEAN]
  <2>1. w \in Seq(P) /\ packet \in P /\ packet.data = pipe.packet /\ packet.eof = ends
    BY <1>3, <1>5, <1>6 DEF Wires
  <2> HIDE DEF P
  <2>2. /\ Append(w, packet) \in Seq(P) /\ Len(Append(w, packet)) = Len(w) + 1
        /\ Append(w, packet)[Len(w) + 1] = packet
        /\ \A k \in 1..Len(w) : Append(w, packet)[k] = w[k]
    BY <2>1, Appended
  <2>3. Len(w) \in Nat /\ DOMAIN w = 1..Len(w)
    BY <2>1
  <2>4. DOMAIN Append(w, packet) = 1..(Len(w) + 1)
    BY <2>2
  <2>5. Append(w, packet) \in Wires
    BY <2>2 DEF P, Wires
  <2> QED BY <2>1, <2>2, <2>3, <2>4, <2>5
<1>11. PICK v : v = Append(w, packet)
  OBVIOUS
<1>12. /\ pipe' \in PipeType /\ pipe'.out = o /\ pipe'.in = pipe.in /\ pipe'.packet = <<>>
       /\ pipe'.wire = v
  BY <1>3, <1>8, <1>9, <1>10, <1>11, Members DEF PipeType
<1>13. (Asked' <=> Asked) /\ (All' <=> All)
  BY <1>2 DEF Asked, All
<1>14. ends => /\ All /\ Asked /\ pipe.out.heap = <<>> /\ pipe.out.writer = <<>>
               /\ pipe.out.buffer = <<>> /\ pipe.out.state = "shutdown"
  <2>1. ends => pipe.out.heap = <<>> /\ pipe.out.state = "shutdown"
    BY <1>4 DEF Ends
  <2> QED BY <2>1 DEF MessagesInv, SenderInv
<1>15. TypeInv'
  BY <1>2, <1>3, <1>9, <1>12 DEF MessagesInv, TypeInv
<1>16. StackInv'
  BY <1>1, StackNone
<1>17. SenderInv'
  BY <1>1, <1>2, <1>9, <1>12, <1>13, <1>14 DEF MessagesInv, SenderInv, Silent
<1>18. WriteInv'
  BY <1>1, <1>2, WriteFrame DEF MessagesInv
<1>19. ReceiverInv'
  BY <1>2, <1>12, <1>13, ReceiverFrame DEF MessagesInv
<1> QED BY <1>15, <1>16, <1>17, <1>18, <1>19 DEF MessagesInv

LEMMA PullOnHolds ==
    ASSUME MessagesInv, PullOn
    PROVE  MessagesInv'
<1>1. /\ Runs("pull", "network")
      /\ \/ \E n \in Sizes(pipe) : /\ pipe' = PullPiece(pipe, n).end
                                   /\ stack' = PullPiece(pipe, n).calls \o stack
         \/ /\ pipe.packet # <<>> \/ pipe.out.heap = <<>>
            /\ pipe' = SendPacket(pipe) /\ stack' = Rest
      /\ UNCHANGED <<objects, failed, lost, ghosts>>
  BY DEF PullOn
<1>2. ASSUME NEW n \in Sizes(pipe), pipe' = PullPiece(pipe, n).end,
             stack' = PullPiece(pipe, n).calls \o stack
      PROVE  MessagesInv'
  <2>1. PICK r : r = PullPiece(pipe, n)
    OBVIOUS
  <2> QED BY <1>1, <1>2, <2>1, PieceHolds
<1> QED BY <1>1, <1>2, PacketHolds

-----------------------------------------------------------------------------
(***************************************************************************)
(* Every step keeps the invariant                                           *)
(***************************************************************************)
LEMMA InitHolds ==
    ASSUME Init
    PROVE  MessagesInv
<1>1. /\ sender = Unborn /\ receiver = NoReceiver /\ pipe = NewPipe /\ lost = {} /\ stack = <<>>
      /\ given = 0 /\ taken = <<>> /\ told = <<>> /\ heard = <<>> /\ failed = "no"
  BY DEF Init
<1>2. /\ Len(<<>>) = 0 /\ \A n \in 1..Len(<<>>) : FALSE
      /\ DOMAIN <<>> = {} /\ \A n \in DOMAIN <<>> : FALSE
  OBVIOUS
<1>3. /\ pipe.out.state = "connected" /\ pipe.out.heap = <<>> /\ pipe.out.buffer = <<>>
      /\ pipe.out.writer = <<>> /\ pipe.out.shutdowner = <<>> /\ pipe.out.complete = FALSE
      /\ pipe.in = NoIn /\ pipe.packet = <<>> /\ pipe.wire = <<>> /\ pipe.out \in OutType
      /\ pipe \in PipeType
  <2>1. NewOut \in OutType /\ NoIn \in InType
    BY Members DEF NewOut, NoIn, OutType, InType, OutStates, InStates
  <2>2. pipe = [out |-> NewOut, in |-> NoIn, packet |-> <<>>, wire |-> <<>>]
    BY <1>1 DEF NewPipe, NoPipe
  <2>3. pipe \in PipeType /\ pipe.out = NewOut /\ pipe.in = NoIn
        /\ pipe.packet = <<>> /\ pipe.wire = <<>>
    BY <2>1, <2>2, Members DEF PipeType
  <2> QED BY <2>1, <2>3 DEF NewOut
<1>4. /\ sender.kind = "none" /\ sender.life = "unborn" /\ sender.ready = FALSE
      /\ sender.buf = <<>> /\ sender.shutdownRequest = FALSE /\ sender \in SenderType
      /\ receiver \in ReceiverType
  BY <1>1, Members DEF Unborn, NoReceiver, SenderType, ReceiverType
<1>5. TypeInv
  <2>1. <<>> \in Seq(Outcomes) /\ <<>> \in Seq({<<"reset">>} \cup {"message"} \X Bytes)
    OBVIOUS
  <2> QED BY <1>1, <1>2, <1>3, <1>4, <2>1, Members DEF TypeInv
<1>6. StackInv
  <2>1. Shape(stack)
    BY <1>1, EmptyShape
  <2> QED BY <1>1, <1>2, <2>1 DEF StackInv
<1>7. SenderInv
  BY <1>1, <1>2, <1>3, <1>4 DEF SenderInv, Silent, Asked
<1>8. WriteInv
  <2>1. Count(0) = <<>>
    BY DEF Count
  <2> QED BY <1>1, <1>2, <1>4, <2>1 DEF WriteInv
<1>9. ReceiverInv
  <2>1. pipe.in.reader = <<>>
    BY <1>3 DEF NoIn
  <2> QED BY <1>1, <1>2, <1>3, <2>1 DEF ReceiverInv
<1> QED BY <1>5, <1>6, <1>7, <1>8, <1>9 DEF MessagesInv

LEMMA NextHolds ==
    ASSUME MessagesInv, [Next]_vars
    PROVE  MessagesInv'
<1>1. CASE Callback
  BY <1>1, BufferedReadyHolds, ClearedHolds, MessageReadyHolds, SenderToldHolds,
     SenderDestroyedHolds, AcceptHolds, OnReceiveHolds, HeardHolds, ReceiverDestroyedHolds,
     PullOnHolds, ArrivesHolds DEF Callback
<1>2. CASE Packets
  BY <1>2, PullHolds, DeliverHolds, WriterResetArrivesHolds, ReaderResetArrivesHolds,
     AckArrivesHolds DEF Packets
<1>3. CASE User
  <2>1. MaxBytes \in Nat
    BY MessagesAssumption
  <2>2. \A n \in 1..MaxBytes : n \in Nat \ {0}
    BY <2>1
  <2>3. \A n \in 0..MaxBytes : n \in Nat
    BY <2>1
  <2>4. ASSUME NEW n \in 1..MaxBytes, Write(n)
        PROVE  MessagesInv'
    BY <2>2, <2>4, WriteHolds
  <2>5. ASSUME NEW n \in 0..MaxBytes, Send(n)
        PROVE  MessagesInv'
    BY <2>3, <2>5, SendHolds
  <2> QED BY <1>3, <2>4, <2>5, WrapHolds, ShutdownHolds, ResetHolds, DeleteHolds, DropHolds DEF User
<1>4. ASSUME NEW side \in {"sender", "receiver"}, Lose(side)
      PROVE  MessagesInv'
  BY <1>4, LoseHolds
<1>5. CASE UNCHANGED vars
  <2>1. UNCHANGED <<objects, network, ghosts>> /\ lost' \in SUBSET {"sender", "receiver"}
    BY <1>5 DEF vars, objects, MessagesInv, TypeInv
  <2> QED BY <2>1, OnlyLost
<1> QED BY <1>1, <1>2, <1>3, <1>4, <1>5 DEF Next

LEMMA SpecMessagesInv == Spec => []MessagesInv
<1>1. Init => MessagesInv
  BY InitHolds
<1>2. MessagesInv /\ [Next]_vars => MessagesInv'
  BY NextHolds
<1> QED BY <1>1, <1>2, PTL DEF Spec

\* What is in the invariant of what the stream is given.
LEMMA OrderOf ==
    ASSUME MessagesInv
    PROVE  WrittenInOrder
<1>1. taken = Count(Len(taken)) /\ Len(taken) <= given
  BY DEF MessagesInv, WriteInv
<1>2. pipe.out.state \in {"shutdown", "ending", "acked"} => Len(taken) = given
  BY DEF MessagesInv, SenderInv, All
<1>3. \A n \in DOMAIN told : told[n] = "TRUE" => Len(taken) = given
  BY DEF MessagesInv, SenderInv, All
<1> QED BY <1>1, <1>2, <1>3 DEF WrittenInOrder

\* And of who hears of what.
LEMMA OnceOf ==
    ASSUME MessagesInv
    PROVE  ToldOnce
<1>1. failed = "no" /\ Len(told) <= 1 /\ Len(heard) <= 1
  BY DEF MessagesInv, TypeInv
<1>2. ASSUME stack # <<>>, Head(stack).event \in Methods
      PROVE  ~Gone(Head(stack).to)
  <2>1. PICK c : c = stack[1]
    OBVIOUS
  <2>2. Head(stack) = c /\ Kind(c) /\ Waits(c) /\ Runnable(c)
    <3>1. PICK rest : rest = Tail(stack)
      OBVIOUS
    <3> QED BY <1>2, <2>1, <3>1, Remaining DEF MessagesInv
  <2>3. c.to = "sender" => sender.life # "dead"
    <3>1. ASSUME c.to = "sender"
          PROVE  c \in {ReadyCall, ClearedCall} \/ IsOutcome(c)
      BY <1>2, <2>2, <3>1 DEF Kind, PullCall, AcceptCall, EofCall, ResetsCall, Destroy, Do,
            IsOutcome, IsEnding, IsData, Methods
    <3> QED BY <2>2, <3>1 DEF Runnable
  <2>4. c.to = "receiver" => receiver.life # "dead"
    <3>1. ASSUME c.to = "receiver"
          PROVE  IsEnding(c) \/ IsData(c)
      BY <1>2, <2>2, <3>1 DEF Kind, PullCall, AcceptCall, EofCall, ResetsCall, Destroy, Do,
            IsOutcome, IsEnding, IsData, Methods, ReadyCall, ClearedCall
    <3> QED BY <2>2, <3>1 DEF Runnable
  <2> QED BY <2>2, <2>3, <2>4 DEF Gone
<1> QED BY <1>1, <1>2 DEF ToldOnce

\* What the stream is given is what the program wrote, each byte once and in
\* order, and all of it before it is told to shut down or the program is told that
\* it was sent (bufferedoutstream.cpp:28-38, 94-107).
THEOREM SpecWrittenInOrder == Spec => []WrittenInOrder
<1>1. MessagesInv => WrittenInOrder
  BY OrderOf
<1> QED BY <1>1, SpecMessagesInv, PTL

\* No operation raises, nothing is called on an object that is gone, and the
\* handlers of each side hear of one outcome (bufferedoutstream.cpp:23-26, 30, 53;
\* singlemessageoutstream.cpp:27-45).
THEOREM SpecToldOnce == Spec => []ToldOnce
<1>1. MessagesInv => ToldOnce
  BY OnceOf
<1> QED BY <1>1, SpecMessagesInv, PTL
=============================================================================
