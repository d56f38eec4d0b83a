---------------------------- MODULE SingleCycle ----------------------------
(***************************************************************************)
(* One request and one response (cbindings/util): SingleCycleConn asks, a    *)
(* Conn of SingleCycleServer answers, and each of the two is a BiDiConn,     *)
(* which makes one connection out of two streams: the client opens one and   *)
(* writes the number of a service it listens on, the server opens the other  *)
(* to that service.  A client can find its server by address, through an     *)
(* AbortableContactHandler.                                                 *)
(*                                                                         *)
(* Nearly every method runs inside a callback, and many make callbacks       *)
(* before they return.  stack holds the calls that wait to run, the next     *)
(* first; what is left of a method after a call waits behind that call.     *)
(* The two hosts take turns in whole callbacks of the event loop, because    *)
(* only packets connect them.                                               *)
(***************************************************************************)
EXTENDS Pipe, FiniteSets, SequencesExt

CONSTANTS
    Requests,       \* the requests clients may make
    ServiceIds,     \* what Host::listen chooses from
    MaxParts,       \* the longest request, in parts
    Blocking,       \* the requests made with SingleCycleConn::request
    Avoided         \* what the program and its network do not do

Hazards == {"reached by address", "lost while waiting", "unlistened twice",
            "contact abandoned", "deleted in onFail", "service reused",
            "not served"}
ASSUME CycleAssumption ==
    MaxParts \in Nat /\ Blocking \subseteq Requests /\ Avoided \subseteq Hazards

NoService == "no service"
NoEnd == <<"none">>
Sides == {"client", "server"}
Parties == Sides \X Requests
Client(r) == <<"client", r>>
Server(r) == <<"server", r>>

VARIABLES
    bidi,       \* the BiDiConn of each party, and how far its life is
    asker,      \* the members of each SingleCycleConn
    answerer,   \* the members of each SingleCycleServer::Conn
    abortable,  \* each AbortableContactHandler that an EndPoint knows
    pipe,       \* the stream each party opens
    listener,   \* which request's client listens on each service
    services,   \* the services that were in use
    serving,    \* is there a SingleCycleServer?
    lost,       \* the sides whose host object was destroyed
    stack,      \* the calls to run
    asked,      \* what each request asks
    answers,    \* what onRequest was given and answered, by request
    outcome,    \* what the handler of each request was told
    failed      \* how the program failed, or "no"

network == <<pipe, stack, failed>>
objects == <<bidi, asker, answerer, abortable>>
hosts   == <<listener, services, serving, lost>>
ghosts  == <<asked, answers, outcome>>
vars    == <<network, objects, hosts, ghosts>>

Unborn == [life |-> "unborn", contacting |-> FALSE, service |-> NoService,
           remote |-> NoService, host |-> FALSE, is |-> NoEnd, os |-> FALSE]
Dead == [Unborn EXCEPT !.life = "dead"]

-----------------------------------------------------------------------------
(***************************************************************************)
(* Calls                                                                    *)
(***************************************************************************)
Do(event, e) == [to |-> e, event |-> event, data |-> <<>>]
Rest == Tail(stack)
Idle == failed = "no" /\ stack = <<>>

\* What BiDiConn makes of a callback: a method of its handler.
Upcall(event) ==
    CASE event = "SHUTDOWN"          -> "onReceiveShutdown"
      [] event \in {"TRUE", "FALSE"} -> "onSendShutdownReady"
      [] event = "RESET"             -> "onReset"
      [] event = "READY"             -> "onSendReady"
      [] event = "NOCONTACT"         -> "onContactFail"
      [] OTHER                       -> event
Upcalls == {"onReceiveShutdown", "onSendShutdownReady", "onReset",
            "onSendReady", "onContactFail", "DATA"}

\* A method needs its object.  ~Conn destroys the handler before the BiDiConn,
\* ~SingleCycleConn after it.
Usable(e, event) ==
    \/ bidi[e].life = "alive"
    \/ bidi[e].life = "dying" /\ (Upcall(event) \in Upcalls => e[1] = "client")

Methods == Upcalls \cup {"CONTACT", "clearRequest", "setReady", "append", "read",
                         "reset", "resetOut"}
Runs(method, e) ==
    /\ failed = "no" /\ stack # <<>>
    /\ Head(stack).to = e /\ Upcall(Head(stack).event) = method
    /\ method \in Methods => Usable(e, Head(stack).event)

Fail(how) == failed' = how /\ UNCHANGED <<pipe, stack>>

\* The results of an operation on the stream of e replace its end there, and
\* its calls are made before the rest.
OutDone(e, result, rest) ==
    IF result.raised THEN Fail("exception")
    ELSE /\ pipe' = [pipe EXCEPT ![e].out = result.end]
         /\ stack' = result.calls \o rest
         /\ UNCHANGED failed
InDone(e, result, rest) ==
    IF result.raised THEN Fail("exception")
    ELSE /\ pipe' = [pipe EXCEPT ![e].in = result.end]
         /\ stack' = result.calls \o rest
         /\ UNCHANGED failed

-----------------------------------------------------------------------------
(***************************************************************************)
(* BiDiConn                                                                 *)
(***************************************************************************)
SendData(e, data, rest) ==
    IF ~bidi[e].os THEN Fail("assert") ELSE OutDone(e, OutWrite(pipe[e].out, data, e), rest)

Shutdown(e, rest) == OutDone(e, OutShutdown(pipe[e].out, e), rest)

\* onContact: knows the stream, listens, and writes the service it listens on.
\* Its parameter host hides the member of that name, which stays as it is.
OnContact(r, host, rest) ==
    \E id \in ServiceIds :
        /\ listener[id] = NoEnd
        /\ "service reused" \in Avoided => id \notin services
        /\ bidi' = [bidi EXCEPT ![Client(r)] =
                       [Unborn EXCEPT !.life = "alive", !.host = host,
                                      !.os = TRUE, !.service = id]]
        /\ listener' = [listener EXCEPT ![id] = Client(r)]
        /\ services' = services \cup {id}
        /\ LET w == OutWrite(NewOut, <<id>>, Client(r))
           IN /\ pipe' = [pipe EXCEPT ![Client(r)] = [NewPipe EXCEPT !.out = w.end]]
              /\ stack' = w.calls \o rest
              /\ UNCHANGED failed

\* onConnect: the server's stream has come.  It asserts that it is the service
\* and the first, and reads.
OnConnectStays(e, c, id) ==
    IF ~bidi[c].host THEN Fail("assert") /\ UNCHANGED <<bidi, listener>>
    ELSE /\ listener' = [listener EXCEPT ![id] = NoEnd]
         /\ bidi' = [bidi EXCEPT ![c].is = e]
         /\ InDone(e, InRead(NewIn, c), Rest)
OnConnect(e, c, id) ==
    IF bidi[c].service # id \/ bidi[c].is # NoEnd \/ ~bidi[c].host
    THEN Fail("assert") /\ UNCHANGED <<bidi, listener>>
    ELSE /\ listener' = [listener EXCEPT ![id] = NoEnd]
         /\ bidi' = [bidi EXCEPT ![c].is = e, ![c].service = NoService]
         /\ InDone(e, InRead(NewIn, c), Rest)

ServiceOf(data) == Head(data)

\* onReceive.  The client appends what it got and reads on.  The first data the
\* server gets begin with the service to connect to.
ReceiveThen(e, after) ==
    LET data == Head(stack).data
        more == IF Len(data) = 1 THEN <<>>
                ELSE <<[to |-> e, event |-> "append", data |-> Tail(data)]>>
    IN  /\ Runs("DATA", e)
        /\ IF bidi[e].os
           THEN /\ stack' = <<[Head(stack) EXCEPT !.event = "append"]>> \o after \o Rest
                /\ UNCHANGED <<pipe, failed, bidi>>
           ELSE IF data = <<>> \/ ~bidi[e].host THEN Fail("assert") /\ UNCHANGED bidi
           ELSE /\ bidi' = [bidi EXCEPT ![e].remote = ServiceOf(data), ![e].os = TRUE]
                /\ pipe' = [pipe EXCEPT ![e] = NewPipe]
                /\ stack' = <<Do("READY", e)>> \o more \o after \o Rest
                /\ UNCHANGED failed
        /\ UNCHANGED <<asker, answerer, abortable, hosts, ghosts>>
OnReceiveOnce(e) == ReceiveThen(e, <<>>)
OnReceive(e) == ReceiveThen(e, <<Do("read", e)>>)

Read(e) ==
    /\ Runs("read", e)
    /\ InDone(bidi[e].is, InRead(pipe[bidi[e].is].in, e), Rest)
    /\ UNCHANGED <<objects, hosts, ghosts>>

\* The service that reset gives up.
GivesUpNone(e) == NoService
GivesUp(e) == bidi[e].service

\* reset stops the contact, the listening and both streams.  It forgets none of
\* them but the contact.
Reset(e) ==
    LET id   == GivesUp(e)
        read == bidi[e].is
        rest == <<Do("resetOut", e)>> \o Rest
    IN  /\ Runs("reset", e)
        /\ IF id # NoService /\ (~bidi[e].host \/ listener[id] = NoEnd)
           THEN /\ Fail(IF bidi[e].host THEN "exception" ELSE "assert")
                /\ UNCHANGED <<bidi, abortable, listener>>
           ELSE /\ bidi' = [bidi EXCEPT ![e].contacting = FALSE]
                /\ abortable' = IF bidi[e].contacting
                                THEN [abortable EXCEPT ![e[2]] = "deleted"] ELSE abortable
                /\ listener' = IF id = NoService THEN listener
                               ELSE [listener EXCEPT ![id] = NoEnd]
                /\ IF read = NoEnd THEN stack' = rest /\ UNCHANGED <<pipe, failed>>
                   ELSE InDone(read, InReset(pipe[read].in), rest)
        /\ UNCHANGED <<asker, answerer, services, serving, lost, ghosts>>

ResetOutForgets(e) ==
    /\ Runs("resetOut", e)
    /\ stack' = Rest
    /\ UNCHANGED <<pipe, failed, objects, hosts, ghosts>>
ResetOut(e) ==
    /\ Runs("resetOut", e)
    /\ IF bidi[e].os THEN OutDone(e, OutReset(pipe[e].out), Rest)
       ELSE stack' = Rest /\ UNCHANGED <<pipe, failed>>
    /\ UNCHANGED <<objects, hosts, ghosts>>

-----------------------------------------------------------------------------
(***************************************************************************)
(* SingleCycleConn                                                          *)
(***************************************************************************)
NoAsker == [request |-> <<>>, response |-> <<>>]

\* onSendReady: the request, the next time the end.
AskerSendReady(r) ==
    /\ Runs("onSendReady", Client(r))
    /\ IF asker[r].request # <<>>
       THEN SendData(Client(r), asker[r].request, <<Do("clearRequest", Client(r))>> \o Rest)
       ELSE Shutdown(Client(r), Rest)
    /\ UNCHANGED <<objects, hosts, ghosts>>

ClearRequest(r) ==
    /\ Runs("clearRequest", Client(r))
    /\ asker' = [asker EXCEPT ![r].request = <<>>]
    /\ stack' = Rest
    /\ UNCHANGED <<pipe, failed, bidi, answerer, abortable, hosts, ghosts>>

AskerReceiveData(r) ==
    /\ Runs("append", Client(r))
    /\ asker' = [asker EXCEPT ![r].response = @ \o Head(stack).data]
    /\ stack' = Rest
    /\ UNCHANGED <<pipe, failed, bidi, answerer, abortable, hosts, ghosts>>

\* The user may delete the connection in a callback: r is dying, its BiDiConn
\* is reset, and it is gone.
Deletes(r) == [bidi EXCEPT ![Client(r)].life = "dying"]
Deleting(r) == <<Do("reset", Client(r)), Do("destroyed", Client(r))>>

AskerReceiveShutdown(r) ==
    /\ Runs("onReceiveShutdown", Client(r))
    /\ outcome' = [outcome EXCEPT ![r] = Append(@, [told |-> "response", data |-> asker[r].response])]
    /\ \/ stack' = Rest /\ UNCHANGED bidi
       \/ /\ r \notin Blocking /\ bidi[Client(r)].life = "alive"
          /\ bidi' = Deletes(r) /\ stack' = Deleting(r) \o Rest
    /\ UNCHANGED <<pipe, failed, asker, answerer, abortable, hosts, asked, answers>>

\* onSendShutdownReady is ignored.
AskerShutdownReady(r) ==
    /\ Runs("onSendShutdownReady", Client(r))
    /\ stack' = Rest
    /\ UNCHANGED <<pipe, failed, objects, hosts, ghosts>>

\* onReset and onContactFail tell the user, then reset the connection.
AskerFails(r) ==
    /\ Runs("onReset", Client(r)) \/ Runs("onContactFail", Client(r))
    /\ outcome' = [outcome EXCEPT ![r] = Append(@, [told |-> "fail", data |-> <<>>])]
    /\ LET then == <<Do("reset", Client(r))>> \o Rest
           here == [bidi EXCEPT ![Client(r)].contacting =
                       @ /\ Head(stack).event # "NOCONTACT"]
       IN \/ stack' = then /\ bidi' = here
          \/ /\ "deleted in onFail" \notin Avoided /\ r \notin Blocking
             /\ bidi[Client(r)].life = "alive"
             /\ bidi' = Deletes(r) /\ stack' = Deleting(r) \o then
    /\ UNCHANGED <<pipe, failed, asker, answerer, abortable, hosts, asked, answers>>

-----------------------------------------------------------------------------
(***************************************************************************)
(* SingleCycleServer and its Conn                                           *)
(***************************************************************************)
NoAnswerer == [sendReady |-> FALSE, request |-> <<>>, response |-> <<>>]

\* What onRequest may answer: nothing, or something that depends on the request.
Answers(request) == {<<>>, <<"ok">> \o request}

\* delete this.
DeleteThis(r) ==
    /\ bidi' = [bidi EXCEPT ![Server(r)].life = "dying"]
    /\ stack' = <<Do("reset", Server(r)), Do("destroyed", Server(r))>> \o Rest
    /\ UNCHANGED <<pipe, failed>>

\* shutdown() if there is a stream, else delete this.
ShutdownOrDelete(r) ==
    IF bidi[Server(r)].os THEN Shutdown(Server(r), Rest) /\ UNCHANGED bidi
    ELSE DeleteThis(r)

AnswererSendReady(r) ==
    LET part == answerer[r]
        set  == <<Do("setReady", Server(r))>> \o Rest
    IN  /\ Runs("onSendReady", Server(r))
        /\ IF part.sendReady THEN ShutdownOrDelete(r)
           ELSE /\ IF part.response # <<>> THEN SendData(Server(r), part.response, set)
                   ELSE stack' = set /\ UNCHANGED <<pipe, failed>>
                /\ UNCHANGED bidi
        /\ UNCHANGED <<asker, answerer, abortable, hosts, ghosts>>

SetReady(r) ==
    /\ Runs("setReady", Server(r))
    /\ answerer' = [answerer EXCEPT ![r].sendReady = TRUE]
    /\ stack' = Rest
    /\ UNCHANGED <<pipe, failed, bidi, asker, abortable, hosts, ghosts>>

AnswererReceiveData(r) ==
    /\ Runs("append", Server(r))
    /\ answerer' = [answerer EXCEPT ![r].request = @ \o Head(stack).data]
    /\ stack' = Rest
    /\ UNCHANGED <<pipe, failed, bidi, asker, abortable, hosts, ghosts>>

AnswererReceiveShutdown(r) ==
    LET part == answerer[r] IN
    /\ Runs("onReceiveShutdown", Server(r))
    /\ \E response \in Answers(part.request) :
          /\ answers' = [answers EXCEPT ![r] =
                            Append(@, [request |-> part.request, response |-> response])]
          /\ answerer' = [answerer EXCEPT ![r].response = response,
                             ![r].sendReady = @ \/ response = <<>>]
          /\ CASE part.sendReady /\ response # <<>> ->
                     SendData(Server(r), response, Rest) /\ UNCHANGED bidi
               [] part.sendReady /\ response = <<>> -> ShutdownOrDelete(r)
               [] OTHER -> stack' = Rest /\ UNCHANGED <<pipe, failed, bidi>>
    /\ UNCHANGED <<asker, abortable, hosts, asked, outcome>>

\* onSendShutdownReady, onReset and onContactFail: done.
AnswererStays(r) ==
    /\ Runs("onReset", Server(r)) \/ Runs("onSendShutdownReady", Server(r))
    /\ IF Head(stack).event # "FALSE" THEN DeleteThis(r)
       ELSE stack' = Rest /\ UNCHANGED <<pipe, failed, bidi>>
    /\ UNCHANGED <<asker, answerer, abortable, hosts, ghosts>>
AnswererDone(r) ==
    /\ Runs("onReset", Server(r)) \/ Runs("onSendShutdownReady", Server(r))
    /\ DeleteThis(r)
    /\ UNCHANGED <<asker, answerer, abortable, hosts, ghosts>>

Destroyed(e) ==
    /\ Runs("destroyed", e)
    /\ bidi' = [bidi EXCEPT ![e] = Dead]
    /\ asker' = IF e[1] = "client" THEN [asker EXCEPT ![e[2]] = NoAsker] ELSE asker
    /\ answerer' = IF e[1] = "server" THEN [answerer EXCEPT ![e[2]] = NoAnswerer] ELSE answerer
    /\ stack' = Rest
    /\ UNCHANGED <<pipe, failed, abortable, hosts, ghosts>>

-----------------------------------------------------------------------------
(***************************************************************************)
(* What the user does, between callbacks                                    *)
(***************************************************************************)
\* A request has up to MaxParts parts, and no other request has such parts.
Texts(r) == UNION {[1..n -> {r}] : n \in 0..MaxParts}

Asks(r, text) ==
    /\ Idle /\ bidi[Client(r)].life = "unborn" /\ lost = {}
    /\ "not served" \in Avoided => serving
    /\ asked' = [asked EXCEPT ![r] = text]
    /\ asker' = [asker EXCEPT ![r] = [NoAsker EXCEPT !.request = text]]

AskHost(r, text) ==
    /\ Asks(r, text)
    /\ OnContact(r, TRUE, <<>>)
    /\ UNCHANGED <<answerer, abortable, serving, lost, answers, outcome>>

\* The constructor by address.  The answer comes later, unless a channel to the
\* address is up: then contact calls back at once.
AskAddress(r, text) ==
    /\ Asks(r, text)
    /\ bidi' = [bidi EXCEPT ![Client(r)] =
                   [Unborn EXCEPT !.life = "alive", !.contacting = TRUE]]
    /\ abortable' = [abortable EXCEPT ![r] = "waiting"]
    /\ \/ stack' = <<>>
       \/ "reached by address" \notin Avoided /\ stack' = <<Do("reached", Client(r))>>
    /\ UNCHANGED <<pipe, failed, answerer, hosts, answers, outcome>>

\* The end of the contact calls the handler, which is gone afterwards.
ContactEnds(r, event) ==
    /\ Idle /\ abortable[r] \in {"waiting", "deleted"}
    /\ event = "reached" => "reached by address" \notin Avoided
    /\ stack' = <<Do(event, Client(r))>>
    /\ UNCHANGED <<pipe, failed, objects, hosts, ghosts>>

ContactCallback(r) ==
    /\ \E event \in {"reached", "notReached"} : Runs(event, Client(r))
    /\ IF abortable[r] = "deleted"
       THEN Fail("dangling") /\ UNCHANGED <<bidi, abortable, listener, services>>
       ELSE /\ abortable' = [abortable EXCEPT ![r] = "none"]
            /\ IF Head(stack).event = "reached" THEN OnContact(r, FALSE, Rest)
               ELSE /\ stack' = <<Do("NOCONTACT", Client(r))>> \o Rest
                    /\ UNCHANGED <<pipe, failed, bidi, listener, services>>
    /\ UNCHANGED <<asker, answerer, serving, lost, ghosts>>

\* Would the destructor give up a service that was given up before?
UnlistensTwice(r) ==
    LET c == bidi[Client(r)] IN
    c.service # NoService
    /\ (listener[c.service] # Client(r) \/ pipe[Client(r)].out.writer # <<>>)

Delete(r) ==
    /\ Idle /\ bidi[Client(r)].life = "alive"
    /\ "contact abandoned" \in Avoided => ~bidi[Client(r)].contacting
    /\ "unlistened twice" \in Avoided => ~UnlistensTwice(r)
    /\ r \in Blocking => outcome[r] # <<>>
    /\ bidi' = Deletes(r)
    /\ stack' = Deleting(r)
    /\ UNCHANGED <<pipe, failed, asker, answerer, abortable, hosts, ghosts>>

\* The server advertises its service, and stops.
Serve ==
    /\ Idle /\ ~serving
    /\ serving' = TRUE
    /\ UNCHANGED <<network, objects, listener, services, lost, ghosts>>

StopServing ==
    /\ Idle /\ serving
    /\ \A r \in Requests : bidi[Server(r)].life # "alive"
    /\ "not served" \in Avoided =>
          \A r \in Requests : bidi[Client(r)].life \in {"unborn", "dead"}
    /\ serving' = FALSE
    /\ UNCHANGED <<network, objects, listener, services, lost, ghosts>>

-----------------------------------------------------------------------------
(***************************************************************************)
(* What the network does                                                    *)
(***************************************************************************)
Pull(e) ==
    /\ Idle /\ lost = {} /\ ReadyToSend(pipe[e])
    /\ stack' = <<Do("pull", e)>>
    /\ UNCHANGED <<pipe, failed, objects, hosts, ghosts>>

PullOn(e) ==
    /\ Runs("pull", e)
    /\ \/ \E n \in Sizes(pipe[e]) :
             LET p == PullPiece(pipe[e], n)
             IN /\ pipe' = [pipe EXCEPT ![e] = p.end]
                /\ stack' = p.calls \o stack
       \/ /\ pipe[e].packet # <<>> \/ pipe[e].out.heap = <<>>
          /\ pipe' = [pipe EXCEPT ![e] = SendPacket(pipe[e])]
          /\ stack' = Rest
    /\ UNCHANGED <<failed, objects, hosts, ghosts>>

\* The first packet of a stream, whatever it holds, connects it first.
Connecting(e) == IF pipe[e].in.state = "none" THEN <<Do("accept", e)>> ELSE <<>>

\* (The end of these streams goes with data or is all there is, so it never
\* overtakes data.)
Deliver(e) ==
    /\ Idle /\ lost = {}
    /\ \E n \in TakenNext(pipe[e]) :
          LET packet == pipe[e].wire[n]
              eof == IF packet.eof THEN <<Do("eof", e)>> ELSE <<>>
          IN /\ stack' = Connecting(e)
                         \o <<[to |-> e, event |-> "arrive", data |-> packet.data]>> \o eof
             /\ pipe' = [pipe EXCEPT ![e] = Take(@, n)]
    /\ UNCHANGED <<failed, objects, hosts, ghosts>>

WriterResetArrives(e) ==
    /\ Idle /\ lost = {} /\ ResetsReader(pipe[e])
    /\ stack' = Connecting(e) \o <<Do("writerResets", e)>>
    /\ pipe' = [pipe EXCEPT ![e].out.complete = TRUE, ![e].wire = <<>>]
    /\ UNCHANGED <<failed, objects, hosts, ghosts>>

\* A Conn for each stream that comes to the server's service, a client for a
\* stream to its service; other streams are reset at once.
Accept(e) ==
    /\ Runs("accept", e)
    /\ LET s  == Server(e[2])
           id == bidi[e].remote
           c  == IF id = NoService THEN NoEnd ELSE listener[id]
           refused == InDone(e, InReset(NewIn), Rest)
       IN IF e[1] = "client"
          THEN /\ IF serving
                  THEN /\ bidi' = [bidi EXCEPT ![s] =
                              [Unborn EXCEPT !.life = "alive", !.host = TRUE, !.is = e]]
                       /\ answerer' = [answerer EXCEPT ![e[2]] = NoAnswerer]
                       /\ InDone(e, InRead(NewIn, s), Rest)
                  ELSE refused /\ UNCHANGED <<bidi, answerer>>
               /\ UNCHANGED listener
          ELSE /\ CASE c = NoEnd                 -> refused /\ UNCHANGED <<bidi, listener>>
                    [] ~(c = NoEnd) /\ ~Usable(c, "onConnect") ->
                           Fail("dangling") /\ UNCHANGED <<bidi, listener>>
                    [] OTHER                     -> OnConnect(e, c, id)
               /\ UNCHANGED answerer
    /\ UNCHANGED <<asker, abortable, services, serving, lost, ghosts>>

Arrive(e) ==
    /\ Runs("arrive", e)
    /\ IF Unassigned(pipe[e].in) THEN stack' = Rest /\ UNCHANGED <<pipe, failed>>
       ELSE InDone(e, InData(pipe[e].in, Head(stack).data), Rest)
    /\ UNCHANGED <<objects, hosts, ghosts>>

EndArrives(e) ==
    /\ Runs("eof", e)
    /\ IF Unassigned(pipe[e].in) THEN stack' = Rest /\ UNCHANGED <<pipe, failed>>
       ELSE InDone(e, InEnd(pipe[e].in), Rest)
    /\ UNCHANGED <<objects, hosts, ghosts>>

ResetArrives(e) ==
    /\ Runs("writerResets", e)
    /\ IF Unassigned(pipe[e].in) THEN stack' = Rest /\ UNCHANGED <<pipe, failed>>
       ELSE InDone(e, InWriterResets(pipe[e].in), Rest)
    /\ UNCHANGED <<objects, hosts, ghosts>>

ReaderResetArrives(e) ==
    /\ Idle /\ lost = {} /\ ResetsWriter(pipe[e])
    /\ LET o == OutReset(pipe[e].out)
           known == ~pipe[e].out.complete
       IN /\ pipe' = [pipe EXCEPT ![e].in.complete = TRUE, ![e].wire = <<>>,
                         ![e].out = IF known THEN [o.end EXCEPT !.complete = TRUE] ELSE @]
          /\ stack' = IF known THEN o.calls ELSE <<>>
    /\ UNCHANGED <<failed, objects, hosts, ghosts>>

AckArrives(e) ==
    /\ Idle /\ lost = {} /\ AllTaken(pipe[e])
    /\ OutDone(e, OutAcked(pipe[e].out), <<>>)
    /\ UNCHANGED <<objects, hosts, ghosts>>

\* Does the client wait for a stream from the server, with nothing to write?
\* The channel dies, and a side's host object with it: it resets its streams in
\* any order, and forgets who listens.  The other side gets there too.
SideStreams(side) ==
    {Do("lostOut", e) : e \in {x \in Parties : x[1] = side /\ ~pipe[x].out.complete}}
    \cup {Do("lostIn", e) : e \in {x \in Parties : /\ x[1] # side
                                                   /\ pipe[x].in.state # "none"
                                                   /\ ~pipe[x].in.complete}}
Waits(r) ==
    bidi[Client(r)].is = NoEnd /\ pipe[Client(r)].out.state \in {"shutdown", "ending", "acked"}
Lose(side) ==
    /\ Idle /\ side \notin lost
    /\ lost = {} /\ "lost while waiting" \in Avoided =>
          \A r \in Requests : bidi[Client(r)].life = "alive" => ~Waits(r)
    /\ lost' = lost \cup {side}
    /\ \E order \in SetToSeqs(SideStreams(side)) : stack' = Append(order, Do("forget", <<side>>))
    /\ UNCHANGED <<pipe, failed, objects, listener, services, serving, ghosts>>

LostOut(e) ==
    /\ Runs("lostOut", e)
    /\ IF pipe[e].out.complete THEN stack' = Rest /\ UNCHANGED <<pipe, failed>>
       ELSE LET o == OutReset(pipe[e].out)
            IN OutDone(e, [o EXCEPT !.end.complete = TRUE], Rest)
    /\ UNCHANGED <<objects, hosts, ghosts>>

LostIn(e) ==
    /\ Runs("lostIn", e)
    /\ IF pipe[e].in.complete THEN stack' = Rest /\ UNCHANGED <<pipe, failed>>
       ELSE LET i == InReset(pipe[e].in)
            IN InDone(e, [i EXCEPT !.end.complete = TRUE], Rest)
    /\ UNCHANGED <<objects, hosts, ghosts>>

Forget(side) ==
    /\ Runs("forget", <<side>>)
    /\ listener' = IF side = "client" THEN [id \in ServiceIds |-> NoEnd] ELSE listener
    /\ stack' = Rest
    /\ UNCHANGED <<pipe, failed, objects, services, serving, lost, ghosts>>

-----------------------------------------------------------------------------
Init ==
    /\ bidi = [e \in Parties |-> Unborn]
    /\ asker = [r \in Requests |-> NoAsker]
    /\ answerer = [r \in Requests |-> NoAnswerer]
    /\ abortable = [r \in Requests |-> "none"]
    /\ pipe = [e \in Parties |-> NoPipe]
    /\ listener = [id \in ServiceIds |-> NoEnd]
    /\ services = {} /\ serving = FALSE /\ lost = {}
    /\ stack = <<>> /\ failed = "no"
    /\ asked = [r \in Requests |-> <<>>]
    /\ answers = [r \in Requests |-> <<>>]
    /\ outcome = [r \in Requests |-> <<>>]

\* What runs without the event loop: the rest of a callback.
Callback ==
    \/ \E r \in Requests :
          \/ AskerSendReady(r) \/ ClearRequest(r) \/ AskerReceiveData(r)
          \/ AskerReceiveShutdown(r) \/ AskerShutdownReady(r) \/ AskerFails(r)
          \/ AnswererSendReady(r) \/ SetReady(r) \/ AnswererReceiveData(r)
          \/ AnswererReceiveShutdown(r) \/ AnswererDone(r)
          \/ ContactCallback(r)
    \/ \E e \in Parties :
          \/ OnReceive(e) \/ Read(e) \/ Reset(e) \/ ResetOut(e) \/ Destroyed(e)
          \/ PullOn(e) \/ Accept(e) \/ Arrive(e) \/ EndArrives(e) \/ ResetArrives(e)
          \/ LostOut(e) \/ LostIn(e)
    \/ \E side \in Sides : Forget(side)

Packets ==
    \E e \in Parties : \/ Pull(e) \/ Deliver(e) \/ AckArrives(e)
                       \/ WriterResetArrives(e) \/ ReaderResetArrives(e)

User ==
    \/ \E r \in Requests :
          \/ \E text \in Texts(r) : AskHost(r, text) \/ (r \notin Blocking /\ AskAddress(r, text))
          \/ Delete(r)
    \/ Serve \/ StopServing

Next ==
    \/ Callback
    \/ Packets
    \/ User
    \/ \E r \in Requests, event \in {"reached", "notReached"} : ContactEnds(r, event)
    \/ \E side \in Sides : Lose(side)

Spec == Init /\ [][Next]_vars

\* The event loop goes on with a callback it began, and with every stream that
\* has something to send; a contact ends, and when one side of a channel is
\* gone the other side finds out.
Fairness ==
    /\ WF_vars(Callback)
    /\ \A e \in Parties :
          /\ WF_vars(Pull(e)) /\ WF_vars(Deliver(e)) /\ WF_vars(AckArrives(e))
          /\ WF_vars(WriterResetArrives(e)) /\ WF_vars(ReaderResetArrives(e))
    /\ \A r \in Requests : WF_vars(\E event \in {"reached", "notReached"} : ContactEnds(r, event))
    /\ \A side \in Sides : WF_vars(lost # {} /\ Lose(side))
FairSpec == Spec /\ Fairness

-----------------------------------------------------------------------------
(***************************************************************************)
(* Properties                                                               *)
(***************************************************************************)
\* bidiconn.cpp:50, 104-105, 115-123 - no assertion of BiDiConn fails, no stream
\* is written or read twice at a time, no service is given up twice, and no
\* contact calls a handler that was deleted.
NothingFails == failed = "no"

\* No method runs on an object that was deleted, or on the part of one that its
\* destructor has left already; and between callbacks nothing that will call
\* back later knows an object that is gone: no stream, no listener, no contact.
Knows(e) ==
    \/ \E p \in Parties :
          \E hs \in {pipe[p].out.writer, pipe[p].out.shutdowner, pipe[p].in.reader} :
              hs = <<e>>
    \/ \E id \in ServiceIds : listener[id] = e
    \/ \E r \in Requests : e = Client(r) /\ abortable[r] = "waiting"
NoDangling ==
    /\ stack # <<>> /\ Upcall(Head(stack).event) \in Methods =>
          Usable(Head(stack).to, Head(stack).event)
    /\ Idle => \A e \in Parties : Knows(e) => bidi[e].life = "alive"

\* singlecycleconn.h:18-19 - the handler hears of one response or of one
\* failure, also when the connection is lost, or deleted in a callback.
OneOutcome == \A r \in Requests : Len(outcome[r]) <= 1

\* singlecycleconn.h:56 - the server's handler is asked once for each request,
\* and only with the whole of it; the response the client's handler hears is the
\* one the server gave to this request, whole.
ExchangeIntact ==
    \A r \in Requests :
        /\ Len(answers[r]) <= 1
        /\ \A n \in DOMAIN answers[r] : answers[r][n].request = asked[r]
        /\ \A n \in DOMAIN outcome[r] :
              outcome[r][n].told = "response" =>
                  \E m \in DOMAIN answers[r] : answers[r][m].response = outcome[r][n].data

\* Every request has an outcome in the end, unless it is deleted before.
Answered ==
    \A r \in Requests :
        bidi[Client(r)].life = "alive" ~> outcome[r] # <<>> \/ bidi[Client(r)].life = "dead"

\* singlecycleconn.cpp:159, 177, 204, 216, 223 - nobody keeps a Conn but itself,
\* so each deletes itself in the end.
ConnsFreed == \A r \in Requests : bidi[Server(r)].life = "alive" ~> bidi[Server(r)].life = "dead"
=============================================================================
