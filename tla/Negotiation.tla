---------------------------- MODULE Negotiation ----------------------------
(***************************************************************************)
(* How two end points agree on keys (cusp/channel/negotiation.fun), with the *)
(* table of channels around it (cusp/end-point/channel-dispatch.fun) and what *)
(* it asks of the host object of the other end (host-table.fun,              *)
(* stream/host-dispatch.fun).  Each end has one address, and at most one     *)
(* channel to the other.                                                   *)
(*                                                                         *)
(* A packet that was sent may arrive at any time later, any number of times, *)
(* or never, so sent only grows.  Time is abstract: a timer that runs may    *)
(* expire at any time, and one that is set again runs on.                   *)
(***************************************************************************)
EXTENDS Naturals, FiniteSets, FiniteSetsExt

CONSTANTS
    Peers,          \* the two ends
    Offers,         \* the options they may have, [Peers -> Bits]
    MaxCount,       \* the death counter ends here (8 in the code)
    MaxHalf,        \* bound: halves each end makes
    MaxTsn,         \* bound: data packets in a session
    MaxEvents       \* bound: what programs do, and events

\* Suites are numbered by their cost.
Bits == [publickey : SUBSET Nat, symmetric : SUBSET Nat,
         noEncrypt : BOOLEAN, resume : BOOLEAN]

ASSUME NegotiationAssumption ==
    /\ \E p, q \in Peers : p # q /\ Peers = {p, q}
    /\ {MaxCount, MaxHalf, MaxTsn, MaxEvents} \subseteq Nat
    /\ Offers \subseteq [Peers -> Bits]
    /\ \A offer \in Offers, p \in Peers :
          /\ offer[p].publickey # {} /\ offer[p].symmetric # {}
          /\ ~offer[p].resume

\* The states in which the death counter runs.
Attempts == {"CLOSED", "SENT", "RECEIVED"}

VARIABLES
    own,        \* the options of each end
    channel,    \* each end's channel to the other
    host,       \* each end's host object for the other
    waiting,    \* does a contact wait for the channel?
    sent,       \* the packets sent
    halves,     \* how many halves each end made
    events      \* how much happened outside the protocol

vars == <<own, channel, host, waiting, sent, halves, events>>

Other(p) == CHOOSE q \in Peers : q # p

NoHalf == <<>>
NoFull == <<>>
NoTail == <<>>
NoBits == <<>>

\* A channel starts CLOSED, with the death counter running.  tail is what a
\* NOSTATE holds, the packet it is about: the one to send in CLOSED and SENT,
\* the one to expect in RECEIVED and ESTABLISHED.
NoChannel == [state |-> "none", agreed |-> NoBits, half |-> NoHalf, full |-> NoFull,
              tail |-> NoTail, tsn |-> 0, noEncrypt |-> FALSE,
              rts |-> FALSE, timeout |-> FALSE, counter |-> 0]
NewChannel == [NoChannel EXCEPT !.state = "CLOSED", !.rts = TRUE, !.timeout = TRUE]

\* epoch is the session whose start cleared the state of the streams.
NoHost == [known |-> FALSE, live |-> FALSE, epoch |-> NoFull]

\* What sr and so on name in the code.
Cheapest(suites) == Min(suites)
IntersectionInClear(s, r, known) ==
    [publickey |-> s.publickey \cap r.publickey, symmetric |-> s.symmetric \cap r.symmetric,
     noEncrypt |-> s.noEncrypt \/ r.noEncrypt, resume |-> known]
Intersection(s, r, known) ==
    [publickey |-> s.publickey \cap r.publickey, symmetric |-> s.symmetric \cap r.symmetric,
     noEncrypt |-> s.noEncrypt /\ r.noEncrypt, resume |-> known]

NewHalf(p, suite) == <<p, halves[p] + 1, suite>>

\* Both ends compute the same keys exactly from the same two halves.
Full(half, remote, suite) == [halves |-> {half, remote}, symmetric |-> suite]

\* The MAC of a packet is right if its sender had the same keys.
AnyMAC(m, full) == TRUE
GoodMAC(m, full) == m.full = full

-----------------------------------------------------------------------------
(***************************************************************************)
(* States                                                                   *)
(***************************************************************************)
\* The counter starts again where it stands.
ProgressUntimed(c) == [c EXCEPT !.rts = TRUE]
MakeProgress(c) == [c EXCEPT !.rts = TRUE, !.timeout = TRUE]

\* What a change of state keeps.
Kept(c) == [NoChannel EXCEPT !.counter = c.counter, !.timeout = c.timeout, !.rts = c.rts]

GoFAIL(c) == MakeProgress([Kept(c) EXCEPT !.state = "CLOSED"])
GoNOSTATE(c, m) == MakeProgress([Kept(c) EXCEPT !.state = "CLOSED", !.tail = m])
GoOOBNOSTATE(c, m) == MakeProgress([c EXCEPT !.tail = m])
GoSENT(c, bits, half) ==
    MakeProgress([Kept(c) EXCEPT !.state = "SENT", !.agreed = bits, !.half = half])
GoRECEIVED(c, bits, half, full) ==
    MakeProgress([Kept(c) EXCEPT !.state = "RECEIVED", !.agreed = bits,
                                 !.half = half, !.full = full])
GoESTABLISHED(c, full, noEncrypt) ==
    [Kept(c) EXCEPT !.state = "ESTABLISHED", !.full = full, !.noEncrypt = noEncrypt,
                    !.rts = TRUE, !.timeout = FALSE]

\* The host object of the key, new or not; without a resume its streams are
\* wiped, those that were never acknowledged stay.
Attached(h) == IF h.known THEN h ELSE [NoHost EXCEPT !.known = TRUE]
WipedIfNew(h, full, resume) ==
    IF resume \/ h.known THEN {Attached(h)}
    ELSE {[Attached(h) EXCEPT !.epoch = full]}
Wiped(h, full, resume) ==
    IF resume THEN {Attached(h)}
    ELSE {[Attached(h) EXCEPT !.epoch = full, !.live = live] :
              live \in {FALSE, h.live}}

ConfirmWELCOME(agreed, remote) ==
    /\ remote.publickey # {} /\ remote.publickey \subseteq agreed.publickey
    /\ remote.symmetric # {} /\ remote.symmetric \subseteq agreed.symmetric
    /\ Cheapest(remote.publickey) = Cheapest(agreed.publickey)
    /\ remote.noEncrypt => agreed.noEncrypt
    /\ remote.resume => agreed.resume

-----------------------------------------------------------------------------
(***************************************************************************)
(* The table of channels                                                    *)
(***************************************************************************)
Become(p, c) == channel' = [channel EXCEPT ![p] = c]
Send(m) == sent' = sent \cup {m}
Quiet == UNCHANGED sent

\* The channel is gone, and who waits for it is told so.
KillSilently(p) == Become(p, NoChannel) /\ UNCHANGED waiting
KillRecord(p) ==
    /\ Become(p, NoChannel)
    /\ waiting' = [waiting EXCEPT ![p] = FALSE]

\* A half for suite, the one there is or a new one.
WithHalf(p, half, suite, Then(_)) ==
    IF half # NoHalf THEN Then(half) /\ UNCHANGED halves
    ELSE /\ halves[p] < MaxHalf
         /\ halves' = [halves EXCEPT ![p] = @ + 1]
         /\ Then(NewHalf(p, suite))

Sends(p, c, bits, half) ==
    WithHalf(p, half, Cheapest(bits.publickey), LAMBDA h : Become(p, GoSENT(c, bits, h)))

\* The channel a packet is for, made if need be.
ChannelFor(p) == IF channel[p].state = "none" THEN NewChannel ELSE channel[p]
Gets(p, m, type) == m \in sent /\ m.from = Other(p) /\ m.type = type

-----------------------------------------------------------------------------
(***************************************************************************)
(* Packets that arrive.  Those without an action change nothing.             *)
(***************************************************************************)
RecvHELLO(p, m) ==
    LET c      == ChannelFor(p)
        agreed == IF c.state = "CLOSED" THEN own[p] ELSE c.agreed
        s      == Cheapest(agreed.publickey)
        r      == Cheapest(m.bits.publickey)
        half   == IF c.state = "SENT" /\ s \in m.bits.publickey THEN c.half ELSE NoHalf
        usable == r \in agreed.publickey
        known  == usable /\ host[p].known
        isect  == Intersection(agreed, m.bits, known)
        failed == isect.publickey = {} \/ isect.symmetric = {}
    IN  /\ Gets(p, m, "HELLO") /\ c.state \in {"CLOSED", "SENT"}
        /\ CASE failed ->
                    Become(p, GoFAIL(c)) /\ UNCHANGED halves
             [] ~failed /\ (~usable \/ (known /\ ~m.bits.resume)) ->
                    Sends(p, c, isect, half)
             [] OTHER ->
                    WithHalf(p, half, r, LAMBDA h :
                        Become(p, GoRECEIVED(c, isect, h,
                            Full(h, m.half, Cheapest(isect.symmetric)))))
        /\ Quiet
        /\ UNCHANGED <<own, host, waiting, events>>

\* The channel works: the host object is attached, and who waits gets it.
Establish(p, c, full, noEncrypt, resume) ==
    /\ Become(p, GoESTABLISHED(c, full, noEncrypt))
    /\ \E h \in Wiped(host[p], full, resume) : host' = [host EXCEPT ![p] = h]
    /\ waiting' = [waiting EXCEPT ![p] = FALSE]

\* A WELCOME that is no good is answered, and the attempt goes on.
RecvWELCOME(p, m) ==
    LET c    == ChannelFor(p)
        full == CASE c.state = "SENT" -> Full(c.half, m.half, Cheapest(m.bits.symmetric))
                  [] c.state = "RECEIVED" -> c.full
                  [] OTHER -> NoFull
        good == /\ c.state \in {"SENT", "RECEIVED"}
                /\ ConfirmWELCOME(c.agreed, m.bits)
                /\ GoodMAC(m, full)
    IN  /\ Gets(p, m, "WELCOME")
        /\ \/ good /\ Establish(p, c, full, m.bits.noEncrypt, m.bits.resume)
           \/ /\ ~good
              /\ \/ c.state = "CLOSED" /\ Become(p, GoNOSTATE(c, m))
                 \/ c.state = "SENT" /\ Become(p, GoOOBNOSTATE(c, m))
                 \/ c.state = "ESTABLISHED" /\ Become(p, [c EXCEPT !.rts = TRUE])
              /\ UNCHANGED <<host, waiting>>
        /\ Quiet
        /\ UNCHANGED <<own, halves, events>>

\* Data with the session's MAC.  The streams take it, and some begin or end; a
\* peer that has none left, as this end, is told that the channel is closed.
Finishes(h, m) == m.finish /\ ~h.live
ProcessDATA(p, c, h, m) ==
    \E live \in {FALSE, h.live, h.live \/ ~m.finish} :
        LET after == [h EXCEPT !.live = live]
        IN /\ host' = [host EXCEPT ![p] = after]
           /\ Become(p, IF Finishes(after, m) THEN GoNOSTATE(c, m) ELSE c)

RecvDATA(p, m) ==
    LET c == ChannelFor(p) IN
    /\ Gets(p, m, "DATA")
    /\ \/ /\ c.state = "CLOSED" /\ Become(p, GoNOSTATE(c, m))
          /\ UNCHANGED <<host, waiting>>
       \/ /\ c.state = "SENT" /\ Become(p, GoOOBNOSTATE(c, m))
          /\ UNCHANGED <<host, waiting>>
       \/ /\ c.state = "RECEIVED" /\ GoodMAC(m, c.full)
          /\ \E h \in Wiped(host[p], c.full, c.agreed.resume) :
                ProcessDATA(p, GoESTABLISHED(c, c.full, c.agreed.noEncrypt), h, m)
          /\ waiting' = [waiting EXCEPT ![p] = FALSE]
       \/ /\ c.state = "ESTABLISHED" /\ GoodMAC(m, c.full)
          /\ ProcessDATA(p, c, host[p], m)
          /\ UNCHANGED waiting
    /\ Quiet
    /\ UNCHANGED <<own, halves, events>>

\* The other end lost the state that the packet in m.tail is about.
RecvNOSTATE(p, m) ==
    LET c == ChannelFor(p) IN
    /\ Gets(p, m, "NOSTATE")
    /\ \/ c.state = "CLOSED" /\ KillRecord(p) /\ UNCHANGED halves
       \/ /\ c.state = "RECEIVED" /\ m.tail = c.tail
          /\ Sends(p, c, own[p], NoHalf)
          /\ UNCHANGED waiting
       \/ /\ c.state = "ESTABLISHED" /\ m.tail = c.tail /\ ~host[p].live
          /\ KillRecord(p)
          /\ UNCHANGED halves
       \/ /\ c.state = "ESTABLISHED" /\ m.tail = c.tail /\ host[p].live
          /\ Sends(p, [c EXCEPT !.counter = 0], own[p], NoHalf)
          /\ UNCHANGED waiting
    /\ Quiet
    /\ UNCHANGED <<own, host, events>>

RecvFAIL(p, m) ==
    /\ Gets(p, m, "FAIL")
    /\ ChannelFor(p).state \in {"CLOSED", "SENT"}
    /\ KillRecord(p)
    /\ Quiet
    /\ UNCHANGED <<own, host, halves, events>>

\* A HELLO on an established channel is answered with data.
RecvLateHELLO(p, m) ==
    /\ Gets(p, m, "HELLO") /\ channel[p].state = "ESTABLISHED"
    /\ Become(p, [channel[p] EXCEPT !.rts = TRUE])
    /\ Quiet
    /\ UNCHANGED <<own, host, waiting, halves, events>>

-----------------------------------------------------------------------------
(***************************************************************************)
(* Packets that are sent                                                    *)
(***************************************************************************)
Message(p, type) == [from |-> p, type |-> type]
Keyed(p, type, c) == [from |-> p, type |-> type, bits |-> c.agreed, half |-> c.half]

\* A closed channel says why, and dies.
PullCLOSED(p) ==
    LET c == channel[p] IN
    /\ c.state = "CLOSED" /\ c.rts
    /\ Send(IF c.tail = NoTail THEN Message(p, "FAIL")
            ELSE [from |-> p, type |-> "NOSTATE", tail |-> c.tail])
    /\ KillRecord(p)
    /\ UNCHANGED <<own, host, halves, events>>

PullSENT(p) ==
    LET c == channel[p] IN
    /\ c.state = "SENT" /\ c.rts
    /\ Send(IF c.tail = NoTail THEN Keyed(p, "HELLO", c)
            ELSE [from |-> p, type |-> "NOSTATE", tail |-> c.tail])
    /\ Become(p, [c EXCEPT !.rts = FALSE, !.tail = NoTail])
    /\ UNCHANGED <<own, host, waiting, halves, events>>

Welcome(p, c) ==
    [from |-> p, type |-> "WELCOME", bits |-> c.agreed, half |-> c.half, full |-> c.full]
PullRECEIVED(p) ==
    LET c == channel[p] IN
    /\ c.state = "RECEIVED" /\ c.rts
    /\ Send(Welcome(p, c))
    /\ Become(p, [c EXCEPT !.rts = FALSE, !.tail = Welcome(p, c)])
    /\ UNCHANGED <<own, host, waiting, halves, events>>

\* The layers above may have more to send, data or an ack, now or later.
PullESTABLISHED(p) ==
    LET c == channel[p]
        m == [from |-> p, type |-> "DATA", full |-> c.full, tsn |-> c.tsn + 1,
              finish |-> ~host[p].live]
    IN /\ c.state = "ESTABLISHED" /\ c.rts /\ c.tsn < MaxTsn
       /\ Send(m)
       /\ Become(p, [c EXCEPT !.rts = c.tsn + 1 < MaxTsn, !.tail = m, !.tsn = @ + 1])
       /\ UNCHANGED <<own, host, waiting, halves, events>>

\* The least that it takes, in milliseconds, to count so far: the delay before a
\* count is twice the one before it, and a jitter more.
LeastDelay(count) == 500 * 2^count
LeastAge(counter) == LeastDelay(counter) - LeastDelay(0)

\* The death counter.
Timeout(p) ==
    LET c == channel[p] IN
    /\ c.timeout
    /\ IF c.counter = MaxCount THEN KillRecord(p)
       ELSE /\ Become(p, [c EXCEPT !.counter = @ + 1, !.rts = TRUE])
            /\ UNCHANGED waiting
    /\ Quiet
    /\ UNCHANGED <<own, host, halves, events>>

-----------------------------------------------------------------------------
(***************************************************************************)
(* What the program does, and what happens to it                            *)
(***************************************************************************)
Happens == events < MaxEvents /\ events' = events + 1 /\ Quiet

\* connect does nothing while an attempt is made.
Connects(p) ==
    LET c == ChannelFor(p) IN
    IF c.state = "CLOSED" THEN Sends(p, c, own[p], NoHalf) ELSE UNCHANGED <<channel, halves>>

Contact(p) ==
    /\ Happens
    /\ ~waiting[p] /\ channel[p].state # "ESTABLISHED"
    /\ Connects(p)
    /\ waiting' = [waiting EXCEPT ![p] = TRUE]
    /\ UNCHANGED <<own, host>>

\* The first stream of a known host reconnects, unless there is a channel.
Open(p) ==
    /\ Happens
    /\ host[p].known /\ ~host[p].live
    /\ host' = [host EXCEPT ![p].live = TRUE]
    /\ IF channel[p].state = "none" THEN Connects(p) ELSE UNCHANGED <<channel, halves>>
    /\ UNCHANGED <<own, waiting>>

\* The last stream ends.
Close(p) ==
    /\ Happens
    /\ host[p].live
    /\ host' = [host EXCEPT ![p].live = FALSE]
    /\ UNCHANGED <<own, channel, waiting, halves>>

\* A channel without streams is given up after a while.
Disconnect(p) ==
    /\ Happens
    /\ channel[p].state = "ESTABLISHED" /\ ~host[p].live
    /\ KillRecord(p)
    /\ UNCHANGED <<own, host, halves>>

\* Nothing refers to the host object any more.  A HELLO that finds it known
\* pokes it, which keeps it for 240 seconds; an attempt may take 255.5 to 511,
\* so the poke is over at some time, in an attempt that offered to resume too.
Forget(p) ==
    /\ Happens
    /\ host[p].known /\ ~host[p].live /\ channel[p].state # "ESTABLISHED"
    /\ host' = [host EXCEPT ![p] = NoHost]
    /\ UNCHANGED <<own, channel, waiting, halves>>

\* The process ends and starts again, with the same private key.
Crash(p) ==
    /\ Happens
    /\ KillRecord(p)
    /\ host' = [host EXCEPT ![p] = NoHost]
    /\ UNCHANGED <<own, halves>>

-----------------------------------------------------------------------------
Init ==
    /\ own \in Offers
    /\ channel = [p \in Peers |-> NoChannel]
    /\ host = [p \in Peers |-> NoHost]
    /\ waiting = [p \in Peers |-> FALSE]
    /\ sent = {}
    /\ halves = [p \in Peers |-> 0]
    /\ events = 0

Recv(p, m) ==
    \/ RecvHELLO(p, m) \/ RecvLateHELLO(p, m) \/ RecvWELCOME(p, m)
    \/ RecvDATA(p, m) \/ RecvNOSTATE(p, m) \/ RecvFAIL(p, m)

Pull(p) == PullCLOSED(p) \/ PullSENT(p) \/ PullRECEIVED(p) \/ PullESTABLISHED(p)

Next ==
    \E p \in Peers :
        \/ \E m \in sent : Recv(p, m)
        \/ Pull(p) \/ Timeout(p)
        \/ Contact(p) \/ Open(p) \/ Close(p) \/ Disconnect(p)
        \/ Forget(p) \/ Crash(p)

Spec == Init /\ [][Next]_vars

\* makeProgress sets the timer again for every HELLO that an attempt gets, and
\* for a NOSTATE, and for data and a WELCOME that it does not understand; nobody
\* checks who sent them.  These are the arrivals after which an attempt goes on.
Postpones(p) == \E m \in sent : Recv(p, m) /\ channel'[p].state \in Attempts

\* A timer that runs goes off, or is set again.
TimerTurns(p) == channel[p].timeout /\ (Timeout(p) \/ Postpones(p))

\* The one channel of an end that is ready is pulled, whatever else arrives.
\* (So a timer that is set again for ever is so in steps that change something:
\* each pull takes the readiness that the next arrival gives back.)
FairSpec == Spec /\ \A p \in Peers : WF_vars(Pull(p)) /\ WF_vars(TimerTurns(p))

-----------------------------------------------------------------------------
(***************************************************************************)
(* Properties                                                               *)
(***************************************************************************)
Established == {p \in Peers : channel[p].state = "ESTABLISHED"}

\* negotiation.fun:357-358 - "The ultimate bad news would be if both sides got
\* into AM_ESTABLISHED with different keys."  Packets of earlier attempts come
\* late, both ends may start, and either may crash.
KeysAgree ==
    Established = Peers =>
        \A p, q \in Peers : /\ channel[p].full = channel[q].full
                            /\ channel[p].noEncrypt = channel[q].noEncrypt

\* Ends that share a session agree where their streams start from: both wiped
\* them for the same session, the last time they did.  An end may have no such
\* time, if its host object was collected while the attempt offered to resume
\* and the session gave it a new one; ResumesAgree is about that.
StreamsAgree ==
    Established = Peers =>
        \A p, q \in Peers : host[p].epoch = host[q].epoch \/ NoFull \in {host[p].epoch, host[q].epoch}

\* host-dispatch.fun:722 - "Keep the Host alive for up to 240 seconds during a
\* reconnect."  So that a session which resumes finds, at both ends, the streams
\* that the other end goes on with.
ResumesAgree ==
    Established = Peers => \A p, q \in Peers : host[p].epoch = host[q].epoch

\* The session uses only what both ends offered, also when their cheapest
\* suites differ: the keys are of one suite, and data go in the clear only if
\* both allow it.
OptionsAllowed ==
    \A p \in Peers : channel[p].state \in {"RECEIVED", "ESTABLISHED"} =>
        LET c == channel[p] IN
        /\ \A half \in c.full.halves, q \in Peers : half[3] \in own[q].publickey
        /\ Cardinality({half[3] : half \in c.full.halves}) = 1
        /\ \A q \in Peers : c.full.symmetric \in own[q].symmetric
        /\ c.noEncrypt => \A q \in Peers : own[q].noEncrypt

\* Every attempt ends, in a channel that works or in none, whatever is lost,
\* reordered or repeated, once no packet sets its timer again.  Packets that
\* come again and again may postpone the end for ever.
AttemptEnds ==
    \A p \in Peers :
        <>[][~Postpones(p)]_vars =>
            (channel[p].state \in Attempts ~> channel[p].state \in {"none", "ESTABLISHED"})

\* negotiation.fun:85 - "You have 15.5-31 seconds to comply!"  So the counter of
\* an attempt that still lasts has not counted for more.
Complies == \A p \in Peers : channel[p].timeout => LeastAge(channel[p].counter) <= 31000

\* Whoever waits for a contact waits for an attempt, so it hears of the end of
\* it: no callback is left behind when a channel works, dies, or starts over.
\* And an attempt's death counter runs, also after packets that move it from one
\* state to the next; goESTABLISHED takes the time that is left of it.
WaitsForAttempt ==
    \A p \in Peers : /\ waiting[p] => channel[p].state \in Attempts
                     /\ channel[p].timeout <=> channel[p].state \in Attempts
=============================================================================
