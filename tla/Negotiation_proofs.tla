------------------------- MODULE Negotiation_proofs -------------------------
(***************************************************************************)
(* Proofs about Negotiation, for every options of the ends and every bound.  *)
(***************************************************************************)
EXTENDS Negotiation, FiniteSetTheorems, WellFoundedInduction, TLAPS

\* A set of natural numbers has a least element.
LEMMA LeastSuite ==
    ASSUME NEW S, S \subseteq Nat, S # {}
    PROVE  \E x \in S : \A y \in S : x <= y
<1> DEFINE R == OpToRel(<, Nat)
<1>1. IsWellFoundedOn(R, Nat)
  BY NatLessThanWellFounded
<1>2. \A x, y \in Nat : y < x => <<y, x>> \in R
  BY DEF OpToRel
<1> HIDE DEF R
<1>3. PICK x \in S : \A y \in S : ~ (<<y, x>> \in R)
  BY <1>1, WFMin
<1>4. \A y \in S : ~ (y < x)
  BY <1>2, <1>3
<1>5. \A y \in S : x <= y
  BY <1>4
<1> QED BY <1>5

LEMMA OtherPeer ==
    ASSUME NEW p \in Peers
    PROVE  /\ Other(p) \in Peers /\ Other(p) # p
           /\ Other(Other(p)) = p
           /\ \A q \in Peers : q = p \/ q = Other(p)
<1>1. PICK a, b : a # b /\ Peers = {a, b}
  BY NegotiationAssumption
<1>2. \E q \in Peers : q # p
  BY <1>1
<1>3. Other(p) \in Peers /\ Other(p) # p
  BY <1>2 DEF Other
<1>4. \E q \in Peers : q # Other(p)
  BY <1>1
<1>5. Other(Other(p)) \in Peers /\ Other(Other(p)) # Other(p)
  BY <1>4 DEF Other
<1> QED BY <1>1, <1>3, <1>5

\* The cheapest of the suites is one of them, and no other is cheaper.
LEMMA CheapestIsLeast ==
    ASSUME NEW S, S \subseteq Nat, S # {}
    PROVE  Cheapest(S) \in S /\ \A x \in S : Cheapest(S) <= x
BY LeastSuite DEF Cheapest, Min

(***************************************************************************)
(* Types.  A channel is the record of its fields; what a tail holds is a     *)
(* packet, which may be about a packet, and so on, so it has no type here.   *)
(***************************************************************************)
States == {"none", "ESTABLISHED"} \cup Attempts

Fields == {"state", "agreed", "half", "full", "tail", "tsn", "noEncrypt",
           "rts", "timeout", "counter"}

IsChannel(c) ==
    /\ DOMAIN c = Fields
    /\ c.state \in States
    /\ c.timeout \in BOOLEAN

IsHost(h) ==
    /\ DOMAIN h = {"known", "live", "epoch"}
    /\ h.known \in BOOLEAN /\ h.live \in BOOLEAN

TypeInv ==
    /\ own \in Offers
    /\ channel = [p \in Peers |-> channel[p]] /\ \A p \in Peers : IsChannel(channel[p])
    /\ host = [p \in Peers |-> host[p]] /\ \A p \in Peers : IsHost(host[p])
    /\ waiting \in [Peers -> BOOLEAN]
    /\ halves \in [Peers -> Nat]

\* d has these fields; the others are of no matter here.
Is(d, state, agreed, half, full, noEncrypt, timeout) ==
    /\ DOMAIN d = Fields
    /\ d.state = state /\ d.agreed = agreed /\ d.half = half /\ d.full = full
    /\ d.noEncrypt = noEncrypt /\ d.timeout = timeout

\* The fields of a channel after each change of state.
LEMMA Shapes ==
    ASSUME NEW c, DOMAIN c = Fields, NEW m, NEW bits, NEW half, NEW full, NEW noEncrypt
    PROVE  /\ Is(NoChannel, "none", NoBits, NoHalf, NoFull, FALSE, FALSE)
           /\ Is(NewChannel, "CLOSED", NoBits, NoHalf, NoFull, FALSE, TRUE)
           /\ Is(GoFAIL(c), "CLOSED", NoBits, NoHalf, NoFull, FALSE, TRUE)
           /\ Is(GoNOSTATE(c, m), "CLOSED", NoBits, NoHalf, NoFull, FALSE, TRUE)
           /\ Is(GoOOBNOSTATE(c, m), c.state, c.agreed, c.half, c.full, c.noEncrypt, TRUE)
           /\ Is(GoSENT(c, bits, half), "SENT", bits, half, NoFull, FALSE, TRUE)
           /\ Is(GoRECEIVED(c, bits, half, full), "RECEIVED", bits, half, full, FALSE, TRUE)
           /\ Is(GoESTABLISHED(c, full, noEncrypt),
                 "ESTABLISHED", NoBits, NoHalf, full, noEncrypt, FALSE)
<1> USE DEF Fields, Is
<1>1. Is(NoChannel, "none", NoBits, NoHalf, NoFull, FALSE, FALSE)
  BY DEF NoChannel
<1>2. Is(NewChannel, "CLOSED", NoBits, NoHalf, NoFull, FALSE, TRUE)
  BY <1>1 DEF NewChannel
<1>3. Is(Kept(c), "none", NoBits, NoHalf, NoFull, FALSE, c.timeout)
  BY <1>1 DEF Kept
<1>4. Is(GoFAIL(c), "CLOSED", NoBits, NoHalf, NoFull, FALSE, TRUE)
  BY <1>3 DEF GoFAIL, MakeProgress
<1>5. Is(GoNOSTATE(c, m), "CLOSED", NoBits, NoHalf, NoFull, FALSE, TRUE)
  BY <1>3 DEF GoNOSTATE, MakeProgress
<1>6. Is(GoOOBNOSTATE(c, m), c.state, c.agreed, c.half, c.full, c.noEncrypt, TRUE)
  BY DEF GoOOBNOSTATE, MakeProgress
<1>7. Is(GoSENT(c, bits, half), "SENT", bits, half, NoFull, FALSE, TRUE)
  BY <1>3 DEF GoSENT, MakeProgress
<1>8. Is(GoRECEIVED(c, bits, half, full), "RECEIVED", bits, half, full, FALSE, TRUE)
  BY <1>3 DEF GoRECEIVED, MakeProgress
<1>9. Is(GoESTABLISHED(c, full, noEncrypt),
         "ESTABLISHED", NoBits, NoHalf, full, noEncrypt, FALSE)
  BY <1>3 DEF GoESTABLISHED
<1> QED BY <1>1, <1>2, <1>4, <1>5, <1>6, <1>7, <1>8, <1>9

-----------------------------------------------------------------------------
(***************************************************************************)
(* Whoever waits, waits for an attempt.                                      *)
(***************************************************************************)
WaitInv == TypeInv /\ WaitsForAttempt

\* What a channel to one other end may become: a record with a timer that runs
\* just in an attempt.
Timed(c) == IsChannel(c) /\ (c.timeout <=> c.state \in Attempts)

\* An end that moves its channel keeps the invariant if the new channel is timed
\* and who still waits, waits for an attempt.
LEMMA MoveWaits ==
    ASSUME WaitInv, NEW p \in Peers, NEW d, Timed(d),
           channel' = [channel EXCEPT ![p] = d],
           NEW h, IsHost(h), host' = [host EXCEPT ![p] = h],
           NEW w \in BOOLEAN, waiting' = [waiting EXCEPT ![p] = w],
           w => d.state \in Attempts,
           UNCHANGED own, halves' \in [Peers -> Nat]
    PROVE  WaitInv'
<1>1. \A q \in Peers : /\ channel'[q] = IF q = p THEN d ELSE channel[q]
                       /\ host'[q] = IF q = p THEN h ELSE host[q]
                       /\ waiting'[q] = IF q = p THEN w ELSE waiting[q]
  BY DEF WaitInv, TypeInv
<1>2. TypeInv'
  BY <1>1 DEF WaitInv, TypeInv, Timed
<1>3. WaitsForAttempt'
  BY <1>1 DEF WaitInv, WaitsForAttempt, Timed
<1> QED BY <1>2, <1>3 DEF WaitInv

LEMMA InitWaits == Init => WaitInv
<1>1. IsChannel(NoChannel) /\ NoChannel.state = "none" /\ ~NoChannel.timeout
  BY DEF IsChannel, Fields, NoChannel, States
<1>2. IsHost(NoHost)
  BY DEF IsHost, NoHost
<1>3. ASSUME Init PROVE TypeInv
  BY <1>1, <1>2, <1>3 DEF Init, TypeInv
<1>4. ASSUME Init PROVE WaitsForAttempt
  BY <1>1, <1>4 DEF Init, WaitsForAttempt, Attempts
<1> QED BY <1>3, <1>4 DEF WaitInv

\* The channel a packet is for is timed.
LEMMA ChannelForTimed ==
    ASSUME WaitInv, NEW p \in Peers
    PROVE  /\ Timed(channel[p]) /\ Timed(ChannelFor(p)) /\ Timed(NoChannel)
           /\ ChannelFor(p).state # "none"
           /\ waiting[p] \in BOOLEAN /\ (waiting[p] => channel[p].state \in Attempts)
           /\ IsHost(host[p]) /\ host = [host EXCEPT ![p] = host[p]]
           /\ channel = [channel EXCEPT ![p] = channel[p]]
           /\ waiting = [waiting EXCEPT ![p] = waiting[p]]
<1>1. /\ IsChannel(channel[p]) /\ Timed(channel[p])
      /\ waiting[p] \in BOOLEAN /\ (waiting[p] => channel[p].state \in Attempts)
      /\ IsHost(host[p]) /\ host = [host EXCEPT ![p] = host[p]]
      /\ channel = [channel EXCEPT ![p] = channel[p]]
      /\ waiting = [waiting EXCEPT ![p] = waiting[p]]
  BY DEF WaitInv, TypeInv, WaitsForAttempt, Timed
<1>2. /\ IsChannel(NewChannel) /\ NewChannel.timeout /\ NewChannel.state = "CLOSED"
      /\ IsChannel(NoChannel) /\ ~NoChannel.timeout /\ NoChannel.state = "none"
  BY Shapes, <1>1 DEF Is, IsChannel, States, Attempts
<1> QED BY <1>1, <1>2 DEF Timed, ChannelFor, Attempts

\* So is a channel after each change of state.
LEMMA ShapesTimed ==
    ASSUME NEW c, IsChannel(c), NEW m, NEW bits, NEW half, NEW full,
           NEW noEncrypt
    PROVE  /\ Timed(GoFAIL(c)) /\ GoFAIL(c).state \in Attempts
           /\ Timed(GoNOSTATE(c, m)) /\ GoNOSTATE(c, m).state \in Attempts
           /\ Timed(GoSENT(c, bits, half)) /\ GoSENT(c, bits, half).state \in Attempts
           /\ Timed(GoRECEIVED(c, bits, half, full))
           /\ GoRECEIVED(c, bits, half, full).state \in Attempts
           /\ Timed(GoESTABLISHED(c, full, noEncrypt))
           /\ c.state = "SENT" => /\ Timed(GoOOBNOSTATE(c, m))
                                  /\ GoOOBNOSTATE(c, m).state \in Attempts
<1>1. ASSUME NEW d, NEW state \in States, NEW a, NEW h, NEW f, NEW e,
             NEW t \in BOOLEAN, Is(d, state, a, h, f, e, t), t <=> state \in Attempts
      PROVE  Timed(d) /\ d.state = state
  BY <1>1 DEF Is, Timed, IsChannel
<1>2. /\ DOMAIN c = Fields
      /\ {"CLOSED", "SENT", "RECEIVED"} \subseteq States \cap Attempts
      /\ "ESTABLISHED" \in States \ Attempts
  BY DEF IsChannel, States, Attempts
<1>3. Timed(GoFAIL(c)) /\ GoFAIL(c).state \in Attempts
  BY <1>1, <1>2, Shapes
<1>4. Timed(GoNOSTATE(c, m)) /\ GoNOSTATE(c, m).state \in Attempts
  BY <1>1, <1>2, Shapes
<1>5. Timed(GoSENT(c, bits, half)) /\ GoSENT(c, bits, half).state \in Attempts
  BY <1>1, <1>2, Shapes
<1>6. /\ Timed(GoRECEIVED(c, bits, half, full))
      /\ GoRECEIVED(c, bits, half, full).state \in Attempts
  BY <1>1, <1>2, Shapes
<1>7. Timed(GoESTABLISHED(c, full, noEncrypt))
  BY <1>1, <1>2, Shapes
<1>8. c.state = "SENT" => /\ Timed(GoOOBNOSTATE(c, m))
                          /\ GoOOBNOSTATE(c, m).state \in Attempts
  <2>1. Is(GoOOBNOSTATE(c, m), c.state, c.agreed, c.half, c.full, c.noEncrypt, TRUE)
    BY <1>2, Shapes
  <2> QED BY <2>1, <1>2 DEF Is, Timed, IsChannel
<1> QED BY <1>3, <1>4, <1>5, <1>6, <1>7, <1>8

\* A host object after the streams were wiped, or kept.
LEMMA WipedHost ==
    ASSUME NEW g, IsHost(g), NEW full, NEW resume, NEW h \in Wiped(g, full, resume)
    PROVE  /\ IsHost(h) /\ h.known
           /\ ~resume => h.epoch = full
           /\ resume => h.epoch \in {g.epoch, NoFull}
<1>1. /\ IsHost(Attached(g)) /\ Attached(g).known
      /\ Attached(g).epoch \in {g.epoch, NoFull}
  BY DEF Attached, IsHost, NoHost
<1>2. CASE resume
  BY <1>1, <1>2 DEF Wiped
<1>3. CASE ~resume
  <2>1. PICK live \in {FALSE, g.live} :
           h = [Attached(g) EXCEPT !.epoch = full, !.live = live]
    BY <1>3 DEF Wiped
  <2> QED BY <2>1, <1>1, <1>3 DEF IsHost
<1> QED BY <1>2, <1>3

\* The actions that only move the channel, or kill it, each with the condition
\* under which who waits goes on waiting.
LEMMA BecomeWaits ==
    ASSUME WaitInv, NEW p \in Peers, NEW d, Timed(d), Become(p, d),
           UNCHANGED <<own, host, waiting>>, halves' \in [Peers -> Nat],
           waiting[p] => d.state \in Attempts
    PROVE  WaitInv'
BY MoveWaits, ChannelForTimed DEF Become

LEMMA KillWaits ==
    ASSUME WaitInv, NEW p \in Peers, KillRecord(p), UNCHANGED <<own, halves>>,
           NEW h, IsHost(h), host' = [host EXCEPT ![p] = h]
    PROVE  WaitInv'
<1>1. halves' \in [Peers -> Nat]
  BY DEF WaitInv, TypeInv
<1> QED BY <1>1, MoveWaits, ChannelForTimed DEF KillRecord, Become

\* h is the half there is, or else a new one for suite.
HalfFor(p, half, suite, h) ==
    \/ half # NoHalf /\ h = half /\ halves' = halves
    \/ half = NoHalf /\ h = NewHalf(p, suite) /\ halves' = [halves EXCEPT ![p] = @ + 1]

LEMMA HalfForType ==
    ASSUME WaitInv, NEW p \in Peers, NEW half, NEW suite, NEW h, HalfFor(p, half, suite, h)
    PROVE  halves' \in [Peers -> Nat]
BY DEF HalfFor, WaitInv, TypeInv

LEMMA SendsHalf ==
    ASSUME NEW p, NEW c, NEW bits, NEW half, Sends(p, c, bits, half)
    PROVE  \E h : /\ Become(p, GoSENT(c, bits, h))
                  /\ HalfFor(p, half, Cheapest(bits.publickey), h)
BY DEF Sends, WithHalf, HalfFor

\* The three answers to a HELLO.  The definitions are those of RecvHELLO.
Agreed(p) == IF ChannelFor(p).state = "CLOSED" THEN own[p] ELSE ChannelFor(p).agreed
HalfAgainst(p, m) ==
    IF ChannelFor(p).state = "SENT" /\ Cheapest(Agreed(p).publickey) \in m.bits.publickey
    THEN ChannelFor(p).half ELSE NoHalf
Usable(p, m) == Cheapest(m.bits.publickey) \in Agreed(p).publickey
Common(p, m) == Intersection(Agreed(p), m.bits, Usable(p, m) /\ host[p].known)

LEMMA HelloAnswers ==
    ASSUME NEW p, NEW m, RecvHELLO(p, m)
    PROVE  /\ ChannelFor(p).state \in {"CLOSED", "SENT"}
           /\ m \in sent /\ m.from = Other(p) /\ m.type = "HELLO"
           /\ UNCHANGED <<own, host, waiting, events, sent>>
           /\ \/ Become(p, GoFAIL(ChannelFor(p))) /\ UNCHANGED halves
              \/ /\ Common(p, m).publickey # {} /\ Common(p, m).symmetric # {}
                 /\ Sends(p, ChannelFor(p), Common(p, m), HalfAgainst(p, m))
              \/ /\ Common(p, m).publickey # {} /\ Common(p, m).symmetric # {}
                 /\ Usable(p, m)
                 /\ \E h : /\ Become(p, GoRECEIVED(ChannelFor(p), Common(p, m), h,
                                Full(h, m.half, Cheapest(Common(p, m).symmetric))))
                           /\ HalfFor(p, HalfAgainst(p, m), Cheapest(m.bits.publickey), h)
BY DEF RecvHELLO, WithHalf, HalfFor, Agreed, HalfAgainst, Usable, Common, Gets, Quiet

\* Packets that arrive.
LEMMA RecvWaits ==
    ASSUME WaitInv, NEW p \in Peers, NEW m \in sent, Recv(p, m)
    PROVE  WaitInv'
<1> DEFINE c == ChannelFor(p)
<1> USE ChannelForTimed
<1>1. /\ Timed(c) /\ IsChannel(c) /\ IsHost(host[p]) /\ waiting[p] \in BOOLEAN
      /\ host = [host EXCEPT ![p] = host[p]]
      /\ waiting = [waiting EXCEPT ![p] = waiting[p]]
      /\ halves \in [Peers -> Nat]
  BY DEF Timed, WaitInv, TypeInv
<1>2. c.state \notin {"none"} /\ (c.state \notin Attempts => ~waiting[p])
  <2>1. channel[p].state = "none" => ~waiting[p]
    BY DEF Attempts
  <2> QED BY <2>1 DEF ChannelFor
<1> HIDE DEF c
<1>3. ASSUME NEW bits, NEW half, Sends(p, c, bits, half), UNCHANGED <<own, host, waiting>>
      PROVE  WaitInv'
  <2>1. PICK h : Become(p, GoSENT(c, bits, h)) /\ HalfFor(p, half, Cheapest(bits.publickey), h)
    BY <1>3, SendsHalf
  <2> QED BY <2>1, <1>1, <1>3, HalfForType, ShapesTimed, BecomeWaits
<1>4. CASE RecvHELLO(p, m)
  <2>1. CASE Become(p, GoFAIL(c)) /\ UNCHANGED halves
    BY <2>1, <1>4, <1>1, HelloAnswers, ShapesTimed, BecomeWaits
  <2>2. CASE Sends(p, c, Common(p, m), HalfAgainst(p, m))
    BY <2>2, <1>3, <1>4, HelloAnswers
  <2>3. CASE \E h : /\ Become(p, GoRECEIVED(c, Common(p, m), h,
                          Full(h, m.half, Cheapest(Common(p, m).symmetric))))
                    /\ HalfFor(p, HalfAgainst(p, m), Cheapest(m.bits.publickey), h)
    BY <2>3, <1>4, <1>1, HelloAnswers, HalfForType, ShapesTimed, BecomeWaits
  <2> QED BY <2>1, <2>2, <2>3, <1>4, HelloAnswers DEF c
<1>5. ASSUME NEW d, d.state = c.state, d.timeout = c.timeout, DOMAIN d = DOMAIN c,
             Become(p, d), UNCHANGED <<own, host, waiting, halves>>
      PROVE  WaitInv'
  <2>1. Timed(d) /\ (waiting[p] => d.state \in Attempts)
    BY <1>1, <1>2, <1>5 DEF Timed, IsChannel
  <2> QED BY <2>1, <1>1, <1>5, BecomeWaits
<1>6. CASE RecvLateHELLO(p, m)
  <2>1. c = channel[p]
    BY <1>6 DEF RecvLateHELLO, c, ChannelFor
  <2> QED BY <2>1, <1>6, <1>5, <1>1 DEF RecvLateHELLO, IsChannel, Fields
<1>7. ASSUME NEW full, NEW noEncrypt, NEW resume, Establish(p, c, full, noEncrypt, resume),
             UNCHANGED <<own, halves>>
      PROVE  WaitInv'
  <2>1. PICK h : IsHost(h) /\ host' = [host EXCEPT ![p] = h]
    BY <1>7, <1>1, WipedHost DEF Establish
  <2>2. Timed(GoESTABLISHED(c, full, noEncrypt))
    BY <1>1, ShapesTimed
  <2> QED BY <2>1, <2>2, <1>1, <1>7, MoveWaits DEF Establish, Become
<1>8. CASE RecvWELCOME(p, m)
  <2>1. CASE \E full : Establish(p, c, full, m.bits.noEncrypt, m.bits.resume)
    BY <2>1, <1>7, <1>8 DEF RecvWELCOME
  <2>2. CASE Become(p, GoNOSTATE(c, m)) /\ UNCHANGED <<host, waiting>>
    BY <2>2, <1>8, <1>1, ShapesTimed, BecomeWaits DEF RecvWELCOME
  <2>3. CASE c.state = "SENT" /\ Become(p, GoOOBNOSTATE(c, m)) /\ UNCHANGED <<host, waiting>>
    BY <2>3, <1>8, <1>1, ShapesTimed, BecomeWaits DEF RecvWELCOME
  <2>4. CASE Become(p, [c EXCEPT !.rts = TRUE]) /\ UNCHANGED <<host, waiting>>
    BY <2>4, <1>8, <1>1, <1>5 DEF RecvWELCOME, IsChannel, Fields
  <2> QED BY <2>1, <2>2, <2>3, <2>4, <1>8 DEF RecvWELCOME, c
<1>9. ASSUME NEW d, IsChannel(d), Timed(d), NEW h, IsHost(h), ProcessDATA(p, d, h, m),
             NEW w \in BOOLEAN, waiting' = [waiting EXCEPT ![p] = w],
             w => d.state \in Attempts, UNCHANGED <<own, halves>>
      PROVE  WaitInv'
  <2>1. PICK live \in {FALSE, h.live, h.live \/ ~m.finish} :
           LET after == [h EXCEPT !.live = live]
           IN /\ host' = [host EXCEPT ![p] = after]
              /\ Become(p, IF Finishes(after, m) THEN GoNOSTATE(d, m) ELSE d)
    BY <1>9 DEF ProcessDATA
  <2>2. IsHost([h EXCEPT !.live = live])
    BY <1>9 DEF IsHost
  <2>3. PICK e : e \in {d, GoNOSTATE(d, m)} /\ Become(p, e)
    BY <2>1
  <2>4. Timed(e) /\ (w => e.state \in Attempts)
    BY <2>3, <1>9, ShapesTimed
  <2> QED BY <2>1, <2>2, <2>3, <2>4, <1>1, <1>9, MoveWaits DEF Become
<1>10. CASE RecvDATA(p, m)
  <2>1. CASE Become(p, GoNOSTATE(c, m)) /\ UNCHANGED <<host, waiting>>
    BY <2>1, <1>10, <1>1, ShapesTimed, BecomeWaits DEF RecvDATA
  <2>2. CASE c.state = "SENT" /\ Become(p, GoOOBNOSTATE(c, m)) /\ UNCHANGED <<host, waiting>>
    BY <2>2, <1>10, <1>1, ShapesTimed, BecomeWaits DEF RecvDATA
  <2>3. CASE \E h \in Wiped(host[p], c.full, c.agreed.resume) :
                /\ ProcessDATA(p, GoESTABLISHED(c, c.full, c.agreed.noEncrypt), h, m)
                /\ waiting' = [waiting EXCEPT ![p] = FALSE]
    <3> DEFINE d == GoESTABLISHED(c, c.full, c.agreed.noEncrypt)
    <3>1. Timed(d) /\ IsChannel(d)
      BY <1>1, ShapesTimed DEF Timed
    <3>2. PICK h \in Wiped(host[p], c.full, c.agreed.resume) : ProcessDATA(p, d, h, m)
      BY <2>3
    <3>3. IsHost(h)
      BY <1>1, WipedHost
    <3> HIDE DEF d
    <3> QED BY <3>1, <3>2, <3>3, <2>3, <1>9, <1>10 DEF RecvDATA
  <2>4. CASE c.state = "ESTABLISHED" /\ ProcessDATA(p, c, host[p], m) /\ UNCHANGED waiting
    <3>1. waiting' = [waiting EXCEPT ![p] = waiting[p]] /\ ~waiting[p]
      BY <2>4, <1>1, <1>2 DEF Attempts
    <3> QED BY <3>1, <2>4, <1>1, <1>9, <1>10 DEF RecvDATA
  <2> QED BY <2>1, <2>2, <2>3, <2>4, <1>10 DEF RecvDATA, c
<1>11. CASE RecvNOSTATE(p, m)
  <2>1. CASE KillRecord(p) /\ UNCHANGED halves
    BY <2>1, <1>11, <1>1, KillWaits DEF RecvNOSTATE
  <2>2. CASE Sends(p, c, own[p], NoHalf) /\ UNCHANGED waiting
    BY <2>2, <1>11, <1>3 DEF RecvNOSTATE
  <2>3. CASE Sends(p, [c EXCEPT !.counter = 0], own[p], NoHalf) /\ UNCHANGED waiting
    <3> DEFINE d == [c EXCEPT !.counter = 0]
    <3>1. IsChannel(d)
      BY <1>1 DEF IsChannel, Fields
    <3> HIDE DEF d
    <3>2. PICK h : Become(p, GoSENT(d, own[p], h)) /\ HalfFor(p, NoHalf, Cheapest(own[p].publickey), h)
      BY <2>3, SendsHalf DEF d
    <3> QED BY <3>1, <3>2, <2>3, <1>1, <1>11, HalfForType, ShapesTimed, BecomeWaits
            DEF RecvNOSTATE
  <2> QED BY <2>1, <2>2, <2>3, <1>11 DEF RecvNOSTATE, c
<1>12. CASE RecvFAIL(p, m)
  BY <1>12, <1>1, KillWaits DEF RecvFAIL
<1> QED BY <1>4, <1>6, <1>8, <1>10, <1>11, <1>12 DEF Recv

\* Packets that are sent, and the death counter.
LEMMA PullWaits ==
    ASSUME WaitInv, NEW p \in Peers, Pull(p) \/ Timeout(p)
    PROVE  WaitInv'
<1> DEFINE c == channel[p]
<1>1. /\ Timed(c) /\ IsChannel(c) /\ IsHost(host[p])
      /\ waiting[p] => c.state \in Attempts
      /\ host = [host EXCEPT ![p] = host[p]]
      /\ halves \in [Peers -> Nat]
  BY ChannelForTimed DEF Timed, WaitInv, TypeInv
<1> HIDE DEF c
<1>2. ASSUME NEW d, d.state = c.state, d.timeout = c.timeout, DOMAIN d = DOMAIN c,
             Become(p, d), UNCHANGED <<own, host, waiting, halves>>
      PROVE  WaitInv'
  <2>1. Timed(d) /\ (waiting[p] => d.state \in Attempts)
    BY <1>1, <1>2 DEF Timed, IsChannel
  <2> QED BY <2>1, <1>1, <1>2, BecomeWaits
<1>3. CASE PullCLOSED(p)
  BY <1>3, <1>1, KillWaits DEF PullCLOSED
<1>4. CASE PullSENT(p)
  <2>1. Become(p, [c EXCEPT !.rts = FALSE, !.tail = NoTail])
    BY <1>4 DEF PullSENT, c
  <2> QED BY <2>1, <1>1, <1>2, <1>4 DEF PullSENT, IsChannel, Fields
<1>5. CASE PullRECEIVED(p)
  <2>1. Become(p, [c EXCEPT !.rts = FALSE, !.tail = Welcome(p, c)])
    BY <1>5 DEF PullRECEIVED, c
  <2> QED BY <2>1, <1>1, <1>2, <1>5 DEF PullRECEIVED, IsChannel, Fields
<1>6. CASE PullESTABLISHED(p)
  <2>1. PICK r, m, n : Become(p, [c EXCEPT !.rts = r, !.tail = m, !.tsn = n])
    BY <1>6 DEF PullESTABLISHED, c
  <2> QED BY <2>1, <1>1, <1>2, <1>6 DEF PullESTABLISHED, IsChannel, Fields
<1>7. CASE Timeout(p)
  <2>1. CASE KillRecord(p)
    BY <2>1, <1>7, <1>1, KillWaits DEF Timeout
  <2>2. CASE Become(p, [c EXCEPT !.counter = @ + 1, !.rts = TRUE]) /\ UNCHANGED waiting
    BY <2>2, <1>1, <1>2, <1>7 DEF Timeout, IsChannel, Fields
  <2> QED BY <2>1, <2>2, <1>7 DEF Timeout, c
<1> QED BY <1>3, <1>4, <1>5, <1>6, <1>7 DEF Pull

\* What programs do, and what happens to them.
Outside(p) == Contact(p) \/ Open(p) \/ Close(p) \/ Disconnect(p) \/ Forget(p) \/ Crash(p)

LEMMA OutsideWaits ==
    ASSUME WaitInv, NEW p \in Peers, Outside(p)
    PROVE  WaitInv'
<1> DEFINE c == ChannelFor(p)
<1>1. /\ Timed(c) /\ IsChannel(c) /\ IsHost(host[p]) /\ Timed(channel[p])
      /\ waiting[p] \in BOOLEAN /\ (waiting[p] => channel[p].state \in Attempts)
      /\ host = [host EXCEPT ![p] = host[p]]
      /\ waiting = [waiting EXCEPT ![p] = waiting[p]]
      /\ channel = [channel EXCEPT ![p] = channel[p]]
      /\ halves \in [Peers -> Nat]
      /\ IsHost(NoHost)
  BY ChannelForTimed DEF Timed, WaitInv, TypeInv, IsHost, NoHost
<1>2. c.state # "none" /\ (channel[p].state # "none" => c = channel[p])
  BY ChannelForTimed DEF ChannelFor
<1>3. \A live \in BOOLEAN : IsHost([host[p] EXCEPT !.live = live])
  BY <1>1 DEF IsHost
<1> HIDE DEF c
<1>4. ASSUME Sends(p, c, own[p], NoHalf), UNCHANGED own,
             NEW h, IsHost(h), host' = [host EXCEPT ![p] = h],
             NEW w \in BOOLEAN, waiting' = [waiting EXCEPT ![p] = w]
      PROVE  WaitInv'
  <2>1. PICK half : /\ Become(p, GoSENT(c, own[p], half))
                    /\ HalfFor(p, NoHalf, Cheapest(own[p].publickey), half)
    BY <1>4, SendsHalf
  <2> QED BY <2>1, <1>1, <1>4, HalfForType, ShapesTimed, MoveWaits DEF Become
<1>5. CASE Contact(p)
  <2>1. CASE Sends(p, c, own[p], NoHalf)
    BY <2>1, <1>1, <1>4, <1>5 DEF Contact
  <2>2. CASE UNCHANGED <<channel, halves>> /\ c.state # "CLOSED"
    <3>1. channel[p].state \in Attempts
      BY <2>2, <1>1, <1>5 DEF Contact, c, ChannelFor, NewChannel, IsChannel, States, Timed
    <3> QED BY <3>1, <2>2, <1>1, <1>5, MoveWaits DEF Contact
  <2> QED BY <2>1, <2>2, <1>5 DEF Contact, Connects, c
<1>6. CASE Open(p)
  <2>1. host' = [host EXCEPT ![p] = [host[p] EXCEPT !.live = TRUE]]
    BY <1>6 DEF Open
  <2>2. CASE Sends(p, c, own[p], NoHalf)
    BY <2>1, <2>2, <1>1, <1>3, <1>4, <1>6 DEF Open
  <2>3. CASE UNCHANGED <<channel, halves>>
    BY <2>1, <2>3, <1>1, <1>3, <1>6, MoveWaits DEF Open
  <2> QED BY <2>2, <2>3, <1>6 DEF Open, Connects, c
<1>7. CASE Close(p)
  <2>1. host' = [host EXCEPT ![p] = [host[p] EXCEPT !.live = FALSE]]
    BY <1>7 DEF Close
  <2> QED BY <2>1, <1>1, <1>3, <1>7, MoveWaits DEF Close
<1>8. CASE Disconnect(p)
  BY <1>8, <1>1, KillWaits DEF Disconnect
<1>9. CASE Forget(p)
  BY <1>9, <1>1, MoveWaits DEF Forget
<1>10. CASE Crash(p)
  BY <1>10, <1>1, KillWaits DEF Crash
<1> QED BY <1>5, <1>6, <1>7, <1>8, <1>9, <1>10 DEF Outside

LEMMA NextWaits == ASSUME WaitInv, [Next]_vars PROVE WaitInv'
<1>1. CASE Next
  BY <1>1, RecvWaits, PullWaits, OutsideWaits DEF Next, Outside
<1>2. CASE UNCHANGED vars
  BY <1>2 DEF vars, WaitInv, TypeInv, WaitsForAttempt
<1> QED BY <1>1, <1>2

\* Whoever waits for a contact waits for an attempt whose death counter runs: no
\* callback is left behind when a channel works, dies or starts over.
THEOREM NobodyWaitsInVain == Spec => []WaitsForAttempt
<1>1. Init => WaitInv
  BY InitWaits
<1>2. WaitInv /\ [Next]_vars => WaitInv'
  BY NextWaits
<1>3. WaitInv => WaitsForAttempt
  BY DEF WaitInv
<1> QED BY <1>1, <1>2, <1>3, PTL DEF Spec

-----------------------------------------------------------------------------
(***************************************************************************)
(* What a step of an end is to the session: the end stays, starts an attempt, *)
(* receives a HELLO, establishes the channel, or tells the other end.        *)
(***************************************************************************)
OnlyBy(p) ==
    /\ \A q \in Peers \ {p} : /\ channel'[q] = channel[q] /\ host'[q] = host[q]
                              /\ halves'[q] = halves[q]
    /\ own' = own

Same(c, d) == /\ d.state = c.state /\ d.agreed = c.agreed /\ d.half = c.half
              /\ d.full = c.full /\ d.noEncrypt = c.noEncrypt
KeepsHost(p) == host'[p].known = host[p].known /\ host'[p].epoch = host[p].epoch
Keyings == {"HELLO", "WELCOME", "DATA"}
TellsNothing == \A m : m.type \in Keyings => (m \in sent' <=> m \in sent)

LosesHost(p) == ~host'[p].known /\ host'[p].epoch = NoFull

Stays(p) ==
    /\ channel'[p].state \in {"none", "CLOSED"} \/ Same(channel[p], channel'[p])
    /\ KeepsHost(p) \/ LosesHost(p)
    /\ halves'[p] = halves[p] /\ TellsNothing

\* A half is kept or made.
Halved(p, half, suite, h) ==
    \/ half # NoHalf /\ h = half /\ halves'[p] = halves[p]
    \/ half = NoHalf /\ h = NewHalf(p, suite) /\ halves'[p] = halves[p] + 1

Hello(p, m) == /\ m \in sent /\ m.from = Other(p) /\ m.type = "HELLO"
               /\ ChannelFor(p).state \in {"CLOSED", "SENT"}
               /\ Common(p, m).publickey # {} /\ Common(p, m).symmetric # {}

Starts(p) ==
    LET d == channel'[p] IN
    /\ d.state = "SENT" /\ KeepsHost(p) /\ TellsNothing
    /\ \/ d.agreed = own[p] /\ Halved(p, NoHalf, Cheapest(own[p].publickey), d.half)
       \/ \E m : /\ Hello(p, m) /\ d.agreed = Common(p, m)
                 /\ Halved(p, HalfAgainst(p, m), Cheapest(Common(p, m).publickey), d.half)

Receives(p) ==
    LET d == channel'[p] IN
    /\ d.state = "RECEIVED" /\ KeepsHost(p) /\ TellsNothing /\ d.noEncrypt = FALSE
    /\ \E m : /\ Hello(p, m) /\ Usable(p, m) /\ d.agreed = Common(p, m)
              /\ Halved(p, HalfAgainst(p, m), Cheapest(m.bits.publickey), d.half)
              /\ d.full = Full(d.half, m.half, Cheapest(Common(p, m).symmetric))

\* m makes the channel work.
Convinces(p, m, full, noEncrypt, resume) ==
    LET c == channel[p] IN
    /\ m \in sent /\ m.from = Other(p) /\ m.full = full
    /\ \/ /\ m.type = "WELCOME" /\ ConfirmWELCOME(c.agreed, m.bits)
          /\ noEncrypt = m.bits.noEncrypt /\ resume = m.bits.resume
          /\ \/ c.state = "SENT" /\ full = Full(c.half, m.half, Cheapest(m.bits.symmetric))
             \/ c.state = "RECEIVED" /\ full = c.full
       \/ /\ m.type = "DATA" /\ c.state = "RECEIVED" /\ full = c.full
          /\ noEncrypt = c.agreed.noEncrypt /\ resume = c.agreed.resume

Establishes(p) ==
    LET d == channel'[p]
        h == host'[p]
    IN  /\ halves'[p] = halves[p] /\ TellsNothing
        /\ \E m, full, noEncrypt, resume :
              /\ Convinces(p, m, full, noEncrypt, resume)
              /\ h.known /\ (~resume => h.epoch = full)
              /\ resume => h.epoch \in {host[p].epoch, NoFull}
              /\ \/ d.state = "ESTABLISHED" /\ d.full = full /\ d.noEncrypt = noEncrypt
                 \/ d.state = "CLOSED"

Tells(p) ==
    LET c == channel[p] IN
    /\ Same(c, channel'[p]) /\ KeepsHost(p) /\ halves'[p] = halves[p]
    /\ \E m : /\ sent' = sent \cup {m} /\ m.from = p
              /\ \/ /\ c.state = "SENT" /\ m.type = "HELLO"
                    /\ m.bits = c.agreed /\ m.half = c.half
                 \/ /\ c.state = "RECEIVED" /\ m.type = "WELCOME"
                    /\ m.bits = c.agreed /\ m.full = c.full
                 \/ c.state = "ESTABLISHED" /\ m.type = "DATA" /\ m.full = c.full

Kind(p) == OnlyBy(p) /\ (Stays(p) \/ Starts(p) \/ Receives(p) \/ Establishes(p) \/ Tells(p))

\* The pieces that steps are made of, one end at a time.
LEMMA BecomeOnly ==
    ASSUME TypeInv, NEW p \in Peers, NEW d, Become(p, d)
    PROVE  channel'[p] = d /\ \A q \in Peers \ {p} : channel'[q] = channel[q]
BY DEF Become, TypeInv

LEMMA KillOnly ==
    ASSUME TypeInv, NEW p \in Peers, KillRecord(p)
    PROVE  channel'[p].state = "none" /\ \A q \in Peers \ {p} : channel'[q] = channel[q]
BY BecomeOnly DEF KillRecord, NoChannel

LEMMA HalfOnly ==
    ASSUME TypeInv, NEW p \in Peers, NEW half, NEW suite, NEW h, HalfFor(p, half, suite, h)
    PROVE  /\ Halved(p, half, suite, h)
           /\ \A q \in Peers \ {p} : halves'[q] = halves[q]
BY DEF TypeInv, HalfFor, Halved

LEMMA SendsOnly ==
    ASSUME TypeInv, NEW p \in Peers, NEW c, DOMAIN c = Fields, NEW bits, NEW half,
           Sends(p, c, bits, half)
    PROVE  /\ channel'[p].state = "SENT" /\ channel'[p].agreed = bits
           /\ Halved(p, half, Cheapest(bits.publickey), channel'[p].half)
           /\ \A q \in Peers \ {p} : channel'[q] = channel[q] /\ halves'[q] = halves[q]
<1>1. PICK h : /\ Become(p, GoSENT(c, bits, h))
               /\ HalfFor(p, half, Cheapest(bits.publickey), h)
  BY SendsHalf
<1>2. /\ GoSENT(c, bits, h).state = "SENT" /\ GoSENT(c, bits, h).agreed = bits
      /\ GoSENT(c, bits, h).half = h
  <2>1. Is(GoSENT(c, bits, h), "SENT", bits, h, NoFull, FALSE, TRUE)
    BY Shapes
  <2> QED BY <2>1 DEF Is
<1> QED BY <1>1, <1>2, BecomeOnly, HalfOnly

LEMMA RecvKind ==
    ASSUME TypeInv, NEW p \in Peers, NEW m \in sent, Recv(p, m)
    PROVE  Kind(p)
<1> DEFINE c == ChannelFor(p)
<1>1. /\ DOMAIN c = Fields
      /\ c.state # "none" /\ (c.state # "CLOSED" => c = channel[p])
      /\ IsHost(host[p]) /\ channel[p].state \in States
  BY Shapes DEF TypeInv, IsChannel, ChannelFor, Is
<1>2. TellsNothing /\ own' = own
  BY DEF Recv, RecvHELLO, RecvLateHELLO, RecvWELCOME, RecvDATA, RecvNOSTATE, RecvFAIL,
         Quiet, TellsNothing
<1>3. host' = host => /\ KeepsHost(p)
                      /\ \A q \in Peers \ {p} : host'[q] = host[q]
  BY DEF KeepsHost
<1>4. halves' = halves => /\ halves'[p] = halves[p]
                          /\ \A q \in Peers \ {p} : halves'[q] = halves[q]
  OBVIOUS
<1> HIDE DEF c
<1>5. ASSUME NEW d, Become(p, d), UNCHANGED <<host, halves>>,
             \/ d.state \in {"none", "CLOSED"}
             \/ c.state # "CLOSED" /\ Same(c, d)
      PROVE  Kind(p)
  BY <1>1, <1>2, <1>3, <1>4, <1>5, BecomeOnly DEF Kind, OnlyBy, Stays
<1>6. ASSUME NEW d, DOMAIN d = Fields, Sends(p, d, own[p], NoHalf), UNCHANGED host
      PROVE  Kind(p)
  BY <1>2, <1>3, <1>6, SendsOnly DEF Kind, OnlyBy, Starts
<1>7. CASE RecvHELLO(p, m)
  <2>1. /\ c.state \in {"CLOSED", "SENT"} /\ UNCHANGED host
        /\ m \in sent /\ m.from = Other(p) /\ m.type = "HELLO"
    BY <1>7, HelloAnswers DEF c
  <2>2. CASE Become(p, GoFAIL(c)) /\ UNCHANGED halves
    <3>1. Is(GoFAIL(c), "CLOSED", NoBits, NoHalf, NoFull, FALSE, TRUE)
      BY <1>1, Shapes
    <3> QED BY <3>1, <2>1, <2>2, <1>5 DEF Is
  <2>3. CASE /\ Common(p, m).publickey # {} /\ Common(p, m).symmetric # {}
             /\ Sends(p, c, Common(p, m), HalfAgainst(p, m))
    <3>1. Hello(p, m)
      BY <2>1, <2>3 DEF Hello, c
    <3> QED BY <3>1, <2>1, <2>3, <1>1, <1>2, <1>3, SendsOnly DEF Kind, OnlyBy, Starts
  <2>4. CASE /\ Common(p, m).publickey # {} /\ Common(p, m).symmetric # {}
             /\ Usable(p, m)
             /\ \E h : /\ Become(p, GoRECEIVED(c, Common(p, m), h,
                            Full(h, m.half, Cheapest(Common(p, m).symmetric))))
                       /\ HalfFor(p, HalfAgainst(p, m), Cheapest(m.bits.publickey), h)
    <3>1. Hello(p, m)
      BY <2>1, <2>4 DEF Hello, c
    <3>2. PICK h : /\ Become(p, GoRECEIVED(c, Common(p, m), h,
                         Full(h, m.half, Cheapest(Common(p, m).symmetric))))
                   /\ HalfFor(p, HalfAgainst(p, m), Cheapest(m.bits.publickey), h)
      BY <2>4
    <3>3. Is(GoRECEIVED(c, Common(p, m), h, Full(h, m.half, Cheapest(Common(p, m).symmetric))),
             "RECEIVED", Common(p, m), h, Full(h, m.half, Cheapest(Common(p, m).symmetric)),
             FALSE, TRUE)
      BY <1>1, Shapes
    <3>4. Receives(p)
      BY <3>1, <3>2, <3>3, <2>1, <2>4, <1>2, <1>3, BecomeOnly, HalfOnly DEF Receives, Is
    <3> QED BY <3>2, <3>4, <2>1, <1>2, <1>3, BecomeOnly, HalfOnly DEF Kind, OnlyBy
  <2> QED BY <2>2, <2>3, <2>4, <1>7, HelloAnswers DEF c
<1>8. CASE RecvLateHELLO(p, m)
  <2>1. Same(c, [c EXCEPT !.rts = TRUE]) /\ c = channel[p] /\ c.state # "CLOSED"
    BY <1>1, <1>8 DEF RecvLateHELLO, Same, Fields, c, ChannelFor
  <2> QED BY <2>1, <1>5, <1>8 DEF RecvLateHELLO
<1>9. CASE RecvWELCOME(p, m)
  <2> DEFINE full == CASE c.state = "SENT" -> Full(c.half, m.half, Cheapest(m.bits.symmetric))
                       [] c.state = "RECEIVED" -> c.full
                       [] OTHER -> NoFull
  <2>1. CASE /\ c.state \in {"SENT", "RECEIVED"} /\ ConfirmWELCOME(c.agreed, m.bits)
             /\ GoodMAC(m, full)
             /\ Establish(p, c, full, m.bits.noEncrypt, m.bits.resume)
    <3>1. Convinces(p, m, full, m.bits.noEncrypt, m.bits.resume)
      BY <2>1, <1>1, <1>9 DEF Convinces, GoodMAC, RecvWELCOME, Gets
    <3> HIDE DEF full
    <3>2. Is(GoESTABLISHED(c, full, m.bits.noEncrypt),
             "ESTABLISHED", NoBits, NoHalf, full, m.bits.noEncrypt, FALSE)
      BY <1>1, Shapes
    <3>3. PICK h \in Wiped(host[p], full, m.bits.resume) : host' = [host EXCEPT ![p] = h]
      BY <2>1 DEF Establish
    <3>4. /\ host'[p] = h /\ h.known /\ (~m.bits.resume => h.epoch = full)
          /\ m.bits.resume => h.epoch \in {host[p].epoch, NoFull}
          /\ \A q \in Peers \ {p} : host'[q] = host[q]
      BY <3>3, <1>1, WipedHost DEF TypeInv
    <3>5. UNCHANGED halves /\ Become(p, GoESTABLISHED(c, full, m.bits.noEncrypt))
      BY <2>1, <1>9 DEF RecvWELCOME, Establish
    <3> QED BY <3>1, <3>2, <3>4, <3>5, <1>2, <1>4, BecomeOnly
            DEF Kind, OnlyBy, Establishes, Is
  <2>2. CASE Become(p, GoNOSTATE(c, m)) /\ UNCHANGED host
    <3>1. Is(GoNOSTATE(c, m), "CLOSED", NoBits, NoHalf, NoFull, FALSE, TRUE)
      BY <1>1, Shapes
    <3> QED BY <3>1, <2>2, <1>9, <1>5 DEF RecvWELCOME, Is
  <2>3. CASE c.state = "SENT" /\ Become(p, GoOOBNOSTATE(c, m)) /\ UNCHANGED host
    <3>1. Is(GoOOBNOSTATE(c, m), c.state, c.agreed, c.half, c.full, c.noEncrypt, TRUE)
      BY <1>1, Shapes
    <3> QED BY <3>1, <2>3, <1>9, <1>5 DEF RecvWELCOME, Is, Same
  <2>4. CASE c.state = "ESTABLISHED" /\ Become(p, [c EXCEPT !.rts = TRUE]) /\ UNCHANGED host
    <3>1. Same(c, [c EXCEPT !.rts = TRUE])
      BY <1>1 DEF Same, Fields
    <3> QED BY <3>1, <2>4, <1>9, <1>5 DEF RecvWELCOME
  <2> QED BY <2>1, <2>2, <2>3, <2>4, <1>9 DEF RecvWELCOME, c
<1>10. CASE RecvDATA(p, m)
  <2>1. m \in sent /\ m.from = Other(p) /\ m.type = "DATA" /\ UNCHANGED halves
    BY <1>10 DEF RecvDATA, Gets
  <2>2. CASE Become(p, GoNOSTATE(c, m)) /\ UNCHANGED host
    <3>1. Is(GoNOSTATE(c, m), "CLOSED", NoBits, NoHalf, NoFull, FALSE, TRUE)
      BY <1>1, Shapes
    <3> QED BY <3>1, <2>1, <2>2, <1>5 DEF Is
  <2>3. CASE c.state = "SENT" /\ Become(p, GoOOBNOSTATE(c, m)) /\ UNCHANGED host
    <3>1. Is(GoOOBNOSTATE(c, m), c.state, c.agreed, c.half, c.full, c.noEncrypt, TRUE)
      BY <1>1, Shapes
    <3> QED BY <3>1, <2>1, <2>3, <1>5 DEF Is, Same
  <2>4. ASSUME NEW d, NEW h, IsHost(h), DOMAIN d = Fields, ProcessDATA(p, d, h, m)
        PROVE  /\ channel'[p] = d \/ channel'[p].state = "CLOSED"
               /\ host'[p].known = h.known /\ host'[p].epoch = h.epoch
               /\ \A q \in Peers \ {p} : channel'[q] = channel[q] /\ host'[q] = host[q]
    <3>1. PICK live \in {FALSE, h.live, h.live \/ ~m.finish} :
             LET after == [h EXCEPT !.live = live]
             IN /\ host' = [host EXCEPT ![p] = after]
                /\ Become(p, IF Finishes(after, m) THEN GoNOSTATE(d, m) ELSE d)
      BY <2>4 DEF ProcessDATA
    <3>2. PICK e \in {d, GoNOSTATE(d, m)} : Become(p, e)
      BY <3>1
    <3>3. Is(GoNOSTATE(d, m), "CLOSED", NoBits, NoHalf, NoFull, FALSE, TRUE)
      BY <2>4, Shapes
    <3>4. /\ channel'[p] = d \/ channel'[p].state = "CLOSED"
          /\ \A q \in Peers \ {p} : channel'[q] = channel[q]
      BY <3>2, <3>3, BecomeOnly DEF Is
    <3>5. /\ host'[p] = [h EXCEPT !.live = live]
          /\ \A q \in Peers \ {p} : host'[q] = host[q]
      BY <3>1 DEF TypeInv
    <3> QED BY <3>4, <3>5, <2>4 DEF IsHost
  <2>5. CASE /\ c.state = "RECEIVED" /\ GoodMAC(m, c.full)
             /\ \E h \in Wiped(host[p], c.full, c.agreed.resume) :
                   ProcessDATA(p, GoESTABLISHED(c, c.full, c.agreed.noEncrypt), h, m)
    <3> DEFINE d == GoESTABLISHED(c, c.full, c.agreed.noEncrypt)
    <3>1. PICK h \in Wiped(host[p], c.full, c.agreed.resume) : ProcessDATA(p, d, h, m)
      BY <2>5
    <3>2. /\ IsHost(h) /\ h.known /\ (~c.agreed.resume => h.epoch = c.full)
          /\ c.agreed.resume => h.epoch \in {host[p].epoch, NoFull}
      BY <1>1, WipedHost
    <3>3. Is(d, "ESTABLISHED", NoBits, NoHalf, c.full, c.agreed.noEncrypt, FALSE)
      BY <1>1, Shapes
    <3>4. Convinces(p, m, c.full, c.agreed.noEncrypt, c.agreed.resume)
      BY <2>1, <2>5, <1>1 DEF Convinces, GoodMAC
    <3> HIDE DEF d
    <3>5. /\ channel'[p] = d \/ channel'[p].state = "CLOSED"
          /\ host'[p].known = h.known /\ host'[p].epoch = h.epoch
          /\ \A q \in Peers \ {p} : channel'[q] = channel[q] /\ host'[q] = host[q]
      BY <2>4, <3>1, <3>2, <3>3 DEF Is
    <3>6. Establishes(p)
      BY <3>2, <3>3, <3>4, <3>5, <2>1, <1>2, <1>4 DEF Establishes, Is
    <3> QED BY <3>5, <3>6, <2>1, <1>2, <1>4 DEF Kind, OnlyBy
  <2>6. CASE c.state = "ESTABLISHED" /\ ProcessDATA(p, c, host[p], m)
    <3>1. /\ channel'[p] = c \/ channel'[p].state = "CLOSED"
          /\ host'[p].known = host[p].known /\ host'[p].epoch = host[p].epoch
          /\ \A q \in Peers \ {p} : channel'[q] = channel[q] /\ host'[q] = host[q]
      BY <2>4, <2>6, <1>1
    <3> QED BY <3>1, <2>1, <2>6, <1>1, <1>2, <1>4 DEF Kind, OnlyBy, Stays, KeepsHost, Same
  <2> QED BY <2>2, <2>3, <2>5, <2>6, <1>10 DEF RecvDATA, c
<1>11. CASE RecvNOSTATE(p, m)
  <2>1. UNCHANGED host
    BY <1>11 DEF RecvNOSTATE
  <2>2. CASE KillRecord(p) /\ UNCHANGED halves
    BY <2>1, <2>2, <1>2, <1>3, <1>4, KillOnly DEF Kind, OnlyBy, Stays
  <2>3. CASE Sends(p, c, own[p], NoHalf)
    BY <2>1, <2>3, <1>1, <1>6
  <2>4. CASE Sends(p, [c EXCEPT !.counter = 0], own[p], NoHalf)
    BY <2>1, <2>4, <1>1, <1>6
  <2> QED BY <2>2, <2>3, <2>4, <1>11 DEF RecvNOSTATE, c
<1>12. CASE RecvFAIL(p, m)
  BY <1>12, <1>2, <1>3, <1>4, KillOnly DEF RecvFAIL, Kind, OnlyBy, Stays
<1> QED BY <1>7, <1>8, <1>9, <1>10, <1>11, <1>12 DEF Recv

LEMMA PullKind ==
    ASSUME TypeInv, NEW p \in Peers, Pull(p) \/ Timeout(p)
    PROVE  Kind(p)
<1> DEFINE c == channel[p]
<1>1. DOMAIN c = Fields
  BY DEF TypeInv, IsChannel
<1>2. UNCHANGED <<own, host, halves>>
  BY DEF Pull, PullCLOSED, PullSENT, PullRECEIVED, PullESTABLISHED, Timeout
<1>3. /\ KeepsHost(p) /\ own' = own /\ halves'[p] = halves[p]
      /\ \A q \in Peers \ {p} : host'[q] = host[q] /\ halves'[q] = halves[q]
  BY <1>2 DEF KeepsHost
<1>4. ASSUME KillRecord(p), TellsNothing PROVE Kind(p)
  BY <1>3, <1>4, KillOnly DEF Kind, OnlyBy, Stays
<1>5. ASSUME NEW d, Become(p, d), Same(c, d), TellsNothing PROVE Kind(p)
  BY <1>3, <1>5, BecomeOnly DEF Kind, OnlyBy, Stays
<1>6. ASSUME NEW d, Become(p, d), Same(c, d), NEW m, Send(m), m.from = p,
             \/ c.state = "SENT" /\ m.type = "HELLO" /\ m.bits = c.agreed /\ m.half = c.half
             \/ /\ c.state = "RECEIVED" /\ m.type = "WELCOME"
                /\ m.bits = c.agreed /\ m.full = c.full
             \/ c.state = "ESTABLISHED" /\ m.type = "DATA" /\ m.full = c.full
      PROVE  Kind(p)
  <2>1. Tells(p)
    BY <1>3, <1>6, BecomeOnly DEF Tells, Send
  <2> QED BY <2>1, <1>3, <1>6, BecomeOnly DEF Kind, OnlyBy
<1>7. \A m : Send(m) /\ m.type \notin Keyings => TellsNothing
  BY DEF Send, TellsNothing
<1> HIDE DEF c
<1>8. CASE PullCLOSED(p)
  <2>1. PICK m : Send(m) /\ m \in {Message(p, "FAIL"), [from |-> p, type |-> "NOSTATE", tail |-> c.tail]}
    BY <1>8 DEF PullCLOSED, c
  <2>2. m.type \notin Keyings
    BY <2>1 DEF Message, Keyings
  <2> QED BY <2>1, <2>2, <1>4, <1>7, <1>8 DEF PullCLOSED
<1>9. CASE PullSENT(p)
  <2>1. Become(p, [c EXCEPT !.rts = FALSE, !.tail = NoTail]) /\ c.state = "SENT"
    BY <1>9 DEF PullSENT, c
  <2>2. Same(c, [c EXCEPT !.rts = FALSE, !.tail = NoTail])
    BY <1>1 DEF Same, Fields
  <2>3. CASE Send(Keyed(p, "HELLO", c))
    <3>1. /\ Keyed(p, "HELLO", c).from = p /\ Keyed(p, "HELLO", c).type = "HELLO"
          /\ Keyed(p, "HELLO", c).bits = c.agreed /\ Keyed(p, "HELLO", c).half = c.half
      BY DEF Keyed
    <3> QED BY <3>1, <2>1, <2>2, <2>3, <1>6
  <2>4. CASE Send([from |-> p, type |-> "NOSTATE", tail |-> c.tail])
    <3>1. [from |-> p, type |-> "NOSTATE", tail |-> c.tail].type \notin Keyings
      BY DEF Keyings
    <3> QED BY <3>1, <2>1, <2>2, <2>4, <1>5, <1>7
  <2> QED BY <2>3, <2>4, <1>9 DEF PullSENT, c
<1>10. CASE PullRECEIVED(p)
  <2>1. /\ Become(p, [c EXCEPT !.rts = FALSE, !.tail = Welcome(p, c)])
        /\ c.state = "RECEIVED" /\ Send(Welcome(p, c))
    BY <1>10 DEF PullRECEIVED, c
  <2>2. Same(c, [c EXCEPT !.rts = FALSE, !.tail = Welcome(p, c)])
    BY <1>1 DEF Same, Fields
  <2>3. /\ Welcome(p, c).from = p /\ Welcome(p, c).type = "WELCOME"
        /\ Welcome(p, c).bits = c.agreed /\ Welcome(p, c).full = c.full
    BY DEF Welcome
  <2> QED BY <2>1, <2>2, <2>3, <1>6
<1>11. CASE PullESTABLISHED(p)
  <2>1. PICK m, r, n : /\ m = [from |-> p, type |-> "DATA", full |-> c.full, tsn |-> c.tsn + 1,
                               finish |-> ~host[p].live]
                       /\ Become(p, [c EXCEPT !.rts = r, !.tail = m, !.tsn = n])
                       /\ c.state = "ESTABLISHED" /\ Send(m)
    BY <1>11 DEF PullESTABLISHED, c
  <2>2. Same(c, [c EXCEPT !.rts = r, !.tail = m, !.tsn = n])
    BY <1>1 DEF Same, Fields
  <2>3. m.from = p /\ m.type = "DATA" /\ m.full = c.full
    BY <2>1
  <2> QED BY <2>1, <2>2, <2>3, <1>6
<1>12. CASE Timeout(p)
  <2>1. TellsNothing
    BY <1>12 DEF Timeout, Quiet, TellsNothing
  <2>2. Same(c, [c EXCEPT !.counter = @ + 1, !.rts = TRUE])
    BY <1>1 DEF Same, Fields
  <2> QED BY <2>1, <2>2, <1>4, <1>5, <1>12 DEF Timeout, c
<1> QED BY <1>8, <1>9, <1>10, <1>11, <1>12 DEF Pull

LEMMA OutsideKind ==
    ASSUME TypeInv, NEW p \in Peers, Outside(p)
    PROVE  Kind(p)
<1> DEFINE c == ChannelFor(p)
<1>1. /\ DOMAIN c = Fields /\ IsHost(host[p]) /\ IsHost(NoHost) /\ ~NoHost.known
  BY Shapes DEF TypeInv, IsChannel, ChannelFor, Is, IsHost, NoHost
<1>2. /\ TellsNothing /\ own' = own
      /\ Same(channel[p], channel[p])
  BY DEF Outside, Contact, Open, Close, Disconnect, Forget, Crash, Happens, Quiet,
         TellsNothing, Same
<1>3. host' = host => /\ KeepsHost(p)
                      /\ \A q \in Peers \ {p} : host'[q] = host[q]
  BY DEF KeepsHost
<1>4. ASSUME NEW live, host' = [host EXCEPT ![p] = [host[p] EXCEPT !.live = live]]
      PROVE  /\ KeepsHost(p)
             /\ \A q \in Peers \ {p} : host'[q] = host[q]
  BY <1>1, <1>4 DEF KeepsHost, TypeInv, IsHost
<1> HIDE DEF c
<1>5. ASSUME KeepsHost(p), \A q \in Peers \ {p} : host'[q] = host[q],
             Sends(p, c, own[p], NoHalf) \/ UNCHANGED <<channel, halves>>
      PROVE  Kind(p)
  <2>1. CASE Sends(p, c, own[p], NoHalf)
    BY <2>1, <1>1, <1>2, <1>5, SendsOnly DEF Kind, OnlyBy, Starts
  <2>2. CASE UNCHANGED <<channel, halves>>
    BY <2>2, <1>2, <1>5 DEF Kind, OnlyBy, Stays
  <2> QED BY <2>1, <2>2, <1>5
<1>6. CASE Contact(p)
  BY <1>6, <1>3, <1>5 DEF Contact, Connects, c
<1>7. CASE Open(p)
  <2>1. host' = [host EXCEPT ![p] = [host[p] EXCEPT !.live = TRUE]]
    BY <1>7 DEF Open
  <2> QED BY <2>1, <1>7, <1>4, <1>5 DEF Open, Connects, c
<1>8. CASE Close(p)
  <2>1. host' = [host EXCEPT ![p] = [host[p] EXCEPT !.live = FALSE]]
    BY <1>8 DEF Close
  <2> QED BY <2>1, <1>8, <1>4, <1>5 DEF Close
<1>9. CASE Disconnect(p)
  BY <1>9, <1>2, <1>3, KillOnly DEF Disconnect, Kind, OnlyBy, Stays
<1>10. ASSUME host' = [host EXCEPT ![p] = NoHost]
       PROVE  /\ LosesHost(p)
              /\ \A q \in Peers \ {p} : host'[q] = host[q]
  BY <1>1, <1>10 DEF TypeInv, LosesHost, NoHost
<1>11. CASE Forget(p)
  BY <1>11, <1>10, <1>2 DEF Forget, Kind, OnlyBy, Stays
<1>12. CASE Crash(p)
  BY <1>12, <1>2, <1>10, KillOnly DEF Crash, Kind, OnlyBy, Stays
<1> QED BY <1>6, <1>7, <1>8, <1>9, <1>11, <1>12 DEF Outside

LEMMA NextKind == ASSUME TypeInv, Next PROVE \E p \in Peers : Kind(p)
BY RecvKind, PullKind, OutsideKind DEF Next, Outside

-----------------------------------------------------------------------------
(***************************************************************************)
(* Sessions.  The keys of a session come from one half of each end, of a     *)
(* suite that both offer.                                                    *)
(***************************************************************************)
\* What an end may say it offers, in a packet or a channel.
OfferedBy(b, p) ==
    /\ b.publickey # {} /\ b.publickey \subseteq own[p].publickey
    /\ b.symmetric # {} /\ b.symmetric \subseteq own[p].symmetric
    /\ b.noEncrypt \in BOOLEAN /\ (b.noEncrypt => own[p].noEncrypt)
    /\ b.resume \in BOOLEAN
OfferedByAll(b) == \A q \in Peers : OfferedBy(b, q)

\* A half that p made, for the cheapest suite of b.
HalfOf(h, p, b) == \E n \in 1..halves[p] : h = <<p, n, Cheapest(b.publickey)>>

SessionOf(F, p, i, j) ==
    /\ i \in 1..halves[p] /\ j \in 1..halves[Other(p)]
    /\ \E s, y : /\ F = Full(<<p, i, s>>, <<Other(p), j, s>>, y)
                 /\ \A q \in Peers : s \in own[q].publickey /\ y \in own[q].symmetric
Session(F) == \E p \in Peers, i, j \in Nat : SessionOf(F, p, i, j)

\* The number of p's half in F.
NumberOf(F, p) == (CHOOSE h \in F.halves : h[1] = p)[2]

LEMMA NumberOfFull ==
    ASSUME NEW p \in Peers, NEW i, NEW j, NEW s, NEW r, NEW y, NEW F,
           F = Full(<<p, i, s>>, <<Other(p), j, r>>, y)
    PROVE  NumberOf(F, p) = i /\ NumberOf(F, Other(p)) = j
<1>1. /\ F.halves = {<<p, i, s>>, <<Other(p), j, r>>}
      /\ <<p, i, s>>[1] = p /\ <<p, i, s>>[2] = i
      /\ <<Other(p), j, r>>[1] = Other(p) /\ <<Other(p), j, r>>[2] = j
      /\ Other(p) # p
  BY OtherPeer DEF Full
<1>2. (CHOOSE h \in F.halves : h[1] = p) = <<p, i, s>>
  BY <1>1
<1>3. (CHOOSE h \in F.halves : h[1] = Other(p)) = <<Other(p), j, r>>
  BY <1>1
<1> QED BY <1>1, <1>2, <1>3 DEF NumberOf

\* A session seen from either end.
LEMMA SessionFrom ==
    ASSUME WaitInv, NEW F, Session(F), NEW q \in Peers
    PROVE  SessionOf(F, q, NumberOf(F, q), NumberOf(F, Other(q)))
<1>1. PICK p \in Peers, i \in Nat, j \in Nat : SessionOf(F, p, i, j)
  BY DEF Session
<1>2. PICK s, y : /\ F = Full(<<p, i, s>>, <<Other(p), j, s>>, y)
                  /\ \A r \in Peers : s \in own[r].publickey /\ y \in own[r].symmetric
  BY <1>1 DEF SessionOf
<1>3. NumberOf(F, p) = i /\ NumberOf(F, Other(p)) = j
  BY <1>2, NumberOfFull
<1>4. CASE q = p
  BY <1>1, <1>3, <1>4
<1>5. CASE q = Other(p)
  <2>1. Other(q) = p
    BY <1>5, OtherPeer
  <2>2. F = Full(<<q, j, s>>, <<p, i, s>>, y)
    BY <1>2, <1>5 DEF Full
  <2> QED BY <2>1, <2>2, <1>1, <1>2, <1>3, <1>5 DEF SessionOf
<1> QED BY <1>4, <1>5, OtherPeer

\* What OptionsAllowed asks of the keys.
LEMMA SessionAllowed ==
    ASSUME NEW F, Session(F)
    PROVE  /\ \A h \in F.halves, q \in Peers : h[3] \in own[q].publickey
           /\ Cardinality({h[3] : h \in F.halves}) = 1
           /\ \A q \in Peers : F.symmetric \in own[q].symmetric
<1>1. PICK p \in Peers, i \in Nat, j \in Nat : SessionOf(F, p, i, j)
  BY DEF Session
<1>2. PICK s, y : /\ F = Full(<<p, i, s>>, <<Other(p), j, s>>, y)
                  /\ \A r \in Peers : s \in own[r].publickey /\ y \in own[r].symmetric
  BY <1>1 DEF SessionOf
<1>3. /\ F.halves = {<<p, i, s>>, <<Other(p), j, s>>} /\ F.symmetric = y
      /\ <<p, i, s>>[3] = s /\ <<Other(p), j, s>>[3] = s
  BY <1>2 DEF Full
<1>4. {h[3] : h \in F.halves} = {s}
  BY <1>3
<1>5. Cardinality({h[3] : h \in F.halves}) = 1
  BY <1>4, FS_Singleton, Zenon
<1>6. \A h \in F.halves : h[3] = s
  BY <1>3
<1> QED BY <1>2, <1>3, <1>5, <1>6

\* A session stays one while halves are made.
LEMMA SessionStays ==
    ASSUME NEW F, Session(F), own' = own,
           \A q \in Peers : halves[q] \in Nat /\ halves'[q] \in Nat /\ halves[q] <= halves'[q]
    PROVE  Session(F)'
<1>1. PICK p \in Peers, i \in Nat, j \in Nat : SessionOf(F, p, i, j)
  BY DEF Session
<1>2. i \in 1..halves'[p] /\ j \in 1..halves'[Other(p)]
  BY <1>1, OtherPeer DEF SessionOf
<1>3. SessionOf(F, p, i, j)'
  BY <1>1, <1>2 DEF SessionOf
<1> QED BY <1>3 DEF Session

(***************************************************************************)
(* What is told: the offers in packets and channels are those of their ends,  *)
(* and the keys there are sessions.                                          *)
(***************************************************************************)
\* p told the other end that it has the keys F.
Told(p, F) == \E m \in sent : m.from = p /\ m.type \in {"WELCOME", "DATA"} /\ m.full = F

SoundMessage(m) ==
    /\ m.from \in Peers
    /\ m.type = "HELLO" => OfferedBy(m.bits, m.from) /\ HalfOf(m.half, m.from, m.bits)
    /\ m.type = "WELCOME" => OfferedByAll(m.bits) /\ Session(m.full)
    /\ m.type = "DATA" => Session(m.full)

\* The keys of p are those of its latest half.
Latest(p, F) == Session(F) /\ NumberOf(F, p) = halves[p]

SoundChannel(p) ==
    LET c == channel[p] IN
    /\ c.state = "SENT" => /\ OfferedBy(c.agreed, p)
                           /\ c.half = <<p, halves[p], Cheapest(c.agreed.publickey)>>
                           /\ halves[p] # 0
    /\ c.state = "RECEIVED" =>
          OfferedByAll(c.agreed) /\ Latest(p, c.full) /\ c.noEncrypt = FALSE
    /\ c.state = "ESTABLISHED" =>
          /\ Latest(p, c.full) /\ c.noEncrypt \in BOOLEAN
          /\ c.noEncrypt => \A q \in Peers : own[q].noEncrypt

SoundInv ==
    /\ \A m \in sent : m.type \in Keyings => SoundMessage(m)
    /\ \A p \in Peers : SoundChannel(p)

\* The options of both ends at the start.
LEMMA OwnBits ==
    ASSUME TypeInv, NEW p \in Peers
    PROVE  /\ own[p].publickey \subseteq Nat /\ own[p].symmetric \subseteq Nat
           /\ OfferedBy(own[p], p) /\ ~own[p].resume
<1>1. own \in [Peers -> Bits] /\ own[p] \in Bits
  BY NegotiationAssumption DEF TypeInv
<1>2. own[p].publickey # {} /\ own[p].symmetric # {} /\ ~own[p].resume
  BY NegotiationAssumption DEF TypeInv
<1> QED BY <1>1, <1>2 DEF Bits, OfferedBy

\* What both ends agree on in an answer to a HELLO.
LEMMA CommonOffered ==
    ASSUME TypeInv, SoundInv, NEW p \in Peers, NEW m, Hello(p, m)
    PROVE  LET b == Common(p, m) IN
           /\ OfferedByAll(b)
           /\ b.resume => host[p].known
           /\ Usable(p, m) => /\ b.resume = host[p].known
                              /\ Cheapest(m.bits.publickey) = Cheapest(b.publickey)
           /\ HalfAgainst(p, m) # NoHalf =>
                 /\ channel[p].state = "SENT" /\ HalfAgainst(p, m) = channel[p].half
                 /\ Cheapest(channel[p].agreed.publickey) = Cheapest(b.publickey)
<1> DEFINE a == Agreed(p)
           b == Common(p, m)
           q == Other(p)
<1>1. /\ m \in sent /\ m.from = q /\ m.type = "HELLO" /\ q \in Peers
      /\ ChannelFor(p).state \in {"CLOSED", "SENT"}
      /\ b.publickey # {} /\ b.symmetric # {}
  BY OtherPeer DEF Hello
<1>2. OfferedBy(m.bits, q)
  BY <1>1 DEF SoundInv, SoundMessage, Keyings
<1>3. ChannelFor(p).state = "SENT" => ChannelFor(p) = channel[p]
  BY DEF ChannelFor, NewChannel, NoChannel
<1>4. OfferedBy(a, p)
  <2>1. CASE ChannelFor(p).state = "CLOSED"
    BY <2>1, OwnBits DEF Agreed
  <2>2. CASE ChannelFor(p).state = "SENT"
    BY <2>2, <1>3 DEF Agreed, SoundInv, SoundChannel
  <2> QED BY <2>1, <2>2, <1>1
<1>5. /\ b.publickey = a.publickey \cap m.bits.publickey
      /\ b.symmetric = a.symmetric \cap m.bits.symmetric
      /\ b.noEncrypt = (a.noEncrypt /\ m.bits.noEncrypt)
      /\ b.resume = (Usable(p, m) /\ host[p].known)
  BY DEF Common, Intersection
<1>6. host[p].known \in BOOLEAN
  BY DEF TypeInv, IsHost
<1>7. /\ own[p].publickey \subseteq Nat /\ own[q].publickey \subseteq Nat
  BY <1>1, OwnBits
<1>8. /\ a.publickey \subseteq Nat /\ a.publickey # {}
      /\ m.bits.publickey \subseteq Nat /\ m.bits.publickey # {}
      /\ b.publickey \subseteq Nat /\ b.publickey # {}
  BY <1>1, <1>2, <1>4, <1>5, <1>7 DEF OfferedBy
<1> HIDE DEF a, b, q
<1>9. OfferedByAll(b)
  <2>1. OfferedBy(b, p)
    BY <1>1, <1>4, <1>2, <1>5, <1>6 DEF OfferedBy, Usable
  <2>2. OfferedBy(b, q)
    BY <1>1, <1>4, <1>2, <1>5, <1>6 DEF OfferedBy, Usable
  <2> QED BY <2>1, <2>2, OtherPeer DEF OfferedByAll, q
<1>10. b.resume => host[p].known
  BY <1>5, <1>6 DEF Usable
<1>11. /\ Cheapest(a.publickey) \in a.publickey
       /\ \A x \in a.publickey : Cheapest(a.publickey) <= x
       /\ Cheapest(m.bits.publickey) \in m.bits.publickey
       /\ \A x \in m.bits.publickey : Cheapest(m.bits.publickey) <= x
       /\ Cheapest(b.publickey) \in b.publickey
       /\ \A x \in b.publickey : Cheapest(b.publickey) <= x
  BY <1>8, CheapestIsLeast
<1>12. ASSUME NEW x \in b.publickey, NEW S, b.publickey \subseteq S, S \subseteq Nat,
              \A y \in S : x <= y
       PROVE  Cheapest(b.publickey) = x
  <2>1. Cheapest(b.publickey) \in b.publickey /\ Cheapest(b.publickey) <= x
    BY <1>11, <1>12
  <2>2. x <= Cheapest(b.publickey)
    BY <2>1, <1>12
  <2> QED BY <2>1, <2>2, <1>8
<1>13. ASSUME Usable(p, m)
       PROVE  /\ b.resume = host[p].known
              /\ Cheapest(m.bits.publickey) = Cheapest(b.publickey)
  <2>1. Cheapest(m.bits.publickey) \in b.publickey
    BY <1>13, <1>5, <1>11 DEF Usable, a
  <2>2. b.publickey \subseteq m.bits.publickey
    BY <1>5
  <2> QED BY <2>1, <2>2, <1>5, <1>6, <1>8, <1>11, <1>12, <1>13
<1>14. ASSUME HalfAgainst(p, m) # NoHalf
       PROVE  /\ channel[p].state = "SENT" /\ HalfAgainst(p, m) = channel[p].half
              /\ Cheapest(channel[p].agreed.publickey) = Cheapest(b.publickey)
  <2>1. /\ ChannelFor(p).state = "SENT" /\ Cheapest(a.publickey) \in m.bits.publickey
        /\ HalfAgainst(p, m) = ChannelFor(p).half
    BY <1>14 DEF HalfAgainst, a
  <2>2. a = channel[p].agreed
    BY <2>1, <1>3 DEF Agreed, a
  <2>3. Cheapest(a.publickey) \in b.publickey /\ b.publickey \subseteq a.publickey
    BY <2>1, <1>5, <1>11
  <2> QED BY <2>1, <2>2, <2>3, <1>3, <1>8, <1>11, <1>12
<1> QED BY <1>9, <1>10, <1>13, <1>14 DEF b

LEMMA KindHalves ==
    ASSUME WaitInv, WaitInv', NEW p \in Peers, Kind(p)
    PROVE  /\ \A q \in Peers : /\ halves[q] \in Nat /\ halves'[q] \in Nat
                               /\ halves[q] <= halves'[q]
           /\ own' = own
           /\ \A q \in Peers \ {p} : /\ channel'[q] = channel[q] /\ host'[q] = host[q]
                                     /\ halves'[q] = halves[q]
<1>1. own' = own /\ \A q \in Peers \ {p} : /\ channel'[q] = channel[q] /\ host'[q] = host[q]
                                           /\ halves'[q] = halves[q]
  BY DEF Kind, OnlyBy
<1>2. halves'[p] = halves[p] \/ halves'[p] = halves[p] + 1
  BY DEF Kind, Stays, Starts, Receives, Establishes, Tells, Halved
<1>3. \A q \in Peers : halves[q] \in Nat /\ halves'[q] \in Nat
  BY DEF WaitInv, TypeInv
<1> QED BY <1>1, <1>2, <1>3

LEMMA SoundMessageStays ==
    ASSUME WaitInv, WaitInv', NEW p \in Peers, Kind(p), NEW m, SoundMessage(m)
    PROVE  SoundMessage(m)'
<1>1. /\ own' = own
      /\ \A q \in Peers : halves[q] \in Nat /\ halves'[q] \in Nat /\ halves[q] <= halves'[q]
  BY KindHalves
<1>2. \A q, b : OfferedBy(b, q) => OfferedBy(b, q)'
  BY <1>1 DEF OfferedBy
<1>3. \A b : OfferedByAll(b) => OfferedByAll(b)'
  BY <1>2 DEF OfferedByAll
<1>4. \A h, b : \A q \in Peers : HalfOf(h, q, b) => HalfOf(h, q, b)'
  BY <1>1 DEF HalfOf
<1>5. \A F : Session(F) => Session(F)'
  BY <1>1, SessionStays
<1> QED BY <1>2, <1>3, <1>4, <1>5 DEF SoundMessage

\* A half that p makes or keeps is its latest.
LEMMA HalvedLatest ==
    ASSUME WaitInv, SoundInv, NEW p \in Peers, NEW half, NEW suite, NEW h,
           Halved(p, half, suite, h),
           half # NoHalf => /\ channel[p].state = "SENT" /\ half = channel[p].half
                            /\ Cheapest(channel[p].agreed.publickey) = suite
    PROVE  h = <<p, halves'[p], suite>> /\ halves'[p] # 0
<1>1. CASE half = NoHalf
  <2>1. halves[p] \in Nat
    BY DEF WaitInv, TypeInv
  <2> QED BY <2>1, <1>1 DEF Halved, NewHalf
<1>2. CASE half # NoHalf
  BY <1>2 DEF Halved, SoundInv, SoundChannel
<1> QED BY <1>1, <1>2

\* Who receives a HELLO has the keys of its latest half, and bits of both.
LEMMA ReceivedSession ==
    ASSUME WaitInv, WaitInv', SoundInv, NEW p \in Peers, OnlyBy(p), Receives(p),
           NEW F, F = channel'[p].full, NEW b, b = channel'[p].agreed
    PROVE  Latest(p, F)' /\ OfferedByAll(b)'
<1> DEFINE q == Other(p)
<1>1. PICK m, h : /\ Hello(p, m) /\ Usable(p, m) /\ b = Common(p, m)
                  /\ Halved(p, HalfAgainst(p, m), Cheapest(m.bits.publickey), h)
                  /\ F = Full(h, m.half, Cheapest(b.symmetric))
  BY DEF Receives
<1>2. /\ OfferedByAll(b) /\ Cheapest(m.bits.publickey) = Cheapest(b.publickey)
      /\ HalfAgainst(p, m) # NoHalf =>
            /\ channel[p].state = "SENT" /\ HalfAgainst(p, m) = channel[p].half
            /\ Cheapest(channel[p].agreed.publickey) = Cheapest(b.publickey)
  BY <1>1, CommonOffered DEF WaitInv
<1>3. h = <<p, halves'[p], Cheapest(b.publickey)>> /\ halves'[p] # 0
  BY <1>1, <1>2, HalvedLatest
<1>4. PICK n \in 1..halves[q] : m.half = <<q, n, Cheapest(b.publickey)>>
  BY <1>1, <1>2 DEF Hello, SoundInv, SoundMessage, Keyings, HalfOf
<1>5. halves[q] = halves'[q] /\ halves'[p] \in Nat /\ halves[q] \in Nat /\ own' = own
  BY OtherPeer DEF OnlyBy, WaitInv, TypeInv
<1>6. /\ b.publickey \subseteq Nat /\ b.publickey # {}
      /\ b.symmetric \subseteq Nat /\ b.symmetric # {}
  BY <1>2, OwnBits DEF OfferedByAll, OfferedBy, WaitInv
<1>7. Cheapest(b.publickey) \in b.publickey /\ Cheapest(b.symmetric) \in b.symmetric
  BY <1>6, CheapestIsLeast
<1>8. \A r \in Peers : /\ Cheapest(b.publickey) \in own'[r].publickey
                       /\ Cheapest(b.symmetric) \in own'[r].symmetric
  BY <1>2, <1>5, <1>7 DEF OfferedByAll, OfferedBy
<1>9. F = Full(<<p, halves'[p], Cheapest(b.publickey)>>,
               <<Other(p), n, Cheapest(b.publickey)>>, Cheapest(b.symmetric))
  BY <1>1, <1>3, <1>4
<1>10. NumberOf(F, p) = halves'[p]
  BY <1>9, NumberOfFull
<1>11. ASSUME NEW i, NEW s, NEW y, i = halves'[p], i # 0,
              F = Full(<<p, i, s>>, <<Other(p), n, s>>, y),
              \A r \in Peers : s \in own'[r].publickey /\ y \in own'[r].symmetric
       PROVE  Session(F)'
  <2>1. i \in 1..halves'[p] /\ n \in 1..halves'[Other(p)] /\ i \in Nat /\ n \in Nat
    BY <1>4, <1>5, <1>11
  <2>2. SessionOf(F, p, i, n)'
    BY <2>1, <1>11 DEF SessionOf
  <2> QED BY <2>1, <2>2 DEF Session
<1>12. Session(F)'
  BY <1>3, <1>8, <1>9, <1>11
<1>13. OfferedByAll(b)'
  BY <1>2, <1>5 DEF OfferedByAll, OfferedBy
<1>14. (NumberOf(F, p) = halves[p])'
  BY <1>10 DEF NumberOf
<1> QED BY <1>12, <1>13, <1>14 DEF Latest

LEMMA ConvincedSession ==
    ASSUME WaitInv, SoundInv, NEW p \in Peers, NEW m, NEW full, NEW noEncrypt, NEW resume,
           Convinces(p, m, full, noEncrypt, resume)
    PROVE  /\ Latest(p, full) /\ Told(Other(p), full)
           /\ noEncrypt \in BOOLEAN /\ resume \in BOOLEAN
           /\ noEncrypt => \A q \in Peers : own[q].noEncrypt
<1> DEFINE c == channel[p]
<1>1. /\ m \in sent /\ m.from = Other(p) /\ m.full = full
      /\ m.type \in {"WELCOME", "DATA"} /\ c.state \in {"SENT", "RECEIVED"}
  BY DEF Convinces
<1>2. Session(full) /\ (m.type = "WELCOME" => OfferedByAll(m.bits))
  BY <1>1 DEF SoundInv, SoundMessage, Keyings
<1>3. SoundChannel(p)
  BY DEF SoundInv
<1>4. Told(Other(p), full)
  BY <1>1 DEF Told
<1>5. Latest(p, full)
  <2>1. CASE c.state = "RECEIVED"
    BY <2>1, <1>3 DEF Convinces, SoundChannel
  <2>2. CASE c.state = "SENT"
    <3>1. full.halves = {c.half, m.half}
      BY <2>2 DEF Convinces, Full
    <3>2. PICK s : c.half = <<p, halves[p], s>>
      BY <2>2, <1>3 DEF SoundChannel
    <3>3. SessionOf(full, p, NumberOf(full, p), NumberOf(full, Other(p)))
      BY <1>2, SessionFrom
    <3>4. PICK r, y : full = Full(<<p, NumberOf(full, p), r>>,
                                  <<Other(p), NumberOf(full, Other(p)), r>>, y)
      BY <3>3 DEF SessionOf
    <3>5. full.halves = {<<p, NumberOf(full, p), r>>,
                         <<Other(p), NumberOf(full, Other(p)), r>>}
      BY <3>4 DEF Full
    <3>6. <<p, halves[p], s>> = <<p, NumberOf(full, p), r>>
      BY <3>1, <3>2, <3>5, OtherPeer
    <3> QED BY <3>6, <1>2 DEF Latest
  <2> QED BY <2>1, <2>2, <1>1
<1>6. CASE m.type = "WELCOME"
  BY <1>2, <1>4, <1>5, <1>6 DEF Convinces, OfferedByAll, OfferedBy
<1>7. CASE m.type = "DATA"
  <2>1. OfferedByAll(c.agreed) /\ noEncrypt = c.agreed.noEncrypt /\ resume = c.agreed.resume
    BY <1>3, <1>7 DEF Convinces, SoundChannel
  <2> QED BY <2>1, <1>4, <1>5 DEF OfferedByAll, OfferedBy
<1> QED BY <1>1, <1>6, <1>7

\* A message that is told is sound, and what it says stays true.
LEMMA ToldSound ==
    ASSUME WaitInv, SoundInv, NEW p \in Peers, NEW m, m.from = p,
           LET c == channel[p] IN
           \/ c.state = "SENT" /\ m.type = "HELLO" /\ m.bits = c.agreed /\ m.half = c.half
           \/ c.state = "RECEIVED" /\ m.type = "WELCOME" /\ m.bits = c.agreed /\ m.full = c.full
           \/ c.state = "ESTABLISHED" /\ m.type = "DATA" /\ m.full = c.full
    PROVE  SoundMessage(m)
<1>1. SoundChannel(p)
  BY DEF SoundInv
<1>2. halves[p] \in Nat
  BY DEF WaitInv, TypeInv
<1>3. CASE m.type = "HELLO"
  <2>1. HalfOf(m.half, p, m.bits) /\ OfferedBy(m.bits, p)
    BY <1>1, <1>2, <1>3 DEF SoundChannel, HalfOf
  <2> QED BY <2>1, <1>3 DEF SoundMessage
<1>4. CASE m.type \in {"WELCOME", "DATA"}
  BY <1>1, <1>4 DEF SoundChannel, Latest, SoundMessage
<1> QED BY <1>3, <1>4

LEMMA SoundChannelStays ==
    ASSUME WaitInv, WaitInv', NEW p \in Peers, Kind(p), NEW q \in Peers, SoundChannel(q),
           Same(channel[q], channel'[q]), halves'[q] = halves[q]
    PROVE  SoundChannel(q)'
<1>1. /\ own' = own
      /\ \A r \in Peers : halves[r] \in Nat /\ halves'[r] \in Nat /\ halves[r] <= halves'[r]
  BY KindHalves
<1>2. \A r, b : OfferedBy(b, r) => OfferedBy(b, r)'
  BY <1>1 DEF OfferedBy
<1>3. \A b : OfferedByAll(b) => OfferedByAll(b)'
  BY <1>2 DEF OfferedByAll
<1>4. \A F : Session(F) => Session(F)'
  BY <1>1, SessionStays
<1>5. \A F : Latest(q, F) => Latest(q, F)'
  BY <1>4 DEF Latest, NumberOf
<1>6. ASSUME NEW F, F = channel'[q].full, NEW b, b = channel'[q].agreed
      PROVE  SoundChannel(q)'
  <2>1. F = channel[q].full /\ b = channel[q].agreed
    BY <1>6 DEF Same
  <2>2. Latest(q, F) => Latest(q, F)'
    BY <1>5
  <2>3. (OfferedBy(b, q) => OfferedBy(b, q)') /\ (OfferedByAll(b) => OfferedByAll(b)')
    BY <1>2, <1>3
  <2> QED BY <2>1, <2>2, <2>3, <1>1, <1>6 DEF SoundChannel, Same
<1> QED BY <1>6

LEMMA SoundStep ==
    ASSUME WaitInv, WaitInv', SoundInv, NEW p \in Peers, Kind(p)
    PROVE  SoundInv'
<1>1. /\ own' = own
      /\ \A q \in Peers : halves[q] \in Nat /\ halves'[q] \in Nat /\ halves[q] <= halves'[q]
      /\ \A q \in Peers \ {p} : channel'[q] = channel[q] /\ halves'[q] = halves[q]
  BY KindHalves
<1>2. ASSUME NEW m \in sent', m.type \in Keyings
      PROVE  SoundMessage(m)'
  <2>1. m \in sent => SoundMessage(m)
    BY <1>2 DEF SoundInv
  <2>2. m \notin sent => /\ m.from = p
                         /\ LET c == channel[p] IN
                            \/ /\ c.state = "SENT" /\ m.type = "HELLO"
                               /\ m.bits = c.agreed /\ m.half = c.half
                            \/ /\ c.state = "RECEIVED" /\ m.type = "WELCOME"
                               /\ m.bits = c.agreed /\ m.full = c.full
                            \/ c.state = "ESTABLISHED" /\ m.type = "DATA" /\ m.full = c.full
    BY <1>2 DEF Kind, Stays, Starts, Receives, Establishes, Tells, TellsNothing
  <2>3. SoundMessage(m)
    BY <2>1, <2>2, ToldSound
  <2> QED BY <2>3, SoundMessageStays
<1>3. \A q \in Peers : SoundChannel(q)
  BY DEF SoundInv
<1>4. \A q \in Peers \ {p} : SoundChannel(q)'
  <2>1. \A q \in Peers \ {p} : Same(channel[q], channel'[q])
    BY <1>1 DEF Same
  <2> QED BY <2>1, <1>1, <1>3, SoundChannelStays
<1>5. SoundChannel(p)'
  <2>1. CASE Stays(p) \/ Tells(p)
    <3>1. CASE channel'[p].state \in {"none", "CLOSED"}
      BY <3>1 DEF SoundChannel
    <3>2. CASE Same(channel[p], channel'[p])
      <4>1. halves'[p] = halves[p]
        BY <2>1 DEF Stays, Tells
      <4> QED BY <4>1, <3>2, <1>3, SoundChannelStays
    <3> QED BY <3>1, <3>2, <2>1 DEF Stays, Tells
  <2>2. CASE Starts(p)
    <3>1. PICK b, h : /\ channel'[p].state = "SENT" /\ channel'[p].agreed = b
                      /\ channel'[p].half = h
                      /\ \/ b = own[p] /\ Halved(p, NoHalf, Cheapest(b.publickey), h)
                         \/ \E m : /\ Hello(p, m) /\ b = Common(p, m)
                                   /\ Halved(p, HalfAgainst(p, m), Cheapest(b.publickey), h)
      BY <2>2 DEF Starts
    <3>2. OfferedBy(b, p) /\ h = <<p, halves'[p], Cheapest(b.publickey)>> /\ halves'[p] # 0
      <4>1. CASE b = own[p] /\ Halved(p, NoHalf, Cheapest(b.publickey), h)
        BY <4>1, OwnBits, HalvedLatest DEF WaitInv
      <4>2. ASSUME NEW m, Hello(p, m), b = Common(p, m),
                   Halved(p, HalfAgainst(p, m), Cheapest(b.publickey), h)
            PROVE  OfferedBy(b, p) /\ h = <<p, halves'[p], Cheapest(b.publickey)>>
                   /\ halves'[p] # 0
        BY <4>2, CommonOffered, HalvedLatest DEF WaitInv, OfferedByAll
      <4> QED BY <4>1, <4>2, <3>1
    <3>3. OfferedBy(b, p)'
      BY <3>2, <1>1 DEF OfferedBy
    <3> QED BY <3>1, <3>2, <3>3 DEF SoundChannel
  <2>3. CASE Receives(p)
    <3>1. OnlyBy(p) /\ channel'[p].state = "RECEIVED" /\ channel'[p].noEncrypt = FALSE
      BY <2>3 DEF Kind, Receives
    <3>2. ASSUME NEW F, F = channel'[p].full, NEW b, b = channel'[p].agreed
          PROVE  SoundChannel(p)'
      <4>1. Latest(p, F)' /\ OfferedByAll(b)'
        BY <2>3, <3>1, <3>2, ReceivedSession
      <4> QED BY <4>1, <3>1, <3>2 DEF SoundChannel
    <3> QED BY <3>2
  <2>4. CASE Establishes(p)
    <3>1. PICK m, full, noEncrypt, resume :
             /\ Convinces(p, m, full, noEncrypt, resume)
             /\ \/ /\ channel'[p].state = "ESTABLISHED" /\ channel'[p].full = full
                   /\ channel'[p].noEncrypt = noEncrypt
                \/ channel'[p].state = "CLOSED"
      BY <2>4 DEF Establishes
    <3>2. /\ Latest(p, full) /\ noEncrypt \in BOOLEAN
          /\ noEncrypt => \A q \in Peers : own[q].noEncrypt
      BY <3>1, ConvincedSession
    <3>3. halves'[p] = halves[p]
      BY <2>4 DEF Establishes
    <3>4. Latest(p, full)'
      <4>1. Session(full)'
        BY <3>2, <1>1, SessionStays DEF Latest
      <4> QED BY <4>1, <3>2, <3>3 DEF Latest, NumberOf
    <3> QED BY <3>1, <3>2, <3>4, <1>1 DEF SoundChannel
  <2> QED BY <2>1, <2>2, <2>3, <2>4 DEF Kind
<1> QED BY <1>2, <1>4, <1>5 DEF SoundInv
LEMMA InitSound == Init => SoundInv
<1> SUFFICES ASSUME Init PROVE SoundInv
  OBVIOUS
<1>1. \A p \in Peers : channel[p].state = "none"
  BY DEF Init, NoChannel
<1> QED BY <1>1 DEF Init, SoundInv, SoundChannel

LEMMA NextSound == ASSUME WaitInv, WaitInv', SoundInv, [Next]_vars PROVE SoundInv'
<1>1. CASE Next
  BY <1>1, NextKind, SoundStep DEF WaitInv
<1>2. CASE UNCHANGED vars
  <2>1. own' = own /\ channel' = channel /\ sent' = sent /\ halves' = halves
    BY <1>2 DEF vars
  <2>2. ASSUME NEW m PROVE SoundMessage(m) <=> SoundMessage(m)'
    BY <2>1 DEF SoundMessage, OfferedByAll, OfferedBy, HalfOf, Session, SessionOf
  <2>3. ASSUME NEW p PROVE SoundChannel(p) <=> SoundChannel(p)'
    BY <2>1 DEF SoundChannel, OfferedByAll, OfferedBy, Latest, Session, SessionOf, NumberOf
  <2> QED BY <2>1, <2>2, <2>3 DEF SoundInv
<1> QED BY <1>1, <1>2

\* A session uses only what both ends offered: its keys are of one suite that
\* both have, and data go in the clear only if both allow it.  goRECEIVED and
\* goESTABLISHED in negotiation.fun, whatever packets come before.
THEOREM OnlyOffered == Spec => []OptionsAllowed
<1>1. Init => WaitInv /\ SoundInv
  BY InitWaits, InitSound
<1>2. WaitInv /\ SoundInv /\ [Next]_vars => (WaitInv /\ SoundInv)'
  BY NextWaits, NextSound
<1>3. SoundInv => OptionsAllowed
  <2> SUFFICES ASSUME SoundInv, NEW p \in Peers, channel[p].state \in {"RECEIVED", "ESTABLISHED"}
               PROVE  LET c == channel[p] IN
                      /\ \A half \in c.full.halves, q \in Peers : half[3] \in own[q].publickey
                      /\ Cardinality({half[3] : half \in c.full.halves}) = 1
                      /\ \A q \in Peers : c.full.symmetric \in own[q].symmetric
                      /\ c.noEncrypt => \A q \in Peers : own[q].noEncrypt
    BY DEF OptionsAllowed
  <2>1. SoundChannel(p)
    BY DEF SoundInv
  <2>2. Session(channel[p].full)
    BY <2>1 DEF SoundChannel, Latest
  <2>3. channel[p].noEncrypt => \A q \in Peers : own[q].noEncrypt
    BY <2>1 DEF SoundChannel
  <2> QED BY <2>2, <2>3, SessionAllowed
<1> QED BY <1>1, <1>2, <1>3, PTL DEF Spec

-----------------------------------------------------------------------------
(***************************************************************************)
(* Who has which keys.  An end has the keys it told or has in its channel,    *)
(* and works with those it trusts: the other end told them too.               *)
(***************************************************************************)
Has(p, F) == channel[p].state \in {"RECEIVED", "ESTABLISHED"} /\ channel[p].full = F
Holds(p, F) == Told(p, F) \/ Has(p, F)
Works(p, F) ==
    \/ channel[p].state = "ESTABLISHED" /\ channel[p].full = F
    \/ \E m \in sent : m.from = p /\ m.type = "DATA" /\ m.full = F

\* The halves of the keys that an end had are older than the one it offers.
OlderHalves(p) ==
    channel[p].state = "SENT" => \A F : Told(p, F) => NumberOf(F, p) < halves[p]

\* An end uses a half once.
OneUse(p) ==
    \A F, G : Holds(p, F) /\ Holds(p, G) /\ NumberOf(F, p) = NumberOf(G, p) => F = G

\* Of keys that p has and keys that the other end has, those with the newer half
\* of one end do not have the older half of the other.
NoCross(p) ==
    \A F, G : Holds(p, F) /\ Holds(Other(p), G) =>
        ~(/\ NumberOf(F, p) < NumberOf(G, p)
          /\ NumberOf(G, Other(p)) < NumberOf(F, Other(p)))

Answered(p) == \A F : Works(p, F) => Told(Other(p), F)

SessInv == \A p \in Peers : OlderHalves(p) /\ OneUse(p) /\ NoCross(p) /\ Answered(p)

LEMMA SessionNumbers ==
    ASSUME WaitInv, NEW F, Session(F), NEW p \in Peers
    PROVE  NumberOf(F, p) \in 1..halves[p] /\ NumberOf(F, p) \in Nat
<1>1. SessionOf(F, p, NumberOf(F, p), NumberOf(F, Other(p)))
  BY SessionFrom
<1>2. halves[p] \in Nat
  BY DEF WaitInv, TypeInv
<1> QED BY <1>1, <1>2 DEF SessionOf

LEMMA HoldsSession ==
    ASSUME WaitInv, SoundInv, NEW p \in Peers, NEW F, Holds(p, F)
    PROVE  /\ Session(F)
           /\ Has(p, F) => NumberOf(F, p) = halves[p]
           /\ \A q \in Peers : NumberOf(F, q) \in 1..halves[q] /\ NumberOf(F, q) \in Nat
<1>1. Told(p, F) => Session(F)
  BY DEF Told, SoundInv, SoundMessage, Keyings
<1>2. Has(p, F) => Session(F) /\ NumberOf(F, p) = halves[p]
  BY DEF SoundInv, SoundChannel, Latest, Has
<1> QED BY <1>1, <1>2, SessionNumbers DEF Holds

\* What one step tells.
LEMMA TellsOnly ==
    ASSUME NEW p \in Peers, Kind(p), NEW m, m.type \in Keyings, m \in sent'
    PROVE  m \in sent \/ (/\ Tells(p) /\ Same(channel[p], channel'[p]) /\ m.from = p
                          /\ LET c == channel[p] IN
                             \/ c.state = "SENT" /\ m.type = "HELLO"
                             \/ /\ c.state = "RECEIVED" /\ m.type = "WELCOME"
                                /\ m.bits = c.agreed /\ m.full = c.full
                             \/ c.state = "ESTABLISHED" /\ m.type = "DATA" /\ m.full = c.full)
BY DEF Kind, Stays, Starts, Receives, Establishes, Tells, TellsNothing

LEMMA KeepsTold ==
    ASSUME NEW p \in Peers, Kind(p)
    PROVE  /\ \A m : m \in sent /\ m.type \in Keyings => m \in sent'
           /\ \A q, F : Told(q, F) => Told(q, F)'
<1>1. ASSUME NEW m \in sent, m.type \in Keyings PROVE m \in sent'
  <2>1. CASE Tells(p)
    BY <1>1, <2>1 DEF Tells
  <2>2. CASE TellsNothing
    BY <1>1, <2>2 DEF TellsNothing
  <2> QED BY <2>1, <2>2 DEF Kind, Stays, Starts, Receives, Establishes
<1>2. ASSUME NEW q, NEW F, Told(q, F) PROVE Told(q, F)'
  <2>1. PICK m \in sent : m.from = q /\ m.type \in {"WELCOME", "DATA"} /\ m.full = F
    BY <1>2 DEF Told
  <2>2. m \in sent'
    BY <2>1, <1>1 DEF Keyings
  <2> QED BY <2>1, <2>2 DEF Told
<1> QED BY <1>1, <1>2

LEMMA ToldOnly ==
    ASSUME NEW p \in Peers, Kind(p), NEW q \in Peers, NEW F, Told(q, F)'
    PROVE  Told(q, F) \/ (q = p /\ Tells(p) /\ Has(p, F) /\ Has(p, F)')
<1>1. PICK m \in sent' : m.from = q /\ m.type \in {"WELCOME", "DATA"} /\ m.full = F
  BY DEF Told
<1>2. CASE m \in sent
  BY <1>1, <1>2 DEF Told
<1>3. CASE m \notin sent
  BY <1>1, <1>3, TellsOnly DEF Keyings, Has, Same
<1> QED BY <1>2, <1>3

\* The half an end offers anew was not used.
LEMMA FreshHalf ==
    ASSUME WaitInv, SoundInv, SessInv, NEW p \in Peers, NEW half, NEW suite, NEW h,
           Halved(p, half, suite, h), half # NoHalf => channel[p].state = "SENT",
           NEW F, Told(p, F)
    PROVE  NumberOf(F, p) < halves'[p]
<1>1. NumberOf(F, p) \in 1..halves[p] /\ halves[p] \in Nat
  BY HoldsSession DEF Holds, WaitInv, TypeInv
<1>2. CASE half # NoHalf
  BY <1>2 DEF Halved, SessInv, OlderHalves
<1>3. CASE half = NoHalf
  BY <1>1, <1>3 DEF Halved
<1> QED BY <1>2, <1>3

\* Keys that p gets with a step have its latest half, and no others that it had
\* have that half.
Gains(p, F) ==
    /\ channel'[p].full = F /\ ~Tells(p)
    /\ Session(F)' /\ NumberOf(F, p) = halves'[p]
    /\ \A G : Told(p, G) => NumberOf(G, p) < halves'[p]

LEMMA GainsOnly ==
    ASSUME WaitInv, WaitInv', SoundInv, SoundInv', SessInv, NEW p \in Peers, Kind(p),
           NEW F, Has(p, F)'
    PROVE  Has(p, F) \/ Gains(p, F)
<1>1. channel'[p].state \in {"RECEIVED", "ESTABLISHED"} /\ channel'[p].full = F
  BY DEF Has
<1>2. Session(F)' /\ NumberOf(F, p) = halves'[p]
  <2>1. SoundChannel(p)'
    BY DEF SoundInv
  <2>2. Latest(p, F)'
    BY <2>1, <1>1 DEF SoundChannel
  <2> QED BY <2>2 DEF Latest, NumberOf
<1>3. CASE Stays(p) \/ Tells(p)
  BY <1>1, <1>3 DEF Stays, Tells, Same, Has
<1>4. CASE Starts(p)
  BY <1>1, <1>4 DEF Starts
<1>5. CASE Receives(p)
  <2>1. PICK m, h : /\ Hello(p, m)
                    /\ Halved(p, HalfAgainst(p, m), Cheapest(m.bits.publickey), h)
    BY <1>5 DEF Receives
  <2>2. HalfAgainst(p, m) # NoHalf => channel[p].state = "SENT"
    BY <2>1, CommonOffered DEF WaitInv
  <2>3. \A G : Told(p, G) => NumberOf(G, p) < halves'[p]
    BY <2>1, <2>2, FreshHalf
  <2>4. ~Tells(p) \/ Same(channel[p], channel'[p])
    BY DEF Tells
  <2> QED BY <2>3, <2>4, <1>1, <1>2 DEF Gains, Same, Has
<1>6. CASE Establishes(p)
  <2>1. PICK m, full, noEncrypt, resume : /\ Convinces(p, m, full, noEncrypt, resume)
                                          /\ channel'[p].full = full
    BY <1>6, <1>1 DEF Establishes
  <2>2. CASE channel[p].state = "RECEIVED"
    BY <2>1, <2>2, <1>1 DEF Convinces, Has
  <2>3. CASE channel[p].state = "SENT"
    <3>1. \A G : Told(p, G) => NumberOf(G, p) < halves[p]
      BY <2>3 DEF SessInv, OlderHalves
    <3>2. halves'[p] = halves[p] /\ (~Tells(p) \/ Same(channel[p], channel'[p]))
      BY <1>6 DEF Establishes, Tells
    <3> QED BY <2>3, <3>1, <3>2, <1>1, <1>2 DEF Gains, Same
  <2> QED BY <2>1, <2>2, <2>3 DEF Convinces
<1> QED BY <1>3, <1>4, <1>5, <1>6 DEF Kind

LEMMA HoldsOnly ==
    ASSUME WaitInv, WaitInv', SoundInv, SoundInv', SessInv, NEW p \in Peers, Kind(p),
           NEW F, NEW q \in Peers, Holds(q, F)'
    PROVE  Holds(q, F) \/ (q = p /\ Gains(p, F))
<1>1. \A r \in Peers \ {p} : channel'[r] = channel[r]
  BY KindHalves
<1>2. CASE Told(q, F)'
  BY <1>2, ToldOnly DEF Holds
<1>3. CASE Has(q, F)' /\ q # p
  BY <1>1, <1>3 DEF Holds, Has
<1>4. CASE Has(q, F)' /\ q = p
  BY <1>4, GainsOnly DEF Holds
<1> QED BY <1>2, <1>3, <1>4 DEF Holds

\* No keys but those it gains have the latest half of p after the step.
LEMMA GainsLatest ==
    ASSUME WaitInv, WaitInv', SoundInv, SoundInv', SessInv, NEW p \in Peers, Kind(p),
           NEW F, Gains(p, F), NEW G, Holds(p, G)', G # F
    PROVE  NumberOf(G, p) < NumberOf(F, p) /\ Holds(p, G)
<1>1. Told(p, G)'
  BY DEF Gains, Holds, Has
<1>2. Told(p, G)
  BY <1>1, ToldOnly DEF Gains
<1> QED BY <1>2 DEF Gains, Holds

LEMMA SessStep ==
    ASSUME WaitInv, WaitInv', SoundInv, SoundInv', SessInv, NEW p \in Peers, Kind(p)
    PROVE  SessInv'
<1>1. /\ \A q \in Peers : halves[q] \in Nat /\ halves'[q] \in Nat /\ halves[q] <= halves'[q]
      /\ \A q \in Peers \ {p} : channel'[q] = channel[q] /\ halves'[q] = halves[q]
  BY KindHalves
<1>2. ASSUME NEW q \in Peers, channel'[q].state = "SENT", NEW F, Told(q, F)'
      PROVE  NumberOf(F, q) < halves'[q]
  <2>1. Told(q, F) \/ (q = p /\ Tells(p) /\ Has(p, F)')
    BY <1>2, ToldOnly
  <2>2. Told(q, F)
    BY <1>2, <2>1 DEF Has
  <2>3. CASE Same(channel[q], channel'[q])
    BY <1>1, <1>2, <2>2, <2>3, HoldsSession DEF SessInv, OlderHalves, Same, Holds
  <2>4. CASE q = p /\ Starts(p)
    <3>1. PICK half, suite, h : /\ Halved(p, half, suite, h)
                                /\ half # NoHalf => channel[p].state = "SENT"
      <4>1. CASE Halved(p, NoHalf, Cheapest(own[p].publickey), channel'[p].half)
        BY <4>1
      <4>2. ASSUME NEW m, Hello(p, m),
                   Halved(p, HalfAgainst(p, m), Cheapest(Common(p, m).publickey), channel'[p].half)
            PROVE  \E half, suite, h : /\ Halved(p, half, suite, h)
                                       /\ half # NoHalf => channel[p].state = "SENT"
        <5>1. HalfAgainst(p, m) # NoHalf => channel[p].state = "SENT"
          BY <4>2, CommonOffered DEF WaitInv
        <5> QED BY <5>1, <4>2
      <4> QED BY <4>1, <4>2, <2>4 DEF Starts
    <3> QED BY <3>1, <2>2, <2>4, FreshHalf
  <2>5. q # p => Same(channel[q], channel'[q])
    BY <1>1 DEF Same
  <2>6. Stays(p) \/ Receives(p) \/ Establishes(p) \/ Tells(p) \/ Starts(p)
    BY DEF Kind
  <2>7. q = p => Starts(p) \/ Same(channel[p], channel'[p])
    BY <2>6, <1>2 DEF Stays, Receives, Establishes, Tells
  <2> QED BY <2>3, <2>4, <2>5, <2>7
<1>3. ASSUME NEW q \in Peers, NEW F, NEW G, Holds(q, F)', Holds(q, G)',
             NumberOf(F, q) = NumberOf(G, q)
      PROVE  F = G
  <2>1. NumberOf(F, q) \in Int /\ NumberOf(G, q) \in Int
    <3>1. ASSUME NEW K, Holds(q, K)' PROVE NumberOf(K, q) \in Int
      BY <3>1, <1>1, HoldsOnly, HoldsSession DEF Gains
    <3> QED BY <3>1, <1>3
  <2>2. CASE Holds(q, F) /\ Holds(q, G)
    BY <2>2, <1>3 DEF SessInv, OneUse
  <2>3. CASE q = p /\ (Gains(p, F) \/ Gains(p, G))
    BY <2>1, <2>3, <1>3, GainsLatest
  <2> QED BY <2>2, <2>3, <1>3, HoldsOnly
<1>4. ASSUME NEW q \in Peers, NEW F, NEW G, Holds(q, F)', Holds(Other(q), G)',
             NumberOf(F, q) < NumberOf(G, q),
             NumberOf(G, Other(q)) < NumberOf(F, Other(q))
      PROVE  FALSE
  <2>1. Other(q) \in Peers /\ Other(q) # q /\ \A r \in Peers : r = q \/ r = Other(q)
    BY OtherPeer
  <2>2. CASE Holds(q, F) /\ Holds(Other(q), G)
    BY <2>2, <1>4 DEF SessInv, NoCross
  <2>3. CASE q = p /\ Gains(p, F) /\ Holds(Other(q), G)
    <3>1. NumberOf(F, p) = halves'[p] /\ NumberOf(G, p) \in 1..halves[p]
      BY <2>1, <2>3, HoldsSession DEF Gains
    <3> QED BY <3>1, <2>3, <1>1, <1>4
  <2>4. CASE Other(q) = p /\ Gains(p, G) /\ Holds(q, F)
    <3>1. NumberOf(G, p) = halves'[p] /\ NumberOf(F, p) \in 1..halves[p]
      BY <2>1, <2>4, HoldsSession DEF Gains
    <3> QED BY <3>1, <2>4, <1>1, <1>4
  <2> QED BY <2>1, <2>2, <2>3, <2>4, <1>4, HoldsOnly
<1>5. ASSUME NEW q \in Peers, NEW F, Works(q, F)'
      PROVE  Told(Other(q), F)'
  <2>1. CASE Works(q, F)
    BY <2>1, KeepsTold DEF SessInv, Answered
  <2>2. CASE ~Works(q, F) /\ channel'[q].state = "ESTABLISHED" /\ channel'[q].full = F
    <3>1. q = p /\ Establishes(p)
      BY <2>2, <1>1 DEF Works, Kind, Stays, Starts, Receives, Tells, Same
    <3>2. \E m, noEncrypt, resume : Convinces(p, m, F, noEncrypt, resume)
      BY <2>2, <3>1 DEF Establishes
    <3> QED BY <3>1, <3>2, ConvincedSession, KeepsTold
  <2>3. ASSUME ~Works(q, F), NEW m \in sent', m.from = q, m.type = "DATA", m.full = F
        PROVE  FALSE
    BY <2>3, TellsOnly DEF Works, Keyings
  <2> QED BY <2>1, <2>2, <2>3, <1>5 DEF Works
<1>6. \A q \in Peers : OlderHalves(q)'
  BY <1>2 DEF OlderHalves, NumberOf
<1>7. \A q \in Peers : OneUse(q)'
  BY <1>3 DEF OneUse, NumberOf
<1>8. \A q \in Peers : NoCross(q)'
  BY <1>4 DEF NoCross, NumberOf, Other
<1>9. \A q \in Peers : Answered(q)'
  BY <1>5 DEF Answered, Other
<1> QED BY <1>6, <1>7, <1>8, <1>9 DEF SessInv

LEMMA InitSess == Init => SessInv
<1> SUFFICES ASSUME Init PROVE SessInv
  OBVIOUS
<1>1. sent = {} /\ \A p \in Peers : channel[p].state = "none"
  BY DEF Init, NoChannel
<1> QED BY <1>1, OtherPeer
        DEF SessInv, OlderHalves, OneUse, NoCross, Answered, Holds, Has, Told, Works

LEMMA NextSess ==
    ASSUME WaitInv, WaitInv', SoundInv, SoundInv', SessInv, [Next]_vars PROVE SessInv'
<1>1. CASE Next
  BY <1>1, NextKind, SessStep DEF WaitInv
<1>2. CASE UNCHANGED vars
  <2>1. channel' = channel /\ sent' = sent /\ halves' = halves
    BY <1>2 DEF vars
  <2>2. ASSUME NEW p
        PROVE  /\ \A F : Holds(p, F) <=> Holds(p, F)'
               /\ \A F : Told(p, F) <=> Told(p, F)'
               /\ \A F : Works(p, F) <=> Works(p, F)'
    BY <2>1 DEF Holds, Has, Told, Works
  <2>3. \A p : OlderHalves(p) => OlderHalves(p)'
    BY <2>1, <2>2 DEF OlderHalves, NumberOf
  <2>4. \A p : OneUse(p) => OneUse(p)'
    BY <2>2 DEF OneUse, NumberOf
  <2>5. \A p : NoCross(p) => NoCross(p)'
    BY <2>2 DEF NoCross, NumberOf, Other
  <2>6. \A p : Answered(p) => Answered(p)'
    BY <2>2 DEF Answered, Other
  <2> QED BY <2>3, <2>4, <2>5, <2>6 DEF SessInv
<1> QED BY <1>1, <1>2

\* The ends have the same keys if each has those with its latest half.
LEMMA SameSession ==
    ASSUME WaitInv, SoundInv, SessInv, NEW p \in Peers, NEW F, NEW G,
           Holds(p, F), Holds(p, G), Holds(Other(p), F), Holds(Other(p), G),
           NumberOf(F, p) = halves[p], NumberOf(G, Other(p)) = halves[Other(p)]
    PROVE  F = G
<1>1. Other(p) \in Peers
  BY OtherPeer
<1>2. /\ NumberOf(F, p) \in Nat /\ NumberOf(G, p) \in Nat
      /\ NumberOf(F, Other(p)) \in Nat /\ NumberOf(G, Other(p)) \in Nat
      /\ NumberOf(G, p) <= NumberOf(F, p)
      /\ NumberOf(F, Other(p)) <= NumberOf(G, Other(p))
  BY <1>1, HoldsSession
<1>3. ~(/\ NumberOf(G, p) < NumberOf(F, p)
        /\ NumberOf(F, Other(p)) < NumberOf(G, Other(p)))
  BY DEF SessInv, NoCross
<1>4. NumberOf(F, p) = NumberOf(G, p) \/ NumberOf(F, Other(p)) = NumberOf(G, Other(p))
  BY <1>2, <1>3
<1> QED BY <1>1, <1>4 DEF SessInv, OneUse

-----------------------------------------------------------------------------
(***************************************************************************)
(* Encryption.  Data of a session go in the clear if every WELCOME that was   *)
(* told of it says so.                                                       *)
(***************************************************************************)
Welcomed(p, F, b) ==
    \E m \in sent : m.from = p /\ m.type = "WELCOME" /\ m.full = F /\ m.bits = b

OneAnswer(p) == \A F, b, d : Welcomed(p, F, b) /\ Welcomed(p, F, d) => b = d

\* Until the channel works, the other end heard only its WELCOME.
NotYet(p) ==
    LET c == channel[p] IN
    c.state = "RECEIVED" => /\ ~Works(p, c.full)
                            /\ \A b : Welcomed(p, c.full, b) => b = c.agreed

AllClear(F) == \A b : \A q \in Peers : Welcomed(q, F, b) => b.noEncrypt
ClearAsTold(p) ==
    LET c == channel[p] IN
    c.state = "ESTABLISHED" => (c.noEncrypt <=> AllClear(c.full))

\* The other end works already: it agreed to what this end told.
ClearAfter(p) ==
    LET c == channel[p] IN
    c.state = "RECEIVED" /\ Works(Other(p), c.full) =>
        \A b, d : /\ Welcomed(p, c.full, b) /\ Welcomed(Other(p), c.full, d)
                  /\ b.noEncrypt
                  => d.noEncrypt

ClearInv == \A p \in Peers : OneAnswer(p) /\ NotYet(p) /\ ClearAsTold(p) /\ ClearAfter(p)

LEMMA WelcomedOnly ==
    ASSUME NEW p \in Peers, Kind(p), NEW q \in Peers, NEW F, NEW b, Welcomed(q, F, b)'
    PROVE  \/ Welcomed(q, F, b)
           \/ /\ q = p /\ Tells(p) /\ Same(channel[p], channel'[p])
              /\ channel[p].state = "RECEIVED"
              /\ channel[p].full = F /\ channel[p].agreed = b
<1>1. PICK m \in sent' : m.from = q /\ m.type = "WELCOME" /\ m.full = F /\ m.bits = b
  BY DEF Welcomed
<1>2. CASE m \in sent
  BY <1>1, <1>2 DEF Welcomed
<1>3. CASE m \notin sent
  BY <1>1, <1>3, TellsOnly DEF Keyings
<1> QED BY <1>2, <1>3

LEMMA WelcomedTold ==
    ASSUME NEW p, NEW F
    PROVE  /\ \A b : Welcomed(p, F, b) => Told(p, F)
           /\ Told(p, F) => Works(p, F) \/ \E b : Welcomed(p, F, b)
BY DEF Welcomed, Told, Works

LEMMA WorksOnly ==
    ASSUME NEW p \in Peers, Kind(p), NEW q \in Peers, NEW F, Works(q, F)'
    PROVE  \/ Works(q, F)
           \/ /\ q = p /\ TellsNothing /\ channel'[p].state = "ESTABLISHED"
              /\ channel'[p].full = F
              /\ halves'[p] = halves[p]
              /\ \E m, resume : /\ Convinces(p, m, F, channel'[p].noEncrypt, resume)
                                /\ host'[p].known /\ (~resume => host'[p].epoch = F)
                                /\ resume => host'[p].epoch \in {host[p].epoch, NoFull}
<1>1. \A r \in Peers \ {p} : channel'[r] = channel[r]
  BY DEF Kind, OnlyBy
<1>2. CASE channel'[q].state = "ESTABLISHED" /\ channel'[q].full = F
  BY <1>1, <1>2 DEF Works, Kind, Stays, Starts, Receives, Establishes, Tells, Same
<1>3. ASSUME NEW m \in sent', m.from = q, m.type = "DATA", m.full = F PROVE Works(q, F)
  BY <1>3, TellsOnly DEF Works, Keyings
<1> QED BY <1>2, <1>3 DEF Works

\* Keys that an end gains it did not tell.
LEMMA GainsUntold ==
    ASSUME WaitInv', NEW p \in Peers, Kind(p), NEW F, Gains(p, F)
    PROVE  ~Told(p, F) /\ ~Told(p, F)'
<1>1. ~Told(p, F)
  <2>1. halves'[p] \in Nat
    BY DEF WaitInv, TypeInv
  <2> QED BY <2>1 DEF Gains
<1> QED BY <1>1, ToldOnly DEF Gains

\* Who works with keys heard of all that is said of them.
LEMMA OldWelcome ==
    ASSUME SessInv, ClearInv, NEW p \in Peers, Kind(p), NEW F, NEW q \in Peers, Works(q, F)
    PROVE  \A b : \A r \in Peers : Welcomed(r, F, b) <=> Welcomed(r, F, b)'
<1>1. \A b : \A r \in Peers : Welcomed(r, F, b) => Welcomed(r, F, b)'
  BY KeepsTold DEF Welcomed, Keyings
<1>2. ASSUME NEW r \in Peers, NEW b, Welcomed(r, F, b)' PROVE Welcomed(r, F, b)
  <2>1. SUFFICES ASSUME r = p, channel[p].state = "RECEIVED",
                        channel[p].full = F, channel[p].agreed = b
                 PROVE  Welcomed(r, F, b)
    BY <1>2, WelcomedOnly
  <2>2. ~Works(p, F) /\ \A d : Welcomed(p, F, d) => d = b
    BY <2>1 DEF ClearInv, NotYet
  <2>3. Told(p, F)
    BY <2>2, OtherPeer DEF SessInv, Answered
  <2> QED BY <2>1, <2>2, <2>3, WelcomedTold
<1> QED BY <1>1, <1>2

LEMMA ClearStep ==
    ASSUME WaitInv, WaitInv', SoundInv, SoundInv', SessInv, ClearInv, NEW p \in Peers, Kind(p)
    PROVE  ClearInv'
<1>1. \A q \in Peers \ {p} : channel'[q] = channel[q]
  BY KindHalves
<1>2. \A q \in Peers \ {p} : Other(q) = p
  BY OtherPeer
<1>3. ASSUME NEW q \in Peers, NEW F, NEW b, NEW d, Welcomed(q, F, b)', Welcomed(q, F, d)'
      PROVE  b = d
  <2>1. \A x : Welcomed(q, F, x)' => \/ Welcomed(q, F, x)
                                     \/ /\ channel[q].state = "RECEIVED"
                                        /\ channel[q].full = F /\ channel[q].agreed = x
    BY WelcomedOnly
  <2>2. channel[q].state = "RECEIVED" /\ channel[q].full = F =>
            \A x : Welcomed(q, F, x) => x = channel[q].agreed
    BY DEF ClearInv, NotYet
  <2>3. Welcomed(q, F, b) /\ Welcomed(q, F, d) => b = d
    BY DEF ClearInv, OneAnswer
  <2> QED BY <2>1, <2>2, <2>3, <1>3
<1>4. ASSUME NEW q \in Peers, channel'[q].state = "RECEIVED", NEW F, F = channel'[q].full
      PROVE  (Has(q, F) /\ Same(channel[q], channel'[q])) \/ (Gains(q, F) /\ q = p)
  <2>1. CASE q # p
    BY <1>1, <1>4, <2>1 DEF Has, Same
  <2>2. CASE q = p
    <3>1. Has(p, F)'
      BY <1>4, <2>2 DEF Has
    <3>2. CASE Gains(p, F)
      BY <2>2, <3>2
    <3>3. CASE Has(p, F)
      <4>1. ~Receives(p)
        BY <3>3 DEF Receives, Hello, ChannelFor, Has
      <4> QED BY <4>1, <3>3, <1>4, <2>2 DEF Kind, Stays, Starts, Establishes, Tells
    <3> QED BY <3>1, <3>2, <3>3, GainsOnly
  <2> QED BY <2>1, <2>2
<1>5. ASSUME NEW q \in Peers, channel'[q].state = "RECEIVED", NEW F, F = channel'[q].full
      PROVE  ~Works(q, F)' /\ \A b : Welcomed(q, F, b)' => b = channel'[q].agreed
  <2>1. CASE Has(q, F) /\ Same(channel[q], channel'[q])
    <3>1. ~Works(q, F) /\ \A b : Welcomed(q, F, b) => b = channel'[q].agreed
      BY <1>5, <2>1 DEF ClearInv, NotYet, Has, Same
    <3>2. ~Works(q, F)'
      BY <3>1, <1>5, WorksOnly
    <3> QED BY <3>1, <3>2, <2>1, WelcomedOnly DEF Same
  <2>2. CASE Gains(q, F) /\ q = p
    <3>1. ~Told(q, F)'
      BY <2>2, GainsUntold
    <3>2. ~Works(q, F)'
      BY <3>1, <1>5 DEF Told, Works
    <3>3. \A b : ~Welcomed(q, F, b)'
      BY <3>1 DEF Told, Welcomed
    <3> QED BY <3>2, <3>3
  <2> QED BY <2>1, <2>2, <1>4, <1>5
<1>6. ASSUME NEW m, NEW F, NEW noEncrypt, NEW resume, Convinces(p, m, F, noEncrypt, resume)
      PROVE  /\ noEncrypt \in BOOLEAN
             /\ noEncrypt <=> AllClear(F)
             /\ channel[p].state = "SENT" => ~Told(p, F)
  <2>1. noEncrypt \in BOOLEAN /\ Latest(p, F) /\ Told(Other(p), F)
    BY <1>6, ConvincedSession
  <2>2. CASE channel[p].state = "SENT"
    <3>1. ~Told(p, F)
      BY <2>1, <2>2 DEF Latest, SessInv, OlderHalves, WaitInv, TypeInv
    <3>2. \A b : ~Welcomed(p, F, b)
      BY <3>1, WelcomedTold
    <3>3. Welcomed(Other(p), F, m.bits) /\ noEncrypt = m.bits.noEncrypt
      BY <1>6, <2>2 DEF Convinces, Welcomed
    <3>4. \A b : Welcomed(Other(p), F, b) => b = m.bits
      BY <3>3, OtherPeer DEF ClearInv, OneAnswer
    <3> QED BY <2>1, <3>1, <3>2, <3>3, <3>4, OtherPeer DEF AllClear
  <2>3. CASE channel[p].state = "RECEIVED"
    <3>1. /\ channel[p].full = F /\ ~Works(p, F)
          /\ \A b : Welcomed(p, F, b) => b = channel[p].agreed
      BY <1>6, <2>3 DEF Convinces, ClearInv, NotYet
    <3>2. CASE m.type = "WELCOME"
      <4>1. Welcomed(Other(p), F, m.bits) /\ noEncrypt = m.bits.noEncrypt
        BY <1>6, <3>2 DEF Convinces, Welcomed
      <4>2. \A b : Welcomed(Other(p), F, b) => b = m.bits
        BY <4>1, OtherPeer DEF ClearInv, OneAnswer
      <4>3. noEncrypt => channel[p].agreed.noEncrypt
        BY <1>6, <3>2 DEF Convinces, ConfirmWELCOME
      <4> QED BY <2>1, <2>3, <3>1, <4>1, <4>2, <4>3, OtherPeer DEF AllClear
    <3>3. CASE m.type = "DATA"
      <4>1. Works(Other(p), F) /\ noEncrypt = channel[p].agreed.noEncrypt
        BY <1>6, <3>3 DEF Convinces, Works
      <4>2. Told(p, F)
        BY <4>1, OtherPeer DEF SessInv, Answered
      <4>3. Welcomed(p, F, channel[p].agreed)
        BY <4>2, <3>1, WelcomedTold
      <4>4. noEncrypt => \A d : Welcomed(Other(p), F, d) => d.noEncrypt
        BY <4>1, <4>3, <3>1, <2>3 DEF ClearInv, ClearAfter
      <4> QED BY <2>1, <2>3, <3>1, <4>1, <4>3, <4>4, OtherPeer DEF AllClear
    <3> QED BY <3>2, <3>3, <1>6 DEF Convinces
  <2> QED BY <2>2, <2>3, <1>6 DEF Convinces
<1>7. TellsNothing => \A q, F, b : Welcomed(q, F, b)' <=> Welcomed(q, F, b)
  BY DEF TellsNothing, Welcomed, Keyings
<1>8. ASSUME NEW q \in Peers, channel'[q].state = "ESTABLISHED", NEW F, F = channel'[q].full
      PROVE  channel'[q].noEncrypt <=> AllClear(F)'
  <2>1. Works(q, F)'
    BY <1>8 DEF Works
  <2>2. CASE Same(channel[q], channel'[q])
    <3>1. Works(q, F) /\ (channel'[q].noEncrypt <=> AllClear(F))
      BY <1>8, <2>2 DEF Same, Works, ClearInv, ClearAsTold
    <3>2. \A b : \A r \in Peers : Welcomed(r, F, b) <=> Welcomed(r, F, b)'
      BY <3>1, OldWelcome
    <3> QED BY <3>1, <3>2 DEF AllClear
  <2>3. CASE q = p /\ Establishes(p)
    <3>1. PICK m, resume : Convinces(p, m, F, channel'[p].noEncrypt, resume)
      BY <2>3, <1>8 DEF Establishes
    <3>2. channel'[p].noEncrypt <=> AllClear(F)
      <4> DEFINE e == channel'[p].noEncrypt
      <4>1. \A x : x = e => (x <=> AllClear(F)) /\ x \in BOOLEAN
        BY <3>1, <1>6
      <4> QED BY <4>1
    <3>3. AllClear(F) <=> AllClear(F)'
      <4>1. TellsNothing
        BY <2>3 DEF Establishes
      <4> QED BY <4>1, <1>7 DEF AllClear
    <3> QED BY <2>3, <3>2, <3>3
  <2>4. Same(channel[q], channel'[q]) \/ (q = p /\ Establishes(p))
    BY <1>1, <1>8 DEF Same, Kind, Stays, Starts, Receives, Tells
  <2> QED BY <2>2, <2>3, <2>4
<1>9. ASSUME NEW q \in Peers, channel'[q].state = "RECEIVED", NEW F, F = channel'[q].full,
             Works(Other(q), F)', NEW b, NEW d,
             Welcomed(q, F, b)', Welcomed(Other(q), F, d)', b.noEncrypt
      PROVE  d.noEncrypt
  <2>1. Other(q) \in Peers /\ Other(q) # q /\ Other(Other(q)) = q
    BY OtherPeer
  <2>2. CASE Works(Other(q), F)
    <3>1. Told(q, F)
      BY <2>1, <2>2 DEF SessInv, Answered
    <3>2. Has(q, F) /\ Same(channel[q], channel'[q])
      BY <3>1, <1>4, <1>9, GainsUntold
    <3>3. Welcomed(q, F, b) /\ Welcomed(Other(q), F, d)
      BY <2>1, <2>2, <1>9, OldWelcome
    <3> QED BY <2>2, <3>2, <3>3, <1>9 DEF ClearInv, ClearAfter, Same, Has
  <2>3. CASE ~Works(Other(q), F)
    <3>1. Other(q) = p /\ TellsNothing
      BY <2>1, <2>3, <1>9, WorksOnly
    <3>2. PICK m, e, resume : Convinces(p, m, F, e, resume)
      BY <2>1, <2>3, <1>9, WorksOnly
    <3>3. channel[q] = channel'[q] /\ Welcomed(q, F, b) /\ Welcomed(p, F, d)
      BY <2>1, <3>1, <1>1, <1>7, <1>9
    <3>4. channel[p].state # "SENT"
      BY <1>6, <3>2, <3>3, WelcomedTold
    <3>5. channel[p].state = "RECEIVED" /\ channel[p].full = F /\ d = channel[p].agreed
      BY <3>2, <3>3, <3>4 DEF Convinces, ClearInv, NotYet
    <3>6. ~Works(q, F)
      BY <3>3, <1>9 DEF ClearInv, NotYet
    <3>7. m.type = "WELCOME" /\ m.from = q /\ m \in sent /\ m.full = F
      BY <3>1, <3>2, <3>6, <2>1 DEF Convinces, Works
    <3>8. m.bits = b
      BY <3>3, <3>7 DEF Welcomed, ClearInv, OneAnswer
    <3> QED BY <3>2, <3>5, <3>7, <3>8, <1>9 DEF Convinces, ConfirmWELCOME
  <2> QED BY <2>2, <2>3
<1>10. \A q \in Peers : OneAnswer(q)'
  BY <1>3 DEF OneAnswer
<1>11. \A q \in Peers : NotYet(q)'
  BY <1>5 DEF NotYet
<1>12. \A q \in Peers : ClearAsTold(q)'
  BY <1>8 DEF ClearAsTold
<1>13. \A q \in Peers : ClearAfter(q)'
  BY <1>9 DEF ClearAfter, Other
<1> QED BY <1>10, <1>11, <1>12, <1>13 DEF ClearInv

LEMMA InitClear == Init => ClearInv
<1> SUFFICES ASSUME Init PROVE ClearInv
  OBVIOUS
<1>1. sent = {} /\ \A p \in Peers : channel[p].state = "none"
  BY DEF Init, NoChannel
<1> QED BY <1>1 DEF ClearInv, OneAnswer, NotYet, ClearAsTold, ClearAfter, Welcomed

LEMMA NextClear ==
    ASSUME WaitInv, WaitInv', SoundInv, SoundInv', SessInv, ClearInv, [Next]_vars
    PROVE  ClearInv'
<1>1. CASE Next
  BY <1>1, NextKind, ClearStep DEF WaitInv
<1>2. CASE UNCHANGED vars
  <2>1. channel' = channel /\ sent' = sent
    BY <1>2 DEF vars
  <2>2. ASSUME NEW p
        PROVE  /\ \A F, b : Welcomed(p, F, b) <=> Welcomed(p, F, b)'
               /\ \A F : Works(p, F) <=> Works(p, F)'
    BY <2>1 DEF Welcomed, Works
  <2>3. \A F : AllClear(F) <=> AllClear(F)'
    BY <2>2 DEF AllClear
  <2>4. \A p : OneAnswer(p) => OneAnswer(p)'
    BY <2>2 DEF OneAnswer
  <2>5. \A p : NotYet(p) => NotYet(p)'
    BY <2>1, <2>2 DEF NotYet
  <2>6. \A p : ClearAsTold(p) => ClearAsTold(p)'
    BY <2>1, <2>3 DEF ClearAsTold
  <2>7. \A p : ClearAfter(p) => ClearAfter(p)'
    BY <2>1, <2>2 DEF ClearAfter, Other
  <2> QED BY <2>4, <2>5, <2>6, <2>7 DEF ClearInv
<1> QED BY <1>1, <1>2

LEMMA EstablishedSame ==
    ASSUME WaitInv, SoundInv, SessInv, NEW p \in Peers, NEW q \in Peers,
           channel[p].state = "ESTABLISHED", channel[q].state = "ESTABLISHED"
    PROVE  channel[p].full = channel[q].full
<1>1. CASE p = q
  BY <1>1
<1>2. CASE q = Other(p)
  <2> DEFINE F == channel[p].full
             G == channel[q].full
  <2>1. Has(p, F) /\ Has(q, G) /\ Works(p, F) /\ Works(q, G)
    BY DEF Has, Works
  <2>2. Other(q) = p
    BY <1>2, OtherPeer
  <2>3. Told(q, F) /\ Told(p, G)
    BY <2>1, <2>2, <1>2 DEF SessInv, Answered
  <2> HIDE DEF F, G
  <2>4. Holds(p, F) /\ Holds(q, F) /\ Holds(p, G) /\ Holds(q, G)
    BY <2>1, <2>3 DEF Holds
  <2>5. NumberOf(F, p) = halves[p] /\ NumberOf(G, q) = halves[q]
    BY <2>1, <2>4, HoldsSession
  <2>6. F = G
    BY <2>4, <2>5, <1>2, SameSession
  <2> QED BY <2>6 DEF F, G
<1> QED BY <1>1, <1>2, OtherPeer

\* When both channels work, both ends have the same keys, and both or neither
\* encrypt: "the ultimate bad news" of negotiation.fun does not come, whatever is
\* lost, repeated, late or answered after a crash.
THEOREM NoUltimateBadNews == Spec => []KeysAgree
<1>1. Init => WaitInv /\ SoundInv /\ SessInv /\ ClearInv
  BY InitWaits, InitSound, InitSess, InitClear
<1>2. /\ WaitInv /\ SoundInv /\ SessInv /\ ClearInv /\ [Next]_vars
      => (WaitInv /\ SoundInv /\ SessInv /\ ClearInv)'
  BY NextWaits, NextSound, NextSess, NextClear
<1>3. WaitInv /\ SoundInv /\ SessInv /\ ClearInv => KeysAgree
  <2> SUFFICES ASSUME WaitInv, SoundInv, SessInv, ClearInv, Established = Peers,
                      NEW p \in Peers, NEW q \in Peers
               PROVE  /\ channel[p].full = channel[q].full
                      /\ channel[p].noEncrypt = channel[q].noEncrypt
    BY DEF KeysAgree
  <2>1. channel[p].state = "ESTABLISHED" /\ channel[q].state = "ESTABLISHED"
    BY DEF Established
  <2>2. channel[p].full = channel[q].full
    BY <2>1, EstablishedSame
  <2>3. channel[p].noEncrypt <=> channel[q].noEncrypt
    BY <2>1, <2>2 DEF ClearInv, ClearAsTold
  <2>4. channel[p].noEncrypt \in BOOLEAN /\ channel[q].noEncrypt \in BOOLEAN
    BY <2>1 DEF SoundInv, SoundChannel
  <2> QED BY <2>2, <2>3, <2>4
<1> QED BY <1>1, <1>2, <1>3, PTL DEF Spec
-----------------------------------------------------------------------------
(***************************************************************************)
(* Streams.  An end offers to resume if it knows the other and is asked to;    *)
(* else it wipes its streams, and so does the other end.  It may have          *)
(* forgotten the other when the session starts, and resumes with a new host    *)
(* object then, whose epoch is none.                                         *)
(***************************************************************************)
KnownAsAgreed(p) ==
    LET c == channel[p] IN
    /\ ~host[p].known => host[p].epoch = NoFull
    /\ c.state = "RECEIVED" /\ ~c.agreed.resume => ~host[p].known

\* Whoever asks to wipe has no streams, or those of the session it asks for.
AskedToWipe(p) ==
    LET c == channel[p]
        q == Other(p)
    IN \A F, b : Welcomed(q, F, b) /\ ~b.resume =>
          /\ c.state = "SENT" /\ NumberOf(F, p) = halves[p] => host[q].epoch = NoFull
          /\ c.state = "RECEIVED" /\ c.full = F => host[q].epoch \in {NoFull, F}

\* An end that was asked to wipe, and works, did.
WipesToo(p) ==
    LET c == channel[p]
        q == Other(p)
    IN c.state = "RECEIVED" /\ ~c.agreed.resume /\ Works(q, c.full) =>
          host[q].epoch \in {NoFull, c.full}

OneEpoch(p) ==
    host[p].epoch = host[Other(p)].epoch \/ NoFull \in {host[p].epoch, host[Other(p)].epoch}

StreamInv == \A p \in Peers : KnownAsAgreed(p) /\ AskedToWipe(p) /\ WipesToo(p) /\ OneEpoch(p)

\* p enters the session F, and wipes its streams or not.
Settles(p, F) ==
    /\ halves'[p] = halves[p] /\ TellsNothing
    /\ \E m, e, resume :
          /\ Convinces(p, m, F, e, resume)
          /\ host'[p].known /\ (~resume => host'[p].epoch = F)
          /\ resume => host'[p].epoch \in {host[p].epoch, NoFull}

LEMMA HostOnly ==
    ASSUME NEW p \in Peers, Kind(p)
    PROVE  KeepsHost(p) \/ LosesHost(p) \/ \E F : Settles(p, F)
BY DEF Kind, Stays, Starts, Receives, Establishes, Tells, Settles

\* The session that an end enters is not older than one the other end has, or
\* may enter, by its latest half.
LEMMA NoOtherSession ==
    ASSUME WaitInv, SoundInv, SessInv, NEW p \in Peers, NEW q \in Peers, q = Other(p),
           NEW m, NEW G, NEW e, NEW r, Convinces(p, m, G, e, r),
           NEW F, Told(p, F), NumberOf(F, q) = halves[q]
    PROVE  /\ channel[q].state # "SENT"
           /\ Holds(q, F) => F = G
<1>1. Latest(p, G) /\ Told(q, G) /\ Holds(q, G) /\ Holds(p, F) /\ Session(G)
  BY ConvincedSession DEF Holds, Latest
<1>2. /\ NumberOf(F, p) \in Nat /\ NumberOf(G, p) \in Nat
      /\ NumberOf(F, q) \in Nat /\ NumberOf(G, q) \in Nat
      /\ NumberOf(F, p) <= halves[p] /\ NumberOf(G, q) <= halves[q]
      /\ NumberOf(G, p) = halves[p] /\ halves[p] \in Nat
  <2>1. NumberOf(F, p) \in 1..halves[p] /\ NumberOf(F, q) \in Nat
    BY <1>1, HoldsSession
  <2>2. NumberOf(G, q) \in 1..halves[q] /\ NumberOf(G, p) \in Nat
    BY <1>1, HoldsSession
  <2> QED BY <2>1, <2>2, <1>1 DEF Latest, WaitInv, TypeInv
<1>3. NumberOf(F, p) < NumberOf(G, p) \/ F = G
  <2>1. CASE channel[p].state = "SENT"
    BY <2>1, <1>2 DEF SessInv, OlderHalves
  <2>2. CASE channel[p].state = "RECEIVED"
    <3>1. Holds(p, G)
      BY <2>2 DEF Convinces, Holds, Has
    <3> QED BY <3>1, <1>1, <1>2 DEF SessInv, OneUse
  <2> QED BY <2>1, <2>2 DEF Convinces
<1>4. ~(NumberOf(G, q) < NumberOf(F, q) /\ NumberOf(F, p) < NumberOf(G, p))
  <2>1. Other(q) = p
    BY OtherPeer
  <2> QED BY <2>1, <1>1 DEF SessInv, NoCross
<1>5. ASSUME channel[q].state = "SENT" PROVE FALSE
  <2>1. NumberOf(G, q) < NumberOf(F, q)
    BY <1>1, <1>5 DEF SessInv, OlderHalves
  <2> QED BY <2>1, <1>2, <1>3, <1>4
<1>6. ASSUME Holds(q, F) PROVE F = G
  <2>1. NumberOf(G, q) = NumberOf(F, q) => F = G
    BY <1>1, <1>6 DEF SessInv, OneUse
  <2> QED BY <2>1, <1>2, <1>3, <1>4
<1> QED BY <1>5, <1>6

\* An end that asks the other to wipe does so itself.
LEMMA WipesItself ==
    ASSUME WaitInv, SoundInv, SessInv, ClearInv, NEW p \in Peers,
           NEW m, NEW F, NEW e, NEW resume, Convinces(p, m, F, e, resume),
           NEW b, Welcomed(p, F, b), ~b.resume
    PROVE  ~resume
<1>1. channel[p].state # "SENT"
  <2>1. Latest(p, F) /\ Told(p, F)
    BY ConvincedSession, WelcomedTold
  <2> QED BY <2>1 DEF Latest, SessInv, OlderHalves, WaitInv, TypeInv
<1>2. channel[p].state = "RECEIVED" /\ channel[p].full = F
  BY <1>1 DEF Convinces
<1>3. channel[p].agreed = b
  BY <1>2 DEF ClearInv, NotYet
<1> QED BY <1>2, <1>3 DEF Convinces, ConfirmWELCOME

\* What p asks or is asked after a step of p, in an attempt of p.
LEMMA AttemptOnly ==
    ASSUME WaitInv, WaitInv', SoundInv, SoundInv', SessInv, ClearInv, NEW p \in Peers, Kind(p),
           channel'[p].state \in {"SENT", "RECEIVED"}
    PROVE  \/ Same(channel[p], channel'[p]) /\ halves'[p] = halves[p]
           \/ /\ KeepsHost(p) /\ TellsNothing
              /\ Starts(p) \/ Receives(p)
              /\ \/ channel[p].state = "SENT" /\ halves'[p] = halves[p]
                 \/ halves'[p] = halves[p] + 1
<1>1. CASE Stays(p) \/ Tells(p)
  BY <1>1 DEF Stays, Tells
<1>2. CASE Establishes(p)
  BY <1>2 DEF Establishes
<1>3. ASSUME NEW half, NEW suite, NEW h, Halved(p, half, suite, h),
             half # NoHalf => channel[p].state = "SENT"
      PROVE  \/ channel[p].state = "SENT" /\ halves'[p] = halves[p]
             \/ halves'[p] = halves[p] + 1
  BY <1>3 DEF Halved
<1>4. CASE Starts(p)
  <2>1. CASE Halved(p, NoHalf, Cheapest(own[p].publickey), channel'[p].half)
    BY <2>1, <1>3, <1>4 DEF Starts
  <2>2. ASSUME NEW m, Hello(p, m),
               Halved(p, HalfAgainst(p, m), Cheapest(Common(p, m).publickey), channel'[p].half)
        PROVE  \/ channel[p].state = "SENT" /\ halves'[p] = halves[p]
               \/ halves'[p] = halves[p] + 1
    <3>1. HalfAgainst(p, m) # NoHalf => channel[p].state = "SENT"
      BY <2>2, CommonOffered DEF WaitInv
    <3> QED BY <2>2, <3>1, <1>3
  <2> QED BY <2>1, <2>2, <1>4 DEF Starts
<1>5. CASE Receives(p)
  <2>1. PICK m : /\ Hello(p, m)
                 /\ Halved(p, HalfAgainst(p, m), Cheapest(m.bits.publickey), channel'[p].half)
    BY <1>5 DEF Receives
  <2>2. HalfAgainst(p, m) # NoHalf => channel[p].state = "SENT"
    BY <2>1, CommonOffered DEF WaitInv
  <2> QED BY <2>1, <2>2, <1>3, <1>5 DEF Receives
<1> QED BY <1>1, <1>2, <1>4, <1>5 DEF Kind

LEMMA KnownStep ==
    ASSUME WaitInv, WaitInv', SoundInv, NEW p \in Peers, Kind(p), StreamInv, NEW q \in Peers
    PROVE  KnownAsAgreed(q)'
<1>1. KnownAsAgreed(q)
  BY DEF StreamInv
<1>2. CASE q # p
  <2>1. channel'[q] = channel[q] /\ host'[q] = host[q]
    BY <1>2, KindHalves
  <2> QED BY <2>1, <1>1 DEF KnownAsAgreed
<1>3. CASE q = p /\ (Stays(p) \/ Tells(p))
  BY <1>1, <1>3 DEF KnownAsAgreed, Stays, Tells, Same, KeepsHost, LosesHost
<1>4. CASE q = p /\ Starts(p)
  BY <1>1, <1>4 DEF Starts, KeepsHost, KnownAsAgreed
<1>5. CASE q = p /\ Receives(p)
  <2>1. channel'[p].state = "RECEIVED" /\ KeepsHost(p)
    BY <1>5 DEF Receives
  <2>2. PICK m : Hello(p, m) /\ Usable(p, m) /\ channel'[p].agreed = Common(p, m)
    BY <1>5 DEF Receives
  <2> QED BY <1>1, <2>1, <2>2, <1>5, CommonOffered DEF KnownAsAgreed, WaitInv, KeepsHost
<1>6. CASE q = p /\ Establishes(p)
  BY <1>6 DEF Establishes, KnownAsAgreed
<1> QED BY <1>2, <1>3, <1>4, <1>5, <1>6 DEF Kind

\* What was asked of the actor, or of the other end.
LEMMA AskedStep ==
    ASSUME WaitInv, WaitInv', SoundInv, SoundInv', SessInv, ClearInv, NEW p \in Peers, Kind(p),
           StreamInv, NEW a \in Peers
    PROVE  AskedToWipe(a)'
<1> DEFINE o == Other(a)
<1>1. /\ o \in Peers /\ o # a /\ Other(o) = a /\ \A r \in Peers : r = a \/ r = o
      /\ \A r \in Peers : halves[r] \in Nat
  BY OtherPeer DEF WaitInv, TypeInv
<1>2. \A r \in Peers \ {p} : /\ channel'[r] = channel[r] /\ host'[r] = host[r]
                             /\ halves'[r] = halves[r]
  BY KindHalves
<1> HIDE DEF o
<1>3. SUFFICES ASSUME NEW F, NEW b, Welcomed(o, F, b)', ~b.resume
               PROVE  /\ channel'[a].state = "SENT" /\ NumberOf(F, a) = halves'[a]
                         => host'[o].epoch = NoFull
                      /\ channel'[a].state = "RECEIVED" /\ channel'[a].full = F
                         => host'[o].epoch \in {NoFull, F}
  BY DEF AskedToWipe, NumberOf, Other, o
<1>4. AskedToWipe(a)
  BY DEF StreamInv
<1>5. CASE p = a
  <2>1. Welcomed(o, F, b) /\ host'[o] = host[o]
    BY <1>1, <1>2, <1>3, <1>5, WelcomedOnly
  <2>2. Told(o, F)
    BY <2>1, WelcomedTold
  <2>3. NumberOf(F, a) \in 1..halves[a]
    BY <2>2, <1>1, HoldsSession DEF Holds
  <2>4. CASE Same(channel[a], channel'[a]) /\ halves'[a] = halves[a]
    BY <2>1, <2>4, <1>3, <1>4 DEF AskedToWipe, Same, o
  <2>5. CASE halves'[a] = halves[a] + 1
    <3>1. NumberOf(F, a) # halves'[a]
      BY <2>3, <2>5, <1>1
    <3>2. channel'[a].state = "RECEIVED" /\ channel'[a].full = F => NumberOf(F, a) = halves'[a]
      <4>1. Has(p, F)' => Has(p, F) \/ Gains(p, F)
        BY GainsOnly
      <4>2. Has(p, F) => NumberOf(F, a) = halves[a]
        BY <1>5, HoldsSession DEF Holds
      <4>3. SoundChannel(p)'
        BY DEF SoundInv
      <4>4. Has(p, F)' => (NumberOf(F, p) = halves[p])'
        BY <4>3 DEF SoundChannel, Latest, Has, NumberOf
      <4> QED BY <4>4, <1>5 DEF Has, NumberOf
    <3> QED BY <3>1, <3>2
  <2>6. CASE channel[a].state = "SENT" /\ halves'[a] = halves[a]
    <3>1. NumberOf(F, a) = halves'[a] => host[o].epoch = NoFull
      BY <2>1, <2>6, <1>3, <1>4 DEF AskedToWipe, o
    <3>2. channel'[a].state = "RECEIVED" /\ channel'[a].full = F => NumberOf(F, a) = halves'[a]
      <4>1. Has(p, F)' => Has(p, F) \/ Gains(p, F)
        BY GainsOnly
      <4> QED BY <4>1, <2>6, <1>5 DEF Has, Gains
    <3> QED BY <3>1, <3>2, <2>1
  <2> QED BY <2>4, <2>5, <2>6, <1>5, AttemptOnly
<1>6. CASE p = o
  <2>1. channel'[a] = channel[a] /\ halves'[a] = halves[a]
    BY <1>1, <1>2, <1>6
  <2>2. CASE ~Welcomed(o, F, b)
    <3>1. /\ channel[o].state = "RECEIVED" /\ channel[o].agreed = b
          /\ channel'[o].state = "RECEIVED" /\ channel'[o].agreed = b
      BY <2>2, <1>3, <1>6, WelcomedOnly DEF Same
    <3>2. KnownAsAgreed(o)'
      BY <1>1, KnownStep
    <3>3. host'[o].epoch = NoFull
      BY <3>1, <3>2, <1>3 DEF KnownAsAgreed
    <3> QED BY <3>3
  <2>3. CASE Welcomed(o, F, b)
    <3>1. Told(o, F)
      BY <2>3, WelcomedTold
    <3>2. CASE KeepsHost(o) \/ LosesHost(o)
      BY <2>1, <2>3, <3>2, <1>3, <1>4 DEF AskedToWipe, KeepsHost, LosesHost, o
    <3>3. ASSUME NEW G, Settles(o, G)
          PROVE  /\ channel[a].state = "SENT" => NumberOf(F, a) # halves[a]
                 /\ channel[a].state = "RECEIVED" /\ channel[a].full = F => host'[o].epoch = F
      <4>1. PICK m, e, resume : /\ Convinces(o, m, G, e, resume)
                                /\ ~resume => host'[o].epoch = G
        BY <3>3 DEF Settles
      <4>2. NumberOf(F, a) = halves[a] =>
               channel[a].state # "SENT" /\ (Holds(a, F) => F = G)
        BY <3>1, <4>1, <1>1, NoOtherSession
      <4>3. Has(a, F) => Holds(a, F) /\ NumberOf(F, a) = halves[a]
        BY HoldsSession DEF Holds
      <4>4. F = G => ~resume
        BY <4>1, <2>3, <1>1, <1>3, WipesItself
      <4> QED BY <4>1, <4>2, <4>3, <4>4 DEF Has
    <3> QED BY <2>1, <3>2, <3>3, <1>6, HostOnly
  <2> QED BY <2>2, <2>3
<1> QED BY <1>1, <1>5, <1>6

LEMMA WipesStep ==
    ASSUME WaitInv, WaitInv', SoundInv, SoundInv', SessInv, ClearInv, NEW p \in Peers, Kind(p),
           StreamInv, NEW a \in Peers
    PROVE  WipesToo(a)'
<1> DEFINE o == Other(a)
<1>1. /\ o \in Peers /\ o # a /\ Other(o) = a /\ \A r \in Peers : r = a \/ r = o
  BY OtherPeer
<1>2. \A r \in Peers \ {p} : channel'[r] = channel[r] /\ host'[r] = host[r]
  BY KindHalves
<1> HIDE DEF o
<1>3. SUFFICES ASSUME NEW F, channel'[a].state = "RECEIVED", channel'[a].full = F,
                      ~channel'[a].agreed.resume, Works(o, F)'
               PROVE  host'[o].epoch \in {NoFull, F}
  BY DEF WipesToo, Other, o
<1>4. WipesToo(a) /\ Answered(o)
  BY <1>1 DEF StreamInv, SessInv
<1>5. CASE p = a
  <2>1. Works(o, F) /\ host'[o] = host[o]
    BY <1>1, <1>2, <1>3, <1>5, WorksOnly
  <2>2. Told(a, F)
    BY <2>1, <1>1, <1>4 DEF Answered
  <2>3. Same(channel[a], channel'[a])
    <3>1. Has(p, F)' /\ ~Gains(p, F)
      BY <2>2, <1>3, <1>5, GainsUntold DEF Has
    <3>2. Has(p, F)
      BY <3>1, GainsOnly
    <3>3. ~Receives(p) /\ ~Starts(p) /\ ~Establishes(p)
      BY <3>2, <1>3, <1>5 DEF Receives, Hello, ChannelFor, Has, Starts, Establishes
    <3> QED BY <3>3, <1>3, <1>5 DEF Kind, Stays, Tells
  <2> QED BY <2>1, <2>3, <1>3, <1>4 DEF WipesToo, Same, o
<1>6. CASE p = o
  <2>1. channel'[a] = channel[a]
    BY <1>1, <1>2, <1>6
  <2>2. ~Works(a, F) /\ \A b : Welcomed(a, F, b) => b = channel[a].agreed
    BY <2>1, <1>3 DEF ClearInv, NotYet
  <2>3. CASE ~Works(o, F)
    <3>1. PICK m, resume : /\ Convinces(o, m, F, channel'[o].noEncrypt, resume)
                           /\ ~resume => host'[o].epoch = F
      BY <2>3, <1>3, <1>6, WorksOnly
    <3>2. /\ m \in sent /\ m.from = a /\ m.full = F
          /\ m.type = "DATA" \/ (m.type = "WELCOME" /\ resume = m.bits.resume)
      BY <3>1, <1>1 DEF Convinces
    <3>3. m.type # "DATA"
      BY <3>2, <2>2 DEF Works
    <3>4. m.bits = channel[a].agreed
      BY <3>2, <3>3, <2>2 DEF Welcomed
    <3> QED BY <3>1, <3>2, <3>3, <3>4, <2>1, <1>3
  <2>4. CASE Works(o, F) /\ (KeepsHost(o) \/ LosesHost(o))
    BY <2>1, <2>4, <1>3, <1>4 DEF WipesToo, KeepsHost, LosesHost, o
  <2>5. ASSUME Works(o, F), NEW G, Settles(o, G) PROVE FALSE
    <3>1. PICK m, e, resume : Convinces(o, m, G, e, resume)
      BY <2>5 DEF Settles
    <3>2. Has(a, F) /\ Holds(a, F)
      BY <2>1, <1>3 DEF Has, Holds
    <3>3. NumberOf(F, a) = halves[a]
      BY <3>2, HoldsSession
    <3>4. channel[o].state \in {"SENT", "RECEIVED"}
      BY <3>1 DEF Convinces
    <3>5. Told(o, F)
      BY <2>5, <3>4 DEF Works, Told
    <3>6. F = G
      BY <3>1, <3>2, <3>3, <3>5, <1>1, NoOtherSession
    <3>7. Latest(o, F)
      BY <3>1, <3>6, <1>1, ConvincedSession
    <3>8. channel[o].state # "SENT"
      BY <3>5, <3>7, <1>1 DEF Latest, SessInv, OlderHalves, WaitInv, TypeInv
    <3>9. channel[o].state = "RECEIVED" /\ channel[o].full = F
      BY <3>1, <3>4, <3>6, <3>8 DEF Convinces
    <3> QED BY <2>5, <3>9, <1>1 DEF ClearInv, NotYet
  <2> QED BY <2>3, <2>4, <2>5, <1>6, HostOnly
<1> QED BY <1>1, <1>5, <1>6

\* The ends have the same epoch, or one has none.
LEMMA EpochStep ==
    ASSUME WaitInv, WaitInv', SoundInv, SessInv, ClearInv, NEW p \in Peers, Kind(p),
           StreamInv, NEW a \in Peers
    PROVE  OneEpoch(a)'
<1> DEFINE o == Other(p)
<1>1. /\ o \in Peers /\ o # p /\ \A r \in Peers : r = p \/ r = o
      /\ Other(o) = p
  BY OtherPeer
<1>2. host'[o] = host[o]
  BY <1>1, KindHalves
<1> HIDE DEF o
<1>3. ASSUME host'[p].epoch # NoFull, host'[o].epoch # NoFull
      PROVE  host'[p].epoch = host'[o].epoch
  <2>1. OneEpoch(p) /\ AskedToWipe(p) /\ WipesToo(p)
    BY DEF StreamInv
  <2>2. CASE KeepsHost(p)
    BY <2>1, <2>2, <1>2, <1>3 DEF OneEpoch, KeepsHost, o
  <2>3. ASSUME NEW F, Settles(p, F) PROVE host'[p].epoch = host'[o].epoch
    <3>1. PICK m, e, resume : /\ Convinces(p, m, F, e, resume)
                              /\ ~resume => host'[p].epoch = F
                              /\ resume => host'[p].epoch \in {host[p].epoch, NoFull}
      BY <2>3 DEF Settles
    <3>2. Latest(p, F)
      BY <3>1, ConvincedSession
    <3>3. CASE resume
      BY <2>1, <3>1, <3>3, <1>2, <1>3 DEF OneEpoch, o
    <3>4. CASE ~resume /\ m.type = "WELCOME"
      <4>1. Welcomed(o, F, m.bits) /\ ~m.bits.resume
        BY <3>1, <3>4 DEF Convinces, Welcomed, o
      <4>2. channel[p].state # "SENT"
        BY <2>1, <3>2, <4>1, <1>2, <1>3 DEF AskedToWipe, Latest, o
      <4>3. channel[p].state = "RECEIVED" /\ channel[p].full = F
        BY <3>1, <4>2 DEF Convinces
      <4> QED BY <2>1, <3>1, <3>4, <4>1, <4>3, <1>2, <1>3 DEF AskedToWipe, o
    <3>5. CASE ~resume /\ m.type = "DATA"
      <4>1. /\ channel[p].state = "RECEIVED" /\ channel[p].full = F
            /\ ~channel[p].agreed.resume /\ Works(o, F)
        BY <3>1, <3>5 DEF Convinces, Works, o
      <4> QED BY <2>1, <3>1, <3>5, <4>1, <1>2, <1>3 DEF WipesToo, o
    <3> QED BY <3>1, <3>3, <3>4, <3>5 DEF Convinces
  <2> QED BY <2>2, <2>3, <1>3, HostOnly DEF LosesHost
<1>4. CASE a = p
  BY <1>3, <1>4 DEF OneEpoch, Other, o
<1>5. CASE a = o
  <2>1. Other(a) = p
    BY <1>1, <1>5
  <2> QED BY <2>1, <1>3, <1>5 DEF OneEpoch, Other
<1> QED BY <1>1, <1>4, <1>5

LEMMA InitStream == Init => StreamInv
<1> SUFFICES ASSUME Init PROVE StreamInv
  OBVIOUS
<1>1. sent = {} /\ \A p \in Peers : channel[p].state = "none" /\ host[p].epoch = NoFull
  BY DEF Init, NoChannel, NoHost
<1>2. \A p \in Peers : Other(p) \in Peers
  BY OtherPeer
<1> QED BY <1>1, <1>2 DEF StreamInv, KnownAsAgreed, AskedToWipe, WipesToo, OneEpoch, Welcomed

LEMMA NextStream ==
    ASSUME WaitInv, WaitInv', SoundInv, SoundInv', SessInv, ClearInv, StreamInv, [Next]_vars
    PROVE  StreamInv'
<1>1. CASE Next
  BY <1>1, NextKind, KnownStep, AskedStep, WipesStep, EpochStep DEF WaitInv, StreamInv
<1>2. CASE UNCHANGED vars
  <2>1. channel' = channel /\ sent' = sent /\ host' = host /\ halves' = halves
    BY <1>2 DEF vars
  <2>2. ASSUME NEW p
        PROVE  /\ \A F, b : Welcomed(p, F, b) <=> Welcomed(p, F, b)'
               /\ \A F : Works(p, F) <=> Works(p, F)'
    BY <2>1 DEF Welcomed, Works
  <2>3. \A p : KnownAsAgreed(p) => KnownAsAgreed(p)'
    BY <2>1 DEF KnownAsAgreed
  <2>4. \A p : AskedToWipe(p) => AskedToWipe(p)'
    BY <2>1, <2>2 DEF AskedToWipe, NumberOf, Other
  <2>5. \A p : WipesToo(p) => WipesToo(p)'
    BY <2>1, <2>2 DEF WipesToo, Other
  <2>6. \A p : OneEpoch(p) => OneEpoch(p)'
    BY <2>1 DEF OneEpoch, Other
  <2> QED BY <2>3, <2>4, <2>5, <2>6 DEF StreamInv
<1> QED BY <1>1, <1>2

\* Ends whose channels work agree where their streams start from: the last
\* session for which one wiped them is the last for which the other did, though
\* either may have crashed, or forgotten the other, in between.  An end that
\* forgot the other during the attempt has streams that were never wiped.
THEOREM NobodyWipesAlone == Spec => []StreamsAgree
<1>1. Init => WaitInv /\ SoundInv /\ SessInv /\ ClearInv /\ StreamInv
  BY InitWaits, InitSound, InitSess, InitClear, InitStream
<1>2. /\ WaitInv /\ SoundInv /\ SessInv /\ ClearInv /\ StreamInv /\ [Next]_vars
      => (WaitInv /\ SoundInv /\ SessInv /\ ClearInv /\ StreamInv)'
  BY NextWaits, NextSound, NextSess, NextClear, NextStream
<1>3. StreamInv => StreamsAgree
  <2> SUFFICES ASSUME StreamInv, Established = Peers, NEW p \in Peers, NEW q \in Peers
               PROVE  \/ host[p].epoch = host[q].epoch
                      \/ NoFull \in {host[p].epoch, host[q].epoch}
    BY DEF StreamsAgree
  <2>1. q = p \/ q = Other(p)
    BY OtherPeer
  <2> QED BY <2>1 DEF StreamInv, OneEpoch
<1> QED BY <1>1, <1>2, <1>3, PTL DEF Spec
=============================================================================
