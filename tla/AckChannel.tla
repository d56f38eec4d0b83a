----------------------------- MODULE AckChannel -----------------------------
(***************************************************************************)
(* The acknowledgement layers of a CUSP channel: cusp/channel/              *)
(* delayed-ack.fun, which decides what a peer acknowledges and when, above  *)
(* cusp/channel/fast-retransmit.fun, which decides the fate of every        *)
(* packet the peer sent.  Two peers run both layers over UDP.               *)
(*                                                                          *)
(* The network is the set of packets ever sent: reception takes nothing     *)
(* out of it, so packets are lost, duplicated, delayed and reordered        *)
(* without an action of their own.  The layers below authenticate packets   *)
(* (negotiation.fun), so only packets of the peer arrive.  The layer above  *)
(* is any layer: it may refuse a packet (HostDispatch.recv answers false),  *)
(* and may have data to send at any time.  Clocks are abstracted: a timer   *)
(* that is set may go off at any moment.                                    *)
(***************************************************************************)
EXTENDS Integers, FiniteSets

CONSTANTS
    Peers,          \* the two ends of the channel
    Window,         \* width of the receive mask (16: a Word16)
    ReorderLimit,   \* reorderLimit of fast-retransmit.fun (3)
    MaxTsn,         \* bound of the model: the largest TSN
    Quota           \* bound of the model: how many packets each peer sends

ASSUME PeersAssumption == \E a, b \in Peers : a # b /\ Peers = {a, b}
ASSUME BoundsAssumption == /\ Window \in Nat \ {0}
                           /\ ReorderLimit \in Nat \ {0}
                           /\ MaxTsn \in Nat
                           /\ Quota \in [Peers -> 0..MaxTsn]

VARIABLES
    tsn,        \* TSN of the last packet each peer sent (0: none)
    new,        \* the ack of the newest packet seen: [rasn, mask]
    oop,        \* at most one ack of an out-of-order packet, as a set
    delay,      \* is the delayed-ack event scheduled?
    arts,       \* does the ack layer ask to send?
    queue,      \* TSNs of the sent packets whose fate is not decided
    alive,      \* FALSE once the peer destroyed its end
    sent,       \* network: the packets each peer sent
    fate,       \* history: what the ack callback of each packet was told
    accepted    \* history: how often the upper layer accepted each packet

vars == <<tsn, new, oop, delay, arts, queue, alive, sent, fate, accepted>>

Tsn == 1..MaxTsn
Ack == [rasn : 0..MaxTsn, mask : SUBSET (0..Window-1)]
Packet == [tsn : Tsn, asn : 0..MaxTsn, acklen : 0..Window-1, empty : BOOLEAN]
Statuses == {"ACK", "MISSING", "TIMEOUT"}

Other(p) == CHOOSE q \in Peers : q # p

(***************************************************************************)
(* Masks.  Bit i of a mask stands for the packet i before rasn.             *)
(***************************************************************************)

\* Word16.<< : bits shifted out of the word are gone.
ShiftLeft(mask, n) == {i \in 0..Window-1 : i - n \in mask}
\* Word16.>>
ShiftRight(mask, n) == {i \in 0..Window-1 : i + n \in mask}

\* Mutant: the run includes the first missing packet.
ackCountOneMore(mask) == 1 + Cardinality({n \in 0..Window-1 : 0..n \subseteq mask})

\* How many packets in a row the low end of the mask acknowledges.
ackCount(mask) == Cardinality({n \in 0..Window-1 : 0..n \subseteq mask})

\* The TSNs that a packet acknowledges.
AckRange(m) == {t \in Tsn : m.asn - m.acklen <= t /\ t <= m.asn}

-----------------------------------------------------------------------------
(***************************************************************************)
(* FastRetransmit                                                           *)
(***************************************************************************)

\* Fire the ack callbacks of the packets in S.  A packet whose callback had
\* already fired is marked, for the property that this never happens.
Fire(f, S, status) ==
    [t \in Tsn |-> IF t \notin S THEN f[t]
                   ELSE IF f[t] = "inflight" THEN status ELSE "REPEATED"]

\* reschedule: pop from the head of the queue while the head has expired.
Expired(Q) == {{t \in Q : t <= limit} : limit \in 0..MaxTsn}

\* recv: walk the queue up to asn.  A packet in the acknowledged range is
\* acknowledged, one ReorderLimit or more behind asn is missing, the others
\* stay; then whatever head has expired times out.
\* Mutant of Missing: the limit is off by one.
MissingEarly(Q, m) == {t \in Q : t < m.asn - m.acklen /\ m.asn - t >= ReorderLimit - 1}

Acked(Q, m) == Q \cap AckRange(m)
Missing(Q, m) == {t \in Q : t < m.asn - m.acklen /\ m.asn - t >= ReorderLimit}

AckCallbacksRecv(p, m) ==
    LET ack  == Acked(queue[p], m)
        miss == Missing(queue[p], m)
        rest == queue[p] \ (ack \cup miss)
    IN  \E late \in Expired(rest) :
          /\ queue' = [queue EXCEPT ![p] = rest \ late]
          /\ fate' = [fate EXCEPT ![p] =
                 Fire(Fire(Fire(@, ack, "ACK"), miss, "MISSING"), late, "TIMEOUT")]

\* Mutants: the expired packets stay in the queue; a lone packet never expires.
TimeoutKeeps(p) ==
    /\ alive[p]
    /\ \E late \in Expired(queue[p]) :
          late # {} /\ fate' = [fate EXCEPT ![p] = Fire(@, late, "TIMEOUT")]
    /\ UNCHANGED <<tsn, new, oop, delay, arts, queue, alive, sent, accepted>>
TimeoutOfOthers(p) ==
    /\ alive[p]
    /\ \E late \in Expired(queue[p]) :
          /\ late # {} /\ Cardinality(queue[p]) > 1
          /\ queue' = [queue EXCEPT ![p] = @ \ late]
          /\ fate' = [fate EXCEPT ![p] = Fire(@, late, "TIMEOUT")]
    /\ UNCHANGED <<tsn, new, oop, delay, arts, alive, sent, accepted>>

\* The expiry event: the head of the queue times out, and every further head
\* that has expired by now.
Timeout(p) ==
    /\ alive[p]
    /\ \E late \in Expired(queue[p]) :
          /\ late # {}
          /\ queue' = [queue EXCEPT ![p] = @ \ late]
          /\ fate' = [fate EXCEPT ![p] = Fire(@, late, "TIMEOUT")]
    /\ UNCHANGED <<tsn, new, oop, delay, arts, alive, sent, accepted>>

-----------------------------------------------------------------------------
(***************************************************************************)
(* DelayedAck                                                               *)
(***************************************************************************)

\* What follows an accepted packet that carried data: acknowledge at once if
\* an ack is already waiting or this one cannot wait, else in 5 ms.
ScheduleAck(p, m, doAck, cannotWait) ==
    IF m.empty \/ ~doAck THEN UNCHANGED <<delay, arts>>
    ELSE IF cannotWait \/ delay[p]
         THEN /\ delay' = [delay EXCEPT ![p] = FALSE]
              /\ arts'  = [arts EXCEPT ![p] = TRUE]
         ELSE /\ delay' = [delay EXCEPT ![p] = TRUE]
              /\ UNCHANGED arts

Accept(p, m, doAck) ==
    accepted' = IF doAck THEN [accepted EXCEPT ![p][m.tsn] = @ + 1] ELSE accepted

\* recv, first case: the newest packet yet.
RecvNewest(p, m, doAck) ==
    LET shift == m.tsn - new[p].rasn
        mask  == {0} \cup ShiftLeft(new[p].mask, shift)
    IN  /\ alive[p] /\ m \in sent[Other(p)]
        /\ m.empty => doAck
        /\ shift > 0
        /\ AckCallbacksRecv(p, m)
        /\ Accept(p, m, doAck)
        /\ new' = IF doAck THEN [new EXCEPT ![p] = [rasn |-> m.tsn, mask |-> mask]]
                  ELSE new
        /\ ScheduleAck(p, m, doAck, FALSE)
        /\ UNCHANGED <<tsn, oop, alive, sent>>

\* Mutant: a packet just out of the window is let through.
DiscardsLate(p, m) ==
    LET offset == new[p].rasn - m.tsn
    IN  offset >= 0 /\ (offset > Window \/ offset \in new[p].mask)

\* recv, second and third case: a packet that is too old, or was seen, is
\* dropped before the layers above hear of it.
Discards(p, m) ==
    LET offset == new[p].rasn - m.tsn
    IN  offset >= 0 /\ (offset >= Window \/ offset \in new[p].mask)

RecvDiscard(p, m) ==
    /\ alive[p] /\ m \in sent[Other(p)]
    /\ Discards(p, m)
    /\ UNCHANGED vars

\* recv, third case: an unseen packet within the window.  Unless the run of
\* received packets at the newest one now covers it, it gets an ack of its own.
RecvOutOfOrder(p, m, doAck) ==
    LET offset  == new[p].rasn - m.tsn
        newmask == new[p].mask \cup {offset}
        covered == ackCount(newmask) > offset
    IN  /\ alive[p] /\ m \in sent[Other(p)]
        /\ m.empty => doAck
        /\ offset >= 0 /\ ~Discards(p, m)
        /\ AckCallbacksRecv(p, m)
        /\ Accept(p, m, doAck)
        /\ new' = IF doAck
                  THEN [new EXCEPT ![p] = [rasn |-> new[p].rasn, mask |-> newmask]]
                  ELSE new
        /\ oop' = IF covered \/ m.empty \/ ~doAck THEN oop
                  ELSE [oop EXCEPT ![p] =
                          {[rasn |-> m.tsn, mask |-> ShiftRight(newmask, offset)]}]
        /\ ScheduleAck(p, m, doAck, ~covered)
        /\ UNCHANGED <<tsn, alive, sent>>

\* The delayed-ack event.
DelayOver(p) ==
    /\ alive[p] /\ delay[p]
    /\ delay' = [delay EXCEPT ![p] = FALSE]
    /\ arts' = [arts EXCEPT ![p] = TRUE]
    /\ UNCHANGED <<tsn, new, oop, queue, alive, sent, fate, accepted>>

\* The ack a packet carries: the out-of-order one if there is one.
AckToSend(p) == IF oop[p] = {} THEN new[p] ELSE CHOOSE a \in oop[p] : TRUE

\* pull: the channel may send because the ack layer or the layers above
\* asked to.  Only when the layers above asked to is their pull called, and
\* the fate of the packet recorded.
Pull(p, drts, empty) ==
    LET ack == AckToSend(p)
    IN  /\ alive[p] /\ tsn[p] < Quota[p]
        /\ drts \/ (arts[p] /\ empty)
        /\ tsn' = [tsn EXCEPT ![p] = @ + 1]
        /\ sent' = [sent EXCEPT ![p] = @ \cup
              {[tsn |-> tsn[p] + 1, asn |-> ack.rasn,
                acklen |-> ackCount(ack.mask) - 1, empty |-> empty]}]
        /\ oop' = [oop EXCEPT ![p] = {}]
        /\ arts' = [arts EXCEPT ![p] = FALSE]
        /\ delay' = [delay EXCEPT ![p] = FALSE]
        /\ IF drts
           THEN \E late \in Expired(queue[p]) :
                  /\ queue' = [queue EXCEPT ![p] = (@ \ late) \cup {tsn[p] + 1}]
                  /\ fate' = [fate EXCEPT ![p] =
                        [Fire(@, late, "TIMEOUT") EXCEPT ![tsn[p] + 1] = "inflight"]]
           ELSE UNCHANGED <<queue, fate>>
        /\ UNCHANGED <<new, alive, accepted>>

\* Mutant: the callbacks of undecided packets are dropped.
DestroyForgets(p) ==
    /\ alive[p]
    /\ alive' = [alive EXCEPT ![p] = FALSE]
    /\ delay' = [delay EXCEPT ![p] = FALSE]
    /\ UNCHANGED <<tsn, new, oop, arts, queue, sent, fate, accepted>>

\* destroy: every undecided packet is reported lost, so that its segments go
\* back to the retransmit heaps of their streams.  The queue is left as it is.
Destroy(p) ==
    /\ alive[p]
    /\ alive' = [alive EXCEPT ![p] = FALSE]
    /\ delay' = [delay EXCEPT ![p] = FALSE]
    /\ fate' = [fate EXCEPT ![p] = Fire(@, queue[p], "TIMEOUT")]
    /\ UNCHANGED <<tsn, new, oop, arts, queue, sent, accepted>>

-----------------------------------------------------------------------------
Init ==
    /\ tsn = [p \in Peers |-> 0]
    /\ new = [p \in Peers |-> [rasn |-> 0, mask |-> {0}]]
    /\ oop = [p \in Peers |-> {}]
    /\ delay = [p \in Peers |-> FALSE]
    /\ arts = [p \in Peers |-> TRUE]
    /\ queue = [p \in Peers |-> {}]
    /\ alive = [p \in Peers |-> TRUE]
    /\ sent = [p \in Peers |-> {}]
    /\ fate = [p \in Peers |-> [t \in Tsn |-> "unsent"]]
    /\ accepted = [p \in Peers |-> [t \in Tsn |-> 0]]

Next ==
    \E p \in Peers :
        \/ \E m \in sent[Other(p)] :
              \/ RecvDiscard(p, m)
              \/ \E doAck \in BOOLEAN :
                    RecvNewest(p, m, doAck) \/ RecvOutOfOrder(p, m, doAck)
        \/ DelayOver(p)
        \/ Timeout(p)
        \/ \E drts, empty \in BOOLEAN : Pull(p, drts, empty)
        \/ Destroy(p)

Spec == Init /\ [][Next]_vars

\* Events that are scheduled happen: the expiry event is always scheduled
\* while a packet is undecided.
FairSpec == Spec /\ \A p \in Peers : WF_vars(Timeout(p))

-----------------------------------------------------------------------------
(***************************************************************************)
(* Properties                                                               *)
(***************************************************************************)

\* Every variable stays in the set of values its comment gives, and the mask
\* always shows the packet it is relative to.
TypeOK ==
    /\ tsn \in [Peers -> 0..MaxTsn]
    /\ new \in [Peers -> Ack]
    /\ oop \in [Peers -> SUBSET Ack]
    /\ delay \in [Peers -> BOOLEAN]
    /\ arts \in [Peers -> BOOLEAN]
    /\ queue \in [Peers -> SUBSET Tsn]
    /\ alive \in [Peers -> BOOLEAN]
    /\ sent \in [Peers -> SUBSET Packet]
    /\ fate \in [Peers -> [Tsn -> Statuses \cup {"unsent", "inflight", "REPEATED"}]]
    /\ accepted \in [Peers -> [Tsn -> Nat]]

\* A sender is told ACK only for a packet that the other end's upper layer
\* took: masks, shifts, the out-of-order ack and the run encoding never
\* acknowledge a packet that was lost or refused, however packets overtake
\* and repeat each other.
NoFalseAck ==
    \A p \in Peers, t \in Tsn : fate[p][t] = "ACK" => accepted[Other(p)][t] > 0

\* A packet is declared MISSING only on evidence of reordering beyond the
\* limit: the other end took a packet sent at least ReorderLimit later.
MissingHasEvidence ==
    \A p \in Peers, t \in Tsn :
        fate[p][t] = "MISSING" =>
            \E u \in Tsn : u >= t + ReorderLimit /\ accepted[Other(p)][u] > 0

\* The ack callback of a packet fires at most once, whatever mixture of acks,
\* gaps, timeouts and destruction hits it: OutStreamQueue and Reno subtract
\* the packet's bytes in it.
FateDecidedOnce ==
    \A p \in Peers, t \in Tsn : fate[p][t] # "REPEATED"

\* The upper layer takes every packet at most once, although the network
\* repeats packets and refused ones are offered again.
AcceptedAtMostOnce ==
    \A p \in Peers, t \in Tsn : accepted[p][t] <= 1

\* A packet is taken only while less than Window packets behind the newest
\* taken one.  HostDispatch relies on it: after as many pulls a stream id may
\* be used again without old segments being mistaken for new ones.
AcceptedInWindow ==
    [][\A p \in Peers, t, u \in Tsn :
        accepted'[p][t] > accepted[p][t] /\ accepted[p][u] > 0 => u - t < Window]_vars

\* Each packet the layers above filled is eventually reported to them, acked
\* or lost: the timer is always running for the packets that are undecided.
FateDecided ==
    \A p \in Peers : \A t \in Tsn :
        fate[p][t] = "inflight" ~> fate[p][t] \in Statuses

\* To the layers above all this is a channel as they take it for granted: they
\* see the packets they fill and take, and what becomes of them, in an order and
\* for reasons that the masks, queues and timers underneath never contradict.
Abstract == INSTANCE Channel WITH taken <- accepted
ImplementsChannel == Abstract!Spec

\* What delayed-ack.fun says of itself: it watches incoming receives in order
\* to acknowledge them.  When no ack is due any more, every packet with data
\* that was accepted has been acknowledged by a packet sent since.
Owed(p, t) ==
    /\ accepted[p][t] > 0
    /\ \A m \in sent[Other(p)] : m.tsn = t => ~m.empty
    /\ \A m \in sent[p] : t \notin AckRange(m)
EveryAcceptedAcked ==
    \A p \in Peers, t \in Tsn : Owed(p, t) /\ alive[p] => delay[p] \/ arts[p]

(***************************************************************************)
(* The inductive invariant behind the safety properties (proved in           *)
(* AckChannel_proofs).                                                       *)
(***************************************************************************)

\* p's upper layer took packet t; TSN 0 stands for the packet before the first.
Got(p, t) == t = 0 \/ (t \in Tsn /\ accepted[p][t] > 0)

\* An ack is truthful if every bit of its mask stands for a packet taken.
Truthful(p, ack) ==
    0 \in ack.mask /\ \A i \in ack.mask : Got(p, ack.rasn - i)

AcksTruthful ==
    \A p \in Peers : Truthful(p, new[p]) /\ \A ack \in oop[p] : Truthful(p, ack)

PacketsTruthful ==
    \A p \in Peers : \A m \in sent[p] :
        /\ Got(p, m.asn)
        /\ \A t \in AckRange(m) : Got(p, t)

\* The mask remembers every packet taken that is still in the window.
MaskComplete ==
    \A p \in Peers, t \in Tsn : accepted[p][t] > 0 =>
        /\ t <= new[p].rasn
        /\ new[p].rasn - t < Window => new[p].rasn - t \in new[p].mask

\* The undecided packets are those in the queue, and none is beyond tsn.
QueueInflight ==
    \A p \in Peers : \A t \in Tsn :
        /\ alive[p] => (t \in queue[p] <=> fate[p][t] = "inflight")
        /\ t > tsn[p] => fate[p][t] = "unsent"

\* Every packet on the network was numbered by its sender.
SentNumbered == \A p \in Peers : \A m \in sent[p] : m.tsn <= tsn[p]

IInv ==
    /\ TypeOK
    /\ AcksTruthful
    /\ PacketsTruthful
    /\ MaskComplete
    /\ QueueInflight
    /\ NoFalseAck
    /\ MissingHasEvidence
    /\ FateDecidedOnce
    /\ AcceptedAtMostOnce

=============================================================================
