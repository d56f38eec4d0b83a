-------------------------- MODULE AckChannel_proofs --------------------------
(***************************************************************************)
(* Proofs about AckChannel, for every pair of peers, window, reorder limit  *)
(* and number of packets.                                                   *)
(***************************************************************************)
EXTENDS AckChannel, FiniteSetTheorems, TLAPS

\* There is exactly one other end.
LEMMA OtherPeer == \A p \in Peers : Other(p) \in Peers /\ Other(p) # p
<1> TAKE p \in Peers
<1>1. \E q \in Peers : q # p
  BY PeersAssumption
<1> QED
  BY <1>1 DEF Other

\* ackCount never counts past a missing packet: the low ackCount bits are set.
LEMMA AckCountRun ==
    ASSUME NEW mask \in SUBSET (0..Window-1)
    PROVE  /\ ackCount(mask) \in 0..Window
           /\ 0 \in mask => ackCount(mask) >= 1
           /\ \A i \in 0..ackCount(mask)-1 : i \in mask
<1> DEFINE Run == {n \in 0..Window-1 : 0..n \subseteq mask}
<1>0. Window \in Nat \ {0}
  BY BoundsAssumption
<1>1. IsFiniteSet(0..Window-1) /\ Cardinality(0..Window-1) = Window
  BY <1>0, FS_Interval
<1>2. IsFiniteSet(Run) /\ Cardinality(Run) <= Window
  BY <1>1, FS_Subset
<1>3. Cardinality(Run) \in Nat
  BY <1>2, FS_CardinalityType
<1>4. ASSUME 0 \in mask
      PROVE  Cardinality(Run) >= 1
  <2>1. 0 \in Run
    BY <1>0, <1>4
  <2>2. Cardinality(Run) # 0
    BY <2>1, <1>2, FS_EmptySet
  <2> QED
    BY <1>3, <2>2
<1>5. ASSUME NEW i \in 0..Cardinality(Run)-1, i \notin mask
      PROVE  FALSE
  <2>0. i \in Nat /\ i < Cardinality(Run)
    BY <1>3
  <2>1. Run \subseteq 0..i-1
    <3> SUFFICES ASSUME NEW n \in Run, n >= i
                 PROVE  FALSE
      BY <1>0, <2>0
    <3>1. i \in 0..n
      BY <1>0, <2>0
    <3> QED
      BY <3>1, <1>5
  <2>2. IsFiniteSet(0..i-1) /\ Cardinality(0..i-1) = i
    <3>1. 0 \in Int /\ i - 1 \in Int
      BY <2>0
    <3>2. /\ IsFiniteSet(0..i-1)
          /\ Cardinality(0..i-1) = IF 0 > i-1 THEN 0 ELSE (i-1) - 0 + 1
      BY <3>1, FS_Interval
    <3> QED
      BY <2>0, <3>2
  <2>3. Cardinality(Run) <= i
    BY <2>1, <2>2, FS_Subset
  <2> QED
    BY <2>0, <2>3, <1>3
<1>6. ackCount(mask) = Cardinality(Run)
  BY DEF ackCount
<1> HIDE DEF Run
<1> QED
  BY <1>0, <1>2, <1>3, <1>4, <1>5, <1>6

\* What a packet built from a truthful ack acknowledges was taken.
LEMMA AckToPacket ==
    ASSUME NEW p \in Peers, NEW ack \in Ack, Truthful(p, ack)
    PROVE  /\ ackCount(ack.mask) - 1 \in 0..Window-1
           /\ Got(p, ack.rasn)
           /\ \A t \in Tsn : /\ ack.rasn - (ackCount(ack.mask) - 1) <= t
                             /\ t <= ack.rasn
                             => Got(p, t)
<1>0. Window \in Nat \ {0} /\ MaxTsn \in Nat
  BY BoundsAssumption
<1> DEFINE count == ackCount(ack.mask)
<1>1. /\ ack.mask \in SUBSET (0..Window-1) /\ ack.rasn \in 0..MaxTsn
      /\ 0 \in ack.mask
      /\ \A i \in ack.mask : Got(p, ack.rasn - i)
  BY DEF Ack, Truthful
<1>2. count \in 1..Window /\ \A i \in 0..count-1 : i \in ack.mask
  BY <1>0, <1>1, AckCountRun
<1> HIDE DEF count
<1>3. Got(p, ack.rasn)
  <2>1. ack.rasn - 0 = ack.rasn
    BY <1>0, <1>1
  <2> QED
    BY <1>1, <2>1
<1>4. ASSUME NEW t \in Tsn, ack.rasn - (count - 1) <= t, t <= ack.rasn
      PROVE  Got(p, t)
  <2>1. ack.rasn - t \in 0..count-1
    BY <1>0, <1>1, <1>2, <1>4 DEF Tsn
  <2>2. ack.rasn - (ack.rasn - t) = t
    BY <1>0, <1>1, <1>4 DEF Tsn
  <2>3. Got(p, ack.rasn - (ack.rasn - t))
    BY <1>1, <1>2, <2>1
  <2> QED
    BY <2>2, <2>3
<1>5. count - 1 \in 0..Window-1
  BY <1>0, <1>2
<1> QED
  BY <1>3, <1>4, <1>5 DEF count

\* The accepted counts only grow.
Grows == \A q \in Peers, t \in Tsn :
            accepted[q][t] \in Nat /\ accepted'[q][t] \in Nat
            /\ accepted'[q][t] >= accepted[q][t]

\* A packet taken stays taken.
LEMMA GotStable ==
    ASSUME Grows, NEW p \in Peers, NEW t, Got(p, t)
    PROVE  Got(p, t)'
BY DEF Grows, Got

\* A truthful ack stays truthful.
LEMMA TruthfulStable ==
    ASSUME Grows, NEW p \in Peers, NEW ack, Truthful(p, ack)
    PROVE  Truthful(p, ack)'
BY GotStable DEF Truthful

\* Firing callbacks of undecided packets repeats none, and touches no other.
LEMMA FireFate ==
    ASSUME NEW f \in [Tsn -> Statuses \cup {"unsent", "inflight", "REPEATED"}],
           NEW S, NEW status \in Statuses,
           \A t \in S \cap Tsn : f[t] = "inflight"
    PROVE  /\ Fire(f, S, status) \in
                 [Tsn -> Statuses \cup {"unsent", "inflight", "REPEATED"}]
           /\ \A t \in Tsn : Fire(f, S, status)[t] = IF t \in S THEN status ELSE f[t]
BY DEF Fire

\* The part of the invariant that is about fates.
FateInv ==
    /\ queue \in [Peers -> SUBSET Tsn]
    /\ fate \in [Peers -> [Tsn -> Statuses \cup {"unsent", "inflight", "REPEATED"}]]
    /\ QueueInflight
    /\ NoFalseAck
    /\ MissingHasEvidence
    /\ FateDecidedOnce

\* FastRetransmit's part of recv preserves what is known of fates: a packet is
\* called acked or missing only on what the truthful packet m says.
LEMMA UpcallFate ==
    ASSUME IInv, Grows, NEW p \in Peers, NEW m \in sent[Other(p)],
           alive[p], AckCallbacksRecv(p, m), UNCHANGED <<tsn, alive>>
    PROVE  FateInv'
<1> DEFINE ack  == Acked(queue[p], m)
           miss == Missing(queue[p], m)
           rest == queue[p] \ (ack \cup miss)
<1>0. /\ ReorderLimit \in Nat \ {0} /\ MaxTsn \in Nat
      /\ Other(p) \in Peers
      /\ m \in Packet
  BY BoundsAssumption, OtherPeer DEF IInv, TypeOK
<1>1. PICK late \in Expired(rest) :
        /\ queue' = [queue EXCEPT ![p] = rest \ late]
        /\ fate' = [fate EXCEPT ![p] =
               Fire(Fire(Fire(fate[p], ack, "ACK"), miss, "MISSING"), late, "TIMEOUT")]
  BY DEF AckCallbacksRecv
<1>2. /\ ack \in SUBSET Tsn /\ miss \in SUBSET Tsn /\ late \in SUBSET Tsn
      /\ ack \cap miss = {} /\ late \cap (ack \cup miss) = {}
      /\ (ack \cup miss) \cup late \subseteq queue[p]
  <2>1. queue[p] \in SUBSET Tsn
    BY DEF IInv, TypeOK
  <2>2. late \subseteq rest
    BY <1>1 DEF Expired
  <2>3. ack \cap miss = {}
    <3> SUFFICES ASSUME NEW t \in ack, t \in miss
                 PROVE  FALSE
      OBVIOUS
    <3>1. m.asn - m.acklen <= t /\ t < m.asn - m.acklen /\ t \in Tsn
      BY DEF Acked, Missing, AckRange
    <3>2. m.asn \in Int /\ m.acklen \in Int /\ t \in Int
      BY <1>0, <3>1, BoundsAssumption DEF Packet, Tsn
    <3> QED
      BY <3>1, <3>2
  <2> QED
    BY <2>1, <2>2, <2>3 DEF Acked, Missing
<1>3. \A t \in queue[p] : fate[p][t] = "inflight"
  BY DEF IInv, QueueInflight, TypeOK
<1>4. \A t \in ack : accepted[Other(p)][t] > 0
  <2>1. \A t \in AckRange(m) : Got(Other(p), t)
    BY <1>0 DEF IInv, PacketsTruthful
  <2>2. \A t \in ack : t \in AckRange(m) /\ t \in Tsn /\ t # 0
    BY <1>0 DEF Acked, AckRange, Tsn
  <2> QED
    BY <2>1, <2>2 DEF Got
<1>5. \A t \in miss : \E u \in Tsn :
          u >= t + ReorderLimit /\ accepted[Other(p)][u] > 0
  <2> SUFFICES ASSUME NEW t \in miss
               PROVE  \E u \in Tsn :
                        u >= t + ReorderLimit /\ accepted[Other(p)][u] > 0
    OBVIOUS
  <2>1. t \in Tsn /\ m.asn \in 0..MaxTsn /\ m.asn - t >= ReorderLimit
    BY <1>0, <1>2 DEF Missing, Packet
  <2>2. m.asn # 0 /\ m.asn >= t + ReorderLimit
    BY <1>0, <2>1 DEF Tsn
  <2>3. Got(Other(p), m.asn)
    BY <1>0 DEF IInv, PacketsTruthful
  <2> QED
    BY <2>2, <2>3 DEF Got
<1> HIDE DEF ack, miss, rest
<1>6. /\ fate'[p] \in [Tsn -> Statuses \cup {"unsent", "inflight", "REPEATED"}]
      /\ \A t \in Tsn : fate'[p][t] = IF t \in late THEN "TIMEOUT"
                                      ELSE IF t \in miss THEN "MISSING"
                                      ELSE IF t \in ack THEN "ACK"
                                      ELSE fate[p][t]
  <2> DEFINE f1 == Fire(fate[p], ack, "ACK")
             f2 == Fire(f1, miss, "MISSING")
             f3 == Fire(f2, late, "TIMEOUT")
             Fates == Statuses \cup {"unsent", "inflight", "REPEATED"}
  <2>0. fate[p] \in [Tsn -> Fates] /\ {"ACK", "MISSING", "TIMEOUT"} \subseteq Statuses
    BY DEF IInv, TypeOK, Statuses
  <2>1. f1 \in [Tsn -> Fates] /\ \A t \in Tsn : f1[t] = IF t \in ack THEN "ACK" ELSE fate[p][t]
    BY <1>2, <1>3, <2>0, FireFate
  <2> HIDE DEF f1
  <2>2. f2 \in [Tsn -> Fates] /\ \A t \in Tsn : f2[t] = IF t \in miss THEN "MISSING" ELSE f1[t]
    BY <1>2, <1>3, <2>0, <2>1, FireFate
  <2> HIDE DEF f2
  <2>3. f3 \in [Tsn -> Fates] /\ \A t \in Tsn : f3[t] = IF t \in late THEN "TIMEOUT" ELSE f2[t]
    BY <1>2, <1>3, <2>0, <2>1, <2>2, FireFate
  <2> HIDE DEF f3
  <2>4. fate'[p] = f3
    BY <1>1 DEF f1, f2, f3, IInv, TypeOK
  <2> QED
    BY <2>1, <2>2, <2>3, <2>4
<1>7. /\ fate' \in [Peers -> [Tsn -> Statuses \cup {"unsent", "inflight", "REPEATED"}]]
      /\ \A q \in Peers : q # p => fate'[q] = fate[q]
  BY <1>1, <1>6 DEF IInv, TypeOK
<1>8. /\ queue' \in [Peers -> SUBSET Tsn]
      /\ queue'[p] = queue[p] \ ((ack \cup miss) \cup late)
      /\ \A q \in Peers : q # p => queue'[q] = queue[q]
  BY <1>1, <1>2 DEF rest, IInv, TypeOK
<1>9. QueueInflight'
  <2> SUFFICES ASSUME NEW q \in Peers, NEW t \in Tsn
               PROVE  /\ alive'[q] => (t \in queue'[q] <=> fate'[q][t] = "inflight")
                      /\ t > tsn'[q] => fate'[q][t] = "unsent"
    BY DEF QueueInflight
  <2>1. /\ alive[q] => (t \in queue[q] <=> fate[q][t] = "inflight")
        /\ t > tsn[q] => fate[q][t] = "unsent"
    BY DEF IInv, QueueInflight
  <2>2. CASE q = p
    BY <1>2, <1>3, <1>6, <1>8, <2>1, <2>2
  <2>3. CASE q # p
    BY <1>7, <1>8, <2>1, <2>3
  <2> QED
    BY <2>2, <2>3
<1>10. NoFalseAck'
  <2> SUFFICES ASSUME NEW q \in Peers, NEW t \in Tsn, fate'[q][t] = "ACK"
               PROVE  accepted'[Other(q)][t] > 0
    BY DEF NoFalseAck
  <2>1. accepted[Other(q)][t] > 0
    BY <1>4, <1>6, <1>7 DEF IInv, NoFalseAck
  <2> QED
    BY <2>1, OtherPeer DEF Grows
<1>11. MissingHasEvidence'
  <2> SUFFICES ASSUME NEW q \in Peers, NEW t \in Tsn, fate'[q][t] = "MISSING"
               PROVE  \E u \in Tsn : u >= t + ReorderLimit /\ accepted'[Other(q)][u] > 0
    BY DEF MissingHasEvidence
  <2>1. PICK u \in Tsn : u >= t + ReorderLimit /\ accepted[Other(q)][u] > 0
    BY <1>5, <1>6, <1>7 DEF IInv, MissingHasEvidence
  <2> QED
    BY <2>1, OtherPeer DEF Grows
<1>12. FateDecidedOnce'
  BY <1>6, <1>7 DEF FateDecidedOnce, IInv
<1> QED
  BY <1>7, <1>8, <1>9, <1>10, <1>11, <1>12 DEF FateInv

\* Accepting counts one more for the packet, and for no other.
LEMMA AcceptCounts ==
    ASSUME TypeOK, NEW p \in Peers, NEW m \in Packet, NEW doAck \in BOOLEAN,
           Accept(p, m, doAck)
    PROVE  /\ accepted' \in [Peers -> [Tsn -> Nat]]
           /\ Grows
           /\ \A q \in Peers, t \in Tsn : accepted'[q][t] =
                 IF doAck /\ q = p /\ t = m.tsn THEN accepted[q][t] + 1
                 ELSE accepted[q][t]
<1>1. accepted \in [Peers -> [Tsn -> Nat]] /\ m.tsn \in Tsn
  BY DEF TypeOK, Packet
<1>2. CASE doAck
  <2>1. accepted' = [accepted EXCEPT ![p][m.tsn] = accepted[p][m.tsn] + 1]
    BY <1>2 DEF Accept
  <2> QED
    BY <1>1, <1>2, <2>1 DEF Grows
<1>3. CASE ~doAck
  <2>1. accepted' = accepted
    BY <1>3 DEF Accept
  <2> QED
    BY <1>1, <1>3, <2>1 DEF Grows
<1> QED
  BY <1>2, <1>3

\* What sent packets and pending out-of-order acks say stays true.
LEMMA SaidStaysTrue ==
    ASSUME IInv, Grows
    PROVE  /\ \A p \in Peers : \A m \in sent[p] :
                 Got(p, m.asn)' /\ \A t \in AckRange(m) : Got(p, t)'
           /\ \A p \in Peers : \A ack \in oop[p] : Truthful(p, ack)'
           /\ \A p \in Peers : Truthful(p, new[p])
<1>1. /\ \A p \in Peers : \A m \in sent[p] :
            Got(p, m.asn) /\ \A t \in AckRange(m) : Got(p, t)
      /\ \A p \in Peers : \A ack \in oop[p] : Truthful(p, ack)
      /\ \A p \in Peers : Truthful(p, new[p])
  BY DEF IInv, PacketsTruthful, AcksTruthful
<1> QED
  BY <1>1, GotStable, TruthfulStable

\* The mask of the newest packet is the old one shifted, with the new bit set.
LEMMA NewestMask ==
    ASSUME Grows, NEW p \in Peers, NEW ack \in Ack, Truthful(p, ack),
           NEW t \in Tsn, t > ack.rasn, accepted'[p][t] > 0,
           NEW mask, mask = {0} \cup ShiftLeft(ack.mask, t - ack.rasn)
    PROVE  /\ [rasn |-> t, mask |-> mask] \in Ack
           /\ Truthful(p, [rasn |-> t, mask |-> mask])'
<1>0. /\ Window \in Nat \ {0} /\ MaxTsn \in Nat
      /\ ack.rasn \in 0..MaxTsn /\ ack.mask \in SUBSET (0..Window-1)
  BY BoundsAssumption DEF Ack
<1>1. mask \in SUBSET (0..Window-1)
  BY <1>0 DEF ShiftLeft
<1>2. ASSUME NEW i \in mask
      PROVE  Got(p, t - i)'
  <2>1. CASE i = 0
    <3>1. t - i = t
      BY <2>1, <1>0 DEF Tsn
    <3> QED
      BY <3>1 DEF Got
  <2>2. CASE i # 0
    <3>1. i - (t - ack.rasn) \in ack.mask /\ i \in 0..Window-1
      BY <2>2 DEF ShiftLeft
    <3>2. Got(p, ack.rasn - (i - (t - ack.rasn)))
      BY <3>1 DEF Truthful
    <3>3. ack.rasn - (i - (t - ack.rasn)) = t - i
      BY <1>0, <3>1 DEF Tsn
    <3> QED
      BY <3>2, <3>3, GotStable
  <2> QED
    BY <2>1, <2>2
<1> QED
  BY <1>0, <1>1, <1>2 DEF Ack, Truthful, Tsn

\* The mask completed by an out-of-order packet, and the ack of its own that
\* the packet may get, are truthful.
LEMMA OutOfOrderMask ==
    ASSUME Grows, NEW p \in Peers, NEW ack \in Ack, Truthful(p, ack),
           NEW t \in Tsn, NEW offset \in 0..Window-1, offset = ack.rasn - t,
           accepted'[p][t] > 0
    PROVE  LET mask == ack.mask \cup {offset}
               cut == ShiftRight(mask, offset)
           IN  /\ [rasn |-> ack.rasn, mask |-> mask] \in Ack
               /\ [rasn |-> t, mask |-> cut] \in Ack
               /\ Truthful(p, [rasn |-> ack.rasn, mask |-> mask])'
               /\ Truthful(p, [rasn |-> t, mask |-> cut])'
<1> DEFINE mask == ack.mask \cup {offset}
           cut == ShiftRight(mask, offset)
<1>0. /\ Window \in Nat \ {0} /\ MaxTsn \in Nat
      /\ ack.rasn \in 0..MaxTsn /\ ack.mask \in SUBSET (0..Window-1)
      /\ 0 \in ack.mask
      /\ t \in 1..MaxTsn
  BY BoundsAssumption DEF Ack, Truthful, Tsn
<1>1. mask \in SUBSET (0..Window-1) /\ cut \in SUBSET (0..Window-1)
  BY <1>0 DEF ShiftRight
<1>2. 0 \in mask /\ 0 \in cut
  BY <1>0 DEF ShiftRight
<1>3. ASSUME NEW i \in mask
      PROVE  Got(p, ack.rasn - i)'
  <2>1. CASE i = offset
    <3>1. ack.rasn - i = t
      BY <1>0, <2>1
    <3> QED
      BY <3>1 DEF Got
  <2>2. CASE i \in ack.mask
    <3>1. Got(p, ack.rasn - i)
      BY <2>2 DEF Truthful
    <3> QED
      BY <3>1, GotStable
  <2> QED
    BY <2>1, <2>2
<1>4. ASSUME NEW i \in cut
      PROVE  Got(p, t - i)'
  <2>1. i + offset \in mask /\ i \in 0..Window-1
    BY DEF ShiftRight
  <2>2. ack.rasn - (i + offset) = t - i
    BY <1>0, <2>1
  <2>3. Got(p, ack.rasn - (i + offset))'
    BY <1>3, <2>1
  <2> QED
    BY <2>2, <2>3
<1> HIDE DEF mask, cut
<1>5. [rasn |-> ack.rasn, mask |-> mask] \in Ack /\ [rasn |-> t, mask |-> cut] \in Ack
  BY <1>0, <1>1 DEF Ack
<1>6. Truthful(p, [rasn |-> ack.rasn, mask |-> mask])'
  BY <1>2, <1>3 DEF Truthful
<1>7. Truthful(p, [rasn |-> t, mask |-> cut])'
  BY <1>2, <1>4 DEF Truthful
<1> QED
  BY <1>5, <1>6, <1>7 DEF mask, cut

-----------------------------------------------------------------------------
(***************************************************************************)
(* The invariant is inductive: one lemma per action.                        *)
(***************************************************************************)

\* The invariant holds of two fresh ends of a channel.
LEMMA InitIInv == Init => IInv
<1> SUFFICES ASSUME Init
             PROVE  IInv
  OBVIOUS
<1>0. Window \in Nat \ {0} /\ MaxTsn \in Nat
  BY BoundsAssumption
<1>1. [rasn |-> 0, mask |-> {0}] \in Ack
  BY <1>0 DEF Ack
<1>2. TypeOK
  BY <1>0, <1>1 DEF Init, TypeOK
<1>3. AcksTruthful
  BY DEF Init, AcksTruthful, Truthful, Got
<1>4. PacketsTruthful
  BY DEF Init, PacketsTruthful
<1>5. MaskComplete
  BY DEF Init, MaskComplete
<1>6. QueueInflight
  BY DEF Init, QueueInflight
<1>7. NoFalseAck /\ MissingHasEvidence /\ FateDecidedOnce /\ AcceptedAtMostOnce
  BY DEF Init, NoFalseAck, MissingHasEvidence, FateDecidedOnce, AcceptedAtMostOnce
<1> QED
  BY <1>2, <1>3, <1>4, <1>5, <1>6, <1>7 DEF IInv

\* The acknowledgement timers hold Booleans.
LEMMA ScheduleAckType ==
    ASSUME TypeOK, NEW p \in Peers, NEW m, NEW doAck, NEW wait,
           ScheduleAck(p, m, doAck, wait)
    PROVE  delay' \in [Peers -> BOOLEAN] /\ arts' \in [Peers -> BOOLEAN]
BY DEF TypeOK, ScheduleAck

\* recv of the newest packet yet (delayed-ack.fun, first case) preserves the
\* invariant.
LEMMA NewestIInv ==
    ASSUME IInv, NEW p \in Peers, NEW m \in sent[Other(p)], NEW doAck \in BOOLEAN,
           RecvNewest(p, m, doAck)
    PROVE  IInv'
<1>0. /\ Window \in Nat \ {0} /\ MaxTsn \in Nat
      /\ TypeOK
      /\ Other(p) \in Peers
      /\ m \in Packet /\ m.tsn \in Tsn
      /\ new[p] \in Ack
  BY BoundsAssumption, OtherPeer DEF IInv, TypeOK, Packet
<1>1. PICK old \in Ack : old = new[p]
  BY <1>0
<1>2. PICK mask : mask = {0} \cup ShiftLeft(old.mask, m.tsn - old.rasn)
  OBVIOUS
<1> DEFINE ack == [rasn |-> m.tsn, mask |-> mask]
<1>3. /\ alive[p]
      /\ m.tsn - old.rasn > 0
      /\ AckCallbacksRecv(p, m)
      /\ Accept(p, m, doAck)
      /\ new' = IF doAck THEN [new EXCEPT ![p] = ack] ELSE new
      /\ ScheduleAck(p, m, doAck, FALSE)
      /\ UNCHANGED <<tsn, oop, alive, sent>>
  BY <1>1, <1>2 DEF RecvNewest
<1>4. /\ old.rasn \in 0..MaxTsn /\ m.tsn \in 1..MaxTsn /\ m.tsn > old.rasn
  BY <1>0, <1>3 DEF Ack, Tsn
<1>5. /\ accepted' \in [Peers -> [Tsn -> Nat]]
      /\ Grows
      /\ \A q \in Peers, t \in Tsn : accepted'[q][t] =
            IF doAck /\ q = p /\ t = m.tsn THEN accepted[q][t] + 1
            ELSE accepted[q][t]
  BY <1>0, <1>3, AcceptCounts
<1>6. FateInv'
  BY <1>3, <1>5, UpcallFate
<1>7. doAck => ack \in Ack /\ Truthful(p, ack)'
  <2> SUFFICES ASSUME doAck
               PROVE  ack \in Ack /\ Truthful(p, ack)'
    OBVIOUS
  <2>1. accepted'[p][m.tsn] > 0
    BY <1>0, <1>5 DEF TypeOK
  <2>2. Truthful(p, old)
    BY <1>1 DEF IInv, AcksTruthful
  <2> QED
    BY <1>0, <1>2, <1>4, <1>5, <2>1, <2>2, NewestMask
<1> HIDE DEF ack
<1>8. TypeOK'
  <2>1. new' \in [Peers -> Ack]
    BY <1>0, <1>3, <1>7 DEF TypeOK
  <2>2. delay' \in [Peers -> BOOLEAN] /\ arts' \in [Peers -> BOOLEAN]
    BY <1>0, <1>3, ScheduleAckType
  <2> QED
    BY <1>0, <1>3, <1>5, <1>6, <2>1, <2>2 DEF TypeOK, FateInv
<1>9. AcksTruthful'
  <2>1. \A q \in Peers : \A a \in oop'[q] : Truthful(q, a)'
    BY <1>3, <1>5, SaidStaysTrue
  <2>2. ASSUME NEW q \in Peers
        PROVE  Truthful(q, new[q])'
    <3>1. CASE doAck /\ q = p
      <4>1. new'[q] = ack
        BY <1>0, <1>3, <3>1 DEF TypeOK
      <4> QED
        BY <1>7, <3>1, <4>1 DEF Truthful
    <3>2. CASE ~(doAck /\ q = p)
      <4>1. new'[q] = new[q]
        BY <1>0, <1>3, <3>2 DEF TypeOK
      <4>2. Truthful(q, new[q])
        BY DEF IInv, AcksTruthful
      <4> QED
        BY <1>5, <4>1, <4>2, GotStable DEF Truthful
    <3> QED
      BY <3>1, <3>2
  <2> QED
    BY <2>1, <2>2 DEF AcksTruthful
<1>10. PacketsTruthful'
  BY <1>3, <1>5, SaidStaysTrue DEF PacketsTruthful, AckRange
<1>11. MaskComplete' /\ AcceptedAtMostOnce'
  <2> SUFFICES ASSUME NEW q \in Peers, NEW t \in Tsn
               PROVE  /\ accepted'[q][t] <= 1
                      /\ accepted'[q][t] > 0 =>
                           /\ t <= new'[q].rasn
                           /\ new'[q].rasn - t < Window
                                => new'[q].rasn - t \in new'[q].mask
    BY DEF MaskComplete, AcceptedAtMostOnce
  <2>1. /\ accepted[q][t] <= 1
        /\ accepted[q][t] > 0 =>
             /\ t <= new[q].rasn
             /\ new[q].rasn - t < Window => new[q].rasn - t \in new[q].mask
        /\ accepted[q][t] \in Nat
    BY <1>0 DEF IInv, MaskComplete, AcceptedAtMostOnce, TypeOK
  <2>2. CASE ~(doAck /\ q = p)
    BY <1>0, <1>3, <1>5, <2>1, <2>2 DEF TypeOK
  <2>3. CASE doAck /\ q = p
    <3>1. new'[q] = ack /\ ack.rasn = m.tsn /\ ack.mask = mask
      BY <1>0, <1>3, <2>3 DEF TypeOK, ack
    <3>2. CASE t = m.tsn
      BY <1>1, <1>2, <1>4, <1>5, <2>1, <2>3, <3>1, <3>2
    <3>3. CASE t # m.tsn
      <4>1. accepted'[q][t] = accepted[q][t]
        BY <1>5, <3>3
      <4>2. ASSUME accepted[q][t] > 0, m.tsn - t < Window
            PROVE  m.tsn - t \in mask
        <5>1. t <= old.rasn /\ t \in 1..MaxTsn
          BY <1>1, <2>1, <2>3, <4>2 DEF Tsn
        <5>2. old.rasn - t \in old.mask
          BY <1>0, <1>1, <1>4, <2>1, <2>3, <4>2, <5>1
        <5>3. (m.tsn - t) - (m.tsn - old.rasn) = old.rasn - t
          BY <1>4, <5>1
        <5>4. m.tsn - t \in 0..Window-1
          BY <1>0, <1>4, <4>2, <5>1
        <5> QED
          BY <1>2, <5>2, <5>3, <5>4 DEF ShiftLeft
      <4> QED
        BY <1>1, <1>4, <2>1, <2>3, <3>1, <4>1, <4>2 DEF Tsn
    <3> QED
      BY <3>2, <3>3
  <2> QED
    BY <2>2, <2>3
<1> QED
  BY <1>6, <1>8, <1>9, <1>10, <1>11 DEF IInv, FateInv

\* recv of an unseen packet within the window preserves the invariant.
LEMMA OutOfOrderIInv ==
    ASSUME IInv, NEW p \in Peers, NEW m \in sent[Other(p)], NEW doAck \in BOOLEAN,
           RecvOutOfOrder(p, m, doAck)
    PROVE  IInv'
<1>0. /\ Window \in Nat \ {0} /\ MaxTsn \in Nat
      /\ TypeOK
      /\ Other(p) \in Peers
      /\ m \in Packet /\ m.tsn \in Tsn
      /\ new[p] \in Ack
  BY BoundsAssumption, OtherPeer DEF IInv, TypeOK, Packet
<1>1. PICK old \in Ack : old = new[p]
  BY <1>0
<1>2. PICK offset : offset = old.rasn - m.tsn
  OBVIOUS
<1>3. /\ offset \in 0..Window-1
      /\ offset \notin old.mask
  <2>1. old.rasn - m.tsn \in Int
    BY <1>0 DEF Ack, Tsn
  <2> QED
    BY <1>0, <1>1, <1>2, <2>1 DEF RecvOutOfOrder, Discards
<1> DEFINE mask == old.mask \cup {offset}
           cut == ShiftRight(mask, offset)
           inorder == [rasn |-> old.rasn, mask |-> mask]
           own == [rasn |-> m.tsn, mask |-> cut]
           covered == ackCount(mask) > offset
<1>4. /\ alive[p]
      /\ AckCallbacksRecv(p, m)
      /\ Accept(p, m, doAck)
      /\ new' = IF doAck THEN [new EXCEPT ![p] = inorder] ELSE new
      /\ oop' = IF covered \/ m.empty \/ ~doAck THEN oop
                ELSE [oop EXCEPT ![p] = {own}]
      /\ ScheduleAck(p, m, doAck, ~covered)
      /\ UNCHANGED <<tsn, alive, sent>>
  BY <1>1, <1>2 DEF RecvOutOfOrder
<1>5. /\ accepted' \in [Peers -> [Tsn -> Nat]]
      /\ Grows
      /\ \A q \in Peers, t \in Tsn : accepted'[q][t] =
            IF doAck /\ q = p /\ t = m.tsn THEN accepted[q][t] + 1
            ELSE accepted[q][t]
  BY <1>0, <1>4, AcceptCounts
<1>6. FateInv'
  BY <1>4, <1>5, UpcallFate
<1>7. doAck => /\ inorder \in Ack /\ Truthful(p, inorder)'
               /\ own \in Ack /\ Truthful(p, own)'
  <2> SUFFICES ASSUME doAck
               PROVE  /\ inorder \in Ack /\ Truthful(p, inorder)'
                      /\ own \in Ack /\ Truthful(p, own)'
    OBVIOUS
  <2>1. accepted'[p][m.tsn] > 0
    BY <1>0, <1>5 DEF TypeOK
  <2>2. Truthful(p, old)
    BY <1>1 DEF IInv, AcksTruthful
  <2> QED
    BY <1>0, <1>2, <1>3, <1>5, <2>1, <2>2, OutOfOrderMask
<1>8. doAck => new' = [new EXCEPT ![p] = inorder]
  BY <1>4
<1> HIDE DEF mask, cut, inorder, own, covered
<1>9. TypeOK'
  <2>1. new' \in [Peers -> Ack]
    BY <1>0, <1>4, <1>7, <1>8 DEF TypeOK
  <2>2. oop' \in [Peers -> SUBSET Ack]
    BY <1>0, <1>4, <1>7 DEF TypeOK
  <2>3. delay' \in [Peers -> BOOLEAN] /\ arts' \in [Peers -> BOOLEAN]
    BY <1>0, <1>4, ScheduleAckType
  <2> QED
    BY <1>0, <1>4, <1>5, <1>6, <2>1, <2>2, <2>3 DEF TypeOK, FateInv
<1>10. AcksTruthful'
  <2>1. ASSUME NEW q \in Peers, NEW a \in oop'[q]
        PROVE  Truthful(q, a)'
    <3>1. CASE a \in oop[q]
      BY <1>5, <3>1, SaidStaysTrue
    <3>2. CASE a \notin oop[q]
      <4>1. doAck /\ q = p /\ a = own
        BY <1>0, <1>4, <2>1, <3>2 DEF TypeOK
      <4> QED
        BY <1>7, <4>1
    <3> QED
      BY <3>1, <3>2
  <2>2. ASSUME NEW q \in Peers
        PROVE  Truthful(q, new[q])'
    <3>1. CASE doAck /\ q = p
      <4>1. new'[q] = inorder
        BY <1>0, <1>8, <3>1 DEF TypeOK
      <4> QED
        BY <1>7, <3>1, <4>1 DEF Truthful
    <3>2. CASE ~(doAck /\ q = p)
      <4>1. new'[q] = new[q]
        BY <1>0, <1>4, <1>8, <3>2 DEF TypeOK
      <4>2. Truthful(q, new[q])
        BY DEF IInv, AcksTruthful
      <4> QED
        BY <1>5, <4>1, <4>2, GotStable DEF Truthful
    <3> QED
      BY <3>1, <3>2
  <2> QED
    BY <2>1, <2>2 DEF AcksTruthful
<1>11. PacketsTruthful'
  BY <1>4, <1>5, SaidStaysTrue DEF PacketsTruthful, AckRange
<1>12. MaskComplete' /\ AcceptedAtMostOnce'
  <2> SUFFICES ASSUME NEW q \in Peers, NEW t \in Tsn
               PROVE  /\ accepted'[q][t] <= 1
                      /\ accepted'[q][t] > 0 =>
                           /\ t <= new'[q].rasn
                           /\ new'[q].rasn - t < Window
                                => new'[q].rasn - t \in new'[q].mask
    BY DEF MaskComplete, AcceptedAtMostOnce
  <2>1. /\ accepted[q][t] <= 1
        /\ accepted[q][t] > 0 =>
             /\ t <= new[q].rasn
             /\ new[q].rasn - t < Window => new[q].rasn - t \in new[q].mask
        /\ accepted[q][t] \in Nat
    BY <1>0 DEF IInv, MaskComplete, AcceptedAtMostOnce, TypeOK
  <2>2. CASE ~(doAck /\ q = p)
    <3>1. new'[q] = new[q] /\ accepted'[q][t] = accepted[q][t]
      BY <1>0, <1>4, <1>5, <1>8, <2>2 DEF TypeOK
    <3> QED
      BY <2>1, <3>1
  <2>3. CASE doAck /\ q = p
    <3>1. new'[q].rasn = old.rasn /\ new'[q].mask = old.mask \cup {offset}
      BY <1>0, <1>8, <2>3 DEF TypeOK, inorder, mask
    <3>2. CASE t = m.tsn
      <4>1. ~(accepted[q][t] > 0)
        BY <1>0, <1>1, <1>2, <1>3, <2>1, <2>3, <3>2
      <4>2. t <= old.rasn
        BY <1>0, <1>2, <1>3, <3>2 DEF Ack, Tsn
      <4> QED
        BY <1>2, <1>5, <2>1, <2>3, <3>1, <3>2, <4>1, <4>2
    <3>3. CASE t # m.tsn
      <4>1. accepted'[q][t] = accepted[q][t]
        BY <1>5, <3>3
      <4> QED
        BY <1>1, <2>1, <2>3, <3>1, <4>1
    <3> QED
      BY <3>2, <3>3
  <2> QED
    BY <2>2, <2>3
<1> QED
  BY <1>6, <1>9, <1>10, <1>11, <1>12 DEF IInv, FateInv

\* Timing out packets of the queue: exactly those packets change
\* from inflight to TIMEOUT, and no callback fires twice.
LEMMA TimeoutFate ==
    ASSUME IInv, NEW p \in Peers, alive[p], NEW late, late \subseteq queue[p]
    PROVE  /\ Fire(fate[p], late, "TIMEOUT") \in
                 [Tsn -> Statuses \cup {"unsent", "inflight", "REPEATED"}]
           /\ \A t \in Tsn : Fire(fate[p], late, "TIMEOUT")[t] =
                 IF t \in late THEN "TIMEOUT" ELSE fate[p][t]
<1>1. /\ fate[p] \in [Tsn -> Statuses \cup {"unsent", "inflight", "REPEATED"}]
      /\ "TIMEOUT" \in Statuses
      /\ late \subseteq Tsn
  BY DEF IInv, TypeOK, Statuses
<1>2. \A t \in late : fate[p][t] = "inflight"
  BY <1>1 DEF IInv, QueueInflight
<1> QED
  BY <1>1, <1>2, FireFate

\* What does not depend on fates and queues, when nothing is accepted.
LEMMA NothingAccepted ==
    ASSUME IInv, UNCHANGED <<new, accepted>>,
           \A p \in Peers : oop'[p] \subseteq oop[p]
    PROVE  AcksTruthful' /\ MaskComplete' /\ AcceptedAtMostOnce'
<1>1. AcksTruthful'
  BY DEF IInv, AcksTruthful, Truthful, Got
<1>2. MaskComplete' /\ AcceptedAtMostOnce'
  BY DEF IInv, MaskComplete, AcceptedAtMostOnce
<1> QED
  BY <1>1, <1>2

\* Fates that changed, if at all, to TIMEOUT or inflight make no new claim.
LEMMA NoNewClaim ==
    ASSUME IInv, UNCHANGED accepted,
           \A q \in Peers, t \in Tsn :
               fate'[q][t] \in {fate[q][t], "TIMEOUT", "inflight"}
    PROVE  NoFalseAck' /\ MissingHasEvidence' /\ FateDecidedOnce'
BY DEF IInv, NoFalseAck, MissingHasEvidence, FateDecidedOnce

\* The expiry event of FastRetransmit preserves the invariant.
LEMMA TimeoutIInv ==
    ASSUME IInv, NEW p \in Peers, Timeout(p)
    PROVE  IInv'
<1>0. TypeOK
  BY DEF IInv
<1>1. PICK late \in Expired(queue[p]) :
        /\ queue' = [queue EXCEPT ![p] = queue[p] \ late]
        /\ fate' = [fate EXCEPT ![p] = Fire(fate[p], late, "TIMEOUT")]
  BY DEF Timeout
<1>2. /\ alive[p] /\ late \subseteq queue[p]
      /\ UNCHANGED <<tsn, new, oop, delay, arts, alive, sent, accepted>>
  BY <1>1 DEF Timeout, Expired
<1>3. /\ fate'[p] \in [Tsn -> Statuses \cup {"unsent", "inflight", "REPEATED"}]
      /\ \A t \in Tsn : fate'[p][t] = IF t \in late THEN "TIMEOUT" ELSE fate[p][t]
      /\ \A q \in Peers : q # p => fate'[q] = fate[q]
  <2>1. /\ fate'[p] = Fire(fate[p], late, "TIMEOUT")
        /\ \A q \in Peers : q # p => fate'[q] = fate[q]
    BY <1>0, <1>1 DEF TypeOK
  <2>2. /\ Fire(fate[p], late, "TIMEOUT") \in
              [Tsn -> Statuses \cup {"unsent", "inflight", "REPEATED"}]
        /\ \A t \in Tsn : Fire(fate[p], late, "TIMEOUT")[t] =
              IF t \in late THEN "TIMEOUT" ELSE fate[p][t]
    BY <1>2, TimeoutFate
  <2> QED
    BY <2>1, <2>2
<1>4. TypeOK'
  BY <1>0, <1>1, <1>2, <1>3 DEF TypeOK
<1>5. AcksTruthful' /\ MaskComplete' /\ AcceptedAtMostOnce'
  BY <1>2, NothingAccepted
<1>6. PacketsTruthful'
  BY <1>2 DEF IInv, PacketsTruthful, Got, AckRange
<1>7. QueueInflight'
  <2> SUFFICES ASSUME NEW q \in Peers, NEW t \in Tsn
               PROVE  /\ alive'[q] => (t \in queue'[q] <=> fate'[q][t] = "inflight")
                      /\ t > tsn'[q] => fate'[q][t] = "unsent"
    BY DEF QueueInflight
  <2>1. /\ alive[q] => (t \in queue[q] <=> fate[q][t] = "inflight")
        /\ t > tsn[q] => fate[q][t] = "unsent"
    BY DEF IInv, QueueInflight
  <2> QED
    BY <1>0, <1>1, <1>2, <1>3, <2>1 DEF TypeOK
<1>8. NoFalseAck' /\ MissingHasEvidence' /\ FateDecidedOnce'
  <2>1. \A q \in Peers, t \in Tsn :
            fate'[q][t] \in {fate[q][t], "TIMEOUT", "inflight"}
    BY <1>3
  <2> QED
    BY <1>2, <2>1, NoNewClaim
<1> QED
  BY <1>4, <1>5, <1>6, <1>7, <1>8 DEF IInv

\* Destroying one end of the channel preserves the invariant.
LEMMA DestroyIInv ==
    ASSUME IInv, NEW p \in Peers, Destroy(p)
    PROVE  IInv'
<1>0. TypeOK
  BY DEF IInv
<1>1. /\ alive[p]
      /\ alive' = [alive EXCEPT ![p] = FALSE]
      /\ delay' = [delay EXCEPT ![p] = FALSE]
      /\ fate' = [fate EXCEPT ![p] = Fire(fate[p], queue[p], "TIMEOUT")]
      /\ UNCHANGED <<tsn, new, oop, arts, queue, sent, accepted>>
  BY DEF Destroy
<1>2. /\ fate'[p] \in [Tsn -> Statuses \cup {"unsent", "inflight", "REPEATED"}]
      /\ \A t \in Tsn : fate'[p][t] = IF t \in queue[p] THEN "TIMEOUT" ELSE fate[p][t]
      /\ \A q \in Peers : q # p => fate'[q] = fate[q]
  <2>1. /\ fate'[p] = Fire(fate[p], queue[p], "TIMEOUT")
        /\ \A q \in Peers : q # p => fate'[q] = fate[q]
    BY <1>0, <1>1 DEF TypeOK
  <2>2. /\ Fire(fate[p], queue[p], "TIMEOUT") \in
              [Tsn -> Statuses \cup {"unsent", "inflight", "REPEATED"}]
        /\ \A t \in Tsn : Fire(fate[p], queue[p], "TIMEOUT")[t] =
              IF t \in queue[p] THEN "TIMEOUT" ELSE fate[p][t]
    BY <1>1, TimeoutFate
  <2> QED
    BY <2>1, <2>2
<1>3. TypeOK'
  BY <1>0, <1>1, <1>2 DEF TypeOK
<1>4. AcksTruthful' /\ MaskComplete' /\ AcceptedAtMostOnce'
  BY <1>1, NothingAccepted
<1>5. PacketsTruthful'
  BY <1>1 DEF IInv, PacketsTruthful, Got, AckRange
<1>6. QueueInflight'
  <2> SUFFICES ASSUME NEW q \in Peers, NEW t \in Tsn
               PROVE  /\ alive'[q] => (t \in queue'[q] <=> fate'[q][t] = "inflight")
                      /\ t > tsn'[q] => fate'[q][t] = "unsent"
    BY DEF QueueInflight
  <2>1. /\ alive[q] => (t \in queue[q] <=> fate[q][t] = "inflight")
        /\ t > tsn[q] => fate[q][t] = "unsent"
    BY DEF IInv, QueueInflight
  <2> QED
    BY <1>0, <1>1, <1>2, <2>1 DEF TypeOK
<1>7. NoFalseAck' /\ MissingHasEvidence' /\ FateDecidedOnce'
  <2>1. \A q \in Peers, t \in Tsn :
            fate'[q][t] \in {fate[q][t], "TIMEOUT", "inflight"}
    BY <1>2
  <2> QED
    BY <1>1, <2>1, NoNewClaim
<1> QED
  BY <1>3, <1>4, <1>5, <1>6, <1>7 DEF IInv

\* The delayed-ack event preserves the invariant.
LEMMA DelayOverIInv ==
    ASSUME IInv, NEW p \in Peers, DelayOver(p)
    PROVE  IInv'
<1>1. /\ delay' = [delay EXCEPT ![p] = FALSE]
      /\ arts' = [arts EXCEPT ![p] = TRUE]
      /\ UNCHANGED <<tsn, new, oop, queue, alive, sent, fate, accepted>>
  BY DEF DelayOver
<1>2. TypeOK'
  BY <1>1 DEF IInv, TypeOK
<1>3. AcksTruthful' /\ MaskComplete' /\ AcceptedAtMostOnce'
  BY <1>1, NothingAccepted
<1>4. PacketsTruthful'
  BY <1>1 DEF IInv, PacketsTruthful, Got, AckRange
<1>5. QueueInflight' /\ NoFalseAck' /\ MissingHasEvidence' /\ FateDecidedOnce'
  BY <1>1 DEF IInv, QueueInflight, NoFalseAck, MissingHasEvidence, FateDecidedOnce
<1> QED
  BY <1>2, <1>3, <1>4, <1>5 DEF IInv

\* Sending a packet, whichever layer asked for it, preserves the invariant.
LEMMA PullIInv ==
    ASSUME IInv, NEW p \in Peers, NEW drts \in BOOLEAN, NEW empty \in BOOLEAN,
           Pull(p, drts, empty)
    PROVE  IInv'
<1>0. /\ TypeOK
      /\ Window \in Nat \ {0} /\ MaxTsn \in Nat /\ Quota[p] \in 0..MaxTsn
  BY BoundsAssumption DEF IInv
<1>1. PICK ack : ack = AckToSend(p)
  OBVIOUS
<1>2. PICK next : next = tsn[p] + 1
  OBVIOUS
<1> DEFINE packet == [tsn |-> next, asn |-> ack.rasn,
                      acklen |-> ackCount(ack.mask) - 1, empty |-> empty]
<1>3. /\ alive[p]
      /\ tsn[p] < Quota[p]
      /\ tsn' = [tsn EXCEPT ![p] = next]
      /\ sent' = [sent EXCEPT ![p] = sent[p] \cup {packet}]
      /\ oop' = [oop EXCEPT ![p] = {}]
      /\ arts' = [arts EXCEPT ![p] = FALSE]
      /\ delay' = [delay EXCEPT ![p] = FALSE]
      /\ UNCHANGED <<new, alive, accepted>>
  BY <1>1, <1>2 DEF Pull
<1>4. next \in Tsn /\ next \in 0..MaxTsn /\ next > tsn[p] /\ tsn[p] \in Nat
  BY <1>0, <1>2, <1>3 DEF TypeOK, Tsn
<1>5. ack \in Ack /\ Truthful(p, ack)
  BY <1>0, <1>1 DEF AckToSend, IInv, AcksTruthful, TypeOK
<1>6. /\ packet \in Packet
      /\ Got(p, packet.asn)
      /\ \A t \in AckRange(packet) : Got(p, t)
  <2>1. ackCount(ack.mask) - 1 \in 0..Window-1 /\ ack.rasn \in 0..MaxTsn
    BY <1>5, AckToPacket DEF Ack
  <2>2. packet \in Packet
    BY <1>4, <2>1 DEF Packet
  <2> QED
    BY <1>5, <2>2, AckToPacket DEF AckRange
<1> HIDE DEF packet
<1>7. PacketsTruthful'
  <2> SUFFICES ASSUME NEW q \in Peers, NEW m \in sent'[q]
               PROVE  Got(q, m.asn)' /\ \A t \in AckRange(m) : Got(q, t)'
    BY DEF PacketsTruthful, AckRange
  <2>1. Got(q, m.asn) /\ \A t \in AckRange(m) : Got(q, t)
    BY <1>0, <1>3, <1>6 DEF IInv, PacketsTruthful, TypeOK
  <2> QED
    BY <1>3, <2>1 DEF Got
<1>8. AcksTruthful' /\ MaskComplete' /\ AcceptedAtMostOnce'
  <2>1. \A q \in Peers : oop'[q] \subseteq oop[q]
    BY <1>0, <1>3 DEF TypeOK
  <2> QED
    BY <1>3, <2>1, NothingAccepted
<1>9. /\ queue' \in [Peers -> SUBSET Tsn]
      /\ fate' \in [Peers -> [Tsn -> Statuses \cup {"unsent", "inflight", "REPEATED"}]]
      /\ QueueInflight'
      /\ \A q \in Peers, t \in Tsn :
            fate'[q][t] \in {fate[q][t], "TIMEOUT", "inflight"}
  <2>1. \A q \in Peers, t \in Tsn :
          /\ alive[q] => (t \in queue[q] <=> fate[q][t] = "inflight")
          /\ t > tsn[q] => fate[q][t] = "unsent"
    BY DEF IInv, QueueInflight
  <2>2. CASE drts
    <3>1. PICK late \in Expired(queue[p]) :
            /\ queue' = [queue EXCEPT ![p] = (queue[p] \ late) \cup {next}]
            /\ fate' = [fate EXCEPT ![p] =
                  [Fire(fate[p], late, "TIMEOUT") EXCEPT ![next] = "inflight"]]
      BY <1>2, <2>2 DEF Pull
    <3>2. late \subseteq queue[p]
      BY DEF Expired
    <3>3. /\ Fire(fate[p], late, "TIMEOUT") \in
                [Tsn -> Statuses \cup {"unsent", "inflight", "REPEATED"}]
          /\ \A t \in Tsn : Fire(fate[p], late, "TIMEOUT")[t] =
                IF t \in late THEN "TIMEOUT" ELSE fate[p][t]
      BY <1>3, <3>2, TimeoutFate
    <3>4. /\ fate'[p] \in [Tsn -> Statuses \cup {"unsent", "inflight", "REPEATED"}]
          /\ \A t \in Tsn : fate'[p][t] = IF t = next THEN "inflight"
                                          ELSE IF t \in late THEN "TIMEOUT"
                                          ELSE fate[p][t]
          /\ \A q \in Peers : q # p => fate'[q] = fate[q]
      BY <1>0, <1>4, <3>1, <3>3 DEF TypeOK
    <3>5. /\ queue' \in [Peers -> SUBSET Tsn]
          /\ queue'[p] = (queue[p] \ late) \cup {next}
          /\ \A q \in Peers : q # p => queue'[q] = queue[q]
      BY <1>0, <1>4, <3>1 DEF TypeOK
    <3>6. ASSUME NEW q \in Peers, NEW t \in Tsn
          PROVE  /\ alive'[q] => (t \in queue'[q] <=> fate'[q][t] = "inflight")
                 /\ t > tsn'[q] => fate'[q][t] = "unsent"
      <4>1. CASE q = p
        <5>1. tsn'[p] = next
          BY <1>0, <1>3 DEF TypeOK
        <5>2. t > next => t > tsn[p] /\ t # next
          BY <1>4 DEF Tsn
        <5>3. t \in late => fate[p][t] = "inflight"
          BY <1>3, <2>1, <3>2
        <5> QED
          BY <1>3, <2>1, <3>4, <3>5, <4>1, <5>1, <5>2, <5>3
      <4>2. CASE q # p
        <5>1. tsn'[q] = tsn[q] /\ alive'[q] = alive[q]
          BY <1>0, <1>3, <4>2 DEF TypeOK
        <5> QED
          BY <2>1, <3>4, <3>5, <4>2, <5>1
      <4> QED
        BY <4>1, <4>2
    <3>7. fate' \in [Peers -> [Tsn -> Statuses \cup {"unsent", "inflight", "REPEATED"}]]
      BY <1>0, <3>1, <3>4 DEF TypeOK
    <3>8. \A q \in Peers, t \in Tsn :
            fate'[q][t] \in {fate[q][t], "TIMEOUT", "inflight"}
      BY <3>4
    <3> QED
      BY <3>5, <3>6, <3>7, <3>8 DEF QueueInflight
  <2>3. CASE ~drts
    <3>1. UNCHANGED <<queue, fate>>
      BY <2>3 DEF Pull
    <3>2. ASSUME NEW q \in Peers, NEW t \in Tsn, t > tsn'[q]
          PROVE  t > tsn[q]
      BY <1>0, <1>3, <1>4, <3>2 DEF TypeOK, Tsn
    <3> QED
      BY <1>0, <1>3, <2>1, <3>1, <3>2 DEF QueueInflight, TypeOK
  <2> QED
    BY <2>2, <2>3
<1>10. NoFalseAck' /\ MissingHasEvidence' /\ FateDecidedOnce'
  BY <1>3, <1>9, NoNewClaim
<1>11. TypeOK'
  BY <1>0, <1>3, <1>4, <1>6, <1>9 DEF TypeOK
<1> QED
  BY <1>7, <1>8, <1>9, <1>10, <1>11 DEF IInv

\* Every step preserves the invariant.
LEMMA NextIInv == IInv /\ [Next]_vars => IInv'
<1> SUFFICES ASSUME IInv, [Next]_vars
             PROVE  IInv'
  OBVIOUS
<1>1. CASE UNCHANGED vars
  BY <1>1 DEF vars, IInv, TypeOK, AcksTruthful, Truthful, PacketsTruthful, Got,
              AckRange, MaskComplete, QueueInflight, NoFalseAck,
              MissingHasEvidence, FateDecidedOnce, AcceptedAtMostOnce
<1>2. ASSUME NEW p \in Peers, NEW m \in sent[Other(p)], RecvDiscard(p, m)
      PROVE  IInv'
  BY <1>1, <1>2 DEF RecvDiscard
<1>3. ASSUME NEW p \in Peers, NEW m \in sent[Other(p)], NEW doAck \in BOOLEAN,
             RecvNewest(p, m, doAck)
      PROVE  IInv'
  BY <1>3, NewestIInv
<1>4. ASSUME NEW p \in Peers, NEW m \in sent[Other(p)], NEW doAck \in BOOLEAN,
             RecvOutOfOrder(p, m, doAck)
      PROVE  IInv'
  BY <1>4, OutOfOrderIInv
<1>5. ASSUME NEW p \in Peers, DelayOver(p)
      PROVE  IInv'
  BY <1>5, DelayOverIInv
<1>6. ASSUME NEW p \in Peers, Timeout(p)
      PROVE  IInv'
  BY <1>6, TimeoutIInv
<1>7. ASSUME NEW p \in Peers, NEW drts \in BOOLEAN, NEW empty \in BOOLEAN,
             Pull(p, drts, empty)
      PROVE  IInv'
  BY <1>7, PullIInv
<1>8. ASSUME NEW p \in Peers, Destroy(p)
      PROVE  IInv'
  BY <1>8, DestroyIInv
<1> QED
  BY <1>1, <1>2, <1>3, <1>4, <1>5, <1>6, <1>7, <1>8 DEF Next

-----------------------------------------------------------------------------
(***************************************************************************)
(* The theorems.                                                            *)
(***************************************************************************)

\* The inductive invariant holds in every reachable state.
THEOREM Invariance == Spec => []IInv
<1>1. Init => IInv
  BY InitIInv
<1>2. IInv /\ [Next]_vars => IInv'
  BY NextIInv
<1> QED
  BY <1>1, <1>2, PTL DEF Spec

\* Types are respected.
THEOREM TypeCorrect == Spec => []TypeOK
<1>1. IInv => TypeOK
  BY DEF IInv
<1> QED
  BY <1>1, Invariance, PTL

\* A sender is told ACK only for packets the other end took
\* (DelayedAck's masks and FastRetransmit's ranges agree).
THEOREM AckSound == Spec => []NoFalseAck
<1>1. IInv => NoFalseAck
  BY DEF IInv
<1> QED
  BY <1>1, Invariance, PTL

\* A fast retransmit has a reason: a packet ReorderLimit later was taken.
THEOREM MissingSound == Spec => []MissingHasEvidence
<1>1. IInv => MissingHasEvidence
  BY DEF IInv
<1> QED
  BY <1>1, Invariance, PTL

\* No ack callback fires twice.
THEOREM FateOnce == Spec => []FateDecidedOnce
<1>1. IInv => FateDecidedOnce
  BY DEF IInv
<1> QED
  BY <1>1, Invariance, PTL

\* The upper layer takes each packet at most once.
THEOREM AtMostOnce == Spec => []AcceptedAtMostOnce
<1>1. IInv => AcceptedAtMostOnce
  BY DEF IInv
<1> QED
  BY <1>1, Invariance, PTL

\* No packet is taken once the newest is Window or more ahead of it.
THEOREM WindowRespected == Spec => AcceptedInWindow
<1> DEFINE InWindow == \A p \in Peers, t, u \in Tsn :
      accepted'[p][t] > accepted[p][t] /\ accepted[p][u] > 0 => u - t < Window
<1>1. ASSUME IInv, [Next]_vars
      PROVE  InWindow
  <2> SUFFICES ASSUME NEW p \in Peers, NEW t \in Tsn, NEW u \in Tsn,
                      accepted'[p][t] > accepted[p][t], accepted[p][u] > 0
               PROVE  u - t < Window
    OBVIOUS
  <2>0. /\ accepted \in [Peers -> [Tsn -> Nat]]
        /\ u <= new[p].rasn
        /\ new[p].rasn \in 0..MaxTsn
        /\ Window \in Nat \ {0} /\ MaxTsn \in Nat
    BY <1>1, BoundsAssumption DEF IInv, TypeOK, MaskComplete, Ack
  <2>1. accepted' # accepted
    BY <2>0
  <2>2a. PICK q \in Peers : \E m \in sent[Other(q)], doAck \in BOOLEAN :
            RecvNewest(q, m, doAck) \/ RecvOutOfOrder(q, m, doAck)
    BY <1>1, <2>1 DEF Next, vars, RecvDiscard, DelayOver, Timeout, Pull, Destroy
  <2>2. PICK m \in sent[Other(q)], doAck \in BOOLEAN :
            RecvNewest(q, m, doAck) \/ RecvOutOfOrder(q, m, doAck)
    BY <2>2a
  <2>3. Accept(q, m, doAck)
    BY <2>2 DEF RecvNewest, RecvOutOfOrder
  <2>4. m \in Packet /\ TypeOK
    BY <1>1, OtherPeer DEF IInv, TypeOK
  <2>5. p = q /\ t = m.tsn
    BY <2>0, <2>3, <2>4, AcceptCounts
  <2>6. new[p].rasn - t < Window
    <3>1. CASE RecvNewest(q, m, doAck)
      BY <2>0, <2>5, <3>1 DEF RecvNewest, Tsn
    <3>2. CASE RecvOutOfOrder(q, m, doAck)
      BY <2>0, <2>5, <3>2 DEF RecvOutOfOrder, Discards, Tsn
    <3> QED
      BY <2>2, <3>1, <3>2
  <2> QED
    BY <2>0, <2>6 DEF Tsn
<1>2. IInv /\ [Next]_vars => [InWindow]_vars
  BY <1>1
<1> QED
  BY <1>2, Invariance, PTL DEF Spec, AcceptedInWindow

-----------------------------------------------------------------------------
(***************************************************************************)
(* AckChannel implements Channel: every step is a step of it or a stutter.  *)
(***************************************************************************)

\* Init and Pull number what they send.
LEMMA NextNumbered == IInv /\ SentNumbered /\ [Next]_vars => SentNumbered'
<1> SUFFICES ASSUME IInv, SentNumbered, [Next]_vars
             PROVE  SentNumbered'
  OBVIOUS
<1>0. /\ tsn \in [Peers -> 0..MaxTsn] /\ sent \in [Peers -> SUBSET Packet]
      /\ MaxTsn \in Nat
  BY BoundsAssumption DEF IInv, TypeOK
<1>1. CASE UNCHANGED <<tsn, sent>>
  BY <1>1 DEF SentNumbered
<1>2. ASSUME NEW p \in Peers, NEW drts \in BOOLEAN, NEW empty \in BOOLEAN,
             Pull(p, drts, empty)
      PROVE  SentNumbered'
  <2>1. /\ tsn' = [tsn EXCEPT ![p] = tsn[p] + 1]
        /\ \E m : m.tsn = tsn[p] + 1 /\ sent' = [sent EXCEPT ![p] = sent[p] \cup {m}]
    <3> DEFINE ack == AckToSend(p)
               packet == [tsn |-> tsn[p] + 1, asn |-> ack.rasn,
                          acklen |-> ackCount(ack.mask) - 1, empty |-> empty]
    <3>1. packet.tsn = tsn[p] + 1
      OBVIOUS
    <3>2. sent' = [sent EXCEPT ![p] = sent[p] \cup {packet}]
      BY <1>2 DEF Pull
    <3> HIDE DEF packet
    <3> QED BY <1>2, <3>1, <3>2 DEF Pull
  <2>2. PICK m : m.tsn = tsn[p] + 1 /\ sent' = [sent EXCEPT ![p] = sent[p] \cup {m}]
    BY <2>1
  <2>3. ASSUME NEW q \in Peers, NEW n \in sent'[q]
        PROVE  n.tsn <= tsn'[q]
    <3>1. q # p => n \in sent[q] /\ tsn'[q] = tsn[q]
      BY <1>0, <2>1, <2>2
    <3>2. q = p => (n \in sent[q] \/ n.tsn = tsn[q] + 1) /\ tsn'[q] = tsn[q] + 1
      BY <1>0, <2>1, <2>2
    <3>3. n \in sent[q] => n.tsn \in Nat /\ n.tsn <= tsn[q]
      BY <1>0 DEF SentNumbered, Packet, Tsn
    <3>4. tsn[q] \in Nat
      BY <1>0
    <3> QED BY <3>1, <3>2, <3>3, <3>4
  <2> QED BY <2>3 DEF SentNumbered
<1>3. ASSUME NEW p \in Peers,
             \/ DelayOver(p) \/ Timeout(p) \/ Destroy(p)
             \/ \E m \in sent[Other(p)] :
                   \/ RecvDiscard(p, m)
                   \/ \E doAck \in BOOLEAN :
                         RecvNewest(p, m, doAck) \/ RecvOutOfOrder(p, m, doAck)
      PROVE  UNCHANGED <<tsn, sent>>
  BY <1>3 DEF DelayOver, Timeout, Destroy, RecvDiscard, RecvNewest, RecvOutOfOrder, vars
<1> QED BY <1>1, <1>2, <1>3 DEF Next, vars

\* A callback that fired, and was no repetition, was that of a packet in flight.
LEMMA FireTells ==
    ASSUME NEW f, NEW S, NEW status, NEW t \in Tsn,
           Fire(f, S, status)[t] # "REPEATED"
    PROVE  \/ Fire(f, S, status)[t] = f[t]
           \/ f[t] = "inflight" /\ Fire(f, S, status)[t] = status
BY DEF Fire

\* One that repeats stays marked.
LEMMA FireMarks ==
    ASSUME NEW f, NEW S, NEW status, NEW t \in Tsn, f[t] = "REPEATED"
    PROVE  Fire(f, S, status)[t] = "REPEATED"
BY DEF Fire

\* What a step that fires callbacks of p tells it is what Channel allows, for the
\* invariant gives the reason of every ack and of every loss.
LEMMA NewsIsJustified ==
    ASSUME IInv, IInv', NEW p \in Peers, NEW known,
           accepted'[Other(p)] = accepted[Other(p)],
           fate' = [fate EXCEPT ![p] = fate'[p]],
           \A t \in Tsn : fate'[p][t] # known[t] =>
                known[t] = "inflight" /\ fate'[p][t] \in Statuses
    PROVE  Abstract!Hears(p, Other(p), known)
<1>1. fate'[p] \in [Tsn -> {"unsent", "inflight", "ACK", "MISSING", "TIMEOUT"}]
  BY DEF IInv, TypeOK, FateDecidedOnce, Statuses
<1>2. ASSUME NEW t \in Tsn, fate'[p][t] \in Statuses
      PROVE  Abstract!Justified(Other(p), t, fate'[p][t])
  <2>1. fate'[p][t] = "ACK" => accepted[Other(p)][t] > 0
    BY DEF IInv, NoFalseAck
  <2>2. fate'[p][t] = "MISSING" =>
          \E u \in Tsn : u >= t + ReorderLimit /\ accepted[Other(p)][u] > 0
    BY DEF IInv, MissingHasEvidence
  <2> QED BY <1>2, <2>1, <2>2 DEF Abstract!Justified, Abstract!Tsn, Tsn, Statuses
<1> QED BY <1>1, <1>2 DEF Abstract!Hears, Abstract!Tsn, Tsn

\* FastRetransmit's part of recv tells only of packets in flight.
LEMMA UpcallTells ==
    ASSUME IInv, IInv', NEW p \in Peers, NEW m, AckCallbacksRecv(p, m)
    PROVE  /\ fate' = [fate EXCEPT ![p] = fate'[p]]
           /\ \A t \in Tsn : fate'[p][t] # fate[p][t] =>
                 fate[p][t] = "inflight" /\ fate'[p][t] \in Statuses
<1> DEFINE ack  == Acked(queue[p], m)
           miss == Missing(queue[p], m)
           rest == queue[p] \ (ack \cup miss)
           f1 == Fire(fate[p], ack, "ACK")
           f2 == Fire(f1, miss, "MISSING")
<1>1. PICK late \in Expired(rest) :
        fate' = [fate EXCEPT ![p] = Fire(f2, late, "TIMEOUT")]
  BY DEF AckCallbacksRecv
<1>2. fate'[p] = Fire(f2, late, "TIMEOUT") /\ fate' = [fate EXCEPT ![p] = fate'[p]]
  BY <1>1 DEF IInv, TypeOK
<1>3. ASSUME NEW t \in Tsn
      PROVE  fate'[p][t] # fate[p][t] =>
                fate[p][t] = "inflight" /\ fate'[p][t] \in Statuses
  <2>1. fate'[p][t] # "REPEATED"
    BY DEF IInv, FateDecidedOnce
  <2>2. \/ fate'[p][t] = f2[t]
        \/ f2[t] = "inflight" /\ fate'[p][t] = "TIMEOUT"
    BY <1>2, <2>1, FireTells
  <2>3. f2[t] # "REPEATED"
    BY <1>2, <2>1, FireMarks
  <2>4. \/ f2[t] = f1[t]
        \/ f1[t] = "inflight" /\ f2[t] = "MISSING"
    BY <2>3, FireTells
  <2>5. f1[t] # "REPEATED"
    BY <2>3, FireMarks
  <2>6. \/ f1[t] = fate[p][t]
        \/ fate[p][t] = "inflight" /\ f1[t] = "ACK"
    BY <2>5, FireTells
  <2> HIDE DEF f1, f2
  <2> QED BY <2>2, <2>4, <2>6 DEF Statuses
<1> QED BY <1>2, <1>3

\* Both ways to take a packet, or to refuse it, are Channel's: it was sent, was not
\* taken, and is in the window, because the mask is complete.
LEMMA RecvIsReceive ==
    ASSUME IInv, IInv', SentNumbered, NEW p \in Peers, NEW m \in sent[Other(p)],
           NEW doAck \in BOOLEAN,
           RecvNewest(p, m, doAck) \/ RecvOutOfOrder(p, m, doAck)
    PROVE  m.tsn \in Tsn /\ Abstract!Receive(p, Other(p), m.tsn, doAck)
<1>0. /\ Other(p) \in Peers /\ Other(p) # p
      /\ Window \in Nat \ {0} /\ MaxTsn \in Nat
      /\ accepted \in [Peers -> [Tsn -> Nat]]
      /\ m \in Packet /\ m.tsn \in Tsn /\ m.tsn <= tsn[Other(p)]
      /\ new[p].rasn \in 0..MaxTsn
  BY BoundsAssumption, OtherPeer DEF IInv, TypeOK, Packet, SentNumbered, Ack
<1>1. /\ alive[p] /\ Accept(p, m, doAck) /\ AckCallbacksRecv(p, m)
      /\ UNCHANGED <<tsn, alive>>
  BY DEF RecvNewest, RecvOutOfOrder
<1>2. accepted' = IF doAck THEN [accepted EXCEPT ![p][m.tsn] = @ + 1] ELSE accepted
  BY <1>1 DEF Accept
<1>3. accepted'[Other(p)] = accepted[Other(p)]
  BY <1>0, <1>2
<1>4. \A u \in Tsn : accepted[p][u] > 0 =>
          /\ u <= new[p].rasn
          /\ new[p].rasn - u < Window => new[p].rasn - u \in new[p].mask
  BY DEF IInv, MaskComplete
<1>5. accepted[p][m.tsn] = 0 /\ new[p].rasn - m.tsn < Window
  <2>0. /\ m.tsn \in 1..MaxTsn /\ new[p].rasn \in Nat /\ accepted[p][m.tsn] \in Nat
    BY <1>0 DEF Tsn
  <2>1. CASE m.tsn - new[p].rasn > 0
    BY <1>0, <1>4, <2>0, <2>1
  <2>2. CASE /\ new[p].rasn - m.tsn < Window
             /\ new[p].rasn - m.tsn \notin new[p].mask
    BY <1>0, <1>4, <2>0, <2>2
  <2>3. \/ m.tsn - new[p].rasn > 0
        \/ ~(new[p].rasn - m.tsn >= Window \/ new[p].rasn - m.tsn \in new[p].mask)
    <3>1. RecvNewest(p, m, doAck) => m.tsn - new[p].rasn > 0
      BY DEF RecvNewest
    <3>2. RecvOutOfOrder(p, m, doAck) =>
            ~(new[p].rasn - m.tsn >= Window \/ new[p].rasn - m.tsn \in new[p].mask)
      BY DEF RecvOutOfOrder, Discards
    <3> QED BY <3>1, <3>2
  <2>4. new[p].rasn - m.tsn \in Int
    BY <2>0
  <2> QED BY <1>0, <2>1, <2>2, <2>3, <2>4
<1>6. ASSUME NEW u \in Tsn, accepted[p][u] > 0
      PROVE  u - m.tsn < Window
  <2>1. u <= new[p].rasn
    BY <1>4, <1>6
  <2>2. u \in Int /\ m.tsn \in Int /\ new[p].rasn \in Int /\ Window \in Int
    BY <1>0 DEF Tsn
  <2> QED BY <1>5, <2>1, <2>2
<1>7. Abstract!Hears(p, Other(p), fate[p])
  BY <1>1, <1>3, UpcallTells, NewsIsJustified
<1> QED BY <1>0, <1>1, <1>2, <1>5, <1>6, <1>7 DEF Abstract!Receive, Abstract!Tsn, Tsn

\* The expiry event is Channel's.
LEMMA TimeoutIsExpire ==
    ASSUME IInv, IInv', NEW p \in Peers, Timeout(p)
    PROVE  Abstract!Expire(p, Other(p))
<1>1. PICK late \in Expired(queue[p]) :
        fate' = [fate EXCEPT ![p] = Fire(fate[p], late, "TIMEOUT")]
  BY DEF Timeout
<1>2. /\ fate'[p] = Fire(fate[p], late, "TIMEOUT")
      /\ fate' = [fate EXCEPT ![p] = fate'[p]]
  BY <1>1 DEF IInv, TypeOK
<1>3. \A t \in Tsn : \/ fate'[p][t] = fate[p][t]
                     \/ fate[p][t] = "inflight" /\ fate'[p][t] = "TIMEOUT"
  BY <1>2, FireTells DEF IInv, FateDecidedOnce
<1>4. alive[p] /\ UNCHANGED <<tsn, accepted, alive>>
  BY DEF Timeout
<1>5. Abstract!Hears(p, Other(p), fate[p])
  BY <1>2, <1>3, <1>4, NewsIsJustified DEF Statuses
<1> QED BY <1>3, <1>4, <1>5 DEF Abstract!Expire, Abstract!Tsn, Tsn

\* Sending is Channel's: whichever layer asked for the packet, it gets the next
\* number, and only packets that expired are told of.
LEMMA PullIsSend ==
    ASSUME IInv, IInv', NEW p \in Peers, NEW drts \in BOOLEAN, NEW empty \in BOOLEAN,
           Pull(p, drts, empty)
    PROVE  Abstract!Send(p, Other(p), drts)
<1>0. /\ MaxTsn \in Nat /\ Quota[p] \in 0..MaxTsn /\ tsn[p] \in 0..MaxTsn
      /\ fate \in [Peers -> [Tsn -> Statuses \cup {"unsent", "inflight", "REPEATED"}]]
  BY BoundsAssumption DEF IInv, TypeOK
<1>1. /\ alive[p] /\ tsn[p] < MaxTsn
      /\ tsn' = [tsn EXCEPT ![p] = tsn[p] + 1]
      /\ UNCHANGED <<accepted, alive>>
  BY <1>0 DEF Pull
<1>2. PICK next : next = tsn[p] + 1 /\ next \in Tsn
  BY <1>0, <1>1 DEF Tsn
<1> DEFINE known == IF drts THEN [fate[p] EXCEPT ![next] = "inflight"] ELSE fate[p]
<1>3. CASE drts
  <2>1. PICK late \in Expired(queue[p]) :
          /\ queue' = [queue EXCEPT ![p] = (queue[p] \ late) \cup {next}]
          /\ fate' = [fate EXCEPT ![p] =
                [Fire(fate[p], late, "TIMEOUT") EXCEPT ![next] = "inflight"]]
    BY <1>2, <1>3 DEF Pull
  <2>2. /\ fate'[p] = [Fire(fate[p], late, "TIMEOUT") EXCEPT ![next] = "inflight"]
        /\ fate' = [fate EXCEPT ![p] = fate'[p]]
    BY <1>0, <2>1
  <2>3. DOMAIN Fire(fate[p], late, "TIMEOUT") = Tsn /\ DOMAIN fate[p] = Tsn
    BY <1>0 DEF Fire
  <2>4. known[next] = "inflight" /\ \A t \in Tsn : t # next => known[t] = fate[p][t]
    BY <1>2, <1>3, <2>3
  <2>5. ASSUME NEW t \in Tsn
        PROVE  \/ fate'[p][t] = known[t]
               \/ known[t] = "inflight" /\ fate'[p][t] = "TIMEOUT"
    <3>1. CASE t = next
      BY <1>2, <2>2, <2>3, <2>4, <3>1
    <3>2. CASE t # next
      <4>1. fate'[p][t] = Fire(fate[p], late, "TIMEOUT")[t]
        BY <2>2, <2>3, <3>2
      <4>2. fate'[p][t] # "REPEATED"
        BY DEF IInv, FateDecidedOnce
      <4> QED BY <2>4, <3>2, <4>1, <4>2, FireTells
    <3> QED BY <3>1, <3>2
  <2> HIDE DEF known
  <2>6. Abstract!Hears(p, Other(p), known)
    BY <1>1, <2>2, <2>5, NewsIsJustified DEF Statuses
  <2> QED BY <1>1, <1>2, <1>3, <2>6 DEF Abstract!Send, known
<1>4. CASE ~drts
  <2>1. fate' = fate /\ known = fate[p]
    BY <1>4 DEF Pull
  <2>2. fate' = [fate EXCEPT ![p] = fate'[p]]
    BY <1>0, <2>1
  <2>3. Abstract!Hears(p, Other(p), fate[p])
    BY <1>1, <2>1, <2>2, NewsIsJustified
  <2> QED BY <1>1, <1>4, <2>3 DEF Abstract!Send
<1> QED BY <1>3, <1>4

\* Destroying an end is Channel's: the queue holds every packet in flight.
LEMMA DestroyIsDestroy ==
    ASSUME IInv, NEW p \in Peers, Destroy(p)
    PROVE  Abstract!Destroy(p, Other(p))
<1>1. /\ alive[p] /\ alive' = [alive EXCEPT ![p] = FALSE]
      /\ fate' = [fate EXCEPT ![p] = Fire(fate[p], queue[p], "TIMEOUT")]
      /\ UNCHANGED <<tsn, accepted>>
  BY DEF Destroy
<1>2. \A t \in Tsn : t \in queue[p] <=> fate[p][t] = "inflight"
  BY <1>1 DEF IInv, QueueInflight
<1>3. Fire(fate[p], queue[p], "TIMEOUT") =
        [t \in Tsn |-> IF fate[p][t] = "inflight" THEN "TIMEOUT" ELSE fate[p][t]]
  BY <1>2 DEF Fire
<1> QED BY <1>1, <1>3 DEF Abstract!Destroy, Abstract!Tsn, Tsn

\* A step of one end, seen with the other, is a step of Channel.
LEMMA StepIsStep ==
    ASSUME NEW p \in Peers,
           \/ \E filled \in BOOLEAN : Abstract!Send(p, Other(p), filled)
           \/ \E t \in Tsn, takes \in BOOLEAN : Abstract!Receive(p, Other(p), t, takes)
           \/ Abstract!Expire(p, Other(p))
           \/ Abstract!Destroy(p, Other(p))
    PROVE  Abstract!Next
<1>1. Other(p) \in Peers /\ p # Other(p)
  BY OtherPeer
<1> QED BY <1>1 DEF Abstract!Next, Abstract!Tsn, Tsn

\* Every step of the two ends is a step of Channel, or none of its business.
LEMMA NextIsNext ==
    IInv /\ IInv' /\ SentNumbered /\ [Next]_vars => [Abstract!Next]_(Abstract!vars)
<1> SUFFICES ASSUME IInv, IInv', SentNumbered, [Next]_vars
             PROVE  Abstract!Next \/ UNCHANGED Abstract!vars
  OBVIOUS
<1>1. CASE UNCHANGED <<tsn, fate, accepted, alive>>
  BY <1>1 DEF Abstract!vars
<1>2. ASSUME NEW p \in Peers, NEW m \in sent[Other(p)], NEW doAck \in BOOLEAN,
             RecvNewest(p, m, doAck) \/ RecvOutOfOrder(p, m, doAck)
      PROVE  Abstract!Next
  BY <1>2, RecvIsReceive, StepIsStep
<1>3. ASSUME NEW p \in Peers, Timeout(p)
      PROVE  Abstract!Next
  BY <1>3, TimeoutIsExpire, StepIsStep
<1>4. ASSUME NEW p \in Peers, NEW drts \in BOOLEAN, NEW empty \in BOOLEAN,
             Pull(p, drts, empty)
      PROVE  Abstract!Next
  BY <1>4, PullIsSend, StepIsStep
<1>5. ASSUME NEW p \in Peers, Destroy(p)
      PROVE  Abstract!Next
  BY <1>5, DestroyIsDestroy, StepIsStep
<1>6. ASSUME NEW p \in Peers,
             DelayOver(p) \/ \E m \in sent[Other(p)] : RecvDiscard(p, m)
      PROVE  UNCHANGED <<tsn, fate, accepted, alive>>
  BY <1>6 DEF DelayOver, RecvDiscard, vars
<1>7. CASE UNCHANGED vars
  BY <1>1, <1>7 DEF vars
<1> QED BY <1>1, <1>2, <1>3, <1>4, <1>5, <1>6, <1>7 DEF Next

\* The two layers with their masks, queues and timers, over a network that loses,
\* repeats and reorders, are to the layers above the channel that HostDispatch
\* and the streams take for granted.
THEOREM SpecImplementsChannel == Spec => ImplementsChannel
<1>1. Init => SentNumbered /\ Abstract!Init
  BY DEF Init, SentNumbered, Abstract!Init, Abstract!Tsn, Tsn
<1>2. IInv /\ SentNumbered /\ [Next]_vars => SentNumbered'
  BY NextNumbered
<1>3. IInv /\ IInv' /\ SentNumbered /\ [Next]_vars => [Abstract!Next]_(Abstract!vars)
  BY NextIsNext
<1> QED BY <1>1, <1>2, <1>3, Invariance, PTL DEF Spec, ImplementsChannel, Abstract!Spec

=============================================================================
