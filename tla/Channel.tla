------------------------------ MODULE Channel ------------------------------
(***************************************************************************)
(* What a channel promises the layer above (cusp/channel/ack-callbacks.sig,  *)
(* and what host-dispatch.fun takes for granted): packets are numbered in    *)
(* the order they are sent; the other end takes a packet at most once, only  *)
(* one that was sent, and only while it is less than Window behind whatever  *)
(* it took; and of each filled packet the sender hears at most once, of a    *)
(* delivery that happened, of a loss with a reason, or of a timeout.  A      *)
(* channel that is destroyed tells of every packet and then does nothing.    *)
(***************************************************************************)
EXTENDS Integers

CONSTANTS Peers, Window, ReorderLimit, MaxTsn

VARIABLES
    tsn,        \* how many packets each peer sent
    fate,       \* what each peer knows of its packets
    taken,      \* how often each peer took each packet of the other
    alive       \* FALSE once the peer destroyed its end

vars == <<tsn, fate, taken, alive>>

Tsn == 1..MaxTsn

Init ==
    /\ tsn = [p \in Peers |-> 0]
    /\ fate = [p \in Peers |-> [t \in Tsn |-> "unsent"]]
    /\ taken = [p \in Peers |-> [t \in Tsn |-> 0]]
    /\ alive = [p \in Peers |-> TRUE]

\* What p may be told of its packet t, when the other end is q.
Justified(q, t, status) ==
    \/ status = "ACK" /\ taken[q][t] > 0
    \/ status = "MISSING" /\ \E u \in Tsn : u >= t + ReorderLimit /\ taken[q][u] > 0
    \/ status = "TIMEOUT"

\* The step tells p of packets in flight; known is what p knows before it.
Hears(p, q, known) ==
    /\ fate' = [fate EXCEPT ![p] = fate'[p]]
    /\ fate'[p] \in [Tsn -> {"unsent", "inflight", "ACK", "MISSING", "TIMEOUT"}]
    /\ \A t \in Tsn : fate'[p][t] # known[t] =>
          known[t] = "inflight" /\ Justified(q, t, fate'[p][t])

\* The next packet goes; the layer above hears of it later if it filled it.
Send(p, q, filled) ==
    /\ alive[p] /\ tsn[p] < MaxTsn
    /\ tsn' = [tsn EXCEPT ![p] = @ + 1]
    /\ Hears(p, q, IF filled THEN [fate[p] EXCEPT ![tsn[p] + 1] = "inflight"]
                   ELSE fate[p])
    /\ UNCHANGED <<taken, alive>>

\* A packet of q comes in, with news of the packets p sent.
Receive(p, q, t, takes) ==
    /\ alive[p] /\ t <= tsn[q]
    /\ takes => taken[p][t] = 0 /\ \A u \in Tsn : taken[p][u] > 0 => u - t < Window
    /\ taken' = IF takes THEN [taken EXCEPT ![p][t] = @ + 1] ELSE taken
    /\ Hears(p, q, fate[p])
    /\ UNCHANGED <<tsn, alive>>

\* Packets time out.
Expire(p, q) ==
    /\ alive[p]
    /\ Hears(p, q, fate[p])
    /\ \A t \in Tsn : fate'[p][t] \in {fate[p][t], "TIMEOUT"}
    /\ UNCHANGED <<tsn, taken, alive>>

\* All that is in flight is reported, and nothing happens at p after it.
Destroy(p, q) ==
    /\ alive[p] /\ alive' = [alive EXCEPT ![p] = FALSE]
    /\ fate' = [fate EXCEPT ![p] =
          [t \in Tsn |-> IF @[t] = "inflight" THEN "TIMEOUT" ELSE @[t]]]
    /\ UNCHANGED <<tsn, taken>>

Next ==
    \E p, q \in Peers :
        /\ p # q
        /\ \/ \E filled \in BOOLEAN : Send(p, q, filled)
           \/ \E t \in Tsn, takes \in BOOLEAN : Receive(p, q, t, takes)
           \/ Expire(p, q)
           \/ Destroy(p, q)

Spec == Init /\ [][Next]_vars
=============================================================================
