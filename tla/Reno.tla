-------------------------------- MODULE Reno --------------------------------
(***************************************************************************)
(* Congestion control (cusp/channel/reno.fun) under the acknowledgement     *)
(* layers of AckChannel.  Each packet that FastRetransmit fills is pulled   *)
(* through Reno, which counts its bytes as in flight until the closure of   *)
(* the packet is called with its fate, and lets the layers above ask to     *)
(* send only while less than a congestion window is in flight.              *)
(*                                                                          *)
(* The real numbers of the code are integers here, in a unit that is no     *)
(* matter: quotients are rounded down.                                      *)
(***************************************************************************)
EXTENDS AckChannel, SequencesExt

CONSTANTS
    newWindow,      \* the first window (2500 bytes)
    minWindow,      \* the least window (2500 bytes)
    maxWindow,      \* the largest window, and the first threshold (1 GB)
    Overhead,       \* the bytes of a packet without data (52)
    Filled          \* the bytes of data a packet may have

ASSUME RenoAssumption ==
    /\ {newWindow, minWindow, maxWindow, Overhead} \subseteq Nat \ {0}
    /\ minWindow <= newWindow /\ newWindow <= maxWindow
    /\ Filled \subseteq Nat \ {0}

VARIABLE reno   \* for each peer the fields of Reno, and what each closure holds

renoVars == <<vars, reno>>

NewReno ==
    [congestionWindow |-> newWindow, slowStartThreshold |-> maxWindow,
     inFlight |-> 0, rts |-> TRUE, closure |-> <<>>]

setrts(r) == [r EXCEPT !.rts = r.inFlight < r.congestionWindow]

\* pull: the closure of packet t keeps its bytes and the threshold of now.
pull(r, t, bytes) ==
    setrts([r EXCEPT
        !.inFlight = @ + bytes,
        !.closure = @ @@ (t :> [bytes |-> bytes, oldThreshold |-> r.slowStartThreshold])])

\* An ack opens the window, by all its bytes below the threshold; a loss cuts
\* it, unless it was cut since the packet was sent.
process(r, c, status) ==
    LET cwnd   == r.congestionWindow
        growth == IF cwnd < r.slowStartThreshold THEN c.bytes
                  ELSE (c.bytes * c.bytes) \div cwnd
        window == Max({r.inFlight \div 2, minWindow})
    IN  IF status = "ACK"
        THEN [r EXCEPT !.congestionWindow = Min({cwnd + growth, maxWindow})]
        ELSE IF r.slowStartThreshold # c.oldThreshold THEN r
        ELSE [r EXCEPT
                !.congestionWindow = IF status = "TIMEOUT" THEN minWindow ELSE window,
                !.slowStartThreshold = window]

\* Mutant: a loss after the window was cut is not looked at.
wrapLeaks(r, t, status) ==
    LET c == r.closure[t]
        heard == [r EXCEPT !.closure = [u \in DOMAIN @ \ {t} |-> @[u]]]
    IN  IF status # "ACK" /\ r.slowStartThreshold # c.oldThreshold THEN heard
        ELSE setrts([process(heard, c, status) EXCEPT !.inFlight = @ - c.bytes])

\* The closure of packet t is called with its fate.
wrap(r, t, status) ==
    LET c == r.closure[t]
        heard == [r EXCEPT !.closure = [u \in DOMAIN @ \ {t} |-> @[u]]]
    IN  setrts([process(heard, c, status) EXCEPT !.inFlight = @ - c.bytes])

-----------------------------------------------------------------------------
\* What Reno makes of r when a step of FastRetransmit calls closures: in the order
\* of the queue, and those of packets that expired after the others.
Wrapped(p, r) ==
    LET told == {t \in Tsn : fate[p][t] = "inflight" /\ fate'[p][t] # "inflight"}
        late == {t \in told : fate'[p][t] = "TIMEOUT"}
        all  == SetToSortSeq(told \ late, <) \o SetToSortSeq(late, <)
        after[n \in 0..Len(all)] ==
            IF n = 0 THEN {r} ELSE {wrap(x, all[n], fate'[p][all[n]]) : x \in after[n-1]}
    IN  after[Len(all)]

\* The layers above are asked only while Reno lets them ask; then the packet is
\* pulled through Reno, and after that expired packets are reported.
RenoPull(p, drts, empty, filled) ==
    /\ drts => reno[p].rts
    /\ Pull(p, drts, empty)
    /\ \E r \in Wrapped(p, IF drts THEN pull(reno[p], tsn[p] + 1, Overhead + filled)
                           ELSE reno[p]) :
          reno' = [reno EXCEPT ![p] = r]

\* The other steps of the layers call closures.
RenoHears(p) == \E r \in Wrapped(p, reno[p]) : reno' = [reno EXCEPT ![p] = r]

RenoRecv(p, m) ==
    /\ \/ RecvDiscard(p, m)
       \/ \E doAck \in BOOLEAN : RecvNewest(p, m, doAck) \/ RecvOutOfOrder(p, m, doAck)
    /\ RenoHears(p)

RenoTimeout(p) == Timeout(p) /\ RenoHears(p)

RenoDestroy(p) == Destroy(p) /\ RenoHears(p)

RenoInit == Init /\ reno = [p \in Peers |-> NewReno]

RenoNext ==
    \E p \in Peers :
        \/ \E m \in sent[Other(p)] : RenoRecv(p, m)
        \/ DelayOver(p) /\ UNCHANGED reno
        \/ RenoTimeout(p)
        \/ \E drts \in BOOLEAN, filled \in Filled :
              RenoPull(p, drts, FALSE, filled) \/ RenoPull(p, drts, TRUE, 0)
        \/ RenoDestroy(p)

RenoSpec == RenoInit /\ [][RenoNext]_renoVars

\* The expiry event happens, as in AckChannel.
RenoFairSpec == RenoSpec /\ \A p \in Peers : WF_vars(Timeout(p))

-----------------------------------------------------------------------------
\* Congestion control never stops a channel for good: whatever is acknowledged,
\* lost, late or refused, in whatever order closures are called, a peer may send
\* again in the end, for the bytes in flight come back and the window stays open.
SendsAgain == \A p \in Peers : []<>(reno[p].rts \/ ~alive[p])
=============================================================================
