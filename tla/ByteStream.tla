----------------------------- MODULE ByteStream -----------------------------
(***************************************************************************)
(* What a stream promises (cusp/in-stream.sig, cusp/out-stream.sig): the     *)
(* reader gets the bytes that were written, in order, each once, and hears   *)
(* of the end of the stream only when it was shut down and every byte was    *)
(* given.                                                                   *)
(***************************************************************************)
EXTENDS Integers, Sequences

VARIABLES
    written,    \* how many bytes were written
    closed,     \* was the stream shut down?
    delivered,  \* the bytes given to the reader
    ended       \* was the reader told SHUTDOWN?

vars == <<written, closed, delivered, ended>>

Init == written = 0 /\ ~closed /\ delivered = <<>> /\ ~ended

Write ==
    /\ ~closed
    /\ written' \in Nat /\ written' > written
    /\ UNCHANGED <<closed, delivered, ended>>

Close ==
    /\ ~closed /\ closed' = TRUE
    /\ UNCHANGED <<written, delivered, ended>>

\* A reset drops what was written and not sent.
Abandon ==
    /\ written' \in Len(delivered)..(written - 1)
    /\ UNCHANGED <<closed, delivered, ended>>

Deliver ==
    /\ Len(delivered) < Len(delivered') /\ Len(delivered') <= written
    /\ \A i \in 1..Len(delivered') : delivered'[i] = i - 1
    /\ UNCHANGED <<written, closed, ended>>

End ==
    /\ ~ended /\ closed /\ Len(delivered) = written
    /\ ended' = TRUE
    /\ UNCHANGED <<written, closed, delivered>>

\* The last bytes may come with the end.
DeliverAndEnd == 
    /\ ~ended /\ closed /\ ended' = TRUE
    /\ Len(delivered') = written
    /\ \A i \in 1..Len(delivered') : delivered'[i] = i - 1
    /\ UNCHANGED <<written, closed>>

Next == Write \/ Close \/ Abandon \/ Deliver \/ End \/ DeliverAndEnd

Spec == Init /\ [][Next]_vars
=============================================================================
