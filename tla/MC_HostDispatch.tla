--------------------------- MODULE MC_HostDispatch ---------------------------
(* HostDispatch on small instances: two streams of two segments each.         *)
EXTENDS HostDispatch

CONSTANTS s1, s2

SizeOfStream == [s \in Streams |-> 2]
=============================================================================
