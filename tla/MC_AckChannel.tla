---------------------------- MODULE MC_AckChannel ----------------------------
(* AckChannel with Reno, on small instances: peer a sends more packets than b. *)
EXTENDS Reno

CONSTANTS a, b

Quota31 == [p \in Peers |-> IF p = a THEN 3 ELSE 1]
=============================================================================
