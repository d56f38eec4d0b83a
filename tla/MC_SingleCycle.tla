--------------------------- MODULE MC_SingleCycle ---------------------------
(* SingleCycle on small instances.                                            *)
EXTENDS SingleCycle

CONSTANTS r1, r2, s1, s2
=============================================================================
