------------------------------ MODULE MC_Stream ------------------------------
(* Stream on small instances: what the application reads at a time.           *)
EXTENDS Stream

AnyAmount == {-1}
AnyOrOne == {-1, 1}
=============================================================================
