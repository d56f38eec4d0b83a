---------------------------- MODULE MC_OutStream ----------------------------
(* OutStream on small instances. *)
EXTENDS OutStream
=============================================================================
