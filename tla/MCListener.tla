----------------------------- MODULE MCListener -----------------------------
(* Listener as it is: its constants are numbers.                              *)
EXTENDS Listener, TLC
=============================================================================
