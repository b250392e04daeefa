----------------------------- MODULE MCBootGate -----------------------------
(* Model checking of BootGate: one container on its volume, started again. *)
EXTENDS BootGate
=============================================================================
