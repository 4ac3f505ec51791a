----------------------------- MODULE MCSignals -----------------------------
(* Signals on small instances. Requests are numbered, since symmetry is    *)
(* not sound for liveness.                                                 *)
EXTENDS Signals
=============================================================================
