----------------------------- MODULE MCAutorace -----------------------------
(* A light that waits for one or two steps. *)
EXTENDS Autorace

MCDelays == {1, 2}
=============================================================================
