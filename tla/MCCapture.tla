----------------------------- MODULE MCCapture -----------------------------
(* Two sessions, one of them input only; the instance of the runs.           *)
EXTENDS Capture
=============================================================================
