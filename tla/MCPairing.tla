----------------------------- MODULE MCPairing -----------------------------
(***************************************************************************)
(* Two clients, one of which leaves the check of the PIN to the host, with *)
(* two attempts each: a retry meets what the first attempt left behind.    *)
(***************************************************************************)
EXTENDS Pairing

=============================================================================
