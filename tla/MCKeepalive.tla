---------------------------- MODULE MCKeepalive -----------------------------
(* TLC instances of Keepalive. *)
EXTENDS Keepalive
=============================================================================
