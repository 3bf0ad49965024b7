------------------------------ MODULE MCTunnel ------------------------------
(* TLC instances of Tunnel. *)
EXTENDS Tunnel
=============================================================================
