--------------------------- MODULE MCSessionCache ---------------------------
(* TLC instances of SessionCache. *)
EXTENDS SessionCache
=============================================================================
