--------------------------- MODULE MCKeyBootstrap ----------------------------
(* TLC instances of KeyBootstrap. *)
EXTENDS KeyBootstrap
=============================================================================
