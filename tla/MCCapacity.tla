------------------------------ MODULE MCCapacity ------------------------------
(* TLC instances of Capacity. *)
EXTENDS Capacity
=============================================================================
