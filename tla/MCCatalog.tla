----------------------------- MODULE MCCatalog ------------------------------
(* TLC instances of Catalog: a limited model with a free place, one whose  *)
(* node reports more load than its limit, and a malformed one.             *)
EXTENDS Catalog

MCEntries ==
  {[conc |-> 2, active |-> 1, sparkl |-> TRUE],
   [conc |-> 1, active |-> 2, sparkl |-> TRUE],
   [conc |-> 0, active |-> 0, sparkl |-> FALSE]}
=============================================================================
