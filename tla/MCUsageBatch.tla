---------------------------- MODULE MCUsageBatch ----------------------------
(* TLC instances of UsageBatch: one report below the chunk of two tokens,  *)
(* and one that is empty or fills a chunk by itself.                       *)
EXTENDS UsageBatch

CONSTANTS u1, u2

MCSizes == [r \in Reports |-> IF r = u1 THEN {1} ELSE {0, 2}]
=============================================================================
