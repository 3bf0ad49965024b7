----------------------------- MODULE Admission ------------------------------
(***************************************************************************)
(* What admission control promises for one (node, model): a semaphore      *)
(* whose limit is the argument of each call.  CapacityTracker (module      *)
(* Capacity) implements it with two atomic counters and a Notify, until    *)
(* the first disconnect of the node discards the counters; from then on    *)
(* the promise is void, which is the variable forgotten.                   *)
(*                                                                         *)
(* A request is new, asks for a place, runs, and is over.  A limit of 0    *)
(* stands for no limit: such a request runs without taking a place.        *)
(***************************************************************************)
EXTENDS Integers, FiniteSets

CONSTANTS
  Requests,      \* the calls of acquire
  Concurrencies  \* the limits a call may name

VARIABLES
  stage,     \* per request: "new", "asking", "running" or "over"
  limit,     \* per request: the limit it named
  forgotten  \* the places taken have been forgotten

vars == <<stage, limit, forgotten>>

Init ==
  /\ stage = [r \in Requests |-> "new"]
  /\ limit = [r \in Requests |-> 0]
  /\ forgotten = FALSE

(* The requests that occupy a place. *)
Placed == {r \in Requests : stage[r] = "running" /\ limit[r] # 0}

Ask(r, c) ==
  /\ stage[r] = "new"
  /\ limit' = [limit EXCEPT ![r] = c]
  /\ stage' = [stage EXCEPT ![r] = IF c = 0 THEN "running" ELSE "asking"]
  /\ UNCHANGED forgotten

(* A place is given only while fewer than the caller's limit are taken. *)
Admit(r) ==
  /\ stage[r] = "asking"
  /\ forgotten \/ Cardinality(Placed) < limit[r]
  /\ stage' = [stage EXCEPT ![r] = "running"]
  /\ UNCHANGED <<limit, forgotten>>

(* The queue is full, the wait timed out, or the caller went away. *)
TurnAway(r) ==
  /\ stage[r] = "asking"
  /\ stage' = [stage EXCEPT ![r] = "over"]
  /\ UNCHANGED <<limit, forgotten>>

Leave(r) ==
  /\ stage[r] = "running"
  /\ stage' = [stage EXCEPT ![r] = "over"]
  /\ UNCHANGED <<limit, forgotten>>

Forget ==
  /\ forgotten' = TRUE
  /\ UNCHANGED <<stage, limit>>

Next ==
  \/ \E r \in Requests : Admit(r) \/ TurnAway(r) \/ Leave(r)
  \/ \E r \in Requests, c \in Concurrencies : Ask(r, c)
  \/ Forget

Spec == Init /\ [][Next]_vars
=============================================================================
