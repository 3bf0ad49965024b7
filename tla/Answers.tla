------------------------------ MODULE Answers -------------------------------
(***************************************************************************)
(* What the router promises for each request it forwards: the chunks of    *)
(* the node's answer in their order, then one verdict that nothing follows *)
(* and nothing revises, and at most one bill: for chunks that were given,  *)
(* and for none if the answer was abandoned.  Module Forward implements it *)
(* with a pending map, two bounded channels, a bridge task and a           *)
(* completion that several paths try to run.                               *)
(***************************************************************************)
EXTENDS Integers, Sequences

CONSTANTS
  Requests,  \* requests sent through the tunnel
  Chunks     \* chunks of a whole answer

VARIABLES
  body,     \* per request: the chunks the client was given
  outcome,  \* per request: the verdict, "none" while there is none
  closed,   \* per request: its bill is closed
  bill      \* per request: the chunks it is billed for

vars == <<body, outcome, closed, bill>>

Verdicts == {"ok", "error", "timeout", "cancelled"}

Init ==
  /\ body = [r \in Requests |-> <<>>]
  /\ outcome = [r \in Requests |-> "none"]
  /\ closed = [r \in Requests |-> FALSE]
  /\ bill = [r \in Requests |-> {}]

(* The next chunk reaches the client. *)
Deliver(r) ==
  /\ outcome[r] = "none"
  /\ Len(body[r]) < Chunks
  /\ body' = [body EXCEPT ![r] = Append(@, Len(@) + 1)]
  /\ UNCHANGED <<outcome, closed, bill>>

(* The bill of an answer that ended as v is closed, once. *)
Settle(r, v) ==
  /\ ~closed[r]
  /\ closed' = [closed EXCEPT ![r] = TRUE]
  /\ \E b \in SUBSET (1 .. Len(body[r])) :
       /\ v = "cancelled" => b = {}
       /\ bill' = [bill EXCEPT ![r] = b]

(* The verdict; the bill may be closed with it or stay open. *)
Conclude(r, v) ==
  /\ outcome[r] = "none"
  /\ outcome' = [outcome EXCEPT ![r] = v]
  /\ Settle(r, v) \/ UNCHANGED <<closed, bill>>
  /\ UNCHANGED body

(* The bill is closed after the verdict. *)
SettleLater(r) ==
  /\ outcome[r] # "none"
  /\ Settle(r, outcome[r])
  /\ UNCHANGED <<body, outcome>>

Next ==
  \E r \in Requests :
    \/ Deliver(r) \/ SettleLater(r)
    \/ \E v \in Verdicts : Conclude(r, v)

Spec == Init /\ [][Next]_vars
=============================================================================
