----------------------------- MODULE MCMetering ------------------------------
(* TLC instances of Metering: answers of up to MaxEvents events. *)
EXTENDS Metering

CONSTANT MaxEvents

MCUsages   == {[input |-> 1, output |-> 1], [input |-> 2, output |-> 3]}
MCReceipts == {1, 2}
MCEvents   ==
  [usage : MCUsages \cup {None}, receipt : MCReceipts \cup {None}, quotes : BOOLEAN]
MCStreams  == UNION {[1 .. n -> MCEvents] : n \in 1 .. MaxEvents}
=============================================================================
