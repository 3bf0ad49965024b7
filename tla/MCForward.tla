----------------------------- MODULE MCForward ------------------------------
(* TLC instances of Forward: a collected beside a streamed chat completion, *)
(* and an activation beside the fetch of a model list.                      *)
EXTENDS Forward

MCMixes ==
  {[r \in Requests |-> IF r = CHOOSE x \in Requests : TRUE THEN m[1] ELSE m[2]] :
     m \in {<<"collect", "stream">>, <<"activate", "fetch">>}}
=============================================================================
