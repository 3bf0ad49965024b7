----------------------------- MODULE MCTelemetry ------------------------------
(* TLC instances of Telemetry. *)
EXTENDS Telemetry
=============================================================================
