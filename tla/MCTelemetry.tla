---------------------------- MODULE MCTelemetry ----------------------------
(* Telemetry for TLC. *)
EXTENDS Telemetry

MCFills == {[vstk |-> 2, ait |-> 2]}
=============================================================================
