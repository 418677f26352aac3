---------------------------- MODULE MCTelemetry ----------------------------
(***************************************************************************)
(* TLC instances of Telemetry: every kind of fault, and one alone.         *)
(***************************************************************************)
EXTENDS Telemetry

MCAnyFault == Fault

MCModelWatchDown == {"modelwatchDown"}
=============================================================================
