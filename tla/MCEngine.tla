------------------------------ MODULE MCEngine ------------------------------
(***************************************************************************)
(* TLC instances of Engine: one request at a time, and overlapping ones.   *)
(***************************************************************************)
EXTENDS Engine, TLC

\* The shipped thresholds, and three drifted batches to warn and to page.
MCConfigs == {[warning |-> 1, degraded |-> 1, recovery |-> 1],
              [warning |-> 3, degraded |-> 3, recovery |-> 2]}

\* The shipped thresholds.
MCDefaults == {[warning |-> 1, degraded |-> 1, recovery |-> 1]}

\* A process can be killed anywhere.
MCAnywhere == PC

\* Anywhere but in the two windows where the health and the alerts are half written.
MCOutsideWindows == PC \ {"createAlert", "resolveAlerts", "resetHealth"}

MCSymmetry == Permutations(Callers)
=============================================================================
