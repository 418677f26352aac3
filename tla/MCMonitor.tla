----------------------------- MODULE MCMonitor -----------------------------
(***************************************************************************)
(* TLC instances of Monitor: every combination of small thresholds under   *)
(* which the alert bookkeeping is sound, and two that it is not.           *)
(***************************************************************************)
EXTENDS Monitor

SmallThreshold == [warning : 0..3, degraded : 0..3, recovery : 0..3]

MCSound == {c \in SmallThreshold : SoundThreshold(c)}

\* The setting config.py recommends to try first: two drifted batches to page.
MCTwoToPage == {[warning |-> 1, degraded |-> 2, recovery |-> 1]}

\* Two drifted batches to warn and to page, two clean ones to recover.
MCTwoToRecover == {[warning |-> 2, degraded |-> 2, recovery |-> 2]}

MCLegacyAlerts == 0..2

\* A database created with the model_health table.
MCNoLegacyAlerts == {0}
=============================================================================
