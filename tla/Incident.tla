------------------------------ MODULE Incident ------------------------------
(***************************************************************************)
(* What the hysteresis of modelwatch/core/health.py promises, without its  *)
(* states: an incident is opened by the drifted run that completes         *)
(* cfg.degraded drifted runs in a row and by no other, stays open while    *)
(* the model drifts, and is closed by a clean run or by a retrain.         *)
(***************************************************************************)
EXTENDS Integers

CONSTANT Configs     \* the thresholds the server may be started with

VARIABLES
    cfg,     \* the thresholds it was started with
    open,    \* whether an incident is open
    bad,     \* drifted runs in a row, up to now
    good     \* clean runs in a row, up to now

vars == <<cfg, open, bad, good>>

\* Clean runs in a row that an incident survives.
Patience == IF cfg.recovery > 1 THEN cfg.recovery ELSE 1

\* A database from before the hysteresis may hold an open incident.
Init ==
    /\ cfg \in Configs
    /\ open \in BOOLEAN
    /\ bad = IF open THEN 1 ELSE 0
    /\ good = 0

DriftedRun ==
    /\ bad' = bad + 1
    /\ good' = 0
    /\ open' = (open \/ bad' >= cfg.degraded)
    /\ UNCHANGED cfg

(***************************************************************************)
(* A clean run never opens an incident, always closes one that has lasted  *)
(* beyond its patience, and closes none earlier - unless the thresholds    *)
(* let a drifted run go by without it counting as a relapse.               *)
(***************************************************************************)
CleanRun ==
    /\ good' = good + 1
    /\ bad' = 0
    /\ open' \in BOOLEAN
    /\ open' => open
    /\ (open /\ open') => good' <= Patience
    /\ (open /\ ~open') => good' > Patience \/ cfg.degraded > 1
    /\ UNCHANGED cfg

Retrain ==
    /\ open' = FALSE
    /\ bad' = 0
    /\ good' = 0
    /\ UNCHANGED cfg

Next == DriftedRun \/ CleanRun \/ Retrain

Spec == Init /\ [][Next]_vars
=============================================================================
