------------------------------- MODULE Health -------------------------------
(***************************************************************************)
(* The alert-hysteresis function of modelwatch/core/health.py: what one    *)
(* check's verdict does to a model's health, and whether it opens or       *)
(* closes an incident.  A pure function, used by Monitor (one check at a   *)
(* time) and by Engine (checks that overlap).                              *)
(***************************************************************************)
EXTENDS Integers

HEALTHY    == "healthy"
WARNING    == "warning"
DEGRADED   == "degraded"
RECOVERING == "recovering"

HealthState == {HEALTHY, WARNING, DEGRADED, RECOVERING}

\* The states that belong to an incident (was_degraded in the code).
InIncident == {DEGRADED, RECOVERING}

\* A model_health row: the state and the two streak counters.
HealthRow == [state : HealthState, drifted : Nat, clean : Nat]

\* The three thresholds of MonitorConfig, read from the environment: any integer.
Threshold == [warning : Int, degraded : Int, recovery : Int]

HealthTransition ==
    [health : HealthRow, createAlert : BOOLEAN, resolveAlerts : BOOLEAN]

-----------------------------------------------------------------------------
\* MUTANT of StateAfterDrift: a relapse out of RECOVERING counts as a new warning.
StateAfterDrift_RelapseWarns(cfg, h) ==
    CASE h.state = RECOVERING             -> WARNING
      [] h.state # RECOVERING /\ h.drifted + 1 >= cfg.degraded -> DEGRADED
      [] OTHER                            -> WARNING

\* The state a drifted run leads to.
StateAfterDrift(cfg, h) ==
    LET drifted == h.drifted + 1 IN
    CASE drifted >= cfg.degraded                             -> DEGRADED
      [] drifted < cfg.degraded /\ drifted >= cfg.warning    -> WARNING
      [] drifted < cfg.degraded /\ drifted < cfg.warning     ->
            IF h.state \in InIncident THEN h.state ELSE HEALTHY

\* MUTANT of AfterDrifted: an alert for every run that finds the model degraded.
AfterDrifted_AlertsAgain(cfg, h) ==
    LET new == StateAfterDrift(cfg, h) IN
    [health        |-> [state |-> new, drifted |-> h.drifted + 1, clean |-> 0],
     createAlert   |-> new = DEGRADED /\ h.state # DEGRADED,
     resolveAlerts |-> FALSE]

AfterDrifted(cfg, h) ==
    LET new == StateAfterDrift(cfg, h) IN
    [health        |-> [state |-> new, drifted |-> h.drifted + 1, clean |-> 0],
     createAlert   |-> new = DEGRADED /\ h.state \notin InIncident,
     resolveAlerts |-> FALSE]

\* MUTANT of StateAfterClean: one clean run ends the incident.
StateAfterClean_ClosesAtOnce(cfg, h) == HEALTHY

\* The state a clean run leads to.
StateAfterClean(cfg, h) ==
    IF h.state = DEGRADED
    THEN IF h.clean + 1 >= cfg.recovery THEN RECOVERING ELSE DEGRADED
    ELSE HEALTHY

\* MUTANT of AfterClean: the drifted streak is worked off, not reset.
AfterClean_Decays(cfg, h) ==
    [health        |-> [state   |-> StateAfterClean(cfg, h),
                        drifted |-> h.drifted - 1,
                        clean   |-> h.clean + 1],
     createAlert   |-> FALSE,
     resolveAlerts |-> h.state = RECOVERING]

\* MUTANT of AfterClean: the clean streak is not carried on.
AfterClean_NoStreak(cfg, h) ==
    [health        |-> [state   |-> StateAfterClean(cfg, h),
                        drifted |-> 0,
                        clean   |-> 0],
     createAlert   |-> FALSE,
     resolveAlerts |-> h.state = RECOVERING]

AfterClean(cfg, h) ==
    [health        |-> [state   |-> StateAfterClean(cfg, h),
                        drifted |-> 0,
                        clean   |-> h.clean + 1],
     createAlert   |-> FALSE,
     resolveAlerts |-> h.state = RECOVERING]

NextHealthState(cfg, h, isDrifted) ==
    IF isDrifted THEN AfterDrifted(cfg, h) ELSE AfterClean(cfg, h)

(***************************************************************************)
(* Storage.get_health: a model with no model_health row is healthy, or     *)
(* degraded by one drifted run if it already carries an unresolved alert.  *)
(***************************************************************************)
HealthWithoutRow(hasOpenAlert) ==
    [state   |-> IF hasOpenAlert THEN DEGRADED ELSE HEALTHY,
     drifted |-> IF hasOpenAlert THEN 1 ELSE 0,
     clean   |-> 0]

\* What Storage.set_health writes at the end of a retrain.
HealthAfterRetrain == [state |-> HEALTHY, drifted |-> 0, clean |-> 0]

(***************************************************************************)
(* Thresholds under which a drifted run never leads out of an incident:    *)
(* DEGRADED is reached at once, or no later than WARNING would be.         *)
(***************************************************************************)
SoundThreshold(cfg) == cfg.degraded <= 1 \/ cfg.degraded <= cfg.warning
=============================================================================
