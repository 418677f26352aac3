------------------------------ MODULE Monitor ------------------------------
(***************************************************************************)
(* One monitored model as ModelWatch means it to behave: checks and        *)
(* retrains one after the other, each of them a single step.  This is      *)
(* MonitoringEngine.run_check and trigger_retrain seen from outside, with  *)
(* what they leave in the tables model_health and alerts.                  *)
(***************************************************************************)
EXTENDS Health

CONSTANTS
    Configs,        \* the thresholds the server may be started with
    LegacyAlerts,   \* unresolved alerts a database from before model_health may hold
    MaxStreak       \* bound: no more runs in a row with the same verdict than this

ASSUME MonitorAssumption ==
    /\ Configs \subseteq Threshold
    /\ LegacyAlerts \subseteq Nat
    /\ MaxStreak \in Nat \ {0}

VARIABLES
    cfg,            \* thresholds of this server process
    row,            \* the model_health row, NoRow before the first check
    openAlerts      \* how many alerts of the model are unresolved

vars == <<cfg, row, openAlerts>>

NoRow == [state |-> "absent", drifted |-> 0, clean |-> 0]

TypeOK ==
    /\ cfg \in Configs
    /\ row \in HealthRow \cup {NoRow}
    /\ openAlerts \in Nat

\* Storage.get_health.
GetHealth == IF row = NoRow THEN HealthWithoutRow(openAlerts > 0) ELSE row

Init ==
    /\ cfg \in Configs
    /\ row = NoRow
    /\ openAlerts \in LegacyAlerts

\* What run_check does with the transition's two flags.
AlertsAfter(t) ==
    CASE t.createAlert                         -> openAlerts + 1
      [] ~t.createAlert /\ t.resolveAlerts     -> 0
      [] ~t.createAlert /\ ~t.resolveAlerts    -> openAlerts

\* MonitoringEngine.run_check with the verdict of the adapter.
RunCheck(isDrifted) ==
    LET h == GetHealth
        t == NextHealthState(cfg, h, isDrifted)
    IN  /\ IF isDrifted THEN h.drifted < MaxStreak ELSE h.clean < MaxStreak
        /\ row' = t.health
        /\ openAlerts' = AlertsAfter(t)
        /\ UNCHANGED cfg

\* MonitoringEngine.trigger_retrain.
Retrain ==
    /\ row' = HealthAfterRetrain
    /\ openAlerts' = 0
    /\ UNCHANGED cfg

Next ==
    \/ RunCheck(TRUE)
    \/ RunCheck(FALSE)
    \/ Retrain

Spec == Init /\ [][Next]_vars

\* As long as traffic is clean, the reporter keeps sending batches of it.
FairSpec == Spec /\ WF_vars(RunCheck(FALSE))

-----------------------------------------------------------------------------
(***************************************************************************)
(* The model has an open alert exactly while its health says it is in an   *)
(* incident, which is what Storage.get_health's docstring asks for and     *)
(* what run_check relies on: it decides from the state alone whether to    *)
(* raise or to resolve an alert.                                           *)
(***************************************************************************)
AlertAgreesWithHealth == openAlerts > 0 <=> GetHealth.state \in InIncident

(***************************************************************************)
(* "Fire exactly once per incident" (health.py): no alert is raised while  *)
(* another one is open, whatever sequence of warnings, relapses and        *)
(* recoveries led there.                                                   *)
(***************************************************************************)
OneAlertPerIncident == [][openAlerts' > openAlerts => openAlerts = 0]_vars

(***************************************************************************)
(* "recovery_after_consecutive consecutive clean runs before closing it"   *)
(* (health.py): a check resolves alerts only if it ends a streak of at     *)
(* least that many clean runs.                                             *)
(***************************************************************************)
ClosesOnlyAfterRecovery ==
    [][openAlerts' = 0 /\ openAlerts > 0 /\ ~Retrain
            => row'.clean >= cfg.recovery]_vars

\* The hysteresis promise: see Incident.
Inc == INSTANCE Incident WITH
           open <- openAlerts > 0,
           bad  <- GetHealth.drifted,
           good <- GetHealth.clean

ImplementsIncident == Inc!Spec

(***************************************************************************)
(* Once a model only sees clean runs, its alerts do not stay open for      *)
(* ever: run_check gets through DEGRADED and RECOVERING by clean runs      *)
(* alone.                                                                  *)
(***************************************************************************)
CleanTrafficClosesAlerts ==
    <>[](GetHealth.drifted = 0) => <>[](openAlerts = 0)
=============================================================================
