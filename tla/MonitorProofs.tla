--------------------------- MODULE MonitorProofs ---------------------------
(***************************************************************************)
(* What holds of Monitor for all thresholds, any number of legacy alerts   *)
(* and any length of streak.                                               *)
(***************************************************************************)
EXTENDS Monitor, TLAPS

\* Every setting the server may be started with keeps a relapse in its incident.
SoundConfigs == \A c \in Configs : SoundThreshold(c)

-----------------------------------------------------------------------------
(***************************************************************************)
(* next_health_state returns a row that can be stored: a known state and   *)
(* streaks that are natural numbers, for all integer thresholds.           *)
(***************************************************************************)
LEMMA TransitionType ==
    ASSUME NEW c \in Threshold, NEW h \in HealthRow, NEW d \in BOOLEAN
    PROVE  NextHealthState(c, h, d) \in HealthTransition
  <1>1. StateAfterDrift(c, h) \in HealthState
    BY DEF StateAfterDrift, Threshold, HealthRow, HealthState, InIncident,
           HEALTHY, WARNING, DEGRADED, RECOVERING
  <1>2. StateAfterClean(c, h) \in HealthState
    BY DEF StateAfterClean, HealthState, HEALTHY, WARNING, DEGRADED, RECOVERING
  <1>3. AfterDrifted(c, h) \in HealthTransition
    BY <1>1 DEF AfterDrifted, HealthTransition, HealthRow
  <1>4. AfterClean(c, h) \in HealthTransition
    BY <1>2 DEF AfterClean, HealthTransition, HealthRow
  <1>5. QED BY <1>3, <1>4 DEF NextHealthState

(***************************************************************************)
(* Under sound thresholds a drifted run is in an incident afterwards       *)
(* exactly if it was before or raises the alert that opens one.            *)
(***************************************************************************)
LEMMA DriftedKeepsIncident ==
    ASSUME NEW c \in Threshold, SoundThreshold(c), NEW h \in HealthRow
    PROVE  LET t == AfterDrifted(c, h) IN
           /\ t.health.state \in InIncident <=> (h.state \in InIncident \/ t.createAlert)
           /\ t.createAlert <=> (h.state \notin InIncident /\ h.drifted + 1 >= c.degraded)
           /\ ~t.resolveAlerts
  <1>1. CASE h.drifted + 1 >= c.degraded
    <2>1. StateAfterDrift(c, h) = DEGRADED
      BY <1>1 DEF StateAfterDrift, Threshold, HealthRow
    <2>2. QED
      BY <1>1, <2>1 DEF AfterDrifted, InIncident
  <1>2. CASE h.drifted + 1 < c.degraded
    <2>1. h.drifted + 1 < c.warning
      BY <1>2 DEF SoundThreshold, Threshold, HealthRow
    <2>2. StateAfterDrift(c, h) = IF h.state \in InIncident THEN h.state ELSE HEALTHY
      BY <1>2, <2>1 DEF StateAfterDrift, Threshold, HealthRow
    <2>3. ~(h.drifted + 1 >= c.degraded)
      BY <1>2 DEF Threshold, HealthRow
    <2>4. StateAfterDrift(c, h) \in InIncident <=> h.state \in InIncident
      BY <2>2 DEF InIncident, HEALTHY, DEGRADED, RECOVERING
    <2>5. StateAfterDrift(c, h) = DEGRADED => h.state \in InIncident
      BY <2>2 DEF InIncident, HEALTHY, DEGRADED, RECOVERING
    <2>6. QED
      BY <2>3, <2>4, <2>5 DEF AfterDrifted
  <1>3. QED BY <1>1, <1>2 DEF Threshold, HealthRow

(***************************************************************************)
(* A clean run raises nothing, and leaves the incident exactly if it is    *)
(* the one that resolves the alerts - or if there was no incident.         *)
(***************************************************************************)
LEMMA CleanLeavesByResolving ==
    ASSUME NEW c \in Threshold, NEW h \in HealthRow
    PROVE  LET t == AfterClean(c, h) IN
           /\ t.health.state \in InIncident <=> (h.state \in InIncident /\ ~t.resolveAlerts)
           /\ t.resolveAlerts => h.state \in InIncident
           /\ ~t.createAlert
  BY DEF AfterClean, StateAfterClean, Threshold, HealthRow, InIncident, HealthState,
         HEALTHY, WARNING, DEGRADED, RECOVERING

\* The health that get_health returns can be handed to next_health_state.
LEMMA GetHealthType ==
    ASSUME TypeOK PROVE GetHealth \in HealthRow
  BY DEF TypeOK, GetHealth, HealthWithoutRow, HealthRow, NoRow, HealthState,
         HEALTHY, WARNING, DEGRADED, RECOVERING

\* A row that has been written is what get_health returns.
LEMMA RowIsRead ==
    ASSUME NEW r \in HealthRow PROVE r # NoRow
  BY DEF HealthRow, NoRow, HealthState, HEALTHY, WARNING, DEGRADED, RECOVERING

-----------------------------------------------------------------------------
(***************************************************************************)
(* The rows that run_check and trigger_retrain store, and the number of    *)
(* open alerts they leave, are of their types.                             *)
(***************************************************************************)
THEOREM TypeCorrect == Spec => []TypeOK
  <1>1. Init => TypeOK
    BY MonitorAssumption DEF Init, TypeOK
  <1>2. TypeOK /\ [Next]_vars => TypeOK'
    <2> SUFFICES ASSUME TypeOK, [Next]_vars PROVE TypeOK'
      OBVIOUS
    <2>1. ASSUME NEW d \in BOOLEAN, RunCheck(d) PROVE TypeOK'
      <3> DEFINE t == NextHealthState(cfg, GetHealth, d)
      <3>1. t \in HealthTransition
        BY TransitionType, GetHealthType, MonitorAssumption DEF TypeOK
      <3>2. openAlerts' \in Nat
        <4>1. t.createAlert \in BOOLEAN /\ t.resolveAlerts \in BOOLEAN
          BY <3>1 DEF HealthTransition
        <4>2. openAlerts' = AlertsAfter(t)
          BY <2>1 DEF RunCheck
        <4> HIDE DEF t
        <4>3. QED BY <4>1, <4>2 DEF AlertsAfter, TypeOK
      <3>3. QED BY <2>1, <3>1, <3>2 DEF RunCheck, TypeOK, HealthTransition
    <2>2. CASE Retrain
      BY <2>2 DEF Retrain, TypeOK, HealthAfterRetrain, HealthRow, HealthState,
                  HEALTHY, WARNING, DEGRADED, RECOVERING
    <2>3. CASE UNCHANGED vars
      BY <2>3 DEF vars, TypeOK
    <2>4. QED BY <2>1, <2>2, <2>3 DEF Next
  <1>3. QED BY <1>1, <1>2, PTL DEF Spec

-----------------------------------------------------------------------------
(***************************************************************************)
(* The inductive invariant.  Alerts follow the state; DEGRADED has not yet *)
(* seen the clean runs that lead out of it; and if the first drifted run   *)
(* already counts, RECOVERING has seen all of them.                        *)
(***************************************************************************)
StreaksFitState ==
    /\ GetHealth.state = DEGRADED => GetHealth.clean < Inc!Patience
    /\ GetHealth.state = RECOVERING /\ cfg.degraded <= 1 => GetHealth.clean >= Inc!Patience

IInv == TypeOK /\ AlertAgreesWithHealth /\ StreaksFitState

\* A step of run_check, in terms of the health it read.
LEMMA CheckStep ==
    ASSUME TypeOK, NEW d \in BOOLEAN, RunCheck(d)
    PROVE  LET t == NextHealthState(cfg, GetHealth, d) IN
           /\ t \in HealthTransition
           /\ GetHealth' = t.health
           /\ openAlerts' = AlertsAfter(t)
           /\ cfg' = cfg
  <1> DEFINE t == NextHealthState(cfg, GetHealth, d)
  <1>1. t \in HealthTransition
    BY TransitionType, GetHealthType, MonitorAssumption DEF TypeOK
  <1>2. row' = t.health /\ openAlerts' = AlertsAfter(t) /\ cfg' = cfg
    BY DEF RunCheck
  <1>3. t.health \in HealthRow
    BY <1>1 DEF HealthTransition
  <1>4. GetHealth' = t.health
    BY <1>2, <1>3, RowIsRead DEF GetHealth
  <1>5. QED BY <1>1, <1>2, <1>4

\* A retrain leaves a written row, so get_health returns it.
LEMMA RetrainStep ==
    ASSUME Retrain
    PROVE  GetHealth' = HealthAfterRetrain /\ openAlerts' = 0 /\ cfg' = cfg
  BY DEF Retrain, GetHealth, HealthAfterRetrain, NoRow,
         HEALTHY, WARNING, DEGRADED, RECOVERING

\* A check, under sound thresholds, in terms of alerts and incident.
LEMMA CheckKeepsAgreement ==
    ASSUME SoundConfigs, TypeOK, AlertAgreesWithHealth, NEW d \in BOOLEAN, RunCheck(d)
    PROVE  AlertAgreesWithHealth' /\ (openAlerts' > openAlerts => openAlerts = 0)
  <1> DEFINE h == GetHealth
             t == NextHealthState(cfg, h, d)
  <1>1. cfg \in Threshold /\ SoundThreshold(cfg) /\ h \in HealthRow
    BY GetHealthType, MonitorAssumption DEF SoundConfigs, TypeOK
  <1>2. t \in HealthTransition /\ GetHealth' = t.health /\ openAlerts' = AlertsAfter(t)
    BY CheckStep
  <1>3. /\ t.health.state \in InIncident <=>
              ((h.state \in InIncident \/ t.createAlert) /\ ~t.resolveAlerts)
        /\ t.createAlert => h.state \notin InIncident
        /\ ~(t.createAlert /\ t.resolveAlerts)
    <2>1. CASE d
      BY <1>1, <2>1, DriftedKeepsIncident DEF NextHealthState
    <2>2. CASE ~d
      BY <1>1, <2>2, CleanLeavesByResolving DEF NextHealthState
    <2>3. QED BY <2>1, <2>2
  <1>5. openAlerts \in Nat /\ (openAlerts > 0 <=> h.state \in InIncident)
    BY DEF TypeOK, AlertAgreesWithHealth
  <1>6. AlertAgreesWithHealth' <=> (openAlerts' > 0 <=> t.health.state \in InIncident)
    BY <1>2 DEF AlertAgreesWithHealth
  <1> HIDE DEF t, h
  <1>7. CASE t.createAlert
    <2>1. openAlerts' = openAlerts + 1
      BY <1>2, <1>3, <1>7, Zenon DEF AlertsAfter
    <2>2. h.state \notin InIncident /\ t.health.state \in InIncident
      BY <1>3, <1>7, Zenon
    <2>3. QED BY <1>5, <1>6, <2>1, <2>2
  <1>8. CASE ~t.createAlert /\ t.resolveAlerts
    <2>1. openAlerts' = 0
      BY <1>2, <1>8, Zenon DEF AlertsAfter
    <2>2. t.health.state \notin InIncident
      BY <1>3, <1>8, Zenon
    <2>3. QED BY <1>5, <1>6, <2>1, <2>2
  <1>9. CASE ~t.createAlert /\ ~t.resolveAlerts
    <2>1. openAlerts' = openAlerts
      BY <1>2, <1>9, Zenon DEF AlertsAfter
    <2>2. t.health.state \in InIncident <=> h.state \in InIncident
      BY <1>3, <1>9, Zenon
    <2>3. QED BY <1>5, <1>6, <2>1, <2>2
  <1>10. QED BY <1>7, <1>8, <1>9

\* A check moves the streaks the way StreaksFitState needs, whatever the thresholds.
LEMMA CheckKeepsStreaks ==
    ASSUME TypeOK, StreaksFitState, NEW d \in BOOLEAN, RunCheck(d)
    PROVE  StreaksFitState'
  <1> DEFINE h == GetHealth
             t == NextHealthState(cfg, h, d)
  <1>1. cfg \in Threshold /\ h \in HealthRow
    BY GetHealthType, MonitorAssumption DEF TypeOK
  <1>2. GetHealth' = t.health /\ cfg' = cfg
    BY CheckStep
  <1>3. Inc!Patience' = Inc!Patience
    BY <1>2 DEF Inc!Patience
  <1>4. Inc!Patience \in Nat \ {0} /\ Inc!Patience >= cfg.recovery
        /\ (cfg.recovery >= 1 => Inc!Patience = cfg.recovery)
        /\ (cfg.recovery < 1 => Inc!Patience = 1)
    BY <1>1 DEF Inc!Patience, Threshold
  <1>5. StreaksFitState' <=>
          /\ t.health.state = DEGRADED => t.health.clean < Inc!Patience
          /\ t.health.state = RECOVERING /\ cfg.degraded <= 1
                => t.health.clean >= Inc!Patience
    BY <1>2, <1>3 DEF StreaksFitState
  <1>6. CASE d
    <2>1. t.health = [state |-> StateAfterDrift(cfg, h), drifted |-> h.drifted + 1, clean |-> 0]
      BY <1>6 DEF NextHealthState, AfterDrifted
    <2>2. cfg.degraded <= 1 => StateAfterDrift(cfg, h) = DEGRADED
      BY <1>1 DEF StateAfterDrift, Threshold, HealthRow
    <2>3. QED
      BY <1>4, <1>5, <2>1, <2>2 DEF DEGRADED, RECOVERING
  <1>7. CASE ~d
    <2>1. t.health = [state |-> StateAfterClean(cfg, h), drifted |-> 0, clean |-> h.clean + 1]
      BY <1>7 DEF NextHealthState, AfterClean
    <2>2. h.state = DEGRADED => h.clean < Inc!Patience
      BY DEF StreaksFitState
    <2>3. QED
      BY <1>1, <1>4, <1>5, <2>1, <2>2
         DEF StateAfterClean, Threshold, HealthRow, HEALTHY, DEGRADED, RECOVERING
  <1>8. QED BY <1>6, <1>7

LEMMA InitIInv == Init => IInv
  <1> SUFFICES ASSUME Init PROVE IInv
    OBVIOUS
  <1>1. TypeOK
    BY MonitorAssumption DEF Init, TypeOK
  <1>2. GetHealth = HealthWithoutRow(openAlerts > 0)
    BY DEF Init, GetHealth
  <1>3. AlertAgreesWithHealth
    BY <1>2 DEF AlertAgreesWithHealth, HealthWithoutRow, InIncident,
                HEALTHY, DEGRADED, RECOVERING
  <1>4. Inc!Patience \in Nat \ {0}
    BY <1>1, MonitorAssumption DEF TypeOK, Threshold, Inc!Patience
  <1>5. StreaksFitState
    BY <1>2, <1>4 DEF StreaksFitState, HealthWithoutRow, HEALTHY, DEGRADED, RECOVERING
  <1>6. QED BY <1>1, <1>3, <1>5 DEF IInv

LEMMA NextIInv ==
    ASSUME SoundConfigs PROVE IInv /\ TypeOK' /\ [Next]_vars => IInv'
  <1> SUFFICES ASSUME IInv, TypeOK', [Next]_vars PROVE IInv'
    OBVIOUS
  <1> USE DEF IInv
  <1>1. ASSUME NEW d \in BOOLEAN, RunCheck(d) PROVE IInv'
    BY <1>1, CheckKeepsAgreement, CheckKeepsStreaks
  <1>2. CASE Retrain
    <2>1. GetHealth' = HealthAfterRetrain /\ openAlerts' = 0
      BY <1>2, RetrainStep
    <2>2. QED
      BY <2>1 DEF AlertAgreesWithHealth, StreaksFitState, HealthAfterRetrain, InIncident,
                  HEALTHY, DEGRADED, RECOVERING
  <1>3. CASE UNCHANGED vars
    BY <1>3 DEF vars, AlertAgreesWithHealth, StreaksFitState, GetHealth, Inc!Patience
  <1>4. QED BY <1>1, <1>2, <1>3 DEF Next

(***************************************************************************)
(* IInv is an invariant of every behaviour with sound thresholds.          *)
(***************************************************************************)
THEOREM Inductive == ASSUME SoundConfigs PROVE Spec => []IInv
  <1>1. Init => IInv
    BY InitIInv
  <1>2. IInv /\ TypeOK' /\ [Next]_vars => IInv'
    BY NextIInv
  <1>3. QED BY <1>1, <1>2, TypeCorrect, PTL DEF Spec

(***************************************************************************)
(* Under sound thresholds, run_check and trigger_retrain never leave an    *)
(* open alert beside a healthy model nor an incident without an alert.     *)
(***************************************************************************)
THEOREM AlertAgreement ==
    ASSUME SoundConfigs PROVE Spec => []AlertAgreesWithHealth
  <1>1. IInv => AlertAgreesWithHealth
    BY DEF IInv
  <1>2. QED BY <1>1, Inductive, PTL

(***************************************************************************)
(* Under sound thresholds run_check raises no second alert for an          *)
(* incident, after any sequence of checks and retrains.                    *)
(***************************************************************************)
THEOREM NoSecondAlert ==
    ASSUME SoundConfigs PROVE Spec => OneAlertPerIncident
  <1>1. IInv /\ [Next]_vars => [openAlerts' > openAlerts => openAlerts = 0]_vars
    <2> SUFFICES ASSUME IInv, Next, openAlerts' > openAlerts PROVE openAlerts = 0
      OBVIOUS
    <2>1. ASSUME NEW d \in BOOLEAN, RunCheck(d) PROVE openAlerts = 0
      BY <2>1, CheckKeepsAgreement DEF IInv
    <2>2. CASE Retrain
      BY <2>2 DEF Retrain, IInv, TypeOK
    <2>3. QED BY <2>1, <2>2 DEF Next
  <1>2. QED BY <1>1, Inductive, PTL DEF Spec, OneAlertPerIncident

(***************************************************************************)
(* Under sound thresholds the monitor keeps the promise of the hysteresis: *)
(* every check and retrain is a step of Incident.                          *)
(***************************************************************************)
THEOREM RefinesIncident ==
    ASSUME SoundConfigs PROVE Spec => ImplementsIncident
  <1>1. Init => Inc!Init
    <2> SUFFICES ASSUME Init PROVE Inc!Init
      OBVIOUS
    <2>1. GetHealth = HealthWithoutRow(openAlerts > 0)
      BY DEF Init, GetHealth
    <2>2. QED BY <2>1 DEF Init, Inc!Init, HealthWithoutRow
  <1>2. IInv /\ IInv' /\ [Next]_vars => [Inc!Next]_(Inc!vars)
    <2> SUFFICES ASSUME IInv, IInv', [Next]_vars PROVE Inc!Next \/ UNCHANGED Inc!vars
      OBVIOUS
    <2> USE DEF IInv
    <2>1. openAlerts > 0 <=> GetHealth.state \in InIncident
      BY DEF AlertAgreesWithHealth
    <2>2. openAlerts' > 0 <=> GetHealth'.state \in InIncident
      BY DEF AlertAgreesWithHealth
    <2>3. cfg \in Threshold /\ SoundThreshold(cfg) /\ GetHealth \in HealthRow
      BY GetHealthType, MonitorAssumption DEF SoundConfigs, TypeOK
    <2>4. CASE RunCheck(TRUE)
      <3> DEFINE t == AfterDrifted(cfg, GetHealth)
      <3>1. GetHealth' = t.health /\ cfg' = cfg
        BY <2>4, CheckStep DEF NextHealthState
      <3>2. /\ t.health.state \in InIncident <=>
                 (GetHealth.state \in InIncident \/ t.createAlert)
            /\ t.createAlert <=> (GetHealth.state \notin InIncident
                                   /\ GetHealth.drifted + 1 >= cfg.degraded)
        BY <2>3, DriftedKeepsIncident
      <3>3. GetHealth'.drifted = GetHealth.drifted + 1 /\ GetHealth'.clean = 0
        BY <3>1 DEF AfterDrifted
      <3>4. (openAlerts' > 0) = ((openAlerts > 0) \/ GetHealth'.drifted >= cfg.degraded)
        BY <2>1, <2>2, <3>1, <3>2, <3>3
      <3>5. QED BY <3>1, <3>3, <3>4 DEF Inc!Next, Inc!DriftedRun
    <2>5. CASE RunCheck(FALSE)
      <3> DEFINE t == AfterClean(cfg, GetHealth)
      <3>1. GetHealth' = t.health /\ cfg' = cfg
        BY <2>5, CheckStep DEF NextHealthState
      <3>2. GetHealth'.drifted = 0 /\ GetHealth'.clean = GetHealth.clean + 1
            /\ GetHealth'.state = StateAfterClean(cfg, GetHealth)
        BY <3>1 DEF AfterClean
      <3>3. Inc!Patience \in Nat
        BY <2>3 DEF Inc!Patience, Threshold
      <3>4. CASE GetHealth.state = DEGRADED
        <4>1. openAlerts > 0 /\ openAlerts' > 0
          BY <2>1, <2>2, <3>2, <3>4 DEF StateAfterClean, InIncident
        <4>2. GetHealth'.clean <= Inc!Patience
          BY <2>3, <3>2, <3>3, <3>4 DEF StreaksFitState, HealthRow
        <4>3. QED BY <3>1, <3>2, <4>1, <4>2 DEF Inc!Next, Inc!CleanRun
      <3>5. CASE GetHealth.state = RECOVERING
        <4>1. openAlerts > 0 /\ ~(openAlerts' > 0)
          BY <2>1, <2>2, <3>2, <3>5
             DEF StateAfterClean, InIncident, HEALTHY, DEGRADED, RECOVERING
        <4>2. GetHealth'.clean > Inc!Patience \/ cfg.degraded > 1
          BY <2>3, <3>2, <3>3, <3>5 DEF StreaksFitState, HealthRow, Threshold
        <4>3. QED BY <3>1, <3>2, <4>1, <4>2 DEF Inc!Next, Inc!CleanRun
      <3>6. CASE GetHealth.state \notin InIncident
        <4>1. ~(openAlerts > 0) /\ ~(openAlerts' > 0)
          BY <2>1, <2>2, <3>2, <3>6
             DEF StateAfterClean, InIncident, HEALTHY, DEGRADED, RECOVERING
        <4>2. QED BY <3>1, <3>2, <4>1 DEF Inc!Next, Inc!CleanRun
      <3>7. QED BY <3>4, <3>5, <3>6 DEF InIncident
    <2>6. CASE Retrain
      <3>1. GetHealth' = HealthAfterRetrain /\ openAlerts' = 0 /\ cfg' = cfg
        BY <2>6, RetrainStep
      <3>2. QED BY <3>1 DEF Inc!Next, Inc!Retrain, HealthAfterRetrain
    <2>7. CASE UNCHANGED vars
      BY <2>7 DEF vars, Inc!vars, GetHealth
    <2>8. QED BY <2>4, <2>5, <2>6, <2>7 DEF Next
  <1>3. QED BY <1>1, <1>2, Inductive, PTL DEF Spec, ImplementsIncident, Inc!Spec
=============================================================================
