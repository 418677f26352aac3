------------------------------- MODULE Engine -------------------------------
(***************************************************************************)
(* MonitoringEngine over Storage, for one monitored model, as ModelWatch's *)
(* API runs it: each request is served by a thread of its own, and only    *)
(* the single storage calls are atomic (Storage._cursor holds a lock for   *)
(* the length of one transaction).  One action per storage call; what a    *)
(* thread still needs of what it has read is in loc.  The tables survive   *)
(* a crash; the threads and the dictionary of live adapters do not.        *)
(*                                                                         *)
(* Every query of Storage is by model_id, so models do not meet in the     *)
(* tables; this is one of them.                                            *)
(***************************************************************************)
EXTENDS Health, Sequences, FiniteSets

CONSTANTS
    Callers,        \* the request threads
    Configs,        \* thresholds the server may be started with
    CrashPoints,    \* where a thread may be when the process is killed
    MaxRows,        \* bound: rows of the tables runs and baselines together
    MaxCrashes      \* bound: crashes

\* Where a thread is: the storage call it will make next.
Registering == {"attach", "firstBaseline", "firstVersion"}
Checking    == {"judge", "saveRun", "readHealth", "readAlerts", "setHealth",
                "createAlert", "resolveAlerts"}
Retraining  == {"saveBaseline", "setVersion", "addVersion", "resolveForRetrain",
                "resetHealth"}
PC == {"idle"} \cup Registering \cup Checking \cup Retraining

ASSUME EngineAssumption ==
    /\ Callers # {} /\ IsFiniteSet(Callers)
    /\ Configs \subseteq Threshold
    /\ CrashPoints \subseteq PC
    /\ MaxRows \in Nat /\ MaxCrashes \in Nat

VARIABLES
    cfg,        \* thresholds of the server process
    version,    \* models.current_version, 0 while the model has no row
    baselines,  \* table baselines: the version of each row, in order of id
    versions,   \* table versions: the version of each row
    runs,       \* table runs (baseline: the row it was judged against)
    alerts,     \* table alerts
    row,        \* the model_health row, NoRow before the first check
    attached,   \* whether the process holds a live adapter for the model
    pc, loc,    \* per thread: its next call, and its local variables
    crashes

tables == <<version, baselines, versions, runs, alerts, row>>
vars == <<cfg, tables, attached, pc, loc, crashes>>

NoRow == [state |-> "absent", drifted |-> 0, clean |-> 0]

Run   == [version : Nat, baseline : Nat, drifted : BOOLEAN]
Alert == [run : Nat, resolved : BOOLEAN]

Local == [baseline : Nat, version : Nat, run : Nat, drifted : BOOLEAN,
          health : HealthRow \cup {NoRow}]

Know(b, v, r, d, h) ==
    [baseline |-> b, version |-> v, run |-> r, drifted |-> d, health |-> h]

NoLocal == Know(0, 0, 0, FALSE, NoRow)

TypeOK ==
    /\ cfg \in Configs
    /\ version \in Nat
    /\ baselines \in Seq(Nat)
    /\ versions \in Seq(Nat)
    /\ runs \in Seq(Run)
    /\ alerts \in Seq(Alert)
    /\ row \in HealthRow \cup {NoRow}
    /\ attached \in BOOLEAN
    /\ pc \in [Callers -> PC]
    /\ loc \in [Callers -> Local]
    /\ crashes \in Nat

-----------------------------------------------------------------------------
At(t, here) == pc[t] = here
Goto(t, there) == pc' = [pc EXCEPT ![t] = there]

\* What t still needs of what it has read.
Remember(t, b, v, r, d, h) == loc' = [loc EXCEPT ![t] = Know(b, v, r, d, h)]

\* The request ends, with a result or with an error.
Return(t) ==
    /\ pc'  = [pc EXCEPT ![t] = "idle"]
    /\ loc' = [loc EXCEPT ![t] = NoLocal]

Pending(points) == Cardinality({t \in Callers : pc[t] \in points})

\* The bound on new requests, counting the rows that those under way may add.
MayAddRow ==
    Len(runs) + Len(baselines) + Pending({"judge", "saveRun", "firstBaseline", "saveBaseline"})
        < MaxRows

Open == {i \in DOMAIN alerts : ~alerts[i].resolved}

\* MUTANT of IsLatestBaseline: ORDER BY version without DESC.
IsLatestBaseline_Oldest(i) ==
    \A j \in DOMAIN baselines : baselines[i] <= baselines[j]

\* Storage.get_latest_baseline: the highest version, and of those the last row.
IsLatestBaseline(i) ==
    \A j \in DOMAIN baselines :
        baselines[j] < baselines[i] \/ (baselines[j] = baselines[i] /\ j <= i)

\* Storage.resolve_alerts_for_model.
AllResolved ==
    [i \in DOMAIN alerts |-> [run |-> alerts[i].run, resolved |-> TRUE]]

(***************************************************************************)
(* A new database; or one from before model_health, whose server has been  *)
(* upgraded and started, with an alert still open or not.                  *)
(***************************************************************************)
EmptyTables ==
    /\ version = 0
    /\ baselines = <<>>
    /\ versions = <<>>
    /\ runs = <<>>
    /\ alerts = <<>>

UpgradedTables ==
    /\ version = 1
    /\ baselines = <<1>>
    /\ versions = <<1>>
    /\ runs = <<[version |-> 1, baseline |-> 1, drifted |-> TRUE]>>
    /\ \E r \in BOOLEAN : alerts = <<[run |-> 1, resolved |-> r]>>

Init ==
    /\ cfg \in Configs
    /\ EmptyTables \/ UpgradedTables
    /\ row = NoRow
    /\ attached = (version > 0)
    /\ pc = [t \in Callers |-> "idle"]
    /\ loc = [t \in Callers |-> NoLocal]
    /\ crashes = 0

-----------------------------------------------------------------------------
(* register_model *)

\* create_model: the model's row, with current_version 1; a second one is refused (409).
CreateModel(t) ==
    /\ At(t, "idle")
    /\ IF version = 0
       THEN version' = 1 /\ Goto(t, "attach")
       ELSE UNCHANGED <<version, pc>>
    /\ UNCHANGED <<cfg, baselines, versions, runs, alerts, row, attached, loc, crashes>>

AttachAdapter(t) ==
    /\ At(t, "attach")
    /\ attached' = TRUE
    /\ Goto(t, "firstBaseline")
    /\ UNCHANGED <<cfg, tables, loc, crashes>>

\* build_baseline accepts the data and its result is saved, or it raises.
FirstBaseline(t) ==
    /\ At(t, "firstBaseline")
    /\ \/ /\ baselines' = Append(baselines, 1)
          /\ Goto(t, "firstVersion")
          /\ UNCHANGED loc
       \/ /\ UNCHANGED baselines
          /\ Return(t)
    /\ UNCHANGED <<cfg, version, versions, runs, alerts, row, attached, crashes>>

FirstVersion(t) ==
    /\ At(t, "firstVersion")
    /\ versions' = Append(versions, 1)
    /\ Return(t)
    /\ UNCHANGED <<cfg, version, baselines, runs, alerts, row, attached, crashes>>

-----------------------------------------------------------------------------
(* run_check *)

\* _get_adapter and get_latest_baseline: the request is refused (404 or 409)
\* without a live adapter, or without a baseline.
StartCheck(t) ==
    /\ At(t, "idle")
    /\ attached
    /\ MayAddRow
    /\ \E i \in DOMAIN baselines :
          /\ IsLatestBaseline(i)
          /\ Remember(t, i, 0, 0, FALSE, NoRow)
    /\ Goto(t, "judge")
    /\ UNCHANGED <<cfg, tables, attached, crashes>>

\* The adapter's verdict on the batch (it may raise), then get_model.
Judge(t) ==
    /\ At(t, "judge")
    /\ \/ /\ \E d \in BOOLEAN :
                Remember(t, loc[t].baseline, version, 0, d, NoRow)
          /\ Goto(t, "saveRun")
       \/ Return(t)
    /\ UNCHANGED <<cfg, tables, attached, crashes>>

\* MUTANT of SaveRun: only drifted runs are worth a row.
SaveRun_OnlyDrifted(t) ==
    /\ At(t, "saveRun")
    /\ runs' = IF loc[t].drifted
               THEN Append(runs, [version  |-> loc[t].version,
                                  baseline |-> loc[t].baseline,
                                  drifted  |-> TRUE])
               ELSE runs
    /\ Remember(t, 0, 0, Len(runs'), loc[t].drifted, NoRow)
    /\ Goto(t, "readHealth")
    /\ UNCHANGED <<cfg, version, baselines, versions, alerts, row, attached, crashes>>

SaveRun(t) ==
    /\ At(t, "saveRun")
    /\ runs' = Append(runs, [version  |-> loc[t].version,
                             baseline |-> loc[t].baseline,
                             drifted  |-> loc[t].drifted])
    /\ Remember(t, 0, 0, Len(runs) + 1, loc[t].drifted, NoRow)
    /\ Goto(t, "readHealth")
    /\ UNCHANGED <<cfg, version, baselines, versions, alerts, row, attached, crashes>>

\* get_health, first transaction: the row.
ReadHealth(t) ==
    /\ At(t, "readHealth")
    /\ \/ /\ row # NoRow
          /\ Remember(t, 0, 0, loc[t].run, loc[t].drifted, row)
          /\ Goto(t, "setHealth")
       \/ /\ row = NoRow
          /\ Goto(t, "readAlerts")
          /\ UNCHANGED loc
    /\ UNCHANGED <<cfg, tables, attached, crashes>>

\* MUTANT of ReadAlerts: a model without a row is healthy.
ReadAlerts_AssumesHealthy(t) ==
    /\ At(t, "readAlerts")
    /\ Remember(t, 0, 0, loc[t].run, loc[t].drifted, HealthWithoutRow(FALSE))
    /\ Goto(t, "setHealth")
    /\ UNCHANGED <<cfg, tables, attached, crashes>>

\* get_health, second transaction: without a row, the open alerts decide.
ReadAlerts(t) ==
    /\ At(t, "readAlerts")
    /\ Remember(t, 0, 0, loc[t].run, loc[t].drifted, HealthWithoutRow(Open # {}))
    /\ Goto(t, "setHealth")
    /\ UNCHANGED <<cfg, tables, attached, crashes>>

Transition(t) == NextHealthState(cfg, loc[t].health, loc[t].drifted)

SetHealth(t) ==
    /\ At(t, "setHealth")
    /\ row' = Transition(t).health
    /\ \/ /\ Transition(t).createAlert
          /\ Remember(t, 0, 0, loc[t].run, FALSE, NoRow)
          /\ Goto(t, "createAlert")
       \/ /\ ~Transition(t).createAlert
          /\ Transition(t).resolveAlerts
          /\ loc' = [loc EXCEPT ![t] = NoLocal]
          /\ Goto(t, "resolveAlerts")
       \/ /\ ~Transition(t).createAlert
          /\ ~Transition(t).resolveAlerts
          /\ Return(t)
    /\ UNCHANGED <<cfg, version, baselines, versions, runs, alerts, attached, crashes>>

\* MUTANT of CreateAlert: the run's id is looked up when it is needed.
CreateAlert_LastRun(t) ==
    /\ At(t, "createAlert")
    /\ alerts' = Append(alerts, [run |-> Len(runs), resolved |-> FALSE])
    /\ Return(t)
    /\ UNCHANGED <<cfg, version, baselines, versions, runs, row, attached, crashes>>

\* create_alert; the webhook that follows is best effort and changes nothing here.
CreateAlert(t) ==
    /\ At(t, "createAlert")
    /\ alerts' = Append(alerts, [run |-> loc[t].run, resolved |-> FALSE])
    /\ Return(t)
    /\ UNCHANGED <<cfg, version, baselines, versions, runs, row, attached, crashes>>

ResolveAlerts(t) ==
    /\ At(t, "resolveAlerts")
    /\ alerts' = AllResolved
    /\ Return(t)
    /\ UNCHANGED <<cfg, version, baselines, versions, runs, row, attached, crashes>>

-----------------------------------------------------------------------------
(* trigger_retrain *)

\* _get_adapter, get_model.
StartRetrain(t) ==
    /\ At(t, "idle")
    /\ attached
    /\ MayAddRow
    /\ Remember(t, 0, version + 1, 0, FALSE, NoRow)
    /\ Goto(t, "saveBaseline")
    /\ UNCHANGED <<cfg, tables, attached, crashes>>

\* MUTANT of SaveBaseline: the new baseline is filed under the old version.
SaveBaseline_OldVersion(t) ==
    /\ At(t, "saveBaseline")
    /\ baselines' = Append(baselines, version)
    /\ Goto(t, "setVersion")
    /\ UNCHANGED <<cfg, version, versions, runs, alerts, row, attached, loc, crashes>>

\* retrain_fn and build_baseline, either of which may raise, then save_baseline.
SaveBaseline(t) ==
    /\ At(t, "saveBaseline")
    /\ \/ /\ baselines' = Append(baselines, loc[t].version)
          /\ Goto(t, "setVersion")
          /\ UNCHANGED loc
       \/ /\ UNCHANGED baselines
          /\ Return(t)
    /\ UNCHANGED <<cfg, version, versions, runs, alerts, row, attached, crashes>>

SetVersion(t) ==
    /\ At(t, "setVersion")
    /\ version' = loc[t].version
    /\ Goto(t, "addVersion")
    /\ UNCHANGED <<cfg, baselines, versions, runs, alerts, row, attached, loc, crashes>>

AddVersion(t) ==
    /\ At(t, "addVersion")
    /\ versions' = Append(versions, loc[t].version)
    /\ loc' = [loc EXCEPT ![t] = NoLocal]
    /\ Goto(t, "resolveForRetrain")
    /\ UNCHANGED <<cfg, version, baselines, runs, alerts, row, attached, crashes>>

ResolveForRetrain(t) ==
    /\ At(t, "resolveForRetrain")
    /\ alerts' = AllResolved
    /\ Goto(t, "resetHealth")
    /\ UNCHANGED <<cfg, version, baselines, versions, runs, row, attached, loc, crashes>>

ResetHealth(t) ==
    /\ At(t, "resetHealth")
    /\ row' = HealthAfterRetrain
    /\ Return(t)
    /\ UNCHANGED <<cfg, version, baselines, versions, runs, alerts, attached, crashes>>

-----------------------------------------------------------------------------
(***************************************************************************)
(* The process is killed and started again, in the same environment.  The  *)
(* startup handler attaches an adapter to every stored model before the    *)
(* first request is served.                                                *)
(***************************************************************************)
Restart ==
    /\ crashes < MaxCrashes
    /\ \A t \in Callers : pc[t] \in CrashPoints
    /\ crashes' = crashes + 1
    /\ attached' = (version > 0)
    /\ pc' = [t \in Callers |-> "idle"]
    /\ loc' = [t \in Callers |-> NoLocal]
    /\ UNCHANGED <<cfg, tables>>

Register(t) == CreateModel(t) \/ AttachAdapter(t) \/ FirstBaseline(t) \/ FirstVersion(t)

Check(t) ==
    \/ StartCheck(t) \/ Judge(t) \/ SaveRun(t) \/ ReadHealth(t) \/ ReadAlerts(t)
    \/ SetHealth(t) \/ CreateAlert(t) \/ ResolveAlerts(t)

Retrain(t) ==
    \/ StartRetrain(t) \/ SaveBaseline(t) \/ SetVersion(t) \/ AddVersion(t)
    \/ ResolveForRetrain(t) \/ ResetHealth(t)

Next ==
    \/ \E t \in Callers : Register(t) \/ Check(t) \/ Retrain(t)
    \/ Restart

Spec == Init /\ [][Next]_vars

-----------------------------------------------------------------------------
(* What holds of overlapping requests, crashes included. *)

DriftedRuns == {i \in DOMAIN runs : runs[i].drifted}
CleanRuns   == {i \in DOMAIN runs : ~runs[i].drifted}

(***************************************************************************)
(* An alert points at the run that raised it: the run is stored, it is a   *)
(* drifted one, and no other alert points at it.  run_check takes the id   *)
(* from its own insert and uses it several transactions later, with other  *)
(* requests inserting in between.                                          *)
(***************************************************************************)
AlertsNameDriftedRuns ==
    /\ \A i \in DOMAIN alerts : alerts[i].run \in DriftedRuns
    /\ \A i, j \in DOMAIN alerts : alerts[i].run = alerts[j].run => i = j

(***************************************************************************)
(* The streaks in model_health never count a run that is not in the table  *)
(* runs: overlapping checks that read the same row may lose counts, but    *)
(* together with crashes and retrains they never invent one.  So an alert  *)
(* is never raised on fewer drifted runs than the threshold asks for.      *)
(***************************************************************************)
StreaksAreBacked ==
    /\ row.drifted <= Cardinality(DriftedRuns)
    /\ row.clean <= Cardinality(CleanRuns)

(***************************************************************************)
(* Whatever the interleaving, and wherever a retrain was cut off: the      *)
(* version a model was retrained to, every version in its history and      *)
(* every run's reference have a baseline row, because trigger_retrain      *)
(* stores the baseline before it mentions the version anywhere.            *)
(***************************************************************************)
VersionsHaveBaselines ==
    /\ version > 1 => \E i \in DOMAIN baselines : baselines[i] = version
    /\ \A k \in DOMAIN versions : \E i \in DOMAIN baselines : baselines[i] = versions[k]
    /\ \A k \in DOMAIN runs : runs[k].baseline \in DOMAIN baselines

-----------------------------------------------------------------------------
(* What holds of one request at a time. *)

(***************************************************************************)
(* A run is labelled with the version of the baseline it was judged        *)
(* against - or with the version before, if a retrain was killed between   *)
(* storing its baseline and making it current.                             *)
(***************************************************************************)
RunsJudgedByTheirVersion ==
    \A k \in DOMAIN runs :
        LET r == runs[k] IN baselines[r.baseline] \in {r.version, r.version + 1}

(***************************************************************************)
(* Monitor's view: a check has happened once its health row is written, a  *)
(* retrain once it has resolved the alerts.                                *)
(***************************************************************************)
MonitorRow == IF Pending({"resetHealth"}) > 0 THEN HealthAfterRetrain ELSE row

MonitorAlerts ==
    CASE Pending({"createAlert"}) > 0   -> Cardinality(Open) + 1
      [] Pending({"resolveAlerts"}) > 0 -> 0
      [] OTHER                          -> Cardinality(Open)

Mon == INSTANCE Monitor WITH
           LegacyAlerts <- {0, 1},
           MaxStreak    <- MaxRows,
           row          <- MonitorRow,
           openAlerts   <- MonitorAlerts

(***************************************************************************)
(* With one request at a time the storage calls add up to the steps of     *)
(* Monitor.  A crash between two of them is harmless, except in the two    *)
(* windows that the sequential run keeps out of CrashPoints: between set_health*)
(* and the alert it calls for, and between resolving the alerts and        *)
(* resetting the health at the end of a retrain.                           *)
(***************************************************************************)
ImplementsMonitor == Mon!Spec

(***************************************************************************)
(* "Creates exactly one alert if the adapter reports drift" (run_check):   *)
(* a model never has two alerts open.                                      *)
(***************************************************************************)
OneOpenAlert == Cardinality(Open) <= 1
=============================================================================
