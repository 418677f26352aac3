---------------------------- MODULE EngineProofs ----------------------------
(***************************************************************************)
(* What holds of Engine for any number of request threads, any bounds and  *)
(* any thresholds, whatever the interleaving and wherever it crashes.      *)
(***************************************************************************)
EXTENDS Engine, FiniteSetTheorems, SequenceTheorems, TLAPS

\* The invariants say nothing of the thresholds: any integers will do.
LEMMA TransitionIsTyped ==
    ASSUME NEW c \in Threshold, NEW h \in HealthRow, NEW d \in BOOLEAN
    PROVE  /\ NextHealthState(c, h, d).health \in HealthRow
           /\ NextHealthState(c, h, d).createAlert => d
  <1>1. StateAfterDrift(c, h) \in HealthState
    BY DEF StateAfterDrift, Threshold, HealthRow, HealthState, InIncident,
           HEALTHY, WARNING, DEGRADED, RECOVERING
  <1>2. StateAfterClean(c, h) \in HealthState
    BY DEF StateAfterClean, HealthState, HEALTHY, WARNING, DEGRADED, RECOVERING
  <1>3. CASE d
    BY <1>1, <1>3 DEF NextHealthState, AfterDrifted, HealthRow
  <1>4. CASE ~d
    BY <1>2, <1>4 DEF NextHealthState, AfterClean, HealthRow
  <1>5. QED BY <1>3, <1>4

LEMMA HealthConstantsType ==
    /\ \A b \in BOOLEAN : HealthWithoutRow(b) \in HealthRow
    /\ HealthAfterRetrain \in HealthRow
    /\ NoRow \notin HealthRow
  BY DEF HealthWithoutRow, HealthAfterRetrain, HealthRow, HealthState, NoRow,
         HEALTHY, WARNING, DEGRADED, RECOVERING

LEMMA NoLocalType == NoLocal \in Local
  BY DEF NoLocal, Know, Local

\* An insert: the new row is the last one, the others stay where they are.
LEMMA RowAdded ==
    ASSUME NEW S, NEW table \in Seq(S), NEW r \in S
    PROVE  /\ Append(table, r) \in Seq(S)
           /\ DOMAIN Append(table, r) = DOMAIN table \cup {Len(table) + 1}
           /\ Len(table) + 1 \notin DOMAIN table
           /\ Append(table, r)[Len(table) + 1] = r
           /\ \A i \in DOMAIN table : Append(table, r)[i] = table[i]
  BY AppendProperties, LenProperties

\* Resolving the alerts changes none of them but for the flag.
LEMMA ResolvedType ==
    ASSUME alerts \in Seq(Alert)
    PROVE  /\ AllResolved \in Seq(Alert)
           /\ DOMAIN AllResolved = DOMAIN alerts
           /\ \A i \in DOMAIN alerts : AllResolved[i].run = alerts[i].run
  <1>1. \A i \in DOMAIN alerts : alerts[i].run \in Nat
    <2>1. \A i \in DOMAIN alerts : alerts[i] \in Alert
      OBVIOUS
    <2>2. QED BY <2>1 DEF Alert
  <1>2. DOMAIN alerts = 1..Len(alerts) /\ Len(alerts) \in Nat
    OBVIOUS
  <1>3. AllResolved \in [1..Len(alerts) -> Alert]
    BY <1>1, <1>2 DEF AllResolved, Alert
  <1>4. AllResolved \in Seq(Alert)
    BY <1>2, <1>3, SeqDef
  <1>5. QED BY <1>2, <1>3, <1>4 DEF AllResolved

LEMMA TransitionHealth ==
    ASSUME TypeOK, NEW t \in Callers, loc[t].health \in HealthRow
    PROVE  Transition(t).health \in HealthRow
  BY TransitionIsTyped, EngineAssumption DEF Transition, TypeOK, Local

-----------------------------------------------------------------------------
(***************************************************************************)
(* Type correctness: in particular, what a thread at set_health has read   *)
(* is always a health row, so next_health_state is never handed anything   *)
(* else.                                                                   *)
(***************************************************************************)
HealthIsRead == \A t \in Callers : pc[t] = "setHealth" => loc[t].health \in HealthRow

TypeInv == TypeOK /\ HealthIsRead

LEMMA InitTypes == Init => TypeInv
  <1> SUFFICES ASSUME Init PROVE TypeInv
    OBVIOUS
  <1>1. cfg \in Configs /\ row = NoRow /\ attached \in BOOLEAN /\ crashes \in Nat
    BY DEF Init
  <1>2. pc \in [Callers -> PC] /\ loc \in [Callers -> Local] /\ HealthIsRead
    BY NoLocalType DEF Init, PC, HealthIsRead
  <1>3. CASE EmptyTables
    BY <1>3, <1>1, <1>2 DEF EmptyTables, TypeInv, TypeOK
  <1>4. CASE UpgradedTables
    <2>1. version \in Nat /\ baselines \in Seq(Nat) /\ versions \in Seq(Nat)
      BY <1>4 DEF UpgradedTables
    <2>2. runs \in Seq(Run)
      BY <1>4 DEF UpgradedTables, Run
    <2>3. alerts \in Seq(Alert)
      BY <1>4 DEF UpgradedTables, Alert
    <2>4. QED BY <2>1, <2>2, <2>3, <1>1, <1>2 DEF TypeInv, TypeOK
  <1>5. QED BY <1>3, <1>4 DEF Init

\* A step of t that only t's own pc and locals show.
LEMMA ThreadTypes ==
    ASSUME TypeInv, NEW t \in Callers, NEW here \in PC, pc' = [pc EXCEPT ![t] = here],
           \/ /\ here # "setHealth"
              /\ loc' = loc
           \/ \E l \in Local : /\ here = "setHealth" => l.health \in HealthRow
                               /\ loc' = [loc EXCEPT ![t] = l]
    PROVE  pc' \in [Callers -> PC] /\ loc' \in [Callers -> Local] /\ HealthIsRead'
  BY DEF TypeInv, TypeOK, HealthIsRead

\* What a thread remembers is of its type.
LEMMA KnowType ==
    ASSUME NEW b \in Nat, NEW v \in Nat, NEW r \in Nat, NEW d \in BOOLEAN,
           NEW h \in HealthRow \cup {NoRow}
    PROVE  Know(b, v, r, d, h) \in Local /\ Know(b, v, r, d, h).health = h
  BY DEF Know, Local

LEMMA LocalType ==
    ASSUME TypeOK, NEW t \in Callers
    PROVE  /\ loc[t].baseline \in Nat /\ loc[t].version \in Nat /\ loc[t].run \in Nat
           /\ loc[t].drifted \in BOOLEAN
           /\ loc[t].health \in HealthRow \cup {NoRow}
  BY DEF TypeOK, Local

LEMMA RegisterTypes ==
    ASSUME TypeInv, NEW t \in Callers, Register(t) PROVE TypeInv'
  <1> USE DEF TypeInv, TypeOK
  <1>1. CASE CreateModel(t)
    <2>1. CASE version = 0
      <3>1. version' = 1 /\ pc' = [pc EXCEPT ![t] = "attach"] /\ loc' = loc
        BY <1>1, <2>1 DEF CreateModel, Goto
      <3>2. pc' \in [Callers -> PC] /\ loc' \in [Callers -> Local] /\ HealthIsRead'
        BY <3>1, ThreadTypes DEF PC, Registering
      <3>3. QED BY <1>1, <3>1, <3>2 DEF CreateModel
    <2>2. CASE version # 0
      BY <1>1, <2>2 DEF CreateModel, HealthIsRead
    <2>3. QED BY <2>1, <2>2
  <1>2. CASE AttachAdapter(t)
    BY <1>2, ThreadTypes DEF AttachAdapter, Goto, PC, Registering, tables
  <1>3. CASE FirstBaseline(t)
    <2>1. pc' \in [Callers -> PC] /\ loc' \in [Callers -> Local] /\ HealthIsRead'
      BY <1>3, ThreadTypes, NoLocalType
      DEF FirstBaseline, At, Goto, Return, PC, Registering
    <2>2. baselines' \in Seq(Nat)
      <3>1. Append(baselines, 1) \in Seq(Nat)
        BY RowAdded
      <3>2. baselines' = baselines \/ baselines' = Append(baselines, 1)
        BY <1>3 DEF FirstBaseline
      <3>3. QED BY <3>1, <3>2
    <2>3. QED BY <1>3, <2>1, <2>2 DEF FirstBaseline
  <1>4. CASE FirstVersion(t)
    <2>1. pc' \in [Callers -> PC] /\ loc' \in [Callers -> Local] /\ HealthIsRead'
      BY <1>4, ThreadTypes, NoLocalType DEF FirstVersion, Return, PC
    <2>2. versions' \in Seq(Nat)
      BY <1>4, RowAdded DEF FirstVersion
    <2>3. QED BY <1>4, <2>1, <2>2 DEF FirstVersion
  <1>5. QED BY <1>1, <1>2, <1>3, <1>4 DEF Register

LEMMA CheckTypes ==
    ASSUME TypeInv, NEW t \in Callers, Check(t) PROVE TypeInv'
  <1> DEFINE ThreadOK == pc' \in [Callers -> PC] /\ loc' \in [Callers -> Local] /\ HealthIsRead'
  <1> USE DEF PC, Checking
  <1>1. CASE StartCheck(t)
    <2>1. \A i \in DOMAIN baselines : Know(i, 0, 0, FALSE, NoRow) \in Local
      BY DEF Know, Local, TypeInv, TypeOK
    <2>2. ThreadOK
      BY <1>1, <2>1, ThreadTypes DEF StartCheck, Goto, Remember
    <2>3. QED BY <1>1, <2>2 DEF StartCheck, tables, TypeInv, TypeOK
  <1>2. CASE Judge(t)
    <2>1. \A d \in BOOLEAN : Know(loc[t].baseline, version, 0, d, NoRow) \in Local
      BY KnowType, LocalType DEF TypeInv, TypeOK
    <2>2. ThreadOK
      BY <1>2, <2>1, ThreadTypes, NoLocalType DEF Judge, Goto, Return, Remember
    <2>3. QED BY <1>2, <2>2 DEF Judge, tables, TypeInv, TypeOK
  <1>3. CASE SaveRun(t)
    <2>1. Know(0, 0, Len(runs) + 1, loc[t].drifted, NoRow) \in Local
      BY KnowType, LocalType DEF TypeInv, TypeOK
    <2>2. ThreadOK
      BY <1>3, <2>1, ThreadTypes DEF SaveRun, Goto, Remember
    <2>3. [version |-> loc[t].version, baseline |-> loc[t].baseline,
           drifted |-> loc[t].drifted] \in Run
      BY LocalType DEF TypeInv, Run
    <2>4. QED BY <1>3, <2>2, <2>3 DEF SaveRun, TypeInv, TypeOK
  <1>4. CASE ReadHealth(t)
    <2> DEFINE l == Know(0, 0, loc[t].run, loc[t].drifted, row)
    <2>1. l \in Local /\ l.health = row
      <3>1. row \in HealthRow \cup {NoRow}
        BY DEF TypeInv, TypeOK
      <3>2. loc[t].run \in Nat /\ loc[t].drifted \in BOOLEAN
        BY LocalType DEF TypeInv
      <3>3. QED BY <3>1, <3>2, KnowType
    <2>2. row # NoRow => row \in HealthRow
      BY DEF TypeInv, TypeOK
    <2> HIDE DEF l
    <2>3. ThreadOK
      <3>1. CASE row # NoRow
        <4>1. loc' = [loc EXCEPT ![t] = l] /\ pc' = [pc EXCEPT ![t] = "setHealth"]
          BY <1>4, <3>1 DEF ReadHealth, Goto, Remember, l
        <4>2. QED BY <2>1, <2>2, <3>1, <4>1, ThreadTypes
      <3>2. CASE row = NoRow
        BY <1>4, <3>2, ThreadTypes DEF ReadHealth, Goto
      <3>3. QED BY <3>1, <3>2
    <2>4. QED BY <1>4, <2>3 DEF ReadHealth, tables, TypeInv, TypeOK
  <1>5. CASE ReadAlerts(t)
    <2> DEFINE h == HealthWithoutRow(Open # {})
               l == Know(0, 0, loc[t].run, loc[t].drifted, h)
    <2>1. h \in HealthRow
      BY HealthConstantsType
    <2>2. l \in Local /\ l.health \in HealthRow
      <3> HIDE DEF h
      <3> QED BY <2>1, KnowType, LocalType DEF TypeInv
    <2>3. loc' = [loc EXCEPT ![t] = l] /\ pc' = [pc EXCEPT ![t] = "setHealth"]
      BY <1>5 DEF ReadAlerts, Goto, Remember
    <2> HIDE DEF l
    <2>4. ThreadOK
      BY <2>2, <2>3, ThreadTypes
    <2>5. QED BY <1>5, <2>4 DEF ReadAlerts, tables, TypeInv, TypeOK
  <1>6. CASE SetHealth(t)
    <2>1. Transition(t).health \in HealthRow
      BY <1>6, TransitionHealth DEF SetHealth, At, TypeInv, HealthIsRead
    <2>2. Know(0, 0, loc[t].run, FALSE, NoRow) \in Local
      BY KnowType, LocalType DEF TypeInv
    <2>3. ThreadOK
      BY <1>6, <2>2, ThreadTypes, NoLocalType DEF SetHealth, Goto, Return, Remember
    <2>4. QED BY <1>6, <2>1, <2>3 DEF SetHealth, TypeInv, TypeOK
  <1>7. CASE CreateAlert(t)
    <2>1. ThreadOK
      BY <1>7, ThreadTypes, NoLocalType DEF CreateAlert, Return
    <2>2. [run |-> loc[t].run, resolved |-> FALSE] \in Alert
      BY LocalType DEF Alert, TypeInv
    <2>3. QED BY <1>7, <2>1, <2>2 DEF CreateAlert, TypeInv, TypeOK
  <1>8. CASE ResolveAlerts(t)
    <2>1. ThreadOK
      BY <1>8, ThreadTypes, NoLocalType DEF ResolveAlerts, Return
    <2>2. QED BY <1>8, <2>1, ResolvedType DEF ResolveAlerts, TypeInv, TypeOK
  <1>9. QED BY <1>1, <1>2, <1>3, <1>4, <1>5, <1>6, <1>7, <1>8 DEF Check

LEMMA RetrainTypes ==
    ASSUME TypeInv, NEW t \in Callers, Retrain(t) PROVE TypeInv'
  <1> DEFINE ThreadOK == pc' \in [Callers -> PC] /\ loc' \in [Callers -> Local] /\ HealthIsRead'
  <1> USE DEF PC, Retraining
  <1>1. CASE StartRetrain(t)
    <2>1. Know(0, version + 1, 0, FALSE, NoRow) \in Local
      BY DEF Know, Local, TypeInv, TypeOK
    <2>2. ThreadOK
      BY <1>1, <2>1, ThreadTypes DEF StartRetrain, Goto, Remember
    <2>3. QED BY <1>1, <2>2 DEF StartRetrain, tables, TypeInv, TypeOK
  <1>2. CASE SaveBaseline(t)
    <2>1. ThreadOK
      BY <1>2, ThreadTypes, NoLocalType DEF SaveBaseline, Goto, Return
    <2>2. baselines' \in Seq(Nat)
      <3>1. loc[t].version \in Nat
        BY LocalType DEF TypeInv
      <3>2. baselines \in Seq(Nat) /\ Append(baselines, loc[t].version) \in Seq(Nat)
        BY <3>1, RowAdded DEF TypeInv, TypeOK
      <3>3. baselines' = baselines \/ baselines' = Append(baselines, loc[t].version)
        BY <1>2 DEF SaveBaseline
      <3>4. QED BY <3>2, <3>3
    <2>3. QED BY <1>2, <2>1, <2>2 DEF SaveBaseline, TypeInv, TypeOK
  <1>3. CASE SetVersion(t)
    BY <1>3, ThreadTypes, LocalType DEF SetVersion, Goto, TypeInv, TypeOK
  <1>4. CASE AddVersion(t)
    <2>1. ThreadOK
      BY <1>4, ThreadTypes, NoLocalType DEF AddVersion, Goto
    <2>2. versions' \in Seq(Nat)
      BY <1>4, LocalType DEF AddVersion, TypeInv, TypeOK
    <2>3. QED BY <1>4, <2>1, <2>2 DEF AddVersion, TypeInv, TypeOK
  <1>5. CASE ResolveForRetrain(t)
    <2>1. ThreadOK
      BY <1>5, ThreadTypes DEF ResolveForRetrain, Goto
    <2>2. QED BY <1>5, <2>1, ResolvedType DEF ResolveForRetrain, TypeInv, TypeOK
  <1>6. CASE ResetHealth(t)
    <2>1. ThreadOK
      BY <1>6, ThreadTypes, NoLocalType DEF ResetHealth, Return
    <2>2. QED BY <1>6, <2>1, HealthConstantsType DEF ResetHealth, TypeInv, TypeOK
  <1>7. QED BY <1>1, <1>2, <1>3, <1>4, <1>5, <1>6 DEF Retrain

LEMMA NextTypes == TypeInv /\ [Next]_vars => TypeInv'
  <1> SUFFICES ASSUME TypeInv, [Next]_vars PROVE TypeInv'
    OBVIOUS
  <1>1. CASE Restart
    BY <1>1, NoLocalType DEF Restart, tables, PC, TypeInv, TypeOK, HealthIsRead
  <1>2. CASE UNCHANGED vars
    BY <1>2 DEF vars, tables, TypeInv, TypeOK, HealthIsRead
  <1>3. QED BY <1>1, <1>2, RegisterTypes, CheckTypes, RetrainTypes DEF Next

THEOREM TypeCorrect == Spec => []TypeOK
  <1>1. TypeInv => TypeOK
    BY DEF TypeInv
  <1>2. QED BY <1>1, InitTypes, NextTypes, PTL DEF Spec

-----------------------------------------------------------------------------
(* What a step of one thread leaves alone. *)

OthersStand(t) == \A u \in Callers \ {t} : pc'[u] = pc[u] /\ loc'[u] = loc[u]

LEMMA OneThread ==
    ASSUME TypeInv, NEW t \in Callers, Register(t) \/ Check(t) \/ Retrain(t)
    PROVE  OthersStand(t)
  <1> USE DEF OthersStand, TypeInv, TypeOK, Goto, Return, Remember
  <1>1. CASE Register(t)
    BY <1>1 DEF Register, CreateModel, AttachAdapter, FirstBaseline, FirstVersion
  <1>2. CASE Check(t)
    BY <1>2 DEF Check, StartCheck, Judge, SaveRun, ReadHealth, ReadAlerts, SetHealth,
                CreateAlert, ResolveAlerts
  <1>3. CASE Retrain(t)
    BY <1>3 DEF Retrain, StartRetrain, SaveBaseline, SetVersion, AddVersion,
                ResolveForRetrain, ResetHealth
  <1>4. QED BY <1>1, <1>2, <1>3

-----------------------------------------------------------------------------
(***************************************************************************)
(* Baselines.  A thread that is about to write a version down anywhere has *)
(* saved its baseline, and rows of baselines are never removed.            *)
(***************************************************************************)
HasBaseline(v) == \E i \in DOMAIN baselines : baselines[i] = v

BaselinesAreSavedFirst ==
    \A t \in Callers :
        /\ pc[t] = "firstVersion" => HasBaseline(1)
        /\ pc[t] \in {"setVersion", "addVersion"} => HasBaseline(loc[t].version)
        /\ pc[t] \in {"judge", "saveRun"} => loc[t].baseline \in DOMAIN baselines

BaselineInv == VersionsHaveBaselines /\ BaselinesAreSavedFirst

\* Where a thread's locals refer to a baseline.
UsesBaseline == {"firstVersion", "setVersion", "addVersion", "judge", "saveRun"}

LEMMA InitBaselines == Init => BaselineInv
  <1> SUFFICES ASSUME Init PROVE BaselineInv
    OBVIOUS
  <1>1. BaselinesAreSavedFirst
    BY DEF Init, BaselinesAreSavedFirst
  <1>2. CASE EmptyTables
    BY <1>1, <1>2 DEF EmptyTables, BaselineInv, VersionsHaveBaselines
  <1>3. CASE UpgradedTables
    <2>1. DOMAIN baselines = {1} /\ baselines[1] = 1 /\ version = 1
      BY <1>3 DEF UpgradedTables
    <2>2. DOMAIN versions = {1} /\ versions[1] = 1
      BY <1>3 DEF UpgradedTables
    <2>3. DOMAIN runs = {1} /\ runs[1].baseline = 1
      BY <1>3 DEF UpgradedTables
    <2>4. QED BY <1>1, <2>1, <2>2, <2>3 DEF BaselineInv, VersionsHaveBaselines
  <1>4. QED BY <1>2, <1>3 DEF Init

\* A step elsewhere in the program: the tables of versions, runs and baselines stay.
LEMMA ElsewhereKeepsBaselines ==
    ASSUME TypeInv, BaselineInv, NEW t \in Callers, OthersStand(t),
           pc'[t] \notin UsesBaseline, version' \in {version, 1},
           UNCHANGED <<baselines, versions, runs>>
    PROVE  BaselineInv'
  <1>1. \A w : HasBaseline(w)' <=> HasBaseline(w)
    BY DEF HasBaseline
  <1>2. VersionsHaveBaselines'
    BY DEF BaselineInv, VersionsHaveBaselines
  <1>3. BaselinesAreSavedFirst'
    BY <1>1 DEF BaselineInv, OthersStand, UsesBaseline, BaselinesAreSavedFirst
  <1>4. QED BY <1>2, <1>3 DEF BaselineInv

\* A row more in the table baselines.
LEMMA SavingKeepsBaselines ==
    ASSUME TypeInv, BaselineInv, NEW t \in Callers, OthersStand(t), NEW v \in Nat,
           baselines' = Append(baselines, v), UNCHANGED <<version, versions, runs>>,
           \/ pc'[t] = "firstVersion" /\ v = 1
           \/ pc'[t] = "setVersion" /\ loc'[t].version = v
    PROVE  BaselineInv'
  <1>1. /\ DOMAIN baselines \subseteq DOMAIN baselines'
        /\ \A i \in DOMAIN baselines : baselines'[i] = baselines[i]
        /\ \E i \in DOMAIN baselines' : baselines'[i] = v
    <2>1. baselines \in Seq(Nat)
      BY DEF TypeInv, TypeOK
    <2>2. QED BY <2>1, RowAdded
  <1>2. \A w : HasBaseline(w) => HasBaseline(w)'
    BY <1>1 DEF HasBaseline
  <1>3. BaselinesAreSavedFirst'
    BY <1>1, <1>2 DEF BaselineInv, BaselinesAreSavedFirst, OthersStand, HasBaseline
  <1>4. VersionsHaveBaselines'
    BY <1>1, <1>2 DEF BaselineInv, VersionsHaveBaselines, HasBaseline
  <1>5. QED BY <1>3, <1>4 DEF BaselineInv

LEMMA NextBaselines == TypeInv /\ BaselineInv /\ [Next]_vars => BaselineInv'
  <1> SUFFICES ASSUME TypeInv, BaselineInv, [Next]_vars PROVE BaselineInv'
    OBVIOUS
  <1>1. ASSUME NEW t \in Callers, Register(t) PROVE BaselineInv'
    <2>1. OthersStand(t)
      BY <1>1, OneThread
    <2>2. CASE CreateModel(t) \/ AttachAdapter(t)
      BY <2>1, <2>2, ElsewhereKeepsBaselines
      DEF CreateModel, AttachAdapter, At, Goto, UsesBaseline, tables, TypeInv, TypeOK
    <2>3. CASE FirstBaseline(t)
      <3>1. CASE UNCHANGED baselines /\ Return(t)
        BY <2>1, <2>3, <3>1, ElsewhereKeepsBaselines
        DEF FirstBaseline, Return, UsesBaseline, TypeInv, TypeOK
      <3>2. CASE baselines' = Append(baselines, 1) /\ Goto(t, "firstVersion")
        BY <2>1, <2>3, <3>2, SavingKeepsBaselines
        DEF FirstBaseline, Goto, TypeInv, TypeOK
      <3>3. QED BY <2>3, <3>1, <3>2 DEF FirstBaseline
    <2>4. CASE FirstVersion(t)
      <3>1. HasBaseline(1) /\ pc'[t] = "idle"
        BY <2>4 DEF FirstVersion, At, Return, BaselineInv, BaselinesAreSavedFirst, TypeInv, TypeOK
      <3>2. VersionsHaveBaselines'
        <4>1. \A k \in DOMAIN versions' :
                 \/ versions'[k] = 1
                 \/ k \in DOMAIN versions /\ versions'[k] = versions[k]
          BY <2>4, RowAdded DEF FirstVersion, TypeInv, TypeOK
        <4>2. QED BY <2>4, <3>1, <4>1
                  DEF FirstVersion, BaselineInv, VersionsHaveBaselines, HasBaseline
      <3>3. BaselinesAreSavedFirst'
        BY <2>1, <2>4, <3>1 DEF FirstVersion, BaselineInv, BaselinesAreSavedFirst, HasBaseline,
                                OthersStand
      <3>4. QED BY <3>2, <3>3 DEF BaselineInv
    <2>5. QED BY <1>1, <2>2, <2>3, <2>4 DEF Register
  <1>2. ASSUME NEW t \in Callers, Check(t) PROVE BaselineInv'
    <2>1. OthersStand(t)
      BY <1>2, OneThread
    <2>2. CASE StartCheck(t)
      <3>1. pc'[t] = "judge" /\ loc'[t].baseline \in DOMAIN baselines
        BY <2>2 DEF StartCheck, Goto, Remember, Know, TypeInv, TypeOK
      <3>2. QED BY <2>1, <2>2, <3>1
                DEF StartCheck, tables, OthersStand, BaselineInv, BaselinesAreSavedFirst,
                    VersionsHaveBaselines, HasBaseline
    <2>3. CASE Judge(t)
      <3>1. \/ pc'[t] = "saveRun" /\ loc'[t].baseline \in DOMAIN baselines
            \/ pc'[t] = "idle"
        BY <2>3 DEF Judge, At, Goto, Return, Remember, Know, TypeInv, TypeOK, BaselineInv,
                    BaselinesAreSavedFirst
      <3>2. QED BY <2>1, <2>3, <3>1
                DEF Judge, tables, OthersStand, BaselineInv, BaselinesAreSavedFirst,
                    VersionsHaveBaselines, HasBaseline
    <2>4. CASE SaveRun(t)
      <3>1. pc'[t] = "readHealth" /\ loc[t].baseline \in DOMAIN baselines
        BY <2>4 DEF SaveRun, At, Goto, TypeInv, TypeOK, BaselineInv, BaselinesAreSavedFirst
      <3> DEFINE r == [version |-> loc[t].version, baseline |-> loc[t].baseline,
                       drifted |-> loc[t].drifted]
      <3>2. r \in Run /\ r.baseline \in DOMAIN baselines
        BY <3>1, LocalType DEF TypeInv, Run
      <3>3. runs' = Append(runs, r) /\ UNCHANGED <<version, baselines, versions>>
        BY <2>4 DEF SaveRun
      <3> HIDE DEF r
      <3>4. VersionsHaveBaselines'
        <4>1. \A k \in DOMAIN runs' : runs'[k].baseline \in DOMAIN baselines
          <5>1. runs \in Seq(Run)
            BY DEF TypeInv, TypeOK
          <5>2. /\ DOMAIN runs' = DOMAIN runs \cup {Len(runs) + 1}
                /\ runs'[Len(runs) + 1] = r
                /\ \A i \in DOMAIN runs : runs'[i] = runs[i]
            BY <3>2, <3>3, <5>1, RowAdded
          <5>3. QED BY <3>2, <5>2 DEF BaselineInv, VersionsHaveBaselines
        <4>2. QED BY <3>3, <4>1 DEF BaselineInv, VersionsHaveBaselines
      <3>5. BaselinesAreSavedFirst'
        BY <2>1, <3>1, <3>3 DEF OthersStand, BaselineInv, BaselinesAreSavedFirst, HasBaseline
      <3>6. QED BY <3>4, <3>5 DEF BaselineInv
    <2>5. CASE ReadHealth(t) \/ ReadAlerts(t)
      BY <2>1, <2>5, ElsewhereKeepsBaselines
      DEF ReadHealth, ReadAlerts, Goto, UsesBaseline, tables, TypeInv, TypeOK
    <2>6. CASE SetHealth(t)
      BY <2>1, <2>6, ElsewhereKeepsBaselines
      DEF SetHealth, Goto, Return, UsesBaseline, TypeInv, TypeOK
    <2>7. CASE CreateAlert(t) \/ ResolveAlerts(t)
      BY <2>1, <2>7, ElsewhereKeepsBaselines
      DEF CreateAlert, ResolveAlerts, Return, UsesBaseline, TypeInv, TypeOK
    <2>8. QED BY <1>2, <2>2, <2>3, <2>4, <2>5, <2>6, <2>7 DEF Check
  <1>3. ASSUME NEW t \in Callers, Retrain(t) PROVE BaselineInv'
    <2>1. OthersStand(t)
      BY <1>3, OneThread
    <2>2. CASE StartRetrain(t)
      BY <2>1, <2>2, ElsewhereKeepsBaselines
      DEF StartRetrain, Goto, UsesBaseline, tables, TypeInv, TypeOK
    <2>3. CASE SaveBaseline(t)
      <3>1. CASE UNCHANGED baselines /\ Return(t)
        BY <2>1, <2>3, <3>1, ElsewhereKeepsBaselines
        DEF SaveBaseline, Return, UsesBaseline, TypeInv, TypeOK
      <3>2. CASE /\ baselines' = Append(baselines, loc[t].version)
                 /\ Goto(t, "setVersion") /\ UNCHANGED loc
        <4>1. loc[t].version \in Nat
          BY LocalType DEF TypeInv
        <4>2. /\ pc'[t] = "setVersion" /\ loc'[t].version = loc[t].version
              /\ UNCHANGED <<version, versions, runs>>
          BY <2>3, <3>2 DEF SaveBaseline, Goto, TypeInv, TypeOK
        <4>3. QED BY <2>1, <3>2, <4>1, <4>2, SavingKeepsBaselines
      <3>3. QED BY <2>3, <3>1, <3>2 DEF SaveBaseline
    <2>4. CASE SetVersion(t)
      <3>1. HasBaseline(loc[t].version) /\ pc'[t] = "addVersion" /\ loc'[t] = loc[t]
        BY <2>4 DEF SetVersion, At, Goto, BaselineInv, BaselinesAreSavedFirst, TypeInv, TypeOK
      <3>2. QED BY <2>1, <2>4, <3>1
                DEF SetVersion, OthersStand, BaselineInv, BaselinesAreSavedFirst,
                    VersionsHaveBaselines, HasBaseline
    <2>5. CASE AddVersion(t)
      <3>1. HasBaseline(loc[t].version) /\ pc'[t] = "resolveForRetrain"
        BY <2>5 DEF AddVersion, At, Goto, BaselineInv, BaselinesAreSavedFirst, TypeInv, TypeOK
      <3>2. VersionsHaveBaselines'
        <4>1. loc[t].version \in Nat
          BY LocalType DEF TypeInv
        <4>2. \A k \in DOMAIN versions' :
                 \/ versions'[k] = loc[t].version
                 \/ k \in DOMAIN versions /\ versions'[k] = versions[k]
          BY <2>5, <4>1, RowAdded DEF AddVersion, TypeInv, TypeOK
        <4>3. QED BY <2>5, <3>1, <4>2
                  DEF AddVersion, BaselineInv, VersionsHaveBaselines, HasBaseline
      <3>3. BaselinesAreSavedFirst'
        BY <2>1, <2>5, <3>1 DEF AddVersion, BaselineInv, BaselinesAreSavedFirst, HasBaseline,
                                OthersStand
      <3>4. QED BY <3>2, <3>3 DEF BaselineInv
    <2>6. CASE ResolveForRetrain(t)
      BY <2>1, <2>6, ElsewhereKeepsBaselines
      DEF ResolveForRetrain, Goto, UsesBaseline, TypeInv, TypeOK
    <2>7. CASE ResetHealth(t)
      BY <2>1, <2>7, ElsewhereKeepsBaselines
      DEF ResetHealth, Return, UsesBaseline, TypeInv, TypeOK
    <2>8. QED BY <1>3, <2>2, <2>3, <2>4, <2>5, <2>6, <2>7 DEF Retrain
  <1>4. CASE Restart
    BY <1>4 DEF Restart, tables, BaselineInv, BaselinesAreSavedFirst, VersionsHaveBaselines,
                HasBaseline
  <1>5. CASE UNCHANGED vars
    BY <1>5 DEF vars, tables, BaselineInv, BaselinesAreSavedFirst, VersionsHaveBaselines,
                HasBaseline
  <1>6. QED BY <1>1, <1>2, <1>3, <1>4, <1>5 DEF Next

(***************************************************************************)
(* For any number of threads and wherever the process is killed, the       *)
(* current version, the version history and the runs only refer to         *)
(* baselines that are stored.                                              *)
(***************************************************************************)
THEOREM BaselinesAreThere == Spec => []VersionsHaveBaselines
  <1>1. Init => TypeInv /\ BaselineInv
    BY InitTypes, InitBaselines
  <1>2. (TypeInv /\ BaselineInv) /\ [Next]_vars => (TypeInv /\ BaselineInv)'
    BY NextTypes, NextBaselines
  <1>3. BaselineInv => VersionsHaveBaselines
    BY DEF BaselineInv
  <1>4. QED BY <1>1, <1>2, <1>3, PTL DEF Spec

-----------------------------------------------------------------------------
(***************************************************************************)
(* Alerts.  From save_run until its alert is created or its health is      *)
(* written, a thread holds the id of a run of its own: stored, judged as   *)
(* the thread remembers, and named by no alert yet.                        *)
(***************************************************************************)
Counting == {"readHealth", "readAlerts", "setHealth"}
Holding  == Counting \cup {"createAlert"}

RunIsStored == \A t \in Callers : pc[t] \in Holding => loc[t].run \in DOMAIN runs

VerdictIsStored ==
    \A t \in Callers :
        /\ pc[t] \in Counting => (loc[t].drifted <=> loc[t].run \in DriftedRuns)
        /\ pc[t] = "createAlert" => loc[t].run \in DriftedRuns

RunIsUnnamed ==
    \A t \in Callers : pc[t] \in Holding => \A i \in DOMAIN alerts : alerts[i].run # loc[t].run

RunsDiffer ==
    \A t, u \in Callers :
        pc[t] \in Holding /\ pc[u] \in Holding /\ t # u => loc[t].run # loc[u].run

RunsAreHeld == RunIsStored /\ VerdictIsStored /\ RunIsUnnamed /\ RunsDiffer

AlertInv == AlertsNameDriftedRuns /\ RunsAreHeld

LEMMA InitAlerts == Init => AlertInv
  <1> SUFFICES ASSUME Init PROVE AlertInv
    OBVIOUS
  <1>1. RunsAreHeld
    BY DEF Init, RunsAreHeld, RunIsStored, VerdictIsStored, RunIsUnnamed, RunsDiffer,
           Holding, Counting
  <1>2. CASE EmptyTables
    BY <1>1, <1>2 DEF EmptyTables, AlertInv, AlertsNameDriftedRuns
  <1>3. CASE UpgradedTables
    <2>1. DriftedRuns = {1}
      BY <1>3 DEF UpgradedTables, DriftedRuns
    <2>2. DOMAIN alerts = {1} /\ alerts[1].run = 1
      BY <1>3 DEF UpgradedTables
    <2>3. QED BY <1>1, <2>1, <2>2 DEF AlertInv, AlertsNameDriftedRuns
  <1>4. QED BY <1>2, <1>3 DEF Init

\* Where the runs are and what the alerts name, as far as AlertInv can tell.
NamesStand ==
    /\ runs' = runs
    /\ DOMAIN alerts' = DOMAIN alerts
    /\ \A i \in DOMAIN alerts : alerts'[i].run = alerts[i].run

\* t lets go of its run, or keeps it and what it knows of it.
KeepsRun(t) ==
    /\ pc[t] \in Counting
    /\ loc'[t].run = loc[t].run
    /\ \/ pc'[t] \in Counting /\ (loc'[t].drifted <=> loc[t].drifted)
       \/ pc'[t] = "createAlert" /\ loc[t].drifted

LEMMA StepKeepsAlerts ==
    ASSUME TypeInv, AlertInv, NEW t \in Callers, OthersStand(t), NamesStand,
           pc'[t] \notin Holding \/ KeepsRun(t)
    PROVE  AlertInv'
  <1>1. DriftedRuns' = DriftedRuns
    BY DEF NamesStand, DriftedRuns
  <1>2. AlertsNameDriftedRuns'
    BY <1>1 DEF AlertInv, AlertsNameDriftedRuns, NamesStand
  <1> USE DEF AlertInv, RunsAreHeld, OthersStand, KeepsRun, Holding, Counting
  <1>3. RunIsStored'
    BY DEF RunIsStored, NamesStand
  <1>4. VerdictIsStored'
    BY <1>1 DEF VerdictIsStored
  <1>5. RunIsUnnamed'
    BY DEF RunIsUnnamed, NamesStand
  <1>6. RunsDiffer'
    BY DEF RunsDiffer
  <1>7. QED BY <1>2, <1>3, <1>4, <1>5, <1>6

\* The sets of drifted and of clean runs after an insert.
LEMMA RunAdded ==
    ASSUME TypeInv, NEW r \in Run, runs' = Append(runs, r)
    PROVE  /\ DOMAIN runs' = DOMAIN runs \cup {Len(runs) + 1}
           /\ Len(runs) + 1 \notin DOMAIN runs
           /\ r.drifted => /\ DriftedRuns' = DriftedRuns \cup {Len(runs) + 1}
                           /\ CleanRuns' = CleanRuns
           /\ ~r.drifted => /\ DriftedRuns' = DriftedRuns
                            /\ CleanRuns' = CleanRuns \cup {Len(runs) + 1}
  <1>1. /\ DOMAIN runs' = DOMAIN runs \cup {Len(runs) + 1}
        /\ Len(runs) + 1 \notin DOMAIN runs
        /\ runs'[Len(runs) + 1] = r
        /\ \A i \in DOMAIN runs : runs'[i] = runs[i]
    BY RowAdded DEF TypeInv, TypeOK
  <1>2. QED BY ONLY <1>1 DEF DriftedRuns, CleanRuns

LEMMA SaveRunKeepsAlerts ==
    ASSUME TypeInv, AlertInv, NEW t \in Callers, OthersStand(t), SaveRun(t)
    PROVE  AlertInv'
  <1> DEFINE r == [version |-> loc[t].version, baseline |-> loc[t].baseline,
                   drifted |-> loc[t].drifted]
             n == Len(runs) + 1
  <1>1. r \in Run /\ (r.drifted <=> loc[t].drifted)
    BY LocalType DEF TypeInv, Run
  <1>2. runs' = Append(runs, r) /\ alerts' = alerts
    BY DEF SaveRun
  <1>3. /\ DOMAIN runs' = DOMAIN runs \cup {n}
        /\ n \notin DOMAIN runs
        /\ DriftedRuns \subseteq DriftedRuns' /\ DriftedRuns' \subseteq DriftedRuns \cup {n}
        /\ n \in DriftedRuns' <=> loc[t].drifted
    <2> HIDE DEF r
    <2>1. DriftedRuns \subseteq DOMAIN runs
      BY DEF DriftedRuns
    <2>2. QED BY <1>1, <1>2, <2>1, RunAdded
  <1>4. pc'[t] = "readHealth" /\ loc'[t].run = n /\ (loc'[t].drifted <=> loc[t].drifted)
    BY DEF SaveRun, Goto, Remember, Know, TypeInv, TypeOK
  <1>5. DriftedRuns \subseteq DOMAIN runs
    BY DEF DriftedRuns
  <1> HIDE DEF r, n
  <1>6. AlertsNameDriftedRuns'
    BY <1>2, <1>3 DEF AlertInv, AlertsNameDriftedRuns
  <1> USE DEF AlertInv, RunsAreHeld, OthersStand, Holding, Counting
  <1>7. RunIsStored'
    BY <1>3, <1>4 DEF RunIsStored
  <1>8. VerdictIsStored'
    BY <1>3, <1>4 DEF VerdictIsStored, RunIsStored
  <1>9. RunIsUnnamed'
    BY <1>2, <1>3, <1>4, <1>5 DEF RunIsUnnamed, AlertsNameDriftedRuns
  <1>10. RunsDiffer'
    BY <1>3, <1>4 DEF RunsDiffer, RunIsStored
  <1>11. QED BY <1>6, <1>7, <1>8, <1>9, <1>10

LEMMA CreateAlertKeepsAlerts ==
    ASSUME TypeInv, AlertInv, NEW t \in Callers, OthersStand(t), CreateAlert(t)
    PROVE  AlertInv'
  <1> DEFINE a == [run |-> loc[t].run, resolved |-> FALSE]
  <1>1. a \in Alert /\ a.run = loc[t].run
    BY LocalType DEF TypeInv, Alert
  <1>2. alerts' = Append(alerts, a) /\ runs' = runs
    BY DEF CreateAlert
  <1> HIDE DEF a
  <1>3. /\ DOMAIN alerts' = DOMAIN alerts \cup {Len(alerts) + 1}
        /\ alerts'[Len(alerts) + 1].run = loc[t].run
        /\ \A i \in DOMAIN alerts : alerts'[i].run = alerts[i].run
    BY <1>1, <1>2, RowAdded DEF TypeInv, TypeOK
  <1>4. DriftedRuns' = DriftedRuns
    BY <1>2 DEF DriftedRuns
  <1>5. pc[t] = "createAlert" /\ pc'[t] = "idle"
    BY DEF CreateAlert, At, Return, TypeInv, TypeOK
  <1>6. loc[t].run \in DriftedRuns /\ \A i \in DOMAIN alerts : alerts[i].run # loc[t].run
    BY <1>5 DEF AlertInv, RunsAreHeld, VerdictIsStored, RunIsUnnamed, Holding
  <1>7. AlertsNameDriftedRuns'
    BY <1>3, <1>4, <1>6 DEF AlertInv, AlertsNameDriftedRuns
  <1> USE DEF AlertInv, RunsAreHeld, OthersStand, Holding, Counting
  <1>8. RunIsStored' /\ VerdictIsStored'
    BY <1>2, <1>4, <1>5 DEF RunIsStored, VerdictIsStored
  <1>9. RunIsUnnamed'
    BY <1>3, <1>5 DEF RunIsUnnamed, RunsDiffer
  <1>10. RunsDiffer'
    BY <1>5 DEF RunsDiffer
  <1>11. QED BY <1>7, <1>8, <1>9, <1>10

\* An alert is only called for by a drifted run.
LEMMA AlertNeedsDrift ==
    ASSUME TypeInv, NEW t \in Callers, pc[t] = "setHealth", Transition(t).createAlert
    PROVE  loc[t].drifted
  <1>1. loc[t].health \in HealthRow /\ loc[t].drifted \in BOOLEAN /\ cfg \in Threshold
    BY LocalType, EngineAssumption DEF TypeInv, HealthIsRead, TypeOK
  <1>2. QED BY <1>1, TransitionIsTyped DEF Transition

LEMMA CheckKeepsAlerts ==
    ASSUME TypeInv, AlertInv, NEW t \in Callers, Check(t) PROVE AlertInv'
  <1>1. OthersStand(t)
    BY OneThread
  <1> USE DEF TypeInv, TypeOK, Counting, Holding
  <1>2. CASE StartCheck(t) \/ Judge(t)
    <2>1. NamesStand /\ pc'[t] \notin Holding
      BY <1>2 DEF StartCheck, Judge, Goto, Return, tables, NamesStand
    <2>2. QED BY <1>1, <2>1, StepKeepsAlerts
  <1>3. CASE SaveRun(t)
    BY <1>1, <1>3, SaveRunKeepsAlerts
  <1>4. CASE ReadHealth(t) \/ ReadAlerts(t)
    <2>1. NamesStand
      BY <1>4 DEF ReadHealth, ReadAlerts, tables, NamesStand
    <2>2. KeepsRun(t)
      BY <1>4 DEF ReadHealth, ReadAlerts, At, Goto, Remember, Know, KeepsRun
    <2>3. QED BY <1>1, <2>1, <2>2, StepKeepsAlerts
  <1>5. CASE SetHealth(t)
    <2>1. NamesStand
      BY <1>5 DEF SetHealth, NamesStand
    <2>2. CASE Transition(t).createAlert
      <3>1. pc[t] = "setHealth" /\ pc'[t] = "createAlert" /\ loc'[t].run = loc[t].run
        BY <1>5, <2>2 DEF SetHealth, At, Goto, Remember, Know
      <3>2. KeepsRun(t)
        BY <2>2, <3>1, AlertNeedsDrift DEF KeepsRun
      <3>3. QED BY <1>1, <2>1, <3>2, StepKeepsAlerts
    <2>3. CASE ~Transition(t).createAlert
      <3>1. pc'[t] \notin Holding
        BY <1>5, <2>3 DEF SetHealth, Goto, Return
      <3>2. QED BY <1>1, <2>1, <3>1, StepKeepsAlerts
    <2>4. QED BY <2>2, <2>3
  <1>6. CASE CreateAlert(t)
    BY <1>1, <1>6, CreateAlertKeepsAlerts
  <1>7. CASE ResolveAlerts(t)
    <2>1. NamesStand /\ pc'[t] \notin Holding
      BY <1>7, ResolvedType DEF ResolveAlerts, Return, NamesStand
    <2>2. QED BY <1>1, <2>1, StepKeepsAlerts
  <1>8. QED BY <1>2, <1>3, <1>4, <1>5, <1>6, <1>7 DEF Check

LEMMA NextAlerts == TypeInv /\ AlertInv /\ [Next]_vars => AlertInv'
  <1> SUFFICES ASSUME TypeInv, AlertInv, [Next]_vars PROVE AlertInv'
    OBVIOUS
  <1>1. ASSUME NEW t \in Callers, Register(t) \/ Retrain(t) PROVE AlertInv'
    <2>1. OthersStand(t)
      BY <1>1, OneThread
    <2>2. NamesStand
      BY <1>1, ResolvedType
      DEF Register, CreateModel, AttachAdapter, FirstBaseline, FirstVersion,
          Retrain, StartRetrain, SaveBaseline, SetVersion, AddVersion, ResolveForRetrain,
          ResetHealth, NamesStand, tables, TypeInv, TypeOK
    <2>3. pc'[t] \notin Holding
      BY <1>1
      DEF Register, CreateModel, AttachAdapter, FirstBaseline, FirstVersion,
          Retrain, StartRetrain, SaveBaseline, SetVersion, AddVersion, ResolveForRetrain,
          ResetHealth, At, Goto, Return, Holding, Counting, TypeInv, TypeOK
    <2>4. QED BY <2>1, <2>2, <2>3, StepKeepsAlerts
  <1>2. CASE Restart \/ UNCHANGED vars
    BY <1>2 DEF Restart, vars, tables, AlertInv, AlertsNameDriftedRuns, DriftedRuns, RunsAreHeld,
                RunIsStored, VerdictIsStored, RunIsUnnamed, RunsDiffer, Holding, Counting
  <1>3. QED BY <1>1, <1>2, CheckKeepsAlerts DEF Next

(***************************************************************************)
(* For any number of threads: every alert names a stored, drifted run, and *)
(* no run has two alerts.                                                  *)
(***************************************************************************)
THEOREM AlertsAreBacked == Spec => []AlertsNameDriftedRuns
  <1>1. Init => TypeInv /\ AlertInv
    BY InitTypes, InitAlerts
  <1>2. (TypeInv /\ AlertInv) /\ [Next]_vars => (TypeInv /\ AlertInv)'
    BY NextTypes, NextAlerts
  <1>3. AlertInv => AlertsNameDriftedRuns
    BY DEF AlertInv
  <1>4. QED BY <1>1, <1>2, <1>3, PTL DEF Spec

-----------------------------------------------------------------------------
(***************************************************************************)
(* Streaks.  A run is either counted in the health row already or about to *)
(* be: every thread that has stored its run and not yet the health it      *)
(* leads to has a run in reserve.                                          *)
(***************************************************************************)
DriftedPending == {t \in Callers : pc[t] \in Counting /\ loc[t].drifted}
CleanPending   == {t \in Callers : pc[t] \in Counting /\ ~loc[t].drifted}

Backed(health) ==
    /\ health.drifted + Cardinality(DriftedPending) <= Cardinality(DriftedRuns)
    /\ health.clean + Cardinality(CleanPending) <= Cardinality(CleanRuns)

StreakInv ==
    /\ Backed(row)
    /\ \A t \in Callers : pc[t] = "setHealth" => Backed(loc[t].health)

\* All sets that are counted are finite.
LEMMA CountsAreNat ==
    ASSUME TypeInv
    PROVE  /\ IsFiniteSet(DriftedRuns) /\ Cardinality(DriftedRuns) \in Nat
           /\ IsFiniteSet(CleanRuns) /\ Cardinality(CleanRuns) \in Nat
           /\ IsFiniteSet(DriftedPending) /\ Cardinality(DriftedPending) \in Nat
           /\ IsFiniteSet(CleanPending) /\ Cardinality(CleanPending) \in Nat
           /\ row.drifted \in Nat /\ row.clean \in Nat
  <1>1. IsFiniteSet(DOMAIN runs)
    <2>1. DOMAIN runs = 1..Len(runs) /\ Len(runs) \in Int
      BY DEF TypeInv, TypeOK
    <2>2. QED BY <2>1, FS_Interval
  <1>2. /\ DriftedRuns \in SUBSET DOMAIN runs /\ CleanRuns \in SUBSET DOMAIN runs
        /\ DriftedPending \in SUBSET Callers /\ CleanPending \in SUBSET Callers
    BY DEF DriftedRuns, CleanRuns, DriftedPending, CleanPending
  <1>3. /\ IsFiniteSet(DriftedRuns) /\ IsFiniteSet(CleanRuns)
        /\ IsFiniteSet(DriftedPending) /\ IsFiniteSet(CleanPending)
    BY <1>1, <1>2, FS_Subset, EngineAssumption
  <1>4. row.drifted \in Nat /\ row.clean \in Nat
    <2>1. row \in HealthRow \/ row = NoRow
      BY DEF TypeInv, TypeOK
    <2>2. QED BY <2>1 DEF HealthRow, NoRow
  <1>5. QED BY <1>3, <1>4, FS_CardinalityType

\* What next_health_state does to the streaks.
LEMMA TransitionStreaks ==
    ASSUME NEW c \in Threshold, NEW h \in HealthRow, NEW d \in BOOLEAN
    PROVE  /\ d => /\ NextHealthState(c, h, d).health.drifted = h.drifted + 1
                   /\ NextHealthState(c, h, d).health.clean = 0
           /\ ~d => /\ NextHealthState(c, h, d).health.drifted = 0
                    /\ NextHealthState(c, h, d).health.clean = h.clean + 1
  BY DEF NextHealthState, AfterDrifted, AfterClean

LEMMA InitStreaks == Init => StreakInv
  <1> SUFFICES ASSUME Init PROVE StreakInv
    OBVIOUS
  <1>1. DriftedPending = {} /\ CleanPending = {} /\ row = NoRow
    BY DEF Init, DriftedPending, CleanPending, Counting
  <1>2. Cardinality(DriftedRuns) \in Nat /\ Cardinality(CleanRuns) \in Nat
    BY InitTypes, CountsAreNat
  <1>3. Backed(row)
    BY <1>1, <1>2, FS_EmptySet DEF Backed, NoRow
  <1>4. QED BY <1>3 DEF StreakInv, Init

\* A step that leaves the runs, the row and the runs in reserve alone.
LEMMA StepKeepsStreaks ==
    ASSUME TypeInv, StreakInv, NEW t \in Callers, OthersStand(t), runs' = runs, Backed(row'),
           pc'[t] \in Counting <=> pc[t] \in Counting,
           pc[t] \in Counting => (loc'[t].drifted <=> loc[t].drifted),
           pc'[t] = "setHealth" => Backed(loc'[t].health)
    PROVE  StreakInv'
  <1>1. DriftedRuns' = DriftedRuns /\ CleanRuns' = CleanRuns
    BY DEF DriftedRuns, CleanRuns
  <1>2. DriftedPending' = DriftedPending /\ CleanPending' = CleanPending
    BY DEF DriftedPending, CleanPending, OthersStand
  <1>3. QED BY <1>1, <1>2 DEF StreakInv, Backed, OthersStand

\* save_run: one run more, and the thread holds it in reserve.
LEMMA SaveRunKeepsStreaks ==
    ASSUME TypeInv, StreakInv, NEW t \in Callers, OthersStand(t), SaveRun(t)
    PROVE  StreakInv'
  <1> DEFINE r == [version |-> loc[t].version, baseline |-> loc[t].baseline,
                   drifted |-> loc[t].drifted]
             n == Len(runs) + 1
  <1>1. r \in Run /\ (r.drifted <=> loc[t].drifted)
    BY LocalType DEF TypeInv, Run
  <1>2. runs' = Append(runs, r) /\ row' = row
    BY DEF SaveRun
  <1> HIDE DEF r
  <1>3. /\ n \notin DriftedRuns /\ n \notin CleanRuns
        /\ loc[t].drifted => DriftedRuns' = DriftedRuns \cup {n} /\ CleanRuns' = CleanRuns
        /\ ~loc[t].drifted => DriftedRuns' = DriftedRuns /\ CleanRuns' = CleanRuns \cup {n}
    <2>1. DriftedRuns \subseteq DOMAIN runs /\ CleanRuns \subseteq DOMAIN runs
      BY DEF DriftedRuns, CleanRuns
    <2>2. QED BY <1>1, <1>2, <2>1, RunAdded
  <1> HIDE DEF n
  <1>4. pc[t] = "saveRun" /\ pc'[t] = "readHealth" /\ (loc'[t].drifted <=> loc[t].drifted)
    BY DEF SaveRun, At, Goto, Remember, Know, TypeInv, TypeOK
  <1>5. /\ t \notin DriftedPending /\ t \notin CleanPending
        /\ loc[t].drifted => /\ DriftedPending' = DriftedPending \cup {t}
                             /\ CleanPending' = CleanPending
        /\ ~loc[t].drifted => /\ DriftedPending' = DriftedPending
                              /\ CleanPending' = CleanPending \cup {t}
    BY <1>4 DEF DriftedPending, CleanPending, Counting, OthersStand
  <1>6. /\ loc[t].drifted => /\ Cardinality(DriftedRuns') = Cardinality(DriftedRuns) + 1
                             /\ Cardinality(DriftedPending') = Cardinality(DriftedPending) + 1
        /\ ~loc[t].drifted => /\ Cardinality(CleanRuns') = Cardinality(CleanRuns) + 1
                              /\ Cardinality(CleanPending') = Cardinality(CleanPending) + 1
    BY <1>3, <1>5, CountsAreNat, FS_AddElement
  <1>7. ASSUME NEW h, h.drifted \in Nat, h.clean \in Nat, Backed(h) PROVE Backed(h)'
    <2>1. CASE loc[t].drifted
      BY <1>3, <1>5, <1>6, <1>7, <2>1, CountsAreNat DEF Backed
    <2>2. CASE ~loc[t].drifted
      BY <1>3, <1>5, <1>6, <1>7, <2>2, CountsAreNat DEF Backed
    <2>3. QED BY <2>1, <2>2
  <1>8. Backed(row)'
    BY <1>2, <1>7, CountsAreNat DEF StreakInv, Backed
  <1>9. ASSUME NEW u \in Callers, pc'[u] = "setHealth" PROVE Backed(loc[u].health)'
    <2>1. u # t /\ pc[u] = "setHealth" /\ loc'[u] = loc[u]
      BY <1>4, <1>9 DEF OthersStand
    <2>2. loc[u].health.drifted \in Nat /\ loc[u].health.clean \in Nat /\ Backed(loc[u].health)
      BY <2>1 DEF TypeInv, HealthIsRead, HealthRow, StreakInv
    <2>3. QED BY <1>7, <2>1, <2>2 DEF Backed
  <1>10. QED BY <1>8, <1>9 DEF StreakInv

(***************************************************************************)
(* An open alert names a drifted run that no pending thread holds: the one *)
(* that get_health counts for a model without a row.                       *)
(***************************************************************************)
LEMMA OpenAlertIsBacked ==
    ASSUME TypeInv, AlertInv, Open # {}
    PROVE  Cardinality(DriftedPending) + 1 <= Cardinality(DriftedRuns)
  <1>1. PICK i \in DOMAIN alerts : TRUE
    BY DEF Open
  <1> DEFINE a == alerts[i].run
             f == [u \in DriftedPending |-> loc[u].run]
  <1>2. a \in DriftedRuns
    BY DEF AlertInv, AlertsNameDriftedRuns
  <1>3. \A u \in DriftedPending : loc[u].run \in DriftedRuns /\ loc[u].run # a
    BY DEF DriftedPending, AlertInv, RunsAreHeld, VerdictIsStored, RunIsUnnamed, Holding
  <1>4. \A u, w \in DriftedPending : loc[u].run = loc[w].run => u = w
    BY DEF DriftedPending, AlertInv, RunsAreHeld, RunsDiffer, Holding
  <1> HIDE DEF a
  <1>5. f \in Injection(DriftedPending, DriftedRuns \ {a})
    BY <1>3, <1>4 DEF Injection, IsInjective
  <1>6. IsFiniteSet(DriftedRuns \ {a}) /\ Cardinality(DriftedRuns \ {a}) = Cardinality(DriftedRuns) - 1
    BY <1>2, CountsAreNat, FS_RemoveElement
  <1>7. Cardinality(DriftedPending) <= Cardinality(DriftedRuns \ {a})
    <2> HIDE DEF f
    <2> QED BY <1>5, <1>6, FS_Injection
  <1>8. QED BY <1>6, <1>7, CountsAreNat

LEMMA ReadAlertsKeepsStreaks ==
    ASSUME TypeInv, AlertInv, StreakInv, NEW t \in Callers, OthersStand(t), ReadAlerts(t)
    PROVE  StreakInv'
  <1> DEFINE h == HealthWithoutRow(Open # {})
  <1>1. /\ h.drifted = IF Open # {} THEN 1 ELSE 0
        /\ h.clean = 0
    BY DEF HealthWithoutRow
  <1>2. /\ pc[t] \in Counting /\ pc'[t] \in Counting
        /\ loc'[t].drifted = loc[t].drifted /\ loc'[t].health = h
    BY DEF ReadAlerts, At, Goto, Remember, Know, Counting, TypeInv, TypeOK
  <1>3. runs' = runs /\ row' = row
    BY DEF ReadAlerts, tables
  <1> HIDE DEF h
  <1>4. Backed(h)
    BY <1>1, OpenAlertIsBacked, CountsAreNat DEF StreakInv, Backed
  <1>5. QED BY <1>2, <1>3, <1>4, StepKeepsStreaks DEF StreakInv

\* set_health: the thread's run moves from the reserve into the row.
LEMMA SetHealthKeepsStreaks ==
    ASSUME TypeInv, StreakInv, NEW t \in Callers, OthersStand(t), SetHealth(t)
    PROVE  StreakInv'
  <1> DEFINE h == loc[t].health
  <1>1. pc[t] = "setHealth" /\ pc'[t] \notin Counting
    BY DEF SetHealth, At, Goto, Return, Counting, TypeInv, TypeOK
  <1>2. h \in HealthRow /\ loc[t].drifted \in BOOLEAN /\ cfg \in Threshold /\ Backed(h)
    BY <1>1, LocalType, EngineAssumption DEF TypeInv, HealthIsRead, TypeOK, StreakInv
  <1>3. row' = Transition(t).health /\ runs' = runs
    BY DEF SetHealth
  <1> HIDE DEF h
  <1>4. /\ h.drifted \in Nat /\ h.clean \in Nat
        /\ loc[t].drifted => row'.drifted = h.drifted + 1 /\ row'.clean = 0
        /\ ~loc[t].drifted => row'.drifted = 0 /\ row'.clean = h.clean + 1
    BY <1>2, <1>3, TransitionStreaks DEF Transition, HealthRow, h
  <1>5. DriftedRuns' = DriftedRuns /\ CleanRuns' = CleanRuns
    BY <1>3 DEF DriftedRuns, CleanRuns
  <1>6. DriftedPending' = DriftedPending \ {t} /\ CleanPending' = CleanPending \ {t}
    BY <1>1 DEF DriftedPending, CleanPending, OthersStand
  <1>7. /\ loc[t].drifted => t \in DriftedPending /\ t \notin CleanPending
        /\ ~loc[t].drifted => t \notin DriftedPending /\ t \in CleanPending
    BY <1>1 DEF DriftedPending, CleanPending, Counting
  <1>8. /\ Cardinality(DriftedPending') = IF loc[t].drifted
             THEN Cardinality(DriftedPending) - 1 ELSE Cardinality(DriftedPending)
        /\ Cardinality(CleanPending') = IF loc[t].drifted
             THEN Cardinality(CleanPending) ELSE Cardinality(CleanPending) - 1
    BY <1>6, <1>7, CountsAreNat, FS_RemoveElement
  <1>9. Backed(row)'
    BY <1>2, <1>4, <1>5, <1>8, CountsAreNat DEF StreakInv, Backed
  <1>10. ASSUME NEW u \in Callers, pc'[u] = "setHealth" PROVE Backed(loc[u].health)'
    <2>1. pc[u] = "setHealth" /\ loc'[u] = loc[u]
      BY <1>1, <1>10 DEF OthersStand, Counting
    <2>2. loc[u].health.drifted \in Nat /\ loc[u].health.clean \in Nat /\ Backed(loc[u].health)
      BY <2>1 DEF TypeInv, HealthIsRead, HealthRow, StreakInv
    <2>3. QED BY <1>5, <1>8, <2>1, <2>2, CountsAreNat DEF Backed
  <1>11. QED BY <1>9, <1>10 DEF StreakInv

LEMMA CheckKeepsStreaks ==
    ASSUME TypeInv, AlertInv, StreakInv, NEW t \in Callers, Check(t) PROVE StreakInv'
  <1>1. OthersStand(t)
    BY OneThread
  <1>2. Backed(row)
    BY DEF StreakInv
  <1>3. CASE StartCheck(t) \/ Judge(t)
    <2>1. runs' = runs /\ row' = row /\ pc[t] \notin Counting /\ pc'[t] \notin Counting
      BY <1>3 DEF StartCheck, Judge, At, Goto, Return, tables, Counting, TypeInv, TypeOK
    <2>2. QED BY <1>1, <1>2, <2>1, StepKeepsStreaks DEF Counting
  <1>4. CASE SaveRun(t)
    BY <1>1, <1>4, SaveRunKeepsStreaks
  <1>5. CASE ReadHealth(t)
    <2>1. /\ runs' = runs /\ row' = row /\ pc[t] \in Counting /\ pc'[t] \in Counting
          /\ loc'[t].drifted <=> loc[t].drifted
          /\ pc'[t] = "setHealth" => loc'[t].health = row
      BY <1>5 DEF ReadHealth, At, Goto, Remember, Know, tables, Counting, TypeInv, TypeOK
    <2>2. QED BY <1>1, <1>2, <2>1, StepKeepsStreaks
  <1>6. CASE ReadAlerts(t)
    BY <1>1, <1>6, ReadAlertsKeepsStreaks
  <1>7. CASE SetHealth(t)
    BY <1>1, <1>7, SetHealthKeepsStreaks
  <1>8. CASE CreateAlert(t) \/ ResolveAlerts(t)
    <2>1. runs' = runs /\ row' = row /\ pc[t] \notin Counting /\ pc'[t] \notin Counting
      BY <1>8 DEF CreateAlert, ResolveAlerts, At, Return, Counting, TypeInv, TypeOK
    <2>2. QED BY <1>1, <1>2, <2>1, StepKeepsStreaks DEF Counting
  <1>9. QED BY <1>3, <1>4, <1>5, <1>6, <1>7, <1>8 DEF Check

LEMMA NextStreaks == TypeInv /\ AlertInv /\ StreakInv /\ [Next]_vars => StreakInv'
  <1> SUFFICES ASSUME TypeInv, AlertInv, StreakInv, [Next]_vars PROVE StreakInv'
    OBVIOUS
  <1>1. Backed(row) /\ Backed(HealthAfterRetrain)
    <2>1. HealthAfterRetrain.drifted = 0 /\ HealthAfterRetrain.clean = 0
      BY DEF HealthAfterRetrain
    <2>2. QED BY <2>1, CountsAreNat DEF StreakInv, Backed
  <1>2. ASSUME NEW t \in Callers, Register(t) \/ Retrain(t) PROVE StreakInv'
    <2>1. OthersStand(t)
      BY <1>2, OneThread
    <2>2. runs' = runs /\ row' \in {row, HealthAfterRetrain}
      BY <1>2
      DEF Register, CreateModel, AttachAdapter, FirstBaseline, FirstVersion,
          Retrain, StartRetrain, SaveBaseline, SetVersion, AddVersion, ResolveForRetrain,
          ResetHealth, tables
    <2>3. pc[t] \notin Counting /\ pc'[t] \notin Counting
      BY <1>2
      DEF Register, CreateModel, AttachAdapter, FirstBaseline, FirstVersion,
          Retrain, StartRetrain, SaveBaseline, SetVersion, AddVersion, ResolveForRetrain,
          ResetHealth, At, Goto, Return, Counting, TypeInv, TypeOK
    <2>4. QED BY <1>1, <2>1, <2>2, <2>3, StepKeepsStreaks DEF Counting
  <1>3. CASE Restart
    <2>1. /\ DriftedPending' = {} /\ CleanPending' = {}
          /\ DriftedRuns' = DriftedRuns /\ CleanRuns' = CleanRuns /\ row' = row
      BY <1>3 DEF Restart, tables, DriftedPending, CleanPending, DriftedRuns, CleanRuns, Counting
    <2>2. Backed(row)'
      BY <1>1, <2>1, CountsAreNat, FS_EmptySet DEF Backed
    <2>3. QED BY <1>3, <2>2 DEF Restart, StreakInv
  <1>4. CASE UNCHANGED vars
    BY <1>4 DEF vars, tables, StreakInv, Backed, DriftedPending, CleanPending, DriftedRuns, CleanRuns
  <1>5. QED BY <1>2, <1>3, <1>4, CheckKeepsStreaks DEF Next

(***************************************************************************)
(* For any number of threads, wherever the process is killed and however   *)
(* checks and retrains overlap, the streaks count no more runs than there  *)
(* are.                                                                    *)
(***************************************************************************)
THEOREM StreaksAreCovered == Spec => []StreaksAreBacked
  <1>1. Init => TypeInv /\ AlertInv /\ StreakInv
    BY InitTypes, InitAlerts, InitStreaks
  <1>2. (TypeInv /\ AlertInv /\ StreakInv) /\ [Next]_vars => (TypeInv /\ AlertInv /\ StreakInv)'
    BY NextTypes, NextAlerts, NextStreaks
  <1>3. TypeInv /\ AlertInv /\ StreakInv => StreaksAreBacked
    BY CountsAreNat DEF StreakInv, Backed, StreaksAreBacked
  <1>4. QED BY <1>1, <1>2, <1>3, PTL DEF Spec

-----------------------------------------------------------------------------
(***************************************************************************)
(* Labels.  With one request at a time no baseline is more than one        *)
(* version ahead, and a check labels its run with the version it found     *)
(* the baseline under, or the one before.                                  *)
(***************************************************************************)
SingleCaller == \A t, u \in Callers : t = u

\* The tables of models and baselines: a retrain that was cut off leaves the
\* next version's baseline behind.
BaselinesKeepUp ==
    /\ \A i \in DOMAIN baselines : baselines[i] <= version + 1
    /\ DOMAIN baselines # {} => \E i \in DOMAIN baselines : baselines[i] >= version
    /\ version = 0 => baselines = <<>> /\ ~attached

\* What the request under way knows of them.
VersionsAreKnown ==
    \A t \in Callers :
        /\ pc[t] \in Registering => version = 1
        /\ pc[t] \in {"saveBaseline", "setVersion"} => version > 0 /\ loc[t].version = version + 1
        /\ pc[t] = "setVersion" => HasBaseline(loc[t].version)
        /\ pc[t] \in {"judge", "saveRun"} => loc[t].baseline \in DOMAIN baselines
        /\ pc[t] = "judge" => baselines[loc[t].baseline] \in {version, version + 1}
        /\ pc[t] = "saveRun" =>
              baselines[loc[t].baseline] \in {loc[t].version, loc[t].version + 1}

LabelInv ==
    /\ RunsJudgedByTheirVersion
    /\ \A k \in DOMAIN runs : runs[k].baseline \in DOMAIN baselines
    /\ BaselinesKeepUp
    /\ VersionsAreKnown

UsesVersion == Registering \cup {"saveBaseline", "setVersion", "judge", "saveRun"}

LEMMA InitLabels == Init => LabelInv
  <1> SUFFICES ASSUME Init PROVE LabelInv
    OBVIOUS
  <1>1. VersionsAreKnown
    BY DEF Init, VersionsAreKnown, Registering
  <1>2. CASE EmptyTables
    <2>1. version = 0 /\ baselines = <<>> /\ DOMAIN baselines = {} /\ DOMAIN runs = {}
      <3>1. DOMAIN <<>> = {}
        BY SMT
      <3>2. QED BY <1>2, <3>1 DEF EmptyTables
    <2>2. ~attached
      <3>1. attached = (version > 0)
        BY DEF Init
      <3>2. ~(version > 0)
        <4> HIDE DEF Init
        <4>1. QED BY <2>1, SMT
      <3>3. QED BY <3>1, <3>2, Zenon
    <2>3. BaselinesKeepUp
      BY <2>1, <2>2 DEF BaselinesKeepUp
    <2>4. QED BY <1>1, <2>1, <2>3 DEF LabelInv, RunsJudgedByTheirVersion
  <1>3. CASE UpgradedTables
    <2>1. DOMAIN baselines = {1} /\ baselines[1] = 1 /\ version = 1
      BY <1>3 DEF UpgradedTables
    <2>2. DOMAIN runs = {1} /\ runs[1].baseline = 1 /\ runs[1].version = 1
      BY <1>3 DEF UpgradedTables
    <2>3. BaselinesKeepUp
      BY <2>1 DEF BaselinesKeepUp
    <2>4. QED BY <1>1, <2>1, <2>2, <2>3 DEF LabelInv, RunsJudgedByTheirVersion
  <1>4. QED BY <1>2, <1>3 DEF Init

\* A step that leaves versions, baselines and runs alone.
LEMMA ElsewhereKeepsLabels ==
    ASSUME SingleCaller, LabelInv, NEW t \in Callers, pc'[t] \notin UsesVersion,
           UNCHANGED <<version, baselines, runs>>, attached' => version > 0 \/ attached
    PROVE  LabelInv'
  <1>1. \A u \in Callers : pc'[u] \notin UsesVersion
    BY DEF SingleCaller
  <1>2. RunsJudgedByTheirVersion' /\ \A k \in DOMAIN runs' : runs'[k].baseline \in DOMAIN baselines'
    BY DEF LabelInv, RunsJudgedByTheirVersion
  <1>3. BaselinesKeepUp'
    BY DEF LabelInv, BaselinesKeepUp
  <1>4. VersionsAreKnown'
    BY <1>1 DEF VersionsAreKnown, UsesVersion
  <1>5. QED BY <1>2, <1>3, <1>4 DEF LabelInv

\* A row more in the table baselines, of the current version or the next.
LEMMA SavingKeepsLabels ==
    ASSUME SingleCaller, TypeInv, LabelInv, NEW t \in Callers, NEW v \in {version, version + 1},
           version > 0, baselines' = Append(baselines, v), UNCHANGED <<version, runs, attached>>,
           \/ pc'[t] = "firstVersion" /\ version = 1
           \/ pc'[t] = "setVersion" /\ loc'[t].version = v /\ v = version + 1
    PROVE  LabelInv'
  <1>1. version \in Nat /\ v \in Nat /\ baselines \in Seq(Nat)
    BY DEF TypeInv, TypeOK
  <1>2. /\ DOMAIN baselines' = DOMAIN baselines \cup {Len(baselines) + 1}
        /\ baselines'[Len(baselines) + 1] = v
        /\ \A i \in DOMAIN baselines : baselines'[i] = baselines[i]
    BY <1>1, RowAdded
  <1>3. /\ RunsJudgedByTheirVersion'
        /\ \A k \in DOMAIN runs' : runs'[k].baseline \in DOMAIN baselines'
    BY <1>2 DEF LabelInv, RunsJudgedByTheirVersion
  <1>4. BaselinesKeepUp'
    BY <1>1, <1>2 DEF LabelInv, BaselinesKeepUp
  <1>5. HasBaseline(v)'
    <2>1. Len(baselines) + 1 \in DOMAIN baselines' /\ v' = v
      BY <1>2
    <2>2. QED BY <1>2, <2>1 DEF HasBaseline
  <1>6. VersionsAreKnown'
    BY <1>5 DEF SingleCaller, VersionsAreKnown, Registering, HasBaseline
  <1>7. QED BY <1>3, <1>4, <1>6 DEF LabelInv

LEMMA RegisterKeepsLabels ==
    ASSUME SingleCaller, TypeInv, LabelInv, NEW t \in Callers, Register(t) PROVE LabelInv'
  <1> USE DEF TypeInv, TypeOK, Goto, Return, At
  <1>1. CASE CreateModel(t)
    <2>1. CASE version = 0
      <3>1. version' = 1 /\ baselines = <<>> /\ pc'[t] = "attach" /\ UNCHANGED <<baselines, runs>>
        BY <1>1, <2>1 DEF CreateModel, LabelInv, BaselinesKeepUp
      <3>2. BaselinesKeepUp' /\ RunsJudgedByTheirVersion'
            /\ \A k \in DOMAIN runs' : runs'[k].baseline \in DOMAIN baselines'
        BY <3>1 DEF LabelInv, BaselinesKeepUp, RunsJudgedByTheirVersion
      <3>3. VersionsAreKnown'
        BY <3>1 DEF SingleCaller, VersionsAreKnown, Registering
      <3>4. QED BY <3>2, <3>3 DEF LabelInv
    <2>2. CASE version # 0
      BY <1>1, <2>2, ElsewhereKeepsLabels
         DEF CreateModel, UsesVersion, Registering
    <2>3. QED BY <2>1, <2>2
  <1>2. CASE AttachAdapter(t)
    <2>1. version = 1 /\ pc'[t] = "firstBaseline" /\ UNCHANGED <<version, baselines, runs>>
      BY <1>2 DEF AttachAdapter, tables, LabelInv, VersionsAreKnown, Registering
    <2>2. BaselinesKeepUp' /\ RunsJudgedByTheirVersion'
          /\ \A k \in DOMAIN runs' : runs'[k].baseline \in DOMAIN baselines'
      BY <2>1 DEF LabelInv, BaselinesKeepUp, RunsJudgedByTheirVersion
    <2>3. VersionsAreKnown'
      BY <2>1 DEF SingleCaller, VersionsAreKnown, Registering
    <2>4. QED BY <2>2, <2>3 DEF LabelInv
  <1>3. CASE FirstBaseline(t)
    <2>1. version = 1 /\ UNCHANGED <<version, runs, attached>>
      BY <1>3 DEF FirstBaseline, LabelInv, VersionsAreKnown, Registering
    <2>2. CASE UNCHANGED baselines /\ pc' = [pc EXCEPT ![t] = "idle"]
      BY <2>1, <2>2, ElsewhereKeepsLabels DEF UsesVersion, Registering
    <2>3. CASE baselines' = Append(baselines, 1) /\ pc' = [pc EXCEPT ![t] = "firstVersion"]
      <3>1. pc'[t] = "firstVersion" /\ 1 \in {version, version + 1} /\ version > 0
        BY <2>1, <2>3
      <3>2. QED BY <2>1, <2>3, <3>1, SavingKeepsLabels
    <2>4. QED BY <1>3, <2>2, <2>3 DEF FirstBaseline
  <1>4. CASE FirstVersion(t)
    BY <1>4, ElsewhereKeepsLabels DEF FirstVersion, UsesVersion, Registering
  <1>5. QED BY <1>1, <1>2, <1>3, <1>4 DEF Register

LEMMA CheckKeepsLabels ==
    ASSUME SingleCaller, TypeInv, LabelInv, NEW t \in Callers, Check(t) PROVE LabelInv'
  <1> USE DEF TypeInv, TypeOK, Goto, Return, At
  <1>1. CASE StartCheck(t)
    <2>1. PICK i \in DOMAIN baselines : IsLatestBaseline(i) /\ Remember(t, i, 0, 0, FALSE, NoRow)
      BY <1>1 DEF StartCheck
    <2>2. baselines[i] \in {version, version + 1}
      <3>1. \A k \in DOMAIN baselines : baselines[k] <= baselines[i]
        <4>1. \A k \in DOMAIN baselines : baselines[k] \in Nat
          OBVIOUS
        <4> HIDE DEF TypeInv, TypeOK
        <4>2. TAKE k \in DOMAIN baselines
        <4>3. baselines[k] < baselines[i] \/ baselines[k] = baselines[i]
          BY <2>1 DEF IsLatestBaseline
        <4>4. QED BY <4>1, <4>3
      <3>2. PICK k \in DOMAIN baselines : baselines[k] >= version
        BY <2>1 DEF LabelInv, BaselinesKeepUp
      <3>3. baselines[i] <= version + 1
        BY <2>1 DEF LabelInv, BaselinesKeepUp
      <3>4. QED BY <3>1, <3>2, <3>3
    <2>3. /\ pc'[t] = "judge" /\ loc'[t].baseline = i
          /\ UNCHANGED <<version, baselines, runs, attached>>
      BY <1>1, <2>1 DEF StartCheck, Remember, Know, tables
    <2>4. VersionsAreKnown'
      BY <2>2, <2>3 DEF SingleCaller, VersionsAreKnown, Registering
    <2>5. QED BY <2>3, <2>4 DEF LabelInv, BaselinesKeepUp, RunsJudgedByTheirVersion
  <1>2. CASE Judge(t)
    <2>1. UNCHANGED <<version, baselines, runs, attached>>
      BY <1>2 DEF Judge, tables
    <2>2. CASE pc'[t] = "idle"
      BY <2>1, <2>2, ElsewhereKeepsLabels DEF UsesVersion, Registering
    <2>3. CASE /\ pc' = [pc EXCEPT ![t] = "saveRun"]
               /\ \E d \in BOOLEAN : Remember(t, loc[t].baseline, version, 0, d, NoRow)
      <3>1. /\ loc'[t].baseline = loc[t].baseline /\ loc'[t].version = version
            /\ pc[t] = "judge" /\ pc'[t] = "saveRun"
        BY <1>2, <2>3 DEF Judge, Remember, Know
      <3>2. VersionsAreKnown'
        BY <2>1, <3>1 DEF SingleCaller, LabelInv, VersionsAreKnown, Registering
      <3>3. QED BY <2>1, <3>2 DEF LabelInv, BaselinesKeepUp, RunsJudgedByTheirVersion
    <2>4. QED BY <1>2, <2>2, <2>3 DEF Judge
  <1>3. CASE SaveRun(t)
    <2> DEFINE r == [version |-> loc[t].version, baseline |-> loc[t].baseline,
                     drifted |-> loc[t].drifted]
    <2>1. /\ r \in Run /\ r.baseline \in DOMAIN baselines
          /\ baselines[r.baseline] \in {r.version, r.version + 1}
      BY <1>3, LocalType DEF SaveRun, Run, LabelInv, VersionsAreKnown
    <2>2. /\ runs' = Append(runs, r) /\ pc'[t] = "readHealth"
          /\ UNCHANGED <<version, baselines, attached>>
      BY <1>3 DEF SaveRun
    <2> HIDE DEF r
    <2>3. /\ DOMAIN runs' = DOMAIN runs \cup {Len(runs) + 1}
          /\ runs'[Len(runs) + 1] = r
          /\ \A k \in DOMAIN runs : runs'[k] = runs[k]
      BY <2>1, <2>2, RowAdded
    <2>4. /\ RunsJudgedByTheirVersion'
          /\ \A k \in DOMAIN runs' : runs'[k].baseline \in DOMAIN baselines'
      BY <2>1, <2>2, <2>3 DEF LabelInv, RunsJudgedByTheirVersion
    <2>5. VersionsAreKnown'
      BY <2>2 DEF SingleCaller, VersionsAreKnown, Registering
    <2>6. QED BY <2>2, <2>4, <2>5 DEF LabelInv, BaselinesKeepUp
  <1>4. CASE ReadHealth(t) \/ ReadAlerts(t)
    <2>1. pc'[t] \in {"setHealth", "readAlerts"}
      <3>1. CASE ReadHealth(t)
        BY <3>1 DEF ReadHealth
      <3>2. CASE ReadAlerts(t)
        BY <3>2 DEF ReadAlerts
      <3>3. QED BY <1>4, <3>1, <3>2
    <2>2. UNCHANGED <<version, baselines, runs, attached>>
      BY <1>4 DEF ReadHealth, ReadAlerts, tables
    <2>3. QED BY <2>1, <2>2, ElsewhereKeepsLabels DEF UsesVersion, Registering
  <1>5. CASE SetHealth(t)
    BY <1>5, ElsewhereKeepsLabels DEF SetHealth, UsesVersion, Registering
  <1>6. CASE CreateAlert(t) \/ ResolveAlerts(t)
    <2>1. pc'[t] = "idle"
      BY <1>6 DEF CreateAlert, ResolveAlerts
    <2>2. UNCHANGED <<version, baselines, runs, attached>>
      BY <1>6 DEF CreateAlert, ResolveAlerts
    <2>3. QED BY <2>1, <2>2, ElsewhereKeepsLabels DEF UsesVersion, Registering
  <1>7. QED BY <1>1, <1>2, <1>3, <1>4, <1>5, <1>6 DEF Check

LEMMA RetrainKeepsLabels ==
    ASSUME SingleCaller, TypeInv, LabelInv, NEW t \in Callers, Retrain(t) PROVE LabelInv'
  <1> USE DEF TypeInv, TypeOK, Goto, Return, At
  <1>1. CASE StartRetrain(t)
    <2>1. /\ pc'[t] = "saveBaseline" /\ loc'[t].version = version + 1 /\ version > 0
          /\ UNCHANGED <<version, baselines, runs, attached>>
      BY <1>1 DEF StartRetrain, Remember, Know, tables, LabelInv, BaselinesKeepUp
    <2>2. VersionsAreKnown'
      BY <2>1 DEF SingleCaller, VersionsAreKnown, Registering
    <2>3. QED BY <2>1, <2>2 DEF LabelInv, BaselinesKeepUp, RunsJudgedByTheirVersion
  <1>2. CASE SaveBaseline(t)
    <2>1. /\ loc[t].version = version + 1 /\ version > 0
          /\ UNCHANGED <<version, runs, attached>>
      BY <1>2 DEF SaveBaseline, LabelInv, VersionsAreKnown
    <2>2. CASE UNCHANGED baselines /\ pc' = [pc EXCEPT ![t] = "idle"]
      BY <2>1, <2>2, ElsewhereKeepsLabels DEF UsesVersion, Registering
    <2>3. CASE /\ baselines' = Append(baselines, loc[t].version)
               /\ pc' = [pc EXCEPT ![t] = "setVersion"] /\ UNCHANGED loc
      <3>1. pc'[t] = "setVersion" /\ loc'[t].version = version + 1
        BY <2>1, <2>3
      <3>2. QED BY <2>1, <2>3, <3>1, SavingKeepsLabels
    <2>4. QED BY <1>2, <2>2, <2>3 DEF SaveBaseline
  <1>3. CASE SetVersion(t)
    <2>1. /\ version' = version + 1 /\ HasBaseline(version + 1) /\ pc'[t] = "addVersion"
          /\ UNCHANGED <<baselines, runs, attached>>
      BY <1>3 DEF SetVersion, LabelInv, VersionsAreKnown
    <2>2. BaselinesKeepUp'
      BY <2>1 DEF LabelInv, BaselinesKeepUp, HasBaseline
    <2>3. VersionsAreKnown'
      BY <2>1 DEF SingleCaller, VersionsAreKnown, Registering
    <2>4. QED BY <2>1, <2>2, <2>3 DEF LabelInv, RunsJudgedByTheirVersion
  <1>4. CASE AddVersion(t)
    BY <1>4, ElsewhereKeepsLabels DEF AddVersion, UsesVersion, Registering
  <1>5. CASE ResolveForRetrain(t) \/ ResetHealth(t)
    <2>1. pc'[t] \in {"resetHealth", "idle"}
      BY <1>5 DEF ResolveForRetrain, ResetHealth
    <2>2. UNCHANGED <<version, baselines, runs, attached>>
      BY <1>5 DEF ResolveForRetrain, ResetHealth
    <2>3. QED BY <2>1, <2>2, ElsewhereKeepsLabels DEF UsesVersion, Registering
  <1>6. QED BY <1>1, <1>2, <1>3, <1>4, <1>5 DEF Retrain

LEMMA NextLabels ==
    ASSUME SingleCaller PROVE TypeInv /\ LabelInv /\ [Next]_vars => LabelInv'
  <1> SUFFICES ASSUME TypeInv, LabelInv, [Next]_vars PROVE LabelInv'
    OBVIOUS
  <1>1. CASE Restart
    <2>1. PICK t \in Callers : TRUE
      BY EngineAssumption
    <2>2. pc'[t] = "idle"
      BY <1>1 DEF Restart
    <2>3. QED BY <1>1, <2>2, ElsewhereKeepsLabels DEF Restart, tables, UsesVersion, Registering
  <1>2. CASE UNCHANGED vars
    BY <1>2 DEF vars, tables, LabelInv, BaselinesKeepUp, RunsJudgedByTheirVersion,
                VersionsAreKnown, HasBaseline
  <1>3. QED
    BY <1>1, <1>2, RegisterKeepsLabels, CheckKeepsLabels, RetrainKeepsLabels DEF Next

(***************************************************************************)
(* With one request at a time, wherever the process is killed, a run bears *)
(* the version of the baseline it was judged against or the one before.    *)
(***************************************************************************)
THEOREM RunsAreLabelled ==
    ASSUME SingleCaller PROVE Spec => []RunsJudgedByTheirVersion
  <1>1. Init => TypeInv /\ LabelInv
    BY InitTypes, InitLabels
  <1>2. (TypeInv /\ LabelInv) /\ [Next]_vars => (TypeInv /\ LabelInv)'
    BY NextTypes, NextLabels
  <1>3. LabelInv => RunsJudgedByTheirVersion
    BY DEF LabelInv
  <1>4. QED BY <1>1, <1>2, <1>3, PTL DEF Spec

-----------------------------------------------------------------------------
(***************************************************************************)
(* Engine implements Monitor.  With one request at a time, and no crash in *)
(* the two windows where the health and the alerts are half written, the   *)
(* storage calls of MonitoringEngine add up to the single steps of a       *)
(* monitor: for any thresholds, any number of rows and of crashes.         *)
(***************************************************************************)

\* Where a check or a retrain has written one of the two and not the other.
Windows == {"createAlert", "resolveAlerts", "resetHealth"}

SequentialRequests ==
    /\ SingleCaller
    /\ CrashPoints \cap Windows = {}
    /\ MaxRows > 0

\* What get_health answers at this moment.
HealthNow == IF row = NoRow THEN HealthWithoutRow(Open # {}) ELSE row

(***************************************************************************)
(* The health that the request has read still stands when it is used, and  *)
(* the request that is to add a run has its place in the table.            *)
(***************************************************************************)
CallerInv ==
    /\ Len(runs) <= MaxRows
    /\ \A t \in Callers :
          /\ pc[t] \in {"judge", "saveRun"} => Len(runs) < MaxRows
          /\ pc[t] = "readAlerts" => row = NoRow
          /\ pc[t] = "setHealth" => loc[t].health = HealthNow

SeqInv == TypeInv /\ AlertInv /\ StreakInv /\ CallerInv

-----------------------------------------------------------------------------
(* The state of the monitor, as the one caller's place determines it. *)

LEMMA OnlyOneCounts ==
    ASSUME SingleCaller, NEW t \in Callers, NEW p, NEW here
    PROVE  Cardinality({u \in Callers : p[u] \in {here}}) > 0 <=> p[t] = here
  <1> DEFINE S == {u \in Callers : p[u] \in {here}}
  <1>1. IsFiniteSet(S)
    BY FS_Subset, EngineAssumption
  <1>2. Cardinality(S) \in Nat /\ (Cardinality(S) = 0 <=> S = {})
    BY <1>1, FS_CardinalityType, FS_EmptySet
  <1>3. S = {} <=> p[t] # here
    BY DEF SingleCaller
  <1> HIDE DEF S
  <1>4. Cardinality(S) > 0 <=> p[t] = here
    BY <1>2, <1>3
  <1>5. QED BY <1>4 DEF S

LEMMA MonitorView ==
    ASSUME SingleCaller, NEW t \in Callers
    PROVE  /\ pc[t] = "resetHealth" => MonitorRow = HealthAfterRetrain
           /\ pc[t] # "resetHealth" => MonitorRow = row
           /\ pc[t] = "createAlert" => MonitorAlerts = Cardinality(Open) + 1
           /\ pc[t] = "resolveAlerts" => MonitorAlerts = 0
           /\ pc[t] \notin {"createAlert", "resolveAlerts"} => MonitorAlerts = Cardinality(Open)
  <1>1. /\ Pending({"resetHealth"}) > 0 <=> pc[t] = "resetHealth"
        /\ Pending({"createAlert"}) > 0 <=> pc[t] = "createAlert"
        /\ Pending({"resolveAlerts"}) > 0 <=> pc[t] = "resolveAlerts"
    BY OnlyOneCounts DEF Pending
  <1>2. pc[t] = "createAlert" => MonitorAlerts = Cardinality(Open) + 1
    BY <1>1 DEF MonitorAlerts
  <1>3. pc[t] = "resolveAlerts" => MonitorAlerts = 0
    BY <1>1 DEF MonitorAlerts
  <1>4. pc[t] \notin {"createAlert", "resolveAlerts"} => MonitorAlerts = Cardinality(Open)
    BY <1>1 DEF MonitorAlerts
  <1>5. QED BY <1>1, <1>2, <1>3, <1>4 DEF MonitorRow

LEMMA MonitorViewAfter ==
    ASSUME SingleCaller, NEW t \in Callers
    PROVE  /\ pc'[t] = "resetHealth" => MonitorRow' = HealthAfterRetrain
           /\ pc'[t] # "resetHealth" => MonitorRow' = row'
           /\ pc'[t] = "createAlert" => MonitorAlerts' = Cardinality(Open') + 1
           /\ pc'[t] = "resolveAlerts" => MonitorAlerts' = 0
           /\ pc'[t] \notin {"createAlert", "resolveAlerts"} => MonitorAlerts' = Cardinality(Open')
  <1>1. /\ Pending({"resetHealth"})' > 0 <=> pc'[t] = "resetHealth"
        /\ Pending({"createAlert"})' > 0 <=> pc'[t] = "createAlert"
        /\ Pending({"resolveAlerts"})' > 0 <=> pc'[t] = "resolveAlerts"
    BY OnlyOneCounts DEF Pending
  <1>2. pc'[t] = "createAlert" => MonitorAlerts' = Cardinality(Open') + 1
    BY <1>1 DEF MonitorAlerts
  <1>3. pc'[t] = "resolveAlerts" => MonitorAlerts' = 0
    BY <1>1 DEF MonitorAlerts
  <1>4. pc'[t] \notin {"createAlert", "resolveAlerts"} => MonitorAlerts' = Cardinality(Open')
    BY <1>1 DEF MonitorAlerts
  <1>5. QED BY <1>1, <1>2, <1>3, <1>4 DEF MonitorRow

\* Monitor's functions of Health are Engine's.
LEMMA SameHealth ==
    /\ Mon!NoRow = NoRow
    /\ Mon!HealthAfterRetrain = HealthAfterRetrain
    /\ \A b : Mon!HealthWithoutRow(b) = HealthWithoutRow(b)
    /\ \A c, h, d : Mon!NextHealthState(c, h, d) = NextHealthState(c, h, d)
  <1>1. Mon!NoRow = NoRow /\ Mon!HealthAfterRetrain = HealthAfterRetrain
    BY DEF Mon!NoRow, NoRow, Mon!HealthAfterRetrain, HealthAfterRetrain, Mon!HEALTHY, HEALTHY
  <1>2. \A b : Mon!HealthWithoutRow(b) = HealthWithoutRow(b)
    BY DEF Mon!HealthWithoutRow, HealthWithoutRow, Mon!HEALTHY, HEALTHY, Mon!DEGRADED, DEGRADED
  <1>3. ASSUME NEW c, NEW h, NEW d PROVE Mon!NextHealthState(c, h, d) = NextHealthState(c, h, d)
    BY Zenon DEF Mon!NextHealthState, Mon!AfterDrifted, Mon!AfterClean,
           Mon!StateAfterDrift, Mon!StateAfterClean, Mon!InIncident, Mon!HEALTHY, Mon!WARNING, Mon!DEGRADED, Mon!RECOVERING,
           NextHealthState, AfterDrifted, AfterClean, StateAfterDrift, StateAfterClean,
           InIncident, HEALTHY, WARNING, DEGRADED, RECOVERING
  <1>4. QED BY <1>1, <1>2, <1>3

\* Open alerts are counted, and resolving them all leaves none.
LEMMA OpenIsCounted ==
    ASSUME TypeInv
    PROVE  /\ IsFiniteSet(Open) /\ Cardinality(Open) \in Nat
           /\ Cardinality(Open) > 0 <=> Open # {}
  <1>1. DOMAIN alerts = 1..Len(alerts) /\ Len(alerts) \in Nat
    BY DEF TypeInv, TypeOK
  <1>2. IsFiniteSet(DOMAIN alerts)
    BY <1>1, FS_Interval
  <1>3. IsFiniteSet(Open)
    BY <1>2, FS_Subset DEF Open
  <1>4. QED BY <1>3, FS_CardinalityType, FS_EmptySet

LEMMA ResolvingCloses ==
    ASSUME alerts' = AllResolved PROVE Open' = {} /\ Cardinality(Open') = 0
  <1>1. DOMAIN AllResolved = DOMAIN alerts /\ \A i \in DOMAIN alerts : AllResolved[i].resolved
    BY DEF AllResolved
  <1>2. QED BY <1>1, FS_EmptySet DEF Open

-----------------------------------------------------------------------------
(* The invariant. *)

LEMMA InitCaller == ASSUME SequentialRequests PROVE Init => CallerInv
  <1> SUFFICES ASSUME Init PROVE CallerInv
    OBVIOUS
  <1>1. Len(runs) \in {0, 1}
    BY DEF Init, EmptyTables, UpgradedTables
  <1>2. \A t \in Callers : pc[t] = "idle"
    BY DEF Init
  <1>3. QED BY <1>1, <1>2, EngineAssumption DEF CallerInv, SequentialRequests

\* A step to a place where nothing is remembered of runs, row or alerts.
LEMMA ElsewhereKeepsCaller ==
    ASSUME SingleCaller, CallerInv, NEW t \in Callers, Len(runs') <= MaxRows,
           pc'[t] \notin {"judge", "saveRun", "readAlerts", "setHealth"}
    PROVE  CallerInv'
  BY DEF SingleCaller, CallerInv

LEMMA NextCaller ==
    ASSUME SequentialRequests PROVE SeqInv /\ [Next]_vars => CallerInv'
  <1> SUFFICES ASSUME SeqInv, [Next]_vars PROVE CallerInv'
    OBVIOUS
  <1>0. TypeInv /\ CallerInv /\ SingleCaller /\ pc \in [Callers -> PC] /\ loc \in [Callers -> Local]
        /\ Len(runs) \in Nat /\ Len(baselines) \in Nat /\ MaxRows \in Nat
    BY EngineAssumption DEF SeqInv, SequentialRequests, TypeInv, TypeOK
  <1>1. ASSUME NEW t \in Callers, Register(t) PROVE CallerInv'
    <2>1. runs' = runs /\ pc'[t] \in {"idle", "attach", "firstBaseline", "firstVersion"}
      BY <1>0, <1>1 DEF Register, CreateModel, AttachAdapter, FirstBaseline, FirstVersion, At, Goto,
                        Return, tables
    <2>2. QED BY <1>0, <2>1, ElsewhereKeepsCaller DEF CallerInv
  <1>2. ASSUME NEW t \in Callers, Retrain(t) PROVE CallerInv'
    <2>1. runs' = runs /\ pc'[t] \in {"idle"} \cup Retraining
      BY <1>0, <1>2 DEF Retrain, StartRetrain, SaveBaseline, SetVersion, AddVersion, ResolveForRetrain,
                        ResetHealth, At, Goto, Return, tables, Retraining
    <2>2. QED BY <1>0, <2>1, ElsewhereKeepsCaller DEF CallerInv, Retraining
  <1>3. ASSUME NEW t \in Callers, Check(t) PROVE CallerInv'
    <2>1. CASE StartCheck(t)
      <3>1. pc'[t] = "judge" /\ UNCHANGED runs
        BY <1>0, <2>1 DEF StartCheck, Goto, tables
      <3>2. Len(runs) < MaxRows
        <4>1. Pending({"judge", "saveRun", "firstBaseline", "saveBaseline"}) \in Nat
          BY FS_Subset, FS_CardinalityType, EngineAssumption DEF Pending
        <4>2. QED BY <1>0, <2>1, <4>1 DEF StartCheck, MayAddRow
      <3>3. QED BY <1>0, <3>1, <3>2 DEF CallerInv, SingleCaller
    <2>2. CASE Judge(t)
      <3>1. pc'[t] \in {"idle", "saveRun"} /\ UNCHANGED runs /\ pc[t] = "judge"
        BY <1>0, <2>2 DEF Judge, At, Goto, Return, tables
      <3>2. QED BY <1>0, <3>1 DEF CallerInv, SingleCaller
    <2>3. CASE SaveRun(t)
      <3>1. pc[t] = "saveRun" /\ pc'[t] = "readHealth" /\ Len(runs') = Len(runs) + 1
        <4>1. [version |-> loc[t].version, baseline |-> loc[t].baseline, drifted |-> loc[t].drifted] \in Run
          BY <1>0, LocalType DEF TypeInv, Run
        <4>2. QED BY <1>0, <2>3, <4>1, AppendProperties DEF SaveRun, At, Goto, TypeInv, TypeOK
      <3>2. Len(runs') <= MaxRows
        BY <1>0, <3>1 DEF CallerInv
      <3>3. QED BY <1>0, <3>1, <3>2, ElsewhereKeepsCaller
    <2>4. CASE ReadHealth(t)
      <3>1. UNCHANGED <<runs, row>> /\ HealthNow' = HealthNow
        BY <2>4 DEF ReadHealth, tables, HealthNow, Open
      <3>2. CASE row # NoRow
        <4>1. pc'[t] = "setHealth" /\ loc'[t].health = row
          BY <1>0, <2>4, <3>2 DEF ReadHealth, Goto, Remember, Know
        <4>2. HealthNow = row
          BY <3>2 DEF HealthNow
        <4>3. QED BY <1>0, <3>1, <4>1, <4>2 DEF CallerInv, SingleCaller
      <3>3. CASE row = NoRow
        <4>1. pc'[t] = "readAlerts"
          BY <1>0, <2>4, <3>3 DEF ReadHealth, Goto
        <4>2. QED BY <1>0, <3>1, <3>3, <4>1 DEF CallerInv, SingleCaller
      <3>4. QED BY <3>2, <3>3
    <2>5. CASE ReadAlerts(t)
      <3>1. UNCHANGED <<runs, row>> /\ HealthNow' = HealthNow /\ pc[t] = "readAlerts"
        BY <2>5 DEF ReadAlerts, tables, HealthNow, Open, At
      <3>2. HealthNow = HealthWithoutRow(Open # {})
        BY <1>0, <3>1 DEF CallerInv, HealthNow
      <3>3. pc'[t] = "setHealth" /\ loc'[t].health = HealthWithoutRow(Open # {})
        BY <1>0, <2>5, Zenon DEF ReadAlerts, Goto, Remember, Know
      <3>4. QED BY <1>0, <3>1, <3>2, <3>3 DEF CallerInv, SingleCaller
    <2>6. CASE SetHealth(t) \/ CreateAlert(t) \/ ResolveAlerts(t)
      <3>1. runs' = runs /\ pc'[t] \in {"idle", "createAlert", "resolveAlerts"}
        BY <1>0, <2>6 DEF SetHealth, CreateAlert, ResolveAlerts, Goto, Return
      <3>2. QED BY <1>0, <3>1, ElsewhereKeepsCaller DEF CallerInv
    <2>7. QED BY <1>3, <2>1, <2>2, <2>3, <2>4, <2>5, <2>6 DEF Check
  <1>4. CASE Restart
    <2>1. runs' = runs /\ \A t \in Callers : pc'[t] = "idle"
      BY <1>4 DEF Restart, tables
    <2>2. QED BY <1>0, <2>1 DEF CallerInv
  <1>5. CASE UNCHANGED vars
    BY <1>0, <1>5 DEF vars, tables, CallerInv, HealthNow, Open
  <1>6. QED BY <1>1, <1>2, <1>3, <1>4, <1>5 DEF Next

-----------------------------------------------------------------------------
(* Storage calls are steps of the monitor, or none. *)

\* A storage call that the monitor does not see.
LEMMA UnseenCall ==
    ASSUME SingleCaller, NEW t \in Callers, pc[t] \notin Windows, pc'[t] \notin Windows,
           UNCHANGED <<cfg, row, alerts>>
    PROVE  UNCHANGED Mon!vars
  <1>1. Open' = Open
    BY DEF Open
  <1>2. UNCHANGED <<MonitorRow, MonitorAlerts>>
    BY <1>1, MonitorView, MonitorViewAfter DEF Windows
  <1>3. QED BY <1>2 DEF Mon!vars

\* set_health is the whole check, as far as the monitor is concerned.
LEMMA SetHealthIsRunCheck ==
    ASSUME SequentialRequests, SeqInv, NEW t \in Callers, SetHealth(t)
    PROVE  Mon!RunCheck(TRUE) \/ Mon!RunCheck(FALSE)
  <1> DEFINE h == loc[t].health
             d == loc[t].drifted
             tr == NextHealthState(cfg, h, d)
  <1>0. TypeInv /\ StreakInv /\ CallerInv /\ SingleCaller
    BY DEF SeqInv, SequentialRequests
  <1>1. /\ pc[t] = "setHealth" /\ d \in BOOLEAN /\ h \in HealthRow
        /\ UNCHANGED <<cfg, alerts>> /\ row' = tr.health
    BY <1>0, LocalType DEF SetHealth, At, TypeInv, HealthIsRead, Transition
  <1>2. MonitorRow = row /\ MonitorAlerts = Cardinality(Open)
    BY <1>0, <1>1, MonitorView
  <1>3. h = Mon!GetHealth
    <2>1. h = HealthNow /\ (Cardinality(Open) > 0) = (Open # {})
      BY <1>0, <1>1, OpenIsCounted DEF CallerInv
    <2>2. QED BY <1>2, <2>1, SameHealth DEF HealthNow, Mon!GetHealth
  <1>4. IF d THEN h.drifted < MaxRows ELSE h.clean < MaxRows
    <2>1. Backed(h) /\ h.drifted \in Nat /\ h.clean \in Nat
      BY <1>0, <1>1 DEF StreakInv, HealthRow
    <2>2. /\ d => Cardinality(DriftedPending) > 0
          /\ ~d => Cardinality(CleanPending) > 0
      <3>1. (d => t \in DriftedPending) /\ (~d => t \in CleanPending)
        BY <1>1 DEF DriftedPending, CleanPending, Counting
      <3>2. QED BY <1>0, <3>1, CountsAreNat, FS_EmptySet
    <2>3. Cardinality(DriftedRuns) <= MaxRows /\ Cardinality(CleanRuns) <= MaxRows
      <3>1. DOMAIN runs = 1..Len(runs) /\ Len(runs) \in Nat
        BY <1>0 DEF TypeInv, TypeOK
      <3>2. IsFiniteSet(DOMAIN runs) /\ Cardinality(DOMAIN runs) = Len(runs)
        <4>1. /\ IsFiniteSet(1..Len(runs))
              /\ Cardinality(1..Len(runs)) = IF 1 > Len(runs) THEN 0 ELSE Len(runs) - 1 + 1
          BY <3>1, FS_Interval
        <4>2. QED BY <3>1, <4>1
      <3>3. DriftedRuns \in SUBSET DOMAIN runs /\ CleanRuns \in SUBSET DOMAIN runs
        BY DEF DriftedRuns, CleanRuns
      <3>4. Cardinality(DriftedRuns) <= Len(runs) /\ Cardinality(CleanRuns) <= Len(runs)
        BY <3>2, <3>3, FS_Subset
      <3>5. QED BY <1>0, <3>1, <3>4, CountsAreNat, EngineAssumption DEF CallerInv
    <2> HIDE DEF h, d
    <2>4. QED BY <1>0, <2>1, <2>2, <2>3, CountsAreNat, EngineAssumption DEF Backed
  <1>5. /\ MonitorRow' = tr.health
        /\ MonitorAlerts' = CASE tr.createAlert -> MonitorAlerts + 1
                              [] ~tr.createAlert /\ tr.resolveAlerts -> 0
                              [] ~tr.createAlert /\ ~tr.resolveAlerts -> MonitorAlerts
    <2>1. Open' = Open
      BY <1>1 DEF Open
    <2>2. /\ tr.createAlert => pc'[t] = "createAlert"
          /\ ~tr.createAlert /\ tr.resolveAlerts => pc'[t] = "resolveAlerts"
          /\ ~tr.createAlert /\ ~tr.resolveAlerts => pc'[t] = "idle"
      BY <1>0 DEF SetHealth, Transition, Goto, Return, TypeInv, TypeOK
    <2> HIDE DEF tr
    <2>3. MonitorRow' = row'
      BY <1>0, <2>2, MonitorViewAfter
    <2>4. CASE tr.createAlert
      BY <1>0, <1>1, <1>2, <2>1, <2>2, <2>3, <2>4, MonitorViewAfter
    <2>5. CASE ~tr.createAlert /\ tr.resolveAlerts
      BY <1>0, <1>1, <1>2, <2>1, <2>2, <2>3, <2>5, MonitorViewAfter
    <2>6. CASE ~tr.createAlert /\ ~tr.resolveAlerts
      BY <1>0, <1>1, <1>2, <2>1, <2>2, <2>3, <2>6, MonitorViewAfter
    <2>7. QED BY <2>4, <2>5, <2>6
  <1>6. Mon!RunCheck(d)
    BY <1>1, <1>3, <1>4, <1>5, SameHealth DEF Mon!RunCheck, Mon!AlertsAfter
  <1>7. QED BY <1>1, <1>6

LEMMA CheckIsSeen ==
    ASSUME SequentialRequests, SeqInv, NEW t \in Callers, Check(t)
    PROVE  [Mon!Next]_(Mon!vars)
  <1>0. SingleCaller /\ TypeInv /\ pc \in [Callers -> PC]
    BY DEF SequentialRequests, SeqInv, TypeInv, TypeOK
  <1>1. CASE StartCheck(t) \/ Judge(t) \/ SaveRun(t) \/ ReadHealth(t) \/ ReadAlerts(t)
    <2>1. /\ pc[t] \notin Windows /\ pc'[t] \notin Windows /\ UNCHANGED <<cfg, row, alerts>>
      BY <1>0, <1>1 DEF StartCheck, Judge, SaveRun, ReadHealth, ReadAlerts, At, Goto, Return, tables, Windows
    <2>2. QED BY <1>0, <2>1, UnseenCall
  <1>2. CASE SetHealth(t)
    BY <1>2, SetHealthIsRunCheck DEF Mon!Next
  <1>3. CASE CreateAlert(t)
    <2>1. pc[t] = "createAlert" /\ pc'[t] = "idle" /\ UNCHANGED <<cfg, row>>
      BY <1>0, <1>3 DEF CreateAlert, At, Return
    <2>2. Cardinality(Open') = Cardinality(Open) + 1
      <3> DEFINE a == [run |-> loc[t].run, resolved |-> FALSE]
      <3>1. a \in Alert /\ a.resolved = FALSE /\ alerts' = Append(alerts, a) /\ alerts \in Seq(Alert)
        BY <1>0, <1>3, LocalType DEF CreateAlert, Alert, TypeInv, TypeOK
      <3> HIDE DEF a
      <3>2. /\ DOMAIN alerts' = DOMAIN alerts \cup {Len(alerts) + 1}
            /\ Len(alerts) + 1 \notin DOMAIN alerts
            /\ ~alerts'[Len(alerts) + 1].resolved
            /\ \A i \in DOMAIN alerts : alerts'[i] = alerts[i]
        BY <3>1, RowAdded
      <3>3. Open' = Open \cup {Len(alerts) + 1} /\ Len(alerts) + 1 \notin Open
        BY <3>2 DEF Open
      <3>4. QED BY <1>0, <3>3, OpenIsCounted, FS_AddElement
    <2>3. UNCHANGED <<MonitorRow, MonitorAlerts>>
      BY <1>0, <2>1, <2>2, MonitorView, MonitorViewAfter
    <2>4. QED BY <2>1, <2>3 DEF Mon!vars
  <1>4. CASE ResolveAlerts(t)
    <2>1. pc[t] = "resolveAlerts" /\ pc'[t] = "idle" /\ UNCHANGED <<cfg, row>> /\ Cardinality(Open') = 0
      BY <1>0, <1>4, ResolvingCloses DEF ResolveAlerts, At, Return
    <2>2. UNCHANGED <<MonitorRow, MonitorAlerts>>
      BY <1>0, <2>1, MonitorView, MonitorViewAfter
    <2>3. QED BY <2>1, <2>2 DEF Mon!vars
  <1>5. QED BY <1>1, <1>2, <1>3, <1>4 DEF Check

LEMMA RetrainIsSeen ==
    ASSUME SequentialRequests, SeqInv, NEW t \in Callers, Retrain(t)
    PROVE  [Mon!Next]_(Mon!vars)
  <1>0. SingleCaller /\ TypeInv /\ pc \in [Callers -> PC]
    BY DEF SequentialRequests, SeqInv, TypeInv, TypeOK
  <1>1. CASE StartRetrain(t) \/ SaveBaseline(t) \/ SetVersion(t) \/ AddVersion(t)
    <2>1. /\ pc[t] \notin Windows /\ pc'[t] \notin Windows /\ UNCHANGED <<cfg, row, alerts>>
      BY <1>0, <1>1 DEF StartRetrain, SaveBaseline, SetVersion, AddVersion, At, Goto, Return, tables, Windows
    <2>2. QED BY <1>0, <2>1, UnseenCall
  <1>2. CASE ResolveForRetrain(t)
    <2>1. pc'[t] = "resetHealth" /\ UNCHANGED cfg /\ Cardinality(Open') = 0
      BY <1>0, <1>2, ResolvingCloses DEF ResolveForRetrain, Goto
    <2>2. MonitorRow' = HealthAfterRetrain /\ MonitorAlerts' = 0
      BY <1>0, <2>1, MonitorViewAfter
    <2>3. QED BY <2>1, <2>2, SameHealth DEF Mon!Next, Mon!Retrain
  <1>3. CASE ResetHealth(t)
    <2>1. /\ pc[t] = "resetHealth" /\ pc'[t] = "idle" /\ row' = HealthAfterRetrain
          /\ UNCHANGED <<cfg, alerts>> /\ Open' = Open
      BY <1>0, <1>3 DEF ResetHealth, At, Return, Open
    <2>2. UNCHANGED <<MonitorRow, MonitorAlerts>>
      BY <1>0, <2>1, MonitorView, MonitorViewAfter
    <2>3. QED BY <2>1, <2>2 DEF Mon!vars
  <1>4. QED BY <1>1, <1>2, <1>3 DEF Retrain

LEMMA NextIsSeen ==
    ASSUME SequentialRequests PROVE SeqInv /\ [Next]_vars => [Mon!Next]_(Mon!vars)
  <1> SUFFICES ASSUME SeqInv, [Next]_vars PROVE [Mon!Next]_(Mon!vars)
    OBVIOUS
  <1>0. SingleCaller /\ TypeInv /\ pc \in [Callers -> PC]
    BY DEF SequentialRequests, SeqInv, TypeInv, TypeOK
  <1>1. PICK t \in Callers : TRUE
    BY EngineAssumption
  <1>2. ASSUME NEW u \in Callers, Register(u) PROVE [Mon!Next]_(Mon!vars)
    <2>1. /\ pc[u] \notin Windows /\ pc'[u] \notin Windows /\ UNCHANGED <<cfg, row, alerts>>
      BY <1>0, <1>2 DEF Register, CreateModel, AttachAdapter, FirstBaseline, FirstVersion, At, Goto, Return,
                        tables, Windows
    <2>2. QED BY <1>0, <2>1, UnseenCall
  <1>3. CASE Restart
    <2>1. /\ pc[t] \notin Windows /\ pc'[t] \notin Windows /\ UNCHANGED <<cfg, row, alerts>>
      BY <1>3 DEF Restart, tables, Windows, SequentialRequests
    <2>2. QED BY <1>0, <2>1, UnseenCall
  <1>4. CASE UNCHANGED vars
    BY <1>4 DEF vars, tables, Mon!vars, MonitorRow, MonitorAlerts, Pending, Open
  <1>5. QED BY <1>2, <1>3, <1>4, CheckIsSeen, RetrainIsSeen DEF Next

LEMMA InitIsSeen ==
    ASSUME SequentialRequests PROVE Init => Mon!Init
  <1> SUFFICES ASSUME Init PROVE Mon!Init
    OBVIOUS
  <1>1. PICK t \in Callers : pc[t] = "idle"
    BY EngineAssumption DEF Init
  <1>2. MonitorRow = NoRow /\ MonitorAlerts = Cardinality(Open) /\ cfg \in Configs
    BY <1>1, MonitorView DEF SequentialRequests, Init
  <1>3. Open = {} \/ Open = {1}
    <2>1. CASE EmptyTables
      <3>1. DOMAIN alerts = {}
        BY <2>1 DEF EmptyTables
      <3>2. QED BY <3>1 DEF Open
    <2>2. CASE UpgradedTables
      <3>1. DOMAIN alerts = {1}
        BY <2>2 DEF UpgradedTables
      <3>2. QED BY <3>1 DEF Open
    <2>3. QED BY <2>1, <2>2 DEF Init
  <1>4. Cardinality(Open) \in {0, 1}
    BY <1>3, FS_EmptySet, FS_Singleton
  <1>5. QED BY <1>2, <1>4 DEF Mon!Init, Mon!NoRow, NoRow

(***************************************************************************)
(* With one request at a time the storage calls of run_check and           *)
(* trigger_retrain, however many crashes come between them outside the     *)
(* two windows, are the atomic steps that Monitor is made of.              *)
(***************************************************************************)
THEOREM EngineImplementsMonitor ==
    ASSUME SequentialRequests PROVE Spec => ImplementsMonitor
  <1>1. Init => SeqInv
    BY InitTypes, InitAlerts, InitStreaks, InitCaller DEF SeqInv
  <1>2. SeqInv /\ [Next]_vars => SeqInv'
    BY NextTypes, NextAlerts, NextStreaks, NextCaller DEF SeqInv
  <1>3. Init => Mon!Init
    BY InitIsSeen
  <1>4. SeqInv /\ [Next]_vars => [Mon!Next]_(Mon!vars)
    BY NextIsSeen
  <1>5. QED BY <1>1, <1>2, <1>3, <1>4, PTL DEF Spec, ImplementsMonitor, Mon!Spec
==============================================================================
