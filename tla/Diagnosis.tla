------------------------------- MODULE Diagnosis -------------------------------
(***************************************************************************)
(* diagnosis/engine.py, which names the subsystem behind the drifted       *)
(* signals of a RAG check, experiments/benchmark.py, which counts how      *)
(* often verdicts are right, and core/calibration.py, which turns a rate   *)
(* of false alarms into the number of drifted checks to wait for.          *)
(***************************************************************************)
EXTENDS Adapters

CONSTANTS
    MaxConsecutive,     \* max_consecutive
    RefusalThreshold    \* _REFUSAL_TOLERANCE of the benchmark, in hundredths

ASSUME DiagnosisAssumption == MaxConsecutive \in Nat \ {0} /\ RefusalThreshold \in Nat

Retrieval == "retrieval"
Generation == "generation"
Operational == "operational"

Subsystems == <<Retrieval, Generation, Operational>>

(* What a signal adds, in half points of its confidence, if it drifted.    *)
Weight(signals, confidence, signal, halves) ==
    IF signal \in signals THEN halves * confidence[signal] ELSE 0

\* Mutant: side effects of a retrieval regression are counted as generation.
SubsystemScore_Twice(signals, confidence, subsystem) ==
    CASE subsystem = Retrieval   -> Weight(signals, confidence, "retrieval", 2)
      [] subsystem = Operational -> Weight(signals, confidence, "generation_latency", 2)
      [] OTHER -> Weight(signals, confidence, "citation_validity", 2) + Weight(signals, confidence, "refusal", 2)

SubsystemScore(signals, confidence, subsystem) ==
    LET SideEffects(halves) == Weight(signals, confidence, "citation_validity", halves)
                                 + Weight(signals, confidence, "refusal", halves)
        upstream == "retrieval" \in signals
    IN  CASE subsystem = Retrieval ->
                IF upstream THEN Weight(signals, confidence, "retrieval", 2) + SideEffects(1) ELSE 0
          [] subsystem = Generation  -> IF upstream THEN 0 ELSE SideEffects(2)
          [] subsystem = Operational -> Weight(signals, confidence, "generation_latency", 2)

(* The highest score wins, the first of them in a tie.                     *)
Diagnose(signals, confidence) ==
    LET Score(i) == SubsystemScore(signals, confidence, Subsystems[i])
        best == Max({Score(i) : i \in DOMAIN Subsystems})
    IN  IF signals = {} \/ best = 0 THEN "none"
        ELSE Subsystems[Min({i \in DOMAIN Subsystems : Score(i) = best})]

-----------------------------------------------------------------------------
(* Which methods see drift in a trial.                                     *)

SingleThresholdRefusal(baseline, current) ==
    LET Refused(b) == Counted(b, {e \in DOMAIN b : ~e.grounded})
    IN  Above(Refused(current), Size(current), Refused(baseline), Size(baseline), RefusalThreshold)

(* At the default alpha of ks_test, and without a minimum of events.       *)
KsRetrievalOnly(baseline, current) ==
    KsTest(Extract(baseline).scores, Extract(current).scores, DefaultCritical)

AblatedSignals == RagSignals \ {"embedding"}

(* The ablation drops one signal, and with it the embedding signal, which  *)
(* no variant lists.                                                       *)
AblationDetect(verdict, dropped) == (verdict.signals \cap AblatedSignals) \ {dropped} # {}

Methods == {"single_threshold_refusal", "ks_retrieval_only", "rag_adapter_full"} \cup AblatedSignals

Predicted(baseline, current) ==
    LET verdict == RagCheck(baseline, current, FALSE)
    IN  [method \in Methods |->
            CASE method = "single_threshold_refusal" -> SingleThresholdRefusal(baseline, current)
              [] method = "ks_retrieval_only" -> KsRetrievalOnly(baseline, current)
              [] method = "rag_adapter_full"  -> verdict.drifted
              [] OTHER -> AblationDetect(verdict, method)]

NoResult == [tp |-> 0, fp |-> 0, fn |-> 0, tn |-> 0]

\* Mutant: an alarm on a clean batch counts as a miss.
Account_MissForAlarm(result, injected, predicted) ==
    CASE injected /\ predicted -> [result EXCEPT !.tp = @ + 1]
      [] injected # predicted  -> [result EXCEPT !.fn = @ + 1]
      [] OTHER                 -> [result EXCEPT !.tn = @ + 1]

Account(result, injected, predicted) ==
    CASE injected /\ predicted  -> [result EXCEPT !.tp = @ + 1]
      [] injected /\ ~predicted -> [result EXCEPT !.fn = @ + 1]
      [] ~injected /\ predicted -> [result EXCEPT !.fp = @ + 1]
      [] OTHER                  -> [result EXCEPT !.tn = @ + 1]

-----------------------------------------------------------------------------
(* A rate is a pair of numerator and denominator.                          *)

FalsePositiveRate(result) ==
    IF result.fp + result.tn = 0 THEN <<0, 1>> ELSE <<result.fp, result.fp + result.tn>>

Power(base, k) ==
    LET power[n \in 0..k] == IF n = 0 THEN 1 ELSE base * power[n - 1]
    IN  power[k]

Sign(rate, target, k) == Power(rate[1], k) * target[2] - target[1] * Power(rate[2], k)

\* Mutant: a threshold that meets the target exactly is passed over.
DegradedAfterConsecutive_Strict(rate, target) ==
    IF rate[1] = 0 THEN 1
    ELSE Min({k \in 1..MaxConsecutive : Sign(rate, target, k) < 0} \cup {MaxConsecutive})

\* Mutant: the loop goes on at the maximum.
DegradedAfterConsecutive_PastMaximum(rate, target) ==
    IF rate[1] = 0 THEN 1
    ELSE Min({k \in 1..MaxConsecutive : Sign(rate, target, k) <= 0} \cup {MaxConsecutive + 1})

DegradedAfterConsecutive(rate, target) ==
    IF rate[1] = 0 THEN 1
    ELSE Min({k \in 1..MaxConsecutive : Sign(rate, target, k) <= 0} \cup {MaxConsecutive})

(* A target of 0 or 1 is refused; a rate and the maximum are always valid. *)
ValidTarget(target) == 0 < target[1] /\ target[1] < target[2]

(* The loop allows for rounding, the final comparison does not: where the  *)
(* power is the target exactly, rounding decides what is said of it.       *)
Capped(rate, target, k, above) ==
    /\ rate[1] # 0
    /\ Sign(rate, target, k) > 0 \/ (Sign(rate, target, k) = 0 /\ above)
=============================================================================
