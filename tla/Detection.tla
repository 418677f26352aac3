------------------------------- MODULE Detection -------------------------------
(***************************************************************************)
(* Where the verdicts come from.  An application is monitored either by a  *)
(* reporter, which collects events and has them checked in batches, or by  *)
(* the LangChain handler of the client SDK, which has each event checked   *)
(* as soon as a call of the model ends.  The benchmark runs the detection  *)
(* methods on synthetic trials and calibrates the hysteresis from them.    *)
(***************************************************************************)
EXTENDS Diagnosis

CONSTANTS
    AdapterNames,     \* adapters that are used in a run
    Kinds,            \* Kinds[adapter]: the kinds of event it is given
    Baselines,        \* Baselines[adapter]: batches of them from which a baseline is built
    Features,         \* features of the classifier
    Confidences,      \* what a drifted signal may have, in hundredths
    Chains,           \* chain runs in the application
    ScoreLists,       \* scores that a retriever may leave in its documents
    Latencies,        \* values of a generation latency: a call takes time
    DriftTypes,       \* of a synthetic trial; "none" is one
    Synthetic,        \* Synthetic[type]: batches that _synthetic_batch may draw
    Targets,          \* incident-level false-positive rates asked for
    MaxBatch,         \* bound: events in a batch
    MaxCalls,         \* bound: model calls of a chain in flight at once
    MaxRetrievals,    \* bound: retrievals of a chain in flight at once
    MaxTrials         \* bound: trials of a benchmark

ASSUME DetectionAssumption ==
    /\ MaxBatch \in Nat /\ MaxCalls \in Nat \ {0} /\ MaxRetrievals \in Nat \ {0} /\ MaxTrials \in Nat
    /\ Confidences \subseteq 51..100 /\ "none" \in DriftTypes
    /\ 0 \notin Latencies
    /\ "rag" \in AdapterNames /\ AdapterNames \subseteq {"rag", "live_telemetry", "classifier", "llm"}
    /\ IsFiniteSet(Features) /\ 1..Cardinality(Features) \subseteq DOMAIN KsCritical /\ 1 \in DOMAIN KsCritical
    /\ Targets \subseteq Nat \X (Nat \ {0})

(* The batches that an adapter may be given.                               *)
Batches(name) == {b \in [Kinds[name] -> 0..MaxBatch] : Size(b) <= MaxBatch}

ASSUME BatchesAssumption ==
    \A name \in AdapterNames : IsFiniteSet(Kinds[name]) /\ Baselines[name] \subseteq Batches(name)

(* What the adapters read of an event.                                     *)
ASSUME EventsAssumption ==
    /\ \A e \in Kinds["rag"] :
          /\ e.scores \in Seq(Nat)
          /\ e.citations \in Nat /\ e.requested \in Nat /\ e.citations <= e.requested
    /\ "llm" \in AdapterNames => \A e \in Kinds["llm"] : e.golden \in BOOLEAN /\ e.similarity \in Int

ASSUME SyntheticAssumption ==
    \A type \in DriftTypes : \A b \in Synthetic[type] :
        /\ IsFiniteSet(DOMAIN b) /\ b \in [DOMAIN b -> Nat]
        /\ \A e \in DOMAIN b : e.scores \in Seq(Nat)

VARIABLES
    source,      \* "reporter", "handler" or "benchmark"
    adapter,     \* adapter of the monitored model
    baseline,    \* batch from which its baseline was built
    batch,       \* events the reporter has collected
    table,       \* _runs of the handler
    chain,       \* the chains themselves
    latest,      \* the latest check
    results,     \* of the benchmark, by method
    threshold    \* what the calibration recommended

vars == <<source, adapter, baseline, batch, table, chain, latest, results, threshold>>

Empty(name) == [e \in Kinds[name] |-> 0]

NoCheck == [kind |-> "none"]

NoEntry == [none |-> TRUE]

NewEntry == [scores |-> <<>>, retrieving |-> FALSE, started |-> FALSE]

(* A chain: whether it is open, its retrievals and model calls in flight,  *)
(* whether calls in flight have overlapped and, of the retrievals that     *)
(* have ended since the last model call ended, the scores that the latest  *)
(* gave, possibly none, and those that they all gave.                      *)
NewChain == [open |-> TRUE, retrieving |-> 0, calls |-> 0, overlapped |-> FALSE,
             context |-> <<>>, found |-> {}]

NoThreshold == [k |-> 0, capped |-> FALSE]

Init ==
    /\ source \in {"reporter", "handler", "benchmark"}
    /\ adapter \in IF source = "reporter" THEN AdapterNames ELSE {"rag"}
    /\ baseline \in IF source = "benchmark" THEN {Empty(adapter)} ELSE Baselines[adapter]
    /\ batch = Empty(adapter)
    /\ table = [c \in Chains |-> NoEntry]
    /\ chain = [c \in Chains |-> NewChain]
    /\ latest = NoCheck
    /\ results = [method \in Methods |-> NoResult]
    /\ threshold = NoThreshold

-----------------------------------------------------------------------------
(* The reporter.                                                           *)

MayBePresent == IF adapter = "classifier" THEN SUBSET Features ELSE {Features}

Check(b, c, present, found) ==
    CASE adapter = "rag"            -> RagCheck(b, c, found)
      [] adapter = "live_telemetry" -> LiveCheck(b, c)
      [] adapter = "classifier"     -> ClassifierCheck(b, c, present)
      [] adapter = "llm"            -> LlmCheck(c)

Diagnosed(verdict, confidence) ==
    IF adapter = "rag" THEN Diagnose(verdict.signals, confidence) ELSE "none"

Collect(e) ==
    /\ source = "reporter"
    /\ Size(batch) < MaxBatch
    /\ batch' = [batch EXCEPT ![e] = @ + 1]
    /\ latest' = NoCheck
    /\ UNCHANGED <<source, adapter, baseline, table, chain, results, threshold>>

(* run_check.  A classifier's batch, whose samples have the features       *)
(* present, must not be empty: its test would end in an exception.         *)
CheckBatch(present, found) ==
    /\ source = "reporter"
    /\ adapter = "classifier" => Size(batch) > 0
    /\ LET verdict == Check(baseline, batch, present, found)
       IN  \E confidence \in [verdict.signals -> Confidences] :
              latest' = [kind |-> "batch", batch |-> batch, baseline |-> baseline, verdict |-> verdict,
                         subsystem |-> Diagnosed(verdict, confidence)]
    /\ batch' = Empty(adapter)
    /\ UNCHANGED <<source, adapter, baseline, table, chain, results, threshold>>

(* trigger_retrain: the batch becomes the baseline.                        *)
Retrain ==
    /\ source = "reporter"
    /\ Size(batch) > 0
    /\ baseline' = batch
    /\ batch' = Empty(adapter)
    /\ latest' = NoCheck
    /\ UNCHANGED <<source, adapter, table, chain, results, threshold>>

-----------------------------------------------------------------------------
(* The LangChain handler.  Its callbacks find or create the entry of the   *)
(* chain, the parent of the retriever's and of the model's run.            *)

Entry(c) == IF table[c] = NoEntry THEN NewEntry ELSE table[c]

Callback(c, entry, after, check) ==
    /\ source = "handler"
    /\ chain[c].open
    /\ table' = [table EXCEPT ![c] = entry]
    /\ chain' = [chain EXCEPT ![c] = after]
    /\ latest' = check
    /\ UNCHANGED <<source, adapter, baseline, batch, results, threshold>>

RetrieverStart(c) ==
    /\ chain[c].retrieving < MaxRetrievals
    /\ Callback(c, [Entry(c) EXCEPT !.retrieving = TRUE], [chain[c] EXCEPT !.retrieving = @ + 1],
                NoCheck)

(* Documents without scores leave those of an earlier retrieval in place.  *)
RetrieverEnd(c, scores) ==
    /\ chain[c].retrieving > 0
    /\ Callback(c, [Entry(c) EXCEPT !.retrieving = FALSE,
                                    !.scores = IF scores = <<>> THEN @ ELSE scores],
                [chain[c] EXCEPT !.retrieving = @ - 1, !.context = scores, !.found = @ \cup {scores}],
                NoCheck)

(* The handler has no callback for it.                                     *)
RetrieverError(c) ==
    /\ chain[c].retrieving > 0
    /\ Callback(c, table[c], [chain[c] EXCEPT !.retrieving = @ - 1], NoCheck)

LlmStart(c) ==
    /\ chain[c].calls < MaxCalls
    /\ Callback(c, [Entry(c) EXCEPT !.started = TRUE],
                [chain[c] EXCEPT !.calls = @ + 1, !.overlapped = @ \/ chain[c].calls > 0],
                NoCheck)

CallEnded(c) ==
    [chain[c] EXCEPT !.calls = @ - 1, !.overlapped = @ /\ chain[c].calls > 1,
                     !.context = <<>>, !.found = {}]

(* What on_llm_end reports: it knows of no grounding and no citation.      *)
HandlerEvent(entry, latency) ==
    [grounded |-> FALSE, citations |-> 0, requested |-> 0, scores |-> entry.scores,
     generation |-> IF entry.started THEN latency ELSE 0, latency |-> 0, embedding |-> NoEmbedding]

(* The event is checked as a batch of its own.                             *)
LlmEnd(c, latency) ==
    LET event == HandlerEvent(Entry(c), latency)
        single == [e \in {event} |-> 1]
    IN  /\ chain[c].calls > 0
        /\ Callback(c, NoEntry, CallEnded(c),
                    [kind |-> "event", before |-> chain[c], event |-> event,
                     batch |-> single, baseline |-> baseline,
                     verdict |-> RagCheck(baseline, single, FALSE)])

\* Mutant: a failed call leaves its entry for the next one.
LlmError_Keeps(c) ==
    /\ chain[c].calls > 0
    /\ Callback(c, table[c], CallEnded(c), NoCheck)

LlmError(c) ==
    /\ chain[c].calls > 0
    /\ Callback(c, NoEntry, CallEnded(c), NoCheck)

(* The chain returns or fails between two calls: no callback of the        *)
(* handler sees it.                                                        *)
ChainEnd(c) ==
    /\ chain[c].retrieving = 0 /\ chain[c].calls = 0
    /\ Callback(c, table[c], [chain[c] EXCEPT !.open = FALSE], NoCheck)

Restart ==
    /\ source = "handler"
    /\ table' = [c \in Chains |-> NoEntry]
    /\ chain' = [c \in Chains |-> NewChain]
    /\ latest' = NoCheck
    /\ UNCHANGED <<source, adapter, baseline, batch, results, threshold>>

-----------------------------------------------------------------------------
(* The benchmark, and the calibration from it.                             *)

(* What the methods may say of a trial of each type.                       *)
Outcomes ==
    [type \in DriftTypes |->
        {Predicted(before, after) : before \in Synthetic["none"], after \in Synthetic[type]}]

Trials(result) == result.tp + result.fp + result.fn + result.tn

Trial(type, predicted) ==
    /\ source = "benchmark"
    /\ Trials(results["rag_adapter_full"]) < MaxTrials
    /\ results' = [method \in Methods |-> Account(results[method], type # "none", predicted[method])]
    /\ threshold' = NoThreshold
    /\ UNCHANGED <<source, adapter, baseline, batch, table, chain, latest>>

CalibrateHysteresis(target, above) ==
    LET rate == FalsePositiveRate(results["rag_adapter_full"])
        k == DegradedAfterConsecutive(rate, target)
    IN  /\ source = "benchmark"
        /\ threshold = NoThreshold
        /\ ValidTarget(target)
        /\ threshold' = [k |-> k, capped |-> Capped(rate, target, k, above),
                         rate |-> rate, target |-> target]
        /\ UNCHANGED <<source, adapter, baseline, batch, table, chain, latest, results>>

RunBenchmark ==
    /\ source = "benchmark"
    /\ results' = [method \in Methods |-> NoResult]
    /\ threshold' = NoThreshold
    /\ UNCHANGED <<source, adapter, baseline, batch, table, chain, latest>>

Next ==
    \/ \E e \in Kinds[adapter] : Collect(e)
    \/ \E present \in MayBePresent, found \in BOOLEAN : CheckBatch(present, found)
    \/ Retrain
    \/ \E c \in Chains :
          \/ RetrieverStart(c) \/ RetrieverError(c)
          \/ LlmStart(c) \/ LlmError(c) \/ ChainEnd(c)
          \/ \E scores \in ScoreLists : RetrieverEnd(c, scores)
          \/ \E latency \in Latencies : LlmEnd(c, latency)
    \/ Restart
    \/ \E type \in DriftTypes : \E predicted \in Outcomes[type] : Trial(type, predicted)
    \/ \E target \in Targets, above \in BOOLEAN : CalibrateHysteresis(target, above)
    \/ RunBenchmark

Spec == Init /\ [][Next]_vars

-----------------------------------------------------------------------------
(* Properties.                                                             *)

(* A check has its batch and a verdict; a result counts no more trials     *)
(* than were run; a table entry is in the shape the callbacks give it.     *)
TypeOK ==
    /\ source \in {"reporter", "handler", "benchmark"} /\ adapter \in AdapterNames
    /\ \A b \in {batch, baseline} : b \in [Kinds[adapter] -> 0..MaxBatch] /\ Size(b) <= MaxBatch
    /\ \A c \in Chains : /\ chain[c].calls \in 0..MaxCalls /\ chain[c].retrieving \in 0..MaxRetrievals
                         /\ table[c] # NoEntry => DOMAIN table[c] = DOMAIN NewEntry
    /\ latest.kind \in {"none", "batch", "event"}
    /\ \A method \in Methods : Trials(results[method]) \in 0..MaxTrials
    /\ threshold.k \in 0..MaxConsecutive /\ threshold.capped \in BOOLEAN

Rate(b, e) == IF e \in DOMAIN b THEN b[e] ELSE 0

Unlike(b, c) ==
    \E e \in DOMAIN b \cup DOMAIN c : Rate(b, e) * Size(c) # Rate(c, e) * Size(b)

(***************************************************************************)
(* Drift is never reported, for a signal or for the batch, of a batch that *)
(* is too small to judge, nor of one in which every kind of event is as    *)
(* frequent as in the baseline, whatever the sizes, nor of answers that    *)
(* are all as expected.  The telemetry adapter compares a nearest rank     *)
(* that depends on the size, so the batch may differ in that.  An event    *)
(* that the handler reports is never drift: it is a batch of one.          *)
(***************************************************************************)
DriftIsReal ==
    latest.kind # "none" /\ (latest.verdict.drifted \/ latest.verdict.signals # {}) =>
        CASE adapter = "rag" ->
                /\ Size(latest.batch) >= RagMinEvents /\ Size(latest.baseline) >= RagMinEvents
                /\ Unlike(latest.baseline, latest.batch)
          [] adapter = "live_telemetry" ->
                Size(latest.batch) >= TelemetryMinEvents /\ latest.batch # latest.baseline
          [] adapter = "classifier" -> Unlike(latest.baseline, latest.batch)
          [] adapter = "llm" ->
                \E e \in DOMAIN latest.batch :
                    latest.batch[e] > 0 /\ e.golden /\ e.similarity < SimilarityThreshold

(***************************************************************************)
(* The diagnosis of a drifted batch names a subsystem, unless embeddings   *)
(* alone have drifted, and the one it names has a drifted signal of its    *)
(* own: a model is not blamed for refusals that worse retrieval explains.  *)
(***************************************************************************)
DiagnosisNamesADriftedSignal ==
    latest.kind = "batch" /\ adapter = "rag" =>
        LET signals == latest.verdict.signals
        IN  /\ latest.subsystem = "none" <=> signals \subseteq {"embedding"}
            /\ latest.subsystem = Retrieval => "retrieval" \in signals
            /\ latest.subsystem = Generation =>
                  "retrieval" \notin signals /\ signals \cap {"refusal", "citation_validity"} # {}
            /\ latest.subsystem = Operational => "generation_latency" \in signals

(***************************************************************************)
(* An event that the handler reports has the scores of a retrieval of its  *)
(* own chain that has ended since the last call of the chain did (a retry  *)
(* among them): of the latest, unless that gave no scores, and none only   *)
(* if no retrieval gave any.  Those of an earlier one then stand for the   *)
(* latest, which the handler's tests do not have.  It lacks its latency    *)
(* only if calls overlapped.  What is left in the table of a chain that is *)
(* over is a retrieval that no model call followed.                        *)
(***************************************************************************)
ScoresAreOf(scores, before) ==
    LET scored == before.found \ {<<>>}
    IN  /\ scores \in IF scored = {} THEN {<<>>} ELSE scored
        /\ before.context # <<>> => scores = before.context

EventsMatchTheirChain ==
    /\ latest.kind = "event" =>
          /\ ScoresAreOf(latest.event.scores, latest.before)
          /\ latest.event.generation = 0 => latest.before.overlapped
    /\ \A c \in Chains : ~chain[c].open /\ table[c] # NoEntry => ~table[c].started

(* What makes ks_retrieval_only the ablation that benchmark.py says it is: *)
(* its fixed alpha is no larger than the adapter's, and the adapter does   *)
(* not find a batch too small.                                             *)
KsIsAnAblation ==
    /\ RagCritical <= DefaultCritical
    /\ \A type \in DriftTypes : \A b \in Synthetic[type] : Size(b) >= RagMinEvents

(***************************************************************************)
(* All methods are counted on the same trials, and the full adapter misses *)
(* nothing that one of its ablations catches: they have no more true       *)
(* alarms, and no more false ones.  The retrieval test alone is among them *)
(* under the conditions of KsIsAnAblation only.                            *)
(***************************************************************************)
Ablations == AblatedSignals \cup (IF KsIsAnAblation THEN {"ks_retrieval_only"} ELSE {})

AblationOnlyLoses ==
    LET full == results["rag_adapter_full"]
    IN  \A method \in Methods :
            LET result == results[method]
            IN  /\ result.tp + result.fn = full.tp + full.fn
                /\ result.fp + result.tn = full.fp + full.tn
                /\ method \in Ablations => result.tp <= full.tp /\ result.fp <= full.fp

(***************************************************************************)
(* The recommended number of drifted checks brings the rate of false       *)
(* incidents down to the target and no smaller one does; if it does not,   *)
(* it is the maximum and says so.  Below the maximum it is called capped   *)
(* only if it meets the target exactly and is rounded up.                  *)
(***************************************************************************)
CalibrationMeetsItsTarget ==
    threshold.k > 0 =>
        LET Excess(k) == IF threshold.rate[1] = 0 THEN -1 ELSE Sign(threshold.rate, threshold.target, k)
        IN  /\ Excess(threshold.k) > 0 => threshold.k = MaxConsecutive /\ threshold.capped
            /\ \A k \in 1..(threshold.k - 1) : Excess(k) > 0
            /\ threshold.capped /\ threshold.k < MaxConsecutive => Excess(threshold.k) = 0
=============================================================================
