-------------------------------- MODULE Adapters --------------------------------
(***************************************************************************)
(* The adapters: how a batch is judged against a baseline.  Nothing that   *)
(* is computed depends on the order of a batch, so a batch says how many   *)
(* events it has of each kind.  A verdict is the set of drifted signals    *)
(* and whether the batch as a whole drifted.                               *)
(***************************************************************************)
EXTENDS Detectors, Sequences

CONSTANTS
    RagMinEvents, TelemetryMinEvents,
    RagCritical,                          \* critical value of a KS test at config.rag_alpha
    Bonferroni,                           \* config.classifier_bonferroni_correction
    RefusalTolerance, CitationTolerance,  \* in hundredths
    LatencyMultiplier,                    \* in tenths
    FeatureFraction, SimilarityThreshold, \* in hundredths
    NoEmbedding

ASSUME AdaptersAssumption ==
    /\ RagMinEvents \in Nat \ {0, 1} /\ TelemetryMinEvents \in Nat \ {0}
    /\ RagCritical \in Nat /\ Bonferroni \in BOOLEAN
    /\ RefusalTolerance \in Nat /\ CitationTolerance \in Nat /\ LatencyMultiplier \in Nat \ 0..9
    /\ FeatureFraction \in 1..100 /\ SimilarityThreshold \in 0..100

(* The sum of a number per event over a batch, and the number of events of *)
(* certain kinds.                                                          *)
Total(batch, amount) == SumFunction([e \in DOMAIN batch |-> batch[e] * amount[e]])

Counted(batch, kinds) == SumFunctionOnSet(batch, kinds)

Times(scores, v) == Cardinality({i \in DOMAIN scores : scores[i] = v})

Verdict(signals) == [signals |-> signals, drifted |-> signals # {}]

Extract(batch) ==
    [n       |-> Size(batch),
     scores  |-> [v \in Values |-> Total(batch, [e \in DOMAIN batch |-> Times(e.scores, v)])],
     latency |-> [v \in Values |-> Counted(batch, {e \in DOMAIN batch : e.generation = v})],
     vectors |-> [v \in {e.embedding : e \in DOMAIN batch} \ {NoEmbedding} |->
                     Counted(batch, {e \in DOMAIN batch : e.embedding = v})],
     refused |-> Counted(batch, {e \in DOMAIN batch : ~e.grounded}),
     valid   |-> Total(batch, [e \in DOMAIN batch |-> e.citations]),
     asked   |-> Total(batch, [e \in DOMAIN batch |-> e.requested])]

RagSignals == {"retrieval", "generation_latency", "refusal", "citation_validity", "embedding"}

AtLeastOne(n) == IF n = 0 THEN 1 ELSE n

\* Mutant: the minimum of events is asked of the batch alone.
RagEnough_BatchOnly(baseline, batch) == Size(batch) >= RagMinEvents

RagEnough(baseline, batch) == Size(batch) >= RagMinEvents /\ Size(baseline) >= RagMinEvents

RagCheck(baseline, batch, found) ==
    LET b == Extract(baseline)
        c == Extract(batch)
        Moved(signal) ==
            CASE signal = "retrieval" ->
                    KsTest(b.scores, c.scores, RagCritical) \/ WassersteinDistance(b.scores, c.scores)
              [] signal = "generation_latency" -> KsTest(b.latency, c.latency, RagCritical)
              [] signal = "refusal" -> TwoProportionZTest(b.refused, b.n, c.refused, c.n)
              [] signal = "citation_validity" ->
                    TwoProportionZTest(b.valid, AtLeastOne(b.asked), c.valid, AtLeastOne(c.asked))
              [] signal = "embedding" -> EmbeddingDrift(b.vectors, c.vectors, found)
    IN  Verdict({signal \in RagSignals : RagEnough(baseline, batch) /\ Moved(signal)})

(* round() takes a half to the even number.                                *)
Round(hundredths) ==
    LET low == hundredths \div 100
        rest == hundredths % 100
    IN  IF rest < 50 \/ (rest = 50 /\ low % 2 = 0) THEN low ELSE low + 1

P95(s) ==
    LET rank == Round(95 * Size(s) + 50)
    IN  IF Size(s) = 0 THEN 0 ELSE Ordered(s, Max({1, Min({Size(s), rank})}))

Metrics(batch) ==
    [n       |-> Size(batch),
     refused |-> Counted(batch, {e \in DOMAIN batch : ~e.grounded}),
     cited   |-> Counted(batch, {e \in DOMAIN batch : e.citations > 0}),
     latency |-> P95([v \in Values |-> Counted(batch, {e \in DOMAIN batch : e.latency = v})])]

(* a / m is above b / n by more than a tolerance in hundredths; the rate   *)
(* of no event is 0.                                                       *)
Above(a, m, b, n, tolerance) ==
    100 * (a * AtLeastOne(n) - b * AtLeastOne(m)) > tolerance * AtLeastOne(m) * AtLeastOne(n)

LiveSignals == {"refusal rate", "citation rate", "latency p95"}

LiveCheck(baseline, batch) ==
    LET b == Metrics(baseline)
        c == Metrics(batch)
        Worse(signal) ==
            CASE signal = "refusal rate"  -> Above(c.refused, c.n, b.refused, b.n, RefusalTolerance)
              [] signal = "citation rate" -> Above(b.cited, b.n, c.cited, c.n, CitationTolerance)
              [] signal = "latency p95"   -> b.latency > 0 /\ 10 * c.latency > LatencyMultiplier * b.latency
    IN  Verdict({signal \in LiveSignals : c.n >= TelemetryMinEvents /\ Worse(signal)})

(* Features that the batch lacks are not tested, and the significance      *)
(* level may be divided by the number of those that are.                   *)
ClassifierCheck(baseline, batch, comparable) ==
    LET Sample(b, f) == [v \in Values |-> Counted(b, {e \in DOMAIN b : e[f] = v})]
        critical == KsCritical[IF Bonferroni THEN Cardinality(comparable) ELSE 1]
        signals == {f \in comparable : KsSignificant(Sample(baseline, f), Sample(batch, f), critical)}
    IN  [signals |-> signals,
         drifted |-> comparable # {} /\ 100 * Cardinality(signals) >= FeatureFraction * Cardinality(comparable)]

(* Answers to prompts that are not in the golden set are skipped.          *)
LlmCheck(batch) ==
    LET matched == Counted(batch, {e \in DOMAIN batch : e.golden})
        similarity == Total(batch, [e \in DOMAIN batch |-> IF e.golden THEN e.similarity ELSE 0])
    IN  [signals |-> {e \in DOMAIN batch : batch[e] > 0 /\ e.golden /\ e.similarity < SimilarityThreshold},
         drifted |-> matched > 0 /\ similarity < SimilarityThreshold * matched]
=============================================================================
