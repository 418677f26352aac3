----------------------------- MODULE MCDetection -----------------------------
EXTENDS Detection

MCNoEmbedding == <<>>

Ev(grounded, citations, requested, scores, latency, embedding) ==
    [grounded |-> grounded, citations |-> citations, requested |-> requested, scores |-> scores,
     generation |-> latency, latency |-> latency, embedding |-> embedding]

Good == Ev(TRUE, 2, 2, <<1, 2>>, 1, <<2, "rent">>)
Missed == Ev(FALSE, 0, 0, <<3, 4>>, 1, <<2, "rent">>)
Slow == Ev(TRUE, 2, 2, <<1, 2>>, 4, <<2, "tax">>)
Fake == Ev(TRUE, 0, 2, <<1, 2>>, 1, <<3, "rent">>)

Samples == {[length |-> 1, age |-> 2], [length |-> 4, age |-> 2], [length |-> 4, age |-> 3]}

Answers == {[golden |-> TRUE, similarity |-> 100], [golden |-> TRUE, similarity |-> 20],
            [golden |-> FALSE, similarity |-> 0]}

MCKinds == [name \in {"rag", "live_telemetry", "classifier", "llm"} |->
               CASE name = "classifier" -> Samples
                 [] name = "llm" -> Answers
                 [] name = "live_telemetry" -> {Good, Missed, Slow}
                 [] OTHER -> {Good, Missed, Slow, Fake}]

Only(kinds, kind, n) == [e \in kinds |-> IF e = kind THEN n ELSE 0]

MCBaselines == [name \in DOMAIN MCKinds |->
                   CASE name = "classifier" -> {Only(Samples, [length |-> 1, age |-> 2], 3)}
                     [] name = "llm" -> {Only(Answers, [golden |-> TRUE, similarity |-> 100], 3)}
                     [] OTHER -> {Only(MCKinds[name], Good, n) : n \in {0, 3}}]

MCFeatures == {"length", "age"}

MCScoreLists == {<<>>, <<1, 2>>, <<3, 4, 4>>}

MCLatencies == {1}

(* Two noise vectors around a centre; a batch of four has each n times and *)
(* 4 - n times, its refusals with the first.                               *)
Noise(centre) == <<<<centre - 1, centre>>, <<centre, centre + 1>>>>

Drawn(grounded, centre, latency, valid) ==
    LET At(i) == Ev(TRUE, valid, 2, Noise(centre)[i], latency, MCNoEmbedding)
        refusal == Ev(FALSE, 0, 0, Noise(centre)[1], latency, MCNoEmbedding)
    IN  {[e \in {At(1), At(2), refusal} |->
             CASE e = At(1) -> n [] e = At(2) -> grounded - n [] OTHER -> 4 - grounded] : n \in 0..grounded}

MCDriftTypes == {"none", "retrieval", "refusal", "citation", "latency"}

MCSynthetic ==
    [type \in MCDriftTypes |->
        CASE type = "none"      -> Drawn(4, 2, 1, 2)
          [] type = "retrieval" -> Drawn(4, 4, 1, 2)
          [] type = "refusal"   -> Drawn(2, 2, 1, 2)
          [] type = "citation"  -> Drawn(4, 2, 1, 1)
          [] type = "latency"   -> Drawn(4, 2, 5, 2)]

(* The last one is refused.                                                *)
MCTargets == {<<1, 2>>, <<1, 9>>, <<1, 100>>, <<1, 1>>}

MCKsCritical == <<184, 219>>
=============================================================================
