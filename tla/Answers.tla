------------------------------ MODULE Answers ------------------------------
(***************************************************************************)
(* How Sanad answers a question: the ranking of clauses                    *)
(* (hybrid_retrieval.py, vector_store.py), the check of the citations in   *)
(* the model's reply (chatbot.py, scenario.py, cross_document.py) and the  *)
(* trace of the answer (trace.py).  How near a clause is to a question and *)
(* how similar a sentence is to a clause is for the embedding model to say.*)
(***************************************************************************)
EXTENDS Naturals, Sequences, SequencesExt, Lists

-----------------------------------------------------------------------------
(* Reciprocal rank fusion.                                                 *)

K == 60

\* Mutant: ranks are not turned around, so that the last is best.
Score_Ascending(item, rankings) ==
    [num |-> FoldLeft(LAMBDA sum, r : sum + SelectInSeq(r, LAMBDA x : x = item), 0, rankings), den |-> 1]

(* The sum of 1 / (K + rank) over the rankings with the item, as a         *)
(* fraction.                                                               *)
Added(item, sum, ranking) ==
    IF ~Contains(ranking, item) THEN sum
    ELSE LET d == K + SelectInSeq(ranking, LAMBDA x : x = item)
         IN  [num |-> sum.num * d + sum.den, den |-> sum.den * d]

Score(item, rankings) ==
    FoldLeft(LAMBDA sum, ranking : Added(item, sum, ranking), [num |-> 0, den |-> 1], rankings)

(* Items by score; of two with the same score the one met first is first.  *)
Fused(rankings) ==
    LET met == FlattenSeq(rankings)
        items == ToSet(met)
        score == [x \in items |-> Score(x, rankings)]
        Met(x) == SelectInSeq(met, LAMBDA y : y = x)
        Value(x, y) == score[x].num * score[y].den
        Before(x, y) == Value(x, y) > Value(y, x) \/ (Value(x, y) = Value(y, x) /\ Met(x) < Met(y))
    IN  [k \in 1..Cardinality(items) |->
            CHOOSE x \in items : Cardinality({y \in items : Before(y, x)}) = k - 1]

UpTo(n, s) == SubSeq(s, 1, Min({n, Len(s)}))

(* The clauses the prompt holds.  A distance that the dense ranking does   *)
(* not give is made up.                                                    *)
HybridHits(doc, dense, sparse, top) ==
    LET fused == UpTo(top, Fused(<<dense, sparse>>))
    IN  [i \in DOMAIN fused |-> [doc |-> doc, index |-> fused[i], measured |-> Contains(dense, fused[i])]]

DenseHits(doc, dense, top) ==
    LET nearest == UpTo(top, dense)
    IN  [i \in DOMAIN nearest |-> [doc |-> doc, index |-> nearest[i], measured |-> TRUE]]

-----------------------------------------------------------------------------
(* The reply.  A citation is a JSON value: an "int", a "bool" (which is an *)
(* int to Python), a "text" of digits, each with its number, or "other".   *)

Refusal(hits, requested, parseError) ==
    [grounded |-> FALSE, own |-> FALSE, cited |-> <<>>, retrieved |-> hits,
     requested |-> requested, parseError |-> parseError]

NoContext == Refusal(<<>>, 0, FALSE)

Cited(citations, types, hits) ==
    LET valid == Kept(citations, {c \in ToSet(citations) : c.type \in types /\ c.n \in DOMAIN hits})
    IN  [i \in DOMAIN valid |-> hits[valid[i].n]]

(* The model's word for it does not count: what it cites does.             *)
ParseAnswer(reply, types, hits) ==
    LET cited == Cited(reply.citations, types, hits)
        requested == Len(reply.citations)
    IN  CASE reply.form = "prose" -> Refusal(hits, 0, TRUE)
          [] reply.form # "prose" /\ reply.claimsGrounded /\ cited = <<>> -> Refusal(hits, requested, FALSE)
          [] OTHER -> [Refusal(hits, requested, FALSE) EXCEPT
                          !.grounded = cited # <<>>, !.own = TRUE, !.cited = cited]

ParseChat(reply, hits) == ParseAnswer(reply, {"int", "bool"}, hits)

ParseScenario(reply, hits) == ParseAnswer(reply, {"int", "text"}, hits)

ParseAcross(reply, hits) == ParseAnswer(reply, {"int", "bool"}, hits)

-----------------------------------------------------------------------------
(* The trace.  A claim is a sentence of the answer, given as its           *)
(* similarity to each clause, in percent.                                  *)

Verdict(similarity) ==
    CASE similarity >= 55 -> "supported"
      [] similarity < 55 /\ similarity >= 35 -> "partial"
      [] OTHER -> "unsupported"

(* The best evidence for a claim; of two as good the first.                *)
Better(claim, pool, best, i) ==
    IF best = 0 \/ claim[pool[i].index] > claim[pool[best].index] THEN i ELSE best

VerifyClaim(claim, pool) ==
    LET best == FoldLeftDomain(LAMBDA found, i : Better(claim, pool, found, i), 0, pool)
    IN  [status |-> Verdict(claim[pool[best].index]), index |-> pool[best].index]

\* Mutant: what was retrieved is evidence, cited or not.
EvidencePool_Retrieved(answer) == answer.retrieved

EvidencePool(answer) == IF answer.cited # <<>> THEN answer.cited ELSE answer.retrieved

Credit(claims) ==
    LET Weight(status) == CASE status = "supported" -> 2 [] status = "partial" -> 1 [] OTHER -> 0
    IN  SumFunction([i \in DOMAIN claims |-> Weight(claims[i].status)])

(* Scores are fractions <<of, total>>, with total 0 for None.              *)
BuildTrace(answer, reply) ==
    LET claims == IF answer.grounded /\ answer.own
                  THEN [i \in DOMAIN reply.claims |-> VerifyClaim(reply.claims[i], EvidencePool(answer))]
                  ELSE <<>>
        citedIndices == {answer.cited[i].index : i \in DOMAIN answer.cited}
    IN  [retrieval |-> [i \in DOMAIN answer.retrieved |->
                           [index |-> answer.retrieved[i].index, measured |-> answer.retrieved[i].measured,
                            cited |-> answer.retrieved[i].index \in citedIndices]],
         claims |-> claims,
         grounding |-> <<Credit(claims), 2 * Len(claims)>>,
         citation |-> <<Len(answer.cited), answer.requested>>]
=============================================================================
