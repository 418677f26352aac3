------------------------------ MODULE Contract ------------------------------
(***************************************************************************)
(* What Sanad reports about a contract: the rule-based scans (risk_flagger,*)
(* coverage, comparison), what a language model extracts and the code      *)
(* checks against the text (obligations, overview, summarizer), and what   *)
(* is put together from these (contradictions, review).                    *)
(*                                                                         *)
(* A line of text carries the rules and topics whose patterns it matches.  *)
(* A reply of the model is a record; its "form" says whether it parses:    *)
(* "object", "other" (JSON, but no object) or "prose"; a "none" has not    *)
(* come.                                                                   *)
(***************************************************************************)
EXTENDS Grounding

CONSTANT NoDays     \* no duration in a text

-----------------------------------------------------------------------------
(* Rule-based scans.                                                       *)

Risk(severity, rule) == [severity |-> severity, rule |-> rule]

RiskRules ==
    <<Risk("high", "unilateral_termination"), Risk("high", "termination_without_notice"),
      Risk("high", "penalty_multiplier"), Risk("high", "unilateral_change_of_terms"),
      Risk("high", "non_compete"), Risk("high", "deposit_forfeiture"),
      Risk("medium", "ip_assignment"), Risk("medium", "lock_in_period"), Risk("medium", "auto_renewal"),
      Risk("medium", "broad_indemnity"), Risk("medium", "liquidated_damages"),
      Risk("low", "maintenance_on_weaker_party"), Risk("low", "assignment_restriction")>>

CoverageCategories ==
    LET high == {"termination", "notice_period", "dispute_resolution", "payment"}
    IN  [topic \in high \cup {"confidentiality", "ip_ownership", "liability", "renewal", "governing_law"} |->
            IF topic \in high THEN "high" ELSE "medium"]

(* _NEGOTIATION_QUESTIONS has one for every rule but those of low severity.*)
NegotiationQuestions == {r.rule : r \in {RiskRules[i] : i \in 1..11}}

BySeverity(items) ==
    LET Of(s) == Kept(items, {x \in ToSet(items) : x.severity = s})
    IN  Of("high") \o Of("medium") \o Of("low")

RulesIn(chunk) == UNION {chunk.lines[i].rules : i \in DOMAIN chunk.lines}

TopicsIn(chunk) == UNION {chunk.lines[i].topics : i \in DOMAIN chunk.lines}

(* One finding per rule and clause. *)
FlagRisks(chunks) ==
    LET In(i) == Kept(RiskRules, {r \in ToSet(RiskRules) : r.rule \in RulesIn(chunks[i])})
        Found(i) == [k \in DOMAIN In(i) |->
                        [rule |-> In(i)[k].rule, severity |-> In(i)[k].severity, index |-> i]]
    IN  BySeverity(FlattenSeq([i \in DOMAIN chunks |-> Found(i)]))

Counts(findings) ==
    [s \in {"high", "medium", "low"} |-> Len(Kept(findings, {f \in ToSet(findings) : f.severity = s}))]

(* For each topic the first clause about it. *)
CheckCoverage(chunks) ==
    [topic \in DOMAIN CoverageCategories |->
        SelectInSeq(chunks, LAMBDA c : topic \in TopicsIn(c))]

NotFound(coverage) == {topic \in DOMAIN coverage : coverage[topic] = NoIndex}

\* Mutant: compared by clause as well.
CompareRiskReports_ByClause(a, b) ==
    LET Only(x, y) == {f.rule : f \in ToSet(x) \ ToSet(y)}
    IN  [counts_a |-> Counts(a), counts_b |-> Counts(b),
         only_in_a |-> Only(a, b), only_in_b |-> Only(b, a), shared |-> {f.rule : f \in ToSet(a) \cap ToSet(b)}]

(* Rules with the documents they fired in, by name only.                   *)
CompareRiskReports(a, b) ==
    LET Fired(findings) == {findings[i].rule : i \in DOMAIN findings}
    IN  [counts_a |-> Counts(a), counts_b |-> Counts(b),
         only_in_a |-> Fired(a) \ Fired(b), only_in_b |-> Fired(b) \ Fired(a),
         shared |-> Fired(a) \cap Fired(b)]

-----------------------------------------------------------------------------
(* What the model extracts.                                                *)

Categories == {"payment", "notice", "renewal", "termination",
               "deliverable", "confidentiality", "liability", "other"}

\* Mutant: the check against the text is left to the reader.
ParseObligations_Trusting(items, chunks, text) ==
    LET given == Kept(items, {item \in ToSet(items) : item.isObject})
    IN  [i \in DOMAIN given |->
            [duty |-> given[i].duty, deadline |-> given[i].deadline, quote |-> given[i].quote,
             category |-> given[i].category, grounded |-> TRUE, index |-> 1]]

(* One that repeats party and obligation of an earlier one is dropped,     *)
(* whatever it quotes.                                                     *)
AddNew(found, o) == IF \E i \in DOMAIN found : found[i].duty = o.duty THEN found ELSE Append(found, o)

ParseObligations(items, chunks, text) ==
    LET given == Kept(items, {item \in ToSet(items) : item.isObject})
        Obligation(item) ==
          LET evidence == FindEvidence(item.quote, chunks, text)
          IN  [duty |-> item.duty, deadline |-> item.deadline, quote |-> item.quote,
               category |-> IF item.category \in Categories THEN item.category ELSE "other",
               grounded |-> evidence.grounded, index |-> evidence.index]
    IN  FoldLeft(AddNew, <<>>, [i \in DOMAIN given |-> Obligation(given[i])])

Statuses == {"found", "not_found", "unclear", "insufficient_evidence"}

GroundField(entry, chunks, text) ==
    LET status == IF entry.status \in Statuses THEN entry.status ELSE "insufficient_evidence"
        claims == status \in {"found", "unclear"}
        evidence == FindEvidence(entry.quote, chunks, text)
    IN  CASE claims /\ evidence.grounded  -> [status |-> status, quote |-> entry.quote, index |-> evidence.index]
          [] claims /\ ~evidence.grounded -> [status |-> "insufficient_evidence", quote |-> NoQuote, index |-> NoIndex]
          [] ~claims                      -> [status |-> status, quote |-> NoQuote, index |-> NoIndex]

OverviewFields ==
    {"effective_date", "expiry_date", "duration", "renewal_terms", "payment_terms", "notice_period",
     "termination_conditions", "governing_law", "jurisdiction", "confidentiality", "ip_ownership",
     "non_compete", "liability", "indemnification", "dispute_resolution"}

(* Parties and major obligations; an entry that is only a text has no      *)
(* quote to check, and an empty one is dropped.                            *)
GroundItems(items, chunks, text) ==
    LET nonempty == Kept(items, {item \in ToSet(items) : item.duty.name # ""})
        QuoteOf(item) == IF item.isObject THEN item.quote ELSE NoQuote
        Grounded(item) ==
          LET evidence == FindEvidence(QuoteOf(item), chunks, text)
          IN  [duty |-> item.duty, quote |-> QuoteOf(item),
               grounded |-> evidence.grounded, index |-> evidence.index]
    IN  [i \in DOMAIN nonempty |-> Grounded(nonempty[i])]

ParseOverview(reply, chunks, text) ==
    LET none == [status |-> "", quote |-> NoQuote]
        Entry(f) == IF f \in DOMAIN reply.fields THEN reply.fields[f] ELSE none
    IN  [fields |-> [f \in OverviewFields |-> GroundField(Entry(f), chunks, text)],
         obligations |-> GroundItems(reply.items, chunks, text)]

-----------------------------------------------------------------------------
(* What is put together from these reports.                                *)

CheckedCategories == {"notice", "renewal"}

(* The duration in the deadline, or else in the obligation itself; none    *)
(* and zero days are the same to the code's "or".                          *)
DaysOf(o) == IF o.deadline \in {NoDays, 0} THEN o.duty.days ELSE o.deadline

(* Clauses of one category that state different durations.                 *)
FindContradictions(obligations) ==
    LET timed == {obligations[i] : i \in {j \in DOMAIN obligations :
                    /\ obligations[j].category \in CheckedCategories
                    /\ obligations[j].grounded
                    /\ DaysOf(obligations[j]) # NoDays}}
        Entries(c) == {o \in timed : o.category = c}
        Conflict(c) == [category |-> c, days |-> {DaysOf(o) : o \in Entries(c)}, entries |-> Entries(c)]
    IN  {x \in {Conflict(c) : c \in CheckedCategories} : Cardinality(x.days) > 1}

(* Top issues are what is to be read first; the order among those of one   *)
(* severity and source is left out.                                        *)
BuildReview(risks, coverage, contradictions) ==
    LET Worse(findings, S) == {f \in ToSet(findings) : f.severity \in S}
        missing == {t \in NotFound(coverage) : CoverageCategories[t] = "high"}
    IN  [risks |-> Worse(risks, {"high"}), conflicts |-> contradictions, missing |-> missing,
         negotiable |-> Worse(risks, {"high", "medium"}),
         questions |-> {f.rule : f \in ToSet(risks)} \cap NegotiationQuestions,
         clarifications |-> NotFound(coverage)]
=============================================================================
