------------------------------- MODULE Reading -------------------------------
(***************************************************************************)
(* A user of Sanad reads contracts that may be deleted meanwhile: the      *)
(* endpoints of api/app.py for reports, comparisons and questions.  A      *)
(* report is computed in one step from the text of the row.  A question is *)
(* answered in several: look up the row, read the clauses from the vector  *)
(* store, rank them with a second read of it, ask the model, check the     *)
(* reply.  The result is shown until it is closed.                         *)
(***************************************************************************)
EXTENDS Contract, Answers

CONSTANTS
    Docs,
    Libraries,          \* contents of the database: functions from Docs to pages
    AnswerReplies,      \* what the model may reply to a question
    ExtractionReplies,  \* and to a request for obligations or an overview
    TopK,               \* config.retrieval_top_k
    TopKPerDoc,         \* top_k_per_doc of ask_across_documents
    MaxAsked,           \* bound: documents in one question
    OldRows,            \* of each library, which documents may be older than page_quality
    Deletable           \* bound: documents that are deleted in a run

(* What the patterns of the scans and the embedding model see in a line,   *)
(* and what a page is; see Contract and Grounding.                         *)
Line == [head : BOOLEAN, chars : Nat \ {0}, words : Seq(STRING),
         rules : SUBSET {RiskRules[i].rule : i \in DOMAIN RiskRules}, topics : SUBSET STRING]

Page == [native : Seq(Line), scanned : Seq(Line)]

(* What a reply extracts, and from where.                                  *)
Quotes == {NoQuote} \cup Seq(STRING)

Duty == [name : STRING, days : Nat \cup {NoDays}]

Item == [isObject : {TRUE}, duty : Duty, deadline : Nat \cup {NoDays}, category : STRING, quote : Quotes]
          \cup [isObject : {FALSE}, duty : Duty]

Citation == [type : {"int", "bool", "text", "other"}, n : Int]

ASSUME ReadingAssumption ==
    /\ TopK \in Nat \ {0} /\ TopKPerDoc \in Nat \ {0} /\ MaxAsked \in Nat \ {0} /\ Deletable \subseteq Docs
    /\ OldRows \in [Libraries -> SUBSET (SUBSET Docs)]
    /\ Libraries \subseteq [Docs -> Seq(Page)]
    /\ \A reply \in ExtractionReplies :
          /\ reply.items \in Seq(Item)
          /\ \A f \in DOMAIN reply.fields : reply.fields[f].quote \in Quotes
    /\ \A reply \in AnswerReplies : reply.citations \in Seq(Citation) /\ reply.claims \in Seq(Seq(Nat))

VARIABLES
    pages,      \* the uploaded files
    old,        \* documents whose row has no page_quality
    hybrid,     \* config.retrieval_mode, set at start
    rows,       \* documents in the database
    deleting,   \* documents whose deletion has begun
    index,      \* the vector store: clauses of each document
    asked,      \* the question being answered
    shown       \* the result on the screen

vars == <<pages, old, hybrid, rows, deleting, index, asked, shown>>

NoQuestion == [kind |-> "none", docs |-> <<>>, todo |-> <<>>, corpus |-> <<>>,
               dense |-> <<>>, sparse |-> <<>>, hits |-> <<>>]

Nothing == [kind |-> "nothing"]

Files == UNION {Range(library) : library \in Libraries}

TextIn == [file \in Files |-> TextOf(file)]

ClausesIn == [file \in Files |-> ChunkDocument(TextIn[file])]

Text(d) == TextIn[pages[d]]

Clauses(d) == ClausesIn[pages[d]]

Init ==
    /\ pages \in Libraries
    /\ old \in OldRows[pages]
    /\ hybrid \in BOOLEAN
    /\ rows = Docs
    /\ deleting = {}
    /\ index = [d \in Docs |-> Clauses(d)]
    /\ asked = NoQuestion
    /\ shown = Nothing

-----------------------------------------------------------------------------
(* delete_document of another request, at the stores that are read here.   *)

DeleteVectors(d) ==
    /\ d \in rows
    /\ deleting' = deleting \cup {d}
    /\ index' = [index EXCEPT ![d] = <<>>]
    /\ UNCHANGED <<pages, old, hybrid, rows, asked, shown>>

DeleteRow(d) ==
    /\ d \in deleting
    /\ rows' = rows \ {d}
    /\ UNCHANGED <<pages, old, hybrid, deleting, index, asked, shown>>

-----------------------------------------------------------------------------
(* Reports.                                                                *)

Show(result) ==
    /\ shown' = result
    /\ asked' = NoQuestion
    /\ UNCHANGED <<pages, old, hybrid, rows, deleting, index>>

MayOpen(ds) == shown = Nothing /\ asked = NoQuestion /\ ds \subseteq rows

GetScans(d) ==
    /\ MayOpen({d})
    /\ Show([kind |-> "scans", doc |-> d, risks |-> FlagRisks(Clauses(d)),
             coverage |-> CheckCoverage(Clauses(d)), quality |-> QualitySummary(pages[d], d \notin old),
             headings |-> [i \in DOMAIN Clauses(d) |-> Heading(Clauses(d)[i])]])

Compare(d, e) ==
    /\ MayOpen({d, e})
    /\ Show([kind |-> "comparison", docs |-> <<d, e>>,
             result |-> CompareRiskReports(FlagRisks(Clauses(d)), FlagRisks(Clauses(e)))])

(* Without a reply the request is answered 503; a reply that is no object  *)
(* ends in an exception that nobody catches.                               *)
Generated(reply, result) ==
    CASE reply.form = "none"  -> [kind |-> "error_503"]
      [] reply.form = "other" -> [kind |-> "error_500"]
      [] OTHER                -> result

(* A reply that does not parse gives an empty report that says so.         *)
Parsed(reply, result) == IF reply.form = "prose" THEN [kind |-> "parse_error"] ELSE result

GetOverview(d, reply) ==
    /\ MayOpen({d})
    /\ Show(Generated(reply, Parsed(reply,
               [kind |-> "overview", doc |-> d, result |-> ParseOverview(reply, Clauses(d), Text(d))])))

(* The review goes on with no obligations if their list does not parse.    *)
GetReview(d, reply) ==
    LET items == IF reply.form = "prose" THEN <<>> ELSE reply.items
        obligations == ParseObligations(items, Clauses(d), Text(d))
    IN  /\ MayOpen({d})
        /\ Show(Generated(reply,
                  [kind |-> "review", doc |-> d, obligations |-> obligations,
                   result |-> BuildReview(FlagRisks(Clauses(d)), CheckCoverage(Clauses(d)),
                                          FindContradictions(obligations))]))

(* A summary is the model's word, field by field.                          *)
Summarize(d, reply) ==
    /\ MayOpen({d})
    /\ Show(Generated(reply, Parsed(reply,
               [kind |-> "summary", doc |-> d, obligations |-> [i \in DOMAIN reply.items |-> reply.items[i].duty]])))

-----------------------------------------------------------------------------
(* Questions.                                                              *)

Top == IF asked.kind = "cross" THEN TopKPerDoc ELSE TopK

Begin(kind, ds) ==
    /\ MayOpen(ToSet(ds))
    /\ asked' = [NoQuestion EXCEPT !.kind = kind, !.docs = ds, !.todo = ds]
    /\ UNCHANGED <<pages, old, hybrid, rows, deleting, index, shown>>

AskChat(d) == Begin("chat", <<d>>)

AskScenario(d) == Begin("scenario", <<d>>)

\* Mutant: a question across documents may name one.
AskAcross_One(ds) == Begin("cross", ds)

AskAcross(ds) == Len(ds) >= 2 /\ Begin("cross", ds)

Retrieved(hits, dense, sparse) ==
    /\ asked' = [asked EXCEPT !.todo = Tail(@), !.hits = @ \o hits, !.corpus = <<>>,
                              !.dense = dense, !.sparse = sparse]
    /\ UNCHANGED <<pages, old, hybrid, rows, deleting, index, shown>>

DenseQuery ==
    /\ ~hybrid
    /\ asked.todo # <<>>
    /\ LET d == Head(asked.todo)
       IN  \E dense \in SetToSeqs(DOMAIN index[d]) :
              Retrieved(DenseHits(d, dense, Top), dense, <<>>)

(* _hybrid_query reads all clauses of the document ...                     *)
ReadCorpus ==
    /\ hybrid
    /\ asked.todo # <<>>
    /\ asked.corpus = <<>>
    /\ LET d == Head(asked.todo)
       IN  IF index[d] = <<>> THEN Retrieved(<<>>, <<>>, <<>>)
           ELSE /\ asked' = [asked EXCEPT !.corpus = index[d]]
                /\ UNCHANGED <<pages, old, hybrid, rows, deleting, index, shown>>

(* ... and then asks the vector store to rank what it still has of them.   *)
RankClauses ==
    /\ asked.corpus # <<>>
    /\ LET d == Head(asked.todo)
       IN  \E dense \in SetToSeqs(DOMAIN index[d]), sparse \in SetToSeqs(DOMAIN asked.corpus) :
              Retrieved(HybridHits(d, dense, sparse, Top), dense, sparse)

AllRetrieved(kind) == asked.kind = kind /\ asked.todo = <<>>

(* Without clauses the model is not asked.                                 *)
Result(reply, answer, trace) ==
    LET result == [kind |-> "answer", question |-> asked.kind, docs |-> asked.docs,
                   answer |-> answer, trace |-> trace]
    IN  IF asked.hits = <<>> THEN result ELSE Generated(reply, result)

AnswerOf(reply, parsed) == IF asked.hits = <<>> THEN NoContext ELSE parsed

AnswerChat(reply) ==
    LET answer == AnswerOf(reply, ParseChat(reply, asked.hits))
    IN  AllRetrieved("chat") /\ Show(Result(reply, answer, BuildTrace(answer, reply)))

AnswerScenario(reply) ==
    /\ AllRetrieved("scenario")
    /\ Show(Result(reply, AnswerOf(reply, ParseScenario(reply, asked.hits)), Nothing))

AnswerAcross(reply) ==
    /\ AllRetrieved("cross")
    /\ Show(Result(reply, AnswerOf(reply, ParseAcross(reply, asked.hits)), Nothing))

Close ==
    /\ shown # Nothing
    /\ shown' = Nothing
    /\ UNCHANGED <<pages, old, hybrid, rows, deleting, index, asked>>

Next ==
    \/ \E d \in Deletable : DeleteVectors(d) \/ DeleteRow(d)
    \/ \E d \in Docs : GetScans(d)
    \/ \E d, e \in Docs : Compare(d, e)
    \/ \E d \in Docs, reply \in ExtractionReplies :
          GetOverview(d, reply) \/ GetReview(d, reply) \/ Summarize(d, reply)
    \/ \E d \in Docs : AskChat(d) \/ AskScenario(d)
    \/ \E ds \in BoundedSeq(Docs, MaxAsked) : AskAcross(ds)
    \/ DenseQuery \/ ReadCorpus \/ RankClauses
    \/ \E reply \in AnswerReplies : AnswerChat(reply) \/ AnswerScenario(reply) \/ AnswerAcross(reply)
    \/ Close

Spec == Init /\ [][Next]_vars

-----------------------------------------------------------------------------
(* Properties.                                                             *)

Hit == [doc : Docs, index : Nat \ {0}, measured : BOOLEAN]

(* What may be asked of how many documents, and what the answer is made of.*)
TypeOK ==
    /\ pages \in Libraries /\ old \subseteq Docs /\ hybrid \in BOOLEAN
    /\ rows \subseteq Docs /\ deleting \subseteq Docs
    /\ \A d \in Docs : \A i \in DOMAIN index[d] : index[d][i].chars \in Nat
    /\ asked.kind \in {"none", "chat", "scenario", "cross"}
    /\ Len(asked.docs) \in CASE asked.kind = "none" -> {0} [] asked.kind = "cross" -> 2..MaxAsked [] OTHER -> {1}
    /\ asked.todo \in BoundedSeq(Docs, MaxAsked) /\ ToSet(asked.hits) \subseteq Hit
    /\ shown.kind \in {"nothing", "scans", "comparison", "overview", "review", "summary",
                       "parse_error", "error_500", "error_503", "answer"}

(***************************************************************************)
(* Chunking loses no line of a contract and reorders none, whatever is     *)
(* merged and split; a clause outgrows the maximum only by a tail below    *)
(* the minimum or by a single long sentence.  A page that contributes no   *)
(* text makes the quality report say so, unless the row is too old to have *)
(* one, and a document that is called clean is read as it was written.     *)
(***************************************************************************)
ClausesCoverTheText ==
    /\ \A d \in Docs : index[d] # <<>> =>
          LET Lines(i) == index[d][i].lines
              longest == Max({Text(d)[i].chars : i \in DOMAIN Text(d)} \cup {MaxChars})
          IN  /\ FlattenSeq([i \in DOMAIN index[d] |-> Lines(i)]) = Text(d)
              /\ \A i \in DOMAIN index[d] :
                    Lines(i) # <<>> /\ index[d][i].chars <= longest + MinChars + 1
    /\ shown.kind = "scans" =>
          LET file == pages[shown.doc]
          IN  /\ (\E p \in DOMAIN file : PageText(file[p]) = <<>>)
                    => shown.quality = "look at it" \/ shown.doc \in old
              /\ shown.quality = "clean"
                    => Text(shown.doc) = FlattenSeq([p \in DOMAIN file |-> file[p].native])

Quoted ==
    CASE shown.kind = "review"   -> {o \in ToSet(shown.obligations) : o.grounded}
      [] shown.kind = "overview" ->
            {o \in ToSet(shown.result.obligations) : o.grounded}
              \cup {f \in {shown.result.fields[k] : k \in OverviewFields} :
                       f.status \in {"found", "unclear"}}
      [] OTHER -> {}

\* White space, which normalisation leaves nothing of.
IsBlank(quote) == quote = <<>>

\* Words of the text say what the quote says.
Supports(o, words) == ~IsBlank(o.quote) /\ (IsIn(o.quote, words) \/ Overlaps(o.quote, words))

(***************************************************************************)
(* A report presents as grounded only what it quotes, and the clause to    *)
(* which it sends the reader supports the quote: it is the first with it   *)
(* word for word if there is one.  Without a clause the document as a      *)
(* whole supports it.  A quote of white space is the exception: the code   *)
(* takes it for evidence, against what overview.py and obligations.py say. *)
(***************************************************************************)
EvidenceIsWhereItPoints ==
    \A o \in Quoted :
        LET clauses == Clauses(shown.doc)
            Words(i) == WordsOf(clauses[i].lines)
        IN  /\ o.quote # NoQuote
            /\ ~IsBlank(o.quote) =>
                  /\ o.index # NoIndex => /\ o.index \in DOMAIN clauses
                                          /\ Supports(o, Words(o.index))
                  /\ o.index = NoIndex => Supports(o, WordsOf(Text(shown.doc)))
                  /\ \A i \in DOMAIN clauses : IsIn(o.quote, Words(i)) => o.index \in 1..i

(***************************************************************************)
(* Each item of a review can be traced to the text: a conflict to two      *)
(* obligations of one category with different durations whose quotes the   *)
(* text supports, unless they are blank, which counts as text; a missing   *)
(* topic to no line; and no high risk in any line is left out.  Every risk *)
(* worth negotiating has its question.                                     *)
(***************************************************************************)
ReviewIsBacked ==
    shown.kind = "review" =>
        LET text == Text(shown.doc)
            rules == UNION {text[i].rules : i \in DOMAIN text}
            topics == UNION {text[i].topics : i \in DOMAIN text}
        IN  /\ \A c \in shown.result.conflicts : \E o, p \in c.entries :
                  /\ DaysOf(o) # DaysOf(p)
                  /\ \A q \in {o, p} :
                        q.quote # NoQuote /\ (IsBlank(q.quote) \/ Supports(q, WordsOf(text)))
            /\ shown.result.missing \cap topics = {}
            /\ {f.rule : f \in shown.result.risks}
                  = rules \cap {RiskRules[i].rule : i \in {j \in DOMAIN RiskRules : RiskRules[j].severity = "high"}}
            /\ {f.rule : f \in shown.result.negotiable} = shown.result.questions

(***************************************************************************)
(* Comparing two contracts says of each rule what scanning each of them    *)
(* says, however often and in whichever clauses it matches.                *)
(***************************************************************************)
ComparisonMatchesTheScans ==
    shown.kind = "comparison" =>
        LET Rules(d) == UNION {Text(d)[i].rules : i \in DOMAIN Text(d)}
            a == Rules(shown.docs[1])
            b == Rules(shown.docs[2])
        IN  shown.result.only_in_a = a \ b /\ shown.result.only_in_b = b \ a /\ shown.result.shared = a \cap b

(***************************************************************************)
(* The clauses put before the model are distinct and the best: none that   *)
(* is left out is ranked before one of them by words and by meaning alike. *)
(* A distance is made up only if a deletion came between the two reads of  *)
(* the vector store.                                                       *)
(***************************************************************************)
HitsAreTheBest ==
    asked.sparse # <<>> =>
        LET n == Min({Top, Len(asked.sparse)})
            latest == SubSeq(asked.hits, Len(asked.hits) - n + 1, Len(asked.hits))
            taken == {latest[i].index : i \in DOMAIN latest}
            Rank(s, x) == SelectInSeq(s, LAMBDA y : y = x)
            Ahead(s, x, y) == s = <<>> \/ Rank(s, x) < Rank(s, y)
        IN  /\ Cardinality(taken) = n
            /\ \A x \in ToSet(asked.sparse) \ taken, y \in taken :
                  ~(Ahead(asked.dense, x, y) /\ Ahead(asked.sparse, x, y))
            /\ \A i \in DOMAIN latest : latest[i].measured \/ latest[i].doc \in deleting

(***************************************************************************)
(* An answer shown as grounded cites clauses that were retrieved from the  *)
(* documents it was asked of; what is no such answer cites nothing.  Of    *)
(* the citations asked for, no more count than there were, and a claim is  *)
(* supported only by a clause that the answer cites.                       *)
(***************************************************************************)
AnswersRestOnClauses ==
    shown.kind = "answer" =>
        LET answer == shown.answer
            indices == {answer.cited[i].index : i \in DOMAIN answer.cited}
        IN  /\ answer.grounded <=> answer.cited # <<>>
            /\ answer.grounded => answer.own
            /\ ToSet(answer.cited) \subseteq ToSet(answer.retrieved)
            /\ {h.doc : h \in ToSet(answer.retrieved)} \subseteq ToSet(shown.docs)
            /\ Len(answer.cited) <= answer.requested
            /\ shown.question = "chat" =>
                  /\ \A i \in DOMAIN shown.trace.claims : shown.trace.claims[i].index \in indices
                  /\ shown.trace.grounding[1] <= shown.trace.grounding[2]
                  /\ \A i \in DOMAIN shown.trace.retrieval :
                        shown.trace.retrieval[i].cited <=> shown.trace.retrieval[i].index \in indices
=============================================================================
