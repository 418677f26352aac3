----------------------------- MODULE Grounding -----------------------------
(***************************************************************************)
(* sanad/features/grounding.py: does the text of a contract support what a *)
(* language model quotes from it, and in which clause?  Text is a sequence *)
(* of words; normalisation of case and white space and the division into   *)
(* words is done.  A quote is a sequence of words or NoQuote; the empty    *)
(* sequence is a quote that consists of white space.                       *)
(***************************************************************************)
EXTENDS Chunking

CONSTANTS
    Stopwords,          \* _STOPWORDS: words that do not count as content
    OverlapPercent,     \* OVERLAP_THRESHOLD
    MinContentWords,    \* MIN_CONTENT_WORDS
    NoQuote             \* None, or the empty string

ASSUME GroundingAssumption ==
    /\ OverlapPercent \in 1..100
    /\ MinContentWords \in Nat

NoIndex == 0    \* None in the code: grounded, but in no single clause

Ungrounded == [grounded |-> FALSE, index |-> NoIndex]

WordsOf(lines) == FlattenSeq([i \in DOMAIN lines |-> lines[i].words])

ContentWords(words) == Kept(words, ToSet(words) \ Stopwords)

Matched(quote, words) ==
    LET content == ContentWords(quote)
    IN  Cardinality({i \in DOMAIN content : content[i] \in ToSet(ContentWords(words))})

Overlaps(quote, words) ==
    LET content == Len(ContentWords(quote))
    IN  /\ content >= MinContentWords
        /\ content > 0
        /\ Matched(quote, words) * 100 >= OverlapPercent * content

IsIn(quote, words) == quote \in SubSeqs(words)

(* The clauses that share most words with the quote. *)
\* Mutant: the index is that of the last clause looked at.
Closest_LastLookedAt(quote, words) == {Len(words)}

Closest(quote, words) ==
    {i \in DOMAIN words : \A j \in DOMAIN words : Matched(quote, words[j]) <= Matched(quote, words[i])}

(* The first clause with the quote, else the closest one if it is close    *)
(* enough, else the document as a whole.                                   *)
FindEvidence(quote, chunks, text) ==
    LET words == [i \in DOMAIN chunks |-> WordsOf(chunks[i].lines)]
        exact == {i \in DOMAIN chunks : IsIn(quote, words[i])}
        close == IF \E i \in DOMAIN chunks : Overlaps(quote, words[i]) THEN Closest(quote, words) ELSE {}
        whole == IsIn(quote, WordsOf(text)) \/ Overlaps(quote, WordsOf(text))
    IN  CASE quote = NoQuote -> Ungrounded
          [] quote # NoQuote /\ exact # {} -> [grounded |-> TRUE, index |-> Min(exact)]
          [] quote # NoQuote /\ exact = {} /\ close # {} -> [grounded |-> TRUE, index |-> Min(close)]
          [] OTHER -> [grounded |-> whole, index |-> NoIndex]
=============================================================================
