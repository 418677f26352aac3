------------------------------ MODULE Chunking ------------------------------
(***************************************************************************)
(* From the pages of an uploaded contract to its clauses: extraction.py,   *)
(* document_quality.py and chunking.py of Sanad.                           *)
(*                                                                         *)
(* A line of text is a record with its length in characters (chars) and    *)
(* whether it looks like the start of a clause (head); what else the       *)
(* features read in it is in fields that are only carried along.  A line   *)
(* is one sentence.  Text is a sequence of lines, a chunk is the lines it  *)
(* consists of with its length; chunk number i of the code is chunk i + 1  *)
(* here.                                                                   *)
(***************************************************************************)
EXTENDS Naturals, Sequences, SequencesExt, Lists

CONSTANTS
    MaxChars,   \* config.chunk_max_chars
    MinChars,   \* config.chunk_min_chars
    LowText     \* LOW_TEXT_CHAR_THRESHOLD of document_quality.py

ASSUME ChunkingAssumption ==
    /\ MaxChars \in Nat \ {0}
    /\ MinChars \in 1..MaxChars
    /\ LowText \in Nat \ {0}

-----------------------------------------------------------------------------
(* Extraction.  A page has its native text and the text that OCR reads.    *)

IsScanned(page) == page.native = <<>>

PageText(page) == IF IsScanned(page) THEN page.scanned ELSE page.native

Chars(lines) ==
    SumFunction([i \in DOMAIN lines |-> lines[i].chars])
      + (IF lines = <<>> THEN 0 ELSE Len(lines) - 1)

TextOf(pages) == FlattenSeq([p \in DOMAIN pages |-> PageText(pages[p])])

PageQuality(page) ==
    [ocr |-> IsScanned(page), low |-> Chars(PageText(page)) < LowText]

(* DocumentQualityReport.summary, by what it tells the reader.  A row from *)
(* before pages were assessed has no details.                              *)
QualitySummary(pages, detailed) ==
    LET report == {PageQuality(pages[p]) : p \in DOMAIN pages}
        low == \E q \in report : q.low
        ocr == \E q \in report : q.ocr
    IN  CASE ~detailed                               -> "unavailable"
          [] detailed /\ pages = <<>>                -> "no pages"
          [] detailed /\ low                         -> "look at it"
          [] detailed /\ pages # <<>> /\ ocr /\ ~low -> "needed OCR"
          [] OTHER                                   -> "clean"

-----------------------------------------------------------------------------
(* Chunking. *)

ChunkOf(lines) == [lines |-> lines, chars |-> Chars(lines)]

NoChunk == ChunkOf(<<>>)

IsEmpty(chunk) == chunk.lines = <<>>

(* What is joined by a blank line is two characters longer. *)
Joined(chunk, next) ==
    IF IsEmpty(chunk) THEN next
    ELSE [lines |-> chunk.lines \o next.lines, chars |-> chunk.chars + 2 + next.chars]

(* A line goes to the last group, unless a clause starts with it. *)
Placed(raw, line) ==
    IF line.head \/ raw = <<>> THEN Append(raw, <<line>>)
    ELSE Append(Front(raw), Append(Last(raw), line))

SplitOnBoundaries(text) ==
    LET raw == FoldLeft(Placed, <<>>, text)
    IN  [i \in DOMAIN raw |-> ChunkOf(raw[i])]

(* A sentence goes to the current piece as long as that is not too long.   *)
Packed(st, sentence) ==
    IF st.current # <<>> /\ Chars(st.current) + sentence.chars + 1 > MaxChars
    THEN [pieces |-> Append(st.pieces, ChunkOf(st.current)), current |-> <<sentence>>]
    ELSE [st EXCEPT !.current = Append(@, sentence)]

SplitOversized(text) ==
    LET st == FoldLeft(Packed, [pieces |-> <<>>, current |-> <<>>], text)
    IN  IF st.current = <<>> THEN st.pieces ELSE Append(st.pieces, ChunkOf(st.current))

\* Mutant: a short tail is forgotten.
WithTail_Forgotten(merged, tail) == IF tail.chars < MinChars THEN merged ELSE Append(merged, tail)

(* The last clauses, if too short to stand alone, go with the ones before. *)
WithTail(merged, tail) ==
    IF IsEmpty(tail) THEN merged
    ELSE IF merged # <<>> /\ tail.chars < MinChars
         THEN Append(Front(merged), Joined(Last(merged), tail))
         ELSE Append(merged, tail)

Flushed(st) ==
    IF st.buffer.chars >= MinChars
    THEN [merged |-> Append(st.merged, st.buffer), buffer |-> NoChunk] ELSE st

(* Chunks are joined in the buffer until it is long enough. *)
Merged(st, chunk) ==
    LET candidate == Joined(st.buffer, chunk)
    IN  Flushed(CASE candidate.chars <= MaxChars -> [st EXCEPT !.buffer = candidate]
                  [] candidate.chars > MaxChars /\ IsEmpty(st.buffer) -> [st EXCEPT !.buffer = chunk]
                  [] OTHER -> [merged |-> Append(st.merged, st.buffer), buffer |-> chunk])

MergeUndersized(raw) ==
    LET st == FoldLeft(Merged, [merged |-> <<>>, buffer |-> NoChunk], raw)
    IN  WithTail(st.merged, st.buffer)

(* A chunk that is too long, in pieces. *)
Sized(chunk) == IF chunk.chars > MaxChars THEN SplitOversized(chunk.lines) ELSE <<chunk>>

ChunkDocument(text) ==
    LET raw == SplitOnBoundaries(text)
    IN  MergeUndersized(IF Len(raw) <= 1 THEN SplitOversized(text)
                        ELSE FlattenSeq([i \in DOMAIN raw |-> Sized(raw[i])]))

Heading(chunk) == ~IsEmpty(chunk) /\ Head(chunk.lines).head
=============================================================================
