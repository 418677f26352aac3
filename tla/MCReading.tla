----------------------------- MODULE MCReading -----------------------------
(***************************************************************************)
(* TLC instance of Reading.  Lengths are scaled down to a maximum of six   *)
(* characters a clause and a minimum of three; one contract is any of a    *)
(* family of texts, the other one a scan of two pages.                     *)
(***************************************************************************)
EXTENDS Reading

CONSTANTS d1, d2

Plain(head, chars, words) == [head |-> head, chars |-> chars, words |-> words, rules |-> {}, topics |-> {}]

Termination ==
    [Plain(TRUE, 3, <<"notice", "of", "sixty", "days">>) EXCEPT
        !.rules = {"unilateral_termination"}, !.topics = {"termination", "notice_period"}]
LockIn ==
    [Plain(TRUE, 4, <<"lock", "in", "period">>) EXCEPT
        !.rules = {"lock_in_period", "assignment_restriction"}]
Rent == [Plain(FALSE, 1, <<"rent", "is", "monthly">>) EXCEPT !.topics = {"payment"}]
Long == [Plain(FALSE, 7, <<"notice", "of", "thirty", "days">>) EXCEPT !.rules = {"unilateral_termination"}]

LineKinds == {Termination, LockIn, Rent, Long}

PageOf(native, scanned) == [native |-> native, scanned |-> scanned]

Scan == <<PageOf(<<LockIn, Rent>>, <<>>), PageOf(<<>>, <<Long>>)>>

Texts ==
    [1..2 -> LineKinds] \cup [1..3 -> {Termination, LockIn, Long}]
      \cup {<<>>, <<Termination, LockIn, Rent, Rent>>}

BlankPage == <<PageOf(<<Termination, LockIn>>, <<>>), PageOf(<<>>, <<>>)>>

MCLibraries ==
    {d1 :> <<PageOf(text, <<>>)>> @@ d2 :> Scan : text \in Texts}
      \cup {d1 :> file @@ d2 :> <<>> : file \in {<<PageOf(<<Termination, LockIn>>, <<>>)>>, BlankPage}}

\* Old or not: the contract with a blank page.
MCOldRows == [library \in MCLibraries |-> SUBSET {d \in {d1} : library[d] = BlankPage}]

GiveNotice == [name |-> "give notice", days |-> 30]
Leave == [name |-> "leave", days |-> NoDays]

ItemOf(duty, deadline, category, quote) ==
    [isObject |-> TRUE, duty |-> duty, deadline |-> deadline, category |-> category, quote |-> quote]

NotAnItem == [isObject |-> FALSE, duty |-> [name |-> "", days |-> NoDays]]

Verbatim == <<"notice", "of", "sixty", "days">>
Nearly == <<"notice", "thirty", "days">>
Straddling == <<"period", "rent">>
Invented == <<"rent", "is", "weekly", "payable">>

First == {ItemOf(GiveNotice, n, "notice", q) : n \in {NoDays, 0}, q \in {<<>>, Verbatim, Nearly}}
Second ==
    {ItemOf(Leave, 60, "notice", q) : q \in {NoQuote, Verbatim, Straddling, Invented}}
      \cup {ItemOf(GiveNotice, 60, "notice", Verbatim), ItemOf(Leave, 60, "gift", Verbatim)}

Reply(form, items, fields) == [form |-> form, items |-> items, fields |-> fields]

Fields == {[status |-> s, quote |-> q] : s \in {"found", "not_found", "surely"}, q \in {NoQuote, Verbatim, Invented, <<>>}}

MCExtractionReplies ==
    {Reply("object", <<i, j>>, [f \in {} |-> 0]) : i \in First, j \in Second}
      \cup {Reply("object", <<NotAnItem>>, [f \in {"notice_period"} |-> e]) : e \in Fields}
      \cup {Reply(form, <<>>, [f \in {} |-> 0]) : form \in {"prose", "other", "none"}}

CitationOf(type, n) == [type |-> type, n |-> n]

Claims == << <<60, 40, 20, 20>>, <<20, 40, 60, 60>> >>

MCAnswerReplies ==
    {[form |-> "object", claimsGrounded |-> g, claims |-> Claims, citations |-> c] :
        g \in BOOLEAN,
        c \in {<<>>, <<CitationOf("int", 2), CitationOf("int", 1)>>, <<CitationOf("int", 1), CitationOf("int", 9)>>,
               <<CitationOf("bool", 1), CitationOf("text", 1)>>, <<CitationOf("other", 0)>>}}
      \cup {[form |-> form, claimsGrounded |-> FALSE, claims |-> <<>>, citations |-> <<>>] :
               form \in {"prose", "other", "none"}}
=============================================================================
