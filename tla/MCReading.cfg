SPECIFICATION Spec
CONSTANTS
    d1 = d1
    d2 = d2
    Docs = {d1, d2}
    Libraries <- MCLibraries
    AnswerReplies <- MCAnswerReplies
    ExtractionReplies <- MCExtractionReplies
    MaxAsked = 2
    Deletable = {d1}
    OldRows <- MCOldRows
    TopK = 2
    TopKPerDoc = 1
    MaxChars = 6
    MinChars = 3
    LowText = 2
    Stopwords = {"of", "is", "in"}
    OverlapPercent = 60
    MinContentWords = 3
    NoQuote = NoQuote
    NoDays = NoDays
INVARIANTS
    TypeOK
    ClausesCoverTheText
    EvidenceIsWhereItPoints
    ReviewIsBacked
    ComparisonMatchesTheScans
    HitsAreTheBest
    AnswersRestOnClauses
