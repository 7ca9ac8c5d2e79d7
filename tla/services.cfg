SPECIFICATION Spec
CONSTANTS
    Chars = {"=", "C", " "}
    Blank = " "
    Marker <- MCMarker
    MaxText = 5
    MaxDelta = 2
    QuotaHook = TRUE
    MaxFaults = 2
    Sources = {"S1", "S2"}
    OwnSources = {"S1"}
    Unknown = "S9"
    MaxCitations = 1
    Clients = {"tab", "app"}
    ContentOf <- MCContentOf
    SizeOf <- MCSizeOf
    Apps = {"app"}
    Viewers = {"tab"}
    NoKey = NoKey
    MaxDocuments = 2
    StorageQuota = 2
    MaxTries = 2
    MaxLosses = 1
    Lines <- MCLines
    BlankLine = ""
    Size <- MCSize
    PageNumbers = {"p1"}
    SentenceEnds = {"tiny", "half", "long", "wide"}
    Listed = {}
    Numbered = {"sub"}
    Words <- MCWords
    HeadingChars = 4
    HeadingWords = 8
    RunningPages = 3
    CJK = {"wide"}
    Depth <- MCDepth
    CharsPerToken = 2
    TargetTokens = 4
    MaxTokens = 5
    OverlapTokens = 2
    MinTokens = 2
    MaxChunks = 4
    Documents <- MCDocuments
    MaxPages = 3
    EmbedBatchSize = 2
    SmallDocTokens = 6
    SectionTokens = 9
    NoError = NoError
    Passages <- MCPassages
    CandidateLimit = 4
    MaxSources = 2
    ContextBudget = 4
    HistoryBudget = 2
    Histories <- MCHistories
    Quotes <- MCQuotes
    Folded <- MCFolded
    Blanks = {" "}
    Corpus <- MCCorpus
    EvalCases <- MCEvalCases
    SmallK = 1
    LargeK = 2
    MaxBreaks = 2
INVARIANTS
    AnswerSound
    IngestSound
    EvidenceSound
    UploadsAccounted
PROPERTIES
    EventsTellOutcome
    ProcessedOnce
    RequestsEnd
CHECK_DEADLOCK FALSE
