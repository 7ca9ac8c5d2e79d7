SPECIFICATION Spec
CONSTANTS
    Capacity = 2
    RefillTokens = 2
    Interval = 3
    Second = 2
    Instances = {"slow", "fast"}
    Offset <- MCOffset
    MaxTime = 8
    MaxCalls = 5
    Phones = {"pia", "quin"}
    Nobody = "nobody"
    MaxTurns = 1
    Signers <- MCSigners
    Absent = "absent"
    Platforms = {"ios", "android"}
    MaxTokens = 2
    MaxMoments = 2
    Notices = {"n1"}
    MaxEvents = 2
    PageSize = 2
    PageCap = 4
    Earlier = 2
    MaxQuestions = 1
    MaxTroubles <- MCTroubles
    Papers = {"p1", "p2"}
    Nothing = "nothing"
    MaxTrips <- MCTrips
    Apps = {"web", "ios", "android"}
    Addresses = {"ann", "ben"}
    Registered = {"ann"}
    NoAddress = "nobody"
    MaxLogins <- MCLogins
    MaxViews <- MCViews
    Tabs = {"left", "right"}
    MaxMarks = 3
    People = {"ann", "ben"}
    Usernames = {"u1", "u2"}
    NoUsername = "nobody"
    Nameless = {"ann"}
    Attempts = 2
    Essays = {"essay"}
    AuthorOf <- MCAuthorOf
    Screens = {"page"}
    ReaderOf <- MCReaderOf
    MaxProfile <- MCProfile
INVARIANTS
    LimitsHold
    ScanSound
    BellAgrees
    ChatSound
    ReaderSound
    LoginSound
    WebPagesSound
PROPERTIES
    PushSound
    ClientsSettle
CHECK_DEADLOCK FALSE
