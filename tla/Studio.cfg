CONSTANTS
    MaxWorks = 4
    MaxIntrusions = 1
    KeptTurns = 2
    SpokenTurns = 1
    Compactors = {p1, p2}
    Requests = {q1}
    ResumeRuns = {r1, r2, r3}
    NoRun = NoRun
    MaxChars = 4
    MaxPending = 1
    SegmentLimit = 2
    LogLimit = 3
    LogRunLimit = 2
    TailLimit = 2
    DailyLimit = 4
    ConcurrentLimit = 2
    Lease = 1
    Day = 2
    Calls = {c1, c2}
    QuotaTasks = {k1, k2}
    ProviderCalls = 3
    MaxTime = 3
    Updates = {u1, u2}
    Reads = {l1, l2}
    NoTxn = NoTxn
    OldData = OldData
    TableCount = 2
    Files = {chapter}
    Chapters = {chapter}
    LoadedFiles = {}
    Passages = {opening, middle}
    Middle = {middle}
    MaxToolCalls = 3
    Saves = {a1}
    BatchLimit = 2
    RequiredFiles = {1}
    MaxRecoveries = 1
    NoFile = NoFile
    Book = {b1, b2}
    NoChapter = NoChapter
    MaxChanges = 2
    MaxSelections = 2
    MaxSaves = 2
SPECIFICATION StudioSpec
INVARIANTS
    StudioTypeOK
    CompactedTurnsAreSummarised NoTurnToldTwice
    SuccessorKnowsTheEnd LogKeepsTheTail
    NoDayOverLimit NeverMoreAtOnce
    NoUpdateLost UpdatesSeeTheLastState ReadsNeverGoBack NoCircleOnceMigrated
    AuthorTextIsKept ProposalAppliedOnce
    TextsStayUnlessLapsed
PROPERTIES KnowsTheTurnBefore NothingAfterTheQuestion
CHECK_DEADLOCK FALSE
