CONSTANTS
    ResumeRuns = {r1, r2, r3}
    NoRun = NoRun
    MaxChars = 5
    MaxPending = 1
    SegmentLimit = 2
    LogLimit = 4
    LogRunLimit = 3
    TailLimit = 2
SPECIFICATION ResumeSpec
INVARIANT LogIsNoSecondTruth
CHECK_DEADLOCK FALSE
