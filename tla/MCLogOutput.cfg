SPECIFICATION MCSpec
CONSTANTS
    Interval = {0, 2}
    Size <- FileSizes
    DayLength = 4
    Start = 5
    MaxClock = 9
    MaxDelay = 1
    MaxLines = 4
    MaxRuns = 2
    CounterMax = 7
    MaxLen = 8
    IntMax = 127
    Endpoint = TRUE
    Thread = {"t1", "t2", "t3"}
    Logger = {"console", "a", "b"}
    Console = "console"
    None = "None"
    MaxDepth = 2
    Roots = {"p", "q"}
    Objects = {"a", "b", "c"}
    NoPtr = "None"
INVARIANT ArchivesKeepLines
PROPERTY OverwritesOnlyAfterRestart
INVARIANT ServerGetsTheLine
INVARIANT FaultOnlyIfLost
INVARIANT CircleOnlyFromOperands
INVARIANT PointersCounted
PROPERTY CallsEnd
CHECK_DEADLOCK FALSE
