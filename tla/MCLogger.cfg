SPECIFICATION FairSpec
CONSTANTS
    t1 = t1
    t2 = t2
    console = console
    file = file
    v1 = v1
    NoLogger = NoLogger
    NoThread = NoThread
    Thread = {t1, t2}
    Logger = {console, file}
    Console = console
    Value = {v1}
    MaxItems = 3
    MaxStatements = 1
INVARIANTS
    TypeOK
    LinesWhole
    WaitsEmptyHanded
PROPERTY
    StatementsEnd
CHECK_DEADLOCK FALSE
