SPECIFICATION FairSpec
CONSTANTS
    Runs = {r1}
    r1 = r1
    PageSize = 2
    MaxLog = 4
    MaxBreaks = 2
INVARIANTS
    TypeOK
    StreamIsPrefix
    CatchUpSendsTerminalEvent
PROPERTIES
    EveryEventArrives
