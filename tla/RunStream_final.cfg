SPECIFICATION Spec
CONSTANTS
    Runs = {r1}
    r1 = r1
    PageSize = 2
    MaxLog = 3
    MaxBreaks = 0
INVARIANT
    FinishedStreamHasTerminalEvent
