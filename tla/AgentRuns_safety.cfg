SPECIFICATION Spec
CONSTANTS
    r1 = r1
    r2 = r2
    w1 = w1
    w2 = w2
    Runs = {r1}
    Workers = {w1, w2}
    NoRun = NoRun
    RunTimeout = TRUE
    MaxEvents = 1
    MaxCancels = 2
    MaxCrashes = 2
    MaxDBErrors = 1
SYMMETRY Symmetry
CHECK_DEADLOCK FALSE
INVARIANTS
    TypeOK
    AtMostOneExecution
    OneFenceHolder
    LogAgreesWithStatus
    SuccessWasExecuted
PROPERTIES
    StatusChangeMovesFence
    CancelIsSticky
    DurableSpec
