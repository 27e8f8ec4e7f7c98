SPECIFICATION Spec
CONSTANTS
    r1 = r1
    r2 = r2
    w1 = w1
    w2 = w2
    Runs = {r1}
    Workers = {w1}
    NoRun = NoRun
    RunTimeout = TRUE
    MaxEvents = 1
    MaxCancels = 0
    MaxCrashes = 0
    MaxDBErrors = 1
CHECK_DEADLOCK FALSE
INVARIANT
    UnpersistedEventFailsRun
