SPECIFICATION Spec
CONSTANTS
    l1 = l1
    l2 = l2
    g1 = g1
    g2 = g2
    f1 = f1
    f2 = f2
    h1 = h1
    h2 = h2
    None = None
    Logins = {l1, l2}
    Grants = {g1, g2}
    Families = {f1, f2}
    Handlers = {h1, h2}
    Idle = 2
    Absolute = 3
    CodeTTL = 1
    Lives = {1, 3}
    MaxVersion = 3
    MaxSeq = 1
    MaxClock = 2
SYMMETRY Symmetry
CHECK_DEADLOCK FALSE
INVARIANTS
    TypeOK
    CallbackOwnsLogin
    FamilyLifecycle
    SingleWinner
    RefusalIsFinal
    WithinLimits
PROPERTIES
    RefusalIsStable
    TerminalIsFinal
