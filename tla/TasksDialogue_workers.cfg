SPECIFICATION Spec
CONSTANTS
    m1 = m1
    s1 = s1
    s2 = s2
    w1 = w1
    w2 = w2
    None = None
    Manuals = {}
    Sessions = {s1}
    Workers = {w1, w2}
    RequiredQuestions = 2
    AllowedFollowUps = 1
    MaxTurns = 3
    MaxAttempts = 1
    JobMaxAttempts = 2
    MaxOverrides = 1
CHECK_DEADLOCK FALSE
INVARIANTS
    TypeOK
    CompletionIsEarned
    JobFitsEvidence
    LeaseKeepsReadFresh
    OnlyTurnsRunOut
PROPERTIES
    BusyDialogueSettles
    TakesTurns
