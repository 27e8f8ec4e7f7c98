SPECIFICATION Spec
CONSTANTS
    m1 = m1
    s1 = s1
    s2 = s2
    w1 = w1
    w2 = w2
    None = None
    Manuals = {m1}
    Sessions = {s1}
    Workers = {w1}
    RequiredQuestions = 1
    AllowedFollowUps = 1
    MaxTurns = 2
    MaxAttempts = 2
    JobMaxAttempts = 1
    MaxOverrides = 2
CHECK_DEADLOCK FALSE
INVARIANTS
    CompletionIsEarned
    CompletionIsAnnounced
PROPERTIES
    HistoryIsKept
    TakesTurns
