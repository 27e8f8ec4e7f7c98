SPECIFICATION Spec
CONSTANTS
    m1 = m1
    s1 = s1
    s2 = s2
    w1 = w1
    w2 = w2
    None = None
    Manuals = {}
    Sessions = {s1}
    Workers = {w1}
    RequiredQuestions = 3
    AllowedFollowUps = 1
    MaxTurns = 3
    MaxAttempts = 1
    JobMaxAttempts = 1
    MaxOverrides = 0
CHECK_DEADLOCK FALSE
INVARIANTS
    OpenDialogueTakesAnswer
