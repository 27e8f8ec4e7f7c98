SPECIFICATION Spec
CONSTANTS
    e1 = e1
    t1 = t1
    t2 = t2
    w1 = w1
    w2 = w2
    o1 = o1
    o2 = o2
    p1 = p1
    None = None
    Events = {e1}
    Endpoints = {p1}
    Types = {t1, t2}
    TypeOf <- MCTypeOf
    Workers = {w1, w2}
    Owners = {o1, o2}
    Naming <- MCNaming
    MaxAttempts = 3
INVARIANTS
    TypeOK
    LeaseProtects
    OnePostPerAttempt
PROPERTIES
    PromiseKept
    EventsArePublished
    DeliveriesSettle
