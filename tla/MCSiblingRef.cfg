\* One worker, and a reference with a description beside it.
CONSTANTS
    w1 = w1
    a = a
    ra = ra
    rb = rb
    rc = rc
    Worker = {w1}
    Url = {a}
    Ref = {ra, rb, rc}
    HomeUrl <- SameUrl
    Contents <- WithSibling
    MaxDepth = 2
    TTL = 1
    MayFail = FALSE
    MaxVersion = 1
    MaxTime = 2
    NoDoc = NoDoc
    Mixed = Mixed
    Void = Void
    Absent = Absent
SPECIFICATION Spec
INVARIANTS
    NoExternalRefLeft
CHECK_DEADLOCK FALSE
