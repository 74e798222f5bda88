\* Two workers, one document, failing writes, kills, new versions, expiry.
CONSTANTS
    w1 = w1
    w2 = w2
    a = a
    ra = ra
    rb = rb
    rc = rc
    Worker = {w1, w2}
    Url = {a}
    Ref = {ra, rb, rc}
    HomeUrl <- SameUrl
    Contents <- ChainOrCircle
    MaxDepth = 1
    TTL = 1
    MayFail = TRUE
    MaxVersion = 1
    MaxTime = 2
    NoDoc = NoDoc
    Mixed = Mixed
    Void = Void
    Absent = Absent
SPECIFICATION FairSpec
INVARIANTS
    ResolverInv
    OneVersionPerRun
    MixedOnlyByRace
    InlinesTheReachable
    NoCircleInlined
PROPERTIES
    FreshWhenTaken
    RunEnds
CHECK_DEADLOCK FALSE
