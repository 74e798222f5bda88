\* Two workers and no failure at all: readyz against its documentation.
CONSTANTS
    w1 = w1
    w2 = w2
    Worker = {w1, w2}
    MayStop = FALSE
    MayRemove = FALSE
    Configs <- RestOnly
SPECIFICATION StartupSpec
INVARIANTS
    ReadyMeansDocument
CHECK_DEADLOCK FALSE
