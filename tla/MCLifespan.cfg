SPECIFICATION FairSpec
CONSTANTS
    Call = {c1, c2, c3}
    Hosts <- AllHosts
INVARIANTS
    LifespanInv
    NoClientLeftOpen
    FailsOnlyWhenReused
PROPERTIES
    ShutdownEnds
