SPECIFICATION FairSpec
CONSTANTS
    Call = {c1, c2}
    Hosts <- Lambda
INVARIANTS
    NextRequestWorks
