SPECIFICATION FairSpec
CONSTANTS
    Request = {r1, r2}
    NoContent = NoContent
    Stacks <- MCStacks
INVARIANTS
    ResponseInv
    SecuredDocuments
    NoInternalLinks
PROPERTIES
    Streams
    ComesToItsEnd
    Delivered
