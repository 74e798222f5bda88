SPECIFICATION Spec
CONSTANTS
    Request = {r1}
    NoContent = NoContent
    Stacks <- MCStacks
INVARIANTS
    DocumentsEnhanced
