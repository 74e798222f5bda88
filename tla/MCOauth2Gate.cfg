\* Two concurrent requests, key rotation, outages, expiring tokens.
CONSTANTS
    r1 = r1
    r2 = r2
    k1 = k1
    k2 = k2
    ec = ec
    Request = {r1, r2}
    Key <- MCKey
    KeyAlg <- MCKeyAlg
    Undeclared <- MCUndeclared
    KeySets <- MCKeySets
    Unavailable = Unavailable
    Tokens <- MCTokens
    NoHeader = NoHeader
    NoExp = NoExp
    Policies <- MCPolicies
    ProviderLists <- MCProviderLists
    MaxTime = 1
SPECIFICATION FairSpec
INVARIANTS
    TypeOK
PROPERTIES
    Admits
    ComesNearer
    Answered
CHECK_DEADLOCK FALSE
