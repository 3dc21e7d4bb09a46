SPECIFICATION FairSpec
CONSTANTS
    b1 = b1
    b2 = b2
    s1 = s1
    s2 = s2
    h1 = h1
    h2 = h2
    Browser = {b1, b2}
    Authority = Authority
    Provider = Provider
    Secret = {s1, s2}
    NoSecret = NoSecret
    NoKey = NoKey
    Handler = {h1, h2}
    NoHandler = NoHandler
    MaxRequests = 3
    MaxCrashes = 1
    MaxRevocations = 1
CHECK_DEADLOCK FALSE
INVARIANTS OneSecret ActivationResumes MemoryKeyIsProfiles
PROPERTIES EveryRequestEnds
