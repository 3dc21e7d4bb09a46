SPECIFICATION FairSpec
CONSTANTS
    t1 = t1
    t2 = t2
    Threads <- TwoThreads
    Requests <- SomeRequests
    Gateways = 2
    Candidates = 3
    Taken = {1}
    Parts = 2
    MaxFetches = 3
    MaxFailures = 1
    None = None
INVARIANTS DownloadsKeepTheirFiles ListingIsTrue ConfiguredGatewayFirst ProgressIsReal
PROPERTIES EveryFetchEnds
CHECK_DEADLOCK FALSE
