SPECIFICATION FairRootSpec
CONSTANTS
    Device <- TwoDevices
    Snapshot = 9
    Writers <- FirstDevice
    Compactors <- FirstDevice
    Key <- TwoKeys
    DomainOf <- OneDomain
    None = None
    MinTailChangeCount = 0
    MaxWrites = 2
    Pullers <- SecondDevice
    MaxCandidates = 2
    MaxCrashes = 1
INVARIANTS RootTypeOK CoveredIsShown SharedRootTakesEffect
PROPERTIES EventuallyRecovered
CHECK_DEADLOCK FALSE
