SPECIFICATION Spec
CONSTANTS
    Device <- TwoDevices
    Snapshot = 9
    Writers <- FirstDevice
    Compactors <- FirstDevice
    Key <- TwoKeys
    DomainOf <- TwoDomains
    None = None
    MinTailChangeCount = 0
    MaxWrites = 3
    MaxCrashes = 2
INVARIANTS HeadCarriesHistory HeadRootTakesEffect
PROPERTIES ViewMovesForward PublishesForward
CHECK_DEADLOCK FALSE
