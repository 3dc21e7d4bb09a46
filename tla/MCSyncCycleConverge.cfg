SPECIFICATION Spec
CONSTANTS
    Device <- TwoDevices
    Snapshot = 9
    Writers <- TwoDevices
    Compactors <- NoDevice
    Key <- TwoKeys
    DomainOf <- TwoDomains
    None = None
    MinTailChangeCount = 0
    MaxWrites = 1
    MaxCrashes = 0
INVARIANTS QuiescentConverged
CHECK_DEADLOCK FALSE
