SPECIFICATION Spec
CONSTANTS
    Laptop = Laptop
    Phone = Phone
    Manifest = Manifest
    Head = Head
    Provider <- Providers
    Roles <- LoggedInDevices
    Object <- Objects
    Root = {settings}
    None = None
    MaxProviders = 2
    MaxObjects = 3
    MaxRoots = None
    Quotas = {1}
    MaxPublications = 2
    MaxControls = 4
SYMMETRY Symmetry
INVARIANTS WithinCapacity ClaimsAreBacked HealthAgreesWithFetch
PROPERTIES RootsMoveForward
CHECK_DEADLOCK FALSE
