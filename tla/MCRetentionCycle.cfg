SPECIFICATION CycleSpec
CONSTANTS
    Laptop = Laptop
    Disk = Disk
    Provider <- Providers
    Roles <- ProviderRoles
    Object <- Objects
    Root = {settings, device_head}
    None = None
    MaxProviders = None
    MaxObjects = None
    MaxRoots = None
    Quotas = {1}
    MaxPublications = 0
    MaxControls = 1
    Device = Laptop
    Handles <- HandleOrder
    SettingsRoot = settings
    HeadRoot = device_head
    MinimumRetaining = 2
    MaxPublishSteps = 2
    DomainOf <- TwoDomains
    MaxEdits = 3
    MaxAttempts = 2
INVARIANTS PublishedIsComplete OkMeansRetained OkMeansPublished
CHECK_DEADLOCK FALSE
