CONSTANTS
    phone = phone
    tv = tv
    laptop = laptop
    webapi = webapi
    launcher = launcher
    recorded = recorded
    Callers <- MCCallers
    MaxConnections = 2
    MaxRequests = 3
    Sessions <- MCSessions
    ControlLimit = 3
    PriorityLimit = 2
    SampleLimit = 2
    SampleBatch = 1
    MaxSamples = 2
    MaxRestarts = 1
    Clients <- MCClients
    Browsers <- MCBrowsers
    MaxOwners = 2
    MaxDisruptions = 1
    MaxApplyAttempts = 2
    MaxLaunches = 2
    MaxHotkeys = 1
    MaxThreadFaults = 1
    MaxWorkers = 2
    MaxSaves = 2
    MaxCrashes = 2
    MaxIoFaults = 2
SPECIFICATION Spec
SYMMETRY MCSymmetry
INVARIANTS
    ReplyIsOwn NoOvertaking
    EndIsBarrier AcceptedIsWritten DeletedIsGone
    RuntimeHasOwner OwnedIsArmed TerminationHolds
    WorkerIsOwned StreamIsWatched DescriptorKept ShutdownIsComplete IdleIsQuiet
    TokensSurvive
CHECK_DEADLOCK FALSE
