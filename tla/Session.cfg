\* Two sessions on the physical desktop, every client command, one live connection.
SPECIFICATION Spec
CONSTANTS
    MaxApplyAttempts = 1
    MaxApplies = 2
    RequestShapes <- OnlyDesktop
    MaxDevice = 1
    MaxReverts = 1
    MaxDisarms = 1
    MaxResets = 1
    MaxRefreshes = 0
    MaxCaptures = 1
    MaxBreaks = 0
    MaxEvents = 0
    MaxCrashes = 0
    TaskOutcomes <- Yes
    CaptureOutcomes <- Yes
INVARIANTS
    TypeOK
    MutationFence
    DurableGuard
    LeaseHeld
    ExitLeavesNothing
    ExitWaitsForReset
    DeferredHasBarrier
PROPERTIES
    GateShowsRequest
    ConfirmedStays
    ExplicitRestorePursued
\* The helper may exit, and an exited helper is not always relaunched.
CHECK_DEADLOCK FALSE
