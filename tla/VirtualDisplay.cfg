\* A virtual display that is recreated under the session, HDR retries and settling
\* ladders, refresh rate changes, and a restore task that cannot be created.
SPECIFICATION Spec
CONSTANTS
    MaxApplyAttempts = 2
    MaxApplies = 1
    RequestShapes <- VirtualOrGated
    MaxDevice = 2
    MaxReverts = 1
    MaxDisarms = 0
    MaxResets = 0
    MaxRefreshes = 1
    MaxCaptures = 0
    MaxBreaks = 0
    MaxEvents = 1
    MaxCrashes = 0
    TaskOutcomes <- Either
    CaptureOutcomes <- Yes
INVARIANTS
    MutationFence
    RestoreHasOwner
    SessionHasOwner
\* The helper may exit, and an exited helper is not always relaunched.
CHECK_DEADLOCK FALSE
