\* A RESET that waits behind a recovery when its connection breaks.
SPECIFICATION Spec
CONSTANTS
    MaxApplyAttempts = 1
    MaxApplies = 1
    RequestShapes <- OnlyDesktop
    MaxDevice = 1
    MaxReverts = 1
    MaxDisarms = 0
    MaxResets = 1
    MaxRefreshes = 0
    MaxCaptures = 1
    MaxBreaks = 1
    MaxEvents = 0
    MaxCrashes = 0
    TaskOutcomes <- Yes
    CaptureOutcomes <- Yes
INVARIANTS
    ExitWaitsForReset
\* The helper may exit, and an exited helper is not always relaunched.
CHECK_DEADLOCK FALSE
