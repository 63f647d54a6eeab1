\* A DISARM between the first two steps of a recovery attempt.
SPECIFICATION Spec
CONSTANTS
    MaxApplyAttempts = 1
    MaxApplies = 1
    RequestShapes <- OnlyDesktop
    MaxDevice = 1
    MaxReverts = 1
    MaxDisarms = 1
    MaxResets = 0
    MaxRefreshes = 0
    MaxCaptures = 0
    MaxBreaks = 0
    MaxEvents = 0
    MaxCrashes = 0
    TaskOutcomes <- Yes
    CaptureOutcomes <- Yes
INVARIANTS
    RestoreHasOwner
\* The helper may exit, and an exited helper is not always relaunched.
CHECK_DEADLOCK FALSE
