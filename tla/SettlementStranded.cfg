\* A connection that breaks right after a replacement APPLY.
SPECIFICATION Spec
CONSTANTS
    MaxApplyAttempts = 1
    MaxApplies = 2
    RequestShapes <- OnlyDesktop
    MaxDevice = 1
    MaxReverts = 0
    MaxDisarms = 0
    MaxResets = 0
    MaxRefreshes = 0
    MaxCaptures = 0
    MaxBreaks = 1
    MaxEvents = 0
    MaxCrashes = 0
    TaskOutcomes <- Yes
    CaptureOutcomes <- Yes
INVARIANTS
    SessionHasOwner
\* The helper may exit, and an exited helper is not always relaunched.
CHECK_DEADLOCK FALSE
