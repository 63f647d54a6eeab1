\* A display event during the repair of a confirmed session.
SPECIFICATION Spec
CONSTANTS
    MaxApplyAttempts = 1
    MaxApplies = 1
    RequestShapes <- OnlyVirtual
    MaxDevice = 1
    MaxReverts = 0
    MaxDisarms = 0
    MaxResets = 0
    MaxRefreshes = 0
    MaxCaptures = 0
    MaxBreaks = 0
    MaxEvents = 1
    MaxCrashes = 0
    TaskOutcomes <- Yes
    CaptureOutcomes <- Yes
PROPERTIES
    ConfirmedStays
\* The helper may exit, and an exited helper is not always relaunched.
CHECK_DEADLOCK FALSE
