\* A display event while a REVERT waits behind the APPLY.
SPECIFICATION Spec
CONSTANTS
    MaxApplyAttempts = 1
    MaxApplies = 1
    RequestShapes <- OnlyVirtual
    MaxDevice = 1
    MaxReverts = 1
    MaxDisarms = 0
    MaxResets = 0
    MaxRefreshes = 0
    MaxCaptures = 0
    MaxBreaks = 0
    MaxEvents = 1
    MaxCrashes = 0
    TaskOutcomes <- Yes
    CaptureOutcomes <- Yes
PROPERTIES
    ExplicitRestorePursued
\* The helper may exit, and an exited helper is not always relaunched.
CHECK_DEADLOCK FALSE
