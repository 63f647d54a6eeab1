\* A session that is restored or paused when its connection breaks, reconnections,
\* and a crash or a relaunch by the scheduled task at any point.
SPECIFICATION Spec
CONSTANTS
    MaxApplyAttempts = 1
    MaxApplies = 1
    RequestShapes <- DesktopOrPaused
    MaxDevice = 1
    MaxReverts = 1
    MaxDisarms = 0
    MaxResets = 0
    MaxRefreshes = 0
    MaxCaptures = 1
    MaxBreaks = 2
    MaxEvents = 0
    MaxCrashes = 1
    TaskOutcomes <- Yes
    CaptureOutcomes <- Either
INVARIANTS
    DurableGuard
    ExitLeavesNothing
    RetryAlive
PROPERTIES
    OnlyLiveClientApplies
\* The helper may exit, and an exited helper is not always relaunched.
CHECK_DEADLOCK FALSE
