\* The threads keep running: commands supersede each other, retries and ladders end.
SPECIFICATION FairSpec
CONSTANTS
    MaxApplyAttempts = 2
    MaxApplies = 2
    RequestShapes <- DesktopOrGated
    MaxDevice = 1
    MaxReverts = 1
    MaxDisarms = 0
    MaxResets = 0
    MaxRefreshes = 0
    MaxCaptures = 0
    MaxBreaks = 0
    MaxEvents = 0
    MaxCrashes = 0
    TaskOutcomes <- Yes
    CaptureOutcomes <- Yes
PROPERTIES
    FenceLifted
    ApplyConcludes
    ApplyAnswered
\* The helper may exit, and an exited helper is not always relaunched.
CHECK_DEADLOCK FALSE
