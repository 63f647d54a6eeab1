CONSTANTS
    left = left
    right = right
    vdd = vdd
    Displays <- MCDisplays
    Virtual <- vdd
    UserLayouts <- MCUserLayouts
    SessionLayouts <- MCSessionLayouts
    Removable <- MCRemovable
    BackoffProfile <- MCBackoff
    PrimaryWindow = 1
    EventWindow = 1
    OptionalWindow = 0
    MissWindow = 0
    RecoveryWindow = 1
    RevertGrace = 1
    GuardWindow = 1
    DisarmGrace = 1
    TerminateWindow = 1
    MaxIncidents = 2
SPECIFICATION Spec
PROPERTY BaselineNeverOverwritten
CHECK_DEADLOCK FALSE
