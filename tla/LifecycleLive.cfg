SPECIFICATION FairSpec
CONSTANTS
    Plan <- PlanOne
    Requires <- NoRequires
    Policy <- Always
    NotifyUnits = {}
    Ctl = {c1, c2}
    Main = main
    MaxLaunches = 2
CHECK_DEADLOCK FALSE
PROPERTIES
    StopReturns
    CrashedIsRetried
    ShutdownCompletes
