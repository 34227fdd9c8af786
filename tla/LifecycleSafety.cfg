SPECIFICATION Spec
CONSTANTS
    Plan <- PlanTwo
    Requires <- AgentRequiresLlama
    Policy <- NoAndAlways
    NotifyUnits = {"agent"}
    Ctl = {c1}
    Main = main
    MaxLaunches = 2
CHECK_DEADLOCK FALSE
INVARIANT
    LaunchesAccounted
