SPECIFICATION Spec
CHECK_DEADLOCK FALSE
CONSTANTS
    Client = {n1}
    UnitFiles <- SomeUnitFiles
    Conn = {c1, c2}
    BufSize = 1
    MaxEvents = 2
    MaxSpawns = 3
    MaxKills = 3
    Caller = {k1, k2}
    Offset = {0, 3}
    StepBuffer = 1
    MaxCalls = 4
    PetInterval = 2
    HardwareTimeout = 6
    SoftTries = 3
    ToolRun = {t1, t2}
INVARIANTS
    FirstTriggerWins
    PlanIsRight
    DeliveryIsSound
    
    
    RunIsAccounted
PROPERTIES
    
    ResetsExactly
    TriggerEndsManager
    HandlersReturn
    TimeoutEndsRun
