SPECIFICATION Spec
CHECK_DEADLOCK FALSE
CONSTANTS
    IdleTimeout = 1
    MaxConnects = 2
    Prompt = FALSE
    Token = {t1, t2}
    NoToken = NoToken
    IP = {ip1}
    TokenCost = 2
    RefillPerTick = 1
    BurstTokens = 2
    StaleDuration = 4
    MaxTime = 9
    Request = {r1, r2}
    MaxConcurrent = 1
INVARIANTS
    RegisteredIsAwaited
    WindowBudget
    SlotsAccounted
PROPERTIES
    PendingIsServed
    ReloadTakesEffect
    DisconnectFreesSlot
