SPECIFICATION GatewaySpec
CHECK_DEADLOCK FALSE
CONSTANTS
    Request = {r1, r2}
    MaxConcurrent = 1
INVARIANT
    DrainsBeforeExit
