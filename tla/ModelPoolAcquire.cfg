SPECIFICATION PoolSpec
CHECK_DEADLOCK FALSE
CONSTANTS
    User = {u1, u2}
INVARIANT
    AcquireIsNotFatal
