CONSTANTS
    Reqs = {r1, r2}
    MaxAttempts = 3
    Window = 2
    Lockout = 2
    RedisMayFail = TRUE
    DbMayFail = TRUE
SPECIFICATION FairCountingSpec
INVARIANTS LoginInv CountIsExact
PROPERTIES LockHasCause LockLasts LockLifts GuessingLocks
