CONSTANTS
    Reqs = {r1, r2}
    MaxAttempts = 2
    Window = 2
    Lockout = 2
    RedisMayFail = FALSE
    DbMayFail = FALSE
SPECIFICATION Spec
INVARIANTS FailuresLock
