CONSTANTS
    Users = {root, u}
    Roots = {root}
    Tokens = {t1}
    Reqs = {r1, r2}
    Ttl = 2
    RedisMayFail = FALSE
    DbMayFail = FALSE
    Nobody = Nobody
    NoToken = NoToken
SPECIFICATION Spec
INVARIANTS SuspensionEndsSessions
