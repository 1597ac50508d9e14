CONSTANTS
    Users = {root, u}
    Roots = {root}
    Tokens = {t1}
    Reqs = {r1, r2}
    Ttl = 2
    RedisMayFail = TRUE
    DbMayFail = TRUE
    Nobody = Nobody
    NoToken = NoToken
SPECIFICATION FairRevocationSpec
INVARIANTS SessionInv RevocationIsWhole
PROPERTIES NeverAcceptsExpired DatabaseNeverAcceptsEnded EndedHasCause ImplementsContract SessionsEnd
