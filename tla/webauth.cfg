CONSTANTS
    People = {ann, bob}
    Tokens = {t1, t2}
    Calls = {c1, c2}
    Nobody = Nobody
    NoToken = NoToken
SPECIFICATION FairSpec
INVARIANTS WebInv
PROPERTIES AloneIsExact LoadingEnds
