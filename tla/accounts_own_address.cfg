CONSTANTS
    Users = {u1, u2}
    Tokens = {t1, t2}
    Emails = {a, b}
    Passwords = {p, q}
    Calls = {c1, c2, c3}
    None = None
    registrationEnabled = TRUE
    Seeded = TRUE
    MayFail = TRUE
SPECIFICATION Spec
SYMMETRY Symmetry
PROPERTIES ConflictIsWithAnother
CHECK_DEADLOCK FALSE
