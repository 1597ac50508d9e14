CONSTANTS
    Secrets = {s1, s2}
    Placeholder = placeholder
    UsersOwn = own
    NoSecret = none
    Edited = {"notes", "package.json"}
    Runners = {r1, r2}
    Passwords = {s1, s2, placeholder, own}
    NoRoot = none
SPECIFICATION Spec
SYMMETRY Symmetry
INVARIANTS ProjectInv FinishedIsWhole ShownOpensRoot
PROPERTIES DevelopersWorkStands SuccessIsWhole RootIsKept
CHECK_DEADLOCK FALSE
