CONSTANTS
    root = root
    ann = ann
    r = r
    g = g
    base = base
    p = p
    Actions <- MCActions
    Catalog <- MCActions
    SelfActions = {}
    Namespace <- MCNamespace
    Resources = {}
    Owners = {root, ann}
    Keys = {}
    Values = {}
    Truthy = {}
    Nothing = Nothing
    Users = {root, ann}
    Roots = {root}
    Roles = {r}
    Groups = {g}
    Policies = {base, p}
    System = {base}
    Statements <- MCStatements
    Setups <- MCSetups
    Calls = {c1, c2}
    Nobody = Nobody
    DbMayFail = TRUE
SPECIFICATION Spec
SYMMETRY Symmetry
INVARIANTS IamInv StandingDenyHolds GrantsAreHeld
PROPERTIES ReadsAreExact UpdateReplaces SystemRecordsStand
CHECK_DEADLOCK FALSE
