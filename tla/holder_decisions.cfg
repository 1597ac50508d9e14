CONSTANTS
    Actions <- MCActions
    Catalog <- MCCatalog
    SelfActions <- MCSelfActions
    Namespace <- MCNamespace
    Resources <- MCResources
    Owners <- MCOwners
    Keys <- MCKeys
    Values <- MCValues
    Truthy <- MCValues
    Nothing = Nothing
    Ids = {"ann"}
    Types = {"ROOT", "EXTERNAL_USER"}
    Statements <- MCStatements
SPECIFICATION Spec
INVARIANTS DenyIsFinal HintIsExact GrantIsHeld
PROPERTIES ChangeHasCause
