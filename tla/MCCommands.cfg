CONSTANTS
    Handlers = {h1, h2}
    MaxChanges = 3
    None = None
    Accounts <- MCAccounts
    BlankAccounts <- MCBlankAccounts
    Units <- MCUnits
    UnitStates <- MCUnitStates
    StatusRequests <- MCStatusRequests
    AllowLists <- MCAllowLists
    MaxInt32 = 9
    Typed <- MCTyped
    Values = {v1, v2}
SPECIFICATION Spec
INVARIANTS TypeOK ParamNotStale StatusDisclosed StatusSeen SpellingsAgree
PROPERTY ListGrouped
SYMMETRY Symmetry
