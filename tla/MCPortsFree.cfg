CONSTANTS
    Callers = {h1, h2}
    Accounts = {a}
    BlankAccounts = {}
    Ranges <- OnePort
    LastPort = 1
    BusyPorts = {}
    None = None
SPECIFICATION Spec
INVARIANT FreePortIsFound

