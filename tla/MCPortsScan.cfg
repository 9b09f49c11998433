CONSTANTS
    Callers = {h1, h2}
    Accounts = {a, b, c, d, blank}
    BlankAccounts = {blank}
    Ranges <- ThreePorts
    LastPort = 3
    BusyPorts = {}
    None = None
SPECIFICATION Spec
INVARIANTS FirstAvailable ConflictedByOthers
SYMMETRY Symmetry
