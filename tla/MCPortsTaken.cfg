CONSTANTS
    Callers = {h1, h2}
    Accounts = {a}
    BlankAccounts = {}
    Ranges <- OnePort
    LastPort = 1
    BusyPorts = {1}
    None = None
SPECIFICATION FairSpec

PROPERTY TakenPortIsRetried
