CONSTANTS
    Callers = {h1, h2}
    Accounts = {a, b}
    BlankAccounts = {}
    Ranges <- OnePortEach
    LastPort = 2
    BusyPorts = {1}
    None = None
SPECIFICATION FairSpec
INVARIANTS TypeOK PortsAgree OneCreator
PROPERTIES Refines EveryGetReturns
