CONSTANTS
    unit = unit
    manual = manual
    Daemons = {unit, manual}
    Unit = unit
    ConfigDir <- MCConfigDir
    Files <- MCFiles
    Calls = {c1}
    StartLimit = 2
    MaxEvents = 4
    None = None
    NoDir = NoDir
    Stale = Stale
    Cut = Cut
SPECIFICATION FairSpec
INVARIANTS TypeOK SocketServed StaysDownForAReason
PROPERTIES GracefulLosesNoCall StopEnds Recovers
CHECK_DEADLOCK FALSE
