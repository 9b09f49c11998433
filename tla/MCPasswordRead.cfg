CONSTANTS
    app = app
    blank = blank
    Getters = {g1, g2}
    Readers = {r1}
    Accounts <- MCAccounts
    BlankAccounts = {blank}
    Place <- MCPlace
    Requests <- ReadRequests
    Lowercase = {"a"}
    Uppercase = {"A"}
    Digits = {"1"}
    Symbols = {"@"}
    HexLower = {"1", "a"}
    HexUpper = {"1", "A"}
    Uuids = {u1}
    MaxLength = 1
    MonotonicClock = TRUE
    MaxTime = 1
    None = noPassword
SPECIFICATION Spec
INVARIANTS ReadNotStale LastListedIsRead
