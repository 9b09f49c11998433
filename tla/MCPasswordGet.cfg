CONSTANTS
    app = app
    blank = blank
    Getters = {g1, g2}
    Readers = {}
    Accounts <- MCAccounts
    BlankAccounts = {blank}
    Place <- MCPlace
    Requests <- GetRequests
    Lowercase = {"a"}
    Uppercase = {"A"}
    Digits = {"1"}
    Symbols = {"@"}
    HexLower = {"1", "a"}
    HexUpper = {"1", "A"}
    Uuids = {u1, u2}
    MaxLength = 4
    MonotonicClock = TRUE
    MaxTime = 0
    None = noPassword
SPECIFICATION Spec
INVARIANTS TypeOK AnswersAgree ToldIsStored ToldMeetsPolicy OneCreator ConflictFindsRow ShuffleIsFair
PROPERTIES Refines
