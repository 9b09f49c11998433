CONSTANTS
    Words <- MCWords
    Texts <- MCTexts
    Trim <- MCTrim
    HbaWords <- MCHbaWords
    NoAddress = NoAddress
    ConfFiles0 <- MCConfFiles0
    HbaFiles0 <- MCHbaFiles0
    Requests <- MCRequests
    Rules <- SpacedRules
    MaxLines = 6
SPECIFICATION Spec

PROPERTY ExistingRowNotNew
CHECK_DEADLOCK FALSE
