CONSTANTS
    Words <- MCWords
    Texts <- MCTexts
    Trim <- MCTrim
    HbaWords <- MCHbaWords
    NoAddress = NoAddress
    ConfFiles0 <- MCConfFiles0
    HbaFiles0 <- MCHbaFiles0
    Requests <- MCRequests
    Rules <- MCRules
    MaxLines = 6
SPECIFICATION Spec
INVARIANTS TypeOK RepeatAddsNothing
PROPERTIES LinesKept SetKeysKept EntriesReadBack PlacedByComment EarlierRulesFirst PlainRuleOnce
CHECK_DEADLOCK FALSE
