SPECIFICATION Spec
CONSTANTS
    Threads = {t1, t2}
    Messages = {m1, m2}
    NoMessage = NoMessage
    NoEntry = NoEntry
    Responses <- MCResponses
    RawCodes <- MCRawCodes
    Limit = 2
    MaxId = 3
    MaxErrors = 5
INVARIANTS TypeOK StoreInv NeverAnothersMessage RetainedExactly
PROPERTIES LostStaysLost ImplementsLog
CHECK_DEADLOCK FALSE
