SPECIFICATION Spec
CONSTANTS
    Threads = {t1, t2}
    Cards = {c1, c2}
    MaxPolls = 2
    Nobody = Nobody
    None = None
INVARIANTS TypeOK ExclusiveExchange ClaimsAreReturned CallIsBounded
PROPERTY EveryCallReturns
