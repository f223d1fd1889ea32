SPECIFICATION Spec
CONSTANTS
    MaxChanges = 1
    MaxFaults = 2
\* A call that has returned is over.
CHECK_DEADLOCK FALSE
INVARIANTS TypeOK ClaimsWereTrue SilenceIsExplained RefusalIsExplained
