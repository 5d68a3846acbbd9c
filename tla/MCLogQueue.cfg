CONSTANTS
    MaxLength = 2
    MaxConsecutive = 2
    MaxEntries = 4
    MaxFailures = 2
SPECIFICATION FairSpec
INVARIANTS
    LogAligned
    FreedAfterUse
    AtMostOneLost
PROPERTIES
    EveryEntryPopped
    CloseReturns
CHECK_DEADLOCK FALSE
