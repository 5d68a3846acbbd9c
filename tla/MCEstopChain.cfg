CONSTANTS
    NumRobots = 2
    NumEntries = 2
    Debounce = 2
    SendPeriod = 3
    PublishPeriod = 2
    FreezeTimeout = 5
SPECIFICATION FairSpec
INVARIANTS
    RunIsRecent
    SwitchPrevails
PROPERTIES
    UncoveredStaysStopped
    SwitchDisables
