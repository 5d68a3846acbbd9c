CONSTANTS
    ReqTimeout = 1
    NextReq = 9
    MaxAngle = 1
    ReversePt = 1
    Configs <- MCConfigs
    BusTimeout = 2
    EncPeriod = 10
    EncRestart = 5
SPECIFICATION FairSpec
INVARIANTS
    NoDeadState
PROPERTIES
    EveryRequestServed
    RequestsKeepComing
    ConfigApplied
    SweepGoesOn
