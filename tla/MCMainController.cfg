CONSTANTS
    PublishPeriod = 0
    FreezeTimeout = 1
    Late = 1
    Ahead = 1
    HostInputs = {"velocity", "passthrough", "RUN", "CONFIG"}
    RadioInputs = {"RUN", "FREEZE", "DISABLE", "unknown"}
SPECIFICATION FairSpec
INVARIANTS
    BlockedHasTimeout
    AtMostOneStaleCommand
PROPERTIES
    DisableNotHidden
    ImplementsEstop
    
    DisableTakesEffect
