CONSTANTS
    Commands <- MCCommands
    Watchdog = 2
    MinSpeed = 5
    EncMod = 2
    MaxTicks = 2
SPECIFICATION Spec
INVARIANTS
    NoShootThrough
    MotorsStop
    WidthsFollowFilter
    EncodersAddUp
