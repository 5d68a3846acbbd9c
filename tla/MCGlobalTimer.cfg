CONSTANTS
    HwMod = 4
    Base = 2
    Digits = 7
    FreezeTimeout = 16
    MaxNow = 44
SPECIFICATION Spec
PROPERTIES
    ReadingIsRecent
    FreezesInTime
