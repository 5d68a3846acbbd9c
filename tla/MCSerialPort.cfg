CONSTANTS
    Size = 2
    IndexMod = 4
    HasDriver = TRUE
    Paced = TRUE
    MaxBytes = 6
SPECIFICATION Spec
INVARIANTS
    NoStall
    LineReleased
PROPERTIES
    SendsInOrder
    ReceivesInOrder
CHECK_DEADLOCK FALSE
