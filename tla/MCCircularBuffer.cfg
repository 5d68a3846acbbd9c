CONSTANTS
    NumBuffers = 3
    EmptyWhileReading = FALSE
    MaxPackets = 9
SPECIFICATION Spec
INVARIANTS
    SlotExclusion
PROPERTIES
    ImplementsQueue
