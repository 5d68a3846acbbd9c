CONSTANTS
    NumBuffers = 3
    EmptyWhileReading = TRUE
    MaxPackets = 9
SPECIFICATION Spec
INVARIANT SlotExclusion
