SPECIFICATION Spec
CONSTANTS
    Format <- MCFormat
    Unit = 2
    MaxObjects = 3
    MaxBufs = 2
    MaxSlice = 5
    Lead = 1
    SeekMax = 13
    MaxCalls = 5
INVARIANTS
    SlicingIsTransparent
    PolledCursorIsMixed
PROPERTY OneShotsEnd
