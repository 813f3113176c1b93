SPECIFICATION Spec
CONSTANTS
    Format <- MCFormat
    Unit = 2
    MaxObjects = 2
    MaxBufs = 1
    MaxSlice = 5
    Lead = 1
    SeekMax = 13
    MaxCalls = 4
INVARIANT SeamKeepsFraction
