SPECIFICATION Spec
CONSTANTS
    Block = {b1}
    NoBlock = NoBlock
    MaxFrames = 1
    MixSlice = 2
    MaxPull = 1
    Volume = {loud}
    DumpMix = TRUE
INVARIANT RecordingIsExact
