SPECIFICATION FairSpec
CONSTANTS
    Block = {b1, b2}
    NoBlock = NoBlock
    MaxFrames = 2
    MixSlice = 2
    MaxPull = 3
    Volume = {loud, quiet}
    DumpMix = TRUE
INVARIANTS
    MixerReadsLiveTrack
    SilentWhileInitializing
PROPERTIES
    PlaysAsPromised
    CallsReturn

