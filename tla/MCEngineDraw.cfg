SPECIFICATION Spec
CONSTANTS
    a = a
    b = b
    t = t
    NoArt = NoArt
    Surfaces = {a, b}
    Tiles = {t}
    Frames <- MCFrames
    Capacity = 2
    MaxRun = 2
    FrameIds = 3
    MaxFrames = 3
    MaxWrites = 2
INVARIANTS
    RunsKeepTheirTexture
    PicturesAreCurrent
    EveryQuadOnce
CHECK_DEADLOCK FALSE
