SPECIFICATION ListsSpec
CONSTANTS
    s1 = s1
    s2 = s2
    s3 = s3
    Destinations = {s1, s2, s3}
    ListsMax = 2
    ListMax = 2
    ArenaMax = 5
    PoolMax = 2
    Grid = 2
    TileSizes <- MCTileSizes
    MaxRequests = 4
SYMMETRY Symmetry
INVARIANTS
    TextIsOwn
    FrameIsThisFrame
    UiIsUnlit
