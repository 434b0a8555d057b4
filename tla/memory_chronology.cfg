SPECIFICATION MCSpec
CONSTANTS
    LaneBound = 4
    CycleBound = 6
    BusBound = 5
    RowCount = 3
    CellCount = 2
    TimestampBound = 32
    LogCapacity = 15
    Rom <- MCRom
    FreeParts = {"memory"}
    BitsAreBoolean = FALSE
    Samples = {0, 1}
    VisibleByte = 207
    MaxBlocks = 2
    Cores = {1, 2}
    SegmentLimit = 3
    StreamLimit = 8
    HeaderUnits = 1
    FrameLimit = 3
INVARIANT ChronologyStrict
CHECK_DEADLOCK FALSE
