SPECIFICATION Spec
CONSTANTS
    DivModulus = 16
    Period <- MCPeriod
    CounterMax = 2
    LineDots = 12
    OamDots = 4
    TransferDots = 8
    Lines = 2
    VBlankLine = 1
    SerialTCycles = 8
    DmaLength = 7
    ChunkMCycles = 6
    ByteMax = 27
    Cycles = {1, 3}
    Accesses <- MCAccesses
    PushAccesses <- MCPushAccesses
    Controls <- MCControls
CHECK_DEADLOCK FALSE
INVARIANTS TypeOK DmaKeepsPace
PROPERTIES  ReloadIsRequested EiDelaysDispatch
