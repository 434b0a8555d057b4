SPECIFICATION Spec
CONSTANTS
    DivModulus = 32
    Period <- MCPeriod
    CounterMax = 1
    LineDots = 80
    OamDots = 24
    TransferDots = 48
    Lines = 2
    VBlankLine = 1
    SerialTCycles = 24
    DmaLength = 7
    ChunkMCycles = 6
    ByteMax = 27
    Cycles = {2}
    Accesses <- MCAccesses
    PushAccesses <- MCPushAccesses
    Controls <- MCControls
    ByteBase = 2
    QuotientMax = 31
    StatGapMax = 511
    VBlankGapMax = 131071
    SerialGapMax = 31
    DivLow = 8
    FrameQuotientMax = 31
    RowGapMax = 2097151
    Lanes <- MCLanes
    Readable <- MCReadable
    Words = {1}
CHECK_DEADLOCK FALSE
INVARIANTS  StepsDetermined ReadsBound MachineEventsFirst
