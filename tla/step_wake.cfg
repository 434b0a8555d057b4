SPECIFICATION FairSpec
CONSTANTS
    DivModulus = 8
    Period <- MCOnePeriod
    CounterMax = 1
    LineDots = 12
    OamDots = 4
    TransferDots = 8
    Lines = 2
    VBlankLine = 1
    SerialTCycles = 16
    DmaLength = 7
    ChunkMCycles = 6
    ByteMax = 27
    Cycles = {1}
    Accesses <- MCWakeAccesses
    PushAccesses <- MCWakePushes
    Controls <- MCWakeControls
PROPERTY SleepEnds
