SPECIFICATION Spec
CONSTANTS
    Rows <- MCRows
    Row <- MCRow
    MaxSteps = 5
    RowCapacity = 4
    InstructionBound = 3
    MCycleBound = 6
    BusEventBound = 5
CHECK_DEADLOCK FALSE
INVARIANTS BlocksPartition BlocksWithinBounds CutsExact SegmentFilled
PROPERTY FillingEnds
