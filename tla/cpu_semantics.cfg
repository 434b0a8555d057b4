CONSTANTS
    Corners <- MCCorners
    DecimalAccumulators <- MCDecimalAccumulators
    Keys <- MCKeys

SPECIFICATION Spec

INVARIANTS
    ExecutionAccepted
    OutcomeBound
    MetadataHonest

CHECK_DEADLOCK FALSE
