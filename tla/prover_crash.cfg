SPECIFICATION FairSpec
CONSTANTS
    Total = 6
    SegmentEnd <- MCSegmentEnd
    Capacity = 2
    MaxSegments = 3
    HeaderBytes = 1
    MaxStreamBytes = 7
    Limits = {1, 3}
    Pids = {1, 2, 3, 4}
    Dirs <- MCOneDir
    DirOf <- MCOneDirOf
    EndpointMatches = TRUE
    MaxFaults = 3
    None = None
    Junk = Junk
INVARIANTS
    TypeOK
    CheckpointCovered
    ResumeAccepted
    ReceiptWhole
    AppendNeverRefused
PROPERTIES
    CommittedIsFinished
    PauseIsInspectable
    ImplementsProofLog
CHECK_DEADLOCK FALSE
