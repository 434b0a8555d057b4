SPECIFICATION Spec
CONSTANTS
    Total = 6
    SegmentEnd <- MCSegmentEnd
    Capacity = 2
    MaxSegments = 3
    HeaderBytes = 1
    MaxStreamBytes = 7
    Limits = {9}
    Pids = {1, 2}
    Dirs <- MCSplitDirs
    DirOf <- MCSplitDirOf
    EndpointMatches = TRUE
    MaxFaults = 2
    None = None
    Junk = Junk
INVARIANT CheckpointCovered
CHECK_DEADLOCK FALSE
