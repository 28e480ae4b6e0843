CONSTANTS
    Workers = {w1, w2}
    v1 = v1
    v2 = v2
    v3 = v3
    Versions = {v1, v2}
    NoVersion = NoVersion
    PartitionOf <- MCPartitionOf
    RowCount <- MCRowCount
    FileRows <- MCStableFiles
    BatchSize = 2
    MaxCalls = 2
    MaxFaults = 0

SPECIFICATION Spec

INVARIANTS
    RevisionsAreBlocked

CHECK_DEADLOCK FALSE
