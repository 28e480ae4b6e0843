CONSTANTS
    Workers = {w1, w2}
    v1 = v1
    v2 = v2
    v3 = v3
    Versions = {v1, v2}
    NoVersion = NoVersion
    PartitionOf <- MCPartitionOf
    RowCount <- MCRowCount
    FileRows <- MCOneStableFile
    BatchSize = 2
    MaxCalls = 3
    MaxFaults = 1

SPECIFICATION FairSpec

PROPERTIES
    EveryCallReturns
    ReadyCallLoads
    SerialRevisionsAreBlocked

CHECK_DEADLOCK FALSE
