CONSTANTS
    Workers = {w1, w2, w3}
    v1 = v1
    v2 = v2
    v3 = v3
    Versions = {v1, v2}
    NoVersion = NoVersion
    PartitionOf <- MCPartitionOf
    RowCount <- MCRowCount
    FileRows <- MCChangingFiles
    BatchSize = 2
    MaxCalls = 4
    MaxFaults = 1

SPECIFICATION Spec

INVARIANTS
    TypeOK
    LoadIsAtomic
    AttemptsAgreeWithSource
    SomeVersionLoadable
    OrphansAreFaults

PROPERTIES
    HistoryIsFinal
    ImplementsSourceLedger

SYMMETRY WorkerSymmetry

CHECK_DEADLOCK FALSE
