SPECIFICATION Spec
CONSTANTS
    Versions = {1, 2, 3, 4, 5, 6}
    PartitionOf <- MCPartitionOf
    ZonePartition <- MCZonePartition
    Months = {1}
    MaxDagRuns = 2
    MaxFaults = 1
INVARIANTS
    TypeOK
    SummaryIsComplete
    FactsAreUnique
    CompleteMeansCurrent
    FailuresHaveACause
PROPERTIES
    RunsEnd
CHECK_DEADLOCK FALSE
