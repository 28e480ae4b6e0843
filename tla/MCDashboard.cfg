SPECIFICATION Spec
CONSTANTS
    Evaluators = {e1, e2}
    Runs = {1, 2}
    PartitionOf <- MCPartitionOf
    Zones = {1, 2}
    Checks = 2
    Severity <- MCSeverity
    RowsFailed <- MCRowsFailed
    MaxEvaluations = 2
    MaxFaults = 1
    StartedAt <- MCStartedAt
    PageSize = 1
    MaxReadings = 1
INVARIANTS
    TypeOK
    ResultsOfOneEvaluation
    NoRunIsMissed
    RepeatsAreBounded
PROPERTIES
    LoneEvaluationsCount
    EvaluationsEnd
CHECK_DEADLOCK FALSE
