SPECIFICATION Spec
CONSTANTS
    Null = Null
    Baseline <- MCBaseline
    Additive <- MCAdditive
    FieldTypes <- MCFieldTypes
    UnitsPerSecond = 2
    Hash <- MCHash
    Unit = 524288
    Percentile <- MCPercentile
    Rounded <- MCRounded
    MaxObservations = 30
    Years = {1000, 1999, 2000, 9999}
    MaxRows = 3
    MaxValue = 3
INVARIANTS
    ScheduledMonthIsTwoBefore
    WindowsTile
    BoundsAreExact
    AcceptedSourcesAreExact
    ValuesKeepTheirColumns
    BatchesNumberAllRows
    CatalogsMatch
    MeasurementsAgree
    DurationsDifferBelowASecond
    DuplicatesAgree
    PercentileIsLeast
CHECK_DEADLOCK FALSE
