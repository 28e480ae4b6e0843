---------------------------- MODULE Measurements ----------------------------
(***************************************************************************)
(* What is counted in the rows of one source, twice: by SQL for the        *)
(* quality checks (quality/queries.py, quality/rules.py) and by Arrow and  *)
(* pandas for the profiles (profiling/statistics.py); and the percentile   *)
(* of the benchmarks (benchmarking.py).                                    *)
(*                                                                         *)
(* A table is a sequence of rows, a row a function from attributes to      *)
(* values, and a check is named <<kind, attribute>>.  Times are counted in *)
(* the unit of the file, of which UnitsPerSecond make a second.            *)
(*                                                                         *)
(* A definition whose name ends in _Bug is a mistake one could make in the *)
(* code of the definition that follows it; nothing uses it.                *)
(***************************************************************************)
EXTENDS SourceContracts, FiniteSets, Functions

CONSTANTS
    UnitsPerSecond,
    Hash(_),        \* hash_pandas_object of a row
    Unit,           \* one, counted in the units that all doubles in play are multiples of
    Percentile(_),  \* the double nearest to p / 100, in these units
    Rounded(_),     \* the double nearest to a number of units
    MaxObservations \* bound on the observations of a percentile

ASSUME UnitAssumption == UnitsPerSecond \in Nat \ {0}

\* A missing value is none of those that are counted or compared.
ASSUME NullAssumption == Null \notin Int \cup STRING \cup BOOLEAN

\* The error of the two roundings, of p / 100 and of its product, is far below one
\* in a hundred; and rounding is monotone, so as whole numbers are doubles no
\* product is rounded beyond one.
ASSUME RoundingAssumption ==
    /\ Unit \in Nat \ {0} /\ MaxObservations \in Nat
    /\ \A p \in 1..100 :
         /\ Percentile(p) \in 1..Unit
         /\ \A n \in 1..MaxObservations :
              LET product == Rounded(n * Percentile(p)) IN
              /\ product \in Nat
              /\ p * n * Unit - Unit < 100 * product /\ 100 * product < p * n * Unit + Unit
              /\ \A k \in 1..n : n * Percentile(p) <= k * Unit => product <= k * Unit

Column(table, a) == [i \in DOMAIN table |-> table[i][a]]
Copies(values, v) == Cardinality({i \in DOMAIN values : values[i] = v})
Rows(table, P(_)) == Cardinality({i \in DOMAIN table : P(table[i])})
NullCount(column) == Copies(column, Null)

\* The update of a dictionary.
Updated(f, g) == [x \in DOMAIN f \cup DOMAIN g |-> IF x \in DOMAIN g THEN g[x] ELSE f[x]]

-----------------------------------------------------------------------------
(* The catalogs.                                                            *)

Amounts == {"trip_distance", "fare_amount", "total_amount", "extra", "mta_tax", "tip_amount",
            "tolls_amount", "improvement_surcharge", "congestion_surcharge", "cbd_congestion_fee"}

\* The measured columns of YellowTrip and GreenTrip.
TripModel(service) ==
    Amounts
    \cup {"pickup_datetime", "dropoff_datetime", "pickup_location_id", "dropoff_location_id",
          "passenger_count", "vendor_id", "rate_code_id", "store_and_fwd_flag", "payment_type"}
    \cup (IF service = "yellow" THEN {"airport_fee"} ELSE {"ehail_fee", "trip_type"})

YellowRules ==
    {<<"month", "pickup_datetime">>, <<"order", "dropoff_datetime">>}
    \cup {<<"negative", a>> : a \in Amounts \cup {"airport_fee"}}
    \cup {<<"zero", a>> : a \in {"trip_distance", "passenger_count"}}
    \cup {<<"null", a>> : a \in {"passenger_count", "rate_code_id", "store_and_fwd_flag",
                                 "congestion_surcharge", "airport_fee"}}
    \cup {<<"domain", a>> : a \in {"vendor_id", "rate_code_id", "store_and_fwd_flag", "payment_type"}}
    \cup {<<"zone", a>> : a \in {"pickup_location_id", "dropoff_location_id"}}
    \cup {<<"duplicate", "row">>}

\* Only the negative amounts of the airport fee are taken out.
GreenRules_Bug ==
    (YellowRules \ {<<"negative", "airport_fee">>})
    \cup {<<"negative", "ehail_fee">>, <<"null", "ehail_fee">>, <<"domain", "trip_type">>}

GreenRules ==
    {rule \in YellowRules : rule[2] # "airport_fee"}
    \cup {<<"negative", "ehail_fee">>, <<"null", "ehail_fee">>, <<"domain", "trip_type">>}

RulesByDataset(service) == IF service = "yellow" THEN YellowRules ELSE GreenRules

\* DOMAIN_VALUES and GREEN_DOMAIN_VALUES.
DomainValues(service) ==
    LET shared == [vendor_id |-> {1, 2, 6, 7}, rate_code_id |-> {1, 2, 3, 4, 5, 6, 99},
                   store_and_fwd_flag |-> {"N", "Y"}, payment_type |-> 0..5] IN
    IF service = "yellow" THEN shared
    ELSE Updated(shared, [payment_type |-> 1..6, trip_type |-> {1, 2}])

-----------------------------------------------------------------------------
(* quality/queries.py.                                                      *)

\* Comparisons of SQL: null if a side is null.
Less(a, b) == IF Null \in {a, b} THEN Null ELSE a < b
Equal(a, b) == IF Null \in {a, b} THEN Null ELSE a = b

\* Without the test for null and the filter that takes null for false.
Condition_Bug(name, row, window) ==
    LET value == row[name[2]] IN
    CASE name[1] = "month" -> value = Null \/ value < window[1] \/ value >= window[2]
      [] name[1] = "order" -> Less(value, row["pickup_datetime"]) # FALSE
      [] name[1] = "negative" -> Less(value, 0) # FALSE
      [] name[1] = "zero" -> Equal(value, 0) = TRUE
      [] name[1] = "null" -> value = Null

\* Whether the filter of a scalar check takes the row.
Condition(name, row, window) ==
    LET value == row[name[2]] IN
    CASE name[1] = "month" -> value # Null /\ (value < window[1] \/ value >= window[2])
      [] name[1] = "order" -> Less(value, row["pickup_datetime"]) = TRUE
      [] name[1] = "negative" -> Less(value, 0) = TRUE
      [] name[1] = "zero" -> Equal(value, 0) = TRUE
      [] name[1] = "null" -> value = Null

\* The conditions for a trip model with these attributes.
ScalarChecks(attributes) ==
    {<<"month", "pickup_datetime">>, <<"order", "dropoff_datetime">>}
    \cup {<<"negative", a>> : a \in Amounts}
    \cup {<<"zero", a>> : a \in {"trip_distance", "passenger_count"}}
    \cup {<<"null", a>> : a \in {"passenger_count", "rate_code_id", "store_and_fwd_flag",
                                 "congestion_surcharge"}}
    \cup {<<kind, a>> : kind \in {"negative", "null"}, a \in {"airport_fee", "ehail_fee"} \cap attributes}

ScalarMeasurements(table, attributes, window) ==
    [name \in ScalarChecks(attributes) |-> Rows(table, LAMBDA row : Condition(name, row, window))]

\* One group for every unexpected value, and the sum of their counts.
DomainMeasurements(table, service) ==
    LET allowed == DomainValues(service) IN
    [name \in {<<"domain", a>> : a \in DOMAIN allowed} |->
       LET column == Column(table, name[2])
           groups == ToSet(column) \ (allowed[name[2]] \cup {Null}) IN
       SumFunctionOnSet([v \in groups |-> Copies(column, v)], groups)]

\* An outer join: the zone rows of a location, or 0 for the row without one.
JoinedZones(zones, location) ==
    LET found == {k \in DOMAIN zones : zones[k] = location} IN IF found = {} THEN {0} ELSE found

\* A row of the trips comes once for every pair of zones it is joined with.
ZoneMeasurements(table, zones) ==
    LET joined == UNION {{i} \X JoinedZones(zones, table[i]["pickup_location_id"])
                             \X JoinedZones(zones, table[i]["dropoff_location_id"]) : i \in DOMAIN table}
        side == <<"", "pickup_location_id", "dropoff_location_id">> IN
    [name \in {<<"zone", side[2]>>, <<"zone", side[3]>>} |->
       Cardinality({j \in joined : /\ table[j[1]][name[2]] # Null
                                   /\ j[IF name[2] = side[2] THEN 2 ELSE 3] = 0})]

\* GROUP BY every source field: nulls are equal there.
DuplicateMeasurement(table) ==
    LET groups == {row \in ToSet(table) : Copies(table, row) > 1} IN
    [participating |-> SumFunctionOnSet([row \in groups |-> Copies(table, row)], groups),
     excess |-> SumFunctionOnSet([row \in groups |-> Copies(table, row) - 1], groups),
     groups |-> Cardinality(groups)]

\* The measurements run_quality_checks puts together.
QualityMeasurements(table, service, attributes, window, zones) ==
    LET scalar == ScalarMeasurements(table, attributes, window)
        domain == Updated(scalar, DomainMeasurements(table, service))
        zone == Updated(domain, ZoneMeasurements(table, zones)) IN
    Updated(zone, [name \in {<<"duplicate", "row">>} |-> DuplicateMeasurement(table).participating])

-----------------------------------------------------------------------------
(* profiling/statistics.py.                                                 *)

\* The values that drop_null leaves over.
Known(column) == ToSet(column) \ {Null}

NumericProfile(column) ==
    [null_count |-> NullCount(column),
     count_lt_0 |-> Rows(column, LAMBDA v : v # Null /\ v < 0),
     count_eq_0 |-> Rows(column, LAMBDA v : v # Null /\ v = 0),
     count_gt_0 |-> Rows(column, LAMBDA v : v # Null /\ v > 0)]

DomainProfile(column) == [v \in Known(column) |-> Copies(column, v)]

\* Division to the floor, as Python's // does it.
DividedDuration_Bug(units) == units \div UnitsPerSecond

\* pc.divide on integers rounds towards zero.
DividedDuration(units) ==
    IF units < 0 THEN -((-units) \div UnitsPerSecond) ELSE units \div UnitsPerSecond

\* pc.sum of truth values: nulls are left out, and the sum of nothing is null.
SumOf(flags) == IF Known(flags) = {} THEN Null ELSE Copies(flags, TRUE)

DurationProfile(table, window) ==
    LET pickup == Column(table, "pickup_datetime")
        dropoff == Column(table, "dropoff_datetime")
        unknown == [i \in DOMAIN table |-> Null \in {pickup[i], dropoff[i]}]
        duration == [i \in DOMAIN table |->
            IF unknown[i] THEN Null ELSE DividedDuration(dropoff[i] - pickup[i])] IN
    [dropoff_before_pickup |-> NumericProfile(duration).count_lt_0,
     either_null |-> SumOf(unknown),
     outside_month |-> SumOf([i \in DOMAIN table |->
        IF pickup[i] = Null THEN Null ELSE pickup[i] < window[1] \/ pickup[i] >= window[2]])]

\* unmatched_count of zone_reference_profile.
ZoneReferenceProfile(column, ids) ==
    LET counts == DomainProfile(column) IN
    Len(column) - NullCount(column) - SumFunctionOnSet(counts, DOMAIN counts \cap ids)

DuplicateProfile(counts) ==
    [participating |-> SumFunctionOnSet(counts, DOMAIN counts),
     excess |-> SumFunctionOnSet([row \in DOMAIN counts |-> counts[row] - 1], DOMAIN counts),
     groups |-> Cardinality(DOMAIN counts)]

\* Rows with one hash are taken for equal.
ExactDuplicates_Bug(table) ==
    LET hashes == [i \in DOMAIN table |-> Hash(table[i])] IN
    DuplicateProfile([h \in {x \in ToSet(hashes) : Copies(hashes, x) > 1} |-> Copies(hashes, h)])

\* exact_duplicate_profile: the first pass finds the hashes that occur twice, the
\* second compares the rows that have one of them.
\* That a row has one hash in whichever batch it is, with missing integers and
\* zeros of either sign, is what _stable_duplicate_frame is for: it is assumed.
ExactDuplicates(table) ==
    LET hashes == [i \in DOMAIN table |-> Hash(table[i])]
        candidates == {h \in ToSet(hashes) : Copies(hashes, h) > 1}
        kept == Restrict(table, {i \in DOMAIN table : hashes[i] \in candidates}) IN
    DuplicateProfile([row \in {r \in ToSet(kept) : Copies(kept, r) > 1} |-> Copies(kept, row)])

\* dataframe_duplicate_profile: a mask of all rows of a group, and of all but the first.
DataframeDuplicates(table) ==
    LET again == {i \in DOMAIN table : \E k \in 1..(i - 1) : table[k] = table[i]}
        mask == {i \in DOMAIN table : \E k \in DOMAIN table \ {i} : table[k] = table[i]} IN
    [participating |-> Cardinality(mask), excess |-> Cardinality(again),
     groups |-> Cardinality({table[i] : i \in mask})]

-----------------------------------------------------------------------------
(* benchmarking.py.                                                         *)

\* The rank is rounded down.
Rank_Bug(n, p) ==
    LET product == Rounded(n * Percentile(p)) IN
    IF product < Unit THEN 1 ELSE product \div Unit

\* math.ceil(percentile * len(ordered)): the product is a double itself.
Rank(n, p) == (Rounded(n * Percentile(p)) + Unit - 1) \div Unit

\* sorted(): the values in order, each as often as before.
Sorted(values) ==
    CHOOSE s \in [DOMAIN values -> ToSet(values)] :
        /\ \A i, j \in DOMAIN s : i < j => s[i] <= s[j]
        /\ \A v \in ToSet(values) : Copies(s, v) = Copies(values, v)

\* nearest_rank_percentile for the percentile that is written p / 100.
NearestRank(values, p) == Sorted(values)[Rank(Len(values), p)]
=============================================================================
