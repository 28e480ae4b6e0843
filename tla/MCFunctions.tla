----------------------------- MODULE MCFunctions -----------------------------
(***************************************************************************)
(* The pure parts of the platform against reference definitions: the       *)
(* behaviour picks one input, and every invariant says what the functions  *)
(* return for the inputs of its kind.                                      *)
(***************************************************************************)
EXTENDS TargetMonth, Measurements

CONSTANTS
    Years,          \* years of the months
    MaxRows,        \* length of tables, schemas, batch lists and observations
    MaxValue        \* highest observation, batch size and rows of a batch

ASSUME InputsAssumption ==
    /\ Years \subseteq Nat \ {0} /\ MaxRows \in Nat /\ MaxValue \in Nat
    /\ MaxRows + 1 <= MaxObservations

VARIABLE input

MCBaseline == <<"a", "b">>
MCAdditive == "c"
MCFieldTypes == [a |-> 1, b |-> 2, c |-> 1]

\* Doubles with 13 bits in place of 53: the nearest one to num / den units, of two
\* nearest ones the even one.  Ranks go wrong for 28 and 56 in 100 of 25.
Nearest(num, den) ==
    LET ulps == {2 ^ k : k \in 0..12}
        ulp == CHOOSE u \in ulps : num < den * u * 8192 /\ \A w \in ulps : w < u => num >= den * w * 8192
        floor == num \div (den * ulp)
        rest == num % (den * ulp) IN
    ulp * (IF 2 * rest > den * ulp \/ (2 * rest = den * ulp /\ floor % 2 = 1) THEN floor + 1 ELSE floor)

MCPercentile(p) == Nearest(p * Unit, 100)
MCRounded(x) == Nearest(x, 1)

\* Different rows may have one hash.
MCHash(row) == row["store_and_fwd_flag"]

Init == input = [kind |-> "none"]

SeqsUpTo(S, n) == UNION {[1..k -> S] : k \in 0..n}

-----------------------------------------------------------------------------
PickMonths ==
    /\ input.kind = "none"
    /\ \E a, b \in [year : Years, month : 1..12] :
          input' = [kind |-> "months", a |-> a, b |-> b]

\* The sources of one or two partitions; taxi zones have no month.
PickSources ==
    /\ input.kind = "none"
    /\ \E status, other \in {"ready", "loaded"}, service, of \in {"yellow", "green", "zone"},
          a, b \in [year : Years, month : 1..12] :
          LET Source(s, t, c) == [status |-> s, service |-> t, period |-> IF t = "zone" THEN <<>> ELSE <<c>>] IN
          input' = [kind |-> "sources", sources |-> {Source(status, service, a), Source(other, of, b)}]

PickSchema ==
    /\ input.kind = "none"
    /\ \E schema \in SeqsUpTo([name : {"a", "b", "c", "x"}, type : {1, 2}, nullable : BOOLEAN], MaxRows) :
          input' = [kind |-> "schema", schema |-> schema]

\* Any header over few rows, and few headers over any rows.
PickZones ==
    /\ input.kind = "none"
    /\ \/ \E columns \in SeqsUpTo(ToSet(ZoneFields) \cup {"Other"}, Len(ZoneFields) + 1), locations \in {<<>>, <<1>>} :
             input' = [kind |-> "zones", columns |-> columns, locations |-> locations]
       \/ \E columns \in {ZoneFields, Tail(ZoneFields)}, locations \in SeqsUpTo({1, 2, Null}, MaxRows) :
             input' = [kind |-> "zones", columns |-> columns, locations |-> locations]

\* A file as the record batches its reader cuts it into, or as the number of its rows.
PickBatches ==
    /\ input.kind = "none"
    /\ \/ \E sizes \in SeqsUpTo(1..MaxValue, MaxRows) : input' = [kind |-> "parquet", sizes |-> sizes]
       \/ \E n \in 0..(MaxRows * MaxValue), size \in 1..MaxValue :
             input' = [kind |-> "csv", n |-> n, size |-> size]

PickObservations ==
    /\ input.kind = "none"
    /\ \E values \in SeqsUpTo(1..MaxValue, MaxRows + 1) \ {<<>>}, p \in {1, 50, 67, 95, 100} :
          input' = [kind |-> "observations", values |-> values, p |-> p]

\* The number of observations and the percentile alone.
PickRank ==
    /\ input.kind = "none"
    /\ \E n \in 1..MaxObservations, p \in 1..100 : input' = [kind |-> "rank", n |-> n, p |-> p]

-----------------------------------------------------------------------------
(* Tables.  Attributes of one class have the same value in a row; the month *)
(* is the time from 0 to 20.                                                *)

Window == <<0, 20>>

\* A time, a duration, an amount, a code, a flag and a location make a row.
RowOf(service, from, to, amount, code, flag, location) ==
    [a \in TripModel(service) |->
       CASE a = "pickup_datetime" -> from
         [] a = "dropoff_datetime" -> to
         [] a = "store_and_fwd_flag" -> flag
         [] a \in {"pickup_location_id", "dropoff_location_id"} -> location
         [] a \in {"vendor_id", "rate_code_id", "payment_type", "trip_type"} -> code
         [] OTHER -> amount]

\* Ordinary, in no month, early by less and by more than a second, and null rows.
SomeRows(service) ==
    {RowOf(service, 0, 5, 0, 1, "N", 1), RowOf(service, 20, 25, -1, 9, "X", 9),
     RowOf(service, 19, 18, 1, 6, "Y", 2), RowOf(service, -1, -4, -1, 0, Null, Null),
     RowOf(service, Null, 7, Null, Null, "N", 1), RowOf(service, 7, Null, 2, Null, Null, 9)}

PickTable ==
    /\ input.kind = "none"
    /\ \E service \in {"yellow", "green"}, zones \in {<<1>>, <<1, 2>>, <<1, 1>>} :
          \E table \in SeqsUpTo(SomeRows(service), MaxRows) :
             input' = [kind |-> "table", service |-> service, zones |-> zones, table |-> table]

Next ==
    \/ PickMonths \/ PickSources \/ PickSchema \/ PickZones \/ PickBatches
    \/ PickObservations \/ PickRank \/ PickTable

Spec == Init /\ [][Next]_input

-----------------------------------------------------------------------------
(* Months.                                                                  *)

FourDigitMonths == [year : 1000..9999, month : 1..12]

\* The scheduled month is the calendar month two before the logical date, also
\* across the turn of a year; a month is taken as given when its year has four
\* digits, and half a month is refused (resolve_month).
ScheduledMonthIsTwoBefore ==
    input.kind = "months" =>
        /\ ResolveMonth(input.a, <<>>, <<>>) = <<PreviousMonth(PreviousMonth(input.a))>>
        /\ \A y \in {999, input.b.year, 10000}, m \in 0..13 :
              /\ ResolveMonth(input.a, <<y>>, <<>>) = <<>> /\ ResolveMonth(input.a, <<>>, <<m>>) = <<>>
              /\ ResolveMonth(input.a, <<y>>, <<m>>) =
                    IF MonthOf(y, m) \in FourDigitMonths THEN <<MonthOf(y, m)>> ELSE <<>>

\* The windows of the checks and of the profiles tile the calendar: a date is
\* inside the window of its own month and of no other one.
WindowsTile ==
    input.kind = "months" /\ HasWindow(input.a) =>
        \A date \in DatesOf(input.b) : OutsideMonth(date, input.a) <=> input.a # input.b

\* The dates the analytics page asks for are the first and the last of the
\* dates of the trip months that are loaded, leap days included, and it asks for
\* none when no trip month is (loaded_date_bounds).
BoundsAreExact ==
    input.kind = "sources" =>
        LET bounds == LoadedDateBounds(input.sources)
            dates == UNION {DatesOf(a) : a \in LoadedMonths(input.sources)} IN
        IF dates = {} THEN bounds = <<>>
        ELSE /\ bounds[1] \in dates /\ bounds[2] \in dates
             /\ \A date \in dates : ~DateBefore(date, bounds[1]) /\ ~DateBefore(bounds[2], date)

-----------------------------------------------------------------------------
(* Sources.                                                                 *)

\* Exactly the frozen schemas are accepted, each under its own version, and so
\* are zone files whose locations can be joined (sources/contracts.py).
AcceptedSourcesAreExact ==
    /\ input.kind = "schema" =>
          LET schema == input.schema IN
          /\ ValidateYellow(schema) = "yellow_v1" <=> schema = YellowSchema(Baseline)
          /\ ValidateYellow(schema) = "yellow_v2" <=> schema = YellowSchema(YellowColumns)
          /\ ValidateGreen(schema) = "green_v1" <=> schema = YellowSchema(Baseline)
    /\ input.kind = "zones" =>
          (ValidateZones(input.columns, input.locations) = "accepted" <=>
              /\ IsInjective(input.columns) /\ ToSet(input.columns) = ToSet(ZoneFields)
              /\ Cardinality(ToSet(input.locations) \ {Null}) = Len(input.locations)
              /\ input.locations # <<>>)

\* The database stores every value of a file in the column of its name, in
\* whatever order the file has its columns: a column the file lacks is null, never
\* shifted, and the lineage is in its own columns (iter_parquet_batches,
\* iter_taxi_zone_batches and the columns their loaders give to copy_rows).
ValuesKeepTheirColumns ==
    /\ input.kind = "schema" /\ IsInjective(FieldNames(input.schema)) =>
          LET names == FieldNames(input.schema)
              row == [i \in DOMAIN names |-> i]
              lineage == [k \in DOMAIN LineageColumns |-> -k] IN
          /\ KeepsColumns(LoadYellow(names, row, lineage), names, row, YellowColumns, lineage)
          /\ KeepsColumns(LoadGreen(names, row, lineage), names, row, Baseline, lineage)
    /\ input.kind = "zones" /\ ValidateZones(input.columns, input.locations) = "accepted" =>
          LET row == [i \in DOMAIN input.columns |-> i]
              lineage == [k \in DOMAIN LineageColumns |-> -k] IN
          KeepsColumns(LoadZones(input.columns, row, lineage), input.columns, row, ZoneFields, lineage)

\* Rows are numbered from 1 without gap through all batches of a file, and all
\* are yielded, the last ones in a batch of their own (both iterators).
BatchesNumberAllRows ==
    /\ input.kind = "parquet" =>
          NumbersRows(ParquetBatches(input.sizes), FoldLeft(+, 0, input.sizes))
    /\ input.kind = "csv" =>
          LET batches == ZoneBatches(input.n, input.size) IN
          /\ NumbersRows(batches, input.n)
          /\ RowsRead(batches) = input.n
          /\ \A b \in DOMAIN batches : Len(batches[b].rows) \in 1..input.size

-----------------------------------------------------------------------------
(* Measurements.                                                            *)

Measured == QualityMeasurements(input.table, input.service, TripModel(input.service), Window, input.zones)

\* Every rule of a catalog finds its measurement, and no measurement is dropped
\* for want of a rule (rules.py, the lookup in run_quality_checks).
CatalogsMatch ==
    input.kind = "table" => DOMAIN Measured = RulesByDataset(input.service)

\* SQL and the profile agree on every count they both make (a profile without a
\* known pickup has no count of the month, where SQL finds 0), and on a zone file
\* with unique locations no check fails for more rows than there are.
MeasurementsAgree ==
    input.kind = "table" =>
        LET table == input.table
            profile == [a \in TripModel(input.service) |-> Column(table, a)]
            duration == DurationProfile(table, Window) IN
        /\ Measured[<<"month", "pickup_datetime">>] =
              IF duration.outside_month = Null THEN 0 ELSE duration.outside_month
        /\ \A name \in DOMAIN Measured :
              /\ name[1] = "negative" => Measured[name] = NumericProfile(profile[name[2]]).count_lt_0
              /\ name[1] = "zero" => Measured[name] = NumericProfile(profile[name[2]]).count_eq_0
              /\ name[1] = "null" => Measured[name] = NullCount(profile[name[2]])
              /\ name[1] = "domain" =>
                    LET counts == DomainProfile(profile[name[2]])
                        allowed == DomainValues(input.service)[name[2]] IN
                    Measured[name] + SumFunctionOnSet(counts, DOMAIN counts \cap allowed)
                        + NullCount(profile[name[2]]) = Len(table)
              /\ ValidateZones(ZoneFields, input.zones) = "accepted" =>
                    /\ name[1] = "zone" =>
                          Measured[name] = ZoneReferenceProfile(profile[name[2]], ToSet(input.zones))
                    /\ Measured[name] <= Len(table)

\* The profile takes a trip that ends less than a second before it starts for
\* one that takes no time; that is its only difference to the check.
DurationsDifferBelowASecond ==
    input.kind = "table" =>
        LET early == {i \in DOMAIN input.table :
                        LET row == input.table[i] IN
                        /\ Null \notin {row["pickup_datetime"], row["dropoff_datetime"]}
                        /\ row["dropoff_datetime"] \in
                              (row["pickup_datetime"] - UnitsPerSecond + 1)..(row["pickup_datetime"] - 1)} IN
        Measured[<<"order", "dropoff_datetime">>] - Cardinality(early)
            = DurationProfile(input.table, Window).dropoff_before_pickup

\* The three ways to count duplicates agree, collisions of hashes included.
DuplicatesAgree ==
    input.kind = "table" =>
        /\ ExactDuplicates(input.table) = DuplicateMeasurement(input.table)
        /\ DataframeDuplicates(input.table) = DuplicateMeasurement(input.table)

\* At least the share p of the observations lies at or below the percentile.  Below
\* it lies less than that, or just that when the double of p / 100 is higher than
\* p / 100, as the rank may then be one too high (nearest_rank_percentile; the
\* scripts take 0.95, whose double is lower).
PercentileIsLeast ==
    /\ input.kind = "rank" =>
          LET r == Rank(input.n, input.p)
              share == input.p * input.n IN
          /\ r \in 1..input.n /\ 100 * r >= share /\ 100 * (r - 1) <= share
          /\ 100 * Percentile(input.p) <= input.p * Unit => 100 * (r - 1) < share
    /\ input.kind = "observations" =>
          LET v == NearestRank(input.values, input.p)
              share == input.p * Len(input.values)
              below == 100 * Rows(input.values, LAMBDA x : x < v) IN
          /\ 100 * Rows(input.values, LAMBDA x : x <= v) >= share
          /\ below <= share
          /\ 100 * Percentile(input.p) <= input.p * Unit => below < share
=============================================================================
