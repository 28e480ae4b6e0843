--------------------------- MODULE SourceContracts ---------------------------
(***************************************************************************)
(* What a source file must look like (sources/contracts.py), and how its   *)
(* rows become rows of the raw table (ingestion/parquet.py,                *)
(* ingestion/taxi_zones.py and the loaders on top of them).                *)
(*                                                                         *)
(* A schema is a sequence of fields; FieldTypes gives the type every known *)
(* field must have.  Yellow has one field more since 2025, green has none. *)
(* A row of a file is a sequence of values, one for each of its columns; a *)
(* row of a raw table is a function from its columns.                      *)
(***************************************************************************)
EXTENDS Integers, Sequences, SequencesExt

CONSTANTS
    Baseline,       \* YELLOW_BASELINE_FIELDS
    Additive,       \* YELLOW_ADDITIVE_FIELD
    FieldTypes,     \* YELLOW_FIELD_TYPES
    Null            \* a missing value

\* TAXI_ZONE_REQUIRED_FIELDS, and the columns that every raw table adds.
ZoneFields == <<"LocationID", "Borough", "Zone", "service_zone">>
LineageColumns == <<"_source_file_id", "_source_row_number", "_pipeline_run_id", "_ingested_at">>

ASSUME FieldsAssumption ==
    /\ Baseline \in Seq(STRING) /\ IsInjective(Baseline)
    /\ Additive \in STRING /\ Additive \notin ToSet(Baseline)
    /\ ToSet(LineageColumns) \cap (ToSet(Baseline) \cup {Additive}) = {}

FieldNames(schema) == [i \in DOMAIN schema |-> schema[i].name]
Has(schema, name) == name \in ToSet(FieldNames(schema))

Missing(schema) == {name \in ToSet(Baseline) : ~Has(schema, name)}
Unknown(schema, allowed) == ToSet(FieldNames(schema)) \ allowed

FieldsAreValid(schema) ==
    \A i \in DOMAIN schema : schema[i].type = FieldTypes[schema[i].name] /\ schema[i].nullable

\* The names are compared as sets.
ValidateYellow_Bug(schema) ==
    CASE Missing(schema) # {} -> "missing"
      [] Unknown(schema, ToSet(Baseline) \cup {Additive}) # {} -> "unknown"
      [] ~FieldsAreValid(schema) -> "field"
      [] OTHER -> IF Has(schema, Additive) THEN "yellow_v2" ELSE "yellow_v1"

\* validate_yellow_schema: the version, or what is wrong first.
ValidateYellow(schema) ==
    LET expected == IF Has(schema, Additive) THEN Append(Baseline, Additive) ELSE Baseline IN
    IF Missing(schema) # {} THEN "missing"
    ELSE IF Unknown(schema, ToSet(Baseline) \cup {Additive}) # {} THEN "unknown"
    ELSE IF FieldNames(schema) # expected THEN "order"
    ELSE IF ~FieldsAreValid(schema) THEN "field"
    ELSE IF Has(schema, Additive) THEN "yellow_v2" ELSE "yellow_v1"

\* validate_green_schema, for the green fields in place of the yellow ones.
ValidateGreen(schema) ==
    IF Missing(schema) # {} THEN "missing"
    ELSE IF Unknown(schema, ToSet(Baseline)) # {} THEN "unknown"
    ELSE IF FieldNames(schema) # Baseline THEN "order"
    ELSE IF ~FieldsAreValid(schema) THEN "field"
    ELSE "green_v1"

\* validate_taxi_zones: columns in any order, LocationID without null or duplicate.
\* read_csv renames a column that comes again, so it is an unknown one.
ValidateZones(columns, locations) ==
    IF \E name \in ToSet(ZoneFields) : name \notin ToSet(columns) THEN "missing"
    ELSE IF ~IsInjective(columns) \/ ToSet(columns) # ToSet(ZoneFields) THEN "unknown"
    ELSE IF locations = <<>> THEN "empty"
    ELSE IF \E i \in DOMAIN locations : locations[i] = Null THEN "null"
    ELSE IF ~IsInjective(locations) THEN "duplicate" ELSE "accepted"

-----------------------------------------------------------------------------
(* Rows.                                                                    *)

\* values_by_name of a Parquet batch, or a row of csv.DictReader: of columns with
\* one name the last one counts.
ValuesByName(names, row) ==
    [name \in ToSet(names) |->
       row[CHOOSE i \in DOMAIN names :
             names[i] = name /\ \A k \in DOMAIN names : k > i => names[k] # name]]

\* YELLOW_SOURCE_COLUMNS.
YellowColumns == Append(Baseline, Additive)

\* A row of iter_parquet_batches: values by position, null for a column that the
\* file does not have, and then the lineage.
ParquetRow(names, row, columns, lineage) ==
    LET values == ValuesByName(names, row) IN
    [i \in DOMAIN columns |-> IF columns[i] \in DOMAIN values THEN values[columns[i]] ELSE Null]
        \o lineage

\* A row of iter_taxi_zone_batches.
ZoneRow(names, row, lineage) ==
    LET values == ValuesByName(names, row) IN
    <<values["LocationID"], values["Borough"], values["Zone"], values["service_zone"]>> \o lineage

\* In the order of the columns of the table, where the lineage comes first.
CopyColumns_Bug(columns) == LineageColumns \o columns

\* YELLOW_COPY_COLUMNS, GREEN_COPY_COLUMNS and TAXI_ZONE_COPY_COLUMNS.
CopyColumns(columns) == columns \o LineageColumns

\* copy_rows: the database takes the values of a row for these columns in order.
CopyRow(columns, row) ==
    [column \in ToSet(columns) |-> row[CHOOSE k \in DOMAIN columns : columns[k] = column]]

LoadYellow(names, row, lineage) ==
    CopyRow(CopyColumns(YellowColumns), ParquetRow(names, row, YellowColumns, lineage))
LoadGreen(names, row, lineage) ==
    CopyRow(CopyColumns(Baseline), ParquetRow(names, row, Baseline, lineage))
LoadZones(names, row, lineage) ==
    CopyRow(CopyColumns(ZoneFields), ZoneRow(names, row, lineage))

\* The numbering restarts with each batch.
ParquetBatches_Bug(sizes) ==
    [b \in DOMAIN sizes |-> [start |-> 1, rows |-> [k \in 1..sizes[b] |-> k]]]

\* iter_parquet_batches: the reader cuts the file into record batches of these
\* sizes; the rows are given by their numbers.
ParquetBatches(sizes) ==
    FoldLeft(LAMBDA read, n :
               [next |-> read.next + n,
                batches |-> Append(read.batches,
                   [start |-> read.next, rows |-> [k \in 1..n |-> read.next + k - 1]])],
             [next |-> 1, batches |-> <<>>], sizes).batches

FlushRest(read) ==
    IF read.rows = <<>> THEN read.batches
    ELSE Append(read.batches, [start |-> read.next - Len(read.rows), rows |-> read.rows])

\* iter_taxi_zone_batches over a file of n rows: rows are collected one by one
\* and yielded when there are size of them, and at the end of the file.
ZoneBatches(n, size) ==
    FlushRest(FoldLeft(LAMBDA read, row :
        LET rows == Append(read.rows, read.next) IN
        IF Len(rows) = size
        THEN [next |-> read.next + 1, rows |-> <<>>,
              batches |-> Append(read.batches, [start |-> read.next + 1 - Len(rows), rows |-> rows])]
        ELSE [next |-> read.next + 1, rows |-> rows, batches |-> read.batches],
        [next |-> 1, rows |-> <<>>, batches |-> <<>>], [i \in 1..n |-> i]))

\* The counts a loader returns: every batch is counted before and after its COPY.
RowsRead(batches) == FoldLeft(LAMBDA total, batch : total + Len(batch.rows), 0, batches)

-----------------------------------------------------------------------------
(* Reference definitions.                                                   *)

YellowSchema(names) ==
    [i \in DOMAIN names |-> [name |-> names[i], type |-> FieldTypes[names[i]], nullable |-> TRUE]]

\* A raw row has the values of the file in the columns of their names, null in the
\* columns that the file does not have, and its lineage.
KeepsColumns(stored, names, row, columns, lineage) ==
    /\ \A i \in DOMAIN names : names[i] \in ToSet(columns) => stored[names[i]] = row[i]
    /\ \A column \in ToSet(columns) \ ToSet(names) : stored[column] = Null
    /\ \A k \in DOMAIN LineageColumns : stored[LineageColumns[k]] = lineage[k]

\* The rows are numbered from 1 through the file, each batch from where it starts.
NumbersRows(batches, n) ==
    /\ FlattenSeq([b \in DOMAIN batches |-> batches[b].rows]) = [i \in 1..n |-> i]
    /\ \A b \in DOMAIN batches : batches[b].rows # <<>> => batches[b].start = batches[b].rows[1]
=============================================================================
