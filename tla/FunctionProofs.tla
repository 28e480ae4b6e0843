---------------------------- MODULE FunctionProofs ----------------------------
(***************************************************************************)
(* Proofs about the pure parts of the platform, for inputs of any length   *)
(* and any years: the contracts of the sources, the measurements of the    *)
(* checks and of the profiles, the percentile and the batches, and what    *)
(* MCFunctions says of them and of the months.  FoldLemmas has the         *)
(* inductions they rest on.                                                *)
(***************************************************************************)
EXTENDS MCFunctions, TargetMonthProofs, FoldLemmas, FunctionTheorems

\* A field of a schema with these names and types.
Field(Names, Types) == [name : Names, type : Types, nullable : BOOLEAN]

-----------------------------------------------------------------------------
(* Schemas (sources/contracts.py).                                          *)

\* The names of the lineage and those of the zones.
LEMMA FourColumns ==
    /\ LineageColumns \in Seq(ToSet(LineageColumns)) /\ Len(LineageColumns) = 4
    /\ DOMAIN LineageColumns = 1..4
    /\ \A k, l \in 1..4 : LineageColumns[k] = LineageColumns[l] => k = l
    /\ ZoneFields \in Seq(ToSet(ZoneFields)) /\ Len(ZoneFields) = 4 /\ DOMAIN ZoneFields = 1..4
    /\ \A k, l \in 1..4 : ZoneFields[k] = ZoneFields[l] => k = l
    /\ \A k, l \in 1..4 : LineageColumns[k] # ZoneFields[l]
<1>1. DOMAIN LineageColumns = 1..4 /\ DOMAIN ZoneFields = 1..4
  BY DEF LineageColumns, ZoneFields
<1>2. Len(LineageColumns) = 4 /\ Len(ZoneFields) = 4
  BY DEF LineageColumns, ZoneFields
<1>3. LineageColumns = [i \in 1..4 |-> LineageColumns[i]]
  BY DEF LineageColumns
<1>4. ZoneFields = [i \in 1..4 |-> ZoneFields[i]]
  BY DEF ZoneFields
<1>5. \A k, l \in 1..4 : LineageColumns[k] = LineageColumns[l] => k = l
  BY DEF LineageColumns
<1>6. \A k, l \in 1..4 : ZoneFields[k] = ZoneFields[l] => k = l
  BY DEF ZoneFields
<1>7. \A k, l \in 1..4 : LineageColumns[k] # ZoneFields[l]
  BY DEF LineageColumns, ZoneFields
<1>8. /\ LineageColumns \in [1..4 -> ToSet(LineageColumns)]
      /\ ZoneFields \in [1..4 -> ToSet(ZoneFields)]
  BY <1>1, <1>3, <1>4 DEF ToSet
<1>9. ASSUME NEW S, NEW n \in Nat, NEW f \in [1..n -> S] PROVE f \in Seq(S)
  OBVIOUS
<1>10. LineageColumns \in Seq(ToSet(LineageColumns)) /\ ZoneFields \in Seq(ToSet(ZoneFields))
  <2>1. 4 \in Nat
    OBVIOUS
  <2>. QED  BY <1>8, <1>9, <2>1, Zenon
<1>. QED  BY <1>1, <1>2, <1>5, <1>6, <1>7, <1>10

\* The first elements are those of one sequence, and the rest are those of the other.
Joins(st, s, t) ==
    /\ DOMAIN st = 1..(Len(s) + Len(t))
    /\ \A i \in 1..Len(s) : st[i] = s[i]
    /\ \A k \in 1..Len(t) : st[Len(s) + k] = t[k]

LEMMA JoinedSequences ==
    ASSUME NEW S, NEW T, NEW s \in Seq(S), NEW t \in Seq(T)
    PROVE  Joins(s \o t, s, t)
<1>0. s \in Seq(S \cup T) /\ t \in Seq(S \cup T)
  OBVIOUS
<1>1. Len(s) \in Nat /\ Len(t) \in Nat /\ s \o t \in Seq(S \cup T) /\ Len(s \o t) = Len(s) + Len(t)
  BY <1>0
<1>2. \A i \in 1..(Len(s) + Len(t)) : (s \o t)[i] = IF i <= Len(s) THEN s[i] ELSE t[i - Len(s)]
  BY <1>0
<1>3. ASSUME NEW k \in 1..Len(t) PROVE (s \o t)[Len(s) + k] = t[k]
  <2>1. Len(s) + k \in 1..(Len(s) + Len(t)) /\ ~(Len(s) + k <= Len(s)) /\ (Len(s) + k) - Len(s) = k
    BY <1>1
  <2>. QED  BY <1>2, <2>1
<1>4. ASSUME NEW i \in 1..Len(s) PROVE (s \o t)[i] = s[i]
  <2>1. i \in 1..(Len(s) + Len(t)) /\ i <= Len(s)
    BY <1>1
  <2>. QED  BY <1>2, <2>1
<1>. QED  BY <1>1, <1>3, <1>4 DEF Joins

LEMMA AppendLast ==
    ASSUME NEW S, NEW s \in Seq(S), NEW x \in S
    PROVE  /\ Append(s, x) \in Seq(S) /\ Len(Append(s, x)) = Len(s) + 1 /\ Len(s) \in Nat
           /\ \A i \in 1..Len(s) : Append(s, x)[i] = s[i]
           /\ Append(s, x)[Len(s) + 1] = x
OBVIOUS

\* The columns are different names.
LEMMA ColumnsType ==
    /\ YellowColumns \in Seq(STRING) /\ IsInjective(YellowColumns)
    /\ Additive \in ToSet(YellowColumns) /\ Additive \notin ToSet(Baseline)
    /\ ToSet(Baseline) \subseteq ToSet(YellowColumns)
    /\ ToSet(YellowColumns) = ToSet(Baseline) \cup {Additive}
<1>1. Baseline \in Seq(STRING) /\ Additive \in STRING /\ Additive \notin ToSet(Baseline)
  BY FieldsAssumption
<1>2. /\ YellowColumns \in Seq(STRING) /\ Len(YellowColumns) = Len(Baseline) + 1 /\ Len(Baseline) \in Nat
      /\ \A i \in 1..Len(Baseline) : YellowColumns[i] = Baseline[i]
      /\ YellowColumns[Len(Baseline) + 1] = Additive
  BY <1>1, AppendLast DEF YellowColumns
<1>3. DOMAIN YellowColumns = 1..(Len(Baseline) + 1) /\ DOMAIN Baseline = 1..Len(Baseline)
  BY <1>1, <1>2
<1>4. ToSet(YellowColumns) = ToSet(Baseline) \cup {Additive}
  <2>1. ASSUME NEW i \in DOMAIN YellowColumns PROVE YellowColumns[i] \in ToSet(Baseline) \cup {Additive}
    <3>1. i \in 1..Len(Baseline) \/ i = Len(Baseline) + 1
      BY <1>2, <1>3
    <3>. QED  BY <1>2, <1>3, <3>1 DEF ToSet
  <2>2. ASSUME NEW i \in DOMAIN Baseline PROVE Baseline[i] \in ToSet(YellowColumns)
    <3>1. i \in DOMAIN YellowColumns /\ YellowColumns[i] = Baseline[i]
      BY <1>2, <1>3
    <3>. QED  BY <3>1 DEF ToSet
  <2>3. Additive \in ToSet(YellowColumns)
    <3>1. Len(Baseline) + 1 \in DOMAIN YellowColumns
      BY <1>2, <1>3
    <3>. QED  BY <1>2, <3>1 DEF ToSet
  <2>. QED  BY <2>1, <2>2, <2>3 DEF ToSet
<1>5. IsInjective(YellowColumns)
  <2>1. IsInjective(Baseline) /\ \A i \in DOMAIN Baseline : Baseline[i] # Additive
    BY FieldsAssumption DEF ToSet
  <2>2. ASSUME NEW i \in DOMAIN YellowColumns, NEW k \in DOMAIN YellowColumns,
               YellowColumns[i] = YellowColumns[k]
        PROVE  i = k
    BY <1>2, <1>3, <2>1, <2>2 DEF IsInjective
  <2>. QED  BY <2>2 DEF IsInjective
<1>. QED  BY <1>1, <1>2, <1>4, <1>5

\* The frozen schema of some names has these names and valid fields.
LEMMA FrozenSchema ==
    ASSUME NEW names \in Seq(STRING)
    PROVE  FieldNames(YellowSchema(names)) = names /\ FieldsAreValid(YellowSchema(names))
<1> DEFINE schema == YellowSchema(names)
<1>1. /\ DOMAIN schema = DOMAIN names
      /\ \A i \in DOMAIN names : /\ schema[i].name = names[i] /\ schema[i].nullable = TRUE
                                 /\ schema[i].type = FieldTypes[names[i]]
  BY DEF YellowSchema
<1>2. FieldNames(schema) = [i \in DOMAIN names |-> names[i]]
  <2> HIDE DEF schema
  <2>. QED  BY <1>1 DEF FieldNames
<1>3. names = [i \in DOMAIN names |-> names[i]]
  OBVIOUS
<1>4. FieldsAreValid(schema)
  <2> HIDE DEF schema
  <2>. QED  BY <1>1 DEF FieldsAreValid
<1>. QED  BY <1>2, <1>3, <1>4

\* A schema with these names and valid fields is the frozen one.
LEMMA ValidSchemaIsFrozen ==
    ASSUME NEW N, NEW T, NEW schema \in Seq(Field(N, T)), FieldsAreValid(schema)
    PROVE  schema = YellowSchema(FieldNames(schema))
<1> DEFINE names == FieldNames(schema)
<1>1. DOMAIN names = DOMAIN schema /\ \A i \in DOMAIN schema : names[i] = schema[i].name
  BY DEF FieldNames
<1>2. ASSUME NEW i \in DOMAIN schema
      PROVE  schema[i] = [name |-> names[i], type |-> FieldTypes[names[i]], nullable |-> TRUE]
  <2>1. schema[i] \in Field(N, T)
    OBVIOUS
  <2>2. schema[i].type = FieldTypes[schema[i].name] /\ schema[i].nullable = TRUE
    BY <2>1 DEF FieldsAreValid, Field
  <2>. QED  BY <1>1, <2>1, <2>2 DEF Field
<1>3. YellowSchema(names) =
        [i \in DOMAIN schema |-> [name |-> names[i], type |-> FieldTypes[names[i]], nullable |-> TRUE]]
  BY <1>1 DEF YellowSchema
<1>4. schema = [i \in DOMAIN schema |-> schema[i]]
  OBVIOUS
<1> HIDE DEF names
<1>5. YellowSchema(names) = schema
  BY <1>2, <1>3, <1>4
<1>. QED  BY <1>5 DEF names

\* A schema whose names are these has them, and no other ones.
LEMMA NamesOfSchema ==
    ASSUME NEW schema, NEW names, FieldNames(schema) = names
    PROVE  /\ \A name : Has(schema, name) <=> name \in ToSet(names)
           /\ Missing(schema) = ToSet(Baseline) \ ToSet(names)
           /\ \A allowed : Unknown(schema, allowed) = ToSet(names) \ allowed
BY DEF Has, Missing, Unknown

\* The contracts accept each of the frozen schemas under its own version, and no
\* other schema of any length (validate_yellow_schema, validate_green_schema).
THEOREM SchemasAreExact ==
    ASSUME NEW N, NEW T, NEW schema \in Seq(Field(N, T))
    PROVE  /\ ValidateYellow(schema) = "yellow_v1" <=> schema = YellowSchema(Baseline)
           /\ ValidateYellow(schema) = "yellow_v2" <=> schema = YellowSchema(YellowColumns)
           /\ ValidateGreen(schema) = "green_v1" <=> schema = YellowSchema(Baseline)
<1> DEFINE names == FieldNames(schema)
<1>0. /\ Baseline \in Seq(STRING) /\ YellowColumns \in Seq(STRING)
      /\ Additive \in ToSet(YellowColumns) /\ Additive \notin ToSet(Baseline)
      /\ ToSet(Baseline) \subseteq ToSet(YellowColumns)
      /\ ToSet(YellowColumns) = ToSet(Baseline) \cup {Additive}
  BY ColumnsType, FieldsAssumption
<1>1. ValidateYellow(schema) = "yellow_v1"
        => ~Has(schema, Additive) /\ names = Baseline /\ FieldsAreValid(schema)
  BY DEF ValidateYellow
<1>2. ValidateYellow(schema) = "yellow_v2"
        => Has(schema, Additive) /\ names = YellowColumns /\ FieldsAreValid(schema)
  BY DEF ValidateYellow, YellowColumns
<1>3. ValidateGreen(schema) = "green_v1" => names = Baseline /\ FieldsAreValid(schema)
  BY DEF ValidateGreen
<1>4. FieldsAreValid(schema) => schema = YellowSchema(names)
  BY ValidSchemaIsFrozen
<1>5. ASSUME schema = YellowSchema(Baseline)
      PROVE  ValidateYellow(schema) = "yellow_v1" /\ ValidateGreen(schema) = "green_v1"
  <2>1. names = Baseline /\ FieldsAreValid(schema)
    BY <1>0, <1>5, FrozenSchema
  <2>2. /\ ~Has(schema, Additive) /\ Missing(schema) = {}
        /\ Unknown(schema, ToSet(Baseline) \cup {Additive}) = {}
        /\ Unknown(schema, ToSet(Baseline)) = {}
    BY <1>0, <2>1, NamesOfSchema
  <2>. QED  BY <2>1, <2>2 DEF ValidateYellow, ValidateGreen
<1>6. ASSUME schema = YellowSchema(YellowColumns) PROVE ValidateYellow(schema) = "yellow_v2"
  <2>1. names = YellowColumns /\ FieldsAreValid(schema)
    BY <1>0, <1>6, FrozenSchema
  <2>2. /\ Has(schema, Additive) /\ Missing(schema) = {}
        /\ Unknown(schema, ToSet(Baseline) \cup {Additive}) = {}
    BY <1>0, <2>1, NamesOfSchema
  <2>. QED  BY <2>1, <2>2 DEF ValidateYellow, YellowColumns
<1>. QED  BY <1>1, <1>2, <1>3, <1>4, <1>5, <1>6

-----------------------------------------------------------------------------
(* Rows (ingestion/parquet.py, ingestion/taxi_zones.py, ingestion/copy.py). *)

\* Of columns with different names each has the value that is under its name.
LEMMA ValuesOfNames ==
    ASSUME NEW S, NEW names \in Seq(S), IsInjective(names), NEW row
    PROVE  /\ DOMAIN ValuesByName(names, row) = ToSet(names)
           /\ \A i \in DOMAIN names : ValuesByName(names, row)[names[i]] = row[i]
<1>1. ASSUME NEW i \in DOMAIN names PROVE ValuesByName(names, row)[names[i]] = row[i]
  <2> DEFINE IsLast(x) == names[x] = names[i] /\ \A k \in DOMAIN names : k > x => names[k] # names[i]
             last == CHOOSE x \in DOMAIN names : IsLast(x)
  <2>1. ASSUME NEW x \in DOMAIN names, names[x] = names[i] PROVE x = i
    BY <2>1 DEF IsInjective
  <2>2. IsLast(i)
    <3>1. ASSUME NEW k \in DOMAIN names, k > i PROVE names[k] # names[i]
      BY <2>1, <3>1
    <3>. QED  BY <3>1
  <2>3. last \in DOMAIN names /\ IsLast(last)
    <3> HIDE DEF IsLast
    <3>. QED  BY <2>2
  <2>4. last = i
    BY <2>1, <2>3
  <2>5. ValuesByName(names, row)[names[i]] = row[last]
    BY DEF ValuesByName, ToSet
  <2>. QED  BY <2>4, <2>5
<1>2. DOMAIN ValuesByName(names, row) = ToSet(names)
  BY DEF ValuesByName
<1>. QED  BY <1>1, <1>2

\* A value that comes at the place of a column is stored in that column.
LEMMA CopiedByPosition ==
    ASSUME NEW all, IsInjective(all), NEW row, NEW i \in DOMAIN all
    PROVE  CopyRow(all, row)[all[i]] = row[i]
<1> DEFINE k == CHOOSE x \in DOMAIN all : all[x] = all[i]
<1>1. k \in DOMAIN all /\ all[k] = all[i]
  OBVIOUS
<1>2. k = i
  BY <1>1 DEF IsInjective
<1>3. CopyRow(all, row)[all[i]] = row[k]
  BY DEF CopyRow, ToSet
<1>. QED  BY <1>2, <1>3

\* The columns of a raw table are its own and those of the lineage.
LEMMA CopiedColumns ==
    ASSUME NEW C, NEW columns \in Seq(C), IsInjective(columns),
           ToSet(LineageColumns) \cap ToSet(columns) = {}
    PROVE  LET all == CopyColumns(columns)
               n == Len(columns) IN
           /\ IsInjective(all) /\ n \in Nat
           /\ DOMAIN columns = 1..n /\ DOMAIN LineageColumns = 1..4 /\ DOMAIN all = 1..(n + 4)
           /\ \A i \in 1..n : all[i] = columns[i]
           /\ \A k \in 1..4 : all[n + k] = LineageColumns[k]
<1> DEFINE all == CopyColumns(columns)
           n == Len(columns)
<1>1. LineageColumns \in Seq(ToSet(LineageColumns)) /\ Len(LineageColumns) = 4 /\ DOMAIN LineageColumns = 1..4
  BY FourColumns
<1>2. n \in Nat /\ DOMAIN columns = 1..n
  OBVIOUS
<1>3. /\ DOMAIN all = 1..(n + 4)
      /\ \A i \in 1..n : all[i] = columns[i]
      /\ \A k \in 1..4 : all[n + k] = LineageColumns[k]
  <2>1. all = columns \o LineageColumns
    BY DEF CopyColumns
  <2> HIDE DEF all
  <2>2. Joins(columns \o LineageColumns, columns, LineageColumns)
    BY <1>1, JoinedSequences
  <2>. QED  BY <1>1, <2>1, <2>2 DEF Joins
<1>4. \A k, l \in 1..4 : LineageColumns[k] = LineageColumns[l] => k = l
  BY FourColumns
<1>5. ASSUME NEW i \in 1..n, NEW k \in 1..4 PROVE columns[i] # LineageColumns[k]
  BY <1>1, <1>2 DEF ToSet
<1>6. ASSUME NEW i \in DOMAIN all, NEW j \in DOMAIN all, all[i] = all[j] PROVE i = j
  <2> HIDE DEF all, n
  <2>1. ASSUME NEW x \in 1..(n + 4) PROVE x \in 1..n \/ (x - n \in 1..4 /\ x = n + (x - n))
    BY <1>2
  <2>2. CASE i \in 1..n /\ j \in 1..n
    BY <1>2, <1>3, <1>6, <2>2 DEF IsInjective
  <2>3. CASE i - n \in 1..4 /\ i = n + (i - n) /\ j - n \in 1..4 /\ j = n + (j - n)
    <3>1. all[i] = LineageColumns[i - n] /\ all[j] = LineageColumns[j - n]
      BY <1>3, <2>3
    <3>2. i - n = j - n
      BY <1>4, <1>6, <2>3, <3>1
    <3>. QED  BY <2>3, <3>2
  <2>4. CASE i \in 1..n /\ j - n \in 1..4 /\ j = n + (j - n)
    <3>1. all[i] = columns[i] /\ all[j] = LineageColumns[j - n]
      BY <1>3, <2>4
    <3>. QED  BY <1>5, <1>6, <2>4, <3>1
  <2>5. CASE j \in 1..n /\ i - n \in 1..4 /\ i = n + (i - n)
    <3>1. all[j] = columns[j] /\ all[i] = LineageColumns[i - n]
      BY <1>3, <2>5
    <3>. QED  BY <1>5, <1>6, <2>5, <3>1
  <2>. QED  BY <1>3, <2>1, <2>2, <2>3, <2>4, <2>5
<1>7. IsInjective(all)
  BY <1>6 DEF IsInjective
<1>. QED  BY <1>1, <1>2, <1>3, <1>7

\* A value of a file with differently named columns in any order is stored in the
\* column of its name, a column the file lacks is null, and the lineage is in its
\* own columns: the values of a row are in the order of the columns of the COPY
\* (iter_parquet_batches, source_columns and the copy columns of a loader).
THEOREM CopyKeepsColumns ==
    ASSUME NEW S, NEW names \in Seq(S), IsInjective(names), NEW T, NEW row,
           NEW C, NEW columns \in Seq(C), IsInjective(columns),
           ToSet(LineageColumns) \cap ToSet(columns) = {},
           Null \in T, \A i \in DOMAIN names : row[i] \in T,
           NEW lineage \in Seq(T), Len(lineage) = 4
    PROVE  KeepsColumns(CopyRow(CopyColumns(columns), ParquetRow(names, row, columns, lineage)),
                        names, row, columns, lineage)
<1> DEFINE all == CopyColumns(columns)
           n == Len(columns)
           values == ValuesByName(names, row)
           own == [i \in DOMAIN columns |-> IF columns[i] \in DOMAIN values THEN values[columns[i]] ELSE Null]
           stored == CopyRow(all, ParquetRow(names, row, columns, lineage))
<1>1. /\ IsInjective(all) /\ n \in Nat
      /\ DOMAIN columns = 1..n /\ DOMAIN LineageColumns = 1..4 /\ DOMAIN all = 1..(n + 4)
      /\ \A i \in 1..n : all[i] = columns[i]
      /\ \A k \in 1..4 : all[n + k] = LineageColumns[k]
  BY CopiedColumns
<1>2. /\ DOMAIN values = ToSet(names)
      /\ \A i \in DOMAIN names : values[names[i]] = row[i]
  BY ValuesOfNames
<1> HIDE DEF all, n, values
<1>3. own \in Seq(T) /\ Len(own) = n
  <2>1. ASSUME NEW i \in 1..n
        PROVE  (IF columns[i] \in DOMAIN values THEN values[columns[i]] ELSE Null) \in T
    BY <1>2 DEF ToSet
  <2>. QED  BY <1>1, <2>1
<1>4. /\ \A i \in 1..n : (own \o lineage)[i] = own[i]
      /\ \A k \in 1..4 : (own \o lineage)[n + k] = lineage[k]
  <2> HIDE DEF own
  <2>1. Joins(own \o lineage, own, lineage)
    BY <1>3, JoinedSequences
  <2>. QED  BY <1>3, <2>1 DEF Joins
<1> DEFINE both == own \o lineage
<1>5. stored = CopyRow(all, both)
  BY DEF ParquetRow, values
<1> HIDE DEF stored, own, both
<1>0. ASSUME NEW i \in DOMAIN all PROVE stored[all[i]] = both[i]
  <2>1. IsInjective(all)
    BY <1>1
  <2>2. CopyRow(all, both)[all[i]] = both[i]
    BY <2>1, CopiedByPosition
  <2>. QED  BY <1>5, <2>2
<1>6. ASSUME NEW j \in 1..n PROVE stored[columns[j]] = own[j]
  <2>1. j \in DOMAIN all
    BY <1>1
  <2>2. stored[all[j]] = both[j]
    BY <1>0, <2>1
  <2>. QED  BY <1>1, <1>4, <2>2 DEF both
<1>7. ASSUME NEW k \in 1..4 PROVE stored[LineageColumns[k]] = lineage[k]
  <2>1. n + k \in DOMAIN all
    BY <1>1
  <2>2. stored[all[n + k]] = both[n + k]
    BY <1>0, <2>1
  <2>. QED  BY <1>1, <1>4, <2>2 DEF both
<1>8. ASSUME NEW i \in DOMAIN names, names[i] \in ToSet(columns) PROVE stored[names[i]] = row[i]
  <2>1. PICK j \in 1..n : columns[j] = names[i]
    BY <1>1, <1>8 DEF ToSet
  <2>2. names[i] \in DOMAIN values
    BY <1>2 DEF ToSet
  <2>3. own[j] = values[names[i]]
    BY <1>1, <2>1, <2>2 DEF own
  <2>. QED  BY <1>2, <1>6, <2>1, <2>3
<1>9. ASSUME NEW column \in ToSet(columns) \ ToSet(names) PROVE stored[column] = Null
  <2>1. PICK j \in 1..n : columns[j] = column
    BY <1>1 DEF ToSet
  <2>2. own[j] = Null
    BY <1>1, <1>2, <2>1 DEF own
  <2>. QED  BY <1>6, <2>1, <2>2
<1>10. KeepsColumns(stored, names, row, columns, lineage)
  BY <1>1, <1>7, <1>8, <1>9 DEF KeepsColumns
<1>. QED  BY <1>10 DEF stored, all

\* A row of an accepted zone file is one of a Parquet file with these columns.
LEMMA ZoneRowsAreNamed ==
    ASSUME NEW S, NEW names \in Seq(S), IsInjective(names), ToSet(names) = ToSet(ZoneFields),
           NEW row, NEW lineage
    PROVE  ZoneRow(names, row, lineage) = ParquetRow(names, row, ZoneFields, lineage)
<1> DEFINE values == ValuesByName(names, row)
           own == [i \in DOMAIN ZoneFields |-> IF ZoneFields[i] \in DOMAIN values THEN values[ZoneFields[i]] ELSE Null]
           four == <<values["LocationID"], values["Borough"], values["Zone"], values["service_zone"]>>
<1>1. DOMAIN values = ToSet(ZoneFields)
  BY ValuesOfNames
<1>2. /\ DOMAIN ZoneFields = 1..4
      /\ ZoneFields[1] = "LocationID" /\ ZoneFields[2] = "Borough"
      /\ ZoneFields[3] = "Zone" /\ ZoneFields[4] = "service_zone"
  BY DEF ZoneFields
<1> HIDE DEF values
<1>3. own = [i \in 1..4 |-> values[ZoneFields[i]]]
  BY <1>1, <1>2 DEF ToSet
<1>4. four = [i \in 1..4 |-> values[ZoneFields[i]]]
  BY <1>2
<1>5. own = four
  BY <1>3, <1>4
<1> HIDE DEF own, four
<1>6. ZoneRow(names, row, lineage) = four \o lineage
  BY DEF ZoneRow, four, values
<1>7. ParquetRow(names, row, ZoneFields, lineage) = own \o lineage
  BY DEF ParquetRow, own, values
<1>. QED  BY <1>5, <1>6, <1>7

-----------------------------------------------------------------------------
(* Zones (sources/contracts.py).                                            *)

\* As many different locations as rows: none is missing and none comes twice.
LEMMA LocationsCount ==
    ASSUME NEW S, NEW locations \in Seq(S)
    PROVE  Cardinality(ToSet(locations) \ {Null}) = Len(locations)
             <=> (\A i \in DOMAIN locations : locations[i] # Null) /\ IsInjective(locations)
<1> DEFINE D == {i \in DOMAIN locations : locations[i] # Null}
           T == ToSet(locations) \ {Null}
           f == [i \in D |-> locations[i]]
           n == Len(locations)
<1>1. DOMAIN locations = 1..n /\ n \in Nat
  OBVIOUS
<1>2. IsFiniteSet(1..n) /\ Cardinality(1..n) = n
  BY <1>1, FS_Interval, SMTT(30)
<1>3. D \subseteq 1..n /\ (D = 1..n <=> \A i \in DOMAIN locations : locations[i] # Null)
  BY <1>1
<1>4. /\ f \in [D -> T] /\ \A y \in T : \E x \in D : f[x] = y
  BY DEF ToSet
<1>5. (\A x, y \in D : f[x] = f[y] => x = y)
        <=> (\A i, j \in D : locations[i] = locations[j] => i = j)
  OBVIOUS
<1>6. IsInjective(locations) => (\A i, j \in D : locations[i] = locations[j] => i = j)
  BY <1>1, <1>3 DEF IsInjective
<1>7. D = 1..n /\ (\A i, j \in D : locations[i] = locations[j] => i = j) => IsInjective(locations)
  BY <1>1 DEF IsInjective
<1> HIDE DEF f, D, T, n
<1>8. /\ IsFiniteSet(D) /\ Cardinality(D) <= n /\ Cardinality(D) \in Nat
      /\ (Cardinality(D) = n => D = 1..n)
  BY <1>2, <1>3, FS_Subset, FS_CardinalityType
<1>9. f \in Surjection(D, T)
  BY <1>4, Fun_IsSurj
<1>10. /\ IsFiniteSet(T) /\ Cardinality(T) <= Cardinality(D)
       /\ (Cardinality(T) = Cardinality(D) <=> f \in Injection(D, T))
  BY <1>8, <1>9, FS_Surjection
<1>11. f \in Injection(D, T) <=> (\A x, y \in D : f[x] = f[y] => x = y)
  BY <1>4, Fun_IsInj, Fun_InjectionProperties
<1>12. Cardinality(T) \in Nat
  BY <1>10, FS_CardinalityType
<1>13. Cardinality(T) = n <=> Cardinality(D) = n /\ Cardinality(T) = Cardinality(D)
  BY <1>1, <1>8, <1>10, <1>12
<1>14. Cardinality(D) = n <=> D = 1..n
  BY <1>2, <1>8
<1>. QED  BY <1>3, <1>5, <1>6, <1>7, <1>10, <1>11, <1>13, <1>14 DEF T, n

\* A zone file of any length is accepted exactly when it has the required columns
\* once each and its locations are complete and unique (validate_taxi_zones).
THEOREM ZonesAreExact ==
    ASSUME NEW S, NEW columns, NEW locations \in Seq(S)
    PROVE  ValidateZones(columns, locations) = "accepted"
             <=> /\ IsInjective(columns) /\ ToSet(columns) = ToSet(ZoneFields)
                 /\ Cardinality(ToSet(locations) \ {Null}) = Len(locations)
                 /\ locations # <<>>
<1>1. ValidateZones(columns, locations) = "accepted"
        <=> /\ IsInjective(columns) /\ ToSet(columns) = ToSet(ZoneFields) /\ locations # <<>>
            /\ \A i \in DOMAIN locations : locations[i] # Null
            /\ IsInjective(locations)
  BY DEF ValidateZones
<1>. QED  BY <1>1, LocationsCount

-----------------------------------------------------------------------------
(* The measurements (quality/queries.py, quality/rules.py).                 *)

\* The second of two dictionaries takes precedence.
LEMMA UpdatedDomains ==
    ASSUME NEW f, NEW g
    PROVE  /\ DOMAIN Updated(f, g) = DOMAIN f \cup DOMAIN g
           /\ \A x \in DOMAIN g : Updated(f, g)[x] = g[x]
           /\ \A x \in DOMAIN f \ DOMAIN g : Updated(f, g)[x] = f[x]
BY DEF Updated

\* The columns with expected values.
LEMMA DomainColumns ==
    /\ DOMAIN DomainValues("yellow") = {"vendor_id", "rate_code_id", "store_and_fwd_flag", "payment_type"}
    /\ DOMAIN DomainValues("green")
         = {"vendor_id", "rate_code_id", "store_and_fwd_flag", "payment_type", "trip_type"}
BY DEF DomainValues, Updated

\* Each service has a fee of its own.
LEMMA FeesOfServices ==
    /\ {"airport_fee", "ehail_fee"} \cap TripModel("yellow") = {"airport_fee"}
    /\ {"airport_fee", "ehail_fee"} \cap TripModel("green") = {"ehail_fee"}
BY DEF TripModel, Amounts

\* The scalar checks, spelled out for each service.
LEMMA ChecksOfServices ==
    /\ ScalarChecks(TripModel("yellow")) =
         {<<"month", "pickup_datetime">>, <<"order", "dropoff_datetime">>}
         \cup {<<"negative", a>> : a \in Amounts \cup {"airport_fee"}}
         \cup {<<"zero", a>> : a \in {"trip_distance", "passenger_count"}}
         \cup {<<"null", a>> : a \in {"passenger_count", "rate_code_id", "store_and_fwd_flag",
                                      "congestion_surcharge", "airport_fee"}}
    /\ ScalarChecks(TripModel("green")) =
         {<<"month", "pickup_datetime">>, <<"order", "dropoff_datetime">>}
         \cup {<<"negative", a>> : a \in Amounts \cup {"ehail_fee"}}
         \cup {<<"zero", a>> : a \in {"trip_distance", "passenger_count"}}
         \cup {<<"null", a>> : a \in {"passenger_count", "rate_code_id", "store_and_fwd_flag",
                                      "congestion_surcharge", "ehail_fee"}}
BY FeesOfServices DEF ScalarChecks

\* The green rules without the detour over the yellow ones.
LEMMA GreenCatalog ==
    GreenRules =
      {<<"month", "pickup_datetime">>, <<"order", "dropoff_datetime">>}
      \cup {<<"negative", a>> : a \in Amounts \cup {"ehail_fee"}}
      \cup {<<"zero", a>> : a \in {"trip_distance", "passenger_count"}}
      \cup {<<"null", a>> : a \in {"passenger_count", "rate_code_id", "store_and_fwd_flag",
                                   "congestion_surcharge", "ehail_fee"}}
      \cup {<<"domain", a>> : a \in {"vendor_id", "rate_code_id", "store_and_fwd_flag", "payment_type",
                                     "trip_type"}}
      \cup {<<"zone", a>> : a \in {"pickup_location_id", "dropoff_location_id"}}
      \cup {<<"duplicate", "row">>}
<1>1. "airport_fee" \notin Amounts
  BY DEF Amounts
<1>. QED  BY <1>1 DEF GreenRules, YellowRules

\* Of several dictionaries with one key the latest gives the value.
LatestCounts(all, f, g, h, d) ==
    /\ DOMAIN all = ((DOMAIN f \cup DOMAIN g) \cup DOMAIN h) \cup DOMAIN d
    /\ \A x \in DOMAIN d : all[x] = d[x]
    /\ \A x \in DOMAIN h : x \notin DOMAIN d => all[x] = h[x]
    /\ \A x \in DOMAIN g : x \notin DOMAIN d /\ x \notin DOMAIN h => all[x] = g[x]
    /\ \A x \in DOMAIN f :
          x \notin DOMAIN d /\ x \notin DOMAIN h /\ x \notin DOMAIN g => all[x] = f[x]

\* The dictionary that run_quality_checks builds up.
LEMMA UpdatedTwice ==
    ASSUME NEW f, NEW g, NEW h, NEW d
    PROVE  LatestCounts(Updated(Updated(Updated(f, g), h), d), f, g, h, d)
<1> DEFINE fg == Updated(f, g)
           fgh == Updated(fg, h)
           all == Updated(fgh, d)
<1>1. /\ DOMAIN fg = DOMAIN f \cup DOMAIN g
      /\ \A x \in DOMAIN g : fg[x] = g[x]
      /\ \A x \in DOMAIN f \ DOMAIN g : fg[x] = f[x]
  BY UpdatedDomains
<1>2. /\ DOMAIN fgh = DOMAIN fg \cup DOMAIN h
      /\ \A x \in DOMAIN h : fgh[x] = h[x]
      /\ \A x \in DOMAIN fg \ DOMAIN h : fgh[x] = fg[x]
  <2> HIDE DEF fg
  <2>. QED  BY UpdatedDomains
<1>3. /\ DOMAIN all = DOMAIN fgh \cup DOMAIN d
      /\ \A x \in DOMAIN d : all[x] = d[x]
      /\ \A x \in DOMAIN fgh \ DOMAIN d : all[x] = fgh[x]
  <2> HIDE DEF fgh
  <2>. QED  BY UpdatedDomains
<1> HIDE DEF fg, fgh, all
<1>4. DOMAIN all = ((DOMAIN f \cup DOMAIN g) \cup DOMAIN h) \cup DOMAIN d
  BY <1>1, <1>2, <1>3
<1>5. ASSUME NEW x \in DOMAIN h, x \notin DOMAIN d PROVE all[x] = h[x]
  BY <1>2, <1>3, <1>5
<1>6. ASSUME NEW x \in DOMAIN g, x \notin DOMAIN d, x \notin DOMAIN h PROVE all[x] = g[x]
  BY <1>1, <1>2, <1>3, <1>6
<1>7. ASSUME NEW x \in DOMAIN f, x \notin DOMAIN d, x \notin DOMAIN h, x \notin DOMAIN g PROVE all[x] = f[x]
  BY <1>1, <1>2, <1>3, <1>7
<1>8. \A x \in DOMAIN d : all[x] = d[x]
  BY <1>3
<1>. QED  BY <1>4, <1>5, <1>6, <1>7, <1>8 DEF LatestCounts, fg, fgh, all

Duplicate(table) == [name \in {<<"duplicate", "row">>} |-> DuplicateMeasurement(table).participating]

\* The measurements in the order in which they are put together.
LEMMA MeasuredBy ==
    ASSUME NEW table, NEW zones, NEW window, NEW service, NEW attributes
    PROVE  LatestCounts(QualityMeasurements(table, service, attributes, window, zones),
                        ScalarMeasurements(table, attributes, window), DomainMeasurements(table, service),
                        ZoneMeasurements(table, zones), Duplicate(table))
BY UpdatedTwice DEF QualityMeasurements, Duplicate

\* Whatever the rows are, the measurements are those of the rules of the dataset
\* (run_quality_checks, RULES_BY_DATASET).
THEOREM MeasuredNames ==
    ASSUME NEW table, NEW zones, NEW window, NEW service \in {"yellow", "green"}
    PROVE  DOMAIN QualityMeasurements(table, service, TripModel(service), window, zones)
             = RulesByDataset(service)
<1> DEFINE zoneNames == {<<"zone", a>> : a \in {"pickup_location_id", "dropoff_location_id"}}
<1>1. DOMAIN QualityMeasurements(table, service, TripModel(service), window, zones)
        = ((ScalarChecks(TripModel(service)) \cup {<<"domain", a>> : a \in DOMAIN DomainValues(service)})
             \cup zoneNames) \cup {<<"duplicate", "row">>}
  <2>1. DOMAIN ScalarMeasurements(table, TripModel(service), window) = ScalarChecks(TripModel(service))
    BY DEF ScalarMeasurements
  <2>2. DOMAIN DomainMeasurements(table, service) = {<<"domain", a>> : a \in DOMAIN DomainValues(service)}
    BY DEF DomainMeasurements
  <2>3. DOMAIN ZoneMeasurements(table, zones) = zoneNames
    BY DEF ZoneMeasurements
  <2>4. DOMAIN Duplicate(table) = {<<"duplicate", "row">>}
    BY DEF Duplicate
  <2>5. DOMAIN QualityMeasurements(table, service, TripModel(service), window, zones)
          = ((DOMAIN ScalarMeasurements(table, TripModel(service), window)
               \cup DOMAIN DomainMeasurements(table, service))
               \cup DOMAIN ZoneMeasurements(table, zones)) \cup DOMAIN Duplicate(table)
    BY MeasuredBy DEF LatestCounts
  <2> HIDE DEF zoneNames
  <2>. QED  BY <2>1, <2>2, <2>3, <2>4, <2>5
<1>2. CASE service = "yellow"
  BY <1>1, <1>2, ChecksOfServices, DomainColumns DEF RulesByDataset, YellowRules
<1>3. CASE service = "green"
  BY <1>1, <1>3, ChecksOfServices, DomainColumns, GreenCatalog DEF RulesByDataset
<1>. QED  BY <1>2, <1>3

\* The rows of a scalar check.
Taken(table, name, window) == {i \in DOMAIN table : Condition(name, table[i], window)}

\* The number that is measured for a rule, by the kind of the rule.
LEMMA MeasuredNumbers ==
    ASSUME NEW table, NEW zones, NEW window, NEW service \in {"yellow", "green"},
           NEW name \in RulesByDataset(service)
    PROVE  LET all == QualityMeasurements(table, service, TripModel(service), window, zones) IN
           /\ name[1] \in {"month", "order", "negative", "zero", "null"}
                 => name \in ScalarChecks(TripModel(service))
                    /\ all[name] = Cardinality(Taken(table, name, window))
           /\ name[1] = "domain" => /\ name[2] \in DOMAIN DomainValues(service)
                                    /\ all[name] = DomainMeasurements(table, service)[name]
           /\ name[1] = "zone" => /\ name[2] \in {"pickup_location_id", "dropoff_location_id"}
                                  /\ all[name] = ZoneMeasurements(table, zones)[name]
           /\ name[1] = "duplicate" => all[name] = DuplicateMeasurement(table).participating
           /\ name[1] \in {"month", "order", "negative", "zero", "null", "domain", "zone", "duplicate"}
<1> DEFINE all == QualityMeasurements(table, service, TripModel(service), window, zones)
           scalar == ScalarMeasurements(table, TripModel(service), window)
           domain == DomainMeasurements(table, service)
           zone == ZoneMeasurements(table, zones)
           kinds == {"month", "order", "negative", "zero", "null"}
<1>1. DOMAIN scalar = ScalarChecks(TripModel(service)) /\ \A x \in DOMAIN scalar : x[1] \in kinds
  BY DEF ScalarMeasurements, ScalarChecks
<1>2. /\ DOMAIN domain = {<<"domain", a>> : a \in DOMAIN DomainValues(service)}
      /\ \A x \in DOMAIN domain : x[1] = "domain" /\ x[2] \in DOMAIN DomainValues(service)
  BY DEF DomainMeasurements
<1>3. /\ DOMAIN zone = {<<"zone", "pickup_location_id">>, <<"zone", "dropoff_location_id">>}
      /\ \A x \in DOMAIN zone : x[1] = "zone" /\ x[2] \in {"pickup_location_id", "dropoff_location_id"}
  BY DEF ZoneMeasurements
<1>4. name \in DOMAIN all
  BY MeasuredNames
<1>5. \A x \in DOMAIN scalar : scalar[x] = Cardinality(Taken(table, x, window))
  BY DEF ScalarMeasurements, Rows, Taken
<1>6. <<"duplicate", "row">>[1] = "duplicate"
  OBVIOUS
<1>7. LatestCounts(all, scalar, domain, zone, Duplicate(table))
  BY MeasuredBy
<1>8. /\ DOMAIN Duplicate(table) = {<<"duplicate", "row">>}
      /\ \A x : x \in DOMAIN Duplicate(table) <=> x = <<"duplicate", "row">>
      /\ Duplicate(table)[<<"duplicate", "row">>] = DuplicateMeasurement(table).participating
  BY DEF Duplicate
<1> HIDE DEF all, scalar, domain, zone
<1>9. CASE name \in DOMAIN scalar
  <2>1. name[1] \in kinds /\ name \notin DOMAIN zone /\ name \notin DOMAIN domain
        /\ name # <<"duplicate", "row">>
    BY <1>1, <1>2, <1>3, <1>6, <1>9
  <2>2. all[name] = scalar[name]
    BY <1>7, <1>8, <1>9, <2>1 DEF LatestCounts
  <2>. QED  BY <1>1, <1>5, <1>9, <2>1, <2>2 DEF all, domain, zone
<1>10. CASE name \in DOMAIN domain
  <2>1. name[1] = "domain" /\ name \notin DOMAIN zone /\ name # <<"duplicate", "row">>
    BY <1>2, <1>3, <1>6, <1>10
  <2>2. all[name] = domain[name]
    BY <1>7, <1>8, <1>10, <2>1 DEF LatestCounts
  <2>. QED  BY <1>2, <1>10, <2>1, <2>2 DEF all, domain, zone
<1>11. CASE name \in DOMAIN zone
  <2>1. name[1] = "zone" /\ name # <<"duplicate", "row">>
    BY <1>3, <1>6, <1>11
  <2>2. all[name] = zone[name]
    BY <1>7, <1>8, <1>11, <2>1 DEF LatestCounts
  <2>. QED  BY <1>3, <1>11, <2>1, <2>2 DEF all, domain, zone
<1>12. CASE name = <<"duplicate", "row">>
  <2>1. name[1] = "duplicate" /\ all[name] = DuplicateMeasurement(table).participating
    BY <1>6, <1>7, <1>8, <1>12 DEF LatestCounts
  <2>. QED  BY <2>1 DEF all
<1>13. name \in DOMAIN scalar \/ name \in DOMAIN domain \/ name \in DOMAIN zone \/ name = <<"duplicate", "row">>
  BY <1>4, <1>7, <1>8 DEF LatestCounts
<1>. QED  BY <1>9, <1>10, <1>11, <1>12, <1>13

-----------------------------------------------------------------------------
(* SQL and the profile count the same (profiling/statistics.py).            *)

\* A table with these columns, numbers in all but the one that holds flags.
IsTable(table, service) ==
    /\ \E S : table \in Seq(S)
    /\ \A i \in DOMAIN table : \A a \in TripModel(service) \ {"store_and_fwd_flag"} :
          table[i][a] \in Int \cup {Null}

\* The columns that are compared with a number hold numbers.
LEMMA ComparedColumns ==
    ASSUME NEW service \in {"yellow", "green"}
    PROVE  /\ {"pickup_datetime", "dropoff_datetime", "pickup_location_id", "dropoff_location_id"}
                 \subseteq TripModel(service) \ {"store_and_fwd_flag"}
           /\ \A name \in ScalarChecks(TripModel(service)) :
                 name[1] \in {"negative", "zero"} => name[2] \in TripModel(service) \ {"store_and_fwd_flag"}
<1>1. CASE service = "yellow"
  BY <1>1, ChecksOfServices DEF TripModel, Amounts
<1>2. CASE service = "green"
  BY <1>2, ChecksOfServices DEF TripModel, Amounts
<1>. QED  BY <1>1, <1>2

\* The rows and the columns of a table.
LEMMA RowsOfTable ==
    ASSUME NEW service, NEW table, IsTable(table, service)
    PROVE  /\ DOMAIN table = 1..Len(table) /\ Len(table) \in Nat
           /\ IsFiniteSet(DOMAIN table) /\ Cardinality(DOMAIN table) = Len(table)
<1>1. DOMAIN table = 1..Len(table) /\ Len(table) \in Nat
  BY DEF IsTable
<1>2. IsFiniteSet(1..Len(table)) /\ Cardinality(1..Len(table)) = Len(table)
  BY <1>1, FirstNumbers
<1>. QED  BY <1>1, <1>2

\* The comparisons of SQL against those without nulls.
LEMMA ComparisonsAgree ==
    ASSUME NEW a \in Int \cup {Null}, NEW b \in Int \cup {Null}
    PROVE  /\ Less(a, b) = TRUE <=> a # Null /\ b # Null /\ a < b
           /\ Equal(a, 0) = TRUE <=> a # Null /\ a = 0
           /\ Less(a, 0) = TRUE <=> a # Null /\ a < 0
<1>1. Null \notin Int
  BY NullAssumption
<1>2. Null # TRUE
  BY NullAssumption
<1>. QED  BY <1>1, <1>2 DEF Less, Equal

\* The rows a check takes are the values the profile counts.
LEMMA ConditionsAgree ==
    ASSUME NEW service \in {"yellow", "green"}, NEW table, IsTable(table, service), NEW window,
           NEW name \in ScalarChecks(TripModel(service)), NEW column, column = Column(table, name[2])
    PROVE  LET count == Cardinality(Taken(table, name, window)) IN
           /\ name[1] = "negative" => count = NumericProfile(column).count_lt_0
           /\ name[1] = "zero" => count = NumericProfile(column).count_eq_0
           /\ name[1] = "null" => count = NullCount(column)
<1>1. DOMAIN column = DOMAIN table /\ \A i \in DOMAIN table : column[i] = table[i][name[2]]
  BY DEF Column
<1>2. ASSUME name[1] \in {"negative", "zero"}, NEW i \in DOMAIN table PROVE table[i][name[2]] \in Int \cup {Null}
  BY <1>2, ComparedColumns DEF IsTable
<1>3. 0 \in Int
  OBVIOUS
<1>4. ASSUME name[1] = "negative", NEW i \in DOMAIN table
      PROVE  Condition(name, table[i], window) <=> column[i] # Null /\ column[i] < 0
  <2>1. Condition(name, table[i], window) <=> Less(table[i][name[2]], 0) = TRUE
    BY <1>4 DEF Condition
  <2>. QED  BY <1>1, <1>2, <1>3, <1>4, <2>1, ComparisonsAgree
<1>5. ASSUME name[1] = "zero", NEW i \in DOMAIN table
      PROVE  Condition(name, table[i], window) <=> column[i] # Null /\ column[i] = 0
  <2>1. Condition(name, table[i], window) <=> Equal(table[i][name[2]], 0) = TRUE
    BY <1>5 DEF Condition
  <2>. QED  BY <1>1, <1>2, <1>3, <1>5, <2>1, ComparisonsAgree
<1>6. ASSUME name[1] = "null", NEW i \in DOMAIN table
      PROVE  Condition(name, table[i], window) <=> column[i] = Null
  BY <1>1, <1>6 DEF Condition
<1>7. ASSUME name[1] = "negative"
      PROVE  Cardinality(Taken(table, name, window)) = NumericProfile(column).count_lt_0
  <2>1. Taken(table, name, window) = {i \in DOMAIN column : column[i] # Null /\ column[i] < 0}
    BY <1>1, <1>4, <1>7 DEF Taken
  <2>. QED  BY <2>1 DEF NumericProfile, Rows
<1>8. ASSUME name[1] = "zero"
      PROVE  Cardinality(Taken(table, name, window)) = NumericProfile(column).count_eq_0
  <2>1. Taken(table, name, window) = {i \in DOMAIN column : column[i] # Null /\ column[i] = 0}
    BY <1>1, <1>5, <1>8 DEF Taken
  <2>. QED  BY <2>1 DEF NumericProfile, Rows
<1>9. ASSUME name[1] = "null" PROVE Cardinality(Taken(table, name, window)) = NullCount(column)
  <2>1. Taken(table, name, window) = {i \in DOMAIN column : column[i] = Null}
    BY <1>1, <1>6, <1>9 DEF Taken
  <2>. QED  BY <2>1 DEF NullCount, Copies
<1>. QED  BY <1>7, <1>8, <1>9

\* The scalar checks but those of the times.
LEMMA ScalarsAgree ==
    ASSUME NEW service \in {"yellow", "green"}, NEW table, IsTable(table, service), NEW window, NEW zones,
           NEW name \in RulesByDataset(service)
    PROVE  LET all == QualityMeasurements(table, service, TripModel(service), window, zones)
               column == Column(table, name[2]) IN
           /\ name[1] = "negative" => all[name] = NumericProfile(column).count_lt_0
           /\ name[1] = "zero" => all[name] = NumericProfile(column).count_eq_0
           /\ name[1] = "null" => all[name] = NullCount(column)
<1> DEFINE all == QualityMeasurements(table, service, TripModel(service), window, zones)
           column == Column(table, name[2])
<1>1. name[1] \in {"negative", "zero", "null"} =>
        name \in ScalarChecks(TripModel(service)) /\ all[name] = Cardinality(Taken(table, name, window))
  BY MeasuredNumbers
<1> HIDE DEF all, column
<1>2. ASSUME name[1] = "negative" PROVE all[name] = NumericProfile(column).count_lt_0
  BY <1>1, <1>2, ConditionsAgree DEF column
<1>3. ASSUME name[1] = "zero" PROVE all[name] = NumericProfile(column).count_eq_0
  BY <1>1, <1>3, ConditionsAgree DEF column
<1>4. ASSUME name[1] = "null" PROVE all[name] = NullCount(column)
  BY <1>1, <1>4, ConditionsAgree DEF column
<1>. QED  BY <1>2, <1>3, <1>4 DEF all, column

\* The check of the month and its profile.
LEMMA MonthsAgree ==
    ASSUME NEW service \in {"yellow", "green"}, NEW table, IsTable(table, service), NEW window, NEW zones
    PROVE  LET all == QualityMeasurements(table, service, TripModel(service), window, zones)
               outside == DurationProfile(table, window).outside_month IN
           all[<<"month", "pickup_datetime">>] = IF outside = Null THEN 0 ELSE outside
<1> DEFINE all == QualityMeasurements(table, service, TripModel(service), window, zones)
           pickup == Column(table, "pickup_datetime")
           name == <<"month", "pickup_datetime">>
           flags == [i \in DOMAIN table |->
              IF pickup[i] = Null THEN Null ELSE pickup[i] < window[1] \/ pickup[i] >= window[2]]
<1>1. DurationProfile(table, window).outside_month = SumOf(flags)
  BY DEF DurationProfile
<1>2. name \in RulesByDataset(service) /\ name[1] = "month" /\ name[2] = "pickup_datetime"
  <2>1. name \in RulesByDataset("yellow")
    BY DEF RulesByDataset, YellowRules
  <2>2. name \in RulesByDataset("green")
    BY GreenCatalog DEF RulesByDataset
  <2>. QED  BY <2>1, <2>2
<1>3. all[name] = Cardinality(Taken(table, name, window))
  <2> HIDE DEF name
  <2>. QED  BY <1>2, MeasuredNumbers
<1>4. Taken(table, name, window) = {i \in DOMAIN flags : flags[i] = TRUE}
  <2>1. ASSUME NEW i \in DOMAIN table PROVE Condition(name, table[i], window) <=> flags[i] = TRUE
    <3>1. Null # TRUE
      BY NullAssumption
    <3>2. pickup[i] = table[i]["pickup_datetime"]
      BY DEF Column
    <3>3. Condition(name, table[i], window)
            <=> /\ table[i]["pickup_datetime"] # Null
                /\ table[i]["pickup_datetime"] < window[1] \/ table[i]["pickup_datetime"] >= window[2]
      BY DEF Condition
    <3>. QED  BY <3>1, <3>2, <3>3
  <2>. QED  BY <2>1 DEF Taken
<1>5. IsFiniteSet({i \in DOMAIN flags : flags[i] = TRUE})
  <2>1. {i \in DOMAIN flags : flags[i] = TRUE} \in SUBSET DOMAIN table
    OBVIOUS
  <2>. QED  BY <2>1, RowsOfTable, FS_Subset
<1> HIDE DEF name, all, flags
<1>6. CASE Known(flags) = {}
  <2>1. SumOf(flags) = Null
    BY <1>6 DEF SumOf
  <2>2. {i \in DOMAIN flags : flags[i] = TRUE} = {}
    <3>1. Null # TRUE
      BY NullAssumption
    <3>. QED  BY <1>6, <3>1 DEF Known, ToSet
  <2>. QED  BY <1>1, <1>3, <1>4, <2>1, <2>2, FS_EmptySet DEF all, name
<1>7. CASE Known(flags) # {}
  <2>1. SumOf(flags) = Cardinality({i \in DOMAIN flags : flags[i] = TRUE})
    BY <1>7 DEF SumOf, Copies
  <2>2. SumOf(flags) # Null
    <3>1. SumOf(flags) \in Nat
      BY <1>5, <2>1, FS_CardinalityType
    <3>. QED  BY <3>1, NullAssumption
  <2>. QED  BY <1>1, <1>3, <1>4, <2>1, <2>2 DEF all, name
<1>. QED  BY <1>6, <1>7

\* A column has finitely many values.
LEMMA ValuesAreFinite ==
    ASSUME NEW values, IsFiniteSet(DOMAIN values)
    PROVE  IsFiniteSet(ToSet(values))
<1> DEFINE f == [i \in DOMAIN values |-> values[i]]
<1>1. f \in [DOMAIN values -> ToSet(values)] /\ \A y \in ToSet(values) : \E x \in DOMAIN values : f[x] = y
  BY DEF ToSet
<1> HIDE DEF f
<1>2. f \in Surjection(DOMAIN values, ToSet(values))
  BY <1>1, Fun_IsSurj
<1>. QED  BY <1>2, FS_Surjection

\* Copies are counted by their positions.
LEMMA CopiesAt == \A values, v : Copies(values, v) = Cardinality(At(DOMAIN values, values, v))
BY DEF Copies, At

\* The values of a column that are neither null nor allowed.
Unexpected(column, allowed) == ToSet(column) \ (allowed \cup {Null})

\* Every row is null, of an allowed or of an unexpected value.
LEMMA ColumnAddsUp ==
    ASSUME NEW column, IsFiniteSet(DOMAIN column), NEW allowed,
           NEW counts, counts = DomainProfile(column), NEW unexpected, unexpected = Unexpected(column, allowed)
    PROVE  /\ SumFunctionOnSet([v \in unexpected |-> Copies(column, v)], unexpected)
                = Cardinality(Within(DOMAIN column, column, unexpected))
           /\ Cardinality(Within(DOMAIN column, column, unexpected))
                + SumFunctionOnSet(counts, DOMAIN counts \cap allowed) + NullCount(column)
                = Cardinality(DOMAIN column)
           /\ Cardinality(Within(DOMAIN column, column, unexpected)) \in Nat
           /\ SumFunctionOnSet(counts, DOMAIN counts \cap allowed) \in Nat
           /\ NullCount(column) \in Nat
<1> DEFINE D == DOMAIN column
           expected == DOMAIN counts \cap allowed
           f == [v \in unexpected |-> Copies(column, v)]
           U == Within(D, column, unexpected)
           E == Within(D, column, expected)
           N == At(D, column, Null)
<1>1. IsFiniteSet(ToSet(column))
  BY ValuesAreFinite
<1>2. DOMAIN counts = Known(column) /\ \A v \in DOMAIN counts : counts[v] = Copies(column, v)
  BY DEF DomainProfile
<1>3. IsFiniteSet(unexpected) /\ IsFiniteSet(expected)
  <2>1. unexpected \in SUBSET ToSet(column) /\ expected \in SUBSET ToSet(column)
    BY <1>2 DEF Unexpected, Known
  <2>. QED  BY <1>1, <2>1, FS_Subset
<1>4. SumFunctionOnSet(f, unexpected) = Cardinality(U)
  <2>1. \A v \in unexpected : f[v] = Cardinality(At(D, column, v))
    BY CopiesAt
  <2> HIDE DEF f, U
  <2>. QED  BY <1>3, <2>1, CountsAddUp DEF U
<1>5. SumFunctionOnSet(counts, expected) = Cardinality(E)
  <2>1. \A v \in expected : counts[v] = Cardinality(At(D, column, v))
    BY <1>2, CopiesAt
  <2> HIDE DEF expected, E
  <2>. QED  BY <1>3, <2>1, CountsAddUp DEF E
<1>6. NullCount(column) = Cardinality(N)
  BY CopiesAt DEF NullCount
<1>7. (U \cup E) \cup N = D /\ U \cap E = {} /\ (U \cup E) \cap N = {}
  BY <1>2 DEF Within, At, Known, Unexpected, ToSet
<1>8. /\ IsFiniteSet(U) /\ Cardinality(U) \in Nat /\ IsFiniteSet(E) /\ Cardinality(E) \in Nat
      /\ IsFiniteSet(N) /\ Cardinality(N) \in Nat
  BY PositionsAddUp
<1> HIDE DEF U, E, N, D
<1>9. IsFiniteSet(U \cup E) /\ Cardinality(U \cup E) = Cardinality(U) + Cardinality(E)
  <2>1. IsFiniteSet(U \cup E) /\ Cardinality(U \cup E) = Cardinality(U) + Cardinality(E) - Cardinality(U \cap E)
    BY <1>8, FS_Union
  <2>2. Cardinality(U \cap E) = 0
    BY <1>7, FS_EmptySet, Zenon
  <2>. QED  BY <1>8, <2>1, <2>2
<1>10. Cardinality(D) = Cardinality(U) + Cardinality(E) + Cardinality(N)
  <2>1. Cardinality((U \cup E) \cup N)
          = Cardinality(U \cup E) + Cardinality(N) - Cardinality((U \cup E) \cap N)
    BY <1>8, <1>9, FS_Union
  <2>2. Cardinality((U \cup E) \cap N) = 0 /\ Cardinality((U \cup E) \cup N) = Cardinality(D)
    BY <1>7, FS_EmptySet, Zenon
  <2>. QED  BY <1>8, <1>9, <2>1, <2>2
<1>. QED  BY <1>4, <1>5, <1>6, <1>8, <1>10 DEF U, E, N, D

\* In a table of any length and for any values the unexpected ones that the check
\* counts are the known ones but for those the profile counts as allowed.
THEOREM DomainsAgree ==
    ASSUME NEW service \in {"yellow", "green"}, NEW table, IsTable(table, service),
           NEW a \in DOMAIN DomainValues(service), NEW column, column = Column(table, a),
           NEW counts, counts = DomainProfile(column), NEW measured,
           measured = DomainMeasurements(table, service)[<<"domain", a>>]
    PROVE  /\ measured + SumFunctionOnSet(counts, DOMAIN counts \cap DomainValues(service)[a])
                + NullCount(column) = Len(table)
           /\ measured \in Nat /\ measured <= Len(table)
<1> DEFINE allowed == DomainValues(service)
           unexpected == Unexpected(column, allowed[a])
<1>1. measured = SumFunctionOnSet([v \in unexpected |-> Copies(column, v)], unexpected)
  <2>1. <<"domain", a>> \in {<<"domain", b>> : b \in DOMAIN allowed} /\ <<"domain", a>>[2] = a
    OBVIOUS
  <2> HIDE DEF allowed
  <2>. QED  BY <2>1 DEF DomainMeasurements, Unexpected, allowed
<1>2. DOMAIN column = DOMAIN table
  BY DEF Column
<1>3. IsFiniteSet(DOMAIN column) /\ Cardinality(DOMAIN column) = Len(table) /\ Len(table) \in Nat
  BY <1>2, RowsOfTable
<1> HIDE DEF unexpected
<1>4. /\ SumFunctionOnSet([v \in unexpected |-> Copies(column, v)], unexpected)
           = Cardinality(Within(DOMAIN column, column, unexpected))
      /\ Cardinality(Within(DOMAIN column, column, unexpected))
           + SumFunctionOnSet(counts, DOMAIN counts \cap allowed[a]) + NullCount(column)
           = Cardinality(DOMAIN column)
      /\ Cardinality(Within(DOMAIN column, column, unexpected)) \in Nat
      /\ SumFunctionOnSet(counts, DOMAIN counts \cap allowed[a]) \in Nat
      /\ NullCount(column) \in Nat
  BY <1>3, ColumnAddsUp DEF unexpected
<1>. QED  BY <1>1, <1>3, <1>4

\* The zone rows of a location in an accepted zone file: one, or the 0 of the
\* outer join.
LEMMA ZoneOfLocation ==
    ASSUME NEW zones \in Seq(Nat), IsInjective(zones), NEW location
    PROVE  \E k : /\ JoinedZones(zones, location) = {k}
                  /\ k = 0 <=> location \notin ToSet(zones)
<1> DEFINE found == {k \in DOMAIN zones : zones[k] = location}
<1>1. DOMAIN zones = 1..Len(zones) /\ Len(zones) \in Nat
  OBVIOUS
<1>2. CASE found = {}
  BY <1>2 DEF JoinedZones, ToSet
<1>3. CASE found # {}
  <2>1. PICK k \in DOMAIN zones : zones[k] = location
    BY <1>3
  <2>2. found = {k}
    BY <2>1 DEF IsInjective
  <2>3. k # 0 /\ location \in ToSet(zones)
    BY <1>1, <2>1 DEF ToSet
  <2>4. JoinedZones(zones, location) = found
    BY <1>3 DEF JoinedZones
  <2>. QED  BY <2>2, <2>3, <2>4
<1>. QED  BY <1>2, <1>3

\* On an accepted zone file every row of the trips is joined once.
LEMMA ZonesJoinOnce ==
    ASSUME NEW table, IsFiniteSet(DOMAIN table), NEW zones \in Seq(Nat), IsInjective(zones),
           NEW a \in {"pickup_location_id", "dropoff_location_id"}, NEW column, column = Column(table, a)
    PROVE  ZoneMeasurements(table, zones)[<<"zone", a>>]
             = Cardinality(Within(DOMAIN column, column, Unexpected(column, ToSet(zones))))
<1> DEFINE D == DOMAIN table
           P(i) == JoinedZones(zones, table[i]["pickup_location_id"])
           Q(i) == JoinedZones(zones, table[i]["dropoff_location_id"])
           p == [i \in D |-> CHOOSE k : P(i) = {k}]
           q == [i \in D |-> CHOOSE k : Q(i) = {k}]
           row == [i \in D |-> <<i, p[i], q[i]>>]
           joined == UNION {{i} \X P(i) \X Q(i) : i \in D}
           x == IF a = "pickup_location_id" THEN 2 ELSE 3
           failing == {j \in joined : table[j[1]][a] # Null /\ j[x] = 0}
           rows == Within(DOMAIN column, column, Unexpected(column, ToSet(zones)))
<1>1. ASSUME NEW i \in D PROVE P(i) = {p[i]} /\ (p[i] = 0 <=> table[i]["pickup_location_id"] \notin ToSet(zones))
  <2>1. PICK k : P(i) = {k} /\ (k = 0 <=> table[i]["pickup_location_id"] \notin ToSet(zones))
    BY ZoneOfLocation
  <2>2. p[i] = k
    BY <2>1
  <2>. QED  BY <2>1, <2>2
<1>2. ASSUME NEW i \in D PROVE Q(i) = {q[i]} /\ (q[i] = 0 <=> table[i]["dropoff_location_id"] \notin ToSet(zones))
  <2>1. PICK k : Q(i) = {k} /\ (k = 0 <=> table[i]["dropoff_location_id"] \notin ToSet(zones))
    BY ZoneOfLocation
  <2>2. q[i] = k
    BY <2>1
  <2>. QED  BY <2>1, <2>2
<1>3. ZoneMeasurements(table, zones)[<<"zone", a>>] = Cardinality(failing)
  <2>1. CASE a = "pickup_location_id"
    BY <2>1 DEF ZoneMeasurements
  <2>2. CASE a = "dropoff_location_id"
    BY <2>2 DEF ZoneMeasurements
  <2>. QED  BY <2>1, <2>2
<1>4. ASSUME NEW j PROVE j \in joined <=> \E i \in D : j = row[i]
  <2>1. ASSUME NEW i \in D PROVE j \in {i} \X P(i) \X Q(i) <=> j = row[i]
    <3>1. {i} \X P(i) \X Q(i) = {i} \X {p[i]} \X {q[i]}
      BY <1>1, <1>2
    <3> HIDE DEF P, Q, p, q
    <3>. QED  BY <3>1
  <2>2. j \in joined <=> \E i \in D : j \in {i} \X P(i) \X Q(i)
    OBVIOUS
  <2>. QED  BY <2>1, <2>2
<1>5. ASSUME NEW i \in D
      PROVE  row[i][1] = i /\ row[i][x] = IF a = "pickup_location_id" THEN p[i] ELSE q[i]
  <2>1. row[i] = <<i, p[i], q[i]>>
    OBVIOUS
  <2> HIDE DEF row, p, q
  <2>2. row[i][1] = i /\ row[i][2] = p[i] /\ row[i][3] = q[i]
    BY <2>1
  <2>. QED  BY <2>2
<1>6. rows \in SUBSET D /\ \A i \in D : i \in rows <=> table[i][a] # Null /\ table[i][a] \notin ToSet(zones)
  BY DEF Within, Unexpected, Column, ToSet
<1>7. ASSUME NEW i \in D
      PROVE  row[i][x] = 0 <=> table[i][a] \notin ToSet(zones)
  BY <1>1, <1>2, <1>5
<1> DEFINE f == [i \in rows |-> row[i]]
<1> HIDE DEF row, rows, joined, p, q, x
<1>8. \A i \in rows : row[i] \in failing
  BY <1>4, <1>5, <1>6, <1>7
<1>9. \A j \in failing : \E i \in rows : f[i] = j
  BY <1>4, <1>5, <1>6, <1>7
<1>10. \A i, k \in rows : row[i] = row[k] => i = k
  <2>1. \A i \in rows : row[i][1] = i
    BY <1>5, <1>6
  <2>. QED  BY <2>1
<1> HIDE DEF failing
<1>11. f \in [rows -> failing]
  BY <1>8
<1>12. f \in Bijection(rows, failing)
  BY <1>9, <1>10, <1>11 DEF Bijection, Injection, Surjection, IsInjective
<1>13. IsFiniteSet(rows)
  BY <1>6, FS_Subset
<1>14. Cardinality(failing) = Cardinality(rows)
  BY <1>12, <1>13, FS_Bijection DEF ExistsBijection
<1>. QED  BY <1>3, <1>14 DEF rows

\* On any zone file without a repeated location the check and the profile count the
\* same unmatched rows, and no more than there are (zone_reference_profile).
THEOREM LocationsAgree ==
    ASSUME NEW service, NEW table, IsTable(table, service), NEW zones \in Seq(Nat), IsInjective(zones),
           NEW a \in {"pickup_location_id", "dropoff_location_id"}, NEW column, column = Column(table, a),
           NEW measured, measured = ZoneMeasurements(table, zones)[<<"zone", a>>]
    PROVE  measured = ZoneReferenceProfile(column, ToSet(zones)) /\ measured <= Len(table)
<1> DEFINE unexpected == Unexpected(column, ToSet(zones))
           counts == DomainProfile(column)
<1>1. DOMAIN column = DOMAIN table /\ Len(column) = Len(table)
  <2>1. DOMAIN column = 1..Len(table) /\ column = [i \in 1..Len(table) |-> table[i][a]] /\ Len(table) \in Nat
    BY RowsOfTable DEF Column
  <2>. QED  BY <2>1, RowsOfTable
<1>2. IsFiniteSet(DOMAIN column) /\ Cardinality(DOMAIN column) = Len(table) /\ Len(table) \in Nat
  BY <1>1, RowsOfTable
<1>3. measured = Cardinality(Within(DOMAIN column, column, unexpected))
  BY <1>1, <1>2, ZonesJoinOnce
<1>4. ZoneReferenceProfile(column, ToSet(zones))
        = Len(column) - NullCount(column) - SumFunctionOnSet(counts, DOMAIN counts \cap ToSet(zones))
  BY DEF ZoneReferenceProfile
<1> HIDE DEF unexpected, counts
<1>5. /\ Cardinality(Within(DOMAIN column, column, unexpected))
           + SumFunctionOnSet(counts, DOMAIN counts \cap ToSet(zones)) + NullCount(column)
           = Cardinality(DOMAIN column)
      /\ Cardinality(Within(DOMAIN column, column, unexpected)) \in Nat
      /\ SumFunctionOnSet(counts, DOMAIN counts \cap ToSet(zones)) \in Nat
      /\ NullCount(column) \in Nat
  BY <1>2, ColumnAddsUp DEF unexpected, counts
<1>. QED  BY <1>1, <1>2, <1>3, <1>4, <1>5

-----------------------------------------------------------------------------
(* Duplicates.                                                              *)

\* The rows that occur more than once.
Repeated(table) == {row \in ToSet(table) : Copies(table, row) > 1}

\* A value occurs more than once if it does at two positions.
LEMMA MoreThanOneCopy ==
    ASSUME NEW values, IsFiniteSet(DOMAIN values), NEW v
    PROVE  Copies(values, v) > 1 <=> \E i, k \in DOMAIN values : i # k /\ values[i] = v /\ values[k] = v
<1> DEFINE A == At(DOMAIN values, values, v)
<1>1. Copies(values, v) = Cardinality(A) /\ IsFiniteSet(A) /\ Cardinality(A) \in Nat
  BY CopiesAt, PositionsAddUp
<1>2. \A i : i \in A <=> i \in DOMAIN values /\ values[i] = v
  BY DEF At
<1> HIDE DEF A
<1>3. ASSUME NEW i \in A, NEW k \in A, i # k PROVE Cardinality(A) > 1
  <2>1. {i, k} \in SUBSET A
    OBVIOUS
  <2>2. Cardinality({i, k}) = 2
    <3>1. IsFiniteSet({i}) /\ Cardinality({i}) = 1
      BY FS_Singleton
    <3>2. Cardinality({i} \cup {k}) = Cardinality({i}) + 1
      BY <1>3, <3>1, FS_AddElement
    <3>3. {i, k} = {i} \cup {k}
      OBVIOUS
    <3>. QED  BY <3>1, <3>2, <3>3
  <2>3. Cardinality({i, k}) <= Cardinality(A)
    BY <1>1, <2>1, FS_Subset
  <2>. QED  BY <1>1, <2>2, <2>3
<1>4. ASSUME Cardinality(A) > 1 PROVE \E i, k \in A : i # k
  <2>1. A # {}
    BY <1>4, FS_EmptySet
  <2>2. PICK i \in A : TRUE
    BY <2>1
  <2>3. A # {i}
    BY <1>4, FS_Singleton
  <2>. QED  BY <2>2, <2>3
<1>. QED  BY <1>1, <1>2, <1>3, <1>4

LEMMA RepeatedAreFinite ==
    ASSUME NEW table, IsFiniteSet(DOMAIN table)
    PROVE  IsFiniteSet(Repeated(table)) /\ Cardinality(Repeated(table)) \in Nat
<1>1. Repeated(table) \in SUBSET ToSet(table)
  BY DEF Repeated
<1>. QED  BY <1>1, ValuesAreFinite, FS_Subset, FS_CardinalityType

\* What SQL measures: the rows of the groups, and one less of each group.
LEMMA GroupsAddUp ==
    ASSUME NEW table, IsFiniteSet(DOMAIN table)
    PROVE  DuplicateMeasurement(table)
             = [participating |-> Cardinality(Within(DOMAIN table, table, Repeated(table))),
                excess |-> Cardinality(Within(DOMAIN table, table, Repeated(table)))
                             - Cardinality(Repeated(table)),
                groups |-> Cardinality(Repeated(table))]
<1> DEFINE groups == Repeated(table)
           all == [row \in groups |-> Copies(table, row)]
           more == [row \in groups |-> Copies(table, row) - 1]
<1>1. DuplicateMeasurement(table) = [participating |-> SumFunctionOnSet(all, groups),
                                     excess |-> SumFunctionOnSet(more, groups),
                                     groups |-> Cardinality(groups)]
  BY DEF DuplicateMeasurement, Repeated
<1>2. /\ \A row \in groups : all[row] = Cardinality(At(DOMAIN table, table, row))
      /\ \A row \in groups : more[row] = Cardinality(At(DOMAIN table, table, row)) - 1
  BY CopiesAt
<1> HIDE DEF groups, all, more
<1>3. IsFiniteSet(groups)
  BY RepeatedAreFinite DEF groups
<1>4. SumFunctionOnSet(all, groups) = Cardinality(Within(DOMAIN table, table, groups))
  BY <1>2, <1>3, CountsAddUp
<1>5. SumFunctionOnSet(more, groups) = Cardinality(Within(DOMAIN table, table, groups)) - Cardinality(groups)
  BY <1>2, <1>3, ExcessAddsUp
<1>. QED  BY <1>1, <1>4, <1>5 DEF groups

\* The rows whose hash occurs twice hold all copies of the repeated rows.
LEMMA CandidatesSuffice ==
    ASSUME NEW table, IsFiniteSet(DOMAIN table),
           NEW hashes, hashes = [i \in DOMAIN table |-> Hash(table[i])],
           NEW kept, kept = Restrict(table, {i \in DOMAIN table :
                                               hashes[i] \in {h \in ToSet(hashes) : Copies(hashes, h) > 1}})
    PROVE  /\ Repeated(kept) = Repeated(table)
           /\ \A row \in Repeated(table) : Copies(kept, row) = Copies(table, row)
<1>1. /\ DOMAIN kept \in SUBSET DOMAIN table /\ \A i \in DOMAIN kept : kept[i] = table[i]
      /\ \A i \in DOMAIN table : i \in DOMAIN kept <=> Copies(hashes, hashes[i]) > 1
  BY DEF Restrict, ToSet
<1>2. IsFiniteSet(DOMAIN kept) /\ IsFiniteSet(DOMAIN hashes)
  BY <1>1, FS_Subset
<1>3. DOMAIN hashes = DOMAIN table /\ \A i, k \in DOMAIN table : table[i] = table[k] => hashes[i] = hashes[k]
  OBVIOUS
<1>4. ASSUME NEW i \in DOMAIN table, NEW k \in DOMAIN table, i # k, table[i] = table[k] PROVE i \in DOMAIN kept
  <2>1. Copies(hashes, hashes[i]) > 1
    BY <1>2, <1>3, <1>4, MoreThanOneCopy
  <2>. QED  BY <1>1, <2>1
<1>5. ASSUME NEW row PROVE Copies(kept, row) > 1 <=> Copies(table, row) > 1
  <2>1. Copies(kept, row) > 1
          <=> \E i, k \in DOMAIN kept : i # k /\ kept[i] = row /\ kept[k] = row
    BY <1>2, MoreThanOneCopy
  <2>2. Copies(table, row) > 1
          <=> \E i, k \in DOMAIN table : i # k /\ table[i] = row /\ table[k] = row
    BY MoreThanOneCopy
  <2>3. ASSUME NEW i \in DOMAIN kept, NEW k \in DOMAIN kept, i # k, kept[i] = row, kept[k] = row
        PROVE  Copies(table, row) > 1
    BY <1>1, <2>2, <2>3
  <2>4. ASSUME NEW i \in DOMAIN table, NEW k \in DOMAIN table, i # k, table[i] = row, table[k] = row
        PROVE  Copies(kept, row) > 1
    <3>1. i \in DOMAIN kept /\ k \in DOMAIN kept
      BY <1>4, <2>4
    <3>. QED  BY <1>1, <2>1, <2>4, <3>1
  <2>. QED  BY <2>1, <2>2, <2>3, <2>4
<1>6. ASSUME NEW row \in Repeated(table) PROVE Copies(kept, row) = Copies(table, row) /\ row \in ToSet(kept)
  <2>1. PICK i \in DOMAIN table, k \in DOMAIN table : i # k /\ table[i] = row /\ table[k] = row
    BY MoreThanOneCopy DEF Repeated
  <2>2. ASSUME NEW j \in DOMAIN table, table[j] = row PROVE j \in DOMAIN kept
    BY <1>4, <2>1, <2>2
  <2>3. At(DOMAIN kept, kept, row) = At(DOMAIN table, table, row)
    BY <1>1, <2>2 DEF At
  <2>4. row \in ToSet(kept)
    BY <1>1, <2>1, <2>2 DEF ToSet
  <2>. QED  BY <2>3, <2>4, CopiesAt
<1>7. ToSet(kept) \subseteq ToSet(table)
  BY <1>1 DEF ToSet
<1>8. Repeated(kept) = Repeated(table)
  BY <1>5, <1>6, <1>7 DEF Repeated
<1>. QED  BY <1>6, <1>8

\* For every hash function and any rows the two passes of the profile find what SQL
\* finds: collisions change nothing (exact_duplicate_profile).
THEOREM HashesDoNotMatter ==
    ASSUME NEW table, IsFiniteSet(DOMAIN table)
    PROVE  ExactDuplicates(table) = DuplicateMeasurement(table)
<1> DEFINE hashes == [i \in DOMAIN table |-> Hash(table[i])]
           kept == Restrict(table, {i \in DOMAIN table :
                                      hashes[i] \in {h \in ToSet(hashes) : Copies(hashes, h) > 1}})
           groups == Repeated(table)
           counts == [row \in Repeated(kept) |-> Copies(kept, row)]
<1>1. ExactDuplicates(table) = DuplicateProfile(counts)
  BY DEF ExactDuplicates, Repeated
<1>2. Repeated(kept) = groups /\ \A row \in groups : Copies(kept, row) = Copies(table, row)
  BY CandidatesSuffice
<1> HIDE DEF kept
<1>3. counts = [row \in groups |-> Copies(table, row)]
  BY <1>2
<1>4. DOMAIN counts = groups
  BY <1>2
<1>5. [row \in groups |-> counts[row] - 1] = [row \in groups |-> Copies(table, row) - 1]
  BY <1>3
<1>6. DuplicateProfile(counts) = [participating |-> SumFunctionOnSet(counts, groups),
                                  excess |-> SumFunctionOnSet([row \in groups |-> counts[row] - 1], groups),
                                  groups |-> Cardinality(groups)]
  <2> HIDE DEF counts, groups
  <2>. QED  BY <1>4 DEF DuplicateProfile
<1>7. DuplicateMeasurement(table)
        = [participating |-> SumFunctionOnSet([row \in groups |-> Copies(table, row)], groups),
           excess |-> SumFunctionOnSet([row \in groups |-> Copies(table, row) - 1], groups),
           groups |-> Cardinality(groups)]
  BY DEF DuplicateMeasurement, Repeated
<1> HIDE DEF counts, groups
<1>. QED  BY <1>1, <1>3, <1>5, <1>6, <1>7

\* The masks of pandas mark, in any table, the rows of the groups of SQL and all but
\* the first of each group (dataframe_duplicate_profile).
THEOREM MasksCountTheSame ==
    ASSUME NEW table, NEW n \in Nat, DOMAIN table = 1..n
    PROVE  DataframeDuplicates(table) = DuplicateMeasurement(table)
<1> DEFINE D == DOMAIN table
           groups == Repeated(table)
           again == {i \in D : \E k \in 1..(i - 1) : table[k] = table[i]}
           mask == {i \in D : \E k \in D \ {i} : table[k] = table[i]}
           first == mask \ again
           f == [i \in first |-> table[i]]
<1>1. IsFiniteSet(D)
  BY FirstNumbers
<1>2. DataframeDuplicates(table) = [participating |-> Cardinality(mask), excess |-> Cardinality(again),
                                    groups |-> Cardinality({table[i] : i \in mask})]
  BY DEF DataframeDuplicates
<1>3. mask = Within(D, table, groups)
  <2>1. ASSUME NEW i \in D PROVE i \in mask <=> table[i] \in groups
    <3>1. table[i] \in groups <=> Copies(table, table[i]) > 1
      BY DEF Repeated, ToSet
    <3>2. Copies(table, table[i]) > 1 <=> \E j, k \in D : j # k /\ table[j] = table[i] /\ table[k] = table[i]
      BY <1>1, MoreThanOneCopy
    <3>. QED  BY <3>1, <3>2
  <2>. QED  BY <2>1 DEF Within
<1>4. {table[i] : i \in mask} = groups
  <2>1. \A row \in groups : \E i \in D : table[i] = row
    BY DEF Repeated, ToSet
  <2> HIDE DEF groups, mask
  <2>. QED  BY <1>3, <2>1 DEF Within
<1>5. again \in SUBSET mask
  OBVIOUS
<1>6. /\ IsFiniteSet(mask) /\ Cardinality(mask) \in Nat /\ IsFiniteSet(first)
      /\ Cardinality(first) = Cardinality(mask) - Cardinality(again)
      /\ IsFiniteSet(again) /\ Cardinality(again) \in Nat
  <2>1. IsFiniteSet(mask) /\ Cardinality(mask) \in Nat
    <3>1. mask \in SUBSET D
      OBVIOUS
    <3>. QED  BY <1>1, <3>1, FS_Subset, FS_CardinalityType
  <2>2. IsFiniteSet(again) /\ Cardinality(again) \in Nat
    BY <1>5, <2>1, FS_Subset, FS_CardinalityType
  <2>3. mask \cap again = again
    BY <1>5
  <2>4. Cardinality(mask \ again) = Cardinality(mask) - Cardinality(mask \cap again)
    BY <2>1, FS_Difference
  <2>5. IsFiniteSet(first)
    BY <2>1, FS_Difference
  <2> HIDE DEF mask, again
  <2>. QED  BY <2>1, <2>2, <2>3, <2>4, <2>5
<1>7. \A i \in first : table[i] \in groups
  BY <1>3 DEF Within
<1>8. ASSUME NEW i \in first, NEW k \in first, table[i] = table[k] PROVE i = k
  <2>1. i \in Nat /\ k \in Nat /\ i \in D /\ k \in D /\ i >= 1 /\ k >= 1
    OBVIOUS
  <2>2. ~(i < k)
    BY <1>8, <2>1
  <2>3. ~(k < i)
    BY <1>8, <2>1
  <2>. QED  BY <2>1, <2>2, <2>3
<1>9. ASSUME NEW row \in groups PROVE \E i \in first : f[i] = row
  <2> DEFINE T == {i \in D : table[i] = row}
  <2>1. T \in SUBSET Nat /\ T # {}
    BY DEF Repeated, ToSet
  <2>2. PICK i \in T : \A k \in T : i <= k
    BY <2>1, LeastNumber
  <2>3. i \in mask
    BY <1>3 DEF Within
  <2>4. i \notin again
    <3>1. i \in Nat /\ i \in 1..n /\ table[i] = row
      OBVIOUS
    <3>2. \A k \in 1..(i - 1) : k \in D /\ ~(i <= k)
      BY <3>1
    <3>. QED  BY <2>2, <3>1, <3>2
  <2>. QED  BY <2>3, <2>4
<1> HIDE DEF D, groups, again, mask, first
<1>10. f \in Bijection(first, groups)
  BY <1>7, <1>8, <1>9 DEF Bijection, Injection, Surjection, IsInjective
<1>11. Cardinality(groups) = Cardinality(first)
  BY <1>6, <1>10, FS_Bijection DEF ExistsBijection
<1>12. Cardinality(again) = Cardinality(mask) - Cardinality(groups)
  BY <1>6, <1>11
<1>13. DuplicateMeasurement(table)
         = [participating |-> Cardinality(Within(D, table, groups)),
            excess |-> Cardinality(Within(D, table, groups)) - Cardinality(groups),
            groups |-> Cardinality(groups)]
  BY <1>1, GroupsAddUp DEF D, groups
<1>14. Cardinality({table[i] : i \in mask}) = Cardinality(groups)
  BY <1>4
<1>15. Cardinality(mask) = Cardinality(Within(D, table, groups))
  BY <1>3
<1>. QED  BY <1>2, <1>12, <1>13, <1>14, <1>15

-----------------------------------------------------------------------------
(* Durations.                                                               *)

\* Division rounds to 0 below the divisor only.
LEMMA QuotientIsPositive ==
    ASSUME NEW d \in Nat, NEW u \in Nat \ {0}
    PROVE  d \div u \in Nat /\ (d \div u > 0 <=> d >= u)
<1> DEFINE q == d \div u
<1>1. q \in Int /\ u * q <= d /\ d < u * q + u
  OBVIOUS
<1> HIDE DEF q
<1>2. ASSUME q < 0 PROVE FALSE
  <2>1. u * q <= -u
    BY <1>1, <1>2
  <2>. QED  BY <1>1, <2>1
<1>3. ASSUME q >= 1 PROVE u * q >= u
  BY <1>1, <1>3
<1>4. q = 0 => u * q = 0
  OBVIOUS
<1>5. q \in Nat /\ (q > 0 <=> d >= u)
  BY <1>1, <1>2, <1>3, <1>4
<1>. QED  BY <1>5 DEF q

\* A duration rounds to a negative number of seconds from a whole one on.
LEMMA RoundedDurations ==
    ASSUME NEW units \in Int
    PROVE  DividedDuration(units) \in Int /\ (DividedDuration(units) < 0 <=> units <= -UnitsPerSecond)
<1>1. UnitsPerSecond \in Nat \ {0}
  BY UnitAssumption
<1>2. CASE units < 0
  <2>1. -units \in Nat
    BY <1>2
  <2>2. /\ (-units) \div UnitsPerSecond \in Nat
        /\ (-units) \div UnitsPerSecond > 0 <=> -units >= UnitsPerSecond
    BY <1>1, <2>1, QuotientIsPositive
  <2>3. DividedDuration(units) = -((-units) \div UnitsPerSecond)
    BY <1>2 DEF DividedDuration
  <2>. QED  BY <1>1, <2>2, <2>3
<1>3. CASE ~(units < 0)
  <2>1. units \div UnitsPerSecond \in Nat
    BY <1>1, <1>3, QuotientIsPositive
  <2>2. DividedDuration(units) = units \div UnitsPerSecond
    BY <1>3 DEF DividedDuration
  <2>. QED  BY <1>1, <1>3, <2>1, <2>2
<1>. QED  BY <1>2, <1>3

\* In any table and for any unit the profile counts the trips the check takes, but
\* for those that end early by less than a second (duration_profile).
THEOREM DurationsDiffer ==
    ASSUME NEW service \in {"yellow", "green"}, NEW table, IsTable(table, service), NEW window, NEW zones,
           NEW early, early = {i \in DOMAIN table :
              /\ Null \notin {table[i]["pickup_datetime"], table[i]["dropoff_datetime"]}
              /\ table[i]["dropoff_datetime"] \in
                    (table[i]["pickup_datetime"] - UnitsPerSecond + 1)..(table[i]["pickup_datetime"] - 1)}
    PROVE  QualityMeasurements(table, service, TripModel(service), window, zones)[<<"order", "dropoff_datetime">>]
             - Cardinality(early) = DurationProfile(table, window).dropoff_before_pickup
<1> DEFINE name == <<"order", "dropoff_datetime">>
           from(i) == table[i]["pickup_datetime"]
           to(i) == table[i]["dropoff_datetime"]
           pickup == Column(table, "pickup_datetime")
           dropoff == Column(table, "dropoff_datetime")
           unknown == [i \in DOMAIN table |-> Null \in {pickup[i], dropoff[i]}]
           duration == [i \in DOMAIN table |->
              IF unknown[i] THEN Null ELSE DividedDuration(dropoff[i] - pickup[i])]
           taken == Taken(table, name, window)
           negative == {i \in DOMAIN duration : duration[i] # Null /\ duration[i] < 0}
<1>1. name \in RulesByDataset(service) /\ name[1] = "order" /\ name[2] = "dropoff_datetime"
  <2>1. name \in RulesByDataset("yellow")
    BY DEF RulesByDataset, YellowRules
  <2>2. name \in RulesByDataset("green")
    BY GreenCatalog DEF RulesByDataset
  <2>. QED  BY <2>1, <2>2
<1>2. QualityMeasurements(table, service, TripModel(service), window, zones)[name] = Cardinality(taken)
  <2> HIDE DEF name
  <2>. QED  BY <1>1, MeasuredNumbers
<1>3. DurationProfile(table, window).dropoff_before_pickup = Cardinality(negative)
  <2>1. DurationProfile(table, window).dropoff_before_pickup = NumericProfile(duration).count_lt_0
    BY DEF DurationProfile
  <2> HIDE DEF duration
  <2>. QED  BY <2>1 DEF NumericProfile, Rows
<1>4. ASSUME NEW i \in DOMAIN table PROVE from(i) \in Int \cup {Null} /\ to(i) \in Int \cup {Null}
  BY ComparedColumns DEF IsTable
<1>5. Null \notin Int
  BY NullAssumption
<1>6. ASSUME NEW i \in DOMAIN table
      PROVE  i \in taken <=> from(i) # Null /\ to(i) # Null /\ to(i) < from(i)
  <2>1. i \in taken <=> Less(to(i), from(i)) = TRUE
    BY DEF Taken, Condition
  <2> HIDE DEF from, to, taken
  <2>. QED  BY <1>4, <2>1, ComparisonsAgree
<1>7. ASSUME NEW i \in DOMAIN table
      PROVE  i \in negative <=> from(i) # Null /\ to(i) # Null /\ to(i) - from(i) <= -UnitsPerSecond
  <2>1. i \in negative <=> duration[i] # Null /\ duration[i] < 0
    OBVIOUS
  <2>2. unknown[i] <=> from(i) = Null \/ to(i) = Null
    BY DEF Column
  <2>3. duration[i] = IF unknown[i] THEN Null ELSE DividedDuration(to(i) - from(i))
    BY DEF Column
  <2> HIDE DEF from, to, negative, duration, unknown
  <2>4. CASE from(i) = Null \/ to(i) = Null
    BY <2>1, <2>2, <2>3, <2>4
  <2>5. CASE from(i) \in Int /\ to(i) \in Int
    <3>1. to(i) - from(i) \in Int
      BY <2>5
    <3>. QED  BY <1>5, <2>1, <2>2, <2>3, <2>5, <3>1, RoundedDurations
  <2>. QED  BY <1>4, <2>4, <2>5
<1>8. ASSUME NEW i \in DOMAIN table
      PROVE  i \in early <=> /\ from(i) # Null /\ to(i) # Null
                             /\ to(i) < from(i) /\ ~(to(i) - from(i) <= -UnitsPerSecond)
  <2>1. i \in early <=> /\ from(i) # Null /\ to(i) # Null
                        /\ to(i) \in (from(i) - UnitsPerSecond + 1)..(from(i) - 1)
    OBVIOUS
  <2> HIDE DEF from, to
  <2>2. CASE from(i) = Null \/ to(i) = Null
    BY <2>1, <2>2
  <2>3. CASE from(i) \in Int /\ to(i) \in Int
    BY <2>1, <2>3, UnitAssumption
  <2>. QED  BY <1>4, <2>2, <2>3
<1>9. taken \in SUBSET DOMAIN table /\ negative \in SUBSET DOMAIN table /\ early \in SUBSET DOMAIN table
  BY DEF Taken
<1>10. \A i \in DOMAIN table : i \in negative => i \in taken
  <2>1. ASSUME NEW i \in DOMAIN table, i \in negative PROVE i \in taken
    <3>1. from(i) \in Int /\ to(i) \in Int /\ to(i) - from(i) <= -UnitsPerSecond
      <4> HIDE DEF from, to
      <4>. QED  BY <1>4, <1>7, <2>1
    <3> HIDE DEF from, to, taken
    <3>2. to(i) < from(i)
      BY <3>1, UnitAssumption
    <3>. QED  BY <1>5, <1>6, <3>1, <3>2
  <2>. QED  BY <2>1
<1> HIDE DEF from, to, taken, negative
<1>11. taken \ early = negative /\ taken \cap early = early
  BY <1>6, <1>7, <1>8, <1>9, <1>10
<1>12. IsFiniteSet(taken) /\ IsFiniteSet(early)
  BY <1>9, RowsOfTable, FS_Subset
<1>13. Cardinality(taken \ early) = Cardinality(taken) - Cardinality(taken \cap early)
  BY <1>12, FS_Difference
<1>14. Cardinality(negative) = Cardinality(taken) - Cardinality(early)
  BY <1>11, <1>13, Zenon
<1>. QED  BY <1>2, <1>3, <1>14 DEF name

\* An accepted zone file has every location once.
LEMMA MeasuredOnceEach ==
    ASSUME NEW service \in {"yellow", "green"}, NEW table, IsTable(table, service), NEW window,
           NEW zones \in Seq(Nat), IsInjective(zones), NEW name \in RulesByDataset(service)
    PROVE  QualityMeasurements(table, service, TripModel(service), window, zones)[name] <= Len(table)
<1> DEFINE all == QualityMeasurements(table, service, TripModel(service), window, zones)
<1>1. /\ name[1] \in {"month", "order", "negative", "zero", "null"}
            => all[name] = Cardinality(Taken(table, name, window))
      /\ name[1] = "domain" => /\ name[2] \in DOMAIN DomainValues(service)
                               /\ all[name] = DomainMeasurements(table, service)[name]
      /\ name[1] = "zone" => /\ name[2] \in {"pickup_location_id", "dropoff_location_id"}
                             /\ all[name] = ZoneMeasurements(table, zones)[name]
      /\ name[1] = "duplicate" => all[name] = DuplicateMeasurement(table).participating
      /\ name[1] \in {"month", "order", "negative", "zero", "null", "domain", "zone", "duplicate"}
  BY MeasuredNumbers
<1>2. name = <<name[1], name[2]>>
  <2>1. CASE service = "yellow"
    BY <2>1 DEF RulesByDataset, YellowRules
  <2>2. CASE service = "green"
    BY <2>2, GreenCatalog DEF RulesByDataset
  <2>. QED  BY <2>1, <2>2
<1>3. IsFiniteSet(DOMAIN table) /\ Cardinality(DOMAIN table) = Len(table)
  BY RowsOfTable
<1> HIDE DEF all
<1>4. CASE name[1] \in {"month", "order", "negative", "zero", "null"}
  <2>1. Taken(table, name, window) \in SUBSET DOMAIN table
    BY DEF Taken
  <2>2. Cardinality(Taken(table, name, window)) <= Cardinality(DOMAIN table)
    BY <1>3, <2>1, FS_Subset
  <2>. QED  BY <1>1, <1>3, <1>4, <2>2 DEF all
<1>5. CASE name[1] = "domain"
  <2>1. DomainMeasurements(table, service)[<<"domain", name[2]>>] <= Len(table)
    BY <1>1, <1>5, DomainsAgree
  <2>. QED  BY <1>1, <1>2, <1>5, <2>1 DEF all
<1>6. CASE name[1] = "zone"
  <2>1. ZoneMeasurements(table, zones)[<<"zone", name[2]>>] <= Len(table)
    BY <1>1, <1>6, LocationsAgree
  <2>. QED  BY <1>1, <1>2, <1>6, <2>1 DEF all
<1>7. CASE name[1] = "duplicate"
  <2> DEFINE repeated == Within(DOMAIN table, table, Repeated(table))
  <2>1. DuplicateMeasurement(table).participating = Cardinality(repeated)
    BY <1>3, GroupsAddUp
  <2>2. repeated \in SUBSET DOMAIN table
    BY DEF Within
  <2> HIDE DEF repeated
  <2>3. Cardinality(repeated) <= Cardinality(DOMAIN table)
    BY <1>3, <2>2, FS_Subset
  <2>. QED  BY <1>1, <1>3, <1>7, <2>1, <2>3 DEF all
<1>. QED  BY <1>1, <1>4, <1>5, <1>6, <1>7

-----------------------------------------------------------------------------
(* Percentiles (benchmarking.py).                                           *)

\* The observations up to a value, and those below it.
UpTo(values, x) == {j \in DOMAIN values : values[j] <= x}
Below(values, x) == {j \in DOMAIN values : values[j] < x}

\* How the numbers of the observations up to and below a value are related.
LEMMA RanksOfValues ==
    ASSUME NEW n \in Nat, NEW values \in [1..n -> Int]
    PROVE  /\ \A x : /\ UpTo(values, x) \in SUBSET (1..n) /\ Below(values, x) \in SUBSET (1..n)
                     /\ IsFiniteSet(UpTo(values, x)) /\ IsFiniteSet(Below(values, x))
                     /\ Cardinality(UpTo(values, x)) \in Nat /\ Cardinality(Below(values, x)) \in Nat
                     /\ Cardinality(UpTo(values, x)) <= n
           /\ \A x \in Int : Cardinality(UpTo(values, x)) = Cardinality(Below(values, x)) + Copies(values, x)
           /\ \A x \in ToSet(values) : Cardinality(Below(values, x)) < Cardinality(UpTo(values, x))
           /\ \A x, y \in Int : x < y => Cardinality(UpTo(values, x)) <= Cardinality(Below(values, y))
<1>1. IsFiniteSet(1..n) /\ Cardinality(1..n) = n
  BY FirstNumbers
<1>2. \A x : UpTo(values, x) \in SUBSET (1..n) /\ Below(values, x) \in SUBSET (1..n)
  BY DEF UpTo, Below
<1>3. \A x : /\ IsFiniteSet(UpTo(values, x)) /\ IsFiniteSet(Below(values, x))
             /\ Cardinality(UpTo(values, x)) \in Nat /\ Cardinality(Below(values, x)) \in Nat
             /\ Cardinality(UpTo(values, x)) <= n
  <2>1. ASSUME NEW T \in SUBSET (1..n) PROVE IsFiniteSet(T) /\ Cardinality(T) \in Nat /\ Cardinality(T) <= n
    <3>1. IsFiniteSet(T) /\ Cardinality(T) <= Cardinality(1..n)
      BY <1>1, FS_Subset
    <3>. QED  BY <1>1, <3>1, FS_CardinalityType
  <2>. QED  BY <1>2, <2>1
<1>4. ASSUME NEW x \in Int
      PROVE  Cardinality(UpTo(values, x)) = Cardinality(Below(values, x)) + Copies(values, x)
  <2>1. /\ UpTo(values, x) \ Below(values, x) = At(DOMAIN values, values, x)
        /\ UpTo(values, x) \cap Below(values, x) = Below(values, x)
    BY DEF UpTo, Below, At
  <2>2. Cardinality(UpTo(values, x) \ Below(values, x))
          = Cardinality(UpTo(values, x)) - Cardinality(UpTo(values, x) \cap Below(values, x))
    BY <1>3, FS_Difference
  <2>3. Copies(values, x) = Cardinality(UpTo(values, x)) - Cardinality(Below(values, x))
    BY <2>1, <2>2, CopiesAt, Zenon
  <2>. QED  BY <1>3, <2>3
<1>5. ASSUME NEW x \in ToSet(values) PROVE Cardinality(Below(values, x)) < Cardinality(UpTo(values, x))
  <2>1. PICK i \in 1..n : values[i] = x
    BY DEF ToSet
  <2>2. x \in Int /\ i \in UpTo(values, x) /\ i \notin Below(values, x)
    BY <2>1 DEF UpTo, Below
  <2>3. Below(values, x) \in SUBSET UpTo(values, x)
    BY <2>2 DEF UpTo, Below
  <2>. QED  BY <1>3, <2>2, <2>3, FS_Subset
<1>6. ASSUME NEW x \in Int, NEW y \in Int, x < y
      PROVE  Cardinality(UpTo(values, x)) <= Cardinality(Below(values, y))
  <2>1. UpTo(values, x) \in SUBSET Below(values, y)
    BY <1>6 DEF UpTo, Below
  <2>. QED  BY <1>3, <2>1, FS_Subset
<1>. QED  BY <1>2, <1>3, <1>4, <1>5, <1>6

\* Some of the observations have a largest one among them.
LEMMA LargestValue ==
    ASSUME NEW n \in Nat, NEW values \in [1..n -> Int], NEW A \in SUBSET (1..n), A # {}
    PROVE  \E m \in A : \A j \in A : values[j] <= values[m]
<1> DEFINE rank(j) == Cardinality(UpTo(values, values[j]))
           M == {n - rank(j) : j \in A}
<1>1. \A j \in A : rank(j) \in Nat /\ rank(j) <= n /\ values[j] \in Int /\ values[j] \in ToSet(values)
  BY RanksOfValues DEF ToSet
<1>2. \A j, k \in A : values[j] < values[k] => rank(j) < rank(k)
  <2>1. ASSUME NEW j \in A, NEW k \in A, values[j] < values[k] PROVE rank(j) < rank(k)
    <3>1. Cardinality(Below(values, values[k])) \in Nat
      BY RanksOfValues
    <3>2. rank(j) <= Cardinality(Below(values, values[k]))
      BY <1>1, <2>1, RanksOfValues
    <3>3. Cardinality(Below(values, values[k])) < rank(k)
      BY <1>1, RanksOfValues
    <3>. QED  BY <1>1, <3>1, <3>2, <3>3
  <2>. QED  BY <2>1
<1> HIDE DEF rank
<1>3. M \in SUBSET Nat /\ M # {}
  <2>1. \A j \in A : n - rank(j) \in Nat
    BY <1>1
  <2>. QED  BY <2>1
<1>4. PICK l \in M : \A k \in M : l <= k
  BY <1>3, LeastNumber
<1>5. PICK m \in A : l = n - rank(m)
  BY <1>4
<1>6. ASSUME NEW j \in A PROVE values[j] <= values[m]
  <2>1. n - rank(j) \in M
    OBVIOUS
  <2>2. n - rank(m) <= n - rank(j)
    BY <1>4, <1>5, <2>1
  <2>3. rank(j) \in Nat /\ rank(m) \in Nat
    BY <1>1
  <2>4. ~(rank(m) < rank(j))
    BY <2>2, <2>3
  <2>. QED  BY <1>1, <1>2, <2>4
<1>. QED  BY <1>6

\* Every place in the order belongs to a value.
LEMMA EveryPlaceHasItsValue ==
    ASSUME NEW n \in Nat, NEW values \in [1..n -> Int], NEW i \in 1..n
    PROVE  \E x \in ToSet(values) : Cardinality(Below(values, x)) < i /\ i <= Cardinality(UpTo(values, x))
<1> DEFINE rank(x) == Cardinality(UpTo(values, x))
           T == {x \in ToSet(values) : rank(x) >= i}
           M == {rank(x) : x \in T}
<1>0. i \in Nat /\ i >= 1 /\ i <= n
  OBVIOUS
<1>1. \A x \in ToSet(values) : x \in Int /\ \E j \in 1..n : values[j] = x
  BY DEF ToSet
<1>2. \A j \in 1..n : values[j] \in ToSet(values)
  BY DEF ToSet
<1>3. T # {}
  <2>1. PICK m \in 1..n : \A j \in 1..n : values[j] <= values[m]
    <3>1. 1..n # {}
      OBVIOUS
    <3>. QED  BY <3>1, LargestValue
  <2>2. UpTo(values, values[m]) = 1..n
    BY <2>1 DEF UpTo
  <2>3. rank(values[m]) = n
    BY <2>2, FirstNumbers
  <2>. QED  BY <1>0, <1>2, <2>3
<1>4. M \in SUBSET Nat /\ M # {}
  BY <1>3, RanksOfValues
<1>5. PICK l \in M : \A k \in M : l <= k
  BY <1>4, LeastNumber
<1>6. PICK x \in T : l = rank(x)
  BY <1>5
<1>7. ASSUME ~(Cardinality(Below(values, x)) < i) PROVE FALSE
  <2>1. Cardinality(Below(values, x)) \in Nat /\ Cardinality(Below(values, x)) >= i
    BY <1>0, <1>7, RanksOfValues
  <2>2. Below(values, x) # {} /\ Below(values, x) \in SUBSET (1..n)
    <3>1. Below(values, x) # {}
      <4>1. Cardinality({}) = 0
        BY FS_EmptySet
      <4>2. Cardinality(Below(values, x)) # 0
        BY <1>0, <2>1
      <4>. QED  BY <4>1, <4>2, Zenon
    <3>. QED  BY <3>1, RanksOfValues
  <2>3. PICK m \in Below(values, x) : \A j \in Below(values, x) : values[j] <= values[m]
    BY <2>2, LargestValue
  <2>4. UpTo(values, values[m]) = Below(values, x)
    <3>1. values[m] < x /\ values[m] \in Int /\ x \in Int
      BY <1>1, <2>2 DEF Below
    <3>. QED  BY <2>3, <3>1 DEF UpTo, Below
  <2>5. rank(values[m]) = Cardinality(Below(values, x))
    BY <2>4
  <2>6. values[m] \in T
    BY <1>2, <2>1, <2>2, <2>5
  <2>7. rank(values[m]) < rank(x)
    BY <2>5, RanksOfValues
  <2>8. rank(x) <= rank(values[m])
    BY <1>5, <1>6, <2>6
  <2>9. rank(x) \in Nat /\ rank(values[m]) \in Nat
    BY RanksOfValues
  <2>. QED  BY <2>7, <2>8, <2>9
<1>. QED  BY <1>7

\* Observations can be sorted.
InOrder(s, values) ==
    /\ \A i, j \in DOMAIN s : i < j => s[i] <= s[j]
    /\ \A v \in ToSet(values) : Copies(s, v) = Copies(values, v)

LEMMA SortedExists ==
    ASSUME NEW n \in Nat, NEW values \in [1..n -> Int]
    PROVE  \E s \in [DOMAIN values -> ToSet(values)] : InOrder(s, values)
<1> DEFINE place(i, x) == Cardinality(Below(values, x)) < i /\ i <= Cardinality(UpTo(values, x))
           s == [i \in 1..n |-> CHOOSE x \in ToSet(values) : place(i, x)]
<1>1. \A x \in ToSet(values) : x \in Int
  BY DEF ToSet
<1>2. \A x : Cardinality(Below(values, x)) \in Nat /\ Cardinality(UpTo(values, x)) \in Nat
  BY RanksOfValues
<1>3. \A i \in 1..n : \E x \in ToSet(values) : place(i, x)
  BY EveryPlaceHasItsValue
<1> HIDE DEF place
<1>4. \A i \in 1..n : s[i] \in ToSet(values) /\ place(i, s[i])
  BY <1>3
<1>5. ASSUME NEW i \in 1..n, NEW j \in 1..n, NEW x \in ToSet(values), NEW y \in ToSet(values),
             place(i, x), place(j, y), x < y
      PROVE  i < j
  <2>1. Cardinality(UpTo(values, x)) <= Cardinality(Below(values, y))
    BY <1>1, <1>5, RanksOfValues
  <2>. QED  BY <1>2, <1>5, <2>1 DEF place
<1>6. s \in [1..n -> ToSet(values)]
  BY <1>4
<1> HIDE DEF s
<1>7. ASSUME NEW i \in 1..n, NEW j \in 1..n, i < j PROVE s[i] <= s[j]
  <2>1. s[i] \in Int /\ s[j] \in Int
    BY <1>1, <1>4
  <2>2. ~(s[j] < s[i])
    BY <1>4, <1>5, <1>7
  <2>. QED  BY <2>1, <2>2
<1>8. ASSUME NEW v \in ToSet(values) PROVE Copies(s, v) = Copies(values, v)
  <2> DEFINE a == Cardinality(Below(values, v))
             b == Cardinality(UpTo(values, v))
  <2>1. a \in Nat /\ b \in Nat /\ b <= n /\ a < b /\ v \in Int
    BY <1>1, RanksOfValues
  <2>2. ASSUME NEW i \in 1..n PROVE s[i] = v <=> a < i /\ i <= b
    <3>1. s[i] = v => a < i /\ i <= b
      BY <1>4 DEF place
    <3>2. ASSUME a < i, i <= b PROVE s[i] = v
      <4>1. place(i, v)
        BY <3>2 DEF place
      <4>2. ~(s[i] < v) /\ ~(v < s[i])
        BY <1>4, <1>5, <4>1
      <4>3. s[i] \in Int /\ v \in Int
        BY <1>1, <1>4
      <4>. QED  BY <4>2, <4>3
    <3>. QED  BY <3>1, <3>2
  <2>3. At(DOMAIN s, s, v) = (a + 1)..b
    <3> HIDE DEF a, b
    <3>1. DOMAIN s = 1..n
      BY <1>6
    <3>2. (a + 1)..b \in SUBSET (1..n)
      BY <2>1
    <3>. QED  BY <2>1, <2>2, <3>1, <3>2 DEF At
  <2>4. Cardinality((a + 1)..b) = b - a
    <3> HIDE DEF a, b
    <3>1. a + 1 \in Int /\ b \in Int /\ ~(a + 1 > b)
      BY <2>1
    <3>2. Cardinality((a + 1)..b) = b - (a + 1) + 1
      BY <3>1, FS_Interval
    <3>. QED  BY <2>1, <3>2
  <2>5. b = a + Copies(values, v)
    BY <2>1, RanksOfValues
  <2>6. Copies(values, v) \in Nat
    BY CopiesAt, PositionsAddUp, FirstNumbers
  <2>7. Copies(s, v) = Cardinality((a + 1)..b)
    BY <2>3, CopiesAt
  <2> HIDE DEF a, b
  <2>. QED  BY <2>1, <2>4, <2>5, <2>6, <2>7
<1>9. DOMAIN values = 1..n /\ DOMAIN s = 1..n
  BY <1>6
<1>. QED  BY <1>6, <1>7, <1>8, <1>9 DEF InOrder

\* The value at a place of the sorted observations bounds so many of them.
LEMMA SortedCounts ==
    ASSUME NEW n \in Nat, NEW values \in [1..n -> Int], NEW r \in 1..n,
           NEW v, v = Sorted(values)[r]
    PROVE  /\ r <= Cardinality(UpTo(values, v))
           /\ Cardinality(Below(values, v)) < r
<1> DEFINE s == Sorted(values)
           D == DOMAIN values
           low == {y \in ToSet(values) : y <= v}
           lower == {y \in ToSet(values) : y < v}
<1>1. s \in [D -> ToSet(values)] /\ InOrder(s, values)
  <2>1. Sorted(values) = CHOOSE t \in [DOMAIN values -> ToSet(values)] : InOrder(t, values)
    BY DEF Sorted, InOrder
  <2>. QED  BY <2>1, SortedExists
<1> HIDE DEF s
<1>2. D = 1..n /\ IsFiniteSet(D) /\ DOMAIN s = D
  BY <1>1, FirstNumbers
<1>3. \A x \in ToSet(values) : x \in Int
  BY DEF ToSet
<1>4. v \in Int /\ v = s[r]
  BY <1>1, <1>2, <1>3 DEF s
<1>5. ASSUME NEW K \in SUBSET ToSet(values) PROVE Cardinality(Within(D, s, K)) = Cardinality(Within(D, values, K))
  <2> DEFINE f == [x \in K |-> Copies(values, x)]
  <2>1. IsFiniteSet(K)
    BY <1>2, ValuesAreFinite, FS_Subset
  <2>2. \A x \in K : f[x] = Cardinality(At(D, values, x))
    BY CopiesAt
  <2>3. \A x \in K : f[x] = Cardinality(At(D, s, x))
    BY <1>1, <1>2, CopiesAt DEF InOrder
  <2> HIDE DEF f, D
  <2>4. SumFunctionOnSet(f, K) = Cardinality(Within(D, values, K))
    BY <1>2, <2>1, <2>2, CountsAddUp
  <2>5. SumFunctionOnSet(f, K) = Cardinality(Within(D, s, K))
    BY <1>2, <2>1, <2>3, CountsAddUp
  <2>. QED  BY <2>4, <2>5
<1>6. Within(D, values, low) = UpTo(values, v) /\ Within(D, values, lower) = Below(values, v)
  BY DEF Within, UpTo, Below, ToSet
<1>7. low \in SUBSET ToSet(values) /\ lower \in SUBSET ToSet(values)
  OBVIOUS
<1>8. /\ Within(D, s, low) \in SUBSET (1..n) /\ IsFiniteSet(Within(D, s, low))
      /\ Within(D, s, lower) \in SUBSET (1..n) /\ IsFiniteSet(Within(D, s, lower))
      /\ Cardinality(Within(D, s, low)) \in Nat /\ Cardinality(Within(D, s, lower)) \in Nat
  <2>1. Within(D, s, low) \in SUBSET (1..n) /\ Within(D, s, lower) \in SUBSET (1..n)
    BY <1>2 DEF Within
  <2>. QED  BY <1>2, <2>1, PositionsAddUp
<1>9. \A i \in 1..n : s[i] \in ToSet(values) /\ s[i] \in Int
  BY <1>1, <1>2, <1>3
<1>10. r \in Nat /\ r - 1 \in Nat /\ r \in 1..n
  OBVIOUS
<1>11. r <= Cardinality(Within(D, s, low))
  <2>1. ASSUME NEW i \in 1..r PROVE i \in Within(D, s, low)
    <3>1. i \in 1..n /\ (i < r \/ i = r)
      OBVIOUS
    <3>2. s[i] <= v
      BY <1>1, <1>2, <1>4, <1>9, <3>1 DEF InOrder
    <3>. QED  BY <1>2, <1>9, <3>1, <3>2 DEF Within
  <2>2. 1..r \in SUBSET Within(D, s, low)
    BY <2>1
  <2>3. Cardinality(1..r) <= Cardinality(Within(D, s, low))
    BY <1>8, <2>2, FS_Subset
  <2>4. Cardinality(1..r) = r
    BY <1>10, FirstNumbers
  <2>. QED  BY <2>3, <2>4
<1>12. Cardinality(Within(D, s, lower)) <= r - 1
  <2>1. ASSUME NEW i \in Within(D, s, lower) PROVE i \in 1..(r - 1)
    <3>1. i \in 1..n /\ s[i] < v
      BY <1>2 DEF Within
    <3>2. ~(r < i) /\ r # i
      BY <1>1, <1>2, <1>4, <1>9, <1>10, <3>1 DEF InOrder
    <3>. QED  BY <3>1, <3>2
  <2>2. Within(D, s, lower) \in SUBSET (1..(r - 1))
    BY <2>1
  <2>3. IsFiniteSet(1..(r - 1)) /\ Cardinality(1..(r - 1)) = r - 1
    BY <1>10, FirstNumbers
  <2>4. Cardinality(Within(D, s, lower)) <= Cardinality(1..(r - 1))
    BY <2>2, <2>3, FS_Subset
  <2>. QED  BY <2>3, <2>4
<1>13. /\ Cardinality(UpTo(values, v)) = Cardinality(Within(D, s, low))
       /\ Cardinality(Below(values, v)) = Cardinality(Within(D, s, lower))
  <2>1. /\ Cardinality(Within(D, s, low)) = Cardinality(Within(D, values, low))
        /\ Cardinality(Within(D, s, lower)) = Cardinality(Within(D, values, lower))
    BY <1>5, <1>7
  <2>. QED  BY <1>6, <2>1, Zenon
<1> HIDE DEF D, low, lower
<1>. QED  BY <1>8, <1>10, <1>11, <1>12, <1>13

LEMMA Quotient ==
    ASSUME NEW x \in Nat, NEW d \in Nat \ {0}, NEW q, q = x \div d
    PROVE  q \in Int /\ d * q <= x /\ x < d * q + d
OBVIOUS

LEMMA SmallerFactor ==
    ASSUME NEW x \in Int, NEW y \in Int, NEW d \in Nat \ {0}, x * d < y * d
    PROVE  x < y
OBVIOUS

LEMMA LargerProduct ==
    ASSUME NEW x \in Int, NEW y \in Int, NEW d \in Nat, x <= y
    PROVE  d * x <= d * y /\ x * d <= y * d
OBVIOUS

\* The rank is not below p * n / 100, and above it by one at most; by less when the
\* double of p / 100 is not too high.
THEOREM RankIsLeast ==
    ASSUME NEW n \in 1..MaxObservations, NEW p \in 1..100, NEW r, r = Rank(n, p)
    PROVE  /\ r \in 1..n /\ 100 * r >= p * n /\ 100 * (r - 1) <= p * n
           /\ 100 * Percentile(p) <= p * Unit => 100 * (r - 1) < p * n
<1> DEFINE m == p * n
           c == Percentile(p)
           product == Rounded(n * c)
<1>0. MaxObservations \in Nat /\ Unit \in Nat \ {0} /\ n \in Nat \ {0}
  BY RoundingAssumption
<1>1. /\ c \in 1..Unit /\ product \in Nat
      /\ p * n * Unit - Unit < 100 * product /\ 100 * product < p * n * Unit + Unit
      /\ \A k \in 1..n : n * c <= k * Unit => product <= k * Unit
  BY RoundingAssumption
<1>2. m \in Int /\ 1 <= m /\ m <= 100 * n /\ p * n * Unit = m * Unit
  <2>1. p * n >= n
    BY <1>0
  <2>2. p * n <= 100 * n
    BY <1>0
  <2>. QED  BY <1>0, <2>1, <2>2
<1>3. r = (product + Unit - 1) \div Unit
  BY DEF Rank
<1> HIDE DEF m, c, product
<1>4. m * Unit - Unit < 100 * product /\ 100 * product < m * Unit + Unit
  BY <1>1, <1>2
<1>5. r \in Int /\ Unit * r <= product + Unit - 1 /\ product + Unit - 1 < Unit * r + Unit
  BY <1>0, <1>1, <1>3, Quotient
<1>6. 100 * r > m - 1
  <2>1. product <= Unit * r
    BY <1>0, <1>1, <1>5
  <2>2. (m - 1) * Unit < (100 * r) * Unit
    BY <1>0, <1>1, <1>2, <1>4, <1>5, <2>1
  <2>. QED  BY <1>0, <1>2, <1>5, <2>2, SmallerFactor
<1>7. 100 * (r - 1) < m + 1
  <2>1. Unit * r - Unit < product
    BY <1>0, <1>1, <1>5
  <2>2. (100 * (r - 1)) * Unit < (m + 1) * Unit
    BY <1>0, <1>1, <1>2, <1>4, <1>5, <2>1
  <2>. QED  BY <1>0, <1>2, <1>5, <2>2, SmallerFactor
<1>8. ASSUME NEW k \in 1..n, n * c <= k * Unit PROVE r <= k
  <2>1. product <= k * Unit
    BY <1>1, <1>8
  <2>2. (r - 1) * Unit < k * Unit
    BY <1>0, <1>1, <1>5, <2>1
  <2>3. r - 1 < k
    BY <1>0, <1>5, <2>2, SmallerFactor
  <2>. QED  BY <1>0, <1>5, <2>3
<1>9. n * c <= n * Unit
  BY <1>0, <1>1
<1>10. r \in 1..n
  BY <1>0, <1>2, <1>5, <1>6, <1>8, <1>9
<1>11. ASSUME 100 * c <= p * Unit PROVE 100 * (r - 1) < m
  <2>1. PICK k \in 1..n : m <= 100 * k /\ 100 * (k - 1) < m
    <3> DEFINE k == (m + 99) \div 100
    <3>1. k \in Int /\ 100 * k <= m + 99 /\ m + 99 < 100 * k + 100
      BY <1>2
    <3>2. k \in 1..n /\ m <= 100 * k /\ 100 * (k - 1) < m
      BY <1>0, <1>2, <3>1
    <3>. QED  BY <3>2
  <2>2. 100 * (n * c) <= (100 * k) * Unit
    <3>1. n * (100 * c) <= n * (p * Unit)
      BY <1>0, <1>1, <1>11, LargerProduct
    <3>2. n * (p * Unit) = m * Unit /\ n * (100 * c) = 100 * (n * c)
      BY <1>0, <1>1 DEF m
    <3>3. m * Unit <= (100 * k) * Unit
      BY <1>0, <1>2, <2>1, LargerProduct
    <3>4. n * c \in Int /\ m * Unit \in Int /\ (100 * k) * Unit \in Int
      BY <1>0, <1>1, <1>2
    <3>. QED  BY <3>1, <3>2, <3>3, <3>4
  <2>3. n * c <= k * Unit
    <3>1. (100 * k) * Unit = 100 * (k * Unit)
      BY <1>0
    <3>2. n * c \in Int /\ k * Unit \in Int
      BY <1>0, <1>1
    <3>. QED  BY <2>2, <3>1, <3>2
  <2>4. r <= k
    BY <1>8, <2>3
  <2>. QED  BY <1>0, <1>2, <1>5, <2>1, <2>4
<1>. QED  BY <1>2, <1>5, <1>6, <1>7, <1>10, <1>11 DEF m, c

\* Of any observations at least the share of p in 100 lies at or below the
\* percentile, and no more than that below it; less, when the double of p / 100 is
\* not too high (nearest_rank_percentile).
THEOREM PercentileOfValues ==
    ASSUME NEW n \in 1..MaxObservations, NEW values \in [1..n -> Int], Len(values) = n,
           NEW p \in 1..100, NEW v, v = NearestRank(values, p)
    PROVE  /\ 100 * Cardinality(UpTo(values, v)) >= p * n
           /\ 100 * Cardinality(Below(values, v)) <= p * n
           /\ 100 * Percentile(p) <= p * Unit => 100 * Cardinality(Below(values, v)) < p * n
<1> DEFINE r == Rank(n, p)
<1>0. n \in Nat
  BY RoundingAssumption
<1>1. /\ r \in 1..n /\ 100 * r >= p * n /\ 100 * (r - 1) <= p * n
      /\ 100 * Percentile(p) <= p * Unit => 100 * (r - 1) < p * n
  BY RankIsLeast
<1>2. v = Sorted(values)[r]
  BY DEF NearestRank
<1> HIDE DEF r
<1>3. r <= Cardinality(UpTo(values, v)) /\ Cardinality(Below(values, v)) < r
  BY <1>0, <1>1, <1>2, SortedCounts
<1>4. Cardinality(UpTo(values, v)) \in Nat /\ Cardinality(Below(values, v)) \in Nat
  BY <1>0, RanksOfValues, ZenonT(40)
<1>5. p * n \in Int
  BY <1>0
<1>. QED  BY <1>0, <1>1, <1>3, <1>4, <1>5

-----------------------------------------------------------------------------
(* Batches (ingestion/parquet.py, ingestion/taxi_zones.py).                 *)

\* A batch from a row to another one; the batches that end where ends says.
BatchTo(from, to) == [start |-> from + 1, rows |-> [j \in 1..(to - from) |-> from + j]]
BatchesUpTo(ends, m) == [b \in 1..m |-> BatchTo(ends[b - 1], ends[b])]
Ends(m) == {ends \in [0..m -> Nat] : ends[0] = 0 /\ \A b \in 1..m : ends[b - 1] <= ends[b]}

Batch == [start : Int, rows : Seq(Nat)]

\* What a batch consists of.
LEMMA BatchTypes ==
    ASSUME NEW from \in Nat, NEW to \in Nat, from <= to
    PROVE  /\ BatchTo(from, to) \in Batch
           /\ BatchTo(from, to).start = from + 1
           /\ BatchTo(from, to).rows \in [1..(to - from) -> Nat]
           /\ Len(BatchTo(from, to).rows) = to - from
           /\ \A j \in 1..(to - from) : BatchTo(from, to).rows[j] = from + j
<1>1. to - from \in Nat
  OBVIOUS
<1>2. [j \in 1..(to - from) |-> from + j] \in [1..(to - from) -> Nat]
  OBVIOUS
<1>. QED  BY <1>1, <1>2 DEF BatchTo, Batch

\* A batch goes from the end of the one before it to its own.
LEMMA EndsOfBatches ==
    ASSUME NEW m \in Nat, NEW ends \in Ends(m), NEW b \in 1..m
    PROVE  /\ b - 1 \in 0..m /\ b \in 0..m /\ ends[b - 1] \in Nat /\ ends[b] \in Nat
           /\ ends[b - 1] <= ends[b]
           /\ DOMAIN BatchesUpTo(ends, m) = 1..m
           /\ BatchesUpTo(ends, m)[b] = BatchTo(ends[b - 1], ends[b])
BY DEF Ends, BatchesUpTo

\* The rows of the batches, one after the other.
LEMMA NumbersOfBatches ==
    ASSUME NEW m \in Nat, NEW ends \in Ends(m), NEW seqs, DOMAIN seqs = 1..m, Len(seqs) = m,
           m = 0 => seqs = <<>>,
           \A b \in 1..m : seqs[b] = BatchTo(ends[b - 1], ends[b]).rows
    PROVE  FlattenSeq(seqs) = [i \in 1..ends[m] |-> i]
<1>1. CASE m = 0
  <2>1. ends[m] = 0
    BY <1>1 DEF Ends
  <2>2. FlattenSeq(seqs) = <<>>
    BY <1>1 DEF FlattenSeq
  <2>3. [i \in 1..0 |-> i] = <<>>
    OBVIOUS
  <2>. QED  BY <2>1, <2>2, <2>3
<1>2. CASE m # 0
  <2> DEFINE Flat(g) == g = [i \in 1..m |-> IF i = 1 THEN seqs[i] ELSE g[i - 1] \o seqs[i]]
             to(k) == [i \in 1..k |-> i]
             f == [i \in 1..m |-> to(ends[i])]
  <2>0. ends[0] = 0 /\ \A i \in 1..m : ends[i - 1] \in Nat /\ ends[i] \in Nat /\ ends[i - 1] <= ends[i]
    BY EndsOfBatches DEF Ends
  <2>1. ASSUME NEW i \in 1..m PROVE to(ends[i]) = to(ends[i - 1]) \o seqs[i]
    <3> DEFINE x == ends[i - 1]
               y == ends[i]
    <3>1. x \in Nat /\ y \in Nat /\ x <= y
      BY <2>0
    <3>2. seqs[i] = BatchTo(x, y).rows
      OBVIOUS
    <3> HIDE DEF x, y
    <3>3. /\ seqs[i] \in Seq(Nat) /\ Len(seqs[i]) = y - x
          /\ \A j \in 1..(y - x) : seqs[i][j] = x + j
      <4>1. seqs[i] \in [1..(y - x) -> Nat]
        BY <3>1, <3>2, BatchTypes
      <4>2. y - x \in Nat
        BY <3>1
      <4>3. seqs[i] \in Seq(Nat) /\ Len(seqs[i]) = y - x
        BY <4>1, <4>2, SMTT(30)
      <4>4. \A j \in 1..(y - x) : seqs[i][j] = x + j
        <5>1. \A j \in 1..(y - x) : BatchTo(x, y).rows[j] = x + j
          BY <3>1, BatchTypes
        <5>. QED  BY <3>2, <5>1, Zenon
      <4>. QED  BY <4>3, <4>4
    <3>4. to(x) \o seqs[i] = to(y)
      BY <3>1, <3>3, NumbersJoined
    <3>. QED  BY <3>4 DEF x, y
  <2>2. to(ends[1]) = seqs[1]
    <3>1. ends[0] = 0 /\ 1 \in 1..m /\ ends[1] \in Nat
      BY <1>2, <2>0
    <3>2. seqs[1] = BatchTo(0, ends[1]).rows
      BY <3>1
    <3>. QED  BY <3>1, <3>2 DEF BatchTo
  <2> HIDE DEF to
  <2>3. Flat(f)
    <3>1. ASSUME NEW i \in 1..m PROVE f[i] = IF i = 1 THEN seqs[i] ELSE f[i - 1] \o seqs[i]
      <4>1. CASE i = 1
        BY <2>2, <4>1
      <4>2. CASE i # 1
        <5>1. i - 1 \in 1..m
          BY <4>2
        <5>. QED  BY <2>1, <4>2, <5>1
      <4>. QED  BY <4>1, <4>2
    <3> HIDE DEF f
    <3>2. f = [i \in 1..m |-> f[i]]
      BY DEF f
    <3>. QED  BY <3>1, <3>2
  <2> DEFINE g == CHOOSE h : Flat(h)
  <2>4. FlattenSeq(seqs) = g[m]
    BY <1>2 DEF FlattenSeq
  <2>5. Flat(g)
    <3> HIDE DEF Flat
    <3>. QED  BY <2>3
  <2> HIDE DEF g
  <2> DEFINE P == {0} \cup {k \in 1..m : g[k] = to(ends[k])}
  <2>6. ASSUME NEW k \in 1..m, k - 1 \in P PROVE k \in P
    <3>1. CASE k = 1
      BY <2>2, <2>5, <3>1
    <3>2. CASE k # 1
      <4>1. k - 1 \in 1..m /\ g[k - 1] = to(ends[k - 1])
        BY <2>6, <3>2
      <4>2. g[k] = g[k - 1] \o seqs[k]
        BY <2>5, <3>2
      <4>. QED  BY <2>1, <4>1, <4>2
    <3>. QED  BY <3>1, <3>2
  <2>7. P \in SUBSET (0..m) /\ 0 \in P
    OBVIOUS
  <2> HIDE DEF P
  <2>8. m \in P
    BY <2>6, <2>7, PrefixesByInduction
  <2>. QED  BY <1>2, <2>4, <2>8 DEF P, to
<1>. QED  BY <1>1, <1>2

\* A fold of sums over the positions of sizes.
Sums(g, n, sizes) ==
    \A T \in SUBSET (1..n) : g[T] = IF T = {} THEN 0 ELSE g[T \ {Max(T)}] + sizes[Max(T)]

\* There is such a fold.
LEMMA SumsExist ==
    ASSUME NEW n \in Nat, NEW sizes \in [1..n -> Nat]
    PROVE  \E g : g = [T \in SUBSET (1..n) |->
                         IF T = {} THEN 0 ELSE g[T \ {Max(T)}] + sizes[Max(T)]]
<1> DEFINE V == Nat
           step == [k \in 1..n |-> [v \in V |-> v + sizes[k]]]
<1>1. \A k \in 1..n, v \in Nat : step[k][v] = v + sizes[k] /\ step[k][v] \in Nat
  OBVIOUS
<1>0. 0 \in V /\ \A k \in 1..n, v \in V : step[k][v] \in V
  BY <1>1
<1> HIDE DEF step, V
<1>2. PICK g \in [SUBSET (1..n) -> V] : IsLeftFold(g, n, 0, step)
  BY <1>0, LeftFoldsExist
<1>3. ASSUME NEW T \in SUBSET (1..n)
      PROVE  g[T] = IF T = {} THEN 0 ELSE g[T \ {Max(T)}] + sizes[Max(T)]
  BY <1>1, <1>2 DEF V, IsLeftFold
<1>4. g = [T \in SUBSET (1..n) |-> IF T = {} THEN 0 ELSE g[T \ {Max(T)}] + sizes[Max(T)]]
  BY <1>2, <1>3
<1>. QED  BY <1>4

\* Its values on the prefixes are the partial sums.
LEMMA PartialSums ==
    ASSUME NEW n \in Nat, NEW sizes \in [1..n -> Nat], NEW g, Sums(g, n, sizes)
    PROVE  \E ends \in Ends(n) : /\ \A b \in 1..n : ends[b] = ends[b - 1] + sizes[b]
                                 /\ ends[n] = g[1..n]
<1> DEFINE ends == [k \in 0..n |-> g[1..k]]
<1>1. ends[0] = 0
  <2>1. 1..0 = {} /\ 0 \in 0..n
    OBVIOUS
  <2>. QED  BY <2>1 DEF Sums
<1>2. ASSUME NEW b \in 1..n PROVE ends[b] = ends[b - 1] + sizes[b]
  <2>1. 1..b \in SUBSET (1..n) /\ b \in 0..n /\ b - 1 \in 0..n /\ b \in Nat \ {0}
    OBVIOUS
  <2>2. Max(1..b) = b /\ (1..b) \ {b} = 1..(b - 1) /\ 1..b # {}
    BY <2>1, LastOfPrefix
  <2>3. g[1..b] = g[(1..b) \ {Max(1..b)}] + sizes[Max(1..b)]
    BY <2>1, <2>2 DEF Sums
  <2>4. g[1..b] = g[1..(b - 1)] + sizes[b]
    BY <2>2, <2>3, Zenon
  <2>. QED  BY <2>1, <2>4
<1>3. DOMAIN ends = 0..n /\ ends[n] = g[1..n] /\ ends = [k \in 0..n |-> ends[k]]
  OBVIOUS
<1> HIDE DEF ends
<1> DEFINE P == {k \in 0..n : ends[k] \in Nat}
<1>4. 0 \in P /\ P \in SUBSET (0..n)
  BY <1>1
<1>5. ASSUME NEW k \in 1..n, k - 1 \in P PROVE k \in P
  BY <1>2, <1>5
<1> HIDE DEF P
<1>6. P = 0..n
  BY <1>4, <1>5, PrefixesByInduction
<1>7. \A k \in 0..n : ends[k] \in Nat
  BY <1>6 DEF P
<1>8. \A b \in 1..n : ends[b - 1] <= ends[b]
  <2>1. \A b \in 1..n : b - 1 \in 0..n /\ sizes[b] \in Nat
    OBVIOUS
  <2>. QED  BY <1>2, <1>7, <2>1
<1>9. ends \in Ends(n)
  BY <1>1, <1>3, <1>7, <1>8 DEF Ends
<1>. QED  BY <1>2, <1>3, <1>9

\* The sum of the sizes is the last of their partial sums.
LEMMA SumOfSizes ==
    ASSUME NEW n \in Nat, NEW sizes \in [1..n -> Nat]
    PROVE  \E ends \in Ends(n) : /\ \A b \in 1..n : ends[b] = ends[b - 1] + sizes[b]
                                 /\ ends[n] = FoldLeft(+, 0, sizes)
<1> DEFINE D == DOMAIN sizes
           Sum(g) == g = [T \in SUBSET D |->
                            IF T = {} THEN 0 ELSE g[T \ {Max(T)}] + sizes[Max(T)]]
           i == CHOOSE g : Sum(g)
<1>1. FoldLeft(+, 0, sizes) = i[D]
  BY DEF FoldLeft, MapThenFoldSet
<1>2. D = 1..n
  OBVIOUS
<1> HIDE DEF D
<1>3. Sum(i)
  <2>1. PICK g : g = [T \in SUBSET (1..n) |-> IF T = {} THEN 0 ELSE g[T \ {Max(T)}] + sizes[Max(T)]]
    BY SumsExist
  <2>2. Sum(g)
    BY <1>2, <2>1, Zenon
  <2> HIDE DEF Sum
  <2>. QED  BY <2>2
<1> HIDE DEF i
<1>4. Sums(i, n, sizes)
  BY <1>2, <1>3 DEF Sums
<1>5. PICK ends \in Ends(n) : /\ \A b \in 1..n : ends[b] = ends[b - 1] + sizes[b]
                              /\ ends[n] = i[1..n]
  BY <1>4, PartialSums
<1>6. ends[n] = FoldLeft(+, 0, sizes)
  BY <1>1, <1>2, <1>5, Zenon
<1>. QED  BY <1>5, <1>6

\* The rows read are those of all batches.
LEMMA RowsOfBatches ==
    ASSUME NEW m \in Nat, NEW ends \in Ends(m)
    PROVE  RowsRead(BatchesUpTo(ends, m)) = ends[m]
<1> DEFINE batches == BatchesUpTo(ends, m)
           D == DOMAIN batches
           sizes == [b \in 1..m |-> ends[b] - ends[b - 1]]
           Sum(g) == g = [T \in SUBSET D |->
                            IF T = {} THEN 0 ELSE g[T \ {Max(T)}] + Len(batches[Max(T)].rows)]
           i == CHOOSE g : Sum(g)
<1>1. RowsRead(batches) = i[D]
  BY DEF RowsRead, FoldLeft, MapThenFoldSet
<1>2. D = 1..m
  BY DEF BatchesUpTo
<1>3. \A b \in 1..m : /\ ends[b - 1] \in Nat /\ ends[b] \in Nat /\ ends[b - 1] <= ends[b]
                      /\ batches[b] = BatchTo(ends[b - 1], ends[b])
  BY EndsOfBatches
<1> HIDE DEF batches, D
<1>4. \A b \in 1..m : Len(batches[b].rows) = sizes[b]
  BY <1>3, BatchTypes
<1>5. sizes \in [1..m -> Nat]
  BY <1>3
<1> HIDE DEF sizes
<1>6. Sum(i)
  <2>1. PICK g : g = [T \in SUBSET (1..m) |-> IF T = {} THEN 0 ELSE g[T \ {Max(T)}] + sizes[Max(T)]]
    BY <1>5, SumsExist
  <2>2. ASSUME NEW T \in SUBSET (1..m), T # {} PROVE Max(T) \in 1..m
    BY <2>2, LargestOfSome
  <2>3. ASSUME NEW T \in SUBSET (1..m)
        PROVE  g[T] = IF T = {} THEN 0 ELSE g[T \ {Max(T)}] + Len(batches[Max(T)].rows)
    BY <1>4, <2>1, <2>2
  <2>4. Sum(g)
    BY <1>2, <2>1, <2>3
  <2> HIDE DEF Sum
  <2>. QED  BY <2>4
<1> HIDE DEF i
<1>7. Sums(i, m, sizes)
  <2>1. ASSUME NEW T \in SUBSET (1..m), T # {} PROVE Max(T) \in 1..m
    BY <2>1, LargestOfSome
  <2>2. ASSUME NEW T \in SUBSET (1..m)
        PROVE  i[T] = IF T = {} THEN 0 ELSE i[T \ {Max(T)}] + sizes[Max(T)]
    BY <1>2, <1>4, <1>6, <2>1
  <2>. QED  BY <2>2 DEF Sums
<1>8. PICK sums \in Ends(m) : /\ \A b \in 1..m : sums[b] = sums[b - 1] + sizes[b]
                              /\ sums[m] = i[1..m]
  BY <1>5, <1>7, PartialSums
<1> DEFINE P == {k \in 0..m : sums[k] = ends[k]}
<1>9. 0 \in P /\ P \in SUBSET (0..m)
  BY DEF Ends
<1>10. ASSUME NEW k \in 1..m, k - 1 \in P PROVE k \in P
  <2>1. sums[k] = sums[k - 1] + sizes[k] /\ sums[k - 1] = ends[k - 1]
    BY <1>8, <1>10
  <2>2. sizes[k] = ends[k] - ends[k - 1] /\ ends[k - 1] \in Nat /\ ends[k] \in Nat
    BY <1>3 DEF sizes
  <2>. QED  BY <2>1, <2>2
<1> HIDE DEF P
<1>11. m \in P
  BY <1>9, <1>10, PrefixesByInduction
<1>. QED  BY <1>1, <1>2, <1>8, <1>11 DEF P, batches

\* A list of batches is extended by the next one.
LEMMA BatchSequences ==
    ASSUME NEW m \in Nat, NEW ends \in Ends(m)
    PROVE  /\ \A k \in 0..m : /\ BatchesUpTo(ends, k) \in [1..k -> Batch]
                              /\ BatchesUpTo(ends, k) \in Seq(Batch)
                              /\ Len(BatchesUpTo(ends, k)) = k
           /\ \A k \in 1..m : Append(BatchesUpTo(ends, k - 1), BatchTo(ends[k - 1], ends[k]))
                                = BatchesUpTo(ends, k)
<1>1. \A b \in 1..m : BatchTo(ends[b - 1], ends[b]) \in Batch
  BY EndsOfBatches, BatchTypes
<1>2. ASSUME NEW k \in 0..m
      PROVE  /\ BatchesUpTo(ends, k) \in [1..k -> Batch]
             /\ BatchesUpTo(ends, k) \in Seq(Batch)
             /\ Len(BatchesUpTo(ends, k)) = k
  <2>1. BatchesUpTo(ends, k) \in [1..k -> Batch]
    BY <1>1 DEF BatchesUpTo
  <2>2. k \in Nat
    OBVIOUS
  <2>. QED  BY <2>1, <2>2
<1>3. ASSUME NEW k \in 1..m
      PROVE  Append(BatchesUpTo(ends, k - 1), BatchTo(ends[k - 1], ends[k])) = BatchesUpTo(ends, k)
  <2> DEFINE s == BatchesUpTo(ends, k - 1)
             t == BatchesUpTo(ends, k)
             x == BatchTo(ends[k - 1], ends[k])
  <2>1. k - 1 \in 0..m /\ k \in 0..m /\ k - 1 \in Nat /\ (k - 1) + 1 = k
    OBVIOUS
  <2>2. s \in [1..(k - 1) -> Batch] /\ t \in [1..((k - 1) + 1) -> Batch] /\ x \in Batch
    BY <1>1, <1>2, <2>1
  <2>3. (\A b \in 1..(k - 1) : t[b] = s[b]) /\ t[(k - 1) + 1] = x
    BY <2>1 DEF BatchesUpTo
  <2> HIDE DEF s, t, x
  <2>. QED  BY <2>1, <2>2, <2>3, Extended DEF s, t, x
<1>. QED  BY <1>2, <1>3

\* Batches that each start after the end of the one before them number all rows.
THEOREM BatchesNumberRows ==
    ASSUME NEW m \in Nat, NEW ends \in Ends(m)
    PROVE  NumbersRows(BatchesUpTo(ends, m), ends[m])
<1> DEFINE batches == BatchesUpTo(ends, m)
           seqs == [b \in DOMAIN batches |-> batches[b].rows]
<1>1. batches \in [1..m -> Batch] /\ m \in 0..m
  BY BatchSequences
<1>2. \A b \in 1..m : batches[b] = BatchTo(ends[b - 1], ends[b])
  BY EndsOfBatches
<1> HIDE DEF batches
<1>3. DOMAIN seqs = 1..m /\ Len(seqs) = m /\ (m = 0 => seqs = <<>>)
  <2>1. seqs \in [1..m -> Seq(Nat)]
    BY <1>1 DEF Batch
  <2> HIDE DEF seqs
  <2>2. seqs \in Seq(Seq(Nat)) /\ Len(seqs) = m
    BY <2>1
  <2>. QED  BY <2>1, <2>2
<1>4. \A b \in 1..m : seqs[b] = BatchTo(ends[b - 1], ends[b]).rows
  BY <1>1, <1>2
<1>5. FlattenSeq(seqs) = [i \in 1..ends[m] |-> i]
  <2> HIDE DEF seqs
  <2>. QED  BY <1>3, <1>4, NumbersOfBatches
<1>6. ASSUME NEW b \in DOMAIN batches, batches[b].rows # <<>>
      PROVE  batches[b].start = batches[b].rows[1]
  <2>1. b \in 1..m
    BY <1>1
  <2> DEFINE x == ends[b - 1]
             y == ends[b]
  <2>2. x \in Nat /\ y \in Nat /\ x <= y /\ batches[b] = BatchTo(x, y)
    BY <1>2, <2>1, EndsOfBatches
  <2> HIDE DEF x, y
  <2>3. /\ BatchTo(x, y).start = x + 1
        /\ BatchTo(x, y).rows \in [1..(y - x) -> Nat]
        /\ \A j \in 1..(y - x) : BatchTo(x, y).rows[j] = x + j
    BY <2>2, BatchTypes
  <2>4. y - x \in Nat /\ y - x # 0
    <3>1. ASSUME y - x = 0 PROVE BatchTo(x, y).rows = <<>>
      <4>1. BatchTo(x, y).rows \in [1..0 -> Nat]
        BY <2>3, <3>1
      <4>2. BatchTo(x, y).rows \in Seq(Nat) /\ Len(BatchTo(x, y).rows) = 0
        BY <4>1
      <4>. QED  BY <4>2, EmptySeq
    <3>. QED  BY <1>6, <2>2, <3>1
  <2>5. 1 \in 1..(y - x)
    BY <2>4
  <2>. QED  BY <2>2, <2>3, <2>5
<1>. QED  BY <1>5, <1>6 DEF NumbersRows, batches

-----------------------------------------------------------------------------
(* The reader of Parquet files.                                             *)

Reads == [next : Nat, batches : Seq(Batch)]

\* The step of ParquetBatches.
ReadBatch(read, n) ==
    [next |-> read.next + n,
     batches |-> Append(read.batches,
        [start |-> read.next, rows |-> [k \in 1..n |-> read.next + k - 1]])]

LEMMA ReadTypes ==
    ASSUME NEW read \in Reads, NEW n \in Nat
    PROVE  ReadBatch(read, n) \in Reads
<1>1. read.next \in Nat /\ read.batches \in Seq(Batch)
  BY DEF Reads
<1> DEFINE x == read.next
           rows == [k \in 1..n |-> x + k - 1]
<1>2. x \in Nat /\ x + n \in Nat
  BY <1>1
<1> HIDE DEF x
<1>3. rows \in [1..n -> Nat]
  BY <1>2
<1>4. rows \in Seq(Nat)
  BY <1>3
<1> HIDE DEF rows
<1>5. [start |-> x, rows |-> rows] \in Batch
  BY <1>2, <1>4 DEF Batch
<1>6. Append(read.batches, [start |-> x, rows |-> rows]) \in Seq(Batch)
  BY <1>1, <1>5
<1>7. [next |-> x + n, batches |-> Append(read.batches, [start |-> x, rows |-> rows])] \in Reads
  BY <1>2, <1>6 DEF Reads
<1>. QED  BY <1>7 DEF ReadBatch, x, rows

\* A step reads the next batch.
LEMMA ReadNext ==
    ASSUME NEW m \in Nat, NEW ends \in Ends(m), NEW k \in 1..m, NEW n, ends[k] = ends[k - 1] + n, n \in Nat
    PROVE  ReadBatch([next |-> ends[k - 1] + 1, batches |-> BatchesUpTo(ends, k - 1)], n)
             = [next |-> ends[k] + 1, batches |-> BatchesUpTo(ends, k)]
<1> DEFINE x == ends[k - 1]
           y == ends[k]
           read == [next |-> x + 1, batches |-> BatchesUpTo(ends, k - 1)]
           batch == [start |-> read.next, rows |-> [j \in 1..n |-> read.next + j - 1]]
<1>1. x \in Nat /\ y \in Nat /\ y - x = n /\ x + 1 + n = y + 1
  BY EndsOfBatches
<1> HIDE DEF x, y
<1>2. batch = BatchTo(x, y)
  <2>1. \A j \in 1..n : x + 1 + j - 1 = x + j
    BY <1>1
  <2>. QED  BY <1>1, <2>1 DEF BatchTo
<1>3. Append(BatchesUpTo(ends, k - 1), BatchTo(x, y)) = BatchesUpTo(ends, k)
  BY BatchSequences DEF x, y
<1> HIDE DEF batch
<1>4. ReadBatch(read, n) = [next |-> x + 1 + n, batches |-> Append(BatchesUpTo(ends, k - 1), batch)]
  BY DEF ReadBatch, batch
<1>. QED  BY <1>1, <1>2, <1>3, <1>4 DEF x, y

\* For record batches of any sizes the reader yields them one after the other, the
\* first one from row 1 (iter_parquet_batches).
THEOREM BatchesOfSizes ==
    ASSUME NEW m \in Nat, NEW sizes \in [1..m -> Nat],
           NEW ends \in Ends(m), \A b \in 1..m : ends[b] = ends[b - 1] + sizes[b]
    PROVE  ParquetBatches(sizes) = BatchesUpTo(ends, m)
<1> DEFINE D == DOMAIN sizes
           first == [next |-> 1, batches |-> <<>>]
           step == [k \in 1..m |-> [read \in Reads |-> ReadBatch(read, sizes[k])]]
           Fold(g) == g = [T \in SUBSET D |->
                             IF T = {} THEN first ELSE ReadBatch(g[T \ {Max(T)}], sizes[Max(T)])]
           i == CHOOSE g : Fold(g)
           read(k) == [next |-> ends[k] + 1, batches |-> BatchesUpTo(ends, k)]
<1>1. ParquetBatches(sizes) = i[D].batches
  BY DEF ParquetBatches, FoldLeft, MapThenFoldSet, ReadBatch
<1>2. D = 1..m
  OBVIOUS
<1> HIDE DEF D
<1>3. first \in Reads
  BY DEF Reads
<1>4. \A k \in 1..m, v \in Reads : step[k][v] = ReadBatch(v, sizes[k]) /\ step[k][v] \in Reads
  BY ReadTypes
<1>5. Fold(i)
  <2>1. \A k \in 1..m, v \in Reads : step[k][v] \in Reads
    BY <1>4
  <2> HIDE DEF step, first
  <2>2. PICK g \in [SUBSET (1..m) -> Reads] : IsLeftFold(g, m, first, step)
    BY <1>3, <2>1, LeftFoldsExist
  <2>3. ASSUME NEW T \in SUBSET (1..m)
        PROVE  g[T] = IF T = {} THEN first ELSE ReadBatch(g[T \ {Max(T)}], sizes[Max(T)])
    BY <1>4, <2>2 DEF IsLeftFold
  <2>4. Fold(g)
    BY <1>2, <2>2, <2>3
  <2> HIDE DEF Fold
  <2>. QED  BY <2>4
<1> HIDE DEF i
<1> DEFINE P == {k \in 0..m : i[1..k] = read(k)}
<1>6. 0 \in P /\ P \in SUBSET (0..m)
  <2>1. ends[0] = 0 /\ 0 + 1 = 1
    BY DEF Ends
  <2>2. BatchesUpTo(ends, 0) = <<>>
    <3>1. BatchesUpTo(ends, 0) \in Seq(Batch) /\ Len(BatchesUpTo(ends, 0)) = 0
      BY BatchSequences
    <3>. QED  BY <3>1, EmptySeq
  <2>3. i[1..0] = first
    <3>1. 1..0 = {}
      OBVIOUS
    <3>. QED  BY <1>5, <3>1
  <2>. QED  BY <2>1, <2>2, <2>3
<1>7. ASSUME NEW k \in 1..m, k - 1 \in P PROVE k \in P
  <2>1. 1..k \in SUBSET (1..m) /\ k \in Nat \ {0}
    OBVIOUS
  <2>2. Max(1..k) = k /\ (1..k) \ {k} = 1..(k - 1) /\ 1..k # {}
    BY <2>1, LastOfPrefix
  <2>3. i[1..k] = ReadBatch(i[(1..k) \ {Max(1..k)}], sizes[Max(1..k)])
    BY <1>2, <1>5, <2>1, <2>2
  <2>4. i[1..k] = ReadBatch(i[1..(k - 1)], sizes[k])
    BY <2>2, <2>3, Zenon
  <2>5. i[1..(k - 1)] = read(k - 1)
    BY <1>7
  <2>6. ReadBatch(read(k - 1), sizes[k]) = read(k)
    BY ReadNext
  <2> HIDE DEF read
  <2>. QED  BY <2>4, <2>5, <2>6
<1> HIDE DEF P
<1> HIDE DEF read, first, step, Fold
<1>8. P = 0..m
  BY <1>6, <1>7, PrefixesByInduction
<1>9. m \in P
  BY <1>8
<1>10. i[1..m] = read(m)
  BY <1>9 DEF P
<1>11. i[1..m].batches = BatchesUpTo(ends, m)
  BY <1>10 DEF read
<1>. QED  BY <1>1, <1>2, <1>11

-----------------------------------------------------------------------------
(* The reader of zone files.                                                *)

Collects == [next : Nat, rows : Seq(Nat), batches : Seq(Batch)]

\* The step of ZoneBatches.
CollectRow(read, size) ==
    LET rows == Append(read.rows, read.next) IN
    IF Len(rows) = size
    THEN [next |-> read.next + 1, rows |-> <<>>,
          batches |-> Append(read.batches, [start |-> read.next + 1 - Len(rows), rows |-> rows])]
    ELSE [next |-> read.next + 1, rows |-> rows, batches |-> read.batches]

\* The reader after k rows: full batches, and the rows after them.
After(c, k, size) ==
    [next |-> k + 1, rows |-> BatchTo(c * size, k).rows,
     batches |-> [b \in 1..c |-> BatchTo((b - 1) * size, b * size)]]

Collected(read, k, size) ==
    \E c \in Nat : c * size <= k /\ k - c * size < size /\ read = After(c, k, size)

Full(size, c) == [b \in 0..c |-> b * size]

\* Full batches end at the multiples of their size.
LEMMA FullEnds ==
    ASSUME NEW size \in Nat, NEW c \in Nat
    PROVE  /\ Full(size, c) \in Ends(c)
           /\ BatchesUpTo(Full(size, c), c) = [b \in 1..c |-> BatchTo((b - 1) * size, b * size)]
<1>1. \A b \in Nat : b * size \in Nat
  OBVIOUS
<1>2. \A b \in 1..c : (b - 1) * size <= b * size
  <2>1. ASSUME NEW b \in 1..c PROVE (b - 1) * size <= b * size
    <3>1. b * size = (b - 1) * size + size /\ (b - 1) * size \in Int /\ b * size \in Int
      OBVIOUS
    <3>. QED  BY <3>1
  <2>. QED  BY <2>1
<1>3. 0 * size = 0
  OBVIOUS
<1>. QED  BY <1>1, <1>2, <1>3 DEF Full, Ends, BatchesUpTo

LEMMA NoRows ==
    ASSUME NEW k \in Nat
    PROVE  BatchTo(k, k).rows = <<>>
<1>1. k - k = 0
  OBVIOUS
<1>2. [j \in 1..0 |-> k + j] = <<>>
  OBVIOUS
<1>. QED  BY <1>1, <1>2 DEF BatchTo

\* A step collects the next row.
LEMMA CollectNext ==
    ASSUME NEW size \in Nat \ {0}, NEW k \in Nat, NEW read, Collected(read, k, size)
    PROVE  Collected(CollectRow(read, size), k + 1, size)
<1>1. PICK c \in Nat : c * size <= k /\ k - c * size < size /\ read = After(c, k, size)
  BY DEF Collected
<1> DEFINE x == c * size
           batches == [b \in 1..c |-> BatchTo((b - 1) * size, b * size)]
           rows == Append(read.rows, read.next)
<1>2. x \in Nat /\ x <= k /\ k - x < size /\ k + 1 \in Nat /\ x <= k + 1
  BY <1>1
<1>3. read.next = k + 1 /\ read.rows = BatchTo(x, k).rows /\ read.batches = batches
  BY <1>1 DEF After
<1>4. (c + 1) * size = x + size /\ (c + 1) - 1 = c /\ c + 1 \in Nat
  OBVIOUS
<1> HIDE DEF x, batches
<1>5. rows = BatchTo(x, k + 1).rows /\ Len(rows) = k + 1 - x
  <2> DEFINE n == k - x
             s == BatchTo(x, k).rows
             t == BatchTo(x, k + 1).rows
  <2>1. n \in Nat /\ (k + 1) - x = n + 1 /\ x + (n + 1) = k + 1
    BY <1>2
  <2>2. s \in [1..n -> Nat] /\ \A j \in 1..n : s[j] = x + j
    BY <1>2, BatchTypes
  <2>3. t \in [1..((k + 1) - x) -> Nat] /\ (\A j \in 1..((k + 1) - x) : t[j] = x + j) /\ Len(t) = (k + 1) - x
    BY <1>2, BatchTypes
  <2> HIDE DEF n, s, t
  <2>4. t \in [1..(n + 1) -> Nat] /\ (\A j \in 1..n : t[j] = s[j]) /\ t[n + 1] = k + 1
    BY <2>1, <2>2, <2>3
  <2>5. Append(s, k + 1) = t
    BY <1>2, <2>1, <2>2, <2>4, Extended
  <2>6. rows = t
    BY <1>3, <2>5 DEF s
  <2>7. rows = BatchTo(x, k + 1).rows
    BY <2>6 DEF t
  <2> HIDE DEF rows
  <2>8. Len(rows) = k + 1 - x
    <3>1. Len(t) = k + 1 - x
      BY <1>2, <2>3
    <3>. QED  BY <2>6, <3>1, Zenon
  <2>. QED  BY <2>7, <2>8
<1> HIDE DEF rows
<1>6. CASE k + 1 - x = size
  <2> DEFINE new == [start |-> k + 1 + 1 - (k + 1 - x), rows |-> BatchTo(x, k + 1).rows]
  <2>1. new = BatchTo(x, x + size) /\ k + 1 = x + size
    <3>1. k + 1 + 1 - (k + 1 - x) = x + 1 /\ k + 1 = x + size
      BY <1>2, <1>6
    <3>. QED  BY <3>1 DEF BatchTo
  <2>2. CollectRow(read, size) = [next |-> k + 1 + 1, rows |-> <<>>, batches |-> Append(batches, new)]
    BY <1>3, <1>5, <1>6 DEF CollectRow, rows
  <2>3. Append(batches, new) = [b \in 1..(c + 1) |-> BatchTo((b - 1) * size, b * size)]
    <3> DEFINE ends == Full(size, c + 1)
    <3>1. ends \in Ends(c + 1) /\ c + 1 \in 1..(c + 1)
      BY FullEnds
    <3>2. /\ BatchesUpTo(ends, c + 1) = [b \in 1..(c + 1) |-> BatchTo((b - 1) * size, b * size)]
          /\ BatchesUpTo(ends, (c + 1) - 1) = batches
      BY <1>4, FullEnds DEF BatchesUpTo, Full, batches
    <3>3. ends[c + 1] = x + size /\ ends[(c + 1) - 1] = x
      BY <1>4 DEF Full, x
    <3> HIDE DEF ends, new
    <3>4. Append(BatchesUpTo(ends, (c + 1) - 1), BatchTo(ends[(c + 1) - 1], ends[c + 1]))
            = BatchesUpTo(ends, c + 1)
      BY <1>4, <3>1, BatchSequences
    <3>. QED  BY <2>1, <3>2, <3>3, <3>4
  <2>4. BatchTo((c + 1) * size, k + 1).rows = <<>>
    <3>1. (c + 1) * size = k + 1
      BY <1>4, <2>1
    <3>2. BatchTo(k + 1, k + 1).rows = <<>>
      BY <1>2, NoRows
    <3>. QED  BY <3>1, <3>2
  <2>5. (c + 1) * size <= k + 1 /\ k + 1 - (c + 1) * size < size
    BY <1>2, <1>4, <2>1
  <2> HIDE DEF new
  <2>6. CollectRow(read, size) = After(c + 1, k + 1, size)
    BY <2>2, <2>3, <2>4 DEF After
  <2>. QED  BY <1>4, <2>5, <2>6 DEF Collected
<1>7. CASE k + 1 - x # size
  <2>1. CollectRow(read, size) = [next |-> k + 1 + 1, rows |-> BatchTo(x, k + 1).rows, batches |-> batches]
    BY <1>3, <1>5, <1>7 DEF CollectRow, rows
  <2>2. k + 1 - x < size
    BY <1>2, <1>7
  <2>3. CollectRow(read, size) = After(c, k + 1, size)
    BY <2>1 DEF After, x, batches
  <2>4. c * size <= k + 1 /\ k + 1 - c * size < size
    BY <1>2, <2>2 DEF x
  <2>. QED  BY <2>3, <2>4 DEF Collected
<1>. QED  BY <1>6, <1>7

LEMMA CollectTypes ==
    ASSUME NEW read \in Collects, NEW size \in Nat \ {0}
    PROVE  CollectRow(read, size) \in Collects
<1>1. read.next \in Nat /\ read.rows \in Seq(Nat) /\ read.batches \in Seq(Batch)
  BY DEF Collects
<1> DEFINE rows == Append(read.rows, read.next)
           from == read.next + 1 - Len(rows)
<1>2. rows \in Seq(Nat) /\ read.next + 1 \in Nat
  BY <1>1
<1> HIDE DEF rows, from
<1>3. from \in Int
  BY <1>1, <1>2 DEF from
<1>4. CASE Len(rows) = size
  <2>1. CollectRow(read, size) =
          [next |-> read.next + 1, rows |-> <<>>,
           batches |-> Append(read.batches, [start |-> from, rows |-> rows])]
    BY <1>4 DEF CollectRow, rows, from
  <2>2. [start |-> from, rows |-> rows] \in Batch
    BY <1>2, <1>3 DEF Batch
  <2>3. Append(read.batches, [start |-> from, rows |-> rows]) \in Seq(Batch)
    BY <1>1, <2>2
  <2>. QED  BY <1>2, <2>1, <2>3 DEF Collects
<1>5. CASE Len(rows) # size
  <2>1. CollectRow(read, size) = [next |-> read.next + 1, rows |-> rows, batches |-> read.batches]
    BY <1>5 DEF CollectRow, rows
  <2>. QED  BY <1>1, <1>2, <2>1 DEF Collects
<1>. QED  BY <1>4, <1>5

\* At the end of the file all rows were collected.
LEMMA RowsAreCollected ==
    ASSUME NEW n \in Nat, NEW size \in Nat \ {0}
    PROVE  \E read : Collected(read, n, size) /\ ZoneBatches(n, size) = FlushRest(read)
<1> DEFINE numbers == [i \in 1..n |-> i]
           D == DOMAIN numbers
           first == [next |-> 1, rows |-> <<>>, batches |-> <<>>]
           step == [k \in 1..n |-> [read \in Collects |-> CollectRow(read, size)]]
           Collect(read, row) ==
              LET rows == Append(read.rows, read.next) IN
              IF Len(rows) = size
              THEN [next |-> read.next + 1, rows |-> <<>>,
                    batches |-> Append(read.batches, [start |-> read.next + 1 - Len(rows), rows |-> rows])]
              ELSE [next |-> read.next + 1, rows |-> rows, batches |-> read.batches]
           Fold(g) == g = [T \in SUBSET D |->
                             IF T = {} THEN first ELSE Collect(g[T \ {Max(T)}], numbers[Max(T)])]
           i == CHOOSE g : Fold(g)
<1>1. ZoneBatches(n, size) = FlushRest(i[D])
  BY DEF ZoneBatches, FoldLeft, MapThenFoldSet
<1>2. D = 1..n
  OBVIOUS
<1>3. \A read, row : Collect(read, row) = CollectRow(read, size)
  BY DEF CollectRow
<1> HIDE DEF D, numbers, Collect
<1>4. first \in Collects
  BY DEF Collects
<1>5. \A k \in 1..n, v \in Collects : step[k][v] = CollectRow(v, size) /\ step[k][v] \in Collects
  BY CollectTypes
<1>6. Fold(i)
  <2>1. \A k \in 1..n, v \in Collects : step[k][v] \in Collects
    BY <1>5
  <2> HIDE DEF step, first
  <2>2. PICK g \in [SUBSET (1..n) -> Collects] : IsLeftFold(g, n, first, step)
    BY <1>4, <2>1, LeftFoldsExist
  <2>3. ASSUME NEW T \in SUBSET (1..n)
        PROVE  g[T] = IF T = {} THEN first ELSE Collect(g[T \ {Max(T)}], numbers[Max(T)])
    BY <1>3, <1>5, <2>2 DEF IsLeftFold
  <2>4. Fold(g)
    BY <1>2, <2>2, <2>3
  <2> HIDE DEF Fold
  <2>. QED  BY <2>4
<1> HIDE DEF i
<1> DEFINE P == {k \in 0..n : Collected(i[1..k], k, size)}
<1>7. 0 \in P /\ P \in SUBSET (0..n)
  <2>1. i[1..0] = first
    <3>1. 1..0 = {}
      OBVIOUS
    <3>. QED  BY <1>6, <3>1
  <2>2. first = After(0, 0, size)
    <3>1. 0 * size = 0 /\ BatchTo(0, 0).rows = <<>>
      BY NoRows
    <3>2. [b \in 1..0 |-> BatchTo((b - 1) * size, b * size)] = <<>>
      OBVIOUS
    <3>. QED  BY <3>1, <3>2 DEF After
  <2>3. 0 * size <= 0 /\ 0 - 0 * size < size
    OBVIOUS
  <2> HIDE DEF first
  <2>. QED  BY <2>1, <2>2, <2>3 DEF Collected
<1>8. ASSUME NEW k \in 1..n, k - 1 \in P PROVE k \in P
  <2>1. 1..k \in SUBSET (1..n) /\ k \in Nat \ {0} /\ k - 1 \in Nat /\ (k - 1) + 1 = k
    OBVIOUS
  <2>2. Max(1..k) = k /\ (1..k) \ {k} = 1..(k - 1) /\ 1..k # {}
    BY <2>1, LastOfPrefix
  <2>3. i[1..k] = Collect(i[(1..k) \ {Max(1..k)}], numbers[Max(1..k)])
    BY <1>2, <1>6, <2>1, <2>2
  <2>4. i[1..k] = CollectRow(i[1..(k - 1)], size)
    BY <1>3, <2>2, <2>3, Zenon
  <2>5. Collected(i[1..(k - 1)], k - 1, size)
    BY <1>8
  <2>6. Collected(CollectRow(i[1..(k - 1)], size), (k - 1) + 1, size)
    BY <2>1, <2>5, CollectNext
  <2>7. Collected(i[1..k], k, size)
    BY <2>1, <2>4, <2>6, Zenon
  <2>. QED  BY <2>7
<1> HIDE DEF P, first, step, Fold
<1>9. P = 0..n
  BY <1>7, <1>8, PrefixesByInduction
<1>10. Collected(i[1..n], n, size)
  <2>1. n \in P
    BY <1>9
  <2>. QED  BY <2>1 DEF P
<1>11. ZoneBatches(n, size) = FlushRest(i[1..n])
  BY <1>1, <1>2, Zenon
<1>. QED  BY <1>10, <1>11

\* All rows of a zone file of any length are yielded in order, in batches that have at
\* least one and at most size rows (iter_taxi_zone_batches).
THEOREM BatchesOfRows ==
    ASSUME NEW n \in Nat, NEW size \in Nat \ {0}
    PROVE  \E m \in Nat : \E ends \in Ends(m) :
              /\ ZoneBatches(n, size) = BatchesUpTo(ends, m) /\ ends[m] = n
              /\ \A b \in 1..m : ends[b] - ends[b - 1] \in 1..size
<1>1. PICK read : Collected(read, n, size) /\ ZoneBatches(n, size) = FlushRest(read)
  BY RowsAreCollected
<1>2. PICK c \in Nat : c * size <= n /\ n - c * size < size /\ read = After(c, n, size)
  BY <1>1 DEF Collected
<1> DEFINE x == c * size
           batches == [b \in 1..c |-> BatchTo((b - 1) * size, b * size)]
           rows == BatchTo(x, n).rows
<1>3. read.next = n + 1 /\ read.rows = rows /\ read.batches = batches
  BY <1>2 DEF After
<1>4. x \in Nat /\ x <= n /\ n - x < size
  BY <1>2
<1>5. \A b \in Nat : (b + 1) * size - b * size = size /\ b * size \in Nat
  OBVIOUS
<1>6. \A b \in 1..c : b * size - (b - 1) * size = size
  <2>1. ASSUME NEW b \in 1..c PROVE b * size - (b - 1) * size = size
    <3>1. b - 1 \in Nat /\ (b - 1) + 1 = b
      OBVIOUS
    <3>. QED  BY <1>5, <3>1
  <2>. QED  BY <2>1
<1>7. CASE n = x
  <2> DEFINE ends == Full(size, c)
  <2>1. ends \in Ends(c) /\ BatchesUpTo(ends, c) = batches
    BY FullEnds
  <2>2. ends[c] = n /\ \A b \in 1..c : ends[b] - ends[b - 1] \in 1..size
    BY <1>6, <1>7 DEF Full
  <2>3. FlushRest(read) = batches
    <3>1. rows = <<>>
      BY <1>4, <1>7, NoRows
    <3>. QED  BY <1>3, <3>1 DEF FlushRest
  <2> HIDE DEF ends
  <2>. QED  BY <1>1, <2>1, <2>2, <2>3
<1>8. CASE n # x
  <2> DEFINE m == c + 1
             ends == [b \in 0..m |-> IF b = m THEN n ELSE b * size]
  <2>0. m \in Nat /\ m - 1 = c /\ m \in 1..m /\ c \in Nat
    OBVIOUS
  <2>1. ends \in [0..m -> Nat] /\ ends[0] = 0 /\ ends[m] = n /\ ends[m - 1] = x
    BY <1>5
  <2>2. \A b \in 1..c : ends[b] = b * size /\ ends[b - 1] = (b - 1) * size
    OBVIOUS
  <2>3. \A b \in 1..m : ends[b] - ends[b - 1] \in 1..size
    <3> HIDE DEF ends
    <3>1. ASSUME NEW b \in 1..m PROVE ends[b] - ends[b - 1] \in 1..size
      <4>1. CASE b = m
        BY <1>4, <1>8, <2>1, <4>1
      <4>2. CASE b # m
        <5>1. b \in 1..c
          BY <4>2
        <5>2. ends[b] - ends[b - 1] = size
          BY <1>6, <2>2, <5>1
        <5>. QED  BY <5>2
      <4>. QED  BY <4>1, <4>2
    <3>. QED  BY <3>1
  <2> HIDE DEF ends, m
  <2>4. ends \in Ends(m)
    <3>1. ASSUME NEW b \in 1..m PROVE ends[b - 1] <= ends[b]
      <4>1. ends[b - 1] \in Nat /\ ends[b] \in Nat /\ ends[b] - ends[b - 1] >= 1
        <5>1. b - 1 \in 0..m /\ b \in 0..m
          BY <2>0
        <5>. QED  BY <2>1, <2>3, <5>1
      <4>. QED  BY <4>1
    <3>. QED  BY <2>1, <3>1 DEF Ends
  <2>5. BatchesUpTo(ends, c) = batches
    BY <2>2 DEF BatchesUpTo
  <2>6. FlushRest(read) = BatchesUpTo(ends, m)
    <3>1. Len(rows) = n - x /\ rows # <<>>
      <4>1. Len(rows) = n - x
        BY <1>4, BatchTypes
      <4>2. n - x # 0
        BY <1>4, <1>8
      <4> HIDE DEF rows
      <4>3. ASSUME rows = <<>> PROVE FALSE
        BY <4>1, <4>2, <4>3, EmptySeq
      <4>. QED  BY <4>1, <4>3
    <3>2. [start |-> n + 1 - (n - x), rows |-> rows] = BatchTo(x, n)
      <4>1. n + 1 - (n - x) = x + 1
        BY <1>4
      <4>. QED  BY <4>1 DEF BatchTo
    <3> HIDE DEF rows
    <3>3. FlushRest(read) = Append(batches, BatchTo(x, n))
      <4> HIDE DEF batches
      <4>1. FlushRest(read) = Append(batches, [start |-> n + 1 - Len(rows), rows |-> rows])
        BY <1>3, <3>1 DEF FlushRest
      <4>2. [start |-> n + 1 - Len(rows), rows |-> rows] = BatchTo(x, n)
        BY <3>1, <3>2
      <4>. QED  BY <4>1, <4>2, Zenon
    <3>4. Append(BatchesUpTo(ends, m - 1), BatchTo(ends[m - 1], ends[m])) = BatchesUpTo(ends, m)
      BY <2>0, <2>4, BatchSequences
    <3>. QED  BY <2>0, <2>1, <2>5, <3>3, <3>4, Zenon
  <2>. QED  BY <1>1, <2>0, <2>1, <2>3, <2>4, <2>6
<1>. QED  BY <1>7, <1>8

-----------------------------------------------------------------------------
(* The inputs MCFunctions picks.                                            *)

\* The sequences MCFunctions enumerates.
LEMMA SequencesUpTo ==
    ASSUME NEW S, NEW n \in Nat, NEW s \in SeqsUpTo(S, n)
    PROVE  s \in Seq(S)
<1>1. PICK k \in 0..n : s \in [1..k -> S]
  BY DEF SeqsUpTo
<1>2. k \in Nat
  OBVIOUS
<1>. QED  BY <1>1, <1>2

\* The tables MCFunctions picks.
LEMMA PickedTables ==
    ASSUME NEW service \in {"yellow", "green"}, NEW table \in SeqsUpTo(SomeRows(service), MaxRows)
    PROVE  IsTable(table, service)
<1> DEFINE Number == Int \cup {Null}
           Numeric(row) == \A a \in TripModel(service) \ {"store_and_fwd_flag"} : row[a] \in Number
<1>0. /\ Null \in Number /\ -1 \in Number /\ -4 \in Number
      /\ \A n \in Nat : n \in Number
  OBVIOUS
<1> HIDE DEF Number
<1>1. ASSUME NEW from \in Number, NEW to \in Number, NEW amount \in Number, NEW code \in Number, NEW flag,
             NEW location \in Number
      PROVE  Numeric(RowOf(service, from, to, amount, code, flag, location))
  BY DEF RowOf
<1> HIDE DEF Numeric
<1>2. ASSUME NEW row \in SomeRows(service) PROVE Numeric(row)
  <2>1. Numeric(RowOf(service, 0, 5, 0, 1, "N", 1))
    BY <1>0, <1>1
  <2>2. Numeric(RowOf(service, 20, 25, -1, 9, "X", 9))
    BY <1>0, <1>1
  <2>3. Numeric(RowOf(service, 19, 18, 1, 6, "Y", 2))
    BY <1>0, <1>1
  <2>4. Numeric(RowOf(service, -1, -4, -1, 0, Null, Null))
    BY <1>0, <1>1
  <2>5. Numeric(RowOf(service, Null, 7, Null, Null, "N", 1))
    BY <1>0, <1>1
  <2>6. Numeric(RowOf(service, 7, Null, 2, Null, Null, 9))
    BY <1>0, <1>1
  <2>. QED  BY <2>1, <2>2, <2>3, <2>4, <2>5, <2>6 DEF SomeRows
<1>3. table \in Seq(SomeRows(service))
  BY SequencesUpTo, InputsAssumption
<1>4. \A i \in DOMAIN table : table[i] \in SomeRows(service)
  BY <1>3
<1>. QED  BY <1>2, <1>3, <1>4 DEF IsTable, Numeric, Number

TablesAreTyped ==
    input.kind = "table" =>
        /\ input.service \in {"yellow", "green"} /\ IsTable(input.table, input.service)
        /\ input.zones \in Seq(Nat)

LEMMA PickTableTypes == PickTable => TablesAreTyped'
<1> SUFFICES ASSUME PickTable PROVE TablesAreTyped'
  OBVIOUS
<1>1. PICK service \in {"yellow", "green"}, zones \in {<<1>>, <<1, 2>>, <<1, 1>>} :
        \E table \in SeqsUpTo(SomeRows(service), MaxRows) :
           input' = [kind |-> "table", service |-> service, zones |-> zones, table |-> table]
  BY DEF PickTable
<1>2. PICK table \in SeqsUpTo(SomeRows(service), MaxRows) :
        input' = [kind |-> "table", service |-> service, zones |-> zones, table |-> table]
  BY <1>1
<1>3. zones \in Seq(Nat)
  <2>1. <<1>> \in Seq(Nat) /\ <<1, 2>> \in Seq(Nat) /\ <<1, 1>> \in Seq(Nat)
    OBVIOUS
  <2>. QED  BY <2>1
<1>4. IsTable(table, service)
  BY PickedTables
<1>. QED  BY <1>2, <1>3, <1>4 DEF TablesAreTyped

ObservationsAreTyped ==
    input.kind = "observations" =>
        /\ \E n \in 1..MaxObservations : input.values \in [1..n -> Int]
        /\ input.p \in 1..100

LEMMA PickObservationTypes == PickObservations => ObservationsAreTyped'
<1> SUFFICES ASSUME PickObservations PROVE ObservationsAreTyped'
  OBVIOUS
<1>1. PICK values \in SeqsUpTo(1..MaxValue, MaxRows + 1) \ {<<>>}, p \in {1, 50, 67, 95, 100} :
        input' = [kind |-> "observations", values |-> values, p |-> p]
  BY DEF PickObservations
<1>2. PICK n \in 0..(MaxRows + 1) : values \in [1..n -> 1..MaxValue]
  BY DEF SeqsUpTo
<1>3. n \in Nat /\ n # 0
  <2>1. n \in Nat
    BY InputsAssumption
  <2>2. ASSUME n = 0 PROVE FALSE
    <3>1. values \in Seq(1..MaxValue) /\ Len(values) = 0
      BY <1>2, <2>2
    <3>2. values = <<>>
      BY <3>1
    <3>. QED  BY <3>2
  <2>. QED  BY <2>1, <2>2
<1>4. values \in [1..n -> Int]
  BY <1>2, InputsAssumption
<1>5. n \in 1..MaxObservations
  BY <1>3, InputsAssumption, RoundingAssumption
<1>. QED  BY <1>1, <1>4, <1>5 DEF ObservationsAreTyped

BatchesAreTyped ==
    /\ input.kind = "parquet" => \E m \in Nat : input.sizes \in [1..m -> Nat]
    /\ input.kind = "csv" => input.n \in Nat /\ input.size \in Nat \ {0}

LEMMA PickBatchTypes == PickBatches => BatchesAreTyped'
<1> SUFFICES ASSUME PickBatches PROVE BatchesAreTyped'
  OBVIOUS
<1>1. CASE \E sizes \in SeqsUpTo(1..MaxValue, MaxRows) : input' = [kind |-> "parquet", sizes |-> sizes]
  <2>1. PICK sizes \in SeqsUpTo(1..MaxValue, MaxRows) : input' = [kind |-> "parquet", sizes |-> sizes]
    BY <1>1
  <2>2. PICK m \in 0..MaxRows : sizes \in [1..m -> 1..MaxValue]
    BY DEF SeqsUpTo
  <2>3. m \in Nat /\ sizes \in [1..m -> Nat]
    BY <2>2, InputsAssumption
  <2>. QED  BY <2>1, <2>3 DEF BatchesAreTyped
<1>2. CASE \E n \in 0..(MaxRows * MaxValue), size \in 1..MaxValue :
             input' = [kind |-> "csv", n |-> n, size |-> size]
  <2>1. PICK n \in 0..(MaxRows * MaxValue), size \in 1..MaxValue :
          input' = [kind |-> "csv", n |-> n, size |-> size]
    BY <1>2
  <2>2. n \in Nat /\ size \in Nat \ {0}
    BY InputsAssumption
  <2>. QED  BY <2>1, <2>2 DEF BatchesAreTyped
<1>. QED  BY <1>1, <1>2 DEF PickBatches

\* The loaded months are months, and one or two.
SourcesAreTyped(sources) ==
    /\ LoadedMonths(sources) \subseteq Month
    /\ \A a, b, c \in LoadedMonths(sources) : a = b \/ b = c \/ c = a

\* A month of the inputs is one after the year 0.
LEMMA PickedMonths ==
    ASSUME NEW c \in [year : Years, month : 1..12]
    PROVE  c \in Month /\ c.year > 0
<1>1. c.year \in Years /\ c.month \in 1..12 /\ c = [year |-> c.year, month |-> c.month]
  OBVIOUS
<1>2. c.year \in Nat /\ c.year # 0
  BY <1>1, InputsAssumption
<1>3. c.year > 0
  BY <1>2
<1>. QED  BY <1>1, <1>2, <1>3 DEF Month

LEMMA PickSourceTypes ==
    ASSUME PickSources
    PROVE  input'.kind = "sources" /\ SourcesAreTyped(input'.sources)
<1> DEFINE Months == [year : Years, month : 1..12]
           Source(s, t, c) == [status |-> s, service |-> t, period |-> IF t = "zone" THEN <<>> ELSE <<c>>]
<1>1. PICK status, other \in {"ready", "loaded"}, service, of \in {"yellow", "green", "zone"}, a, b \in Months :
        input' = [kind |-> "sources", sources |-> {Source(status, service, a), Source(other, of, b)}]
  BY Zenon DEF PickSources
<1> DEFINE sources == {Source(status, service, a), Source(other, of, b)}
<1>2. a \in Month /\ b \in Month
  BY PickedMonths
<1>3. ASSUME NEW c \in LoadedMonths(sources) PROVE c \in {a, b}
  <2>1. PICK s \in sources : s.service \in {"yellow", "green"} /\ c = s.period[1]
    BY <1>3 DEF LoadedMonths
  <2>2. CASE s = Source(status, service, a)
    BY <2>1, <2>2
  <2>3. CASE s = Source(other, of, b)
    BY <2>1, <2>3
  <2>. QED  BY <2>1, <2>2, <2>3
<1> HIDE DEF sources
<1>4. SourcesAreTyped(sources)
  BY <1>2, <1>3 DEF SourcesAreTyped
<1>5. input' = [kind |-> "sources", sources |-> sources]
  BY <1>1 DEF sources
<1>. QED  BY <1>4, <1>5

\* The columns of the zone files MCFunctions picks.
Header == ToSet(ZoneFields) \cup {"Other"}

LEMMA PickZoneTypes ==
    ASSUME PickZones
    PROVE  \E columns \in Seq(Header), locations \in Seq({1, 2, Null}) :
              input' = [kind |-> "zones", columns |-> columns, locations |-> locations]
<1>0. /\ ZoneFields \in Seq(Header) /\ Len(ZoneFields) + 1 \in Nat /\ Tail(ZoneFields) \in Seq(Header)
  <2>1. ZoneFields \in Seq(ToSet(ZoneFields)) /\ Len(ZoneFields) = 4
    BY FourColumns
  <2>2. ZoneFields \in Seq(Header)
    BY <2>1 DEF Header
  <2>3. ZoneFields # <<>>
    BY DEF ZoneFields
  <2>. QED  BY <2>1, <2>2, <2>3
<1>1. CASE \E columns \in SeqsUpTo(Header, Len(ZoneFields) + 1), locations \in {<<>>, <<1>>} :
             input' = [kind |-> "zones", columns |-> columns, locations |-> locations]
  <2>1. PICK columns \in SeqsUpTo(Header, Len(ZoneFields) + 1), locations \in {<<>>, <<1>>} :
             input' = [kind |-> "zones", columns |-> columns, locations |-> locations]
    BY <1>1
  <2>3. columns \in Seq(Header)
    BY <1>0, SequencesUpTo
  <2>4. <<>> \in Seq({1, 2, Null}) /\ <<1>> \in Seq({1, 2, Null})
    OBVIOUS
  <2>5. locations \in Seq({1, 2, Null})
    BY <2>4
  <2>. QED  BY <2>1, <2>3, <2>5
<1>2. CASE \E columns \in {ZoneFields, Tail(ZoneFields)}, locations \in SeqsUpTo({1, 2, Null}, MaxRows) :
             input' = [kind |-> "zones", columns |-> columns, locations |-> locations]
  <2>1. PICK columns \in {ZoneFields, Tail(ZoneFields)}, locations \in SeqsUpTo({1, 2, Null}, MaxRows) :
             input' = [kind |-> "zones", columns |-> columns, locations |-> locations]
    BY <1>2
  <2>2. locations \in Seq({1, 2, Null})
    BY SequencesUpTo, InputsAssumption
  <2>3. columns \in Seq(Header)
    BY <1>0
  <2>. QED  BY <2>1, <2>2, <2>3
<1>. QED  BY <1>1, <1>2, Zenon DEF PickZones, Header

InputsAreTyped ==
    /\ input.kind = "months" =>
          /\ input.a \in Month /\ input.a.year > 0
          /\ input.b \in Month
    /\ input.kind = "sources" => SourcesAreTyped(input.sources)
    /\ input.kind = "schema" => input.schema \in Seq(Field({"a", "b", "c", "x"}, {1, 2}))
    /\ input.kind = "zones" => input.columns \in Seq(Header) /\ input.locations \in Seq({1, 2, Null})
    /\ input.kind = "rank" => input.n \in 1..MaxObservations /\ input.p \in 1..100
    /\ TablesAreTyped /\ ObservationsAreTyped /\ BatchesAreTyped

\* All inputs are of these kinds.
LEMMA InputTypes == Spec => []InputsAreTyped
<1>1. Init => InputsAreTyped
  BY DEF Init, InputsAreTyped, TablesAreTyped, ObservationsAreTyped, BatchesAreTyped
<1>2. InputsAreTyped /\ [Next]_input => InputsAreTyped'
  <2> SUFFICES ASSUME InputsAreTyped, [Next]_input PROVE InputsAreTyped'
    OBVIOUS
  <2>1. CASE UNCHANGED input
    BY <2>1 DEF InputsAreTyped, TablesAreTyped, ObservationsAreTyped, BatchesAreTyped
  <2>2. CASE PickMonths
    <3>1. PICK a, b \in [year : Years, month : 1..12] : input' = [kind |-> "months", a |-> a, b |-> b]
      BY <2>2 DEF PickMonths
    <3>2. a \in Month /\ b \in Month /\ a.year > 0
      BY PickedMonths
    <3>. QED
      BY <3>1, <3>2 DEF InputsAreTyped, TablesAreTyped, ObservationsAreTyped, BatchesAreTyped
  <2>3. CASE PickSchema
    <3>1. PICK schema \in SeqsUpTo([name : {"a", "b", "c", "x"}, type : {1, 2}, nullable : BOOLEAN], MaxRows) :
            input' = [kind |-> "schema", schema |-> schema]
      BY <2>3 DEF PickSchema
    <3>2. schema \in Seq(Field({"a", "b", "c", "x"}, {1, 2}))
      BY SequencesUpTo, InputsAssumption DEF Field
    <3>. QED
      BY <3>1, <3>2 DEF InputsAreTyped, TablesAreTyped, ObservationsAreTyped, BatchesAreTyped
  <2>8. CASE PickSources
    <3>1. input'.kind = "sources" /\ SourcesAreTyped(input'.sources)
      BY <2>8, PickSourceTypes
    <3>. QED
      BY <3>1 DEF InputsAreTyped, TablesAreTyped, ObservationsAreTyped, BatchesAreTyped
  <2>9. CASE PickRank
    <3>1. PICK n \in 1..MaxObservations, p \in 1..100 : input' = [kind |-> "rank", n |-> n, p |-> p]
      BY <2>9 DEF PickRank
    <3>. QED
      BY <3>1 DEF InputsAreTyped, TablesAreTyped, ObservationsAreTyped, BatchesAreTyped
  <2>4. CASE PickZones
    <3>1. PICK columns \in Seq(Header), locations \in Seq({1, 2, Null}) :
            input' = [kind |-> "zones", columns |-> columns, locations |-> locations]
      BY <2>4, PickZoneTypes
    <3>. QED
      BY <3>1 DEF InputsAreTyped, TablesAreTyped, ObservationsAreTyped, BatchesAreTyped
  <2>5. CASE PickBatches
    <3>1. input'.kind \in {"parquet", "csv"}
      BY <2>5 DEF PickBatches
    <3>2. BatchesAreTyped'
      BY <2>5, PickBatchTypes
    <3>3. TablesAreTyped' /\ ObservationsAreTyped'
      BY <3>1 DEF TablesAreTyped, ObservationsAreTyped
    <3>. QED  BY <3>1, <3>2, <3>3 DEF InputsAreTyped
  <2>6. CASE PickObservations
    <3>1. input'.kind = "observations"
      BY <2>6 DEF PickObservations
    <3>2. ObservationsAreTyped'
      BY <2>6, PickObservationTypes
    <3>3. TablesAreTyped' /\ BatchesAreTyped'
      BY <3>1 DEF TablesAreTyped, BatchesAreTyped
    <3>. QED  BY <3>1, <3>2, <3>3 DEF InputsAreTyped
  <2>7. CASE PickTable
    <3>1. input'.kind = "table"
      BY <2>7 DEF PickTable
    <3>2. TablesAreTyped'
      BY <2>7, PickTableTypes
    <3>3. ObservationsAreTyped' /\ BatchesAreTyped'
      BY <3>1 DEF ObservationsAreTyped, BatchesAreTyped
    <3>. QED  BY <3>1, <3>2, <3>3 DEF InputsAreTyped
  <2>. QED  BY <2>1, <2>2, <2>3, <2>4, <2>5, <2>6, <2>7, <2>8, <2>9 DEF Next
<1>. QED  BY <1>1, <1>2, PTL DEF Spec

-----------------------------------------------------------------------------
(* What the inputs make of the functions.                                  *)

LEMMA TypedCatalogs == TablesAreTyped => CatalogsMatch
BY MeasuredNames DEF TablesAreTyped, CatalogsMatch, Measured

LEMMA TypedDurations == TablesAreTyped => DurationsDifferBelowASecond
<1> SUFFICES ASSUME TablesAreTyped, input.kind = "table" PROVE DurationsDifferBelowASecond
  BY DEF DurationsDifferBelowASecond
<1> DEFINE table == input.table
           early == {i \in DOMAIN table :
              /\ Null \notin {table[i]["pickup_datetime"], table[i]["dropoff_datetime"]}
              /\ table[i]["dropoff_datetime"] \in
                    (table[i]["pickup_datetime"] - UnitsPerSecond + 1)..(table[i]["pickup_datetime"] - 1)}
<1>1. input.service \in {"yellow", "green"} /\ IsTable(table, input.service)
  BY DEF TablesAreTyped
<1>2. Measured[<<"order", "dropoff_datetime">>] - Cardinality(early)
        = DurationProfile(table, Window).dropoff_before_pickup
  BY <1>1, DurationsDiffer DEF Measured
<1>. QED  BY <1>2 DEF DurationsDifferBelowASecond

LEMMA TypedDuplicates == TablesAreTyped => DuplicatesAgree
<1> SUFFICES ASSUME TablesAreTyped, input.kind = "table" PROVE DuplicatesAgree
  BY DEF DuplicatesAgree
<1>1. /\ DOMAIN input.table = 1..Len(input.table) /\ Len(input.table) \in Nat
      /\ IsFiniteSet(DOMAIN input.table)
  BY RowsOfTable DEF TablesAreTyped
<1>. QED  BY <1>1, HashesDoNotMatter, MasksCountTheSame DEF DuplicatesAgree

LEMMA TypedMeasurements == TablesAreTyped => MeasurementsAgree
<1> SUFFICES ASSUME TablesAreTyped, input.kind = "table" PROVE MeasurementsAgree
  BY DEF MeasurementsAgree
<1> DEFINE table == input.table
           service == input.service
           zones == input.zones
<1>0. service \in {"yellow", "green"} /\ IsTable(table, service) /\ zones \in Seq(Nat)
  BY DEF TablesAreTyped
<1>1. Measured[<<"month", "pickup_datetime">>] =
        IF DurationProfile(table, Window).outside_month = Null THEN 0
        ELSE DurationProfile(table, Window).outside_month
  BY <1>0, MonthsAgree DEF Measured
<1>2. DOMAIN Measured = RulesByDataset(service)
  BY <1>0, MeasuredNames DEF Measured
<1>3. ASSUME NEW name \in DOMAIN Measured
      PROVE  LET column == Column(table, name[2]) IN
             /\ name[1] = "negative" => Measured[name] = NumericProfile(column).count_lt_0
             /\ name[1] = "zero" => Measured[name] = NumericProfile(column).count_eq_0
             /\ name[1] = "null" => Measured[name] = NullCount(column)
  BY <1>0, <1>2, ScalarsAgree DEF Measured
<1>4. ASSUME NEW name \in DOMAIN Measured
      PROVE  /\ name = <<name[1], name[2]>> /\ name[2] \in TripModel(service) \cup {"row"}
             /\ name[1] # "duplicate" => name[2] \in TripModel(service)
  <2>1. CASE service = "yellow"
    BY <1>2, <2>1 DEF RulesByDataset, YellowRules, TripModel, Amounts
  <2>2. CASE service = "green"
    BY <1>2, <2>2, GreenCatalog DEF RulesByDataset, TripModel, Amounts
  <2>. QED  BY <1>0, <2>1, <2>2
<1>5. ASSUME NEW name \in DOMAIN Measured, name[1] = "domain"
      PROVE  LET column == Column(table, name[2])
                 counts == DomainProfile(column)
                 allowed == DomainValues(service)[name[2]] IN
             Measured[name] + SumFunctionOnSet(counts, DOMAIN counts \cap allowed) + NullCount(column)
               = Len(table)
  <2>1. /\ name[2] \in DOMAIN DomainValues(service)
        /\ Measured[name] = DomainMeasurements(table, service)[name]
    BY <1>0, <1>2, <1>5, MeasuredNumbers DEF Measured
  <2>2. Measured[name] = DomainMeasurements(table, service)[<<"domain", name[2]>>]
    BY <1>4, <1>5, <2>1
  <2>. QED  BY <1>0, <2>1, <2>2, DomainsAgree
<1>6. ASSUME NEW name \in DOMAIN Measured, name[1] = "zone", IsInjective(zones)
      PROVE  Measured[name] = ZoneReferenceProfile(Column(table, name[2]), ToSet(zones))
  <2>1. /\ name[2] \in {"pickup_location_id", "dropoff_location_id"}
        /\ Measured[name] = ZoneMeasurements(table, zones)[name]
    BY <1>0, <1>2, <1>6, MeasuredNumbers DEF Measured
  <2>2. Measured[name] = ZoneMeasurements(table, zones)[<<"zone", name[2]>>]
    BY <1>4, <1>6, <2>1
  <2>. QED  BY <1>0, <1>6, <2>1, <2>2, LocationsAgree
<1>7. ASSUME NEW name \in DOMAIN Measured, IsInjective(zones) PROVE Measured[name] <= Len(table)
  BY <1>0, <1>2, <1>7, MeasuredOnceEach DEF Measured
<1>8. ValidateZones(ZoneFields, zones) = "accepted" => IsInjective(zones)
  BY DEF ValidateZones
<1>9. \A a \in TripModel(service) : [b \in TripModel(service) |-> Column(table, b)][a] = Column(table, a)
  OBVIOUS
<1> HIDE DEF table, service, zones
<1>10. ASSUME NEW name \in DOMAIN Measured
       PROVE  LET profile == [a \in TripModel(service) |-> Column(table, a)] IN
              /\ name[1] = "negative" => Measured[name] = NumericProfile(profile[name[2]]).count_lt_0
              /\ name[1] = "zero" => Measured[name] = NumericProfile(profile[name[2]]).count_eq_0
              /\ name[1] = "null" => Measured[name] = NullCount(profile[name[2]])
              /\ name[1] = "domain" =>
                    LET counts == DomainProfile(profile[name[2]])
                        allowed == DomainValues(service)[name[2]] IN
                    Measured[name] + SumFunctionOnSet(counts, DOMAIN counts \cap allowed)
                        + NullCount(profile[name[2]]) = Len(table)
              /\ ValidateZones(ZoneFields, zones) = "accepted" =>
                    /\ name[1] = "zone" =>
                          Measured[name] = ZoneReferenceProfile(profile[name[2]], ToSet(zones))
                    /\ Measured[name] <= Len(table)
  <2>1. CASE name[1] = "duplicate"
    BY <1>7, <1>8, <2>1
  <2>2. CASE name[1] # "duplicate"
    <3>1. [a \in TripModel(service) |-> Column(table, a)][name[2]] = Column(table, name[2])
      BY <1>4, <1>9, <2>2
    <3>. QED  BY <1>3, <1>5, <1>6, <1>7, <1>8, <3>1
  <2>. QED  BY <2>1, <2>2
<1>. QED  BY <1>1, <1>10 DEF MeasurementsAgree, table, service, zones

LEMMA TypedPercentiles == ObservationsAreTyped => (input.kind = "observations" => PercentileIsLeast)
<1> SUFFICES ASSUME ObservationsAreTyped, input.kind = "observations" PROVE PercentileIsLeast
  OBVIOUS
<1>1. PICK n \in 1..MaxObservations : input.values \in [1..n -> Int]
  BY DEF ObservationsAreTyped
<1>2. Len(input.values) = n /\ input.p \in 1..100
  <2>1. n \in Nat
    BY RoundingAssumption
  <2>. QED  BY <1>1, <2>1 DEF ObservationsAreTyped
<1> DEFINE v == NearestRank(input.values, input.p)
<1>3. /\ 100 * Cardinality(UpTo(input.values, v)) >= input.p * n
      /\ 100 * Cardinality(Below(input.values, v)) <= input.p * n
      /\ 100 * Percentile(input.p) <= input.p * Unit
            => 100 * Cardinality(Below(input.values, v)) < input.p * n
  BY <1>1, <1>2, PercentileOfValues, ZenonT(40)
<1>4. /\ Rows(input.values, LAMBDA x : x <= v) = Cardinality(UpTo(input.values, v))
      /\ Rows(input.values, LAMBDA x : x < v) = Cardinality(Below(input.values, v))
  BY DEF Rows, UpTo, Below
<1> HIDE DEF v
<1>5. /\ 100 * Rows(input.values, LAMBDA x : x <= v) >= input.p * n
      /\ 100 * Rows(input.values, LAMBDA x : x < v) <= input.p * n
      /\ 100 * Percentile(input.p) <= input.p * Unit
            => 100 * Rows(input.values, LAMBDA x : x < v) < input.p * n
  BY <1>3, <1>4, Zenon
<1>. QED  BY <1>2, <1>5 DEF PercentileIsLeast, v

LEMMA TypedBatches == BatchesAreTyped => BatchesNumberAllRows
<1> SUFFICES ASSUME BatchesAreTyped PROVE BatchesNumberAllRows
  OBVIOUS
<1>1. ASSUME input.kind = "parquet"
      PROVE  NumbersRows(ParquetBatches(input.sizes), FoldLeft(+, 0, input.sizes))
  <2>1. PICK m \in Nat : input.sizes \in [1..m -> Nat]
    BY <1>1 DEF BatchesAreTyped
  <2>2. PICK ends \in Ends(m) : /\ \A b \in 1..m : ends[b] = ends[b - 1] + input.sizes[b]
                                /\ ends[m] = FoldLeft(+, 0, input.sizes)
    BY <2>1, SumOfSizes
  <2>3. ParquetBatches(input.sizes) = BatchesUpTo(ends, m)
    BY <2>1, <2>2, BatchesOfSizes
  <2>4. NumbersRows(BatchesUpTo(ends, m), ends[m])
    BY BatchesNumberRows
  <2>. QED  BY <2>2, <2>3, <2>4, Zenon
<1>2. ASSUME input.kind = "csv"
      PROVE  LET batches == ZoneBatches(input.n, input.size) IN
             /\ NumbersRows(batches, input.n)
             /\ RowsRead(batches) = input.n
             /\ \A b \in DOMAIN batches : Len(batches[b].rows) \in 1..input.size
  <2>1. input.n \in Nat /\ input.size \in Nat \ {0}
    BY <1>2 DEF BatchesAreTyped
  <2>2. PICK m \in Nat : \E ends \in Ends(m) :
          /\ ZoneBatches(input.n, input.size) = BatchesUpTo(ends, m) /\ ends[m] = input.n
          /\ \A b \in 1..m : ends[b] - ends[b - 1] \in 1..input.size
    BY <2>1, BatchesOfRows
  <2>3. PICK ends \in Ends(m) :
          /\ ZoneBatches(input.n, input.size) = BatchesUpTo(ends, m) /\ ends[m] = input.n
          /\ \A b \in 1..m : ends[b] - ends[b - 1] \in 1..input.size
    BY <2>2
  <2> DEFINE batches == BatchesUpTo(ends, m)
  <2>4. NumbersRows(batches, ends[m]) /\ RowsRead(batches) = ends[m]
    BY BatchesNumberRows, RowsOfBatches
  <2>5. ASSUME NEW b \in DOMAIN batches PROVE Len(batches[b].rows) \in 1..input.size
    <3>1. b \in 1..m
      BY DEF BatchesUpTo
    <3>2. Len(batches[b].rows) = ends[b] - ends[b - 1]
      BY <3>1, EndsOfBatches, BatchTypes
    <3>. QED  BY <2>3, <3>1, <3>2
  <2> HIDE DEF batches
  <2>. QED  BY <2>3, <2>4, <2>5 DEF batches
<1>. QED  BY <1>1, <1>2 DEF BatchesNumberAllRows

-----------------------------------------------------------------------------
(* The theorems.                                                            *)

\* The scheduled month is the one two before the logical date's.
THEOREM MonthsAreScheduled == Spec => []ScheduledMonthIsTwoBefore
<1>1. InputsAreTyped => ScheduledMonthIsTwoBefore
  <2> SUFFICES ASSUME InputsAreTyped, input.kind = "months" PROVE ScheduledMonthIsTwoBefore
    BY DEF ScheduledMonthIsTwoBefore
  <2>1. ResolveMonth(input.a, <<>>, <<>>) = <<PreviousMonth(PreviousMonth(input.a))>>
    BY ScheduledMonthLagsByTwo DEF InputsAreTyped, ResolveMonth
  <2>2. ASSUME NEW y \in {999, input.b.year, 10000}, NEW m \in 0..13
        PROVE  /\ ResolveMonth(input.a, <<y>>, <<>>) = <<>> /\ ResolveMonth(input.a, <<>>, <<m>>) = <<>>
               /\ ResolveMonth(input.a, <<y>>, <<m>>) =
                     IF MonthOf(y, m) \in FourDigitMonths
                     THEN <<MonthOf(y, m)>> ELSE <<>>
    <3>1. /\ <<y>> # <<>> /\ <<m>> # <<>> /\ <<y>>[1] = y /\ <<m>>[1] = m
      OBVIOUS
    <3>2. MonthOf(y, m) \in FourDigitMonths <=> Supported(y, m)
      BY DEF MonthOf, Supported, FourDigitMonths
    <3>3. ResolveMonth(input.a, <<y>>, <<>>) = <<>>
      BY <3>1 DEF ResolveMonth
    <3>4. ResolveMonth(input.a, <<>>, <<m>>) = <<>>
      BY <3>1 DEF ResolveMonth
    <3>5. ResolveMonth(input.a, <<y>>, <<m>>) = IF Supported(y, m) THEN <<MonthOf(y, m)>> ELSE <<>>
      BY <3>1 DEF ResolveMonth
    <3>. QED  BY <3>2, <3>3, <3>4, <3>5
  <2>. QED  BY <2>1, <2>2 DEF ScheduledMonthIsTwoBefore
<1>. QED  BY <1>1, InputTypes, PTL

\* A date is in the window of its own month and of no other one.
THEOREM WindowsAreTiled == Spec => []WindowsTile
<1>1. InputsAreTyped => WindowsTile
  <2> SUFFICES ASSUME InputsAreTyped, input.kind = "months", NEW date \in DatesOf(input.b)
               PROVE  OutsideMonth(date, input.a) <=> input.a # input.b
    BY DEF WindowsTile
  <2>1. input.a \in Month /\ input.b \in Month
    BY DEF InputsAreTyped
  <2>2. PICK d \in 1..MonthLength(input.b) : date = <<input.b.year, input.b.month, d>>
    BY DEF DatesOf
  <2>. QED  BY <2>1, <2>2, WindowsTileTheCalendar
<1>. QED  BY <1>1, InputTypes, PTL

\* The dates the dashboard asks for are the first and the last of two months.
THEOREM BoundsAreOfTheMonths == Spec => []BoundsAreExact
<1>1. InputsAreTyped => BoundsAreExact
  <2> SUFFICES ASSUME InputsAreTyped, input.kind = "sources" PROVE BoundsAreExact
    BY DEF BoundsAreExact
  <2> DEFINE sources == input.sources
             months == LoadedMonths(sources)
             dates == UNION {DatesOf(a) : a \in months}
             bounds == LoadedDateBounds(sources)
  <2>1. SourcesAreTyped(sources)
    BY DEF InputsAreTyped
  <2> HIDE DEF sources
  <2>2. months \in SUBSET Month /\ \A a, b, c \in months : a = b \/ b = c \/ c = a
    BY <2>1 DEF SourcesAreTyped
  <2>3. \A a \in months : \E d : d \in DatesOf(a)
    <3>1. ASSUME NEW a \in months PROVE <<a.year, a.month, 1>> \in DatesOf(a)
      <4>1. 1 \in 1..MonthLength(a)
        BY <2>2, MonthsHaveDays
      <4>. QED  BY <4>1 DEF DatesOf
    <3>. QED  BY <3>1
  <2>4. CASE months = {}
    <3>1. dates = {} /\ bounds = <<>>
      BY <2>4 DEF LoadedDateBounds
    <3>. QED  BY <3>1 DEF BoundsAreExact, sources
  <2>5. CASE months # {}
    <3>1. PICK a \in months, b \in months :
            (\A c \in months \ {a} : Before(a, c)) /\ (\A c \in months \ {b} : Before(c, b))
      <4>1. PICK x \in months : TRUE
        BY <2>5
      <4>2. CASE months = {x}
        BY <4>2
      <4>3. CASE \E y \in months : y # x
        <5>1. PICK y \in months : y # x
          BY <4>3
        <5>2. \A c \in months : c = x \/ c = y
          BY <2>2, <5>1
        <5>3. Before(x, y) \/ Before(y, x)
          BY <2>2, <5>1, MonthsAreOrdered
        <5>. QED  BY <5>1, <5>2, <5>3
      <4>. QED  BY <4>1, <4>2, <4>3
    <3>2. /\ bounds[1] \in DatesOf(a) /\ bounds[2] \in DatesOf(b)
          /\ \A c \in months : \A d \in DatesOf(c) : ~DateBefore(d, bounds[1]) /\ ~DateBefore(bounds[2], d)
      <4> HIDE DEF months
      <4>1. months = LoadedMonths(sources)
        BY DEF months
      <4>. QED  BY <2>2, <3>1, <4>1, BoundsEncloseTheMonths
    <3> HIDE DEF bounds, months
    <3>3. /\ dates # {} /\ bounds[1] \in dates /\ bounds[2] \in dates
          /\ \A date \in dates : ~DateBefore(date, bounds[1]) /\ ~DateBefore(bounds[2], date)
      BY <3>2
    <3> HIDE DEF dates
    <3>4. BoundsAreExact <=> IF dates = {} THEN bounds = <<>>
            ELSE /\ bounds[1] \in dates /\ bounds[2] \in dates
                 /\ \A date \in dates : ~DateBefore(date, bounds[1]) /\ ~DateBefore(bounds[2], date)
      BY DEF BoundsAreExact, dates, bounds, months, sources
    <3>. QED  BY <3>3, <3>4
  <2>. QED  BY <2>4, <2>5
<1>. QED  BY <1>1, InputTypes, PTL

\* The contracts accept the frozen schemas and the joinable zone files only.
THEOREM ContractsAreExact == Spec => []AcceptedSourcesAreExact
<1>1. InputsAreTyped => AcceptedSourcesAreExact
  BY SchemasAreExact, ZonesAreExact DEF InputsAreTyped, AcceptedSourcesAreExact
<1>. QED  BY <1>1, InputTypes, PTL

\* The values of an accepted file are stored in the columns of their names, after the
\* copy by position.
THEOREM ValuesAreCopied == Spec => []ValuesKeepTheirColumns
<1> DEFINE T == Int \cup {Null}
           Row(names) == [i \in DOMAIN names |-> i]
           lineage == [k \in DOMAIN LineageColumns |-> -k]
<1>1. lineage \in Seq(T) /\ Len(lineage) = 4
  <2>1. DOMAIN LineageColumns = 1..4
    BY DEF LineageColumns
  <2>. QED  BY <2>1
<1>2. /\ YellowColumns \in Seq(STRING) /\ IsInjective(YellowColumns)
      /\ Baseline \in Seq(STRING) /\ IsInjective(Baseline)
      /\ ToSet(LineageColumns) \cap ToSet(YellowColumns) = {}
      /\ ToSet(LineageColumns) \cap ToSet(Baseline) = {}
  BY ColumnsType, FieldsAssumption
<1>3. /\ ZoneFields \in Seq(ToSet(ZoneFields)) /\ IsInjective(ZoneFields)
      /\ ToSet(LineageColumns) \cap ToSet(ZoneFields) = {}
  <2>1. /\ ZoneFields \in Seq(ToSet(ZoneFields)) /\ DOMAIN LineageColumns = 1..4 /\ DOMAIN ZoneFields = 1..4
        /\ \A k, l \in 1..4 : ZoneFields[k] = ZoneFields[l] => k = l
        /\ \A k, l \in 1..4 : LineageColumns[k] # ZoneFields[l]
    BY FourColumns
  <2>. QED  BY <2>1 DEF ToSet, IsInjective
<1> HIDE DEF lineage
<1>4. ASSUME NEW S, NEW names \in Seq(S), IsInjective(names),
             NEW C, NEW columns \in Seq(C), IsInjective(columns), ToSet(LineageColumns) \cap ToSet(columns) = {}
      PROVE  KeepsColumns(CopyRow(CopyColumns(columns), ParquetRow(names, Row(names), columns, lineage)),
                          names, Row(names), columns, lineage)
  <2>1. Null \in T /\ \A i \in DOMAIN names : Row(names)[i] \in T
    OBVIOUS
  <2> HIDE DEF T, Row
  <2>. QED  BY <1>1, <1>4, <2>1, CopyKeepsColumns
<1>5. InputsAreTyped => ValuesKeepTheirColumns
  <2> SUFFICES ASSUME InputsAreTyped PROVE ValuesKeepTheirColumns
    OBVIOUS
  <2>1. ASSUME input.kind = "schema", IsInjective(FieldNames(input.schema)), NEW names, names = FieldNames(input.schema)
        PROVE  /\ KeepsColumns(LoadYellow(names, Row(names), lineage), names, Row(names), YellowColumns, lineage)
               /\ KeepsColumns(LoadGreen(names, Row(names), lineage), names, Row(names), Baseline, lineage)
    <3>1. names \in Seq({"a", "b", "c", "x"})
      <4>1. input.schema \in Seq(Field({"a", "b", "c", "x"}, {1, 2}))
        BY <2>1 DEF InputsAreTyped
      <4>2. ASSUME NEW i \in DOMAIN input.schema PROVE input.schema[i].name \in {"a", "b", "c", "x"}
        <5>1. input.schema[i] \in Field({"a", "b", "c", "x"}, {1, 2})
          BY <4>1
        <5>. QED  BY <5>1 DEF Field
      <4>. QED  BY <2>1, <4>1, <4>2 DEF FieldNames
    <3> HIDE DEF Row
    <3>. QED  BY <1>2, <1>4, <2>1, <3>1 DEF LoadYellow, LoadGreen
  <2>2. ASSUME input.kind = "zones", ValidateZones(input.columns, input.locations) = "accepted"
        PROVE  KeepsColumns(LoadZones(input.columns, Row(input.columns), lineage),
                            input.columns, Row(input.columns), ZoneFields, lineage)
    <3>1. /\ input.columns \in Seq(Header) /\ IsInjective(input.columns)
          /\ ToSet(input.columns) = ToSet(ZoneFields)
      BY <2>2 DEF InputsAreTyped, ValidateZones
    <3> HIDE DEF Row
    <3>. QED  BY <1>3, <1>4, <3>1, ZoneRowsAreNamed DEF LoadZones
  <2>. QED  BY <2>1, <2>2 DEF ValuesKeepTheirColumns, lineage
<1>. QED  BY <1>5, InputTypes, PTL

\* Rows are numbered from 1 without gap through all batches of a file, Parquet or
\* zones, and the last batch is yielded too (iter_parquet_batches,
\* iter_taxi_zone_batches).
THEOREM BatchesAreNumbered == Spec => []BatchesNumberAllRows
<1>1. InputsAreTyped => BatchesNumberAllRows
  BY TypedBatches DEF InputsAreTyped
<1>. QED  BY <1>1, InputTypes, PTL

\* The measurements of the checks are those of the catalog (run_quality_checks).
THEOREM CatalogsAreMatched == Spec => []CatalogsMatch
<1>1. InputsAreTyped => CatalogsMatch
  BY TypedCatalogs DEF InputsAreTyped
<1>. QED  BY <1>1, InputTypes, PTL

\* SQL and the profile agree on every count they both make, and on an accepted zone
\* file no check fails for more rows than there are (quality/queries.py,
\* profiling/statistics.py).
THEOREM MeasurementsAreAgreed == Spec => []MeasurementsAgree
<1>1. InputsAreTyped => MeasurementsAgree
  BY TypedMeasurements DEF InputsAreTyped
<1>. QED  BY <1>1, InputTypes, PTL

\* The profile and the check of the durations differ by exactly the trips that end
\* less than a second early (duration_profile).
THEOREM DurationsDifferByRounding == Spec => []DurationsDifferBelowASecond
<1>1. InputsAreTyped => DurationsDifferBelowASecond
  BY TypedDurations DEF InputsAreTyped
<1>. QED  BY <1>1, InputTypes, PTL

\* SQL, Arrow and pandas count the same duplicates, whatever the hashes are
\* (exact_duplicate_profile, dataframe_duplicate_profile).
THEOREM DuplicatesAreAgreed == Spec => []DuplicatesAgree
<1>1. InputsAreTyped => DuplicatesAgree
  BY TypedDuplicates DEF InputsAreTyped
<1>. QED  BY <1>1, InputTypes, PTL

\* The share p of the observations lies at or below the percentile, and no more than
\* that below it, with the roundings of p / 100 and of its product
\* (nearest_rank_percentile).
THEOREM PercentilesAreLeast == Spec => []PercentileIsLeast
<1>1. InputsAreTyped /\ input.kind = "rank" => PercentileIsLeast
  BY RankIsLeast DEF InputsAreTyped, PercentileIsLeast
<1>2. input.kind \notin {"rank", "observations"} => PercentileIsLeast
  BY DEF PercentileIsLeast
<1>3. InputsAreTyped => PercentileIsLeast
  BY <1>1, <1>2, TypedPercentiles DEF InputsAreTyped
<1>. QED  BY <1>3, InputTypes, PTL
=============================================================================
