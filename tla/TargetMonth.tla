----------------------------- MODULE TargetMonth -----------------------------
(***************************************************************************)
(* Month arithmetic: which month the workflow loads (orchestration.py),    *)
(* the key of a monthly partition (sources/tlc.py), the window of a month  *)
(* (quality/queries.py, profiling/statistics.py) and the dates the         *)
(* dashboard asks for (dashboard/components.py).                           *)
(* A month is a record of year and month; a date is <<year, month, day>>.  *)
(* What may be None is a sequence of at most one value.                    *)
(***************************************************************************)
EXTENDS Integers, Sequences

Month == [year : Nat, month : 1..12]

MonthOf(y, m) == [year |-> y, month |-> m]

Before(a, b) == a.year < b.year \/ (a.year = b.year /\ a.month < b.month)

-----------------------------------------------------------------------------
\* The index taken for the month itself, counted from 1.
ScheduledMonth_Bug(logical) ==
    LET index == logical.year * 12 + logical.month - 2 IN MonthOf(index \div 12, index % 12)

\* resolve_month without parameters: two months before the logical date.
ScheduledMonth(logical) ==
    LET index == logical.year * 12 + logical.month - 3 IN MonthOf(index \div 12, (index % 12) + 1)

\* resolve_month, yellow_trip_source and green_trip_source accept these months.
Supported(y, m) == y \in 1000..9999 /\ m \in 1..12

\* resolve_month for a manual run with these parameters or for a scheduled one;
\* nothing where it raises.
ResolveMonth(logical, year, month) ==
    IF (year = <<>>) # (month = <<>>) THEN <<>>
    ELSE IF year = <<>> THEN <<ScheduledMonth(logical)>>
    ELSE IF Supported(year[1], month[1]) THEN <<MonthOf(year[1], month[1])>>
    ELSE <<>>

\* partition_key and landing_path: the year in four digits and the month in two,
\* read as one number.
PartitionDigits(a) == a.year * 100 + a.month

\* The year is not advanced after December.
FollowingMonth_Bug(a) == MonthOf(a.year, (a.month % 12) + 1)

\* The exclusive end of a month's window starts the month after it.
FollowingMonth(a) == MonthOf(a.year + (IF a.month = 12 THEN 1 ELSE 0), (a.month % 12) + 1)

\* datetime.date ends with year 9999: the window of its last month raises.
HasWindow(a) == FollowingMonth(a).year <= 9999

\* Whether a date is outside of the window of a month, which is from the first of
\* it to the first of the next: to compare the months is to compare with these.
OutsideMonth(date, a) ==
    LET inMonth == MonthOf(date[1], date[2]) IN
    Before(inMonth, a) \/ ~Before(inMonth, FollowingMonth(a))

-----------------------------------------------------------------------------
IsLeap(y) == y % 4 = 0 /\ (y % 100 # 0 \/ y % 400 = 0)

\* calendar.monthrange(year, month)[1].
DaysOf(a) == CASE a.month \in {4, 6, 9, 11} -> 30
               [] a.month = 2 -> (IF IsLeap(a.year) THEN 29 ELSE 28)
               [] OTHER -> 31

Earliest(months) == CHOOSE a \in months : \A b \in months \ {a} : Before(a, b)
Latest(months) == CHOOSE a \in months : \A b \in months \ {a} : Before(b, a)

\* The months of the trip sources that are loaded; taxi zones have none.
LoadedMonths(sources) ==
    {s.period[1] : s \in {x \in sources : /\ x.status = "loaded"
                                        /\ x.service \in {"yellow", "green"}
                                        /\ x.period # <<>>}}

\* The range ends on the first day of the last month.
LoadedDateBounds_Bug(sources) ==
    LET months == LoadedMonths(sources)  a == Earliest(months)  b == Latest(months) IN
    IF months = {} THEN <<>>
    ELSE << <<a.year, a.month, 1>>, <<b.year, b.month, 1>> >>

\* loaded_date_bounds: from the first day of the first to the last of the last month.
LoadedDateBounds(sources) ==
    LET months == LoadedMonths(sources)  a == Earliest(months)  b == Latest(months) IN
    IF months = {} THEN <<>>
    ELSE << <<a.year, a.month, 1>>, <<b.year, b.month, DaysOf(b)>> >>

-----------------------------------------------------------------------------
(* Reference definitions.                                                   *)

PreviousMonth(a) == IF a.month = 1 THEN MonthOf(a.year - 1, 12) ELSE MonthOf(a.year, a.month - 1)

LeapDays(y) == y \div 4 - y \div 100 + y \div 400

\* The number of the first day of a month in the calendar, where years begin in
\* March: 365 days a year, the leap days so far, 153 days in five months.
FirstDay(y, m) ==
    LET year == IF m > 2 THEN y ELSE y - 1
        past == IF m > 2 THEN m - 3 ELSE m + 9 IN
    365 * year + LeapDays(year) + (153 * past + 2) \div 5

MonthLength(a) ==
    (IF a.month = 12 THEN FirstDay(a.year + 1, 1) ELSE FirstDay(a.year, a.month + 1))
        - FirstDay(a.year, a.month)

DatesOf(a) == {<<a.year, a.month, d>> : d \in 1..MonthLength(a)}

DateBefore(d, e) ==
    \/ d[1] < e[1]
    \/ d[1] = e[1] /\ d[2] < e[2]
    \/ d[1] = e[1] /\ d[2] = e[2] /\ d[3] < e[3]
=============================================================================
