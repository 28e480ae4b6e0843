-------------------------- MODULE TargetMonthProofs --------------------------
(***************************************************************************)
(* Month arithmetic for every month, where MCFunctions takes some years.   *)
(***************************************************************************)
EXTENDS TargetMonth, TLAPS

\* resolve_month: the scheduled month is a month, and the one two before.
THEOREM ScheduledMonthLagsByTwo ==
    ASSUME NEW a \in Month, a.year > 0
    PROVE  /\ ScheduledMonth(a) \in Month
           /\ ScheduledMonth(a) = PreviousMonth(PreviousMonth(a))
<1> DEFINE index == a.year * 12 + a.month - 3
<1>1. a.year \in Nat \ {0} /\ a.month \in 1..12
  BY DEF Month
<1>2. CASE a.month \in 1..2
  <2>1. index = 12 * (a.year - 1) + (a.month + 9) /\ a.month + 9 \in 0..11
    BY <1>1, <1>2
  <2>2. index \div 12 = a.year - 1 /\ index % 12 = a.month + 9
    BY <1>1, <2>1
  <2>3. ScheduledMonth(a) = [year |-> a.year - 1, month |-> a.month + 10]
    BY <1>1, <1>2, <2>2 DEF ScheduledMonth, MonthOf
  <2>4. PreviousMonth(PreviousMonth(a)) = [year |-> a.year - 1, month |-> a.month + 10]
    BY <1>1, <1>2 DEF PreviousMonth, MonthOf
  <2>. QED  BY <1>1, <1>2, <2>3, <2>4 DEF Month
<1>3. CASE a.month \in 3..12
  <2>1. index = 12 * a.year + (a.month - 3) /\ a.month - 3 \in 0..11
    BY <1>1, <1>3
  <2>2. index \div 12 = a.year /\ index % 12 = a.month - 3
    BY <1>1, <2>1
  <2>3. ScheduledMonth(a) = [year |-> a.year, month |-> a.month - 2]
    BY <1>1, <1>3, <2>2 DEF ScheduledMonth, MonthOf
  <2>4. PreviousMonth(PreviousMonth(a)) = [year |-> a.year, month |-> a.month - 2]
    BY <1>1, <1>3 DEF PreviousMonth, MonthOf
  <2>. QED  BY <1>1, <1>3, <2>3, <2>4 DEF Month
<1>. QED  BY <1>1, <1>2, <1>3

\* sources/tlc.py: two months have different partition keys and landing paths.
THEOREM PartitionKeysAreDistinct ==
    ASSUME NEW a \in Month, NEW b \in Month, PartitionDigits(a) = PartitionDigits(b)
    PROVE  a = b
<1>1. a.year = b.year /\ a.month = b.month
  BY DEF Month, PartitionDigits
<1>. QED  BY <1>1 DEF Month

\* queries.py and statistics.py: a date is inside the window of its own month
\* and outside the window of every other month.
THEOREM WindowsTileTheCalendar ==
    ASSUME NEW a \in Month, NEW b \in Month, NEW d
    PROVE  OutsideMonth(<<b.year, b.month, d>>, a) <=> a # b
<1> DEFINE next == FollowingMonth(a)
<1>1. a = [year |-> a.year, month |-> a.month] /\ b = [year |-> b.year, month |-> b.month]
  BY DEF Month
<1>2. a.year \in Nat /\ b.year \in Nat /\ a.month \in 1..12 /\ b.month \in 1..12
  BY DEF Month
<1>3. OutsideMonth(<<b.year, b.month, d>>, a) <=> Before(b, a) \/ ~Before(b, next)
  BY <1>1 DEF OutsideMonth, MonthOf
<1>4. next.year = (IF a.month = 12 THEN a.year + 1 ELSE a.year)
      /\ next.month = (IF a.month = 12 THEN 1 ELSE a.month + 1)
  BY <1>2 DEF FollowingMonth, MonthOf
<1>5. Before(b, a) \/ ~Before(b, next) <=> b.year # a.year \/ b.month # a.month
  BY <1>2, <1>4 DEF Before
<1>. QED  BY <1>1, <1>3, <1>5

-----------------------------------------------------------------------------
(* The dates of the loaded months.                                          *)

\* No month comes before itself or before one that it follows.
LEMMA MonthsAreOrdered ==
    ASSUME NEW a \in Month, NEW b \in Month
    PROVE  /\ ~(Before(a, b) /\ Before(b, a))
           /\ a # b => Before(a, b) \/ Before(b, a)
<1>1. a = [year |-> a.year, month |-> a.month] /\ b = [year |-> b.year, month |-> b.month]
  BY DEF Month
<1>2. a.year \in Nat /\ b.year \in Nat /\ a.month \in 1..12 /\ b.month \in 1..12
  BY DEF Month
<1>3. a # b => a.year # b.year \/ a.month # b.month
  BY <1>1
<1>. QED  BY <1>2, <1>3 DEF Before

\* The choice of the earliest and of the latest month is determined.
LEMMA EarliestAndLatest ==
    ASSUME NEW months \in SUBSET Month, NEW a \in months
    PROVE  /\ (\A b \in months \ {a} : Before(a, b)) => Earliest(months) = a
           /\ (\A b \in months \ {a} : Before(b, a)) => Latest(months) = a
BY MonthsAreOrdered DEF Earliest, Latest

\* Dividing a number and the one before it differs where the division is exact.
LEMMA QuotientSteps ==
    ASSUME NEW y \in Int
    PROVE  /\ y \div 4 - (y - 1) \div 4 = IF y % 4 = 0 THEN 1 ELSE 0
           /\ y \div 100 - (y - 1) \div 100 = IF y % 100 = 0 THEN 1 ELSE 0
           /\ y \div 400 - (y - 1) \div 400 = IF y % 400 = 0 THEN 1 ELSE 0
           /\ y % 400 = 0 => y % 100 = 0
           /\ y % 100 = 0 => y % 4 = 0
<1>1. y \div 4 - (y - 1) \div 4 = IF y % 4 = 0 THEN 1 ELSE 0
  BY SMTT(30)
<1>2. y \div 100 - (y - 1) \div 100 = IF y % 100 = 0 THEN 1 ELSE 0
  BY SMTT(30)
<1>3. y \div 400 - (y - 1) \div 400 = IF y % 400 = 0 THEN 1 ELSE 0
  BY SMTT(30)
<1>4. y % 400 = 0 => y % 100 = 0
  BY SMTT(30)
<1>5. y % 100 = 0 => y % 4 = 0
  BY SMTT(30)
<1>. QED  BY <1>1, <1>2, <1>3, <1>4, <1>5

LEMMA LeapDaysStep ==
    ASSUME NEW y \in Int
    PROVE  /\ LeapDays(y) \in Int /\ LeapDays(y - 1) \in Int
           /\ LeapDays(y) - LeapDays(y - 1) = IF IsLeap(y) THEN 1 ELSE 0
<1>1. LeapDays(y) \in Int /\ LeapDays(y - 1) \in Int
  BY DEF LeapDays
<1>2. LeapDays(y) - LeapDays(y - 1) = IF IsLeap(y) THEN 1 ELSE 0
  BY QuotientSteps DEF LeapDays, IsLeap
<1>. QED  BY <1>1, <1>2

\* The days between two first days, for each month of a year.
LEMMA MonthSteps ==
    ASSUME NEW y \in Int
    PROVE  /\ FirstDay(y + 1, 1) - FirstDay(y, 12) = 31
           /\ \A m \in 3..11 : FirstDay(y, m + 1) - FirstDay(y, m) = IF m \in {4, 6, 9, 11} THEN 30 ELSE 31
           /\ FirstDay(y, 3) - FirstDay(y, 2) = IF IsLeap(y) THEN 29 ELSE 28
           /\ FirstDay(y, 2) - FirstDay(y, 1) = 31
<1>1. /\ LeapDays(y) \in Int /\ LeapDays(y - 1) \in Int
      /\ LeapDays(y) - LeapDays(y - 1) = IF IsLeap(y) THEN 1 ELSE 0
  BY LeapDaysStep
<1>2. (y + 1) - 1 = y
  OBVIOUS
<1>3. FirstDay(y + 1, 1) - FirstDay(y, 12) = 31
  BY <1>1, <1>2 DEF FirstDay
<1>4. ASSUME NEW m \in 3..11
      PROVE  FirstDay(y, m + 1) - FirstDay(y, m) = IF m \in {4, 6, 9, 11} THEN 30 ELSE 31
  <2>1. /\ FirstDay(y, m) = 365 * y + LeapDays(y) + (153 * (m - 3) + 2) \div 5
        /\ FirstDay(y, m + 1) = 365 * y + LeapDays(y) + (153 * (m - 2) + 2) \div 5
    <3>1. m > 2 /\ m + 1 > 2 /\ (m + 1) - 3 = m - 2
      OBVIOUS
    <3>. QED  BY <3>1 DEF FirstDay
  <2>2. (153 * (m - 2) + 2) \div 5 - (153 * (m - 3) + 2) \div 5 = IF m \in {4, 6, 9, 11} THEN 30 ELSE 31
    OBVIOUS
  <2>. QED  BY <1>1, <2>1, <2>2
<1>5. FirstDay(y, 3) - FirstDay(y, 2) = IF IsLeap(y) THEN 29 ELSE 28
  BY <1>1 DEF FirstDay
<1>6. FirstDay(y, 2) - FirstDay(y, 1) = 31
  BY <1>1 DEF FirstDay
<1>. QED  BY <1>3, <1>4, <1>5, <1>6

\* calendar.monthrange gives the days until the next month of the calendar, in leap
\* years too.
THEOREM DaysOfTheCalendar ==
    ASSUME NEW a \in Month
    PROVE  DaysOf(a) = MonthLength(a)
<1>1. a.year \in Int /\ a.month \in 1..12
  BY DEF Month
<1>2. CASE a.month = 12
  BY <1>1, <1>2, MonthSteps DEF MonthLength, DaysOf
<1>3. CASE a.month \in 3..11
  BY <1>1, <1>3, MonthSteps DEF MonthLength, DaysOf
<1>4. CASE a.month = 1
  BY <1>1, <1>4, MonthSteps DEF MonthLength, DaysOf
<1>5. CASE a.month = 2
  BY <1>1, <1>5, MonthSteps DEF MonthLength, DaysOf
<1>. QED  BY <1>1, <1>2, <1>3, <1>4, <1>5

LEMMA MonthsHaveDays ==
    ASSUME NEW a \in Month
    PROVE  MonthLength(a) = DaysOf(a) /\ MonthLength(a) \in 28..31
BY DaysOfTheCalendar DEF DaysOf

\* The dates of a month come before those of a later one; the days of one month
\* lie between its first and its last.
LEMMA DatesOfMonths ==
    ASSUME NEW a \in Month, NEW b \in Month, a = b \/ Before(a, b), NEW d \in DatesOf(b)
    PROVE  /\ ~DateBefore(d, <<a.year, a.month, 1>>)
           /\ \A e \in DatesOf(a) : ~DateBefore(<<b.year, b.month, DaysOf(b)>>, e)
<1>1. a.year \in Nat /\ b.year \in Nat /\ a.month \in 1..12 /\ b.month \in 1..12
  BY DEF Month
<1>2. /\ MonthLength(a) \in 28..31 /\ MonthLength(b) \in 28..31
      /\ MonthLength(a) = DaysOf(a) /\ MonthLength(b) = DaysOf(b)
  BY MonthsHaveDays
<1>3. PICK k \in 1..MonthLength(b) : d = <<b.year, b.month, k>>
  BY DEF DatesOf
<1>4. ~DateBefore(d, <<a.year, a.month, 1>>)
  BY <1>1, <1>2, <1>3 DEF DateBefore, Before
<1>5. ASSUME NEW e \in DatesOf(a) PROVE ~DateBefore(<<b.year, b.month, DaysOf(b)>>, e)
  <2>1. PICK l \in 1..MonthLength(a) : e = <<a.year, a.month, l>>
    BY DEF DatesOf
  <2>2. a = b => DaysOf(a) = DaysOf(b)
    OBVIOUS
  <2>. QED  BY <1>1, <1>2, <2>1, <2>2 DEF DateBefore, Before
<1>. QED  BY <1>4, <1>5

\* loaded_date_bounds: from the first to the last of the dates of the loaded
\* months, whenever one of the months is the earliest and one the latest.
THEOREM BoundsEncloseTheMonths ==
    ASSUME NEW sources, NEW months \in SUBSET Month, months = LoadedMonths(sources),
           NEW a \in months, \A c \in months \ {a} : Before(a, c),
           NEW b \in months, \A c \in months \ {b} : Before(c, b)
    PROVE  /\ LoadedDateBounds(sources)[1] \in DatesOf(a)
           /\ LoadedDateBounds(sources)[2] \in DatesOf(b)
           /\ \A c \in months : \A d \in DatesOf(c) :
                 /\ ~DateBefore(d, LoadedDateBounds(sources)[1])
                 /\ ~DateBefore(LoadedDateBounds(sources)[2], d)
<1>1. Earliest(months) = a /\ Latest(months) = b /\ months # {}
  BY EarliestAndLatest
<1>2. /\ LoadedDateBounds(sources)[1] = <<a.year, a.month, 1>>
      /\ LoadedDateBounds(sources)[2] = <<b.year, b.month, DaysOf(b)>>
  BY <1>1 DEF LoadedDateBounds
<1>3. /\ MonthLength(a) \in 28..31 /\ MonthLength(b) \in 28..31
      /\ MonthLength(b) = DaysOf(b)
  BY MonthsHaveDays
<1>4. <<a.year, a.month, 1>> \in DatesOf(a) /\ <<b.year, b.month, DaysOf(b)>> \in DatesOf(b)
  BY <1>3 DEF DatesOf
<1>5. ASSUME NEW c \in months, NEW d \in DatesOf(c)
      PROVE  /\ ~DateBefore(d, <<a.year, a.month, 1>>)
             /\ ~DateBefore(<<b.year, b.month, DaysOf(b)>>, d)
  <2>1. c = a \/ Before(a, c)
    OBVIOUS
  <2>2. c = b \/ Before(c, b)
    OBVIOUS
  <2>. QED  BY <1>4, <2>1, <2>2, DatesOfMonths
<1>. QED  BY <1>2, <1>4, <1>5
=============================================================================
