-------------------------------- MODULE Dates ----------------------------------
(******************************************************************************)
(* The dates of cpp-code/date: Gregorian and Julian, which share Date's       *)
(* operators by way of the modified Julian day.  One date object goes through *)
(* any sequence of the operations; a conversion replaces it by the date that  *)
(* the other class constructs from it.                                        *)
(*                                                                            *)
(* The source computes with double.  None of its quotients comes nearer to an *)
(* integer than rounding could carry it, so int(x / 365.25) and the like are  *)
(* divisions of integers here.                                                *)
(******************************************************************************)
EXTENDS Integers, FiniteSets

CONSTANTS
  DaYears,      \* bound: the years a date may lie in
  DaDays,       \* arguments of +=, negative ones for -=
  DaMonths      \* arguments of add_month(n) and add_year(n)

\* The years begin with that of the epoch: the reference count starts there.
ASSUME DaAssumption == 1858 \in DaYears /\ DaYears \subseteq 1858 .. 2558

DaKind == {"gregorian", "julian"}

leap_year(k, y) == y % 4 = 0 /\ (k = "julian" \/ y % 100 # 0 \/ y % 400 = 0)

days_of_month(k, m, y) ==
  CASE m \in {4, 6, 9, 11} -> 30
    [] m = 2 -> IF leap_year(k, y) THEN 29 ELSE 28
    [] m \in {1, 3, 5, 7, 8, 10, 12} -> 31
    [] OTHER -> 0

\* The constructors throw out_of_range for anything else.
is_valid_date(k, x) ==
  /\ x.m \in 1 .. 12
  /\ x.d \in 1 .. days_of_month(k, x.m, x.y)
  /\ k = "gregorian" => x.y \in 1858 .. 2558

\* jd - 2400000.5 as an int: cut towards zero.
ToMjd(jd) == IF jd > 2400000 THEN jd - 2400001 ELSE jd - 2400000

\* The day's number: the years with their leap days, the months from March on, and the day.
mod_julian_day(k, x) ==
  LET y == IF x.m < 3 THEN x.y - 1 ELSE x.y
      m == IF x.m < 3 THEN x.m + 12 ELSE x.m
      g == y + 8000
      j == y + 4800
  IN  ToMjd(IF k = "gregorian"
              THEN g * 365 + g \div 4 - g \div 100 + g \div 400 - 1200820
                     + (m * 153 + 3) \div 5 - 92 + x.d - 1
              ELSE j * 365 + j \div 4 + 30 * (m - 3) + ((m - 3) * 3 + 2) \div 5 + x.d - 32083)

\* Gregorian only: the leap days that the Julian calendar has more.
SkippedLeapDays(z) == LET w == (100 * z - 186721625) \div 3652425 IN 1 + w - (w \div 4)

adjust_date_from_mjd(k, mjd) ==
  LET z == mjd + 2400001
      b == z + (IF k = "gregorian" THEN SkippedLeapDays(z) ELSE 0) + 1524
      c == (100 * b - 12210) \div 36525
      e == (10000 * (b - (1461 * c) \div 4)) \div 306001
      m == IF e < 14 THEN e - 1 ELSE e - 13
  IN  [y |-> IF m > 2 THEN c - 4716 ELSE c - 4715,
       m |-> m,
       d |-> b - (1461 * c) \div 4 - (306001 * e) \div 10000]

monthTableOffset == <<0, 3, 3, 6, 1, 4, 6, 2, 5, 0, 3, 5>>

\* 1 is Monday.
week_day(k, x) ==
  LET century == x.y \div 100
      centuryYear == x.y % 100
      centuryOffset == IF k = "gregorian" THEN ((39 - century) % 4) * 2 ELSE 7 - ((century + 3) % 7)
      yearOffset == ((centuryYear + centuryYear \div 4) % 7)
                      - (IF leap_year(k, x.y) /\ x.m < 3 THEN 1 ELSE 0)
      weekday == (centuryOffset + yearOffset + monthTableOffset[x.m] + (x.d % 7)) % 7
  IN  IF weekday = 0 THEN 7 ELSE weekday

\* += n, and with 1, -1 and -n the operators ++, -- and -=.
add_days(k, x, n) == adjust_date_from_mjd(k, mod_julian_day(k, x) + n)

add_year(k, x, n) ==
  LET y == x.y + n
  IN  [x EXCEPT !.y = y, !.d = IF x.m = 2 /\ x.d = 29 /\ ~leap_year(k, y) THEN 28 ELSE x.d]

\* mutant: the day is kept in any month
step_monthBlind(k, x, moved, days) == moved

\* A month that is too short for the day: thirty days instead.
step_month(k, x, moved, days) ==
  IF x.d > days_of_month(k, moved.m, moved.y) THEN add_days(k, x, days) ELSE moved

next_month(k, x) ==
  step_month(k, x, IF x.m = 12 THEN [x EXCEPT !.m = 1, !.y = @ + 1] ELSE [x EXCEPT !.m = @ + 1], 30)

sub_month(k, x) ==
  step_month(k, x, IF x.m = 1 THEN [x EXCEPT !.m = 12, !.y = @ - 1] ELSE [x EXCEPT !.m = @ - 1], -30)

\* add_month(n): n single steps, backwards for a negative n.
add_month(k, x, n) ==
  LET size == IF n < 0 THEN -n ELSE n
      after[i \in 0 .. size] ==
        IF i = 0 THEN x
        ELSE IF n < 0 THEN sub_month(k, after[i - 1]) ELSE next_month(k, after[i - 1])
  IN  after[size]

--------------------------------------------------------------------------------

VARIABLES
  daKind,     \* the class of the object
  daDate,     \* curr_year, curr_month, curr_day
  daSliced    \* a Julian was assigned to a Gregorian

daVars == <<daKind, daDate, daSliced>>

DaDate == [y : DaYears, m : 1 .. 12, d : 1 .. 31]

DaInit ==
  /\ daKind \in DaKind
  /\ daDate \in {x \in DaDate : is_valid_date(daKind, x)}
  /\ daSliced = FALSE

\* bound: the date stays within the years looked at
Becomes(x) == x.y \in DaYears /\ daDate' = x /\ UNCHANGED <<daKind, daSliced>>

AddDays(n) == Becomes(add_days(daKind, daDate, n))

AddYear(n) == Becomes(add_year(daKind, daDate, n))

AddMonth(n) == Becomes(add_month(daKind, daDate, n))

\* The constructors from a Date, and Date's assignment, which Julian uses too.
Construct ==
  LET k == IF daKind = "julian" THEN "gregorian" ELSE "julian"
      x == adjust_date_from_mjd(k, mod_julian_day(daKind, daDate))
  IN  x.y \in DaYears /\ daKind' = k /\ daDate' = x /\ UNCHANGED daSliced

\* Gregorian's own assignment copies the fields, and a Julian is a Gregorian.
Assign ==
  /\ daKind = "julian" /\ daKind' = "gregorian"
  /\ daSliced' = TRUE /\ UNCHANGED daDate

DaNext ==
  \/ \E n \in DaDays : AddDays(n)
  \/ \E n \in DaMonths : AddYear(n)
  \/ \E n \in DaMonths : AddMonth(n)
  \/ Construct
  \/ Assign

DaSpec == DaInit /\ [][DaNext]_daVars

--------------------------------------------------------------------------------
(* Properties                                                                 *)

\* The reference: the days of the years and of the months before, counted.
DaYearStart(k, y) == 365 * (y - 1858) + Cardinality({z \in 1858 .. y - 1 : leap_year(k, z)})

DaMonthStart(k, m, y) ==
  LET start[i \in 1 .. 12] == IF i = 1 THEN 0 ELSE start[i - 1] + days_of_month(k, i - 1, y)
  IN  start[m]

DaCount(k, x) == DaYearStart(k, x.y) + DaMonthStart(k, x.m, x.y) + x.d

\* Days since the epoch, the 17th of November of 1858, which the Julian calendar calls the 5th.
DaSince(k, x) == DaCount(k, x) - DaCount(k, [y |-> 1858, m |-> 11, d |-> IF k = "julian" THEN 5 ELSE 17])

\* Each variable has its type.
DaTypeOK == daKind \in DaKind /\ daDate \in DaDate /\ daSliced \in BOOLEAN

\* However a date was reached it is one of its calendar: no operation leaves a 29th of February in a
\* common year or a 31st in a short month.
DaValid == ~daSliced => is_valid_date(daKind, daDate)

\* From the epoch on, mod_julian_day counts the days, adjust_date_from_mjd undoes it in both
\* calendars, and week_day moves with it: the epoch was a Wednesday.
DaCounts ==
  LET mjd == mod_julian_day(daKind, daDate)
  IN  ~daSliced /\ DaSince(daKind, daDate) >= 0 =>
        /\ mjd = DaSince(daKind, daDate)
        /\ adjust_date_from_mjd(daKind, mjd) = daDate
        /\ \A k \in DaKind : mod_julian_day(k, adjust_date_from_mjd(k, mjd)) = mjd
        /\ week_day(daKind, daDate) = ((mjd + 2) % 7) + 1

\* Months of up to 28 days never need the thirty days: going forth and back comes to the same date,
\* and twelve months are a year.
DaMonthsUndo ==
  ~daSliced /\ daDate.d <= 28 =>
    /\ \A n \in DaMonths : add_month(daKind, add_month(daKind, daDate, n), -n) = daDate
    /\ add_month(daKind, daDate, 12) = add_year(daKind, daDate, 1)

\* The dates of both calendars are right.
DaSafe == DaTypeOK /\ DaValid /\ DaCounts /\ DaMonthsUndo
================================================================================
