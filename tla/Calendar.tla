------------------------------ MODULE Calendar ------------------------------
(***************************************************************************)
(* Dates, which three functions compute from a count of days: http_date    *)
(* of http.rs, iso_from_ms of config.rs and iso_from_ms of routes.rs.  The *)
(* calendar itself is counted beside them, one day at a time.              *)
(***************************************************************************)
EXTENDS Integers

CONSTANTS
  FirstDay, FirstDate,   \* a day since the epoch and its date <<year, month, day>>,
  FirstWeekday,          \* the day of its week from Sunday, 0
  Days                   \* bound on the days counted from it

VARIABLES
  day,      \* days since 1970-01-01
  date,     \* the date reached by counting
  weekday   \* and the day of the week

calendarVars == <<day, date, weekday>>


Leap(y) == y % 4 = 0 /\ (y % 100 = 0 => y % 400 = 0)

MonthLength(y, m) ==
  CASE m = 2 -> IF Leap(y) THEN 29 ELSE 28
    [] m \in {4, 6, 9, 11} -> 30
    [] OTHER -> 31

NextDate(d) ==
  IF d[3] < MonthLength(d[1], d[2]) THEN <<d[1], d[2], d[3] + 1>>
  ELSE IF d[2] < 12 THEN <<d[1], d[2] + 1, 1>> ELSE <<d[1] + 1, 1, 1>>

-----------------------------------------------------------------------------
\* Rust's / on integers rounds towards zero, div_euclid towards minus infinity.
Towards0(a, b) == IF a >= 0 THEN a \div b ELSE -((-a) \div b)

\* Plausible bug: the last day of the 400 years gets a year of its own.
YearOfEraShort(doe) == (doe - doe \div 1460 + doe \div 36524) \div 365

\* The year of a day of a 400-year era: March-based.
YearOfEra(doe) == (doe - doe \div 1460 + doe \div 36524 - doe \div 146096) \div 365

\* The date of day doe of era, in years from March to February.
DateOf(era, doe) ==
  LET yoe == YearOfEra(doe)
      doy == doe - (365 * yoe + yoe \div 4 - yoe \div 100)
      mp == (5 * doy + 2) \div 153
      m == IF mp < 10 THEN mp + 3 ELSE mp - 9
      y == yoe + era * 400
  IN  <<IF m <= 2 THEN y + 1 ELSE y, m, doy - (153 * mp + 2) \div 5 + 1>>

\* civil_from_days() of http.rs and of config.rs.
CivilFromDays(days) ==
  LET z == days + 719468
  IN  DateOf(z \div 146097, z % 146097)

\* The same in iso_from_ms() of routes.rs, without div_euclid.
RoutesDate(days) ==
  LET z == days + 719468
      era == Towards0(IF z >= 0 THEN z ELSE z - 146096, 146097)
  IN  DateOf(era, z - era * 146097)

\* http_date(): a clock before the epoch reads as the epoch; the day of the week counts
\* from Sunday, 0.
HttpDate(days) ==
  LET known == IF days < 0 THEN 0 ELSE days
  IN  [date |-> CivilFromDays(known), weekday |-> (known + 4) % 7]

-----------------------------------------------------------------------------
\* The date to count from is that of its day.
ASSUME CalendarAssumption ==
  /\ FirstDay \in Int
  /\ FirstDate = CivilFromDays(FirstDay)
  /\ FirstWeekday = (FirstDay + 4) % 7

CalendarInit == day = FirstDay /\ date = FirstDate /\ weekday = FirstWeekday

NextDay ==
  /\ day < FirstDay + Days
  /\ day' = day + 1
  /\ date' = NextDate(date)
  /\ weekday' = (weekday + 1) % 7

\* http_date() and both iso_from_ms(): on every day of 400 years and more, before the
\* epoch and after it, the three agree with the calendar, and HTTP names the right day
\* of the week.
DatesAreRight ==
  /\ CivilFromDays(day) = date
  /\ RoutesDate(day) = date
  /\ day >= 0 => HttpDate(day) = [date |-> date, weekday |-> weekday]
  /\ day < 0 => HttpDate(day).date = <<1970, 1, 1>>

=============================================================================
