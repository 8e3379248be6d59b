--------------------------- MODULE ProcessProofs ----------------------------
(***************************************************************************)
(* Theorems about the process under the routes: the dates it writes, the   *)
(* settings it starts with, the stored passwords it opens, its connection  *)
(* pool, the server that works on the pool, and the boot that comes before *)
(* it.  For any numbers of threads, clients, connections and processes.    *)
(***************************************************************************)
EXTENDS Server, Boot, Calendar, Passwords, Settings, FiniteSetTheorems, SequenceTheorems, TLAPS

-----------------------------------------------------------------------------
(***************************************************************************)
(* Dates.  The algorithm counts years from March, so that a leap day is    *)
(* the last of its year, in eras of 400 years, which all have as many      *)
(* days.  Each quotient enters the arithmetic as a number between bounds.  *)
(***************************************************************************)

\* The quotients of the date algorithms as numbers between bounds.
LEMMA Quotients ==
  ASSUME NEW n \in Int
  PROVE  /\ n \div 4 \in Int /\ 4 * (n \div 4) <= n /\ n <= 4 * (n \div 4) + 3
         /\ n \div 5 \in Int /\ 5 * (n \div 5) <= n /\ n <= 5 * (n \div 5) + 4
         /\ n \div 100 \in Int /\ 100 * (n \div 100) <= n /\ n <= 100 * (n \div 100) + 99
         /\ n \div 153 \in Int /\ 153 * (n \div 153) <= n /\ n <= 153 * (n \div 153) + 152
         /\ n \div 365 \in Int /\ 365 * (n \div 365) <= n /\ n <= 365 * (n \div 365) + 364
         /\ n \div 1460 \in Int /\ 1460 * (n \div 1460) <= n /\ n <= 1460 * (n \div 1460) + 1459
         /\ n \div 36524 \in Int /\ 36524 * (n \div 36524) <= n
         /\ n <= 36524 * (n \div 36524) + 36523
         /\ n \div 146096 \in Int /\ 146096 * (n \div 146096) <= n
         /\ n <= 146096 * (n \div 146096) + 146095
  OBVIOUS

\* In an era, counted from March, the years that end in a leap day.
LEMMA LeapYears ==
  ASSUME NEW y \in Int, 0 <= y, y <= 399,
         NEW q \in Int, 4 * q <= y, y <= 4 * q + 3,
         NEW h \in Int, 100 * h <= y, y <= 100 * h + 99
  PROVE  Leap(y + 1) <=> y = 399 \/ (y = 4 * q + 3 /\ y # 100 * h + 99)
  BY DEF Leap

\* The first day in the era of its year y, from March, and how many days the year has: it
\* ends with the February of y + 1.
YearStart(y) == 365 * y + y \div 4 - y \div 100

YearDays(y) == IF Leap(y + 1) THEN 366 ELSE 365

\* The year computed for a day of an era is the one that holds it.
LEMMA YearHolds ==
  ASSUME NEW doe \in Int, 0 <= doe, doe <= 146096
  PROVE  LET y == YearOfEra(doe)
         IN  /\ y \in Int /\ 0 <= y /\ y <= 399
             /\ YearStart(y) <= doe /\ doe < YearStart(y) + YearDays(y)
  <1>1. PICK a \in Int : a = doe \div 1460 /\ 1460 * a <= doe /\ doe <= 1460 * a + 1459
    BY Quotients
  <1>2. PICK b \in Int : b = doe \div 36524 /\ 36524 * b <= doe /\ doe <= 36524 * b + 36523
    BY Quotients
  <1>3. PICK c \in Int : c = doe \div 146096 /\ 146096 * c <= doe /\ doe <= 146096 * c + 146095
    BY Quotients
  <1>4. PICK n \in Int : n = doe - a + b - c  OBVIOUS
  <1>5. PICK y \in Int : y = n \div 365 /\ 365 * y <= n /\ n <= 365 * y + 364
    BY Quotients
  <1>6. PICK q \in Int : q = y \div 4 /\ 4 * q <= y /\ y <= 4 * q + 3
    BY Quotients
  <1>7. PICK h \in Int : h = y \div 100 /\ 100 * h <= y /\ y <= 100 * h + 99
    BY Quotients
  <1>8. YearOfEra(doe) = y
    BY <1>1, <1>2, <1>3, <1>4, <1>5 DEF YearOfEra
  <1>9. YearStart(y) = 365 * y + q - h
    BY <1>6, <1>7 DEF YearStart
  <1>10. /\ 1460 * a <= doe /\ doe <= 1460 * a + 1459
         /\ 36524 * b <= doe /\ doe <= 36524 * b + 36523
         /\ 146096 * c <= doe /\ doe <= 146096 * c + 146095
         /\ 365 * y <= doe - a + b - c /\ doe - a + b - c <= 365 * y + 364
    BY <1>1, <1>2, <1>3, <1>4, <1>5
  <1>11. 4 * q <= y /\ y <= 4 * q + 3 /\ 100 * h <= y /\ y <= 100 * h + 99
    BY <1>6, <1>7
  <1>12. 0 <= y /\ y <= 399  BY <1>10
  <1>13. 365 * y + q - h <= doe  BY <1>10, <1>11
  <1>14. doe <= 365 * y + q - h + 365  BY <1>10, <1>11
  <1>15. doe = 365 * y + q - h + 365 => y = 399 \/ (y = 4 * q + 3 /\ y # 100 * h + 99)
    BY <1>10, <1>11
  <1>16. Leap(y + 1) <=> y = 399 \/ (y = 4 * q + 3 /\ y # 100 * h + 99)
    BY <1>11, <1>12 DEF Leap
  <1>17. CASE Leap(y + 1)
    <2>1. doe < 365 * y + q - h + 366  BY <1>14
    <2>2. YearDays(y) = 366  BY <1>17 DEF YearDays
    <2> QED  BY <1>8, <1>9, <1>12, <1>13, <2>1, <2>2
  <1>18. CASE ~Leap(y + 1)
    <2>1. doe # 365 * y + q - h + 365
      <3>1. ~(y = 399 \/ (y = 4 * q + 3 /\ y # 100 * h + 99))  BY ONLY <1>16, <1>18
      <3> QED  BY <1>15, <3>1
    <2>2. doe < 365 * y + q - h + 365  BY <1>14, <2>1
    <2>3. YearDays(y) = 365  BY <1>18 DEF YearDays
    <2> QED  BY <1>8, <1>9, <1>12, <1>13, <2>2, <2>3
  <1> QED  BY <1>17, <1>18

\* Day doy of a year is in month m, which began on day f of the year.
InMonth(m, f, doy) ==
  \/ m = 3 /\ f = 0 /\ 0 <= doy /\ doy <= 30
  \/ m = 4 /\ f = 31 /\ 31 <= doy /\ doy <= 60
  \/ m = 5 /\ f = 61 /\ 61 <= doy /\ doy <= 91
  \/ m = 6 /\ f = 92 /\ 92 <= doy /\ doy <= 121
  \/ m = 7 /\ f = 122 /\ 122 <= doy /\ doy <= 152
  \/ m = 8 /\ f = 153 /\ 153 <= doy /\ doy <= 183
  \/ m = 9 /\ f = 184 /\ 184 <= doy /\ doy <= 213
  \/ m = 10 /\ f = 214 /\ 214 <= doy /\ doy <= 244
  \/ m = 11 /\ f = 245 /\ 245 <= doy /\ doy <= 274
  \/ m = 12 /\ f = 275 /\ 275 <= doy /\ doy <= 305
  \/ m = 1 /\ f = 306 /\ 306 <= doy /\ doy <= 336
  \/ m = 2 /\ f = 337 /\ 337 <= doy /\ doy <= 365

\* The month computed for a day of a year is the row of the table that holds it.
LEMMA MonthTable ==
  ASSUME NEW doy \in Int, 0 <= doy, doy <= 365
  PROVE  \E m \in Int, f \in Int :
           LET n == (5 * doy + 2) \div 153
           IN  /\ f = (153 * n + 2) \div 5
               /\ m = IF n < 10 THEN n + 3 ELSE n - 9
               /\ InMonth(m, f, doy)
  <1>1. PICK w \in Int : w = 5 * doy + 2  OBVIOUS
  <1>2. PICK n \in Int : n = w \div 153 /\ 153 * n <= w /\ w <= 153 * n + 152
    BY Quotients
  <1>3. PICK v \in Int : v = 153 * n + 2  OBVIOUS
  <1>4. PICK f \in Int : f = v \div 5 /\ 5 * f <= v /\ v <= 5 * f + 4
    BY Quotients
  <1>5. /\ 153 * n <= 5 * doy + 2 /\ 5 * doy + 2 <= 153 * n + 152
        /\ 5 * f <= 153 * n + 2 /\ 153 * n + 2 <= 5 * f + 4
    BY <1>1, <1>2, <1>3, <1>4
  <1>6. PICK m \in Int : m = IF n < 10 THEN n + 3 ELSE n - 9  OBVIOUS
  <1>7. \/ n = 0 /\ m = 3 /\ f = 0 /\ 0 <= doy /\ doy <= 30
        \/ n = 1 /\ m = 4 /\ f = 31 /\ 31 <= doy /\ doy <= 60
        \/ n = 2 /\ m = 5 /\ f = 61 /\ 61 <= doy /\ doy <= 91
        \/ n = 3 /\ m = 6 /\ f = 92 /\ 92 <= doy /\ doy <= 121
        \/ n = 4 /\ m = 7 /\ f = 122 /\ 122 <= doy /\ doy <= 152
        \/ n = 5 /\ m = 8 /\ f = 153 /\ 153 <= doy /\ doy <= 183
        \/ n = 6 /\ m = 9 /\ f = 184 /\ 184 <= doy /\ doy <= 213
        \/ n = 7 /\ m = 10 /\ f = 214 /\ 214 <= doy /\ doy <= 244
        \/ n = 8 /\ m = 11 /\ f = 245 /\ 245 <= doy /\ doy <= 274
        \/ n = 9 /\ m = 12 /\ f = 275 /\ 275 <= doy /\ doy <= 305
        \/ n = 10 /\ m = 1 /\ f = 306 /\ 306 <= doy /\ doy <= 336
        \/ n = 11 /\ m = 2 /\ f = 337 /\ 337 <= doy /\ doy <= 365
    BY <1>5, <1>6
  <1>8. n = (5 * doy + 2) \div 153 /\ f = (153 * n + 2) \div 5
    BY <1>1, <1>2, <1>3, <1>4
  <1>9. InMonth(m, f, doy)  BY ONLY <1>7 DEF InMonth
  <1> QED  BY <1>6, <1>8, <1>9

\* Day doy of the year from March that begins in year y of the calendar.
DateIn(y, m, f, doy) == <<IF m <= 2 THEN y + 1 ELSE y, m, doy - f + 1>>

\* The table's months are as long as the calendar's.
LEMMA LengthOfMonth ==
  ASSUME NEW y \in Int, NEW m \in Int, NEW f \in Int, NEW doy \in Int, InMonth(m, f, doy)
  PROVE  \E len \in Int :
           /\ len = MonthLength(IF m <= 2 THEN y + 1 ELSE y, m)
           /\ m \in {4, 6, 9, 11} => len = 30
           /\ m \in {1, 3, 5, 7, 8, 10, 12} => len = 31
           /\ m = 2 => len = YearDays(y) - 337
  <1>1. CASE m = 2 /\ Leap(y + 1)  BY <1>1 DEF MonthLength, YearDays
  <1>2. CASE m = 2 /\ ~Leap(y + 1)  BY <1>2 DEF MonthLength, YearDays
  <1>3. CASE m \in {4, 6, 9, 11}  BY <1>3 DEF MonthLength
  <1>4. CASE m \in {1, 3, 5, 7, 8, 10, 12}  BY <1>4 DEF MonthLength
  <1>5. m = 2 \/ m \in {4, 6, 9, 11} \/ m \in {1, 3, 5, 7, 8, 10, 12}
    BY DEF InMonth
  <1> QED  BY <1>1, <1>2, <1>3, <1>4, <1>5

\* Within a year, the next day is the next date.
LEMMA DayFollows ==
  ASSUME NEW y \in Int, NEW doy \in Int,
         NEW m \in Int, NEW f \in Int, InMonth(m, f, doy),
         NEW n \in Int, NEW g \in Int, InMonth(n, g, doy + 1),
         NEW days \in Int, days = YearDays(y), doy + 1 < days
  PROVE  DateIn(y, n, g, doy + 1) = NextDate(DateIn(y, m, f, doy))
  <1>1. PICK len \in Int :
          /\ len = MonthLength(IF m <= 2 THEN y + 1 ELSE y, m)
          /\ m \in {4, 6, 9, 11} => len = 30
          /\ m \in {1, 3, 5, 7, 8, 10, 12} => len = 31
          /\ m = 2 => len = days - 337
    BY LengthOfMonth
  <1>2. \/ n = m /\ g = f /\ doy - f + 1 < len
        \/ ~(doy - f + 1 < len) /\ doy + 1 - g + 1 = 1 /\ m < 12 /\ n = m + 1 /\ m # 2
        \/ ~(doy - f + 1 < len) /\ doy + 1 - g + 1 = 1 /\ m = 12 /\ n = 1
    BY <1>1 DEF InMonth
  <1> DEFINE now == DateIn(y, m, f, doy)
  <1>3. /\ now[1] = IF m <= 2 THEN y + 1 ELSE y
        /\ now[2] = m /\ now[3] = doy - f + 1
    BY DEF DateIn
  <1>4. CASE n = m /\ g = f /\ doy - f + 1 < len
    BY <1>1, <1>3, <1>4 DEF NextDate, DateIn
  <1>5. CASE ~(doy - f + 1 < len) /\ doy + 1 - g + 1 = 1 /\ m < 12 /\ n = m + 1 /\ m # 2
    BY <1>1, <1>3, <1>5 DEF NextDate, DateIn
  <1>6. CASE ~(doy - f + 1 < len) /\ doy + 1 - g + 1 = 1 /\ m = 12 /\ n = 1
    BY <1>1, <1>3, <1>6 DEF NextDate, DateIn
  <1> QED  BY <1>2, <1>4, <1>5, <1>6

\* The day after the last of a year that began in March is the next 1 March.
LEMMA YearEnds ==
  ASSUME NEW y \in Int, NEW doy \in Int,
         NEW m \in Int, NEW f \in Int, InMonth(m, f, doy),
         NEW days \in Int, days = YearDays(y), doy + 1 = days
  PROVE  DateIn(y + 1, 3, 0, 0) = NextDate(DateIn(y, m, f, doy))
  <1>1. PICK len \in Int :
          /\ len = MonthLength(IF m <= 2 THEN y + 1 ELSE y, m)
          /\ m = 2 => len = days - 337
    BY LengthOfMonth
  <1>2. days \in {365, 366}  BY DEF YearDays
  <1>3. m = 2 /\ ~(doy - f + 1 < len)
    BY <1>1, <1>2 DEF InMonth
  <1> DEFINE now == DateIn(y, m, f, doy)
  <1>4. now[1] = y + 1 /\ now[2] = m /\ now[3] = doy - f + 1
    BY <1>3 DEF DateIn
  <1> QED  BY <1>1, <1>3, <1>4 DEF NextDate, DateIn

\* Day doe of an era is day doy of year y and in month m.
Placed(era, doe, y, m, f, doy, days) ==
  /\ y = YearOfEra(doe) /\ 0 <= y /\ y <= 399
  /\ doy = doe - YearStart(y) /\ 0 <= doy /\ doy < days
  /\ days = YearDays(y) /\ days = YearDays(y + era * 400)
  /\ InMonth(m, f, doy)
  /\ DateOf(era, doe) = DateIn(y + era * 400, m, f, doy)

HasPlace(era, doe) ==
  \E y \in Int, m \in Int, f \in Int, doy \in Int, days \in Int :
    Placed(era, doe, y, m, f, doy, days)

\* Each day of an era has its place: a year, a month and a day.
LEMMA DateByYear ==
  ASSUME NEW era \in Int, NEW doe \in Int, 0 <= doe, doe <= 146096
  PROVE  HasPlace(era, doe)
  <1>1. PICK y \in Int : /\ y = YearOfEra(doe) /\ 0 <= y /\ y <= 399
                         /\ YearStart(y) <= doe /\ doe < YearStart(y) + YearDays(y)
    BY YearHolds
  <1>2. PICK st \in Int : st = YearStart(y)  BY DEF YearStart
  <1>3. PICK days \in Int : days = YearDays(y) /\ days <= 366  BY DEF YearDays
  <1>4. PICK doy \in Int : doy = doe - st  OBVIOUS
  <1>5. 0 <= doy /\ doy < days /\ doy <= 365  BY <1>1, <1>2, <1>3, <1>4
  <1>6. PICK m \in Int, f \in Int :
           LET n == (5 * doy + 2) \div 153
           IN  /\ f = (153 * n + 2) \div 5
               /\ m = IF n < 10 THEN n + 3 ELSE n - 9
               /\ InMonth(m, f, doy)
    BY <1>5, MonthTable
  <1>7. doy = doe - (365 * y + y \div 4 - y \div 100)
    BY <1>2, <1>4 DEF YearStart
  <1>8. DateOf(era, doe) = DateIn(y + era * 400, m, f, doy)
    BY <1>1, <1>6, <1>7 DEF DateOf, DateIn
  <1>9. days = YearDays(y + era * 400)
    <2>1. Leap(y + era * 400 + 1) <=> Leap(y + 1)  BY DEF Leap
    <2> QED  BY <1>3, <2>1 DEF YearDays
  <1>10. Placed(era, doe, y, m, f, doy, days)
    BY <1>1, <1>2, <1>3, <1>4, <1>5, <1>6, <1>8, <1>9 DEF Placed
  <1> QED  BY <1>10 DEF HasPlace

\* The next day of an era is in the same year or the first of the next.
LEMMA YearFollows ==
  ASSUME NEW doe \in Int, 0 <= doe, doe <= 146095
  PROVE  \/ /\ YearOfEra(doe + 1) = YearOfEra(doe)
         \/ /\ YearOfEra(doe + 1) = YearOfEra(doe) + 1
            /\ doe + 1 = YearStart(YearOfEra(doe + 1))
            /\ doe + 1 = YearStart(YearOfEra(doe)) + YearDays(YearOfEra(doe))
  <1>1. PICK y \in Int, st \in Int, days \in Int :
          /\ y = YearOfEra(doe) /\ 0 <= y /\ y <= 399
          /\ st = YearStart(y) /\ days = YearDays(y) /\ st <= doe /\ doe < st + days
    <2>1. PICK y \in Int : /\ y = YearOfEra(doe) /\ 0 <= y /\ y <= 399
                           /\ YearStart(y) <= doe /\ doe < YearStart(y) + YearDays(y)
      BY YearHolds
    <2>2. PICK st \in Int : st = YearStart(y)  BY DEF YearStart
    <2>3. PICK days \in Int : days = YearDays(y)  BY DEF YearDays
    <2> WITNESS y \in Int, st \in Int, days \in Int
    <2> QED  BY <2>1, <2>2, <2>3
  <1>2. PICK y2 \in Int, st2 \in Int, days2 \in Int :
          /\ y2 = YearOfEra(doe + 1) /\ 0 <= y2 /\ y2 <= 399
          /\ st2 = YearStart(y2) /\ days2 = YearDays(y2)
          /\ st2 <= doe + 1 /\ doe + 1 < st2 + days2
    <2>0. PICK e \in Int : e = doe + 1 /\ 0 <= e /\ e <= 146096  OBVIOUS
    <2>1. PICK y2 \in Int : /\ y2 = YearOfEra(e) /\ 0 <= y2 /\ y2 <= 399
                            /\ YearStart(y2) <= e /\ e < YearStart(y2) + YearDays(y2)
      BY <2>0, YearHolds
    <2>2. PICK st2 \in Int : st2 = YearStart(y2)  BY DEF YearStart
    <2>3. PICK days2 \in Int : days2 = YearDays(y2)  BY DEF YearDays
    <2> WITNESS y2 \in Int, st2 \in Int, days2 \in Int
    <2> QED  BY <2>0, <2>1, <2>2, <2>3
  <1>3. PICK q \in Int : q = y \div 4 /\ 4 * q <= y /\ y <= 4 * q + 3  BY Quotients
  <1>4. PICK h \in Int : h = y \div 100 /\ 100 * h <= y /\ y <= 100 * h + 99  BY Quotients
  <1>5. PICK q2 \in Int : q2 = y2 \div 4 /\ 4 * q2 <= y2 /\ y2 <= 4 * q2 + 3  BY Quotients
  <1>6. PICK h2 \in Int : h2 = y2 \div 100 /\ 100 * h2 <= y2 /\ y2 <= 100 * h2 + 99  BY Quotients
  <1>7. st = 365 * y + q - h /\ st2 = 365 * y2 + q2 - h2
    BY <1>1, <1>2, <1>3, <1>4, <1>5, <1>6 DEF YearStart
  <1>8. /\ 4 * q <= y /\ y <= 4 * q + 3 /\ 100 * h <= y /\ y <= 100 * h + 99
         /\ 4 * q2 <= y2 /\ y2 <= 4 * q2 + 3 /\ 100 * h2 <= y2 /\ y2 <= 100 * h2 + 99
         /\ 0 <= y /\ y <= 399 /\ 0 <= y2 /\ y2 <= 399
         /\ st <= doe /\ doe < st + days /\ st2 <= doe + 1 /\ doe + 1 < st2 + days2
    BY <1>1, <1>2, <1>3, <1>4, <1>5, <1>6
  <1>9. \/ days = 366 /\ (y = 399 \/ (y = 4 * q + 3 /\ y # 100 * h + 99))
        \/ days = 365 /\ ~(y = 399 \/ (y = 4 * q + 3 /\ y # 100 * h + 99))
    <2>1. Leap(y + 1) <=> y = 399 \/ (y = 4 * q + 3 /\ y # 100 * h + 99)
      BY <1>8 DEF Leap
    <2>2. CASE Leap(y + 1)  BY <1>1, <2>1, <2>2 DEF YearDays
    <2>3. CASE ~Leap(y + 1)  BY <1>1, <2>1, <2>3 DEF YearDays
    <2> QED  BY <2>2, <2>3
  <1>10. \/ days2 = 366 /\ (y2 = 399 \/ (y2 = 4 * q2 + 3 /\ y2 # 100 * h2 + 99))
         \/ days2 = 365 /\ ~(y2 = 399 \/ (y2 = 4 * q2 + 3 /\ y2 # 100 * h2 + 99))
    <2>1. Leap(y2 + 1) <=> y2 = 399 \/ (y2 = 4 * q2 + 3 /\ y2 # 100 * h2 + 99)
      BY <1>8 DEF Leap
    <2>2. CASE Leap(y2 + 1)  BY <1>2, <2>1, <2>2 DEF YearDays
    <2>3. CASE ~Leap(y2 + 1)  BY <1>2, <2>1, <2>3 DEF YearDays
    <2> QED  BY <2>2, <2>3
  <1>11. y2 = y \/ (y2 = y + 1 /\ doe + 1 = st2 /\ doe + 1 = st + days)
    BY <1>7, <1>8, <1>9, <1>10
  <1> QED  BY <1>1, <1>2, <1>11

\* Within an era, the next day is the next date.
LEMMA DayOfEraFollows ==
  ASSUME NEW era \in Int, NEW doe \in Int, 0 <= doe, doe <= 146095
  PROVE  DateOf(era, doe + 1) = NextDate(DateOf(era, doe))
  <1>1. PICK y \in Int, m \in Int, f \in Int, doy \in Int, days \in Int :
          Placed(era, doe, y, m, f, doy, days)
    <2>1. doe <= 146096  OBVIOUS
    <2>2. HasPlace(era, doe)  BY <2>1, DateByYear
    <2> QED  BY ONLY <2>2 DEF HasPlace
  <1>2. PICK e \in Int : e = doe + 1 /\ 0 <= e /\ e <= 146096  OBVIOUS
  <1>3. PICK y2 \in Int, n \in Int, g \in Int, doy2 \in Int, days2 \in Int :
          Placed(era, e, y2, n, g, doy2, days2)
    <2>1. HasPlace(era, e)  BY <1>2, DateByYear
    <2> QED  BY ONLY <2>1 DEF HasPlace
  <1>4. PICK c \in Int : c = y + era * 400  OBVIOUS
  <1>5. \/ y2 = y
        \/ y2 = y + 1 /\ e = YearStart(y2) /\ e = YearStart(y) + days
    <2>1. \/ YearOfEra(doe + 1) = YearOfEra(doe)
          \/ /\ YearOfEra(doe + 1) = YearOfEra(doe) + 1
             /\ doe + 1 = YearStart(YearOfEra(doe + 1))
             /\ doe + 1 = YearStart(YearOfEra(doe)) + YearDays(YearOfEra(doe))
      BY YearFollows
    <2>2. y = YearOfEra(doe) /\ days = YearDays(y) /\ y2 = YearOfEra(e)
      BY <1>1, <1>3 DEF Placed
    <2> QED  BY <1>2, <2>1, <2>2
  <1>6. DateOf(era, doe) = DateIn(c, m, f, doy) /\ InMonth(m, f, doy) /\ days = YearDays(c)
    BY <1>1, <1>4 DEF Placed
  <1>7. CASE y2 = y
    <2>1. doy2 = doy + 1 /\ doy + 1 < days
      <3>1. PICK st \in Int : st = YearStart(y)  BY DEF YearStart
      <3>2. doy = doe - st /\ doy2 = e - st /\ doy2 < days2 /\ days2 = days
        BY <1>1, <1>3, <1>7, <3>1 DEF Placed
      <3> QED  BY <1>2, <3>2
    <2>2. InMonth(n, g, doy + 1) /\ DateOf(era, e) = DateIn(c, n, g, doy + 1)
      BY <1>3, <1>4, <1>7, <2>1 DEF Placed
    <2>3. DateIn(c, n, g, doy + 1) = NextDate(DateIn(c, m, f, doy))
      BY <1>6, <2>1, <2>2, DayFollows
    <2> QED  BY <1>2, <1>6, <2>2, <2>3
  <1>8. CASE y2 = y + 1 /\ e = YearStart(y2) /\ e = YearStart(y) + days
    <2>1. doy2 = 0 /\ doy + 1 = days
      <3>1. PICK st \in Int : st = YearStart(y)  BY DEF YearStart
      <3>2. doy = doe - st /\ doy2 = e - e /\ e = st + days
        BY <1>1, <1>3, <1>8, <3>1 DEF Placed
      <3> QED  BY <1>2, <3>2
    <2>2. InMonth(n, g, 0) /\ DateOf(era, e) = DateIn(c + 1, n, g, 0)
      <3>1. y2 + era * 400 = c + 1  BY <1>4, <1>8
      <3> QED  BY <1>3, <2>1, <3>1 DEF Placed
    <2>3. n = 3 /\ g = 0  BY <2>2 DEF InMonth
    <2>4. DateIn(c + 1, 3, 0, 0) = NextDate(DateIn(c, m, f, doy))
      BY <1>6, <2>1, YearEnds
    <2> QED  BY <1>2, <1>6, <2>2, <2>3, <2>4
  <1> QED  BY <1>5, <1>7, <1>8

\* An era ends on the 29th of February of a leap year.
LEMMA EraFollows ==
  ASSUME NEW era \in Int
  PROVE  DateOf(era + 1, 0) = NextDate(DateOf(era, 146096))
  <1>1. DateOf(era, 146096) = <<era * 400 + 400, 2, 29>>
    <2>1. YearOfEra(146096) = 399  BY DEF YearOfEra
    <2> QED  BY <2>1 DEF DateOf
  <1>2. DateOf(era + 1, 0) = <<(era + 1) * 400, 3, 1>>
    <2>1. YearOfEra(0) = 0  BY DEF YearOfEra
    <2> QED  BY <2>1 DEF DateOf
  <1>3. Leap(era * 400 + 400)  BY DEF Leap
  <1>4. MonthLength(era * 400 + 400, 2) = 29  BY <1>3 DEF MonthLength
  <1> QED  BY <1>1, <1>2, <1>4 DEF NextDate

\* Each day number is a whole number of eras and a day of one.
LEMMA ErasAndDays ==
  ASSUME NEW z \in Int
  PROVE  \E a \in Int, i \in Int :
           /\ a = z \div 146097 /\ i = z % 146097
           /\ z = 146097 * a + i /\ 0 <= i /\ i <= 146096
  <1>1. PICK a \in Int : a = z \div 146097 /\ 146097 * a <= z /\ z <= 146097 * a + 146096
    OBVIOUS
  <1>2. PICK i \in Int : z = 146097 * a + i  OBVIOUS
  <1>3. 0 <= i /\ i <= 146096  BY <1>1, <1>2
  <1>4. z % 146097 = i  BY <1>2, <1>3
  <1> QED  BY <1>1, <1>2, <1>3, <1>4

\* civil_from_days() gives the day after the day before.
LEMMA EveryDayFollows ==
  ASSUME NEW n \in Int
  PROVE  CivilFromDays(n + 1) = NextDate(CivilFromDays(n))
  <1>1. PICK z \in Int : z = n + 719468  OBVIOUS
  <1>2. PICK w \in Int : w = z + 1  OBVIOUS
  <1>3. PICK a \in Int, i \in Int :
          /\ a = z \div 146097 /\ i = z % 146097
          /\ z = 146097 * a + i /\ 0 <= i /\ i <= 146096
    BY ErasAndDays
  <1>4. PICK b \in Int, j \in Int :
          /\ b = w \div 146097 /\ j = w % 146097
          /\ w = 146097 * b + j /\ 0 <= j /\ j <= 146096
    BY ErasAndDays
  <1>5. \/ b = a /\ j = i + 1 /\ i <= 146095
        \/ b = a + 1 /\ j = 0 /\ i = 146096
    BY <1>2, <1>3, <1>4
  <1>6. CivilFromDays(n) = DateOf(a, i)  BY <1>1, <1>3 DEF CivilFromDays
  <1>7. CivilFromDays(n + 1) = DateOf(b, j)
    <2>1. n + 1 + 719468 = w  BY <1>1, <1>2
    <2> QED  BY <1>4, <2>1 DEF CivilFromDays
  <1>8. DateOf(b, j) = NextDate(DateOf(a, i))
    BY <1>3, <1>5, DayOfEraFollows, EraFollows
  <1> QED  BY <1>6, <1>7, <1>8

\* The date algorithm of routes.rs and the one of Calendar give the same date.
LEMMA RoutesAgree ==
  ASSUME NEW n \in Int
  PROVE  RoutesDate(n) = CivilFromDays(n)
  <1>1. PICK z \in Int : z = n + 719468  OBVIOUS
  <1>2. PICK a \in Int, i \in Int :
          /\ a = z \div 146097 /\ i = z % 146097
          /\ z = 146097 * a + i /\ 0 <= i /\ i <= 146096
    BY ErasAndDays
  <1>3. Towards0(IF z >= 0 THEN z ELSE z - 146096, 146097) = a
    <2>1. CASE z >= 0  BY <1>2, <2>1 DEF Towards0
    <2>2. CASE z < 0
      <3>1. PICK v \in Int : v = -(z - 146096)  OBVIOUS
      <3>2. v \div 146097 = -a  BY <1>2, <2>2, <3>1
      <3>3. z - 146096 < 0  BY <2>2
      <3> QED  BY <1>2, <2>2, <3>1, <3>2, <3>3 DEF Towards0
    <2> QED  BY <2>1, <2>2
  <1>4. z - a * 146097 = i  BY <1>2
  <1>5. CivilFromDays(n) = DateOf(a, i)  BY <1>1, <1>2 DEF CivilFromDays
  <1>6. RoutesDate(n) = DateOf(a, i)  BY <1>1, <1>3, <1>4 DEF RoutesDate
  <1> QED  BY <1>5, <1>6

\* The counted date is the computed one, and the weekday that of the day.
CalendarInv ==
  /\ day \in Int
  /\ date = CivilFromDays(day)
  /\ weekday = (day + 4) % 7

\* The epoch was the first of January 1970.
LEMMA Epoch == CivilFromDays(0) = <<1970, 1, 1>>
  <1>1. 719468 \div 146097 = 4 /\ 719468 % 146097 = 135080  OBVIOUS
  <1>2. YearOfEra(135080) = 369  BY DEF YearOfEra
  <1>3. DateOf(4, 135080) = <<1970, 1, 1>>  BY <1>2 DEF DateOf
  <1> QED  BY <1>1, <1>3 DEF CivilFromDays

\* civil_from_days() and the copy of it in routes.rs: right on the epoch, and after every day,
\* however far from it, they give the day the calendar gives.
THEOREM DaysFollow ==
  /\ CivilFromDays(0) = <<1970, 1, 1>>
  /\ \A n \in Int : /\ CivilFromDays(n + 1) = NextDate(CivilFromDays(n))
                    /\ RoutesDate(n) = CivilFromDays(n)
  BY Epoch, EveryDayFollows, RoutesAgree

\* http_date() and both iso_from_ms(): counted on from a day that is right, they are right
\* on every day, before the epoch or after it.
THEOREM DatesStayRight ==
  CalendarInit /\ [][NextDay]_calendarVars => []DatesAreRight
  <1>1. CalendarInit => CalendarInv
    BY CalendarAssumption DEF CalendarInit, CalendarInv
  <1>2. CalendarInv /\ [NextDay]_calendarVars => CalendarInv'
    <2> SUFFICES ASSUME CalendarInv, [NextDay]_calendarVars PROVE CalendarInv'
      OBVIOUS
    <2>1. CASE NextDay
      <3>1. PICK n \in Int : n = day /\ day' = n + 1  BY <2>1 DEF NextDay, CalendarInv
      <3>2. CivilFromDays(n + 1) = NextDate(CivilFromDays(n))  BY EveryDayFollows
      <3>3. date' = CivilFromDays(day')  BY <2>1, <3>1, <3>2 DEF NextDay, CalendarInv
      <3>4. (((n + 4) % 7) + 1) % 7 = ((n + 1) + 4) % 7  OBVIOUS
      <3>5. weekday' = (day' + 4) % 7  BY <2>1, <3>1, <3>4 DEF NextDay, CalendarInv
      <3> QED  BY <3>1, <3>3, <3>5 DEF CalendarInv
    <2>2. CASE UNCHANGED calendarVars
      BY <2>2 DEF calendarVars, CalendarInv
    <2> QED  BY <2>1, <2>2
  <1>3. CalendarInv => DatesAreRight
    <2> SUFFICES ASSUME CalendarInv PROVE DatesAreRight  OBVIOUS
    <2>1. RoutesDate(day) = date /\ CivilFromDays(day) = date
      BY RoutesAgree DEF CalendarInv
    <2>2. CASE day >= 0
      <3>1. HttpDate(day) = [date |-> date, weekday |-> weekday]
        BY <2>1, <2>2 DEF CalendarInv, HttpDate
      <3> QED  BY <2>1, <2>2, <3>1 DEF DatesAreRight, CalendarInv
    <2>3. CASE day < 0
      <3>1. HttpDate(day).date = <<1970, 1, 1>>  BY <2>3, Epoch DEF HttpDate
      <3> QED  BY <2>1, <2>3, <3>1 DEF DatesAreRight, CalendarInv
    <2> QED  BY <2>2, <2>3 DEF CalendarInv
  <1> QED  BY <1>1, <1>2, <1>3, PTL

-----------------------------------------------------------------------------
(***************************************************************************)
(* Settings.  Only StartUp fills the environment, from what it leaves      *)
(* behind in the files; nothing is edited while the process is up.         *)
(***************************************************************************)

SettingsInv ==
  /\ DOMAIN kindOf = Files /\ DOMAIN holds = Files
  /\ \A v \in DOMAIN shell : shell[v] \in {"shell", "short", "example"}
  /\ kindOf["local"] = "regular"
       => \A v \in DOMAIN holds["local"] : holds["local"][v] # "linked"
  /\ SettingsFromTheirPlace

\* The environment has each variable from the first place that defines it.
LEMMA FirstPlaceWins ==
  ASSUME NEW first, NEW second, NEW third, NEW v
  PROVE  LET places == <<first, second, third>>
             env == Extended(Extended(third, second), first)
             defining == {i \in DOMAIN places : v \in DOMAIN places[i]}
         IN  IF defining = {} THEN v \notin DOMAIN env
             ELSE \E i \in defining : /\ \A j \in defining : i <= j
                                      /\ env[v] = places[i][v]
  <1> DEFINE places == <<first, second, third>>
             inner == Extended(third, second)
             env == Extended(inner, first)
             defining == {i \in 1 .. 3 : v \in DOMAIN places[i]}
  <1>1. /\ DOMAIN inner = DOMAIN third \cup DOMAIN second
        /\ v \in DOMAIN inner => inner[v] = IF v \in DOMAIN second THEN second[v] ELSE third[v]
    BY DEF Extended
  <1>2. /\ DOMAIN env = DOMAIN inner \cup DOMAIN first
        /\ v \in DOMAIN env => env[v] = IF v \in DOMAIN first THEN first[v] ELSE inner[v]
    <2> HIDE DEF inner
    <2> QED  BY DEF Extended
  <1>3. places[1] = first /\ places[2] = second /\ places[3] = third /\ DOMAIN places = 1 .. 3
    OBVIOUS
  <1> HIDE DEF places, inner, env
  <1>4. /\ 1 \in defining <=> v \in DOMAIN first
        /\ 2 \in defining <=> v \in DOMAIN second
        /\ 3 \in defining <=> v \in DOMAIN third
        /\ defining \subseteq 1 .. 3
    BY <1>3
  <1> HIDE DEF defining
  <1>5. CASE v \in DOMAIN first
    <2>1. 1 \in defining /\ (\A j \in defining : 1 <= j) /\ env[v] = places[1][v]
      BY <1>2, <1>3, <1>4, <1>5
    <2> QED  BY <2>1, <1>3 DEF defining, places, env, inner
  <1>6. CASE v \notin DOMAIN first /\ v \in DOMAIN second
    <2>1. 2 \in defining /\ (\A j \in defining : 2 <= j) /\ env[v] = places[2][v]
      BY <1>1, <1>2, <1>3, <1>4, <1>6
    <2> QED  BY <2>1, <1>3 DEF defining, places, env, inner
  <1>7. CASE v \notin DOMAIN first /\ v \notin DOMAIN second /\ v \in DOMAIN third
    <2>1. 3 \in defining /\ (\A j \in defining : 3 <= j) /\ env[v] = places[3][v]
      BY <1>1, <1>2, <1>3, <1>4, <1>7
    <2> QED  BY <2>1, <1>3 DEF defining, places, env, inner
  <1>8. CASE v \notin DOMAIN first /\ v \notin DOMAIN second /\ v \notin DOMAIN third
    <2>1. defining = {} /\ v \notin DOMAIN env
      BY <1>1, <1>2, <1>4, <1>8
    <2> QED  BY <2>1, <1>3 DEF defining, places, env, inner
  <1> QED  BY <1>5, <1>6, <1>7, <1>8

\* A start takes each setting from the first place that defines it, whatever fails.
LEMMA StartUpReads ==
  ASSUME SettingsInv, StartUp
  PROVE  SettingsInv'
  <1>0. DOMAIN kindOf = Files /\ DOMAIN holds = Files /\ shell' = shell
    BY DEF SettingsInv, StartUp
  <1>1. \A v \in DOMAIN shell : shell[v] \in {"shell", "short", "example"}
    BY DEF SettingsInv
  <1>2. process' = "up" /\ IsProd(environment') => SecretAccepted(environment')
    BY DEF StartUp
  <1>3. config' = "templated" /\ Referenced \in DOMAIN environment'
          => database' = environment'[Referenced]
    BY DEF StartUp, Database, Resolved
  <1>4. CASE IsProd(shell)
    <2>1. environment' = shell /\ kindOf' = kindOf /\ holds' = holds
      BY <1>4 DEF StartUp, LoadLocalEnv
    <2>2. Sources' = <<shell>> /\ IsProd(shell')
      BY <1>0, <1>4 DEF Sources, IsProd
    <2>3. ASSUME NEW v \in Variables
          PROVE  LET defining == {i \in DOMAIN Sources' : v \in DOMAIN Sources'[i]}
                 IN  IF defining = {} THEN v \notin DOMAIN environment'
                     ELSE \E i \in defining : /\ \A j \in defining : i <= j
                                              /\ environment'[v] = Sources'[i][v]
      <3>1. DOMAIN <<shell>> = {1} /\ <<shell>>[1] = shell  OBVIOUS
      <3> QED  BY <2>1, <2>2, <3>1
    <2> QED
      BY <1>0, <1>1, <1>2, <1>3, <2>1, <2>2, <2>3
      DEF SettingsInv, SettingsFromTheirPlace, SecretAccepted
  <1>5. CASE ~IsProd(shell)
    <2>1. PICK file \in EnvFiles :
            /\ ~file.ready => "env" \in unread'
            /\ kindOf' = [kindOf EXCEPT !["env"] = file.kind]
            /\ holds' = [holds EXCEPT !["env"] = file.definitions]
            /\ environment' =
                 LoadOver(Extended(Parsed(file.kind, file.definitions, "env" \notin unread'),
                                   Parsed(kindOf["local"], holds["local"],
                                          "local" \notin unread')))
      BY <1>5 DEF StartUp, LoadLocalEnv
    <2>2. /\ DOMAIN kindOf' = Files /\ DOMAIN holds' = Files
          /\ kindOf'["local"] = kindOf["local"] /\ holds'["local"] = holds["local"]
          /\ kindOf'["env"] = file.kind /\ holds'["env"] = file.definitions
      BY <1>0, <2>1 DEF Files
    <2> DEFINE local == Parsed(kindOf'["local"], holds'["local"], "local" \notin unread')
               env == Parsed(kindOf'["env"], holds'["env"], "env" \notin unread')
    <2>3. environment' = Extended(Extended(env, local), shell)
      BY <2>1, <2>2 DEF LoadOver
    <2>4. Sources' = <<shell, local, env>>
      BY <1>0, <1>5 DEF Sources, IsProd
    <2>5. ASSUME NEW v \in Variables
          PROVE  LET defining == {i \in DOMAIN Sources' : v \in DOMAIN Sources'[i]}
                 IN  IF defining = {} THEN v \notin DOMAIN environment'
                     ELSE \E i \in defining : /\ \A j \in defining : i <= j
                                              /\ environment'[v] = Sources'[i][v]
      <3> HIDE DEF local, env
      <3> QED  BY <2>3, <2>4, FirstPlaceWins
    <2>6. kindOf'["env"] = "link" => "env" \in unread'
      <3>1. file.ready => file.kind = "regular"
        BY DEF EnvFiles, EnvFile
      <3> QED  BY <2>1, <2>2, <3>1
    <2>7. ASSUME NEW v \in DOMAIN environment', environment'[v] = "linked"
          PROVE  /\ kindOf'["env"] = "regular" /\ v \in DOMAIN holds'["env"]
                 /\ holds'["env"][v] = "linked"
      <3>1. /\ kindOf["local"] = "regular" =>
                 \A u \in DOMAIN holds["local"] : holds["local"][u] # "linked"
            /\ DOMAIN None = {}
        BY DEF SettingsInv, None
      <3>2. v \in DOMAIN shell => environment'[v] # "linked"
        <4>1. v \in DOMAIN shell => environment'[v] = shell[v]
          BY <2>3 DEF Extended
        <4> QED  BY <1>1, <4>1
      <3>3. v \in DOMAIN local => local[v] # "linked"
        BY <2>2, <3>1 DEF Parsed
      <3> HIDE DEF local, env
      <3>4. v \in DOMAIN env /\ env[v] = "linked"
        BY <2>3, <2>7, <3>2, <3>3 DEF Extended
      <3> QED  BY <3>1, <3>4 DEF env, Parsed
    <2>8. shell' = shell /\ (kindOf'["local"] = "regular" =>
            \A v \in DOMAIN holds'["local"] : holds'["local"][v] # "linked")
      BY <1>0, <2>2 DEF SettingsInv
    <2> QED
      BY <1>0, <1>1, <1>2, <1>3, <2>2, <2>5, <2>6, <2>7, <2>8
      DEF SettingsInv, SettingsFromTheirPlace, SecretAccepted
  <1> QED  BY <1>4, <1>5

\* load_local_env(), load_config() and check_prod_jwt_secret(), for any variables, any
\* edits between the starts, and any failure to read, link or write a file: each setting is
\* from the first place that defines it.
THEOREM SettingsAreRight ==
  SettingsInit /\ [][SettingsNext]_settingsVars => []SettingsFromTheirPlace
  <1>1. SettingsInit => SettingsInv
    BY DEF SettingsInit, SettingsInv, SettingsFromTheirPlace, None, Files
  <1>2. SettingsInv /\ [SettingsNext]_settingsVars => SettingsInv'
    <2> SUFFICES ASSUME SettingsInv, [SettingsNext]_settingsVars PROVE SettingsInv'
      OBVIOUS
    <2>1. ASSUME NEW f \in Files, NEW how \in {"regular", "link", "absent"}, EditFile(f, how)
          PROVE  SettingsInv'
      <3>1. PICK S \in SUBSET Variables :
              holds' = [holds EXCEPT ![f] = CASE how = "regular" -> Written(S, f)
                                              [] how = "link" -> Written(Variables, "linked")
                                              [] OTHER -> None]
        BY <2>1 DEF EditFile
      <3>2. /\ kindOf' = [kindOf EXCEPT ![f] = how] /\ process' = "down" /\ shell' = shell
            /\ DOMAIN kindOf = Files /\ DOMAIN holds = Files
        BY <2>1 DEF EditFile, Edit, SettingsInv
      <3>3. ASSUME kindOf'["local"] = "regular", NEW v \in DOMAIN holds'["local"]
            PROVE  holds'["local"][v] # "linked"
        <4>1. CASE f = "local"
          <5>1. holds'["local"] = Written(S, "local")
            BY <3>1, <3>2, <3>3, <4>1
          <5> QED  BY <3>3, <5>1 DEF Written
        <4>2. CASE f # "local"
          BY <3>1, <3>2, <3>3, <4>2 DEF SettingsInv, Files
        <4> QED  BY <4>1, <4>2
      <3>4. DOMAIN kindOf' = Files /\ DOMAIN holds' = Files
        BY <3>1, <3>2
      <3> QED  BY <3>2, <3>3, <3>4 DEF SettingsInv, SettingsFromTheirPlace
    <2>2. CASE EditShell
      <3>1. PICK S \in SUBSET Variables, production \in SUBSET Modes,
                 value \in {"shell", "short", "example"} :
              shell' = [v \in S |-> IF v = Secret THEN value
                                    ELSE IF v \in Modes \ production THEN "short"
                                    ELSE "shell"]
        BY <2>2 DEF EditShell
      <3>2. \A v \in DOMAIN shell' : shell'[v] \in {"shell", "short", "example"}
        BY <3>1
      <3> QED  BY <2>2, <3>2 DEF EditShell, Edit, SettingsInv, SettingsFromTheirPlace
    <2>3. CASE EditConfig
      BY <2>3 DEF EditConfig, Edit, SettingsInv, SettingsFromTheirPlace
    <2>4. CASE StartUp  BY <2>4, StartUpReads
    <2>5. CASE Stop
      BY <2>5 DEF Stop, SettingsInv, SettingsFromTheirPlace
    <2>6. CASE UNCHANGED settingsVars
      <3>1. Sources' = Sources /\ IsProd(shell)' = IsProd(shell)
              /\ IsProd(environment)' = IsProd(environment)
        BY <2>6 DEF settingsVars, Sources, IsProd, Parsed
      <3> QED  BY <2>6, <3>1 DEF settingsVars, SettingsInv, SettingsFromTheirPlace
    <2> QED  BY <2>1, <2>2, <2>3, <2>4, <2>5, <2>6 DEF SettingsNext
  <1> QED  BY <1>1, <1>2, PTL DEF SettingsInv

-----------------------------------------------------------------------------
(***************************************************************************)
(* Stored passwords.  Whatever form the stored hash has, it is one of the  *)
(* account's own password at a cost within the limits, and each build      *)
(* reads it by the cost it was made with.  A sign-in only migrates what it *)
(* has verified.                                                           *)
(***************************************************************************)

USE PasswordsAssumption

OwnHash(s) ==
  \/ s = <<"bcrypt", Owned>>
  \/ \E salt \in Salts : s = <<"scrypt", salt, Scrypt(Owned, salt, NodeCost)>>
  \/ \E salt \in Salts, cost \in Costs \cup {NodeCost} : s = Hash(Owned, salt, cost)

PasswordsInv ==
  /\ OwnHash(stored)
  /\ current \in [Builds -> Costs \cup {NodeCost}]
  /\ DOMAIN visit = Builds
  /\ \A b \in Builds :
       /\ visit[b].at = "verify" => OwnHash(visit[b].auth)
       /\ visit[b].at = "rehash" => visit[b].typed = Owned

\* Within the limits scrypt has a key, which tells passwords apart.
LEMMA KeysTellApart ==
  ASSUME NEW cost, WithinLimits(cost), NEW salt, NEW p, NEW q
  PROVE  /\ Scrypt(p, salt, cost) # <<>>
         /\ Scrypt(p, salt, cost) = Scrypt(q, salt, cost) <=> p = q
  <1> DEFINE key(w) == <<w, salt, cost>>
  <1>1. cost[3] > 0  BY DEF WithinLimits
  <1>2. \A w : Scrypt(w, salt, cost) = <<key(w)>>
    BY <1>1 DEF WithinLimits, Scrypt
  <1>3. \A w : <<key(w)>> # <<>>
    <2> HIDE DEF key
    <2> QED  OBVIOUS
  <1>4. <<key(p)>> = <<key(q)>> <=> key(p) = key(q)
    <2> HIDE DEF key
    <2> QED  OBVIOUS
  <1>5. key(p) = key(q) <=> p = q  OBVIOUS
  <1> HIDE DEF key
  <1> QED  BY <1>2, <1>3, <1>4, <1>5

\* verify_password() opens an own hash with the own password only, whatever build asks.
LEMMA OwnHashOpens ==
  ASSUME NEW s, OwnHash(s), NEW p, NEW now
  PROVE  Verify(p, s, now) <=> p = Owned
  <1>1. CASE s = <<"bcrypt", Owned>>
    BY <1>1 DEF Verify
  <1>2. ASSUME NEW salt \in Salts, NEW cost, WithinLimits(cost), s[1] = "scrypt",
               ParseScryptHash(s, now)
                 = {[cost |-> cost, salt |-> salt, key |-> Scrypt(Owned, salt, cost)]}
        PROVE  Verify(p, s, now) <=> p = Owned
    <2>1. Verify(p, s, now) <=> LET key == Scrypt(p, salt, cost)
                                IN  key # <<>> /\ Scrypt(Owned, salt, cost) = key
      BY <1>2 DEF Verify
    <2> QED  BY <1>2, <2>1, KeysTellApart
  <1>3. ASSUME NEW salt \in Salts, s = <<"scrypt", salt, Scrypt(Owned, salt, NodeCost)>>
        PROVE  Verify(p, s, now) <=> p = Owned
    <2>1. Len(s) = 3 /\ s[1] = "scrypt" /\ s[2] = salt /\ s[3] = Scrypt(Owned, salt, NodeCost)
      BY <1>3
    <2>2. CostOf(s, now) = NodeCost  BY <2>1 DEF CostOf
    <2>3. ParseScryptHash(s, now)
            = {[cost |-> NodeCost, salt |-> salt, key |-> Scrypt(Owned, salt, NodeCost)]}
      BY <2>1, <2>2 DEF ParseScryptHash
    <2> QED  BY <1>2, <2>1, <2>3
  <1>4. ASSUME NEW salt \in Salts, NEW cost \in Costs \cup {NodeCost}, s = Hash(Owned, salt, cost)
        PROVE  Verify(p, s, now) <=> p = Owned
    <2>1. cost \in Nat \X Nat \X Nat /\ WithinLimits(cost)  OBVIOUS
    <2>2. /\ Len(s) = 6 /\ s[1] = "scrypt" /\ s[2] = cost[1] /\ s[3] = cost[2] /\ s[4] = cost[3]
          /\ s[5] = salt /\ s[6] = Scrypt(Owned, salt, cost)
      BY <1>4 DEF Hash
    <2>3. CostOf(s, now) = cost  BY <2>1, <2>2 DEF CostOf
    <2>4. ParseScryptHash(s, now)
            = {[cost |-> cost, salt |-> salt, key |-> Scrypt(Owned, salt, cost)]}
      BY <2>1, <2>2, <2>3 DEF ParseScryptHash
    <2> QED  BY <1>2, <2>1, <2>2, <2>4
  <1> QED  BY <1>1, <1>3, <1>4 DEF OwnHash

\* Every build, sign-in and rehash keeps the stored forms readable.
LEMMA PasswordsKept == PasswordsInv /\ [PasswordsNext]_passwordVars => PasswordsInv'
  <1> SUFFICES ASSUME PasswordsInv, [PasswordsNext]_passwordVars PROVE PasswordsInv'
    OBVIOUS
  <1> USE DEF PasswordsInv
  <1>1. CASE UNCHANGED passwordVars
    BY <1>1 DEF passwordVars, OwnHash
  <1>2. ASSUME NEW b \in Builds, Release(b) PROVE PasswordsInv'
    BY <1>2 DEF Release, NoVisit, OwnHash
  <1>3. ASSUME NEW b \in Builds, FindAuth(b) PROVE PasswordsInv'
    BY <1>3 DEF FindAuth, OwnHash
  <1>4. ASSUME NEW b \in Builds, Check(b) PROVE PasswordsInv'
    <2>1. CASE Verify(visit[b].typed, visit[b].auth, current[b])
      <3>1. visit[b].typed = Owned  BY <1>4, <2>1, OwnHashOpens DEF Check
      <3> QED  BY <1>4, <3>1 DEF Check, NoVisit, OwnHash
    <2>2. CASE ~Verify(visit[b].typed, visit[b].auth, current[b])
      BY <1>4, <2>2 DEF Check, NoVisit, OwnHash
    <2> QED  BY <2>1, <2>2
  <1>5. ASSUME NEW b \in Builds, Migrate(b) PROVE PasswordsInv'
    <2>1. visit[b].typed = Owned /\ current[b] \in Costs \cup {NodeCost}
      BY <1>5 DEF Migrate
    <2>2. OwnHash(stored')
      BY <1>5, <2>1 DEF Migrate, OwnHash
    <2> QED  BY <1>5, <2>2 DEF Migrate, NoVisit, OwnHash
  <1> QED  BY <1>1, <1>2, <1>3, <1>4, <1>5 DEF PasswordsNext

\* "existing users are migrated [...] rather than locked out", for any number of builds,
\* costs within the limits, releases and overlapping sign-ins.
THEOREM PasswordsStillOpen ==
  PasswordsInit /\ [][PasswordsNext]_passwordVars => []NobodyIsLockedOut
  <1>1. PasswordsInit => PasswordsInv
    <2> SUFFICES ASSUME PasswordsInit PROVE PasswordsInv  OBVIOUS
    <2>1. OwnHash(stored)  BY DEF PasswordsInit, OwnHash
    <2> QED  BY <2>1 DEF PasswordsInit, PasswordsInv, NoVisit
  <1>2. PasswordsInv => NobodyIsLockedOut
    BY OwnHashOpens DEF PasswordsInv, NobodyIsLockedOut
  <1> QED  BY <1>1, <1>2, PasswordsKept, PTL

HIDE PasswordsAssumption

-----------------------------------------------------------------------------
(***************************************************************************)
(* The pool loses no connection, no transaction and no wake-up, through    *)
(* failures and panics, and whenever it is closed.                         *)
(***************************************************************************)

USE PoolAssumption

\* Sets of connections and sets of threads can be counted.
LEMMA CountedIsFinite ==
  /\ \A S \in SUBSET Conns : IsFiniteSet(S) /\ Cardinality(S) \in Nat
  /\ \A S \in SUBSET Threads : IsFiniteSet(S) /\ Cardinality(S) \in Nat
  BY FS_Subset, FS_CardinalityType

\* The initial state: all connections idle, all threads out.
LEMMA PoolInitInv == PoolInit => PoolInv
  <1> SUFFICES ASSUME PoolInit PROVE PoolInv
    OBVIOUS
  <1> USE DEF PoolInit
  <1>1. PoolTypeOK
    BY DEF PoolTypeOK, Steps, Kinds
  <1>2. ConnInv
    BY DEF ConnInv, Holding, InTransaction
  <1>3. TxInv
    BY DEF TxInv, NoStrayTransaction
  <1>4. CloseInv
    BY DEF CloseInv, ClosedIsDrained
  <1>5. NoLostWakeup
    BY DEF NoLostWakeup, Asleep
  <1> QED
    BY <1>1, <1>2, <1>3, <1>4, <1>5 DEF PoolInv

-----------------------------------------------------------------------------
\* Every step keeps the types.
LEMMA TypeStep ==
  ASSUME PoolInv, [PoolNext]_poolVars
  PROVE  PoolTypeOK'
  <1> USE DEF PoolInv, PoolTypeOK, Goto, Steps, Kinds
  <1>1. CASE \E t \in Threads, k \in Kinds : Call(t, k)
    BY <1>1 DEF Call
  <1>2. ASSUME NEW t \in Threads, PoolStep(t) PROVE PoolTypeOK'
    <2>1. at[t] \in Holding => conn[t] \in Conns
      BY DEF ConnInv
    <2>2. CASE Refuse(t) BY <2>2 DEF Refuse
    <2>3. CASE Take(t) BY <2>3 DEF Take
    <2>4. CASE Wait(t) BY <2>4 DEF Wait
    <2>5. CASE Begin(t) BY <2>1, <2>5 DEF Begin, Holding
    <2>6. CASE Body(t) BY <2>6 DEF Body
    <2>7. CASE EndTransaction(t) BY <2>7 DEF EndTransaction
    <2>8. CASE Drop(t) BY <2>1, <2>8 DEF Drop, Holding
    <2>9. CASE NotifyOne(t) BY <2>9 DEF NotifyOne, Asleep
    <2> QED
      BY <1>2, <2>2, <2>3, <2>4, <2>5, <2>6, <2>7, <2>8, <2>9 DEF PoolStep
  <1>3. ASSUME NEW t \in Threads, PoolMishap(t) PROVE PoolTypeOK'
    BY <1>3 DEF PoolMishap, SpuriousWakeup, BeginFails, BodyFails, CommitFails, Failure
  <1>4. CASE CloseAll
    BY <1>4 DEF CloseAll, guardVars
  <1>5. CASE WakeAll
    BY <1>5 DEF WakeAll
  <1>6. CASE UNCHANGED poolVars
    BY <1>6 DEF poolVars
  <1> QED
    BY <1>1, <1>2, <1>3, <1>4, <1>5, <1>6 DEF PoolNext

\* A step that moves threads, but no connection, keeps every connection in place.
LEMMA ConnStays ==
  ASSUME ConnInv, UNCHANGED <<idle, freed, conn>>,
         \A t \in Threads : at'[t] \in Holding <=> at[t] \in Holding
  PROVE  ConnInv'
  BY DEF ConnInv

\* Every step keeps each connection idle, closed, or with one guard.
LEMMA ConnStep ==
  ASSUME PoolInv, [PoolNext]_poolVars
  PROVE  ConnInv'
  <1> USE DEF PoolInv, PoolTypeOK, Goto, Holding, InTransaction
  <1>1. CASE \E t \in Threads, k \in Kinds : Call(t, k)
    BY <1>1, ConnStays DEF Call
  <1>2. ASSUME NEW t \in Threads, PoolStep(t) PROVE ConnInv'
    <2>1. CASE Refuse(t) BY <2>1, ConnStays DEF Refuse
    <2>2. CASE Take(t) BY <2>2 DEF Take, ConnInv
    <2>3. CASE Wait(t) BY <2>3, ConnStays DEF Wait
    <2>4. CASE Begin(t) BY <2>4, ConnStays DEF Begin
    <2>5. CASE Body(t) BY <2>5, ConnStays DEF Body
    <2>6. CASE EndTransaction(t) BY <2>6, ConnStays DEF EndTransaction
    <2>7. CASE Drop(t) BY <2>7 DEF Drop, ConnInv
    <2>8. CASE NotifyOne(t) BY <2>8, ConnStays DEF NotifyOne, Asleep
    <2> QED
      BY <1>2, <2>1, <2>2, <2>3, <2>4, <2>5, <2>6, <2>7, <2>8 DEF PoolStep
  <1>3. ASSUME NEW t \in Threads, PoolMishap(t) PROVE ConnInv'
    BY <1>3, ConnStays
       DEF PoolMishap, SpuriousWakeup, BeginFails, BodyFails, CommitFails
  <1>4. CASE CloseAll
    BY <1>4 DEF CloseAll, guardVars, ConnInv
  <1>5. CASE WakeAll
    BY <1>5, ConnStays DEF WakeAll
  <1>6. CASE UNCHANGED poolVars
    BY <1>6, ConnStays DEF poolVars
  <1> QED
    BY <1>1, <1>2, <1>3, <1>4, <1>5, <1>6 DEF PoolNext

-----------------------------------------------------------------------------
\* Every step keeps transactions inside their threads.
LEMMA TxStep ==
  ASSUME PoolInv, [PoolNext]_poolVars
  PROVE  TxInv'
  <1> USE DEF PoolInv, PoolTypeOK, TxInv, NoStrayTransaction, Goto, InTransaction
  <1>1. CASE \E t \in Threads, k \in Kinds : Call(t, k)
    BY <1>1 DEF Call
  <1>2. ASSUME NEW t \in Threads, PoolStep(t) PROVE TxInv'
    <2>1. CASE Refuse(t) BY <2>1 DEF Refuse
    <2>2. CASE Take(t) BY <2>2 DEF Take, ConnInv, Holding
    <2>3. CASE Wait(t) BY <2>3 DEF Wait
    <2>4. CASE Begin(t) BY <2>4 DEF Begin
    <2>5. CASE Body(t) BY <2>5 DEF Body
    <2>6. CASE EndTransaction(t) BY <2>6 DEF EndTransaction
    <2>7. CASE Drop(t) BY <2>7 DEF Drop
    <2>8. CASE NotifyOne(t) BY <2>8 DEF NotifyOne, Asleep
    <2> QED
      BY <1>2, <2>1, <2>2, <2>3, <2>4, <2>5, <2>6, <2>7, <2>8 DEF PoolStep
  <1>3. ASSUME NEW t \in Threads, PoolMishap(t) PROVE TxInv'
    BY <1>3 DEF PoolMishap, SpuriousWakeup, BeginFails, BodyFails, CommitFails
  <1>4. CASE CloseAll
    BY <1>4 DEF CloseAll, guardVars
  <1>5. CASE WakeAll
    BY <1>5 DEF WakeAll
  <1>6. CASE UNCHANGED poolVars
    BY <1>6 DEF poolVars
  <1> QED
    BY <1>1, <1>2, <1>3, <1>4, <1>5, <1>6 DEF PoolNext

\* Every step keeps a closed pool empty, and its sleepers' last call pending.
LEMMA CloseStep ==
  ASSUME PoolInv, [PoolNext]_poolVars
  PROVE  CloseInv'
  <1> USE DEF PoolInv, PoolTypeOK, CloseInv, ClosedIsDrained, Asleep, Goto
  <1>1. CASE \E t \in Threads, k \in Kinds : Call(t, k)
    BY <1>1 DEF Call
  <1>2. ASSUME NEW t \in Threads, PoolStep(t) PROVE CloseInv'
    <2>1. CASE Wait(t) BY <2>1 DEF Wait
    <2>2. CASE Drop(t) BY <2>2 DEF Drop
    <2>3. CASE NotifyOne(t) BY <2>3 DEF NotifyOne
    <2>4. CASE Refuse(t) \/ Take(t) BY <2>4 DEF Refuse, Take
    <2>5. CASE Begin(t) \/ Body(t) \/ EndTransaction(t)
      BY <2>5 DEF Begin, Body, EndTransaction
    <2> QED
      BY <1>2, <2>1, <2>2, <2>3, <2>4, <2>5 DEF PoolStep
  <1>3. ASSUME NEW t \in Threads, PoolMishap(t) PROVE CloseInv'
    BY <1>3 DEF PoolMishap, SpuriousWakeup, BeginFails, BodyFails, CommitFails
  <1>4. CASE CloseAll
    BY <1>4 DEF CloseAll, guardVars
  <1>5. CASE WakeAll
    BY <1>5 DEF WakeAll
  <1>6. CASE UNCHANGED poolVars
    BY <1>6 DEF poolVars
  <1> QED
    BY <1>1, <1>2, <1>3, <1>4, <1>5, <1>6 DEF PoolNext

-----------------------------------------------------------------------------
\* What NoLostWakeup compares are numbers.
LEMMA NumbersNow ==
  ASSUME PoolTypeOK
  PROVE  /\ IsFiniteSet(idle) /\ Cardinality(idle) \in Nat
         /\ IsFiniteSet(OnTheirWay) /\ Cardinality(OnTheirWay) \in Nat
  BY CountedIsFinite DEF PoolTypeOK, OnTheirWay

\* Idle connections and threads on their way are finitely many after a step, too.
LEMMA NumbersNext ==
  ASSUME PoolTypeOK'
  PROVE  /\ IsFiniteSet(idle') /\ Cardinality(idle') \in Nat
         /\ IsFiniteSet(OnTheirWay') /\ Cardinality(OnTheirWay') \in Nat
  BY CountedIsFinite DEF PoolTypeOK, OnTheirWay

\* A step that makes nobody leave the way, lets nobody fall asleep and returns no
\* connection loses no wake-up.
LEMMA WakeupStays ==
  ASSUME PoolInv, PoolTypeOK', idle' \subseteq idle, OnTheirWay \subseteq OnTheirWay',
         Asleep' # {} => Asleep # {}
  PROVE  NoLostWakeup'
  <1>1. Cardinality(idle') <= Cardinality(idle)
    BY NumbersNow, FS_Subset DEF PoolInv
  <1>2. Cardinality(OnTheirWay) <= Cardinality(OnTheirWay')
    BY NumbersNext, FS_Subset
  <1>3. Asleep # {} => Cardinality(idle) <= Cardinality(OnTheirWay)
    BY DEF PoolInv, NoLostWakeup
  <1> QED
    BY <1>1, <1>2, <1>3, NumbersNow, NumbersNext DEF NoLostWakeup, PoolInv

\* An empty pool loses no wake-up.
LEMMA EmptyPool ==
  ASSUME PoolTypeOK', idle' = {}
  PROVE  NoLostWakeup'
  BY NumbersNext, FS_EmptySet DEF NoLostWakeup

\* Every step that returns a connection puts a thread on its way, and a thread
\* leaves the way only with a connection, or by sending another one.
LEMMA WakeupStep ==
  ASSUME PoolInv, [PoolNext]_poolVars
  PROVE  NoLostWakeup'
  <1>0. PoolTypeOK'
    BY TypeStep
  <1> USE DEF PoolInv, PoolTypeOK, OnTheirWay, Asleep, Goto
  <1>1. CASE \E t \in Threads, k \in Kinds : Call(t, k)
    BY <1>0, <1>1, WakeupStays DEF Call
  <1>2. ASSUME NEW t \in Threads, PoolStep(t) PROVE NoLostWakeup'
    <2>1. CASE Refuse(t)
      BY <1>0, <2>1, EmptyPool DEF Refuse, CloseInv, ClosedIsDrained
    <2>2. CASE Take(t)
      <3>1. PICK c \in idle : idle' = idle \ {c}
        BY <2>2 DEF Take
      <3>2. OnTheirWay' = OnTheirWay \ {t} /\ t \in OnTheirWay /\ Asleep' = Asleep
        BY <2>2 DEF Take
      <3>3. Cardinality(idle') = Cardinality(idle) - 1
        BY <3>1, NumbersNow, FS_RemoveElement
      <3> HIDE DEF OnTheirWay
      <3>4. Cardinality(OnTheirWay') = Cardinality(OnTheirWay) - 1
        BY <3>2, NumbersNow, FS_RemoveElement
      <3> QED
        BY <3>2, <3>3, <3>4, NumbersNow DEF NoLostWakeup
    <2>3. CASE Wait(t)
      BY <1>0, <2>3, EmptyPool DEF Wait
    <2>4. CASE Begin(t) \/ Body(t) \/ EndTransaction(t)
      BY <1>0, <2>4, WakeupStays DEF Begin, Body, EndTransaction
    <2>5. CASE Drop(t)
      <3>1. CASE closed
        BY <1>0, <2>5, <3>1, EmptyPool DEF Drop, CloseInv, ClosedIsDrained
      <3>2. CASE ~closed
        <4>1. idle' = idle \cup {conn[t]} /\ conn[t] \notin idle
          BY <2>5, <3>2 DEF Drop, ConnInv
        <4>2. OnTheirWay' = OnTheirWay \cup {t} /\ t \notin OnTheirWay /\ Asleep' = Asleep
          BY <2>5, <3>2 DEF Drop
        <4>3. Cardinality(idle') = Cardinality(idle) + 1
          BY <4>1, NumbersNow, FS_AddElement
        <4>4. Cardinality(OnTheirWay') = Cardinality(OnTheirWay) + 1
          BY <4>2, NumbersNow, FS_AddElement
        <4> QED
          BY <4>2, <4>3, <4>4, NumbersNow DEF NoLostWakeup
      <3> QED
        BY <3>1, <3>2
    <2>6. CASE NotifyOne(t)
      <3>1. CASE Asleep = {}
        BY <2>6, <3>1 DEF NotifyOne, NoLostWakeup
      <3>2. CASE Asleep # {}
        <4>1. PICK s \in Asleep : at' = [at EXCEPT ![t] = "out", ![s] = "checkout"]
          BY <2>6, <3>2 DEF NotifyOne
        <4>2. t \in OnTheirWay /\ s \notin OnTheirWay \ {t}
          BY <2>6, <4>1 DEF NotifyOne
        <4>3. OnTheirWay' = (OnTheirWay \ {t}) \cup {s}
          BY <2>6, <4>1 DEF NotifyOne
        <4>4. /\ IsFiniteSet(OnTheirWay \ {t})
              /\ Cardinality(OnTheirWay \ {t}) = Cardinality(OnTheirWay) - 1
          BY <4>2, NumbersNow, FS_RemoveElement
        <4> HIDE DEF OnTheirWay
        <4>5. Cardinality(OnTheirWay') = Cardinality(OnTheirWay)
          <5>1. Cardinality((OnTheirWay \ {t}) \cup {s}) = Cardinality(OnTheirWay \ {t}) + 1
            BY <4>2, <4>4, FS_AddElement
          <5>2. Cardinality(OnTheirWay) \in Nat
            BY NumbersNow
          <5> QED
            BY <4>3, <4>4, <5>1, <5>2
        <4>6. idle' = idle
          BY <2>6 DEF NotifyOne
        <4> QED
          BY <3>2, <4>5, <4>6 DEF NoLostWakeup
      <3> QED
        BY <3>1, <3>2
    <2> QED
      BY <1>2, <2>1, <2>2, <2>3, <2>4, <2>5, <2>6 DEF PoolStep
  <1>3. ASSUME NEW t \in Threads, PoolMishap(t) PROVE NoLostWakeup'
    BY <1>0, <1>3, WakeupStays
       DEF PoolMishap, SpuriousWakeup, BeginFails, BodyFails, CommitFails
  <1>4. CASE CloseAll
    BY <1>0, <1>4, EmptyPool DEF CloseAll
  <1>5. CASE WakeAll
    BY <1>0, <1>5, WakeupStays DEF WakeAll
  <1>6. CASE UNCHANGED poolVars
    BY <1>0, <1>6, WakeupStays DEF poolVars
  <1> QED
    BY <1>1, <1>2, <1>3, <1>4, <1>5, <1>6 DEF PoolNext

-----------------------------------------------------------------------------
\* Every step of the pool keeps its invariant.
LEMMA PoolStepInv == PoolInv /\ [PoolNext]_poolVars => PoolInv'
  BY TypeStep, ConnStep, TxStep, CloseStep, WakeupStep DEF PoolInv

\* The pool's invariant, in every state.
LEMMA PoolInvariant == PoolSpec => []PoolInv
  <1> QED
    BY PoolInitInv, PoolStepInv, PTL DEF PoolSpec

\* The pool keeps its types.
THEOREM PoolTypeCorrect == PoolSpec => []PoolTypeOK
  <1>1. PoolInv => PoolTypeOK
    BY DEF PoolInv
  <1> QED
    BY <1>1, PoolInvariant, PTL

\* Checkout and its Drop: at every time each connection is idle, held by exactly one
\* guard, or closed.
THEOREM NoConnectionIsLost == PoolSpec => []EachConnInOnePlace
  <1>1. PoolInv => EachConnInOnePlace
    <2> SUFFICES ASSUME PoolInv, NEW c \in Conns,
                        ~ (c \in idle /\ c \notin freed /\ {t \in Threads : conn[t] = c} = {}),
                        ~ (c \in freed /\ c \notin idle /\ {t \in Threads : conn[t] = c} = {})
                 PROVE  /\ c \notin idle /\ c \notin freed
                        /\ \E t \in Threads : {s \in Threads : conn[s] = c} = {t}
      BY DEF EachConnInOnePlace
    <2>1. c # NoConn
      OBVIOUS
    <2>2. PICK t \in Threads : conn[t] = c
      BY DEF PoolInv, ConnInv
    <2>3. c \notin idle \cup freed
      BY <2>2 DEF PoolInv, ConnInv
    <2>4. \A s \in Threads : conn[s] = c => s = t
      BY <2>1, <2>2 DEF PoolInv, ConnInv
    <2>5. {s \in Threads : conn[s] = c} = {t}
      BY <2>2, <2>4
    <2> QED
      BY <2>3, <2>5
  <1> QED
    BY <1>1, PoolInvariant, PTL

\* transaction(): no connection is returned, lent or closed with a transaction open.
THEOREM NoTransactionIsLost == PoolSpec => []NoStrayTransaction
  <1>1. PoolInv => NoStrayTransaction
    BY DEF PoolInv, TxInv
  <1> QED
    BY <1>1, PoolInvariant, PTL

\* close_all(): a closed pool is empty, and nobody sleeps in it once it has returned.
THEOREM ClosedPoolIsDrained == PoolSpec => []ClosedIsDrained
  <1>1. PoolInv => ClosedIsDrained
    BY DEF PoolInv, CloseInv
  <1> QED
    BY <1>1, PoolInvariant, PTL

\* checkout() and Drop for Checkout: nobody sleeps beside an idle connection unless
\* somebody is on the way to take it or to wake a sleeper.
THEOREM NoWakeupIsLost == PoolSpec => []NoLostWakeup
  <1>1. PoolInv => NoLostWakeup
    BY DEF PoolInv
  <1> QED
    BY <1>1, PoolInvariant, PTL

HIDE PoolAssumption

-----------------------------------------------------------------------------
(***************************************************************************)
(* The server uses its pool as the pool alone allows, its workers leave    *)
(* only after the last queued connection, no request that was read is      *)
(* forgotten, and the pool outlives the handlers unless the grace period   *)
(* runs out.                                                               *)
(***************************************************************************)

USE ServerAssumption

\* The workers can be counted.
LEMMA WorkersAreFinite ==
  /\ IsFiniteSet(Workers)
  /\ Cardinality(Workers) \in Nat
  /\ \A S \in SUBSET Workers : IsFiniteSet(S) /\ Cardinality(S) \in Nat
  BY CountedIsFinite, FS_Subset, FS_CardinalityType

\* The workers that Inner.live should count.
Staying == {w \in Workers : worker[w] # "gone"}

\* The invariant holds when the server has bound its socket.
LEMMA ServerInitInv == ServerInit => ServerInv
  <1> SUFFICES ASSUME ServerInit PROVE ServerInv
    OBVIOUS
  <1> USE DEF ServerInit
  <1>1. ServerTypeOK
    <2>1. <<>> \in Seq(Clients) /\ Len(<<>>) = 0 /\ 0 <= QueueCap
      OBVIOUS
    <2>2. place \in [Clients -> Places] /\ worker \in [Workers -> WorkerSteps]
      BY DEF Places, WorkerSteps
    <2>3. serving \in [Workers -> Clients \cup {NoClient}]
      OBVIOUS
    <2> QED
      BY <2>1, <2>2, <2>3, WorkersAreFinite DEF ServerTypeOK
  <1>2. InHandInv /\ ShutdownInv /\ NoRequestForgotten
    BY DEF InHandInv, ShutdownInv, NoRequestForgotten, PoolInit
  <1>3. WorkersOutliveTraffic
    <2>1. {w \in Workers : worker[w] # "gone"} = Workers
      OBVIOUS
    <2> QED
      BY <2>1 DEF WorkersOutliveTraffic
  <1> QED
    BY <1>1, <1>2, <1>3 DEF ServerInv

-----------------------------------------------------------------------------
\* A worker that leaves is counted out; no other step changes who stays.
LEMMA OneLeaves ==
  ASSUME ServerInv, NEW w \in Workers, worker[w] # "gone",
         worker' = [worker EXCEPT ![w] = "gone"]
  PROVE  /\ Staying' = Staying \ {w}
         /\ Cardinality(Staying') = Cardinality(Staying) - 1
         /\ Cardinality(Staying) \in Nat \ {0}
  <1>1. Staying' = Staying \ {w}
    BY DEF Staying, ServerInv, ServerTypeOK
  <1>2. IsFiniteSet(Staying) /\ Cardinality(Staying) \in Nat
    BY WorkersAreFinite DEF Staying
  <1>3. w \in Staying
    BY DEF Staying
  <1>4. Cardinality(Staying \ {w}) = Cardinality(Staying) - 1
    BY <1>2, <1>3, FS_RemoveElement
  <1>5. Cardinality(Staying) # 0
    BY <1>2, <1>3, FS_EmptySet
  <1> QED
    BY <1>1, <1>2, <1>4, <1>5

\* A step that ends no worker and queues nothing new keeps the workers as long as the traffic.
LEMMA SameStay ==
  ASSUME ServerInv, UNCHANGED live, acceptor' = acceptor, stop' = stop,
         queue' = <<>> \/ queue' = queue \/ acceptor # "gone",
         \A w \in Workers : worker'[w] = "gone" <=> worker[w] = "gone"
  PROVE  WorkersOutliveTraffic'
  <1>1. {w \in Workers : worker'[w] # "gone"} = {w \in Workers : worker[w] # "gone"}
    OBVIOUS
  <1> QED
    BY <1>1 DEF ServerInv, WorkersOutliveTraffic

-----------------------------------------------------------------------------
\* The accept thread.
LEMMA AcceptInv ==
  ASSUME ServerInv, UNCHANGED closed,
         AcceptStep \/ AcceptFails \/ \E c \in Clients : Connect(c)
  PROVE  ServerInv'
  <1> USE DEF ServerInv, connVars, shutdownVars
  <1>1. ASSUME NEW c \in Clients, Connect(c) PROVE ServerInv'
    <2>1. ServerTypeOK'
      BY <1>1 DEF Connect, ServerTypeOK, Places
    <2>2. WorkersOutliveTraffic'
      BY <1>1, SameStay DEF Connect
    <2> QED
      BY <1>1, <2>1, <2>2 DEF Connect, InHandInv, ShutdownInv, NoRequestForgotten
  <1>2. ASSUME NEW c \in Clients, Accept(c) PROVE ServerInv'
    <2>1. ServerTypeOK'
      BY <1>2 DEF Accept, ServerTypeOK, Places
    <2>2. WorkersOutliveTraffic'
      BY <1>2 DEF Accept, WorkersOutliveTraffic
    <2> QED
      BY <1>2, <2>1, <2>2 DEF Accept, InHandInv, ShutdownInv, NoRequestForgotten
  <1>3. CASE AcceptWake \/ AcceptFails
    <2>1. ServerTypeOK'
      BY <1>3 DEF AcceptWake, AcceptFails, Mishap, ServerTypeOK
    <2>2. WorkersOutliveTraffic'
      BY <1>3 DEF AcceptWake, AcceptFails, WorkersOutliveTraffic
    <2> QED
      BY <1>3, <2>1, <2>2
      DEF AcceptWake, AcceptFails, InHandInv, ShutdownInv, NoRequestForgotten
  <1>4. CASE CheckStop
    <2>1. ServerTypeOK'
      BY <1>4 DEF CheckStop, ServerTypeOK, Places
    <2>2. WorkersOutliveTraffic'
      BY <1>4 DEF CheckStop, WorkersOutliveTraffic
    <2> QED
      BY <1>4, <2>1, <2>2 DEF CheckStop, InHandInv, ShutdownInv, NoRequestForgotten
  <1>5. CASE Offer
    <2>1. taken \in Clients
      BY <1>5 DEF Offer, InHandInv, ServerTypeOK
    <2>2. ServerTypeOK'
      <3>1. CASE Len(queue) < QueueCap
        <4>1. /\ Append(queue, taken) \in Seq(Clients)
              /\ Len(Append(queue, taken)) = Len(queue) + 1
              /\ Len(queue) \in Nat
          BY <2>1 DEF ServerTypeOK
        <4>2. queue' \in Seq(Clients) /\ Len(queue') <= QueueCap
          BY <1>5, <3>1, <4>1 DEF Offer
        <4>3. place' \in [Clients -> Places]
          BY <1>5, <2>1, <3>1 DEF Offer, ServerTypeOK, Places
        <4> QED
          BY <1>5, <4>2, <4>3 DEF Offer, ServerTypeOK
      <3>2. CASE ~ (Len(queue) < QueueCap)
        BY <1>5, <2>1, <3>2 DEF Offer, ServerTypeOK, Places
      <3> QED
        BY <3>1, <3>2
    <2>3. WorkersOutliveTraffic'
      BY <1>5 DEF Offer, WorkersOutliveTraffic
    <2> QED
      BY <1>5, <2>2, <2>3 DEF Offer, InHandInv, ShutdownInv, NoRequestForgotten
  <1> QED
    BY <1>1, <1>2, <1>3, <1>4, <1>5 DEF AcceptStep

\* The workers.
LEMMA WorkerInv ==
  ASSUME ServerInv, UNCHANGED closed, NEW w \in Workers,
         WorkerStep(w) \/ ParserPanics(w) \/ WriteFails(w)
  PROVE  ServerInv'
  <1> USE DEF ServerInv, connVars, shutdownVars, At
  <1>1. CASE Receive(w)
    <2>1. queue \in Seq(Clients) /\ queue # <<>>
      BY <1>1 DEF Receive, ServerTypeOK
    <2>2. Head(queue) \in Clients /\ Tail(queue) \in Seq(Clients)
          /\ Len(Tail(queue)) = Len(queue) - 1
      BY <2>1
    <2>3. ServerTypeOK'
      BY <1>1, <2>2 DEF Receive, ServerTypeOK, Places, WorkerSteps
    <2>4. \A v \in Workers : worker[v] # "gone"
      BY <2>1 DEF WorkersOutliveTraffic
    <2>5. \A v \in Workers : worker'[v] # "gone"
      BY <1>1, <2>4 DEF Receive, ServerTypeOK
    <2>6. {v \in Workers : worker'[v] # "gone"} = {v \in Workers : worker[v] # "gone"}
      BY <2>4, <2>5
    <2>7. WorkersOutliveTraffic'
      BY <1>1, <2>5, <2>6 DEF Receive, WorkersOutliveTraffic
    <2>8. InHandInv' /\ NoRequestForgotten'
      BY <1>1, <2>2 DEF Receive, InHandInv, NoRequestForgotten, ServerTypeOK
    <2>9. ShutdownInv'
      BY <1>1, <2>5 DEF Receive, ShutdownInv
    <2> QED
      BY <2>3, <2>7, <2>8, <2>9
  <1>2. CASE Leave(w)
    <2>1. /\ Staying' = Staying \ {w}
          /\ Cardinality(Staying') = Cardinality(Staying) - 1
          /\ Cardinality(Staying) \in Nat \ {0}
      BY <1>2, OneLeaves DEF Leave
    <2>2. live = Cardinality(Staying) /\ live' = live - 1
      BY <1>2 DEF Leave, WorkersOutliveTraffic, Staying
    <2>3. ServerTypeOK'
      BY <1>2, <2>1, <2>2 DEF Leave, ServerTypeOK, WorkerSteps
    <2>4. live' = Cardinality(Staying')
      BY <2>1, <2>2
    <2>5. WorkersOutliveTraffic'
      BY <1>2, <2>4 DEF Leave, WorkersOutliveTraffic, Staying, ShutdownInv
    <2>6. InHandInv' /\ ShutdownInv' /\ NoRequestForgotten'
      BY <1>2 DEF Leave, InHandInv, ShutdownInv, NoRequestForgotten, ServerTypeOK
    <2> QED
      BY <2>3, <2>5, <2>6
  <1>3. CASE ReadRequest(w) \/ NoRequest(w) \/ ParserPanics(w) \/ HandlerEnds(w)
             \/ WriteAnswer(w) \/ WriteFails(w)
    <2> USE DEF ReadRequest, NoRequest, ParserPanics, HandlerEnds, WriteAnswer, WriteFails,
                Drops, Mishap
    <2>1. ServerTypeOK'
      BY <1>3 DEF ServerTypeOK, Places, WorkerSteps, InHandInv
    <2>2. WorkersOutliveTraffic'
      <3>1. \A v \in Workers : worker'[v] = "gone" <=> worker[v] = "gone"
        BY <1>3 DEF ServerTypeOK
      <3> QED
        BY <1>3, <3>1, SameStay
    <2>3. InHandInv'
      BY <1>3 DEF InHandInv, ServerTypeOK
    <2>4. ShutdownInv'
      BY <1>3 DEF ShutdownInv, ServerTypeOK
    <2>5. NoRequestForgotten'
      BY <1>3 DEF NoRequestForgotten, ServerTypeOK
    <2> QED
      BY <2>1, <2>2, <2>3, <2>4, <2>5
  <1> QED
    BY <1>1, <1>2, <1>3 DEF WorkerStep

\* main() after the signal.
LEMMA MainInv ==
  ASSUME ServerInv, UNCHANGED closed,
         Trigger \/ Wake \/ WakeFails \/ AllGone \/ GraceExpires \/ Exit
  PROVE  ServerInv'
  <1> USE DEF ServerInv, connVars, shutdownVars
  <1>1. ServerTypeOK'
    <2> USE DEF ServerTypeOK
    <2>1. CASE Trigger BY <2>1 DEF Trigger
    <2>2. CASE Wake BY <2>2 DEF Wake
    <2>3. CASE WakeFails BY <2>3 DEF WakeFails, Mishap
    <2>4. CASE AllGone BY <2>4 DEF AllGone
    <2>5. CASE GraceExpires BY <2>5 DEF GraceExpires
    <2>6. CASE Exit BY <2>6 DEF Exit
    <2> QED
      BY <2>1, <2>2, <2>3, <2>4, <2>5, <2>6
  <1>2. WorkersOutliveTraffic'
    BY DEF Trigger, Wake, WakeFails, AllGone, GraceExpires, Exit, WorkersOutliveTraffic
  <1>3. InHandInv' /\ NoRequestForgotten'
    BY DEF Trigger, Wake, WakeFails, AllGone, GraceExpires, Exit, InHandInv,
           NoRequestForgotten
  <1>4. CASE AllGone
    <2>1. IsFiniteSet(Staying) /\ Cardinality(Staying) = 0
      BY <1>4, WorkersAreFinite DEF AllGone, WorkersOutliveTraffic, Staying
    <2>2. \A w \in Workers : worker[w] = "gone"
      BY <2>1, FS_EmptySet DEF Staying
    <2>3. ShutdownInv'
      BY <1>4, <2>2 DEF AllGone, ShutdownInv
    <2> QED
      BY <1>1, <1>2, <1>3, <2>3
  <1>5. CASE Trigger \/ Wake \/ WakeFails \/ GraceExpires \/ Exit
    <2>1. ShutdownInv'
      BY <1>5 DEF Trigger, Wake, WakeFails, GraceExpires, Exit, ShutdownInv
    <2> QED
      BY <1>1, <1>2, <1>3, <2>1
  <1> QED
    BY <1>4, <1>5

-----------------------------------------------------------------------------
\* What the server does to the pool is a step of the pool.
LEMMA PoolActivityIsPoolNext == PoolActivity => PoolNext
  BY DEF PoolActivity, PoolNext, HandlerCalls, ClosePool

\* A server's step is a step of its pool or leaves the pool alone.
LEMMA ServerStepIsPoolStep == [ServerNext]_allVars => [PoolNext]_poolVars
  BY PoolActivityIsPoolNext DEF ServerNext, allVars

\* Only close_all() closes the pool, and main() calls it at the end.
LEMMA ActivityCloses ==
  ASSUME PoolActivity
  PROVE  closed' = closed \/ main = "closing"
  <1>1. CASE ClosePool
    BY <1>1 DEF ClosePool
  <1>2. ASSUME NEW t \in Threads, PoolStep(t) \/ PoolMishap(t) PROVE closed' = closed
    BY <1>2
    DEF PoolStep, Refuse, Take, Wait, Begin, Body, EndTransaction, Drop, NotifyOne,
        PoolMishap, SpuriousWakeup, BeginFails, BodyFails, CommitFails
  <1>3. CASE WakeAll
    BY <1>3 DEF WakeAll
  <1>4. ASSUME NEW t \in Threads, NEW k \in Kinds, Call(t, k) PROVE closed' = closed
    BY <1>4 DEF Call
  <1> QED
    BY <1>1, <1>2, <1>3, <1>4 DEF PoolActivity, HandlerCalls

\* Every step of the server keeps its invariant.
LEMMA ServerStepInv == ServerInv /\ [ServerNext]_allVars => ServerInv'
  <1> SUFFICES ASSUME ServerInv, [ServerNext]_allVars PROVE ServerInv'
    OBVIOUS
  <1>1. CASE ServerStep /\ UNCHANGED poolVars
    <2>1. UNCHANGED closed
      BY <1>1 DEF poolVars
    <2> QED
      BY <1>1, <2>1, AcceptInv, WorkerInv, MainInv DEF ServerStep
  <1>2. CASE PoolActivity /\ UNCHANGED serverVars
    <2>1. closed' = closed \/ main = "closing"
      BY <1>2, ActivityCloses
    <2> QED
      BY <1>2, <2>1
      DEF ServerInv, ServerTypeOK, InHandInv, ShutdownInv, WorkersOutliveTraffic,
          NoRequestForgotten, serverVars, connVars, shutdownVars
  <1>3. CASE UNCHANGED allVars
    BY <1>3
    DEF ServerInv, ServerTypeOK, InHandInv, ShutdownInv, WorkersOutliveTraffic,
        NoRequestForgotten, allVars, poolVars, serverVars, connVars, shutdownVars
  <1> QED
    BY <1>1, <1>2, <1>3 DEF ServerNext

\* The server's invariant, in every state.
LEMMA ServerInvariant == ServerSpec => []ServerInv
  <1> QED
    BY ServerInitInv, ServerStepInv, PTL DEF ServerSpec

-----------------------------------------------------------------------------
\* serve(): workers leave only at shutdown and after the last queued connection, and
\* Inner.live counts exactly those that have not left, whatever panics.
THEOREM WorkersStay == ServerSpec => []WorkersOutliveTraffic
  <1>1. ServerInv => WorkersOutliveTraffic
    BY DEF ServerInv
  <1> QED
    BY <1>1, ServerInvariant, PTL

\* handle_connection(): a request that was read stays in the hands of a worker until
\* its answer is written or its client is gone, whatever its handler does.
THEOREM RequestsAreKept == ServerSpec => []NoRequestForgotten
  <1>1. ServerInv => NoRequestForgotten
    BY DEF ServerInv
  <1> QED
    BY <1>1, ServerInvariant, PTL

\* main(): the pool is closed under a running handler only after the grace period.
THEOREM HandlersKeepTheirPool == ServerSpec => []PoolOutlivesHandlers
  <1>1. ServerInv => PoolOutlivesHandlers
    BY DEF ServerInv, ShutdownInv, PoolOutlivesHandlers
  <1> QED
    BY <1>1, ServerInvariant, PTL

\* The server drives the pool only as the pool's own specification allows.
THEOREM ServerImplementsPool == ServerSpec => PoolSpec
  <1>1. ServerInit => PoolInit
    BY DEF ServerInit
  <1> QED
    BY <1>1, ServerStepIsPoolStep, PTL DEF ServerSpec, PoolSpec

\* So it loses neither a connection nor a transaction, even if the pool is closed
\* while handlers run.
THEOREM ServerKeepsConnections ==
  ServerSpec => [](EachConnInOnePlace /\ NoStrayTransaction)
  <1> QED
    BY ServerImplementsPool, NoConnectionIsLost, NoTransactionIsLost, PTL

HIDE ServerAssumption

-----------------------------------------------------------------------------
(***************************************************************************)
(* Who serves has the whole schema, in any earlier state of the file and   *)
(* with any number of processes that boot on it and die between two        *)
(* statements; and boots leave the pool's bookkeeping intact.              *)
(***************************************************************************)

USE BootAssumption

-----------------------------------------------------------------------------
(***************************************************************************)
(* The plan.                                                               *)
(***************************************************************************)

Ops == {"create", "repair", "index"}

Statements(S) == [op : Ops, name : S]

Stated(op, names) == {[op |-> op, name |-> n] : n \in Range(names)}

\* A sequence of names gives a sequence of statements, one for each name.
LEMMA EachIsSeq ==
  ASSUME NEW S, NEW op \in Ops, NEW names \in Seq(S)
  PROVE  /\ Each(op, names) \in Seq(Statements(S))
         /\ Range(Each(op, names)) = Stated(op, names)
  <1>1. Len(names) \in Nat /\ DOMAIN names = 1 .. Len(names) /\ names \in [1 .. Len(names) -> S]
    BY LenProperties
  <1>2. \A i \in 1 .. Len(names) : [op |-> op, name |-> names[i]] \in Statements(S)
    BY <1>1 DEF Statements
  <1>3. Each(op, names) \in [1 .. Len(names) -> Statements(S)]
    BY <1>1, <1>2 DEF Each
  <1>4. Each(op, names) \in Seq(Statements(S))
    BY <1>1, <1>3, SeqDef
  <1>5. /\ DOMAIN Each(op, names) = DOMAIN names
        /\ \A i \in DOMAIN names : Each(op, names)[i] = [op |-> op, name |-> names[i]]
    BY DEF Each
  <1>6. Range(Each(op, names)) = {[op |-> op, name |-> names[i]] : i \in DOMAIN names}
    BY <1>5 DEF Range
  <1>7. Stated(op, names) = {[op |-> op, name |-> names[i]] : i \in DOMAIN names}
    BY DEF Stated, Range
  <1> QED
    BY <1>4, <1>6, <1>7

\* What a concatenation consists of, with the sequence it is stated for.
LEMMA Joined ==
  ASSUME NEW T, NEW s \in Seq(T), NEW t \in Seq(T)
  PROVE  s \o t \in Seq(T) /\ Range(s \o t) = Range(s) \cup Range(t)
  <1>1. s \o t \in Seq(T)
    BY ConcatProperties
  <1>2. Range(s \o t) = Range(s) \cup Range(t)
    BY RangeConcatenation
  <1> QED
    BY <1>1, <1>2

\* The plan is a sequence of statements that creates each table it repairs.
LEMMA PlanIsSeq ==
  /\ Len(Plan) \in Nat /\ DOMAIN Plan = 1 .. Len(Plan)
  /\ \A i \in DOMAIN Plan : Plan[i].op \in Ops
  /\ Names("repair") \subseteq Names("create")
  <1> DEFINE R(s) == {s[i] : i \in DOMAIN s}
             S == R(CoreTables) \cup R(CoreIndexes) \cup R(AppTables) \cup R(AppIndexes)
             T == Statements(S)
             c == Each("create", CoreTables)
             r == Each("repair", CoreTables)
             x == Each("index", CoreIndexes)
             d == Each("create", AppTables)
             y == Each("index", AppIndexes)
  <1>1. CoreTables \in Seq(S)
    <2>1. CoreTables \in Seq(R(CoreTables)) /\ R(CoreTables) \subseteq S
      OBVIOUS
    <2> QED
      BY ONLY <2>1, SeqMonotonic
  <1>2. CoreIndexes \in Seq(S)
    <2>1. CoreIndexes \in Seq(R(CoreIndexes)) /\ R(CoreIndexes) \subseteq S
      OBVIOUS
    <2> QED
      BY ONLY <2>1, SeqMonotonic
  <1>3. AppTables \in Seq(S)
    <2>1. AppTables \in Seq(R(AppTables)) /\ R(AppTables) \subseteq S
      OBVIOUS
    <2> QED
      BY ONLY <2>1, SeqMonotonic
  <1>4. AppIndexes \in Seq(S)
    <2>1. AppIndexes \in Seq(R(AppIndexes)) /\ R(AppIndexes) \subseteq S
      OBVIOUS
    <2> QED
      BY ONLY <2>1, SeqMonotonic
  <1> HIDE DEF S
  <1>5. "create" \in Ops /\ "repair" \in Ops /\ "index" \in Ops
    BY DEF Ops
  <1>6. c \in Seq(T) /\ Range(c) = Stated("create", CoreTables)
    BY ONLY <1>1, <1>5, EachIsSeq
  <1>7. r \in Seq(T) /\ Range(r) = Stated("repair", CoreTables)
    BY ONLY <1>1, <1>5, EachIsSeq
  <1>8. x \in Seq(T) /\ Range(x) = Stated("index", CoreIndexes)
    BY ONLY <1>2, <1>5, EachIsSeq
  <1>9. d \in Seq(T) /\ Range(d) = Stated("create", AppTables)
    BY ONLY <1>3, <1>5, EachIsSeq
  <1>10. y \in Seq(T) /\ Range(y) = Stated("index", AppIndexes)
    BY ONLY <1>4, <1>5, EachIsSeq
  <1>11. Plan = (((c \o r) \o x) \o d) \o y
    BY DEF Plan
  <1> HIDE DEF T, c, r, x, d, y
  <1> DEFINE cr == c \o r
             crx == cr \o x
             crxd == crx \o d
  <1>12. cr \in Seq(T) /\ Range(cr) = Range(c) \cup Range(r)
    BY ONLY <1>6, <1>7, Joined
  <1> HIDE DEF cr
  <1>13. crx \in Seq(T) /\ Range(crx) = Range(cr) \cup Range(x)
    BY ONLY <1>8, <1>12, Joined
  <1> HIDE DEF crx
  <1>14. crxd \in Seq(T) /\ Range(crxd) = Range(crx) \cup Range(d)
    BY ONLY <1>9, <1>13, Joined
  <1>15. /\ crxd \o y \in Seq(T)
         /\ Range(crxd \o y) = Range(crxd) \cup Range(y)
    <2> HIDE DEF crxd
    <2> QED
      BY ONLY <1>10, <1>14, Joined
  <1>16. /\ Plan \in Seq(T)
         /\ Range(Plan) = Range(c) \cup Range(r) \cup Range(x) \cup Range(d) \cup Range(y)
    <2>1. Plan = crxd \o y
      BY <1>11 DEF cr, crx
    <2> HIDE DEF crxd
    <2> QED
      BY ONLY <2>1, <1>12, <1>13, <1>14, <1>15
  <1>17. Len(Plan) \in Nat /\ DOMAIN Plan = 1 .. Len(Plan)
    BY ONLY <1>16, LenProperties
  <1>18. \A i \in DOMAIN Plan : Plan[i] \in T
    BY ONLY <1>16, <1>17, ElementOfSeq
  <1>19. \A i \in DOMAIN Plan : Plan[i].op \in Ops
    BY <1>18 DEF T, Statements
  <1>20. ASSUME NEW op \in Ops, NEW n
         PROVE  n \in Names(op) <=> \E e \in Range(Plan) : e.op = op /\ e.name = n
    BY DEF Names, Range
  <1>21. ASSUME NEW n \in Names("repair") PROVE n \in Names("create")
    <2>1. PICK e \in Range(Plan) : e.op = "repair" /\ e.name = n
      BY <1>5, <1>20
    <2>2. e \in Stated("repair", CoreTables)
      <3>1. \A op, names : \A f \in Stated(op, names) : f.op = op
        BY DEF Stated
      <3>2. e \notin Range(c) /\ e \notin Range(d)
        BY ONLY <1>6, <1>9, <2>1, <3>1
      <3>3. e \notin Range(x) /\ e \notin Range(y)
        BY ONLY <1>8, <1>10, <2>1, <3>1
      <3> QED
        BY ONLY <1>7, <1>16, <2>1, <3>2, <3>3
    <2>3. [op |-> "create", name |-> n] \in Range(Plan)
      BY <1>6, <1>16, <2>1, <2>2 DEF Stated
    <2> QED
      BY <1>5, <1>20, <2>3
  <1> QED
    BY <1>17, <1>19, <1>21

-----------------------------------------------------------------------------
(***************************************************************************)
(* The steps.                                                              *)
(***************************************************************************)

\* What a statement has made stays made.
LEMMA DoneStays ==
  ASSUME tables \subseteq tables', columns \subseteq columns', indexes \subseteq indexes',
         NEW i \in DOMAIN Plan, Done(Plan[i])
  PROVE  Done(Plan[i])'
  BY PlanIsSeq DEF Done, Ops

\* The repaired columns are those of created tables.
LEMMA RepairedAreKnown ==
  ASSUME NEW i \in DOMAIN Plan, Plan[i].op = "repair"
  PROVE  ColumnsOf[Plan[i].name] \subseteq ColumnsIn(Names("create"))
  BY PlanIsSeq DEF ColumnsIn, Names

\* A process that goes on by one statement, stays where it is, or exits: what is left
\* to show is about that process.
LEMMA ProcessFrame ==
  ASSUME BootInv, NEW p \in Processes, secret' = secret,
         tables \subseteq tables', columns \subseteq columns', indexes \subseteq indexes',
         tables' \subseteq Names("create"), columns' \subseteq ColumnsIn(Names("create")),
         indexes' \subseteq Names("index"),
         NEW k \in Down .. Up, step' = [step EXCEPT ![p] = k],
         NEW left \in {Unread} \cup SUBSET ColumnsIn(Names("create")),
         missing' = [missing EXCEPT ![p] = left],
         k # Down => SecretFits,
         \A i \in DOMAIN Plan : i < k => i < step[p] \/ Done(Plan[i])',
         left # Unread /\ k \in DOMAIN Plan /\ Plan[k].op = "repair" =>
           ColumnsOf[Plan[k].name] \subseteq columns' \cup left
  PROVE  BootInv'
  <1> USE DEF BootInv
  <1>1. BootTypeOK'
    BY DEF BootTypeOK
  <1>2. ASSUME NEW q \in Processes, q # p
        PROVE  step'[q] = step[q] /\ missing'[q] = missing[q]
    BY <1>2 DEF BootTypeOK
  <1>3. step'[p] = k /\ missing'[p] = left
    BY DEF BootTypeOK
  <1>4. ASSUME NEW q \in Processes PROVE step'[q] # Down => SecretFits'
    BY <1>2, <1>3 DEF SecretFits
  <1>5. ASSUME NEW q \in Processes, NEW i \in DOMAIN Plan, i < step'[q]
        PROVE  Done(Plan[i])'
    <2>1. i < step[q] => Done(Plan[i])
      OBVIOUS
    <2> QED
      BY <1>2, <1>3, <1>5, <2>1, DoneStays
  <1>6. ASSUME NEW q \in Processes, Runs(q, "repair")', missing'[q] # Unread
        PROVE  ColumnsOf[Subject(q)'] \subseteq columns' \cup missing'[q]
    BY <1>2, <1>3, <1>6 DEF Runs, Subject
  <1> QED
    BY <1>1, <1>4, <1>5, <1>6

\* The invariant holds on any file a build has left, before a process boots.
LEMMA BootInitInv == BootInit => BootInv
  <1> SUFFICES ASSUME BootInit PROVE BootInv
    OBVIOUS
  <1> USE DEF BootInit
  <1>1. ColumnsIn(tables) \subseteq ColumnsIn(Names("create"))
    BY DEF ColumnsIn
  <1>2. Down \in Down .. Up
    BY PlanIsSeq DEF Down, Up
  <1>3. BootTypeOK
    BY <1>1, <1>2 DEF BootTypeOK
  <1>4. \A i \in DOMAIN Plan : ~ (i < Down)
    BY PlanIsSeq DEF Down
  <1>5. \A p \in Processes : step[p] = Down /\ missing[p] = Unread
    OBVIOUS
  <1> QED
    BY <1>3, <1>4, <1>5 DEF BootInv

\* The numbers of the statements.
LEMMA Numbers ==
  ASSUME BootInv, NEW p \in Processes
  PROVE  /\ step[p] \in Nat /\ step[p] <= Up /\ Down = 0 /\ Down \in Down .. Up
         /\ step[p] < Up => step[p] + 1 \in Down .. Up
         /\ step[p] \in DOMAIN Plan => step[p] > 0 /\ step[p] < Up
         /\ \A i \in DOMAIN Plan : i \in Nat /\ i < Up
         /\ Opening \in Nat /\ Opening < Up /\ Opening # Down /\ Up = Opening + 1
         /\ Down < Up /\ Up # Down /\ Down \notin DOMAIN Plan
         /\ \A i \in DOMAIN Plan : i < Opening
  BY PlanIsSeq DEF BootInv, BootTypeOK, Down, Up, Opening

\* Goes on by one statement, which has been done.
LEMMA AdvanceInv ==
  ASSUME BootInv, NEW p \in Processes, Advance(p), secret' = secret, step[p] < Up,
         tables \subseteq tables', columns \subseteq columns', indexes \subseteq indexes',
         tables' \subseteq Names("create"), columns' \subseteq ColumnsIn(Names("create")),
         indexes' \subseteq Names("index"), SecretFits,
         \A i \in DOMAIN Plan : i = step[p] => Done(Plan[i])'
  PROVE  BootInv'
  <1>1. /\ step' = [step EXCEPT ![p] = step[p] + 1]
        /\ missing' = [missing EXCEPT ![p] = Unread]
    BY DEF Advance
  <1>2. step[p] \in Nat /\ step[p] + 1 \in Down .. Up
    BY Numbers
  <1>3. \A i \in DOMAIN Plan : i < step[p] + 1 => i < step[p] \/ Done(Plan[i])'
    <2> SUFFICES ASSUME NEW i \in DOMAIN Plan, i < step[p] + 1, ~ (i < step[p])
                 PROVE  Done(Plan[i])'
      OBVIOUS
    <2>1. i = step[p]
      BY <1>2, Numbers
    <2> QED
      BY <2>1
  <1> QED
    BY <1>1, <1>2, <1>3, ProcessFrame

\* Exits; nothing in the file is lost.
LEMMA AbortInv ==
  ASSUME BootInv, NEW p \in Processes, Abort(p), UNCHANGED fileVars
  PROVE  BootInv'
  <1>1. /\ step' = [step EXCEPT ![p] = Down]
        /\ missing' = [missing EXCEPT ![p] = Unread]
    BY DEF Abort
  <1>2. \A i \in DOMAIN Plan : ~ (i < Down)
    BY Numbers
  <1>3. Down \in Down .. Up
    BY Numbers
  <1> QED
    BY <1>1, <1>2, <1>3, ProcessFrame DEF fileVars, BootInv, BootTypeOK

\* A step of a booting process, or its death, keeps the invariant.
LEMMA BootStepInv ==
  ASSUME BootInv, NEW p \in Processes, BootStep(p) \/ Die(p)
  PROVE  BootInv'
  <1>1. /\ tables \subseteq Names("create") /\ columns \subseteq ColumnsIn(Names("create"))
        /\ indexes \subseteq Names("index")
        /\ step[p] # Down => SecretFits
    BY DEF BootInv, BootTypeOK
  <1>2. \A op \in Ops : Runs(p, op) => step[p] \in DOMAIN Plan /\ step[p] < Up /\ step[p] # Down
                                  /\ Plan[step[p]].op = op /\ Subject(p) = Plan[step[p]].name
    BY Numbers DEF Runs, Subject
  <1>3. CASE Start(p)
    <2>1. step[p] < Up /\ step[p] \notin DOMAIN Plan
      BY <1>3, Numbers DEF Start
    <2> QED
      BY <1>1, <1>3, <2>1, AdvanceInv DEF Start, fileVars
  <1>4. CASE CreateTable(p)
    <2>1. /\ step[p] \in DOMAIN Plan /\ step[p] < Up /\ step[p] # Down
          /\ Plan[step[p]].op = "create" /\ Subject(p) = Plan[step[p]].name
      BY <1>2, <1>4 DEF CreateTable, Ops
    <2>2. Subject(p) \in Names("create")
      BY <2>1 DEF Names
    <2>3. ColumnsIn({Subject(p)}) \subseteq ColumnsIn(Names("create"))
      BY <2>2 DEF ColumnsIn
    <2>4. /\ tables \subseteq tables' /\ columns \subseteq columns' /\ indexes' = indexes
          /\ tables' \subseteq Names("create") /\ columns' \subseteq ColumnsIn(Names("create"))
          /\ secret' = secret /\ Subject(p) \in tables' /\ Advance(p)
      BY <1>1, <1>4, <2>2, <2>3 DEF CreateTable
    <2>5. ASSUME NEW i \in DOMAIN Plan, i = step[p] PROVE Done(Plan[i])'
      BY <2>1, <2>4, <2>5 DEF Done
    <2> QED
      BY <1>1, <2>1, <2>4, <2>5, AdvanceInv
  <1>5. CASE TableInfo(p)
    <2>1. /\ step[p] \in DOMAIN Plan /\ Plan[step[p]].op = "repair"
          /\ Subject(p) = Plan[step[p]].name /\ step[p] # Down
      BY <1>2, <1>5 DEF TableInfo, Ops
    <2> DEFINE left == ColumnsOf[Subject(p)] \ columns
    <2>2. left \in SUBSET ColumnsIn(Names("create"))
      BY <2>1, RepairedAreKnown
    <2>3. step \in [Processes -> Down .. Up] /\ step' = step
      BY <1>5 DEF TableInfo, BootInv, BootTypeOK
    <2>4. step' = [step EXCEPT ![p] = step[p]] /\ step[p] \in Down .. Up
      BY <2>3
    <2>5. missing' = [missing EXCEPT ![p] = left] /\ UNCHANGED <<tables, columns, indexes, secret>>
      BY <1>5 DEF TableInfo, fileVars
    <2>6. ColumnsOf[Plan[step[p]].name] \subseteq columns' \cup left
      BY <2>1, <2>5
    <2> HIDE DEF left
    <2> QED
      BY <1>1, <2>1, <2>2, <2>4, <2>5, <2>6, ProcessFrame
  <1>6. CASE AddColumn(p)
    <2>1. PICK c \in missing[p] :
            IF c \in columns
            THEN Abort(p) /\ UNCHANGED columns
            ELSE /\ columns' = columns \cup {c}
                 /\ missing' = [missing EXCEPT ![p] = @ \ {c}]
                 /\ UNCHANGED step
      BY <1>6 DEF AddColumn
    <2>2. CASE c \in columns
      BY <1>6, <2>1, <2>2, AbortInv DEF AddColumn, fileVars
    <2>3. CASE c \notin columns
      <3>1. /\ step[p] \in DOMAIN Plan /\ Plan[step[p]].op = "repair"
            /\ Subject(p) = Plan[step[p]].name /\ step[p] # Down
        BY <1>2, <1>6 DEF AddColumn, Ops
      <3> DEFINE left == missing[p] \ {c}
      <3>2. missing[p] # Unread /\ missing[p] \subseteq ColumnsIn(Names("create"))
        BY <1>6 DEF AddColumn, BootInv, BootTypeOK
      <3>3. left \in SUBSET ColumnsIn(Names("create"))
        BY <3>2
      <3>4. /\ step' = [step EXCEPT ![p] = step[p]] /\ step[p] \in Down .. Up
        BY <2>1, <2>3 DEF BootInv, BootTypeOK
      <3>5. /\ columns' = columns \cup {c} /\ missing' = [missing EXCEPT ![p] = left]
            /\ UNCHANGED <<tables, indexes, secret>>
        BY <1>6, <2>1, <2>3 DEF AddColumn
      <3>6. ColumnsOf[Plan[step[p]].name] \subseteq columns \cup missing[p]
        BY <1>6, <3>1, <3>2 DEF BootInv, AddColumn
      <3>7. /\ ColumnsOf[Plan[step[p]].name] \subseteq columns' \cup left
            /\ columns' \subseteq ColumnsIn(Names("create")) /\ columns \subseteq columns'
        BY <1>1, <3>2, <3>5, <3>6
      <3> HIDE DEF left
      <3> QED
        BY <1>1, <3>1, <3>3, <3>4, <3>5, <3>7, ProcessFrame
    <2> QED
      BY <2>2, <2>3
  <1>7. CASE TableRepaired(p)
    <2>1. /\ step[p] \in DOMAIN Plan /\ step[p] < Up /\ step[p] # Down
          /\ Plan[step[p]].op = "repair" /\ Subject(p) = Plan[step[p]].name
      BY <1>2, <1>7 DEF TableRepaired, Ops
    <2>2. ColumnsOf[Subject(p)] \subseteq columns
      BY <1>7 DEF TableRepaired, BootInv
    <2>3. ASSUME NEW i \in DOMAIN Plan, i = step[p] PROVE Done(Plan[i])'
      BY <1>7, <2>1, <2>2, <2>3 DEF Done, TableRepaired, fileVars
    <2> QED
      BY <1>1, <1>7, <2>1, <2>3, AdvanceInv DEF TableRepaired, fileVars
  <1>8. CASE CreateIndex(p)
    <2>1. /\ step[p] \in DOMAIN Plan /\ step[p] < Up /\ step[p] # Down
          /\ Plan[step[p]].op = "index" /\ Subject(p) = Plan[step[p]].name
      BY <1>2, <1>8 DEF CreateIndex, Ops
    <2>2. CASE Subject(p) \in duplicated
      BY <1>8, <2>2, AbortInv DEF CreateIndex, fileVars
    <2>3. CASE Subject(p) \notin duplicated
      <3>1. Subject(p) \in Names("index")
        BY <2>1 DEF Names
      <3>2. /\ UNCHANGED <<tables, columns, secret>> /\ indexes' = indexes \cup {Subject(p)}
            /\ Advance(p)
        BY <1>8, <2>3 DEF CreateIndex
      <3>3. ASSUME NEW i \in DOMAIN Plan, i = step[p] PROVE Done(Plan[i])'
        BY <2>1, <3>2, <3>3 DEF Done
      <3> QED
        BY <1>1, <2>1, <3>1, <3>2, <3>3, AdvanceInv
    <2> QED
      BY <2>2, <2>3
  <1>9. CASE OpenRest(p)
    <2>1. step[p] < Up /\ step[p] # Down /\ step[p] \notin DOMAIN Plan
      BY <1>9, Numbers DEF OpenRest
    <2> QED
      BY <1>1, <1>9, <2>1, AdvanceInv DEF OpenRest, fileVars
  <1>10. CASE Die(p)
    BY <1>10, AbortInv DEF Die
  <1> QED
    BY <1>3, <1>4, <1>5, <1>6, <1>7, <1>8, <1>9, <1>10 DEF BootStep

\* Every step of the boots, and of the traffic after them, keeps the invariant.
LEMMA BootNextInv == BootInv /\ [BootNext]_vars => BootInv'
  <1> SUFFICES ASSUME BootInv, [BootNext]_vars PROVE BootInv'
    OBVIOUS
  <1>1. CASE UNCHANGED bootVars
    BY <1>1
    DEF bootVars, fileVars, BootInv, BootTypeOK, Runs, Subject, Done, SecretFits
  <1>2. CASE Traffic \/ UNCHANGED vars
    BY <1>1, <1>2 DEF Traffic, vars
  <1>3. ASSUME NEW p \in Processes, BootStep(p) \/ Die(p) PROVE BootInv'
    BY <1>3, BootStepInv
  <1> QED
    BY <1>2, <1>3 DEF BootNext

\* The boots' invariant, in every state.
LEMMA BootInvariant == BootSpec => []BootInv
  <1> QED
    BY BootInitInv, BootNextInv, PTL DEF BootSpec

-----------------------------------------------------------------------------
\* ensure_schema(): whatever the file was and whoever died on the way, a process that
\* serves finds every table, every column and every index of this build.
THEOREM WholeSchemaServed == BootSpec => []ServesWholeSchema
  <1>1. BootInv => ServesWholeSchema
    <2> SUFFICES ASSUME BootInv, NEW p \in Processes, Serving(p)
                 PROVE  /\ tables = Names("create")
                        /\ columns = ColumnsIn(tables)
                        /\ indexes = Names("index")
                        /\ SecretFits
      BY DEF ServesWholeSchema
    <2>1. step[p] = Up /\ step[p] # Down
      BY Numbers DEF Serving
    <2>2. \A i \in DOMAIN Plan : Done(Plan[i])
      BY <2>1, Numbers DEF BootInv
    <2>3. /\ \A i \in DOMAIN Plan : Plan[i].op = "create" => Plan[i].name \in tables
          /\ \A i \in DOMAIN Plan : Plan[i].op = "repair" => ColumnsOf[Plan[i].name] \subseteq columns
          /\ \A i \in DOMAIN Plan : Plan[i].op = "index" => Plan[i].name \in indexes
      BY <2>2 DEF Done
    <2>4. tables = Names("create") /\ indexes = Names("index")
      BY <2>3 DEF Names, BootInv, BootTypeOK
    <2>5. ColumnsIn(tables) \subseteq columns
      BY <2>3 DEF ColumnsIn, Names
    <2> QED
      BY <2>1, <2>4, <2>5 DEF BootInv, BootTypeOK
  <1> QED
    BY <1>1, BootInvariant, PTL

\* Boots and deaths leave the pool's bookkeeping alone, and traffic is the pool's own.
LEMMA BootKeepsPoolInv == PoolInv /\ [BootNext]_vars => PoolInv'
  <1> SUFFICES ASSUME PoolInv, [BootNext]_vars PROVE PoolInv'
    OBVIOUS
  <1>1. CASE Traffic
    BY <1>1, PoolStepInv DEF Traffic
  <1>2. ASSUME NEW p \in Processes, BootStep(p) PROVE PoolInv'
    <2>1. UNCHANGED poolVars
      BY <1>2
      DEF BootStep, Start, CreateTable, TableInfo, AddColumn, TableRepaired, CreateIndex,
          OpenRest
    <2> QED
      BY <2>1, PoolStepInv
  <1>3. ASSUME NEW p \in Processes, Die(p) PROVE PoolInv'
    <2>1. UNCHANGED <<idle, closed, at, kind, conn, open, freed, closer, calls>>
          /\ failures' = failures + 1
      BY <1>3 DEF Die, Failure, guardVars
    <2>2. PoolTypeOK' /\ CloseInv'
      BY <2>1 DEF PoolInv, PoolTypeOK, CloseInv, ClosedIsDrained, Asleep
    <2>3. ConnInv' /\ TxInv' /\ NoLostWakeup'
      BY <2>1
      DEF PoolInv, ConnInv, TxInv, NoStrayTransaction, NoLostWakeup, Asleep, OnTheirWay
    <2> QED
      BY <2>2, <2>3 DEF PoolInv
  <1>4. CASE UNCHANGED vars
    BY <1>4, PoolStepInv DEF vars
  <1> QED
    BY <1>1, <1>2, <1>3, <1>4 DEF BootNext

\* Pool::transaction(): no transaction is left open in a process that has booted this way.
THEOREM BootKeepsTransactions == BootSpec => []NoStrayTransaction
  <1>1. BootInit => PoolInv
    BY PoolInitInv DEF BootInit
  <1>2. PoolInv => NoStrayTransaction
    BY DEF PoolInv, TxInv
  <1> QED
    BY <1>1, <1>2, BootKeepsPoolInv, PTL DEF BootSpec

=============================================================================
