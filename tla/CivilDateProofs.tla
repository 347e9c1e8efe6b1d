---------------------------- MODULE CivilDateProofs ----------------------------
(***************************************************************************)
(* days_from_civil counts days, and its years are Gregorian, for every     *)
(* date from the year 0 on.  The proof rests on one lemma: from one year   *)
(* that starts in March to the next the count goes up by 365 or 366.       *)
(*                                                                         *)
(* From the count follows the text: no two texts that parse_amz_date       *)
(* accepts name one second, and a text that is written for a day is read   *)
(* as that day.                                                            *)
(***************************************************************************)
EXTENDS CivilDate, SequenceTheorems, TLAPS

Dates == [year : Nat, month : 1..12, day : 1..31]

\* The walk never leaves the calendar.
DayInv == day \in Dates /\ Accepted(day)

\* The days before the first of March of a year, from that of the year 0.
Marches(year) == 365 * year + (year \div 4) - (year \div 100) + (year \div 400)

\* A leap day more in the years that have one.
LEMMA YearEnds ==
  ASSUME NEW y \in Nat
  PROVE  Marches(y) = Marches(y - 1) + IF IsLeapYear(y) THEN 366 ELSE 365
<1>1. \A d \in {4, 100, 400} : (y \div d) - ((y - 1) \div d) = IF y % d = 0 THEN 1 ELSE 0
  OBVIOUS
<1>2. y % 400 = 0 => y % 100 = 0
  OBVIOUS
<1>3. y % 100 = 0 => y % 4 = 0
  OBVIOUS
<1> QED
  BY <1>1, <1>2, <1>3 DEF Marches, IsLeapYear

\* The era and the year in it make the same count as the years do.
LEMMA ErasAreYears ==
  ASSUME NEW y \in Int, y >= -1
  PROVE  LET era == Quotient(IF y >= 0 THEN y ELSE y - 399, 400)
             yoe == y - era * 400
         IN era * 146097 + yoe * 365 + (yoe \div 4) - (yoe \div 100) = Marches(y)
<1> DEFINE era == Quotient(IF y >= 0 THEN y ELSE y - 399, 400)
           yoe == y - era * 400
<1>1. era = y \div 400 /\ era \in Int
  BY DEF Quotient
<1>2. yoe \in 0..399 /\ y = 400 * era + yoe
  BY <1>1
<1> HIDE DEF era, yoe
<1>3. y \div 4 = 100 * era + (yoe \div 4)
  BY <1>1, <1>2
<1>4. y \div 100 = 4 * era + (yoe \div 100)
  BY <1>1, <1>2
<1>5. era * 146097 + yoe * 365 + (yoe \div 4) - (yoe \div 100) = Marches(y)
  BY <1>1, <1>2, <1>3, <1>4 DEF Marches
<1> QED
  BY <1>5 DEF era, yoe

\* days_from_civil, without its eras.
LEMMA Count ==
  ASSUME NEW date \in Dates
  PROVE  DaysFromCivil(date) =
           IF date.month > 2
           THEN Marches(date.year) + ((153 * (date.month - 3) + 2) \div 5) + date.day - 719469
           ELSE Marches(date.year - 1) + ((153 * (date.month + 9) + 2) \div 5) + date.day - 719469
<1> DEFINE year == date.year - IF date.month <= 2 THEN 1 ELSE 0
           mp   == date.month + IF date.month > 2 THEN -3 ELSE 9
           era  == Quotient(IF year >= 0 THEN year ELSE year - 399, 400)
           yoe  == year - era * 400
           doy  == (153 * mp + 2) \div 5 + date.day - 1
           doe  == yoe * 365 + yoe \div 4 - yoe \div 100 + doy
<1>1. /\ year \in Int /\ year >= -1
      /\ date.month \in 1..12 /\ date.day \in 1..31
      /\ mp = IF date.month > 2 THEN date.month - 3 ELSE date.month + 9
      /\ year = IF date.month > 2 THEN date.year ELSE date.year - 1
  BY DEF Dates
<1>2. DaysFromCivil(date) = era * 146097 + doe - 719468
  BY DEF DaysFromCivil
<1> HIDE DEF year, mp
<1>3. era * 146097 + yoe * 365 + (yoe \div 4) - (yoe \div 100) = Marches(year)
  BY <1>1, ErasAreYears
<1>4. era \in Int /\ yoe \in Int
  BY <1>1 DEF Quotient
<1> HIDE DEF era, yoe
<1>5. doe = yoe * 365 + (yoe \div 4) - (yoe \div 100) + ((153 * mp + 2) \div 5) + date.day - 1
  BY <1>1, <1>4
<1> HIDE DEF doe
<1>6. DaysFromCivil(date) = Marches(year) + ((153 * mp + 2) \div 5) + date.day - 719469
  BY <1>1, <1>2, <1>3, <1>4, <1>5
<1> QED
  BY <1>1, <1>6

\* The length of a month is the gap it leaves to the next, except for the end
\* of February, where the year of the formula ends.
LEMMA MonthEnds ==
  ASSUME NEW date \in Dates, date.month < 12,
         date.day = DaysInMonth(date.year, date.month)
  PROVE  DaysFromCivil(Date(date.year, date.month + 1, 1)) = DaysFromCivil(date) + 1
<1> DEFINE next == Date(date.year, date.month + 1, 1)
<1>1. /\ next \in Dates
      /\ next.year = date.year /\ next.month = date.month + 1 /\ next.day = 1
      /\ date.month \in 1..11 /\ date.year \in Nat /\ date.day \in Nat
  BY DEF Dates, Date
<1> HIDE DEF next
<1>2. CASE date.month = 2
  <2>1. date.day = IF IsLeapYear(date.year) THEN 29 ELSE 28
    BY <1>2 DEF DaysInMonth
  <2>2. Marches(date.year) \in Int /\ Marches(date.year - 1) \in Int
    BY <1>1 DEF Marches
  <2>3. DaysFromCivil(date) = Marches(date.year - 1) + 337 + date.day - 719469
    BY <1>1, <1>2, <2>2, Count
  <2>4. next.month = 3 /\ ((153 * (3 - 3) + 2) \div 5) = 0
    BY <1>1, <1>2
  <2>5. DaysFromCivil(next) = Marches(date.year) + 1 - 719469
    BY <1>1, <2>2, <2>4, Count
  <2> QED
    BY <1>1, <2>1, <2>2, <2>3, <2>5, YearEnds DEF next
<1>3. CASE date.month # 2
  <2>1. date.day = IF date.month \in {4, 6, 9, 11} THEN 30 ELSE 31
    BY <1>1, <1>3 DEF DaysInMonth
  <2>2. Marches(date.year) \in Int /\ Marches(date.year - 1) \in Int
    BY <1>1 DEF Marches
  <2>3. CASE date.month = 1
    BY <1>1, <2>1, <2>2, <2>3, Count DEF next
  <2>4. CASE date.month > 2
    <3>1. ((153 * (date.month - 2) + 2) \div 5) = ((153 * (date.month - 3) + 2) \div 5) + date.day
      BY <1>1, <2>1, <2>4
    <3> QED
      BY <1>1, <2>2, <2>4, <3>1, Count DEF next
  <2> QED
    BY <1>1, <1>3, <2>3, <2>4
<1> QED
  BY <1>2, <1>3
-------------------------------------------------------------------------------
\* The day after, month by month.
LEMMA DayStep ==
  ASSUME DayInv, NextDay
  PROVE  DayInv' /\ DaysFromCivil(day') = DaysFromCivil(day) + 1
<1> DEFINE tomorrow   == [day EXCEPT !.day = day.day + 1]
           next_month == Date(day.year, day.month + 1, 1)
           next_year  == Date(day.year + 1, 1, 1)
<1>1. /\ day \in Dates /\ day.year \in Nat /\ day.month \in 1..12
      /\ day.day \in 1..DaysInMonth(day.year, day.month)
  BY DEF DayInv, Dates, Accepted, ValidFields
<1>2. DaysInMonth(day.year, day.month) \in 28..31
  BY <1>1 DEF DaysInMonth
<1>3. /\ tomorrow.year = day.year /\ tomorrow.month = day.month /\ tomorrow.day = day.day + 1
      /\ DOMAIN tomorrow = {"year", "month", "day"}
      /\ tomorrow = Date(day.year, day.month, day.day + 1)
  BY <1>1 DEF Dates, Date
<1>4. \A year, month, d : /\ Date(year, month, d).year = year
                         /\ Date(year, month, d).month = month
                         /\ Date(year, month, d).day = d
  BY DEF Date
<1>5. \A year, month, d :
        Accepted(Date(year, month, d)) <=> month \in 1..12 /\ d \in 1..DaysInMonth(year, month)
  BY <1>4 DEF Accepted, ValidFields, BadClock
<1>6. day' = IF Accepted(tomorrow) THEN tomorrow
             ELSE IF Accepted(next_month) THEN next_month ELSE next_year
  BY DEF NextDay
<1>7. \A year \in Nat, month \in 1..12 : DaysInMonth(year, month) \in 28..31
  BY DEF DaysInMonth
<1>8. \A year \in Nat, month \in 1..12, d \in 1..31 : Date(year, month, d) \in Dates
  BY DEF Date, Dates
<1> HIDE DEF tomorrow
<1>9. CASE Accepted(tomorrow)
  <2>1. day' = tomorrow /\ tomorrow \in Dates
    <3>1. day.day + 1 \in 1..DaysInMonth(day.year, day.month)
      BY <1>3, <1>5, <1>9
    <3>2. day.day + 1 \in 1..31
      BY <1>1, <1>2, <3>1
    <3> QED
      BY <1>1, <1>3, <1>6, <1>8, <1>9, <3>2
  <2>2. Marches(day.year) \in Int /\ Marches(day.year - 1) \in Int
    BY <1>1 DEF Marches
  <2>3. DaysFromCivil(tomorrow) = DaysFromCivil(day) + 1
    BY <1>1, <1>2, <1>3, <2>1, <2>2, Count
  <2> QED
    BY <1>9, <2>1, <2>3 DEF DayInv
<1>10. CASE ~Accepted(tomorrow) /\ Accepted(next_month)
  <2>1. day' = next_month /\ day.month < 12 /\ day.day = DaysInMonth(day.year, day.month)
    BY <1>1, <1>2, <1>3, <1>5, <1>6, <1>10
  <2>2. next_month \in Dates
    BY <1>1, <1>8, <2>1
  <2> QED
    BY <1>1, <1>10, <2>1, <2>2, MonthEnds DEF DayInv
<1>11. CASE ~Accepted(tomorrow) /\ ~Accepted(next_month)
  <2>1. day.month = 12 /\ day.day = DaysInMonth(day.year, day.month)
    <3>1. day.month < 12 => DaysInMonth(day.year, day.month + 1) \in 28..31 /\ day.month + 1 \in 1..12
      BY <1>1, <1>7
    <3> QED
      BY <1>1, <1>2, <1>3, <1>5, <1>11, <3>1
  <2>2. day' = next_year /\ day.day = 31
    BY <1>6, <1>11, <2>1 DEF DaysInMonth
  <2>3. next_year \in Dates /\ Accepted(next_year)
    <3>1. day.year + 1 \in Nat /\ 1 \in 1..12 /\ 1 \in 1..31
      BY <1>1
    <3>2. 1 \in 1..DaysInMonth(day.year + 1, 1)
      BY DEF DaysInMonth
    <3> QED
      BY <1>5, <1>8, <3>1, <3>2
  <2>4. Marches(day.year) \in Int
    BY <1>1 DEF Marches
  <2>5. DaysFromCivil(day) = Marches(day.year) + 306 - 719469
    BY <1>1, <2>1, <2>2, <2>4, Count
  <2>6. DaysFromCivil(next_year) = Marches(day.year) + 307 - 719469
    <3>1. next_year.year - 1 = day.year /\ next_year.month = 1 /\ next_year.day = 1
      BY <1>1, <1>4
    <3> HIDE DEF next_year
    <3> QED
      BY <2>3, <2>4, <3>1, Count
  <2> QED
    BY <2>2, <2>3, <2>4, <2>5, <2>6 DEF DayInv
<1> QED
  BY <1>9, <1>10, <1>11
-------------------------------------------------------------------------------
\* From whatever year it starts, the walk stays on dates that exist.
THEOREM WalkStaysInCalendar == Spec => []DayInv
<1>1. Init => DayInv
  BY YearsAssumption DEF Init, DayInv, Dates, Date, Accepted, ValidFields, BadClock, DaysInMonth
<1>2. DayInv /\ [NextDay]_vars => DayInv'
  BY DayStep DEF vars, DayInv
<1> QED
  BY <1>1, <1>2, PTL DEF Spec

\* The count goes up by one from every date to the next, for ever.
THEOREM EveryDayCounts == Spec => DaysAreCounted
<1>1. DayInv /\ [NextDay]_vars => [DaysFromCivil(day') = DaysFromCivil(day) + 1]_vars
  BY DayStep
<1> QED
  BY <1>1, WalkStaysInCalendar, PTL DEF Spec, DaysAreCounted

\* The leap years by other divisors.
LEMMA LeapYears ==
  ASSUME NEW y \in Nat
  PROVE  IsLeapYear(y) <=> y % 16 = 0 \/ (y % 4 = 0 /\ y % 25 # 0)
<1>1. y % 100 = 0 <=> y % 4 = 0 /\ y % 25 = 0
  OBVIOUS
<1>2. y % 400 = 0 <=> y % 16 = 0 /\ y % 25 = 0
  OBVIOUS
<1>3. y % 16 = 0 => y % 4 = 0
  OBVIOUS
<1> QED
  BY <1>1, <1>2, <1>3 DEF IsLeapYear

\* The years are as long as Gregorian ones, in every century and era.
THEOREM YearsAreGregorian == Spec => []CalendarIsGregorian
<1>1. DayInv => CalendarIsGregorian
  <2> SUFFICES ASSUME DayInv PROVE CalendarIsGregorian
    OBVIOUS
  <2> DEFINE first == Date(day.year, 1, 1)
             leap == day.year % 16 = 0 \/ (day.year % 4 = 0 /\ day.year % 25 # 0)
  <2>1. /\ day \in Dates /\ day.year \in Nat
        /\ day.day \in 1..DaysInMonth(day.year, day.month)
        /\ first \in Dates /\ first.year = day.year /\ first.month = 1 /\ first.day = 1
    BY DEF DayInv, Dates, Date, Accepted, ValidFields
  <2>2. leap <=> IsLeapYear(day.year)
    BY <2>1, LeapYears
  <2> HIDE DEF first, leap
  <2>3. day.month = 2 /\ day.day = 29 => leap
    BY <2>1, <2>2 DEF DaysInMonth
  <2>4. day.month = 12 /\ day.day = 31 =>
          DaysFromCivil(day) - DaysFromCivil(first) = IF leap THEN 365 ELSE 364
    <3>1. Marches(day.year) \in Int /\ Marches(day.year - 1) \in Int
      BY <2>1 DEF Marches
    <3>2. DaysFromCivil(first) = Marches(day.year - 1) + 307 - 719469
      BY <2>1, <3>1, Count
    <3>3. day.month = 12 /\ day.day = 31 => DaysFromCivil(day) = Marches(day.year) + 306 - 719469
      BY <2>1, <3>1, Count
    <3> QED
      BY <2>1, <2>2, <3>1, <3>2, <3>3, YearEnds
  <2>5. day = Date(1970, 1, 1) => DaysFromCivil(day) = 0
    BY <2>1, Count DEF Date, Marches
  <2>6. day = Date(2024, 5, 24) => DaysFromCivil(day) = 19867
    BY <2>1, Count DEF Date, Marches
  <2> QED
    BY <2>3, <2>4, <2>5, <2>6 DEF CalendarIsGregorian, first, leap
<1> QED
  BY <1>1, WalkStaysInCalendar, PTL
-------------------------------------------------------------------------------
\* The text of a date: parse_digits, digit by digit.

Digit(text, i) == text[i] - 48

Pair(text, i) == 10 * Digit(text, i) + Digit(text, i + 1)

LEMMA LoopOfTwo ==
  ASSUME NEW text, NEW i \in Nat, text[i] \in Int, text[i + 1] \in Int
  PROVE  ParseDigits(text, i, i + 1) = Pair(text, i)
<1> DEFINE Turn(out) == [k \in (i - 1)..(i + 1) |->
                          IF k < i THEN 0 ELSE 10 * out[k - 1] + (text[k] - 48)]
           loop == CHOOSE out : out = Turn(out)
           sums == [k \in (i - 1)..(i + 1) |->
                     IF k < i THEN 0 ELSE IF k = i THEN Digit(text, i) ELSE Pair(text, i)]
<1>1. ParseDigits(text, i, i + 1) = loop[i + 1]
  BY DEF ParseDigits
<1>2. sums = Turn(sums)
  <2>1. \A k \in (i - 1)..(i + 1) : k = i - 1 \/ k = i \/ k = i + 1
    OBVIOUS
  <2>2. sums[i - 1] = 0 /\ sums[i] = Digit(text, i) /\ sums[i + 1] = Pair(text, i)
    OBVIOUS
  <2>3. Turn(sums)[i - 1] = 0 /\ Turn(sums)[i] = 10 * 0 + (text[i] - 48)
        /\ Turn(sums)[i + 1] = 10 * Digit(text, i) + (text[i + 1] - 48)
    BY <2>2
  <2> HIDE DEF sums
  <2>4. \A k \in (i - 1)..(i + 1) : sums[k] = Turn(sums)[k]
    BY <2>1, <2>2, <2>3 DEF Digit, Pair
  <2> QED
    BY <2>4 DEF sums
<1>3. loop = Turn(loop)
  BY <1>2
<1> HIDE DEF loop
<1>4. loop[i - 1] = 0
  BY <1>3
<1>5. loop[i] = 10 * loop[i - 1] + (text[i] - 48)
  BY <1>3
<1>6. loop[i + 1] = 10 * loop[i] + (text[i + 1] - 48)
  BY <1>3
<1> QED
  BY <1>1, <1>4, <1>5, <1>6 DEF Pair, Digit

LEMMA LoopOfFour ==
  ASSUME NEW text, NEW i \in Nat, \A k \in i..(i + 3) : text[k] \in Int
  PROVE  ParseDigits(text, i, i + 3) = 100 * Pair(text, i) + Pair(text, i + 2)
<1> DEFINE Turn(out) == [k \in (i - 1)..(i + 3) |->
                          IF k < i THEN 0 ELSE 10 * out[k - 1] + (text[k] - 48)]
           loop == CHOOSE out : out = Turn(out)
           three == 10 * Pair(text, i) + Digit(text, i + 2)
           four == 10 * three + Digit(text, i + 3)
           sums == [k \in (i - 1)..(i + 3) |->
                     IF k < i THEN 0 ELSE IF k = i THEN Digit(text, i)
                     ELSE IF k = i + 1 THEN Pair(text, i) ELSE IF k = i + 2 THEN three ELSE four]
<1>1. ParseDigits(text, i, i + 3) = loop[i + 3]
  BY DEF ParseDigits
<1>2. /\ Digit(text, i) \in Int /\ Digit(text, i + 1) \in Int
      /\ Digit(text, i + 2) \in Int /\ Digit(text, i + 3) \in Int
  BY DEF Digit
<1>3. Pair(text, i) = 10 * Digit(text, i) + Digit(text, i + 1) /\ Pair(text, i) \in Int
  BY <1>2 DEF Pair
<1>4. sums = Turn(sums)
  <2>1. \A k \in (i - 1)..(i + 3) : k = i - 1 \/ k = i \/ k = i + 1 \/ k = i + 2 \/ k = i + 3
    OBVIOUS
  <2>2. /\ sums[i - 1] = 0 /\ sums[i] = Digit(text, i) /\ sums[i + 1] = Pair(text, i)
        /\ sums[i + 2] = three /\ sums[i + 3] = four
    OBVIOUS
  <2>3. /\ Turn(sums)[i - 1] = 0 /\ Turn(sums)[i] = 10 * 0 + Digit(text, i)
        /\ Turn(sums)[i + 1] = 10 * Digit(text, i) + Digit(text, i + 1)
        /\ Turn(sums)[i + 2] = 10 * Pair(text, i) + Digit(text, i + 2)
        /\ Turn(sums)[i + 3] = 10 * three + Digit(text, i + 3)
    BY <2>2 DEF Digit
  <2> HIDE DEF sums, three
  <2>4. /\ sums[i - 1] = Turn(sums)[i - 1] /\ sums[i] = Turn(sums)[i]
        /\ sums[i + 1] = Turn(sums)[i + 1] /\ sums[i + 2] = Turn(sums)[i + 2]
        /\ sums[i + 3] = Turn(sums)[i + 3]
    BY <1>2, <1>3, <2>2, <2>3 DEF three
  <2> HIDE DEF Turn
  <2>5. \A k \in (i - 1)..(i + 3) : sums[k] = Turn(sums)[k]
    BY <2>1, <2>4
  <2> QED
    BY <2>5 DEF sums, Turn
<1>5. loop = Turn(loop)
  BY <1>4
<1> HIDE DEF loop
<1>6. /\ loop[i - 1] = 0 /\ loop[i] = 10 * loop[i - 1] + Digit(text, i)
      /\ loop[i + 1] = 10 * loop[i] + Digit(text, i + 1)
      /\ loop[i + 2] = 10 * loop[i + 1] + Digit(text, i + 2)
      /\ loop[i + 3] = 10 * loop[i + 2] + Digit(text, i + 3)
  BY <1>5 DEF Digit
<1>7. loop[i + 3] = 1000 * Digit(text, i) + 100 * Digit(text, i + 1) + 10 * Digit(text, i + 2) + Digit(text, i + 3)
  BY <1>2, <1>6
<1> QED
  BY <1>1, <1>2, <1>3, <1>7 DEF Pair

\* What a text that is accepted says, field by field.
LEMMA AcceptedText ==
  ASSUME NEW text, ParseAmzDate(text) # Malformed
  PROVE  LET date == DateIn(text)
             clock == ClockIn(text)
             p == ParseAmzDate(text)
         IN /\ Len(text) = 16 /\ text[9] = 84 /\ text[16] = 90
            /\ \A i \in 1..15 : i = 9 \/ Digit(text, i) \in 0..9
            /\ date.year = 100 * Pair(text, 1) + Pair(text, 3)
            /\ date.month = Pair(text, 5) /\ date.day = Pair(text, 7)
            /\ clock.hour = Pair(text, 10) /\ clock.minute = Pair(text, 12)
            /\ clock.second = Pair(text, 14)
            /\ date \in Dates /\ Accepted(date)
            /\ clock.hour \in 0..23 /\ clock.minute \in 0..59 /\ clock.second \in 0..59
            /\ p.date = SubSeq(text, 1, 8)
            /\ p.epoch_seconds = DaysFromCivil(date) * 86400
                                   + clock.hour * 3600 + clock.minute * 60 + clock.second
<1> DEFINE date == DateIn(text)
           clock == ClockIn(text)
<1>1. IsStamp(text) /\ ValidFields(date, clock)
  BY DEF ParseAmzDate
<1>2. /\ Len(text) = 16 /\ text[9] = 84 /\ text[16] = 90
      /\ \A i \in 1..15 : i = 9 \/ text[i] \in 48..57
  BY <1>1 DEF IsStamp, IsDigit
<1>3. \A i \in 1..15 : text[i] \in Int /\ (i = 9 \/ Digit(text, i) \in 0..9)
  BY <1>2 DEF Digit
<1>4. \A i \in 1..14 : i = 8 \/ i = 9 \/ Pair(text, i) \in 0..99
  <2> SUFFICES ASSUME NEW i \in 1..14, i # 8, i # 9
               PROVE  Pair(text, i) \in 0..99
    OBVIOUS
  <2>1. i \in 1..15 /\ i + 1 \in 1..15 /\ i # 9 /\ i + 1 # 9
    OBVIOUS
  <2>2. Digit(text, i) \in 0..9 /\ Digit(text, i + 1) \in 0..9
    BY <1>3, <2>1
  <2> QED
    BY <2>2 DEF Pair
<1>5. date.year = 100 * Pair(text, 1) + Pair(text, 3)
  <2>1. \A k \in 1..(1 + 3) : text[k] \in Int
    BY <1>3
  <2>2. ParseDigits(text, 1, 1 + 3) = 100 * Pair(text, 1) + Pair(text, 1 + 2)
    BY <2>1, LoopOfFour
  <2> QED
    BY <2>2 DEF DateIn, Date
<1>6. \A i \in 1..14 : ParseDigits(text, i, i + 1) = Pair(text, i)
  BY <1>3, LoopOfTwo
<1>7. /\ date.month = Pair(text, 5) /\ date.day = Pair(text, 7)
      /\ clock.hour = Pair(text, 10) /\ clock.minute = Pair(text, 12)
      /\ clock.second = Pair(text, 14)
  <2>1. /\ ParseDigits(text, 5, 6) = Pair(text, 5) /\ ParseDigits(text, 7, 8) = Pair(text, 7)
        /\ ParseDigits(text, 10, 11) = Pair(text, 10)
        /\ ParseDigits(text, 12, 13) = Pair(text, 12)
        /\ ParseDigits(text, 14, 15) = Pair(text, 14)
    BY <1>6
  <2> QED
    BY <2>1 DEF DateIn, Date, ClockIn
<1>8. /\ Pair(text, 1) \in 0..99 /\ Pair(text, 3) \in 0..99 /\ Pair(text, 5) \in 0..99
      /\ Pair(text, 7) \in 0..99 /\ Pair(text, 10) \in 0..99 /\ Pair(text, 12) \in 0..99
      /\ Pair(text, 14) \in 0..99
  BY <1>4
<1>9. date = [year |-> date.year, month |-> date.month, day |-> date.day]
  BY DEF DateIn, Date
<1>10. /\ ParseAmzDate(text).date = SubSeq(text, 1, 8)
       /\ ParseAmzDate(text).epoch_seconds = DaysFromCivil(date) * 86400
            + clock.hour * 3600 + clock.minute * 60 + clock.second
  BY <1>1 DEF ParseAmzDate
<1> HIDE DEF date, clock
<1>11. clock.hour \in 0..23 /\ clock.minute \in 0..59 /\ clock.second \in 0..59
  BY <1>1, <1>7, <1>8 DEF ValidFields, BadClock
<1>12. date.year \in Nat /\ date.month \in 1..12 /\ date.day \in 1..DaysInMonth(date.year, date.month)
  BY <1>1, <1>5, <1>8 DEF ValidFields
<1>13. DaysInMonth(date.year, date.month) \in 28..31
  BY <1>12 DEF DaysInMonth
<1>14. date.day \in 1..31
  BY <1>12, <1>13
<1>15. date \in Dates
  BY <1>9, <1>12, <1>14 DEF Dates
<1>16. Accepted(date)
  BY <1>12 DEF Accepted, ValidFields, BadClock
<1> QED
  BY <1>2, <1>3, <1>5, <1>7, <1>10, <1>11, <1>15, <1>16 DEF date, clock
-------------------------------------------------------------------------------
\* A day has one date: where days_from_civil puts a date in the years that
\* start in March.
MarchYear(date) == IF date.month > 2 THEN date.year ELSE date.year - 1

MarchMonth(date) == IF date.month > 2 THEN date.month - 3 ELSE date.month + 9

MonthStart(m) == (153 * m + 2) \div 5

MarchDay(date) == MonthStart(MarchMonth(date)) + date.day - 1

LEMMA CountFromMarch ==
  ASSUME NEW date \in Dates
  PROVE  DaysFromCivil(date) = Marches(MarchYear(date)) + MarchDay(date) - 719468
<1>1. date.year \in Nat /\ date.month \in 1..12 /\ date.day \in 1..31
  BY DEF Dates
<1>2. /\ MarchYear(date) \in Int /\ MarchMonth(date) \in 0..11
      /\ Marches(MarchYear(date)) \in Int
  BY <1>1 DEF MarchYear, MarchMonth, Marches
<1>3. MonthStart(MarchMonth(date)) \in Int
  BY <1>2 DEF MonthStart
<1>4. CASE date.month > 2
  <2>1. MonthStart(date.month - 3) = (153 * (date.month - 3) + 2) \div 5
    BY DEF MonthStart
  <2> QED
    BY <1>1, <1>2, <1>3, <1>4, <2>1, Count DEF MarchDay, MarchYear, MarchMonth
<1>5. CASE ~(date.month > 2)
  <2>1. MonthStart(date.month + 9) = (153 * (date.month + 9) + 2) \div 5
    BY DEF MonthStart
  <2> QED
    BY <1>1, <1>2, <1>3, <1>5, <2>1, Count DEF MarchDay, MarchYear, MarchMonth
<1> QED
  BY <1>4, <1>5

\* A date ends before its month does, and its month before its year.
LEMMA DatesFit ==
  ASSUME NEW date \in Dates, Accepted(date)
  PROVE  LET y == MarchYear(date)  m == MarchMonth(date) IN
         /\ m < 11 => MonthStart(m) + date.day <= MonthStart(m + 1)
         /\ MarchDay(date) \in Nat /\ Marches(y) + MarchDay(date) < Marches(y + 1)
<1> DEFINE y == MarchYear(date)
           m == MarchMonth(date)
<1>1. /\ date.year \in Nat /\ date.month \in 1..12
      /\ date.day \in 1..DaysInMonth(date.year, date.month)
  BY DEF Dates, Accepted, ValidFields
<1>2. /\ date.day \in 1..31
      /\ date.month \in {4, 6, 9, 11} => date.day <= 30
      /\ date.month = 2 => date.day <= IF IsLeapYear(date.year) THEN 29 ELSE 28
  BY <1>1 DEF DaysInMonth
<1>3. m \in 0..11 /\ y \in Int /\ y + 1 \in Nat
  BY <1>1 DEF MarchMonth, MarchYear
<1>4. /\ m \in {1, 3, 6, 8} => date.day <= 30
      /\ m = 11 => date.day <= IF IsLeapYear(y + 1) THEN 29 ELSE 28
  BY <1>1, <1>2 DEF MarchMonth, MarchYear
<1>5. MarchDay(date) = MonthStart(m) + date.day - 1
  BY DEF MarchDay
<1>6. /\ Marches(y) \in Int /\ Marches(y + 1) \in Int
      /\ Marches(y + 1) = Marches(y) + IF IsLeapYear(y + 1) THEN 366 ELSE 365
  <2>1. (y + 1) - 1 = y
    BY <1>3
  <2>2. Marches(y) \in Int /\ Marches(y + 1) \in Int
    BY <1>3 DEF Marches
  <2>3. Marches(y + 1) = Marches((y + 1) - 1) + IF IsLeapYear(y + 1) THEN 366 ELSE 365
    BY <1>3, YearEnds
  <2> QED
    BY <2>1, <2>2, <2>3
<1> HIDE DEF y, m
<1>7. m < 11 => MonthStart(m) + date.day <= MonthStart(m + 1)
  BY <1>2, <1>3, <1>4 DEF MonthStart
<1>8. MonthStart(m) \in Nat /\ (m < 11 => MonthStart(m + 1) <= 337) /\ (m = 11 => MonthStart(m) = 337)
  BY <1>3 DEF MonthStart
<1>9. MarchDay(date) \in Nat /\ Marches(y) + MarchDay(date) < Marches(y + 1)
  <2>1. CASE m < 11
    <3>1. MonthStart(m + 1) \in Int
      BY <1>3 DEF MonthStart
    <3> QED
      BY <1>2, <1>5, <1>6, <1>7, <1>8, <2>1, <3>1
  <2>2. CASE m = 11
    BY <1>2, <1>4, <1>5, <1>6, <1>8, <2>2
  <2> QED
    BY <1>3, <2>1, <2>2
<1> QED
  BY <1>7, <1>9 DEF y, m

\* Months and years start in the order of their numbers.
LEMMA MonthsInOrder ==
  ASSUME NEW m \in 0..11, NEW n \in 0..11, m <= n
  PROVE  MonthStart(m) <= MonthStart(n)
BY DEF MonthStart

LEMMA YearsInOrder ==
  ASSUME NEW y \in Int, NEW z \in Int, y <= z
  PROVE  Marches(y) <= Marches(z)
<1>1. /\ (y \div 4) <= (z \div 4) /\ (y \div 400) <= (z \div 400)
      /\ (z \div 100) - (y \div 100) <= (z - y) + 1
      /\ y = z => (z \div 100) = (y \div 100)
  OBVIOUS
<1>2. /\ (y \div 4) \in Int /\ (y \div 400) \in Int /\ (y \div 100) \in Int
      /\ (z \div 4) \in Int /\ (z \div 400) \in Int /\ (z \div 100) \in Int
  OBVIOUS
<1> QED
  BY <1>1, <1>2 DEF Marches

\* days_from_civil never gives two dates the same day.
LEMMA OneDate ==
  ASSUME NEW d \in Dates, Accepted(d), NEW e \in Dates, Accepted(e),
         DaysFromCivil(d) = DaysFromCivil(e)
  PROVE  d = e
<1>1. /\ d = [year |-> d.year, month |-> d.month, day |-> d.day]
      /\ e = [year |-> e.year, month |-> e.month, day |-> e.day]
      /\ d.year \in Nat /\ d.month \in 1..12 /\ d.day \in 1..31
      /\ e.year \in Nat /\ e.month \in 1..12 /\ e.day \in 1..31
  BY DEF Dates
<1>2. /\ MarchYear(d) \in Int /\ MarchMonth(d) \in 0..11
      /\ MarchYear(e) \in Int /\ MarchMonth(e) \in 0..11
  BY <1>1 DEF MarchYear, MarchMonth
<1>3. /\ Marches(MarchYear(d)) \in Int /\ Marches(MarchYear(d) + 1) \in Int
      /\ Marches(MarchYear(e)) \in Int /\ Marches(MarchYear(e) + 1) \in Int
      /\ MarchDay(d) \in Nat /\ MarchDay(e) \in Nat
      /\ Marches(MarchYear(d)) + MarchDay(d) < Marches(MarchYear(d) + 1)
      /\ Marches(MarchYear(e)) + MarchDay(e) < Marches(MarchYear(e) + 1)
  BY <1>2, DatesFit DEF Marches
<1>4. Marches(MarchYear(d)) + MarchDay(d) = Marches(MarchYear(e)) + MarchDay(e)
  BY <1>3, CountFromMarch
<1>5. MarchYear(d) = MarchYear(e)
  <2>1. MarchYear(d) + 1 <= MarchYear(e) => Marches(MarchYear(d) + 1) <= Marches(MarchYear(e))
    BY <1>2, YearsInOrder
  <2>2. MarchYear(e) + 1 <= MarchYear(d) => Marches(MarchYear(e) + 1) <= Marches(MarchYear(d))
    BY <1>2, YearsInOrder
  <2> QED
    BY <1>2, <1>3, <1>4, <2>1, <2>2
<1>6. MonthStart(MarchMonth(d)) + d.day = MonthStart(MarchMonth(e)) + e.day
  <2>1. MonthStart(MarchMonth(d)) \in Int /\ MonthStart(MarchMonth(e)) \in Int
    BY <1>2 DEF MonthStart
  <2>2. /\ MarchDay(d) = MonthStart(MarchMonth(d)) + d.day - 1
        /\ MarchDay(e) = MonthStart(MarchMonth(e)) + e.day - 1
    BY DEF MarchDay
  <2>3. MarchDay(d) = MarchDay(e)
    BY <1>3, <1>4, <1>5
  <2> QED
    BY <1>1, <2>1, <2>2, <2>3
<1>7. MarchMonth(d) = MarchMonth(e) /\ d.day = e.day
  <2> DEFINE m == MarchMonth(d)
             n == MarchMonth(e)
  <2>1. /\ m < 11 => MonthStart(m) + d.day <= MonthStart(m + 1)
        /\ n < 11 => MonthStart(n) + e.day <= MonthStart(n + 1)
    BY DatesFit
  <2>2. /\ MonthStart(m) \in Int /\ MonthStart(n) \in Int
        /\ MonthStart(m + 1) \in Int /\ MonthStart(n + 1) \in Int
    BY <1>2 DEF MonthStart
  <2> HIDE DEF m, n
  <2>3. m \in 0..11 /\ n \in 0..11 /\ MonthStart(m) + d.day = MonthStart(n) + e.day
    BY <1>2, <1>6 DEF m, n
  <2>4. m + 1 <= n => m < 11 /\ MonthStart(m + 1) <= MonthStart(n)
    BY <2>3, MonthsInOrder
  <2>5. n + 1 <= m => n < 11 /\ MonthStart(n + 1) <= MonthStart(m)
    BY <2>3, MonthsInOrder
  <2>6. m = n
    BY <1>1, <2>1, <2>2, <2>3, <2>4, <2>5
  <2>7. d.day = e.day
    BY <1>1, <2>2, <2>3, <2>6
  <2> QED
    BY <2>6, <2>7 DEF m, n
<1>8. d.month = e.month
  BY <1>1, <1>7 DEF MarchMonth
<1>9. d.year = e.year
  BY <1>1, <1>5, <1>8 DEF MarchYear
<1> QED
  BY <1>1, <1>7, <1>8, <1>9
-------------------------------------------------------------------------------
\* A second has one spelling: the days and the clock can be read off the
\* seconds, the date off the days, and the digits off the date and the clock.
LEMMA SecondOfDay ==
  ASSUME NEW h \in Int, NEW m \in Int, NEW s \in Int,
         0 <= h, h <= 23, 0 <= m, m <= 59, 0 <= s, s <= 59
  PROVE  0 <= h * 3600 + m * 60 + s /\ h * 3600 + m * 60 + s <= 86399
OBVIOUS

LEMMA OnePair ==
  ASSUME NEW t, NEW u, NEW i \in 1..14,
         Digit(t, i) \in 0..9, Digit(t, i + 1) \in 0..9,
         Digit(u, i) \in 0..9, Digit(u, i + 1) \in 0..9,
         t[i] \in Int, u[i] \in Int, t[i + 1] \in Int, u[i + 1] \in Int,
         Pair(t, i) = Pair(u, i)
  PROVE  t[i] = u[i] /\ t[i + 1] = u[i + 1]
<1>1. 10 * Digit(t, i) + Digit(t, i + 1) = 10 * Digit(u, i) + Digit(u, i + 1)
  BY DEF Pair
<1>2. Digit(t, i) = Digit(u, i) /\ Digit(t, i + 1) = Digit(u, i + 1)
  BY <1>1
<1> QED
  BY <1>2 DEF Digit

\* The bytes of two accepted texts that name the same date and clock.
LEMMA OneText ==
  ASSUME NEW t, NEW u, ParseAmzDate(t) # Malformed, ParseAmzDate(u) # Malformed,
         DateIn(t) = DateIn(u), ClockIn(t) = ClockIn(u)
  PROVE  \A i \in 1..16 : t[i] = u[i]
<1>1. /\ t[9] = 84 /\ t[16] = 90 /\ u[9] = 84 /\ u[16] = 90
      /\ \A i \in 1..15 : i = 9 \/ (Digit(t, i) \in 0..9 /\ Digit(u, i) \in 0..9)
      /\ \A i \in 1..15 : i = 9 \/ (t[i] \in Int /\ u[i] \in Int)
  BY AcceptedText DEF ParseAmzDate, IsStamp, IsDigit
<1>2. /\ 100 * Pair(t, 1) + Pair(t, 3) = 100 * Pair(u, 1) + Pair(u, 3)
      /\ Pair(t, 5) = Pair(u, 5) /\ Pair(t, 7) = Pair(u, 7)
      /\ Pair(t, 10) = Pair(u, 10) /\ Pair(t, 12) = Pair(u, 12) /\ Pair(t, 14) = Pair(u, 14)
  BY AcceptedText
<1>3. \A i \in {1, 3, 5, 7, 10, 12, 14} :
        /\ i \in 1..14 /\ i \in 1..15 /\ i + 1 \in 1..15 /\ i # 9 /\ i + 1 # 9
  OBVIOUS
<1>4. \A i \in {1, 3, 5, 7, 10, 12, 14} : Pair(t, i) = Pair(u, i)
  <2>1. \A i \in {1, 3} : Pair(t, i) \in 0..99 /\ Pair(u, i) \in 0..99
    <3> SUFFICES ASSUME NEW i \in {1, 3}
                 PROVE  Pair(t, i) \in 0..99 /\ Pair(u, i) \in 0..99
      OBVIOUS
    <3>1. /\ Digit(t, i) \in 0..9 /\ Digit(t, i + 1) \in 0..9
          /\ Digit(u, i) \in 0..9 /\ Digit(u, i + 1) \in 0..9
      BY <1>1
    <3> QED
      BY <3>1 DEF Pair
  <2> DEFINE a == Pair(t, 1)
             b == Pair(t, 3)
             c == Pair(u, 1)
             d == Pair(u, 3)
  <2>2. /\ a \in 0..99 /\ b \in 0..99 /\ c \in 0..99 /\ d \in 0..99
        /\ 100 * a + b = 100 * c + d
    BY <1>2, <2>1
  <2> HIDE DEF a, b, c, d
  <2>3. a = c /\ b = d
    BY <2>2
  <2> QED
    BY <1>2, <2>3 DEF a, b, c, d
<1>5. \A i \in {1, 3, 5, 7, 10, 12, 14} : t[i] = u[i] /\ t[i + 1] = u[i + 1]
  <2> SUFFICES ASSUME NEW i \in {1, 3, 5, 7, 10, 12, 14}
               PROVE  t[i] = u[i] /\ t[i + 1] = u[i + 1]
    OBVIOUS
  <2>1. /\ Digit(t, i) \in 0..9 /\ Digit(t, i + 1) \in 0..9
        /\ Digit(u, i) \in 0..9 /\ Digit(u, i + 1) \in 0..9
        /\ t[i] \in Int /\ t[i + 1] \in Int /\ u[i] \in Int /\ u[i + 1] \in Int
    BY <1>1, <1>3
  <2> QED
    BY <1>3, <1>4, <2>1, OnePair
<1>6. /\ t[1] = u[1] /\ t[2] = u[2] /\ t[3] = u[3] /\ t[4] = u[4]
      /\ t[5] = u[5] /\ t[6] = u[6] /\ t[7] = u[7] /\ t[8] = u[8]
      /\ t[10] = u[10] /\ t[11] = u[11] /\ t[12] = u[12] /\ t[13] = u[13]
      /\ t[14] = u[14] /\ t[15] = u[15]
  BY <1>5
<1>7. \A i \in 1..16 : \/ i = 1 \/ i = 2 \/ i = 3 \/ i = 4 \/ i = 5 \/ i = 6 \/ i = 7 \/ i = 8
                       \/ i = 9 \/ i = 10 \/ i = 11 \/ i = 12 \/ i = 13 \/ i = 14 \/ i = 15
                       \/ i = 16
  OBVIOUS
<1> QED
  BY <1>1, <1>6, <1>7

\* The days and the clock of an accepted text, read off its seconds.
LEMMA AcceptedSeconds ==
  ASSUME NEW v, ParseAmzDate(v) # Malformed
  PROVE  LET date == DateIn(v)
             clock == ClockIn(v)
             seconds == ParseAmzDate(v).epoch_seconds
         IN /\ seconds \div 86400 = DaysFromCivil(date)
            /\ seconds - 86400 * DaysFromCivil(date)
                 = 3600 * clock.hour + 60 * clock.minute + clock.second
<1> DEFINE date == DateIn(v)
           clock == ClockIn(v)
           seconds == ParseAmzDate(v).epoch_seconds
           h == clock.hour
           m == clock.minute
           s == clock.second
<1>1. /\ date \in Dates /\ h \in 0..23 /\ m \in 0..59 /\ s \in 0..59
      /\ seconds = DaysFromCivil(date) * 86400 + h * 3600 + m * 60 + s
  BY AcceptedText
<1> HIDE DEF date, seconds, h, m, s
<1>2. date.year \in Nat /\ date.month \in 1..12 /\ date.day \in 1..31
  BY <1>1 DEF Dates
<1>3. MarchYear(date) \in Int /\ MarchMonth(date) \in Int
  <2>1. date.year \in Int /\ date.year - 1 \in Int /\ date.month - 3 \in Int /\ date.month + 9 \in Int
    BY <1>2
  <2> QED
    BY <2>1 DEF MarchYear, MarchMonth
<1>4. Marches(MarchYear(date)) \in Int /\ MonthStart(MarchMonth(date)) \in Int
  BY <1>3 DEF Marches, MonthStart
<1>5. DaysFromCivil(date) = Marches(MarchYear(date)) + MarchDay(date) - 719468
  BY <1>1, CountFromMarch
<1>6. MarchDay(date) \in Int
  BY <1>2, <1>4 DEF MarchDay
<1>7. DaysFromCivil(date) \in Int
  BY <1>4, <1>5, <1>6
<1>8. /\ seconds \div 86400 = DaysFromCivil(date)
      /\ seconds - 86400 * DaysFromCivil(date) = 3600 * h + 60 * m + s
  <2> DEFINE rest == h * 3600 + m * 60 + s
             days == DaysFromCivil(date)
  <2>1. rest \in Int /\ 0 <= rest /\ rest <= 86399
    BY <1>1, SecondOfDay
  <2>2. seconds = days * 86400 + rest /\ rest = 3600 * h + 60 * m + s /\ days \in Int
    BY <1>1, <1>7
  <2> HIDE DEF rest, days
  <2>3. (days * 86400 + rest) \div 86400 = days
    BY <2>1, <2>2
  <2> QED
    BY <2>1, <2>2, <2>3 DEF days
<1> QED
  BY <1>8 DEF date, seconds, h, m, s

\* Two accepted texts of one second have one date and one clock.
LEMMA OneSecond ==
  ASSUME NEW t, NEW u, ParseAmzDate(t) # Malformed, ParseAmzDate(u) # Malformed,
         ParseAmzDate(u).epoch_seconds = ParseAmzDate(t).epoch_seconds
  PROVE  DateIn(t) = DateIn(u) /\ ClockIn(t) = ClockIn(u)
<1>1. DaysFromCivil(DateIn(t)) = DaysFromCivil(DateIn(u))
  BY AcceptedSeconds
<1>2. /\ DateIn(t) \in Dates /\ Accepted(DateIn(t))
      /\ DateIn(u) \in Dates /\ Accepted(DateIn(u))
  BY AcceptedText
<1>3. DateIn(t) = DateIn(u)
  BY <1>1, <1>2, OneDate
<1> DEFINE h == ClockIn(t).hour
           m == ClockIn(t).minute
           s == ClockIn(t).second
           i == ClockIn(u).hour
           n == ClockIn(u).minute
           r == ClockIn(u).second
<1>4. h \in 0..23 /\ m \in 0..59 /\ s \in 0..59 /\ i \in 0..23 /\ n \in 0..59 /\ r \in 0..59
  BY AcceptedText
<1>5. 3600 * h + 60 * m + s = 3600 * i + 60 * n + r
  BY <1>1, AcceptedSeconds
<1>6. /\ ClockIn(t) = [hour |-> h, minute |-> m, second |-> s]
      /\ ClockIn(u) = [hour |-> i, minute |-> n, second |-> r]
  BY DEF ClockIn
<1> HIDE DEF h, m, s, i, n, r
<1>7. h = i
  BY <1>4, <1>5
<1>8. m = n
  BY <1>4, <1>5, <1>7
<1>9. s = r
  BY <1>4, <1>5, <1>7, <1>8
<1> QED
  BY <1>3, <1>6, <1>7, <1>8, <1>9

\* Of all the texts there are, no two that parse_amz_date accepts name the
\* same second, and the days it counts are those of the date in the text.
THEOREM OneSpelling ==
  ASSUME NEW t \in Seq(Int), ParseAmzDate(t) # Malformed
  PROVE  /\ ParseAmzDate(t).epoch_seconds \div 86400 = DaysFromCivil(DateIn(t))
         /\ \A u \in Seq(Int) :
              /\ ParseAmzDate(u) # Malformed
              /\ ParseAmzDate(u).epoch_seconds = ParseAmzDate(t).epoch_seconds
              => u = t
<1>1. SUFFICES ASSUME NEW u \in Seq(Int), ParseAmzDate(u) # Malformed,
                      ParseAmzDate(u).epoch_seconds = ParseAmzDate(t).epoch_seconds
               PROVE  u = t
  BY AcceptedSeconds
<1>2. DateIn(t) = DateIn(u) /\ ClockIn(t) = ClockIn(u)
  BY <1>1, OneSecond
<1>3. \A i \in 1..16 : t[i] = u[i]
  BY <1>1, <1>2, OneText
<1>4. Len(t) = 16 /\ Len(u) = 16
  BY <1>1, AcceptedText
<1> QED
  BY <1>1, <1>3, <1>4, SeqEqual
-------------------------------------------------------------------------------
\* The texts of a day that are accepted are the times of that day as they are
\* written: a byte gone, too many or of another kind is noticed.
ClockValues == [hour : Nat, minute : Nat, second : Nat]

LEMMA TwoDigits ==
  ASSUME NEW n \in Nat
  PROVE  Tens(n) \in Int /\ Ones(n) \in Int /\ 10 * (Tens(n) - 48) + (Ones(n) - 48) = n
<1>1. n = 10 * (n \div 10) + (n % 10) /\ n \div 10 \in Int /\ n % 10 \in Int
  OBVIOUS
<1> QED
  BY <1>1 DEF Tens, Ones

LEMMA DateBytes ==
  ASSUME NEW date \in Dates
  PROVE  DateText(date) \in Seq(Int) /\ Len(DateText(date)) = 8
<1>1. /\ date.year \div 100 \in Nat /\ date.year % 100 \in Nat
      /\ date.month \in Nat /\ date.day \in Nat
  BY DEF Dates
<1>2. /\ Tens(date.year \div 100) \in Int /\ Ones(date.year \div 100) \in Int
      /\ Tens(date.year % 100) \in Int /\ Ones(date.year % 100) \in Int
      /\ Tens(date.month) \in Int /\ Ones(date.month) \in Int
      /\ Tens(date.day) \in Int /\ Ones(date.day) \in Int
  BY <1>1, TwoDigits
<1> QED
  BY <1>2 DEF DateText

LEMMA ClockBytes ==
  ASSUME NEW clock \in ClockValues
  PROVE  ClockText(clock) \in Seq(Int) /\ Len(ClockText(clock)) = 8
<1>1. clock.hour \in Nat /\ clock.minute \in Nat /\ clock.second \in Nat
  BY DEF ClockValues
<1>2. /\ Tens(clock.hour) \in Int /\ Ones(clock.hour) \in Int
      /\ Tens(clock.minute) \in Int /\ Ones(clock.minute) \in Int
      /\ Tens(clock.second) \in Int /\ Ones(clock.second) \in Int
  BY <1>1, TwoDigits
<1> QED
  BY <1>2 DEF ClockText

LEMMA StampBytes ==
  ASSUME NEW date \in Dates, NEW clock \in ClockValues
  PROVE  /\ Stamp(date, clock) \in Seq(Int) /\ Len(Stamp(date, clock)) = 16
         /\ \A i \in 1..8 : /\ Stamp(date, clock)[i] = DateText(date)[i]
                            /\ Stamp(date, clock)[i + 8] = ClockText(clock)[i]
<1> DEFINE d == DateText(date)
           c == ClockText(clock)
<1>1. d \in Seq(Int) /\ Len(d) = 8 /\ c \in Seq(Int) /\ Len(c) = 8
  BY DateBytes, ClockBytes
<1> HIDE DEF d, c
<1>2. /\ d \o c \in Seq(Int) /\ Len(d \o c) = 16
      /\ \A i \in 1..16 : (d \o c)[i] = IF i <= 8 THEN d[i] ELSE c[i - 8]
  <2>1. /\ d \o c \in Seq(Int) /\ Len(d \o c) = Len(d) + Len(c)
        /\ \A i \in 1..(Len(d) + Len(c)) : (d \o c)[i] = IF i <= Len(d) THEN d[i] ELSE c[i - Len(d)]
    BY <1>1, ConcatProperties, Zenon
  <2>2. Len(d) + Len(c) = 16 /\ Len(d) = 8
    BY <1>1
  <2> QED
    BY <2>1, <2>2, Zenon
<1>3. \A i \in 1..8 : i \in 1..16 /\ i <= 8 /\ i + 8 \in 1..16 /\ ~(i + 8 <= 8) /\ (i + 8) - 8 = i
  OBVIOUS
<1>4. \A i \in 1..8 : (d \o c)[i] = d[i] /\ (d \o c)[i + 8] = c[i]
  <2> SUFFICES ASSUME NEW i \in 1..8
               PROVE  (d \o c)[i] = d[i] /\ (d \o c)[i + 8] = c[i]
    OBVIOUS
  <2>1. (d \o c)[i] = d[i]
    BY <1>2, <1>3, Zenon
  <2>2. (d \o c)[i + 8] = c[(i + 8) - 8]
    BY <1>2, <1>3, Zenon
  <2> QED
    BY <1>3, <2>1, <2>2, Zenon
<1> QED
  BY <1>2, <1>4, Zenon DEF d, c, Stamp

\* A date that is written is read again.
LEMMA StampSays ==
  ASSUME NEW date \in Dates, NEW clock \in ClockValues,
         ParseAmzDate(Stamp(date, clock)) # Malformed
  PROVE  /\ DateIn(Stamp(date, clock)) = date
         /\ ParseAmzDate(Stamp(date, clock)).date = DateText(date)
<1> DEFINE text == Stamp(date, clock)
           century == date.year \div 100
           year == date.year % 100
<1>1. /\ century \in Nat /\ year \in Nat /\ date.year = 100 * century + year
      /\ date.month \in Nat /\ date.day \in Nat
      /\ date = [year |-> date.year, month |-> date.month, day |-> date.day]
  BY DEF Dates
<1>2. /\ text[1] = Tens(century) /\ text[2] = Ones(century)
      /\ text[3] = Tens(year) /\ text[4] = Ones(year)
      /\ text[5] = Tens(date.month) /\ text[6] = Ones(date.month)
      /\ text[7] = Tens(date.day) /\ text[8] = Ones(date.day)
  <2>1. \A i \in 1..8 : text[i] = DateText(date)[i]
    BY StampBytes
  <2> HIDE DEF text
  <2> QED
    BY <2>1 DEF DateText
<1>3. /\ DateIn(text).year = 100 * Pair(text, 1) + Pair(text, 3)
      /\ DateIn(text).month = Pair(text, 5) /\ DateIn(text).day = Pair(text, 7)
  BY AcceptedText
<1>4. DateIn(text) = [year |-> DateIn(text).year, month |-> DateIn(text).month,
                      day |-> DateIn(text).day]
  BY DEF DateIn, Date
<1>5. ParseAmzDate(text).date = SubSeq(text, 1, 8)
  BY AcceptedText
<1>6. SubSeq(text, 1, 8) = DateText(date)
  <2>1. \A i \in 1..8 : text[i] = DateText(date)[i] /\ DateText(date)[i] \in Int
    BY StampBytes, DateBytes, ElementOfSeq
  <2> HIDE DEF text
  <2>2. /\ SubSeq(text, 1, 8) \in Seq(Int) /\ Len(SubSeq(text, 1, 8)) = 8
        /\ \A i \in 1..8 : SubSeq(text, 1, 8)[i] = text[i]
    <3>1. \A i \in 1..8 : text[i] \in Int
      BY <2>1
    <3>2. /\ SubSeq(text, 1, 8) \in Seq(Int)
          /\ Len(SubSeq(text, 1, 8)) = IF 1 <= 8 THEN 8 - 1 + 1 ELSE 0
          /\ \A i \in 1..(8 - 1 + 1) : SubSeq(text, 1, 8)[i] = text[1 + i - 1]
      BY <3>1, SubSeqProperties
    <3>3. \A i \in 1..8 : i \in 1..(8 - 1 + 1) /\ 1 + i - 1 = i
      OBVIOUS
    <3> QED
      BY <3>2, <3>3
  <2> QED
    BY <2>1, <2>2, DateBytes, SeqEqual
<1> HIDE DEF text, century, year
<1>7. /\ Pair(text, 1) = century /\ Pair(text, 3) = year
      /\ Pair(text, 5) = date.month /\ Pair(text, 7) = date.day
  BY <1>1, <1>2, TwoDigits DEF Pair, Digit
<1>8. DateIn(text) = date
  BY <1>1, <1>3, <1>4, <1>7
<1> QED
  BY <1>5, <1>6, <1>8 DEF text

LEMMA OneMore ==
  ASSUME NEW s \in Seq(Int), NEW b \in Int
  PROVE  Len(Append(s, b)) = Len(s) + 1
OBVIOUS

LEMMA OneLess ==
  ASSUME NEW s \in Seq(Int), s # << >>
  PROVE  Len(Tail(s)) = Len(s) - 1
BY HeadTailProperties

LEMMA NotEmpty ==
  ASSUME NEW s, Len(s) = 16
  PROVE  s # << >>
OBVIOUS

LEMMA FirstFifteen ==
  ASSUME NEW s, \A i \in 1..15 : s[i] \in Int
  PROVE  Len(SubSeq(s, 1, 15)) = 15
OBVIOUS

\* Of the texts with a byte changed, only the letters can be accepted.
LEMMA NoStrays ==
  ASSUME NEW date \in Dates, NEW text \in Stamps(date), ParseAmzDate(text) # Malformed
  PROVE  \E clock \in ClockValues : text = Stamp(date, clock)
<1> DEFINE zero == [hour |-> 0, minute |-> 0, second |-> 0]
           midnight == Stamp(date, zero)
<1>1. zero \in ClockValues
  BY DEF ClockValues
<1>2. midnight \in Seq(Int) /\ Len(midnight) = 16 /\ midnight[9] = 84 /\ midnight[16] = 90
  <2>1. /\ midnight \in Seq(Int) /\ Len(midnight) = 16
        /\ \A i \in 1..8 : midnight[i + 8] = ClockText(zero)[i]
    BY <1>1, StampBytes
  <2>2. ClockText(zero)[1] = 84 /\ ClockText(zero)[8] = 90
    BY DEF ClockText
  <2> HIDE DEF midnight, zero
  <2>3. 1 \in 1..8 /\ 8 \in 1..8 /\ 1 + 8 = 9 /\ 8 + 8 = 16
    OBVIOUS
  <2>4. midnight[1 + 8] = ClockText(zero)[1] /\ midnight[8 + 8] = ClockText(zero)[8]
    BY <2>1, <2>3, Zenon
  <2> QED
    BY <2>1, <2>2, <2>3, <2>4
<1>3. \/ \E clock \in Clocks : text = Stamp(date, clock)
      \/ \E i \in 1..16, b \in Strays : text = ReplaceAt(midnight, i, b)
      \/ text \in {Front(midnight), Tail(midnight)} \cup {Append(midnight, b) : b \in Strays}
  BY DEF Stamps
<1> HIDE DEF midnight, zero
<1>4. Len(text) = 16 /\ text[9] = 84 /\ text[16] = 90 /\ \A i \in 1..15 : i = 9 \/ text[i] \in 48..57
  BY DEF ParseAmzDate, IsStamp, IsDigit
<1>5. CASE \E clock \in Clocks : text = Stamp(date, clock)
  BY <1>5, ClocksAssumption DEF ClockValues
<1>6. ASSUME NEW i \in 1..16, NEW b \in Strays, text = ReplaceAt(midnight, i, b)
      PROVE  text = midnight
  <2>1. DOMAIN midnight = 1..16 /\ midnight = [k \in 1..16 |-> midnight[k]]
    BY <1>2, LenProperties
  <2>2. text = [midnight EXCEPT ![i] = b]
    BY <1>6 DEF ReplaceAt
  <2>3. text[i] = b
    BY <2>1, <2>2
  <2>4. i \in {9, 16}
    BY <1>4, <2>3, StraysAssumption
  <2>5. b = midnight[i]
    BY <1>2, <1>4, <2>3, <2>4
  <2> QED
    BY <2>1, <2>2, <2>5
<1>7. text \notin {Front(midnight), Tail(midnight)} \cup {Append(midnight, b) : b \in Strays}
  <2>1. Len(Front(midnight)) = 15
    <3>1. \A i \in 1..15 : midnight[i] \in Int
      <4>1. \A i \in 1..15 : i \in 1..Len(midnight)
        BY <1>2
      <4> QED
        BY <1>2, <4>1, ElementOfSeq, Zenon
    <3>2. Len(midnight) - 1 = 15
      BY <1>2
    <3>3. Len(SubSeq(midnight, 1, 15)) = 15
      BY <3>1, FirstFifteen, Zenon
    <3> QED
      BY <3>2, <3>3, Zenon DEF Front
  <2>2. Len(Tail(midnight)) = 15
    <3>1. midnight # << >>
      BY <1>2, NotEmpty, Zenon
    <3>2. Len(Tail(midnight)) = Len(midnight) - 1
      BY <1>2, <3>1, OneLess, Zenon
    <3> QED
      BY <1>2, <3>2
  <2>3. \A b \in Strays : Len(Append(midnight, b)) = 17
    <3> SUFFICES ASSUME NEW b \in Strays
                 PROVE  Len(Append(midnight, b)) = 17
      OBVIOUS
    <3>1. b \in Int
      BY StraysAssumption
    <3>2. Len(Append(midnight, b)) = Len(midnight) + 1
      BY <1>2, <3>1, OneMore, Zenon
    <3>3. Len(midnight) + 1 = 17
      BY <1>2
    <3> QED
      BY <3>2, <3>3, Zenon
  <2>4. Len(text) # 15 /\ Len(text) # 17
    BY <1>4
  <2>5. ASSUME NEW b \in Strays PROVE text # Append(midnight, b)
    BY <2>3, <2>4
  <2> QED
    BY <2>1, <2>2, <2>4, <2>5, Zenon
<1> QED
  BY <1>1, <1>3, <1>5, <1>6, <1>7 DEF midnight

\* In every year and for every set of clocks and strays.
THEOREM SecondsHaveTheirDate == Spec => []SecondsBelongToTheirDate
<1>1. DayInv => SecondsBelongToTheirDate
  <2> SUFFICES ASSUME DayInv PROVE SecondsBelongToTheirDate
    OBVIOUS
  <2> DEFINE accepted == {text \in Stamps(day) : ParseAmzDate(text) # Malformed}
  <2>1. \A text \in accepted : \E clock \in ClockValues : text = Stamp(day, clock)
    BY NoStrays DEF DayInv
  <2>2. \A text \in accepted :
          /\ text \in Seq(Int) /\ DateIn(text) = day
          /\ ParseAmzDate(text).date = DateText(day)
    <3> SUFFICES ASSUME NEW text \in accepted
                 PROVE  /\ text \in Seq(Int) /\ DateIn(text) = day
                        /\ ParseAmzDate(text).date = DateText(day)
      OBVIOUS
    <3>1. PICK clock \in ClockValues : text = Stamp(day, clock)
      BY <2>1
    <3>2. day \in Dates /\ ParseAmzDate(text) # Malformed
      BY DEF DayInv
    <3>3. text \in Seq(Int)
      BY <3>1, <3>2, StampBytes
    <3> QED
      BY <3>1, <3>2, <3>3, StampSays
  <2>3. \A text \in accepted : ParseAmzDate(text).epoch_seconds \div 86400 = DaysFromCivil(day)
    BY <2>2, OneSpelling
  <2>4. \A t, u \in accepted :
          ParseAmzDate(t).epoch_seconds = ParseAmzDate(u).epoch_seconds => t = u
    BY <2>2, OneSpelling
  <2> HIDE DEF accepted
  <2> QED
    BY <2>2, <2>3, <2>4 DEF SecondsBelongToTheirDate, accepted
<1> QED
  BY <1>1, WalkStaysInCalendar, PTL
===============================================================================
