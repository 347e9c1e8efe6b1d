------------------------------- MODULE CivilDate -------------------------------
(***************************************************************************)
(* X-Amz-Date: parse_amz_date and days_from_civil                          *)
(* (rust/sigv4-verifier/src/lib.rs), from the sixteen bytes of the text to *)
(* the seconds since 1970.  Verify counts time in seconds; this is where   *)
(* the count comes from.                                                   *)
(*                                                                         *)
(* The state is a calendar day that walks through the years.  Years have   *)
(* four digits, so no sum leaves its width.                                *)
(***************************************************************************)
EXTENDS Integers, SequencesExt

CONSTANTS
  FirstYears,   \* where the walks start, each at the first of January
  Span,         \* bound: how many years a walk takes
  SecondYears,  \* bound: years whose seconds are counted
  Clocks,       \* hours, minutes and seconds, good and bad
  Strays,       \* bytes that are no digits
  Malformed

ASSUME YearsAssumption == FirstYears \subseteq Nat

ASSUME ClocksAssumption == Clocks \subseteq [hour : Nat, minute : Nat, second : Nat]

ASSUME StraysAssumption == Strays \subseteq Int \ 48..57

VARIABLES day, start

vars == <<day, start>>

Date(year, month, d) == [year |-> year, month |-> month, day |-> d]

\* Mutant: every fourth year is a leap year.
IsLeapYearJulian(year) == year % 4 = 0

IsLeapYear(year) ==
  \/ year % 4 = 0 /\ year % 100 # 0
  \/ year % 400 = 0

DaysInMonth(year, month) ==
  CASE month \in {1, 3, 5, 7, 8, 10, 12} -> 31
    [] month \in {4, 6, 9, 11}           -> 30
    [] month = 2                         -> IF IsLeapYear(year) THEN 29 ELSE 28
    [] OTHER                             -> 0

\* Rust's division rounds towards zero.
Quotient(a, b) == IF a >= 0 THEN a \div b ELSE -((-a) \div b)

\* Mutant: January and February are not counted to the year before.
DaysFromCivilJanuaryFirst(date) ==
  LET year == date.year
      era  == Quotient(IF year >= 0 THEN year ELSE year - 399, 400)
      yoe  == year - era * 400
      mp   == date.month + IF date.month > 2 THEN -3 ELSE 9
      doy  == (153 * mp + 2) \div 5 + date.day - 1
      doe  == yoe * 365 + yoe \div 4 - yoe \div 100 + doy
  IN era * 146097 + doe - 719468

DaysFromCivil(date) ==
  LET year == date.year - IF date.month <= 2 THEN 1 ELSE 0
      era  == Quotient(IF year >= 0 THEN year ELSE year - 399, 400)
      yoe  == year - era * 400
      mp   == date.month + IF date.month > 2 THEN -3 ELSE 9
      doy  == (153 * mp + 2) \div 5 + date.day - 1
      doe  == yoe * 365 + yoe \div 4 - yoe \div 100 + doy
  IN era * 146097 + doe - 719468

\* Mutant: a leap second is let through.
BadClockLeapSecond(clock) == clock.hour > 23 \/ clock.minute > 59 \/ clock.second > 60

BadClock(clock) == clock.hour > 23 \/ clock.minute > 59 \/ clock.second > 59

ValidFields(date, clock) ==
  /\ date.month \in 1..12
  /\ date.day \in 1..DaysInMonth(date.year, date.month)
  /\ ~BadClock(clock)

IsDigit(b) == b \in 48..57

\* YYYYMMDDThhmmssZ
IsStamp(text) ==
  /\ Len(text) = 16
  /\ text[9] = 84 /\ text[16] = 90
  /\ \A i \in 1..15 : i = 9 \/ IsDigit(text[i])

ParseDigits(text, from, to) ==
  LET out[i \in (from - 1)..to] == IF i < from THEN 0 ELSE 10 * out[i - 1] + (text[i] - 48)
  IN out[to]

DateIn(text) ==
  Date(ParseDigits(text, 1, 4), ParseDigits(text, 5, 6), ParseDigits(text, 7, 8))

ClockIn(text) ==
  [ hour   |-> ParseDigits(text, 10, 11),
    minute |-> ParseDigits(text, 12, 13),
    second |-> ParseDigits(text, 14, 15) ]

ParseAmzDate(text) ==
  IF ~IsStamp(text) \/ ~ValidFields(DateIn(text), ClockIn(text)) THEN Malformed
  ELSE LET clock == ClockIn(text) IN
       [ date          |-> SubSeq(text, 1, 8),
         epoch_seconds |-> DaysFromCivil(DateIn(text)) * 86400
                             + clock.hour * 3600 + clock.minute * 60 + clock.second ]

Accepted(date) == ValidFields(date, [hour |-> 0, minute |-> 0, second |-> 0])

Init == \E year \in FirstYears : day = Date(year, 1, 1) /\ start = year

\* The day after: in the same month if that is a date, else in the next
\* month, else in the next year.
NextDay ==
  LET tomorrow   == [day EXCEPT !.day = @ + 1]
      next_month == Date(day.year, day.month + 1, 1)
      next_year  == Date(day.year + 1, 1, 1)
  IN /\ day' = IF Accepted(tomorrow) THEN tomorrow
               ELSE IF Accepted(next_month) THEN next_month ELSE next_year
     /\ day'.year < start + Span
     /\ UNCHANGED start

Spec == Init /\ [][NextDay]_vars
-------------------------------------------------------------------------------
\* From one date to the next the count goes up by one: over the ends of
\* months, leap days, centuries and the era before the year zero.
DaysAreCounted == [][DaysFromCivil(day') = DaysFromCivil(day) + 1]_vars

\* The dates that exist are those of the Gregorian calendar, with the leap
\* years stated by other divisors, and the count starts where Unix time does.
CalendarIsGregorian ==
  LET leap == day.year % 16 = 0 \/ (day.year % 4 = 0 /\ day.year % 25 # 0)
      into_the_year == DaysFromCivil(day) - DaysFromCivil(Date(day.year, 1, 1))
  IN /\ day.month = 2 /\ day.day = 29 => leap
     /\ day.month = 12 /\ day.day = 31 => into_the_year = IF leap THEN 365 ELSE 364
     /\ day = Date(1970, 1, 1) => DaysFromCivil(day) = 0
     /\ day = Date(2024, 5, 24) => DaysFromCivil(day) = 19867

\* Two digits of a number, as bytes.
Tens(n) == 48 + n \div 10
Ones(n) == 48 + (n % 10)

DateText(date) ==
  LET century == date.year \div 100
      year    == date.year % 100
  IN << Tens(century), Ones(century), Tens(year), Ones(year),
        Tens(date.month), Ones(date.month), Tens(date.day), Ones(date.day) >>

ClockText(clock) ==
  << 84, Tens(clock.hour), Ones(clock.hour), Tens(clock.minute), Ones(clock.minute),
     Tens(clock.second), Ones(clock.second), 90 >>

Stamp(date, clock) == DateText(date) \o ClockText(clock)

\* The times of a day as they are written, and one of them with a byte gone,
\* too many or of another kind.
Stamps(date) ==
  LET midnight == Stamp(date, [hour |-> 0, minute |-> 0, second |-> 0]) IN
  {Stamp(date, clock) : clock \in Clocks}
    \cup {ReplaceAt(midnight, i, b) : i \in 1..16, b \in Strays}
    \cup {Front(midnight), Tail(midnight)} \cup {Append(midnight, b) : b \in Strays}

\* Every time that is accepted falls on the date it is written with, and a
\* second has one spelling: verify may compare the date of the credential
\* scope as text and the lifetime as seconds, and nobody can write a signed
\* date another way.
SecondsBelongToTheirDate ==
  day.year \in SecondYears =>
  LET accepted == {text \in Stamps(day) : ParseAmzDate(text) # Malformed} IN
  /\ \A text \in accepted :
       /\ ParseAmzDate(text).date = DateText(day)
       /\ ParseAmzDate(text).epoch_seconds \div 86400 = DaysFromCivil(day)
  /\ \A t, u \in accepted :
       ParseAmzDate(t).epoch_seconds = ParseAmzDate(u).epoch_seconds => t = u
===============================================================================
