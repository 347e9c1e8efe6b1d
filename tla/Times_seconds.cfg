SPECIFICATION EitherSpec
CONSTANTS
  FirstYears = {0, 3, 99, 398, 1899, 1969, 1999, 2023, 2099, 9997}
  Span = 3
  SecondYears <- CountableYears
  Clocks <- SomeClocks
  Strays = {32, 43, 47, 58, 84}
  Malformed = Malformed
  MaxWord = 3999
  Alphabet <- SomeBytes
  MaxLength = 7
CHECK_DEADLOCK FALSE
INVARIANTS
  CalendarIsGregorian
  SecondsBelongToTheirDate
  AcceptedIsExact
  RefusedIsDue
PROPERTIES
  DaysAreCounted
