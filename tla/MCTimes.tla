------------------------------- MODULE MCTimes --------------------------------
(* Small instances of CivilDate and Durations for TLC.  The two never meet: *)
(* a behaviour is a walk through the calendar, with the words at their end, *)
(* or a text that grows, with the calendar at its end.                      *)
EXTENDS CivilDate, Durations

\* Seconds since 1970 fit TLC's 32-bit integers in these years.
CountableYears == 1903..2036

\* The first and the last value of each field, and the first one past it.
SomeClocks == [hour : {0, 23, 24}, minute : {0, 59, 60}, second : {0, 59, 60}]

\* 0 1 3 6 9 s m h d x
SomeBytes == {48, 49, 51, 54, 57, 115, 109, 104, 100, 120}

CalendarInit == Init /\ input = <<48>> /\ total = 0 /\ number = 0 /\ phase = "done"

WordsInit == DurationInit /\ day = Date(0, 1, 1) /\ start = -Span

EitherNext ==
  \/ NextDay /\ UNCHANGED durationVars
  \/ DurationNext /\ UNCHANGED vars

EitherSpec == (CalendarInit \/ WordsInit) /\ [][EitherNext]_<<vars, durationVars>>
===============================================================================
