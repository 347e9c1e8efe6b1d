------------------------------- MODULE Durations -------------------------------
(***************************************************************************)
(* parse_duration (rust/module-config/src/lib.rs): the loop over a         *)
(* duration such as 90s or 1h30m, one byte per step, in unsigned words     *)
(* with a check on every product and sum.                                  *)
(***************************************************************************)
EXTENDS Integers, SequencesExt

CONSTANTS
  MaxWord,     \* u64::MAX
  Alphabet,    \* ASCII codes of the inputs' bytes
  MaxLength    \* bound: bytes of an input

ASSUME WordAssumption == MaxWord \in Nat

VARIABLES
  input,    \* history: the bytes read
  total, number,
  phase     \* "segment": a digit must follow; "number"; "done"; "error"

durationVars == <<input, total, number, phase>>

IsAsciiDigit(b) == b \in 48..57

\* s, m, h, d and w
UnitLetters == {115, 109, 104, 100, 119}

UnitSeconds(unit) ==
  CASE unit = 115 -> 1
    [] unit = 109 -> 60
    [] unit = 104 -> 60 * 60
    [] unit = 100 -> 24 * 60 * 60
    [] unit = 119 -> 7 * 24 * 60 * 60

\* Mutant: the largest word counts as an overflow.
FitsBelow(n) == n < MaxWord

\* checked_mul and checked_add succeed.
Fits(n) == n <= MaxWord

DurationInit == input = <<>> /\ total = 0 /\ number = 0 /\ phase = "segment"

Read(b) ==
  /\ phase \in {"segment", "number"}
  /\ Len(input) < MaxLength
  /\ input' = Append(input, b)

Error == phase' = "error" /\ UNCHANGED <<total, number>>

Digit(b) ==
  /\ IsAsciiDigit(b)
  /\ Read(b)
  /\ IF Fits(number * 10) /\ Fits(number * 10 + (b - 48))
     THEN phase' = "number" /\ number' = number * 10 + (b - 48) /\ UNCHANGED total
     ELSE Error

\* Mutant: the sum of the segments is not checked and wraps.
LetterUnchecked(c) ==
  /\ ~IsAsciiDigit(c)
  /\ Read(c)
  /\ IF phase = "number" /\ c \in UnitLetters /\ Fits(number * UnitSeconds(c))
     THEN /\ total' = (total + number * UnitSeconds(c)) % (MaxWord + 1)
          /\ phase' = "segment" /\ number' = 0
     ELSE Error

Letter(c) ==
  /\ ~IsAsciiDigit(c)
  /\ Read(c)
  /\ IF /\ phase = "number" /\ c \in UnitLetters
        /\ Fits(number * UnitSeconds(c)) /\ Fits(total + number * UnitSeconds(c))
     THEN /\ total' = total + number * UnitSeconds(c)
          /\ phase' = "segment" /\ number' = 0
     ELSE Error

\* The input ends; a number without a unit is in seconds.
End ==
  /\ phase \in {"segment", "number"}
  /\ UNCHANGED input
  /\ IF input = <<>> \/ (phase = "number" /\ ~Fits(total + number)) THEN Error
     ELSE phase' = "done" /\ total' = total + number /\ number' = 0

DurationNext == (\E b \in Alphabet : Digit(b) \/ Letter(b)) \/ End

DurationSpec == DurationInit /\ [][DurationNext]_durationVars
-------------------------------------------------------------------------------
\* What a duration means, read off the text with integers that have no width.
DigitPlaces(text) == {i \in DOMAIN text : IsAsciiDigit(text[i])}

IsDuration(text) ==
  /\ text # <<>> /\ 1 \in DigitPlaces(text)
  /\ \A i \in DOMAIN text \ DigitPlaces(text) :
       text[i] \in UnitLetters /\ i - 1 \in DigitPlaces(text)

PowerOfTen[n \in Nat] == IF n = 0 THEN 1 ELSE 10 * PowerOfTen[n - 1]

\* Where the unit of the digit at a place stands; past the end it is the second.
UnitPlace(text, i) == Min({j \in (i + 1)..Len(text) : ~IsAsciiDigit(text[j])} \cup {Len(text) + 1})

UnitAt(text, j) == IF j > Len(text) THEN 1 ELSE UnitSeconds(text[j])

\* What a place adds: nothing for a letter.
Worth(text, i) ==
  IF ~IsAsciiDigit(text[i]) THEN 0
  ELSE (text[i] - 48) * PowerOfTen[UnitPlace(text, i) - 1 - i] * UnitAt(text, UnitPlace(text, i))

\* What the places up to each one add together.
UpTo(text) ==
  LET sum[i \in 0..Len(text)] == IF i = 0 THEN 0 ELSE sum[i - 1] + Worth(text, i) IN sum

Meaning(text) == UpTo(text)[Len(text)]

\* What is accepted is a duration and its length is exact: no step of the
\* loop loses a carry, whatever the order and size of the segments.
AcceptedIsExact == phase = "done" => IsDuration(input) /\ total = Meaning(input)

\* What is refused is no duration, or is longer than a word can hold.
RefusedIsDue == phase = "error" => ~IsDuration(input) \/ Meaning(input) > MaxWord
===============================================================================
