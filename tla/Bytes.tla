--------------------------------- MODULE Bytes ---------------------------------
(***************************************************************************)
(* The byte helpers of the verifier (rust/sigv4-verifier/src/lib.rs).  A   *)
(* byte is a number, its ASCII code.  Every loop of the source over a      *)
(* percent-encoded text moves by one byte, or by three over a well-formed  *)
(* escape; Units is that walk, and each loop a map over it.                *)
(***************************************************************************)
EXTENDS Integers, SequencesExt

Percent == 37

Digits == 48..57

IsHex(b) == b \in Digits \cup 65..70 \cup 97..102

UpperHex(b) == IF b \in 97..122 THEN b - 32 ELSE b

FromHex(b) == IF b \in Digits THEN b - 48 ELSE UpperHex(b) - 55

HexUpper(n) == IF n < 10 THEN n + 48 ELSE n + 55

\* Letters, digits and - . _ ~
IsUnreserved(b) == b \in Digits \cup 65..90 \cup 97..122 \cup {45, 46, 95, 126}

Escaped(b) == <<Percent, HexUpper(b \div 16), HexUpper(b % 16)>>

EscapeAt(raw, i) ==
  /\ raw[i] = Percent
  /\ i + 2 <= Len(raw)
  /\ IsHex(raw[i + 1])
  /\ IsHex(raw[i + 2])

\* The walk: a single byte, or the three of an escape.
Units(raw) ==
  LET from[i \in 1..(Len(raw) + 1)] ==
        IF i > Len(raw) THEN <<>>
        ELSE IF EscapeAt(raw, i) THEN <<SubSeq(raw, i, i + 2)>> \o from[i + 3]
        ELSE <<SubSeq(raw, i, i)>> \o from[i + 1]
  IN from[1]

WellFormed(raw) == <<Percent>> \notin ToSet(Units(raw))

ByteOf(unit) ==
  IF Len(unit) = 1 THEN unit[1] ELSE FromHex(unit[2]) * 16 + FromHex(unit[3])

\* percent_decode of a well-formed text.
Decode(raw) == [k \in DOMAIN Units(raw) |-> ByteOf(Units(raw)[k])]

\* The pieces between separators; a text that ends with one ends in an empty piece.
Split(raw, separator) ==
  LET from[i \in 1..(Len(raw) + 1)] ==
        LET end == Min({k \in i..Len(raw) : raw[k] = separator} \cup {Len(raw) + 1}) IN
        <<SubSeq(raw, i, end - 1)>> \o IF end > Len(raw) THEN <<>> ELSE from[end + 1]
  IN from[1]
===============================================================================
