------------------------------- MODULE PathCanon -------------------------------
(***************************************************************************)
(* The path of a request, byte by byte: validate_raw_path,                 *)
(* canonical_uri_from_valid_path and path_matches_prefix                   *)
(* (rust/sigv4-verifier/src/lib.rs).  The policy reads the raw path, the   *)
(* signature covers the canonical one and the server behind reads a        *)
(* decoded one.                                                            *)
(***************************************************************************)
EXTENDS Bytes

Slash == 47

Dots == {<<46>>, <<46, 46>>}

\* The segments of a path, without the empty one before its first slash.
Segments(path) == Tail(Split(path, Slash))

\* %2F and %5C in any case.
EscapedSeparator(unit) ==
  /\ Len(unit) = 3
  /\ <<UpperHex(unit[2]), UpperHex(unit[3])>> \in {<<50, 70>>, <<53, 67>>}

\* Mutant: dot segments are looked for without decoding them.
ValidateRawPathLiteralDots(path) ==
  /\ path # <<>> /\ path[1] = Slash
  /\ \A i \in 1..(Len(path) - 1) : ~(path[i] = Slash /\ path[i + 1] = Slash)
  /\ \A b \in ToSet(path) : b > 32 /\ b # 127
  /\ WellFormed(path)
  /\ \A unit \in ToSet(Units(path)) : ~EscapedSeparator(unit)
  /\ \A segment \in ToSet(Segments(path)) : segment \notin Dots

ValidateRawPath(path) ==
  /\ path # <<>> /\ path[1] = Slash
  /\ \A i \in 1..(Len(path) - 1) : ~(path[i] = Slash /\ path[i + 1] = Slash)
  /\ \A b \in ToSet(path) : b > 32 /\ b # 127
  /\ WellFormed(path)
  /\ \A unit \in ToSet(Units(path)) : ~EscapedSeparator(unit)
  /\ \A segment \in ToSet(Segments(path)) : Decode(segment) \notin Dots

\* Mutant: an escape is taken over in the case it came in.
CanonicalUnitAnyCase(unit) ==
  IF Len(unit) = 3 \/ unit[1] = Slash \/ IsUnreserved(unit[1]) THEN unit ELSE Escaped(unit[1])

CanonicalUnit(unit) ==
  IF Len(unit) = 3 THEN <<Percent, UpperHex(unit[2]), UpperHex(unit[3])>>
  ELSE IF unit[1] = Slash \/ IsUnreserved(unit[1]) THEN unit
  ELSE Escaped(unit[1])

\* The path can be borrowed as it is.
IsCanonicalPath(path) ==
  \A unit \in ToSet(Units(path)) :
    IF Len(unit) = 3 THEN unit[2] = UpperHex(unit[2]) /\ unit[3] = UpperHex(unit[3])
    ELSE unit[1] = Slash \/ IsUnreserved(unit[1])

CanonicalUri(path) ==
  IF IsCanonicalPath(path) THEN path
  ELSE FlattenSeq([k \in DOMAIN Units(path) |-> CanonicalUnit(Units(path)[k])])

\* Mutant: a prefix may end in the middle of a segment.
PathMatchesPrefixAnywhere(path, prefix) == IsPrefix(prefix, path)

PathMatchesPrefix(path, prefix) ==
  /\ IsPrefix(prefix, path)
  /\ \/ Len(prefix) = Len(path)
     \/ Last(prefix) = Slash
     \/ path[Len(prefix) + 1] = Slash
-------------------------------------------------------------------------------
\* What a server makes of a path that it decodes first and splits and
\* resolves afterwards.
Resolved(path) ==
  LET Step(stack, segment) ==
        CASE segment = <<46>>     -> stack
          [] segment = <<46, 46>> -> IF stack = <<>> THEN <<>> ELSE Front(stack)
          [] OTHER                -> Append(stack, segment)
  IN FoldLeft(Step, <<>>, Segments(Decode(path)))

InCanonicalForm(path) ==
  \A i \in DOMAIN path :
    \/ path[i] = Slash \/ IsUnreserved(path[i])
    \/ /\ path[i] = Percent /\ i + 2 <= Len(path)
       /\ {path[i + 1], path[i + 2]} \subseteq 48..57 \cup 65..70
===============================================================================
