------------------------------- MODULE QueryCanon -------------------------------
(***************************************************************************)
(* The query of a request, byte by byte: canonical_query and               *)
(* canonicalize_query_component (rust/sigv4-verifier/src/lib.rs).  One     *)
(* pass over the raw query produces both the string that is signed and the *)
(* values verify reads.                                                    *)
(***************************************************************************)
EXTENDS Bytes

CONSTANTS
  SignatureName,   \* X-Amz-Signature
  OtherNames       \* the five other names is_known_query_name lists

Ampersand == 38
Equals == 61

ASSUME NamesAssumption == SignatureName \notin OtherNames

KnownNames == OtherNames \cup {SignatureName}

Continuation == 128..191

\* How many bytes follow a first byte, and where the first of them may lie.
Following(b) == IF b < 128 THEN 0 ELSE IF b < 224 THEN 1 ELSE IF b < 240 THEN 2 ELSE 3

Second(b) ==
  CASE b = 224 -> 160..191 [] b = 237 -> 128..159 [] b = 240 -> 144..191
    [] b = 244 -> 128..143 [] OTHER -> Continuation

\* str::from_utf8: nothing overlong, no surrogate, nothing past U+10FFFF.
IsUtf8(bytes) ==
  \A i \in DOMAIN bytes : LET b == bytes[i] IN
    IF b \in Continuation
    THEN \E k \in 1..3 : k < i /\ bytes[i - k] \notin Continuation /\ k <= Following(bytes[i - k])
    ELSE /\ b \in 0..127 \cup 194..244
         /\ i + Following(b) <= Len(bytes)
         /\ \A k \in 1..Following(b) :
              bytes[i + k] \in IF k = 1 THEN Second(b) ELSE Continuation

\* Without an equals sign the value is empty; later ones belong to the value.
NameValue(part) ==
  LET eq == SelectInSeq(part, LAMBDA b : b = Equals) IN
  IF eq = 0 THEN [name |-> part, value |-> <<>>]
  ELSE [name |-> SubSeq(part, 1, eq - 1), value |-> SubSeq(part, eq + 1, Len(part))]

Parts(query) == IF query = <<>> THEN <<>> ELSE Split(query, Ampersand)

Written(query) ==
  LET parts == Parts(query) IN [k \in DOMAIN parts |-> NameValue(parts[k])]

\* Mutant: a name counts as one of the six only in its own spelling.
ReadNameLiteral(p) == p.name

\* The name by which a parameter is recognised.
ReadName(p) == Decode(p.name)

ParamError(p) ==
  \/ ~WellFormed(p.name) \/ ~WellFormed(p.value)
  \/ p.name = <<>>
  \/ ReadName(p) \in KnownNames /\ ~IsUtf8(Decode(p.value))

\* A trailing ampersand or an empty part is an empty name here.
QueryError(query) == \E p \in ToSet(Written(query)) : ParamError(p)

EncodeByte(b) == IF IsUnreserved(b) THEN <<b>> ELSE Escaped(b)

\* A component without escapes and reserved bytes is borrowed as it is.
Encode(component) ==
  IF \A b \in ToSet(component) : IsUnreserved(b) THEN component
  ELSE LET bytes == Decode(component) IN
       FlattenSeq([k \in DOMAIN bytes |-> EncodeByte(bytes[k])])

LexLess(a, b) ==
  \/ IsStrictPrefix(a, b)
  \/ \E i \in 1..Min({Len(a), Len(b)}) :
       SubSeq(a, 1, i - 1) = SubSeq(b, 1, i - 1) /\ a[i] < b[i]

\* Mutant: parameters are sorted as they read, not as they are encoded.
ParamLessDecoded(p, q) ==
  \/ LexLess(Decode(p.name), Decode(q.name))
  \/ p.name = q.name /\ LexLess(Decode(p.value), Decode(q.value))

ParamLess(p, q) ==
  \/ LexLess(p.name, q.name)
  \/ p.name = q.name /\ LexLess(p.value, q.value)

\* Mutant: only the first parameter of a repeated name and value is kept.
SignedOfWithoutRepeats(query) ==
  LET kept == {p \in ToSet(Written(query)) : ReadName(p) # SignatureName}
  IN SetToSortSeq({[name |-> Encode(p.name), value |-> Encode(p.value)] : p \in kept}, ParamLess)

\* The members of S, each behind those that come before it.
InOrder(S, before) ==
  CHOOSE order \in [1..Cardinality(S) -> S] :
    \A l \in DOMAIN order : \A k \in 1..(l - 1) : <<order[k], order[l]>> \in before

\* The parameters the signature covers, encoded and in order; equal ones may
\* stand either way.
SignedOf(query) ==
  LET written == Written(query)
      kept    == {i \in DOMAIN written : ReadName(written[i]) # SignatureName}
      signed  == [i \in kept |-> [name |-> Encode(written[i].name), value |-> Encode(written[i].value)]]
      before  == {p \in kept \X kept :
                    \/ ParamLess(signed[p[1]], signed[p[2]])
                    \/ signed[p[1]] = signed[p[2]] /\ p[1] < p[2]}
      order   == InOrder(kept, before)
  IN [k \in DOMAIN order |-> signed[order[k]]]

\* Parameters put down one after the other.
QueryText(signed) ==
  FlattenSeq([k \in DOMAIN signed |->
    (IF k = 1 THEN <<>> ELSE <<Ampersand>>) \o signed[k].name \o <<Equals>> \o signed[k].value])

CanonicalQuery(query) == QueryText(SignedOf(query))

\* SigV4Query::set: the values read under a known name, in order.
ValuesOf(query, name) ==
  LET written == Written(query)
      found   == {i \in DOMAIN written : ReadName(written[i]) = name}
      order   == InOrder(found, {p \in found \X found : p[1] < p[2]})
  IN [k \in DOMAIN order |-> Decode(written[order[k]].value)]
-------------------------------------------------------------------------------
\* Names and values as the application behind decodes them.
Decoded(query) ==
  LET written == Written(query)
  IN [k \in DOMAIN written |-> <<Decode(written[k].name), Decode(written[k].value)>>]
===============================================================================
