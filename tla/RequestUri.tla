------------------------------ MODULE RequestUri ------------------------------
(***************************************************************************)
(* The URI of a request as verify takes it apart: split_original_uri, then *)
(* the canonical path and the canonical query of its two parts             *)
(* (rust/sigv4-verifier/src/lib.rs).  What is checked is that everyone     *)
(* means the same request: the policy, which reads the raw path, the       *)
(* signature, which covers the canonical forms, verify, which reads        *)
(* decoded parameters, and the server and the application behind.          *)
(*                                                                         *)
(* The state is a raw URI that grows by a piece of path or by a parameter. *)
(***************************************************************************)
EXTENDS PathCanon, QueryCanon

CONSTANTS
  Pieces,        \* what a path is put together from, a question mark included
  RawParams,     \* parameters as they are written, the empty text included
  PathPrefixes,  \* path prefixes of credentials
  MaxPieces      \* bound: MaxPieces[n + 1] pieces before n parameters

ASSUME PiecesAssumption == Pieces \subseteq Seq(0..255)

ASSUME RawParamsAssumption == RawParams \subseteq Seq(0..255)

ASSUME PathPrefixesAssumption == PathPrefixes \subseteq Seq(0..255)

VARIABLES uri, pieces, params

vars == <<uri, pieces, params>>

QuestionMark == 63

\* The query is everything after the first question mark.
PathPart(raw) == Split(raw, QuestionMark)[1]

QueryPart(raw) == SubSeq(raw, Len(PathPart(raw)) + 2, Len(raw))

\* split_original_uri succeeds: no CR, LF, tab, space or # anywhere.
Splits(raw) ==
  /\ raw # <<>> /\ raw[1] = Slash
  /\ ToSet(raw) \cap {13, 10, 9, 32, 35} = {}
  /\ ValidateRawPath(PathPart(raw))

\* verify comes to a canonical request.
Readable(raw) == Splits(raw) /\ ~QueryError(QueryPart(raw))

Init == uri = <<Slash>> /\ pieces = 0 /\ params = 0

Extend(piece) ==
  /\ params = 0
  /\ pieces < MaxPieces[1]
  /\ uri' = uri \o piece
  /\ pieces' = pieces + 1
  /\ UNCHANGED params

AddParam(p) ==
  /\ params + 1 < Len(MaxPieces)
  /\ pieces <= MaxPieces[params + 2]
  /\ uri' = uri \o <<IF params = 0 THEN QuestionMark ELSE Ampersand>> \o p
  /\ params' = params + 1
  /\ UNCHANGED pieces

Next == (\E piece \in Pieces : Extend(piece)) \/ (\E p \in RawParams : AddParam(p))

Spec == Init /\ [][Next]_vars
-------------------------------------------------------------------------------
\* A valid path reads the same whether it is split before it is decoded or
\* after, and there is nothing in it to resolve: decoding adds, removes and
\* moves no segment, so the policy and the server see the same directories.
OneReading ==
  Splits(uri) =>
    LET segments == Segments(PathPart(uri)) IN
    Resolved(PathPart(uri)) = [i \in DOMAIN segments |-> Decode(segments[i])]

\* The invariants of rust/sigv4-verifier/fuzz/fuzz_targets/fuzz_canonical_path.rs
\* (only slashes, unreserved bytes and uppercase escapes; idempotent), and
\* that the path signed decodes to the path received.
CanonicalFormIsFaithful ==
  Splits(uri) =>
    LET canonical == CanonicalUri(PathPart(uri)) IN
    /\ InCanonicalForm(canonical)
    /\ CanonicalUri(canonical) = canonical
    /\ Decode(canonical) = Decode(PathPart(uri))

\* A path that a prefix admits lies in the directory the prefix names, with or
\* without a slash at its end, once both are decoded and resolved; a sibling
\* that only shares the first letters of its name does not.
PolicyHoldsAfterDecoding ==
  Splits(uri) => \A prefix \in PathPrefixes :
    ValidateRawPath(prefix) /\ PathMatchesPrefix(PathPart(uri), prefix) =>
      LET named == Resolved(prefix)
          directory == IF Last(named) = <<>> THEN Front(named) ELSE named
      IN IsPrefix(directory, Resolved(PathPart(uri)))

\* The canonical query says exactly what the query says, once per parameter
\* and repetitions included, except that no spelling of the signature's own
\* name is in it: nothing the application reads goes unsigned.
EveryParameterIsSigned ==
  Readable(uri) =>
    LET said   == ToBag(Decoded(QueryPart(uri)))
        signed == ToBag(Decoded(CanonicalQuery(QueryPart(uri))))
    IN signed = Restrict(said, {p \in DOMAIN said : p[1] # SignatureName})

InNormalForm(query) ==
  /\ ~QueryError(query)
  /\ CanonicalQuery(query) = query
  /\ \A i, j \in DOMAIN Written(query) : i < j =>
       LET p == Written(query)[i]
           q == Written(query)[j]
       IN ~LexLess(q.name, p.name) /\ (p.name = q.name => ~LexLess(q.value, p.value))

\* The invariant of rust/sigv4-verifier/fuzz/fuzz_targets/fuzz_canonical_query.rs
\* (the canonical query parses and is a fixed point), and the order the
\* signature is defined on: encoded names, then encoded values, byte by byte.
CanonicalQueryIsNormalForm ==
  Readable(uri) => InNormalForm(CanonicalQuery(QueryPart(uri)))

\* A parameter verify takes its decision on is the one that is signed: it
\* reads the same values, as many of them, from the raw query as anyone would
\* from the canonical one.
VerifierReadsWhatIsSigned ==
  Readable(uri) => \A name \in OtherNames :
    LET signed == ToBag(Decoded(CanonicalQuery(QueryPart(uri))))
        values == {p[2] : p \in {p \in DOMAIN signed : p[1] = name}}
    IN ToBag(ValuesOf(QueryPart(uri), name)) = [v \in values |-> signed[<<name, v>>]]

\* rust/sigv4-verifier/fuzz/fuzz_targets/fuzz_verify.rs:50-60: "a request can
\* only be allowed if it carried a signature parameter at all", asserted as
\* the letters of X-Amz-Signature standing in the URI.  canonical_query
\* recognises the parameter by its decoded name.
SignatureIsSpelledOut ==
  LET signatures == ValuesOf(QueryPart(uri), SignatureName) IN
  Readable(uri) /\ Len(signatures) = 1 /\ signatures[1] # <<>> =>
    \E i \in DOMAIN uri : IsPrefix(SignatureName, SubSeq(uri, i, Len(uri)))
===============================================================================
