-------------------------------- MODULE Verify --------------------------------
(***************************************************************************)
(* Verifier::verify as a function of a compiled state, a request and the   *)
(* time the caller passes (rust/sigv4-verifier/src/lib.rs).                *)
(*                                                                         *)
(* A request is the method, the host and the split URI.  A query parameter *)
(* is its decoded value, Missing when it does not occur, Repeated when it  *)
(* occurs more than once, Malformed when its own parser rejects it.  SHA-256 *)
(* and HMAC are free constructors.  Time is a whole number of seconds.     *)
(***************************************************************************)
EXTENDS Credentials

CONSTANTS
  DayLength,   \* seconds in a day
  MaxInt,      \* i64::MAX, where saturating_add stops
  Missing, Repeated, Malformed

ASSUME DayLengthAssumption == DayLength \in Nat \ {0}

Single(value) == value \notin {Missing, Repeated}

DateOf(at) == at \div DayLength

SaturatingAdd(a, b) == IF a + b > MaxInt THEN MaxInt ELSE a + b

HashAccessKey(ak) == <<"sha256", ak>>
-------------------------------------------------------------------------------
\* What is signed.  Each step forgets what the code normalises: the spelling
\* of the path, of the method and of the host.

CanonicalPath(path) == [i \in DOMAIN path |-> path[i].name]

\* Every parameter but X-Amz-Signature.
CanonicalQuery(r) ==
  <<r.algorithm, r.credential, r.date, r.expires, r.signed_headers, r.extra>>

\* Mutant: the host is left out of the canonical request.
CanonicalRequestWithoutHost(r) ==
  <<r.method.word, CanonicalPath(r.path), CanonicalQuery(r), "host", "UNSIGNED-PAYLOAD">>

CanonicalRequest(r) ==
  <<r.method.word, CanonicalPath(r.path), CanonicalQuery(r),
    <<"host", r.host.word>>, "host", "UNSIGNED-PAYLOAD">>

\* The credential scope without its access key, which the query carries.
ScopeOf(r) ==
  [date |-> r.credential.date, region |-> r.credential.region]

StringToSign(r) ==
  <<"AWS4-HMAC-SHA256", r.date, ScopeOf(r), <<"sha256", CanonicalRequest(r)>>>>

Mac(key, r) == <<key, StringToSign(r)>>
-------------------------------------------------------------------------------
\* The early returns of verify in the order of the code: the name of the
\* test that fails and the reason it answers with.
Checks == <<
  <<"metadata",            "missing_metadata">>,
  <<"method",              "unsupported_method">>,
  <<"path",                "invalid_uri">>,
  <<"query",               "invalid_uri">>,
  <<"one algorithm",       "missing_query_param">>,
  <<"algorithm",           "unsupported_algorithm">>,
  <<"one credential",      "missing_query_param">>,
  <<"credential",          "invalid_credential_scope">>,
  <<"service",             "invalid_credential_scope">>,
  <<"one signed headers",  "missing_query_param">>,
  <<"signed headers",      "unsupported_signed_header">>,
  <<"one date",            "missing_query_param">>,
  <<"date",                "invalid_credential_scope">>,
  <<"one expires",         "missing_query_param">>,
  <<"expires",             "invalid_expiry">>,
  <<"one signature",       "missing_query_param">>,
  <<"access key",          "unknown_access_key">>,
  <<"enabled",             "unauthorized">>,
  <<"policy",              "unauthorized">>,
  <<"max expires",         "invalid_expiry">>,
  <<"future dated",        "future_dated">>,
  <<"expired",             "expired">> >>

CredentialOf(st, r) == st.credentials[r.credential.access_key]

Expired(st, r, now) == now > SaturatingAdd(r.date, r.expires)

FutureDated(st, r, now) == r.date > SaturatingAdd(now, st.skew)

\* Mutant: the host allowlist is not consulted.
PolicyWithoutHost(cred, r) ==
  MethodAllowed(cred, r.method.word) /\ PathAllowed(cred, r.path)

PolicyAllows(cred, r) ==
  /\ MethodAllowed(cred, r.method.word)
  /\ HostAllowed(cred, r.host.word)
  /\ PathAllowed(cred, r.path)

\* Fails is only asked of a check when every earlier check has passed.
Fails(check, st, r, now) ==
  CASE check = "metadata"           -> "" \in {r.method.word, r.host.word} \/ r.path = <<>>
    [] check = "method"             -> r.method.word \notin st.methods
    [] check = "path"               -> ~ValidPath(r.path)
    [] check = "query"              -> r.query = Malformed
    [] check = "one algorithm"      -> ~Single(r.algorithm)
    [] check = "algorithm"          -> r.algorithm # "AWS4-HMAC-SHA256"
    [] check = "one credential"     -> ~Single(r.credential)
    [] check = "credential"         -> r.credential = Malformed
    [] check = "service"            -> <<r.credential.service, r.credential.terminal>>
                                         # <<"s3", "aws4_request">>
    [] check = "one signed headers" -> ~Single(r.signed_headers)
    [] check = "signed headers"     -> r.signed_headers # "host"
    [] check = "one date"           -> ~Single(r.date)
    [] check = "date"               -> r.date = Malformed \/ DateOf(r.date) # r.credential.date
    [] check = "one expires"        -> ~Single(r.expires)
    [] check = "expires"            -> r.expires = Malformed \/ r.expires \notin 1..MaxExpires
    [] check = "one signature"      -> ~Single(r.signature)
    [] check = "access key"         -> r.credential.access_key \notin DOMAIN st.credentials
    [] check = "enabled"            -> ~CredentialOf(st, r).enabled
    [] check = "policy"             -> ~PolicyAllows(CredentialOf(st, r), r)
    [] check = "max expires"        -> r.expires > CredentialOf(st, r).max_expires
    [] check = "future dated"       -> FutureDated(st, r, now)
    [] check = "expired"            -> Expired(st, r, now)

\* The position of the first check that fails, one past the last when none
\* does; later checks are not evaluated.
FirstFailing(st, r, now) ==
  CHOOSE i \in 1..(Len(Checks) + 1) :
    /\ i > Len(Checks) \/ Fails(Checks[i][1], st, r, now)
    /\ \A j \in 1..(i - 1) : ~Fails(Checks[j][1], st, r, now)

\* The access key is only hashed once the credential scope has been parsed.
ScopeParsed == CHOOSE i \in DOMAIN Checks : Checks[i][1] = "credential"

DenyAt(i, r) ==
  [ allowed         |-> FALSE,
    reason          |-> Checks[i][2],
    path            |-> IF Checks[i][1] = "metadata" \/ ~ValidPath(r.path) THEN <<>> ELSE r.path,
    access_key      |-> None,
    access_key_hash |-> IF i > ScopeParsed
                        THEN HashAccessKey(r.credential.access_key) ELSE None ]

\* decode_signature and the constant-time comparison; the case of the
\* signature's hexadecimal digits is forgotten.
Judge(expected, r) ==
  LET ok == r.signature # Malformed /\ r.signature.mac = expected IN
  [ allowed         |-> ok,
    reason          |-> IF ok THEN "ok" ELSE "signature_mismatch",
    path            |-> r.path,
    access_key      |-> IF ok THEN r.credential.access_key ELSE None,
    access_key_hash |-> HashAccessKey(r.credential.access_key) ]
===============================================================================
