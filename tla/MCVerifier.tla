------------------------------ MODULE MCVerifier ------------------------------
(* Small instances of Verifier for TLC: a day is four seconds long. *)
EXTENDS Verifier

CONSTANTS t1, t2, h1, h2

Segments(names) == [i \in DOMAIN names |-> [name |-> names[i], spelling |-> "plain"]]

BaseSettings == [
  allowed_clock_skew  |-> 1,
  default_max_expires |-> 0,
  supported_methods   |-> {},
  supported_service   |-> Text("") ]

BaseCredential == [
  access_key       |-> Text("A"),
  secret_key       |-> "s1",
  enabled          |-> TRUE,
  max_expires      |-> 0,
  allowed_hosts    |-> {},
  allowed_methods  |-> {},
  allowed_prefixes |-> {} ]

With(credentials) == [settings |-> BaseSettings, credentials |-> credentials]

Open == With(<<BaseCredential>>)

Rotated == With(<<[BaseCredential EXCEPT !.secret_key = "s2"]>>)

Restricted == [
  settings    |-> [BaseSettings EXCEPT !.default_max_expires = 2, !.allowed_clock_skew = MaxInt,
                                       !.supported_service = Spelled("s3", "padded")],
  credentials |-> <<[BaseCredential EXCEPT
                       !.access_key = Spelled("A", "padded"),
                       !.allowed_hosts = {Spelled("host", "upper"), Text("")},
                       !.allowed_methods = {Spelled("GET", "lower")},
                       !.allowed_prefixes = {<<>>, Segments(<<"bucket", "">>)}],
                    [BaseCredential EXCEPT !.access_key = Text("B"), !.enabled = FALSE]>> ]

Narrow == [
  settings    |-> [BaseSettings EXCEPT !.supported_methods = {Spelled("HEAD", "lower")},
                                       !.default_max_expires = MaxExpires + 1],
  credentials |-> <<[BaseCredential EXCEPT !.secret_key = "s2", !.max_expires = 1,
                                           !.allowed_prefixes = {Segments(<<"bucket", "a+b">>)},
                                           !.allowed_hosts = {Text("")}],
                    [BaseCredential EXCEPT !.access_key = Text("B")]>> ]

\* One configuration for each way to be refused.
Invalid == {
  With(<<BaseCredential, [BaseCredential EXCEPT !.access_key = Spelled("A", "padded")]>>),
  With(<<[BaseCredential EXCEPT !.access_key = Text("")]>>),
  With(<<[BaseCredential EXCEPT !.secret_key = ""]>>),
  With(<<[BaseCredential EXCEPT !.max_expires = MaxExpires + 1]>>),
  With(<<[BaseCredential EXCEPT !.allowed_hosts = {Text("a host")}]>>),
  With(<<[BaseCredential EXCEPT !.allowed_methods = {Text("PUT")}]>>),
  With(<<[BaseCredential EXCEPT !.allowed_prefixes = {Segments(<<"..">>)}]>>),
  [Open EXCEPT !.settings.supported_service = Text("ec2")],
  [Open EXCEPT !.settings.supported_methods = {Text("PUT")}] }

AllConfigs == {Open, Rotated, Restricted, Narrow} \cup Invalid

BaseCall == [
  access_key |-> "A",  secret |-> "s1",   method  |-> "GET", host  |-> "host",
  path |-> <<"bucket", "a+b">>, region |-> "r1", at |-> 5,   expires |-> 2, extra |-> "x" ]

Vary(field, values) == {[BaseCall EXCEPT ![field] = v] : v \in values}

ManyCalls ==
  {BaseCall}
    \cup Vary("access_key", {"B", "C"})      \cup Vary("secret", {"s2"})
    \cup Vary("method", {"HEAD", "PUT"})     \cup Vary("host", {"other", ""})
    \cup Vary("region", {"r2"})
    \cup Vary("path", {<<"bucket">>, <<"bucket", "">>, <<"bucket", "..", "b">>, <<"c">>})
    \cup Vary("at", {7})                     \cup Vary("expires", {0, 1, MaxExpires, MaxExpires + 1})

FewCalls ==
  {BaseCall, [BaseCall EXCEPT !.region = "r2"], [BaseCall EXCEPT !.secret = "s2"]}

\* Every field takes every other value it can have.
Change(field, values) == {[field |-> field, value |-> v] : v \in values}

BaseScope == [ access_key |-> "A", date |-> 1, region |-> "r1",
               service |-> "s3", terminal |-> "aws4_request" ]

NotSingle == {Missing, Repeated}

ManyAlterations ==
  Change("method", {Spelled("GET", "lower"), Text("HEAD"), Text("PUT"), Text("")})
    \cup Change("host", {Spelled("host", "upper"), Text("other"), Text("")})
    \cup Change("path", {<<>>, Segments(<<"%">>), Segments(<<"c">>), Segments(<<"bucket", "">>),
                         Segments(<<"bucket", "a+b", "b">>),
                         <<[name |-> "bucket", spelling |-> "plain"],
                           [name |-> "a+b", spelling |-> "encoded"]>>,
                         Segments(<<"", "a+b">>), Segments(<<"bucket", "..">>),
                         Segments(<<"/">>)})
    \cup Change("query", {Malformed})
    \cup Change("algorithm", NotSingle \cup {"AWS4-ECDSA-P256-SHA256"})
    \cup Change("credential", NotSingle \cup {Malformed}
                  \cup {[BaseScope EXCEPT !.access_key = ak] : ak \in {"B", "C"}}
                  \cup {[BaseScope EXCEPT !.date = d] : d \in {0, 2}}
                  \cup {[BaseScope EXCEPT !.region = "r2"], [BaseScope EXCEPT !.service = "ec2"],
                        [BaseScope EXCEPT !.terminal = "aws5_request"]})
    \cup Change("date", NotSingle \cup {Malformed, 4, 6, 8})
    \cup Change("expires", NotSingle \cup {Malformed, 0, 1, 3, MaxExpires, MaxExpires + 1})
    \cup Change("signed_headers", NotSingle \cup {"host;range"})
    \cup Change("extra", {"y"})
    \cup Change("signature", NotSingle \cup {Malformed} \cup
                  {[mac |-> IssuedSignature([BaseCall EXCEPT !.extra = "z"]), spelling |-> "plain"]})

FewAlterations == {}

ReloadConfigs ==
  {Open, Rotated, Restricted, With(<<BaseCredential, BaseCredential>>)}
===============================================================================
