----------------------------- MODULE Credentials -----------------------------
(***************************************************************************)
(* Configuration of the verifier and its compilation: compile_state,       *)
(* compile_credential and the policy tests of CompiledCredential           *)
(* (rust/sigv4-verifier/src/lib.rs).                                       *)
(*                                                                         *)
(* Text that the code trims or case-folds is a word and a spelling; what   *)
(* normalisation does is to forget the spelling.  A path is the sequence   *)
(* of its segments, each a name and a spelling: the name is what the       *)
(* segment canonicalises to, the spelling whether a byte outside the       *)
(* unreserved ones stands for itself or is escaped ("a+b", "a%2Bb").  An   *)
(* escaped unreserved byte stays escaped, so "%61" is not a spelling of    *)
(* "a".  <<>> is the empty string and a trailing slash is a last segment   *)
(* named "".                                                               *)
(***************************************************************************)
EXTENDS Integers, SequencesExt

CONSTANTS
  MaxExpires,      \* MAX_SIGV4_EXPIRES: seven days
  AmbiguousHosts,  \* words normalize_host rejects
  None             \* no value

ASSUME MaxExpiresAssumption == MaxExpires \in Nat \ {0}

Spelled(w, how) == [word |-> w, spelling |-> how]

Text(w) == Spelled(w, "plain")

\* Names validate_raw_path rejects: the dot segments, escaped or not, "/" for an
\* encoded separator, "%" for any byte, escape or missing slash it refuses.
BadNames == {".", "..", "/", "%"}

ValidPath(path) ==
  /\ path # <<>>
  /\ \A i \in DOMAIN path :
       /\ path[i].name \notin BadNames
       /\ path[i].name = "" => i = Len(path)

KnownMethod(m) == m.word \in {"GET", "HEAD"}

Words(texts) == {x.word : x \in texts}

DefaultExpires(settings) ==
  IF settings.default_max_expires \in 1..MaxExpires
  THEN settings.default_max_expires
  ELSE MaxExpires

SupportedMethods(settings) ==
  IF settings.supported_methods = {}
  THEN {"GET", "HEAD"}
  ELSE Words(settings.supported_methods)

EffectiveExpires(c, default) == IF c.max_expires = 0 THEN default ELSE c.max_expires

CredentialError(c, default) ==
  \/ c.access_key.word = ""
  \/ c.secret_key = ""
  \/ EffectiveExpires(c, default) \notin 1..MaxExpires
  \/ Words(c.allowed_hosts) \cap AmbiguousHosts # {}
  \/ \E m \in c.allowed_methods : ~KnownMethod(m)
  \/ \E p \in c.allowed_prefixes : p # <<>> /\ ~ValidPath(p)

\* Blank hosts and empty prefixes are dropped, not rejected: an allowlist of
\* nothing else becomes the empty set, which restricts nothing.
CompileCredential(c, default) ==
  [ access_key  |-> c.access_key.word,
    seed        |-> <<"AWS4", c.secret_key>>,
    enabled     |-> c.enabled,
    max_expires |-> EffectiveExpires(c, default),
    hosts       |-> Words(c.allowed_hosts) \ {""},
    methods     |-> Words(c.allowed_methods),
    prefixes    |-> c.allowed_prefixes \ {<<>>} ]

ConfigError(settings, creds) ==
  \/ settings.supported_service.word \notin {"", "s3"}
  \/ \E m \in settings.supported_methods : ~KnownMethod(m)
  \/ \E i \in DOMAIN creds : CredentialError(creds[i], DefaultExpires(settings))
  \/ \E i, j \in DOMAIN creds :
       i # j /\ creds[i].access_key.word = creds[j].access_key.word

CompileState(settings, creds) ==
  [ skew        |-> settings.allowed_clock_skew,
    methods     |-> SupportedMethods(settings),
    credentials |->
      [ak \in {creds[i].access_key.word : i \in DOMAIN creds} |->
         CompileCredential(
           creds[CHOOSE i \in DOMAIN creds : creds[i].access_key.word = ak],
           DefaultExpires(settings))] ]

MethodAllowed(cred, method) == cred.methods = {} \/ method \in cred.methods

HostAllowed(cred, host) == cred.hosts = {} \/ host \in cred.hosts

\* strip_prefix with the boundary test, segment by segment.  The comparison
\* is of spellings: the policy reads the raw path.
PathMatchesPrefix(path, prefix) ==
  IF Last(prefix).name = ""
  THEN IsStrictPrefix(Front(prefix), path)
  ELSE IsPrefix(prefix, path)

PathAllowed(cred, path) ==
  cred.prefixes = {} \/ \E p \in cred.prefixes : PathMatchesPrefix(path, p)
===============================================================================
