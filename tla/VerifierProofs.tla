---------------------------- MODULE VerifierProofs ----------------------------
(***************************************************************************)
(* What Verifier promises for every set of threads, handles, configurations *)
(* and requests, and every capacity.  The first parts say what compilation, *)
(* the tests of verify, the signature and the queue of keys amount to for  *)
(* one request; then comes an inductive invariant of the handles, and last *)
(* the refinement of Authorizer.                                           *)
(***************************************************************************)
EXTENDS Verifier, WellFoundedInduction, SequenceTheorems, TLAPS

-------------------------------------------------------------------------------
\* A set of natural numbers that is not empty has a least member.
LEMMA LeastMember ==
  ASSUME NEW T, T \subseteq Nat, T # {}
  PROVE  \E m \in T : \A k \in T : m <= k
<1>1. IsWellFoundedOn(OpToRel(<, Nat), Nat)
  BY NatLessThanWellFounded
<1>2. PICK m \in T : \A k \in T : <<k, m>> \notin OpToRel(<, Nat)
  BY <1>1, WFMin
<1>3. \A k \in T : ~(k < m)
  BY <1>2 DEF OpToRel
<1> QED
  BY <1>3
-------------------------------------------------------------------------------
\* The tests of verify up to the signature.

AllPass(st, r, now) == \A i \in DOMAIN Checks : ~Fails(Checks[i][1], st, r, now)

LEMMA ChecksAre22 == Len(Checks) = 22 /\ DOMAIN Checks = 1..22
BY DEF Checks

\* FirstFailing names a test exactly when some test fails.
LEMMA FirstFailingIsFirst ==
  ASSUME NEW st, NEW r, NEW now
  PROVE  FirstFailing(st, r, now) \notin DOMAIN Checks <=> AllPass(st, r, now)
<1> DEFINE Wrong(i) == Fails(Checks[i][1], st, r, now)
           n == FirstFailing(st, r, now)
           T == {i \in 1..23 : i > 22 \/ Wrong(i)}
<1>1. n = CHOOSE i \in 1..23 : (i > 22 \/ Wrong(i)) /\ \A j \in 1..(i - 1) : ~Wrong(j)
  BY ChecksAre22 DEF FirstFailing
<1>2. AllPass(st, r, now) <=> \A i \in 1..22 : ~Wrong(i)
  BY ChecksAre22 DEF AllPass
<1> HIDE DEF Wrong, n
<1>3. PICK m \in T : \A k \in T : m <= k
  <2>1. 23 \in T
    OBVIOUS
  <2> QED
    BY <2>1, LeastMember
<1>4. \A j \in 1..(m - 1) : ~Wrong(j)
  BY <1>3
<1>5. /\ n \in 1..23
      /\ n > 22 \/ Wrong(n)
      /\ \A j \in 1..(n - 1) : ~Wrong(j)
  BY <1>1, <1>3, <1>4
<1>6. n \notin 1..22 <=> \A i \in 1..22 : ~Wrong(i)
  BY <1>5
<1> QED
  BY <1>2, <1>6, ChecksAre22 DEF n

\* What passing every test means, the order of the tests forgotten.
Clear(st, r, now) ==
  /\ r.method.word # "" /\ r.host.word # "" /\ r.path # <<>>
  /\ r.method.word \in st.methods
  /\ ValidPath(r.path)
  /\ r.query # Malformed
  /\ Single(r.algorithm) /\ r.algorithm = "AWS4-HMAC-SHA256"
  /\ Single(r.credential) /\ r.credential # Malformed
  /\ r.credential.service = "s3" /\ r.credential.terminal = "aws4_request"
  /\ Single(r.signed_headers) /\ r.signed_headers = "host"
  /\ Single(r.date) /\ r.date # Malformed /\ DateOf(r.date) = r.credential.date
  /\ Single(r.expires) /\ r.expires # Malformed /\ r.expires \in 1..MaxExpires
  /\ Single(r.signature)
  /\ r.credential.access_key \in DOMAIN st.credentials
  /\ CredentialOf(st, r).enabled
  /\ PolicyAllows(CredentialOf(st, r), r)
  /\ ~(r.expires > CredentialOf(st, r).max_expires)
  /\ ~FutureDated(st, r, now)
  /\ ~Expired(st, r, now)

LEMMA AllPassIsClear ==
  ASSUME NEW st, NEW r, NEW now
  PROVE  AllPass(st, r, now) <=> Clear(st, r, now)
<1> DEFINE Pass(check) == ~Fails(check, st, r, now)
<1>1. AllPass(st, r, now) <=>
        /\ Pass("metadata") /\ Pass("method") /\ Pass("path") /\ Pass("query")
        /\ Pass("one algorithm") /\ Pass("algorithm")
        /\ Pass("one credential") /\ Pass("credential") /\ Pass("service")
        /\ Pass("one signed headers") /\ Pass("signed headers")
        /\ Pass("one date") /\ Pass("date") /\ Pass("one expires") /\ Pass("expires")
        /\ Pass("one signature") /\ Pass("access key") /\ Pass("enabled") /\ Pass("policy")
        /\ Pass("max expires") /\ Pass("future dated") /\ Pass("expired")
  <2>1. /\ Checks[1][1] = "metadata" /\ Checks[2][1] = "method" /\ Checks[3][1] = "path"
        /\ Checks[4][1] = "query" /\ Checks[5][1] = "one algorithm"
        /\ Checks[6][1] = "algorithm" /\ Checks[7][1] = "one credential"
        /\ Checks[8][1] = "credential" /\ Checks[9][1] = "service"
        /\ Checks[10][1] = "one signed headers" /\ Checks[11][1] = "signed headers"
        /\ Checks[12][1] = "one date" /\ Checks[13][1] = "date"
        /\ Checks[14][1] = "one expires" /\ Checks[15][1] = "expires"
        /\ Checks[16][1] = "one signature" /\ Checks[17][1] = "access key"
        /\ Checks[18][1] = "enabled" /\ Checks[19][1] = "policy"
        /\ Checks[20][1] = "max expires" /\ Checks[21][1] = "future dated"
        /\ Checks[22][1] = "expired"
    BY DEF Checks
  <2> DEFINE Names == {Checks[i][1] : i \in 1..22}
  <2> HIDE DEF Pass
  <2>2. AllPass(st, r, now) <=> \A check \in Names : Pass(check)
    BY ChecksAre22 DEF AllPass, Pass
  <2>3. Names = { "metadata", "method", "path", "query", "one algorithm", "algorithm", "one credential",
                  "credential", "service", "one signed headers", "signed headers", "one date",
                  "date", "one expires", "expires", "one signature", "access key",
                  "enabled", "policy", "max expires", "future dated", "expired" }
    <3>1. 1..22 = {1, 2, 3, 4, 5, 6, 7, 8, 9, 10, 11, 12, 13, 14, 15, 16, 17, 18, 19, 20, 21, 22}
      OBVIOUS
    <3>2. Names = { Checks[1][1], Checks[2][1], Checks[3][1], Checks[4][1], Checks[5][1],
                    Checks[6][1], Checks[7][1], Checks[8][1], Checks[9][1], Checks[10][1],
                    Checks[11][1], Checks[12][1], Checks[13][1], Checks[14][1], Checks[15][1],
                    Checks[16][1], Checks[17][1], Checks[18][1], Checks[19][1], Checks[20][1],
                    Checks[21][1], Checks[22][1] }
      BY <3>1
    <3> QED
      BY <2>1, <3>2
  <2> HIDE DEF Names
  <2> QED
    BY <2>2, <2>3
<1>2. /\ Pass("metadata") <=> r.method.word # "" /\ r.host.word # "" /\ r.path # <<>>
      /\ Pass("method") <=> r.method.word \in st.methods
      /\ Pass("path") <=> ValidPath(r.path)
      /\ Pass("query") <=> r.query # Malformed
  BY DEF Fails
<1>3. /\ Pass("one algorithm") <=> Single(r.algorithm)
      /\ Pass("algorithm") <=> r.algorithm = "AWS4-HMAC-SHA256"
      /\ Pass("one credential") <=> Single(r.credential)
      /\ Pass("credential") <=> r.credential # Malformed
      /\ Pass("service") <=> r.credential.service = "s3" /\ r.credential.terminal = "aws4_request"
  BY DEF Fails
<1>4. /\ Pass("one signed headers") <=> Single(r.signed_headers)
      /\ Pass("signed headers") <=> r.signed_headers = "host"
      /\ Pass("one date") <=> Single(r.date)
      /\ Pass("date") <=> r.date # Malformed /\ DateOf(r.date) = r.credential.date
      /\ Pass("one expires") <=> Single(r.expires)
      /\ Pass("expires") <=> r.expires # Malformed /\ r.expires \in 1..MaxExpires
      /\ Pass("one signature") <=> Single(r.signature)
  BY DEF Fails
<1>5. /\ Pass("access key") <=> r.credential.access_key \in DOMAIN st.credentials
      /\ Pass("enabled") <=> CredentialOf(st, r).enabled
      /\ Pass("policy") <=> PolicyAllows(CredentialOf(st, r), r)
      /\ Pass("max expires") <=> ~(r.expires > CredentialOf(st, r).max_expires)
      /\ Pass("future dated") <=> ~FutureDated(st, r, now)
      /\ Pass("expired") <=> ~Expired(st, r, now)
  BY DEF Fails
<1> HIDE DEF Pass
<1> QED
  BY <1>1, <1>2, <1>3, <1>4, <1>5 DEF Clear
-------------------------------------------------------------------------------
\* Compilation and the policy of one credential.

LEMMA PrefixElements ==
  ASSUME NEW S, NEW s \in Seq(S), NEW t \in Seq(S)
  PROVE  /\ IsPrefix(s, t) <=> Len(s) <= Len(t) /\ \A i \in 1..Len(s) : s[i] = t[i]
         /\ IsPrefix(s, t) /\ Len(s) = Len(t) => s = t
<1>1. Len(s) \in Nat /\ Len(t) \in Nat
  BY LenProperties
<1>2. /\ \A i \in 1..Len(s) : s[i] \in S
      /\ \A i \in 1..Len(t) : t[i] \in S
  BY ElementOfSeq
<1> DEFINE n == Len(s)
           u == SubSeq(t, 1, n)
<1>3. SubSeq(s, 1, n) = s
  BY SubSeqFull
<1>4. ASSUME n <= Len(t)
      PROVE  u \in Seq(S) /\ Len(u) = n /\ \A i \in 1..n : u[i] = t[i]
  <2>1. \A i \in 1..n : t[i] \in S
    BY <1>1, <1>2, <1>4
  <2>2. n - 1 + 1 = n /\ \A i \in 1..n : 1 + i - 1 = i
    BY <1>1
  <2> HIDE DEF n
  <2>3. n \in Nat
    BY <1>1 DEF n
  <2> QED
    BY <2>1, <2>2, <2>3, SubSeqProperties
<1>5. n <= Len(t) => (s = u <=> \A i \in 1..n : s[i] = t[i])
  BY <1>4, SeqEqual
<1>6. IsPrefix(s, t) <=> n <= Len(t) /\ s = u
  BY <1>3 DEF IsPrefix
<1>7. n = Len(t) => u = t
  BY SubSeqFull
<1> QED
  BY <1>1, <1>5, <1>6, <1>7

\* strip_prefix with the boundary test is what the specification calls below.
LEMMA PrefixIsBelow ==
  ASSUME NEW path \in Seq(Segment), NEW prefix \in Seq(Segment),
         ValidPath(path), ValidPath(prefix)
  PROVE  PathMatchesPrefix(path, prefix) <=> Promise!Below(path, prefix)
<1> DEFINE n == Len(prefix)
           stem == SubSeq(prefix, 1, n - 1)
<1>1. /\ n \in Nat /\ n > 0 /\ DOMAIN prefix = 1..n
      /\ Len(path) \in Nat /\ DOMAIN path = 1..Len(path)
  <2>1. prefix # <<>>
    BY DEF ValidPath
  <2>2. n \in Nat /\ n > 0
    BY <2>1, EmptySeq
  <2> QED
    BY <2>2, LenProperties
<1>2. \A i \in 1..(n - 1) : prefix[i].name # ""
  <2>1. \A i \in 1..n : prefix[i].name = "" => i = n
    BY <1>1 DEF ValidPath
  <2> HIDE DEF n
  <2>2. \A i \in 1..(n - 1) : i \in 1..n /\ i # n
    BY <1>1
  <2> QED
    BY <2>1, <2>2
<1>3. Promise!Below(path, prefix) <=>
        \A i \in 1..n : i \in 1..Len(path) /\ (prefix[i].name # "" => path[i] = prefix[i])
  BY <1>1 DEF Promise!Below
<1>4. CASE prefix[n].name # ""
  <2>1. PathMatchesPrefix(path, prefix) <=> IsPrefix(prefix, path)
    BY <1>4 DEF PathMatchesPrefix, Last
  <2>2. IsPrefix(prefix, path) <=> n <= Len(path) /\ \A i \in 1..n : prefix[i] = path[i]
    BY PrefixElements
  <2> HIDE DEF n
  <2>3. \A i \in 1..n : i \in 1..(n - 1) \/ i = n
    BY <1>1
  <2>4. \A i \in 1..n : prefix[i].name # ""
    BY <1>2, <1>4, <2>3
  <2>5. (\A i \in 1..n : i \in 1..Len(path)) <=> n <= Len(path)
    BY <1>1
  <2> QED
    BY <1>3, <2>1, <2>2, <2>4, <2>5
<1>5. CASE prefix[n].name = ""
  <2>1. PathMatchesPrefix(path, prefix) <=> IsPrefix(stem, path) /\ stem # path
    BY <1>5 DEF PathMatchesPrefix, Last, Front, IsStrictPrefix
  <2>2. stem \in Seq(Segment) /\ Len(stem) = n - 1 /\ \A i \in 1..(n - 1) : stem[i] = prefix[i]
    <3>1. \A i \in 1..(n - 1) : prefix[i] \in Segment
      BY <1>1, ElementOfSeq
    <3>2. n - 1 \in Int /\ n - 1 - 1 + 1 = n - 1 /\ \A i \in 1..(n - 1) : 1 + i - 1 = i
      BY <1>1
    <3> HIDE DEF n
    <3>3. /\ stem \in Seq(Segment)
          /\ Len(stem) = IF 1 <= n - 1 THEN n - 1 - 1 + 1 ELSE 0
          /\ \A i \in 1..(n - 1 - 1 + 1) : stem[i] = prefix[1 + i - 1]
      BY <3>1, <3>2, SubSeqProperties
    <3> QED
      BY <1>1, <3>2, <3>3
  <2> HIDE DEF stem
  <2>3. /\ IsPrefix(stem, path) <=> n - 1 <= Len(path) /\ \A i \in 1..(n - 1) : stem[i] = path[i]
        /\ IsPrefix(stem, path) /\ n - 1 = Len(path) => stem = path
    BY <2>2, PrefixElements
  <2>4. stem = path => n - 1 = Len(path)
    BY <2>2
  <2> HIDE DEF n
  <2>5. PathMatchesPrefix(path, prefix) <=>
          n <= Len(path) /\ \A i \in 1..(n - 1) : prefix[i] = path[i]
    BY <1>1, <2>1, <2>2, <2>3, <2>4
  <2>6. (\A i \in 1..n : i \in 1..Len(path) /\ (prefix[i].name # "" => path[i] = prefix[i]))
          <=> n <= Len(path) /\ \A i \in 1..(n - 1) : path[i] = prefix[i]
    <3>1. (\A i \in 1..n : i \in 1..Len(path)) <=> n <= Len(path)
      BY <1>1
    <3>2. \A i \in 1..n : i = n \/ i \in 1..(n - 1)
      BY <1>1
    <3>3. \A i \in 1..(n - 1) : i \in 1..n
      BY <1>1
    <3> QED
      BY <1>2, <1>5, <3>1, <3>2, <3>3
  <2> QED
    BY <1>3, <2>5, <2>6
<1> QED
  BY <1>4, <1>5

Policy(cfg) == CompileState(cfg.settings, cfg.credentials)

\* No credential hides another: each is found under its own access key.
LEMMA CredentialFound ==
  ASSUME NEW cfg \in Configs, Compiles(cfg), NEW i \in DOMAIN cfg.credentials
  PROVE  LET c == cfg.credentials[i] IN
         /\ c.access_key.word \in DOMAIN Policy(cfg).credentials
         /\ Policy(cfg).credentials[c.access_key.word]
              = CompileCredential(c, DefaultExpires(cfg.settings))
<1> DEFINE creds == cfg.credentials
           ak == creds[i].access_key.word
           j == CHOOSE k \in DOMAIN creds : creds[k].access_key.word = ak
<1>1. j \in DOMAIN creds /\ creds[j].access_key.word = ak
  OBVIOUS
<1>2. j = i
  BY <1>1 DEF Compiles, ConfigError
<1> QED
  BY <1>2 DEF Policy, CompileState

\* Every key of the compiled state is the access key of a credential.
LEMMA KeyIsListed ==
  ASSUME NEW cfg, NEW ak \in DOMAIN Policy(cfg).credentials
  PROVE  \E i \in DOMAIN cfg.credentials : cfg.credentials[i].access_key.word = ak
BY DEF Policy, CompileState

\* What a configuration that compiles is free of.
LEMMA CompiledCredential ==
  ASSUME NEW cfg \in Configs, Compiles(cfg), NEW i \in DOMAIN cfg.credentials
  PROVE  LET c == cfg.credentials[i]
             limit == EffectiveExpires(c, DefaultExpires(cfg.settings))
         IN /\ limit \in 1..MaxExpires
            /\ limit = Promise!LifetimeLimit(cfg, c)
            /\ \A m \in c.allowed_methods : m.word \in {"GET", "HEAD"}
            /\ \A p \in c.allowed_prefixes : p = <<>> \/ ValidPath(p)
            /\ c.allowed_prefixes \subseteq Seq(Segment)
            /\ c.enabled \in BOOLEAN
<1>1. ~CredentialError(cfg.credentials[i], DefaultExpires(cfg.settings))
  BY DEF Compiles, ConfigError
<1> QED
  BY <1>1, ConfigAssumption
     DEF CredentialError, KnownMethod, EffectiveExpires, DefaultExpires, Promise!LifetimeLimit

\* The allowlists of a compiled credential restrict what the operator's do.
LEMMA AllowlistsKept ==
  ASSUME NEW cfg \in Configs, Compiles(cfg), NEW i \in DOMAIN cfg.credentials,
         NEW r, r.path \in Seq(Segment), ValidPath(r.path), r.host.word # ""
  PROVE  LET c == cfg.credentials[i]
             cred == CompileCredential(c, DefaultExpires(cfg.settings))
         IN PolicyAllows(cred, r) <=>
              /\ Promise!Allows(c.allowed_methods, r.method.word)
              /\ Promise!Allows(c.allowed_hosts, r.host.word)
              /\ \/ c.allowed_prefixes \subseteq {<<>>}
                 \/ \E p \in c.allowed_prefixes \ {<<>>} : Promise!Below(r.path, p)
<1> DEFINE c == cfg.credentials[i]
           cred == CompileCredential(c, DefaultExpires(cfg.settings))
<1>1. /\ cred.methods = Words(c.allowed_methods)
      /\ cred.hosts = Words(c.allowed_hosts) \ {""}
      /\ cred.prefixes = c.allowed_prefixes \ {<<>>}
  BY DEF CompileCredential
<1>2. /\ \A m \in c.allowed_methods : m.word \in {"GET", "HEAD"}
      /\ \A p \in c.allowed_prefixes : p = <<>> \/ ValidPath(p)
      /\ c.allowed_prefixes \subseteq Seq(Segment)
  BY CompiledCredential
<1> HIDE DEF c, cred
<1>3. MethodAllowed(cred, r.method.word) <=> Promise!Allows(c.allowed_methods, r.method.word)
  <2>1. \A m \in c.allowed_methods : m.word # ""
    BY <1>2
  <2>2. Words(c.allowed_methods) = {} <=> \A m \in c.allowed_methods : m.word = ""
    BY <2>1 DEF Words
  <2>3. r.method.word \in Words(c.allowed_methods)
          <=> \E m \in c.allowed_methods : m.word = r.method.word
    BY DEF Words
  <2> QED
    BY <1>1, <2>2, <2>3 DEF MethodAllowed, Promise!Allows
<1>4. HostAllowed(cred, r.host.word) <=> Promise!Allows(c.allowed_hosts, r.host.word)
  BY <1>1 DEF HostAllowed, Words, Promise!Allows
<1>5. PathAllowed(cred, r.path) <=>
        \/ c.allowed_prefixes \subseteq {<<>>}
        \/ \E p \in c.allowed_prefixes \ {<<>>} : Promise!Below(r.path, p)
  <2>1. \A p \in c.allowed_prefixes \ {<<>>} :
          PathMatchesPrefix(r.path, p) <=> Promise!Below(r.path, p)
    BY <1>2, PrefixIsBelow
  <2> QED
    BY <1>1, <2>1 DEF PathAllowed
<1> QED
  BY <1>3, <1>4, <1>5 DEF PolicyAllows, c, cred

\* Saturation at i64::MAX changes no answer of the two tests of time.
LEMMA SaturationIsHarmless ==
  ASSUME NEW date \in Int, date <= MaxInt, NEW expires \in Int, NEW skew \in Int,
         NEW now \in Times
  PROVE  /\ ~(now > SaturatingAdd(date, expires)) <=> now <= date + expires
         /\ ~(date > SaturatingAdd(now, skew)) <=> date - skew <= now
BY TimeAssumption DEF SaturatingAdd

\* What the tests ask of a request whatever the configuration.
Formed(r) ==
  /\ r.query # Malformed
  /\ Single(r.algorithm) /\ r.algorithm = "AWS4-HMAC-SHA256"
  /\ Single(r.credential) /\ r.credential # Malformed
  /\ r.credential.service = "s3" /\ r.credential.terminal = "aws4_request"
  /\ Single(r.signed_headers) /\ r.signed_headers = "host"
  /\ Single(r.date) /\ r.date # Malformed /\ DateOf(r.date) = r.credential.date
  /\ Single(r.expires) /\ r.expires # Malformed
  /\ Single(r.signature)

\* A path is segments and a date that parses is an i64.
Typed(r) ==
  /\ r.path \in Seq(Segment)
  /\ r.date \in Marks \/ (r.date \in Int /\ r.date <= MaxInt)

\* A well-formed request passes the tests exactly when it is plausible for the
\* credential it names, as the operator wrote it.
LEMMA ClearIsPlausible ==
  ASSUME NEW cfg \in Configs, Compiles(cfg), NEW i \in DOMAIN cfg.credentials,
         NEW now \in Times, NEW r, Typed(r), Formed(r),
         cfg.credentials[i].access_key.word = r.credential.access_key
  PROVE  Clear(Policy(cfg), r, now) <=> Promise!Plausible(cfg, cfg.credentials[i], r, now)
<1> DEFINE c == cfg.credentials[i]
           limit == EffectiveExpires(c, DefaultExpires(cfg.settings))
           cred == CompileCredential(c, DefaultExpires(cfg.settings))
           st == Policy(cfg)
<1>1. r.credential.access_key \in DOMAIN st.credentials /\ CredentialOf(st, r) = cred
  BY CredentialFound DEF CredentialOf
<1>2. /\ limit \in 1..MaxExpires /\ limit = Promise!LifetimeLimit(cfg, c)
      /\ c.enabled \in BOOLEAN
  BY CompiledCredential
<1>3. cred.enabled = c.enabled /\ cred.max_expires = limit
  BY DEF CompileCredential
<1>4. st.skew = cfg.settings.allowed_clock_skew /\ st.skew \in Int
      /\ st.methods = SupportedMethods(cfg.settings)
  BY ConfigAssumption DEF Policy, CompileState
<1>5. r.date \in Int /\ r.date <= MaxInt /\ r.path \in Seq(Segment)
  BY DEF Typed, Formed, Single, Marks
<1> DEFINE Methods == IF cfg.settings.supported_methods = {}
                      THEN r.method.word \in {"GET", "HEAD"}
                      ELSE \E m \in cfg.settings.supported_methods : m.word = r.method.word
           Path == /\ r.path # <<>>
                   /\ \A k \in DOMAIN r.path :
                        /\ r.path[k].name \notin {".", "..", "/", "%"}
                        /\ r.path[k].name = "" => k = Len(r.path)
           Lists == /\ Promise!Allows(c.allowed_methods, r.method.word)
                    /\ Promise!Allows(c.allowed_hosts, r.host.word)
                    /\ \/ c.allowed_prefixes \subseteq {<<>>}
                       \/ \E p \in c.allowed_prefixes \ {<<>>} : Promise!Below(r.path, p)
           InTime == /\ r.date - cfg.settings.allowed_clock_skew <= now
                     /\ now <= r.date + r.expires
<1>6. Promise!Plausible(cfg, c, r, now) <=>
        /\ c.enabled /\ Methods /\ r.host.word # "" /\ Lists /\ Path
        /\ r.expires \in 1..limit /\ InTime
  BY <1>2 DEF Promise!Plausible
<1>7. Clear(st, r, now) <=>
        /\ r.method.word # "" /\ r.host.word # "" /\ r.path # <<>>
        /\ r.method.word \in SupportedMethods(cfg.settings) /\ ValidPath(r.path)
        /\ r.expires \in 1..MaxExpires /\ c.enabled /\ PolicyAllows(cred, r)
        /\ ~(r.expires > limit) /\ ~FutureDated(st, r, now) /\ ~Expired(st, r, now)
  BY <1>1, <1>3, <1>4 DEF Clear, Formed
<1> HIDE DEF c, cred, limit, st, Methods, Path, Lists, InTime
<1>8. /\ Methods <=> r.method.word \in SupportedMethods(cfg.settings)
      /\ Methods => r.method.word # ""
  <2>1. \A m \in cfg.settings.supported_methods : m.word \in {"GET", "HEAD"}
    BY DEF Compiles, ConfigError, KnownMethod
  <2> QED
    BY <2>1 DEF Methods, SupportedMethods, Words
<1>9. ValidPath(r.path) <=> Path
  BY DEF ValidPath, Path, BadNames
<1>10. ValidPath(r.path) /\ r.host.word # "" => (PolicyAllows(cred, r) <=> Lists)
  BY <1>5, AllowlistsKept DEF Lists, c, cred
<1>11. r.expires \in 1..MaxExpires /\ ~(r.expires > limit) <=> r.expires \in 1..limit
  BY <1>2, MaxExpiresAssumption
<1>12. r.expires \in 1..limit => (~FutureDated(st, r, now) /\ ~Expired(st, r, now) <=> InTime)
  BY <1>2, <1>4, <1>5, SaturationIsHarmless DEF FutureDated, Expired, InTime
<1>13. Path => r.path # <<>>
  BY DEF Path
<1> QED
  BY <1>6, <1>7, <1>8, <1>9, <1>10, <1>11, <1>12, <1>13 DEF c, st
-------------------------------------------------------------------------------
\* What the signature covers.

Seed(secret) == <<"AWS4", secret>>

\* Hmac forgets nothing: another seed gives another key.
LEMMA SeedFromKey ==
  ASSUME NEW a, NEW b, NEW s, DeriveFrom(a, s) = DeriveFrom(b, s)
  PROVE  a = b
BY DEF DeriveFrom, Hmac

\* Everything a request says is in its string to sign, but the spellings, the
\* signature, and whether the query has other parts than parameters.
LEMMA StringToSignCovers ==
  ASSUME NEW r, NEW q, StringToSign(r) = StringToSign(q)
  PROVE  /\ r.method.word = q.method.word
         /\ r.host.word = q.host.word
         /\ CanonicalPath(r.path) = CanonicalPath(q.path)
         /\ r.algorithm = q.algorithm
         /\ r.credential = q.credential
         /\ r.date = q.date
         /\ r.expires = q.expires
         /\ r.signed_headers = q.signed_headers
         /\ r.extra = q.extra
<1>1. CanonicalRequest(r) = CanonicalRequest(q)
  BY DEF StringToSign
<1>2. /\ r.method.word = q.method.word
      /\ CanonicalPath(r.path) = CanonicalPath(q.path)
      /\ CanonicalQuery(r) = CanonicalQuery(q)
      /\ <<"host", r.host.word>> = <<"host", q.host.word>>
  <2> HIDE DEF CanonicalQuery
  <2> QED
    BY <1>1 DEF CanonicalRequest
<1> QED
  BY <1>2 DEF CanonicalQuery

\* And nothing else is.
LEMMA StringToSignDepends ==
  ASSUME NEW r, NEW q,
         r.method.word = q.method.word, r.host.word = q.host.word,
         CanonicalPath(r.path) = CanonicalPath(q.path),
         r.algorithm = q.algorithm, r.credential = q.credential, r.date = q.date,
         r.expires = q.expires, r.signed_headers = q.signed_headers, r.extra = q.extra
  PROVE  StringToSign(r) = StringToSign(q)
<1>1. CanonicalQuery(r) = CanonicalQuery(q)
  BY DEF CanonicalQuery
<1>2. CanonicalRequest(r) = CanonicalRequest(q)
  BY <1>1 DEF CanonicalRequest
<1>3. ScopeOf(r) = ScopeOf(q)
  BY DEF ScopeOf
<1> QED
  BY <1>2, <1>3 DEF StringToSign

LEMMA PresignFields ==
  ASSUME NEW call \in Calls
  PROVE  LET u == Presign(call) IN
         /\ u = [ method |-> Text(call.method), host |-> Text(call.host), path |-> u.path,
                  query |-> "ok", algorithm |-> "AWS4-HMAC-SHA256",
                  credential |-> u.credential, date |-> call.at, expires |-> call.expires,
                  signed_headers |-> "host", extra |-> call.extra, signature |-> u.signature ]
         /\ u.path \in Seq(Segment) /\ CanonicalPath(u.path) = call.path
         /\ u.credential = [ access_key |-> call.access_key, date |-> call.at \div DayLength,
                             region |-> call.region, service |-> "s3",
                             terminal |-> "aws4_request" ]
         /\ u.signature = [mac |-> IssuedSignature(call), spelling |-> "plain"]
         /\ IssuedSignature(call) = Mac(DeriveFrom(Seed(call.secret), ScopeOf(u)), u)
<1> DEFINE path == [i \in DOMAIN call.path |-> [name |-> call.path[i], spelling |-> "plain"]]
           scope == [ access_key |-> call.access_key, date |-> DateOf(call.at),
                      region |-> call.region, service |-> "s3", terminal |-> "aws4_request" ]
           unsigned ==
             [ method |-> Text(call.method), host |-> Text(call.host), path |-> path,
               query |-> "ok", algorithm |-> "AWS4-HMAC-SHA256", credential |-> scope,
               date |-> call.at, expires |-> call.expires, signed_headers |-> "host",
               extra |-> call.extra, signature |-> Missing ]
           key == DeriveFrom(Seed(call.secret), ScopeOf(unsigned))
           signature == [mac |-> Mac(key, unsigned), spelling |-> "plain"]
           u == Presign(call)
<1>1. u = [unsigned EXCEPT !.signature = signature]
  BY DEF Presign, Seed
<1> HIDE DEF path, scope, key, signature
<1>2. u = [ method |-> Text(call.method), host |-> Text(call.host), path |-> path,
            query |-> "ok", algorithm |-> "AWS4-HMAC-SHA256", credential |-> scope,
            date |-> call.at, expires |-> call.expires, signed_headers |-> "host",
            extra |-> call.extra, signature |-> signature ]
  BY <1>1
<1>3. StringToSign(u) = StringToSign(unsigned) /\ ScopeOf(u) = ScopeOf(unsigned)
  <2> HIDE DEF u
  <2>1. StringToSign(u) = StringToSign(unsigned)
    BY <1>2, StringToSignDepends
  <2> QED
    BY <1>2, <2>1 DEF ScopeOf
<1>4. path \in Seq(Segment) /\ CanonicalPath(path) = call.path
  <2>1. call.path \in Seq(STRING) /\ call.path \in [1..Len(call.path) -> STRING]
        /\ DOMAIN call.path = 1..Len(call.path) /\ Len(call.path) \in Nat
    BY PresignAssumption, LenProperties
  <2>2. \A i \in DOMAIN call.path : call.path[i] \in STRING
    BY <2>1
  <2>3. path \in Seq(Segment)
    <3> DEFINE n == Len(call.path)
               seg(i) == [name |-> call.path[i], spelling |-> "plain"]
    <3>1. path = [i \in 1..n |-> seg(i)]
      BY <2>1 DEF path
    <3>2. \A i \in 1..n : seg(i) \in Segment
      <4>1. \A i \in 1..n : call.path[i] \in STRING
        BY <2>1, <2>2
      <4>2. \A x \in STRING : [name |-> x, spelling |-> "plain"] \in Segment
        BY DEF Segment
      <4> QED
        BY <4>1, <4>2
    <3>3. n \in Nat
      BY <2>1
    <3> HIDE DEF n, seg
    <3> QED
      BY <3>1, <3>2, <3>3, IsASeq
  <2>4. CanonicalPath(path) = [i \in DOMAIN call.path |-> call.path[i]]
    BY DEF CanonicalPath, path
  <2> QED
    BY <2>1, <2>3, <2>4
<1>5. IssuedSignature(call) = Mac(key, unsigned)
  BY <1>2 DEF IssuedSignature, signature
<1>6. Mac(key, unsigned) = Mac(DeriveFrom(Seed(call.secret), ScopeOf(u)), u)
  BY <1>3 DEF Mac, key
<1>7. scope = [ access_key |-> call.access_key, date |-> call.at \div DayLength,
                region |-> call.region, service |-> "s3", terminal |-> "aws4_request" ]
  BY DEF scope, DateOf
<1> HIDE DEF u, unsigned
<1>8. signature = [mac |-> IssuedSignature(call), spelling |-> "plain"]
  BY <1>5 DEF signature
<1> QED
  BY <1>2, <1>4, <1>5, <1>6, <1>7, <1>8 DEF u

\* The same, field by field.
LEMMA PresignedWords ==
  ASSUME NEW call \in Calls
  PROVE  LET u == Presign(call) IN
         /\ u.method.word = call.method /\ u.host.word = call.host
         /\ CanonicalPath(u.path) = call.path
         /\ u.algorithm = "AWS4-HMAC-SHA256"
         /\ u.credential = [ access_key |-> call.access_key, date |-> call.at \div DayLength,
                             region |-> call.region, service |-> "s3",
                             terminal |-> "aws4_request" ]
         /\ u.date = call.at /\ u.expires = call.expires
         /\ u.signed_headers = "host" /\ u.extra = call.extra
         /\ IssuedSignature(call) = Mac(DeriveFrom(Seed(call.secret), ScopeOf(u)), u)
<1> DEFINE u == Presign(call)
<1>1. /\ u = [ method |-> Text(call.method), host |-> Text(call.host), path |-> u.path,
              query |-> "ok", algorithm |-> "AWS4-HMAC-SHA256",
              credential |-> u.credential, date |-> call.at, expires |-> call.expires,
              signed_headers |-> "host", extra |-> call.extra, signature |-> u.signature ]
      /\ CanonicalPath(u.path) = call.path
      /\ u.credential = [ access_key |-> call.access_key, date |-> call.at \div DayLength,
                          region |-> call.region, service |-> "s3",
                          terminal |-> "aws4_request" ]
      /\ IssuedSignature(call) = Mac(DeriveFrom(Seed(call.secret), ScopeOf(u)), u)
  BY PresignFields
<1> HIDE DEF u
<1>2. u.method = Text(call.method) /\ u.host = Text(call.host)
  BY <1>1
<1>3. u.method.word = call.method /\ u.host.word = call.host
  BY <1>2 DEF Text, Spelled
<1> QED
  BY <1>1, <1>3 DEF u

\* A request is a presigned one but for one field; a signature it carries of its
\* own string to sign is the one that was issued.
LEMMA RequestShape ==
  ASSUME NEW call \in Calls, NEW r \in Requests(call)
  PROVE  /\ Typed(r)
         /\ r.query \in {"ok", Malformed}
         /\ r.signature \notin Marks =>
              /\ \E how \in Spellings : r.signature = [mac |-> r.signature.mac, spelling |-> how]
              /\ r.signature.mac[2] = StringToSign(r) => r.signature.mac = IssuedSignature(call)
<1> DEFINE u == Presign(call)
           issued == IssuedSignature(call)
           Shape(q) == /\ Typed(q)
                       /\ q.query \in {"ok", Malformed}
                       /\ q.signature \notin Marks =>
                            /\ \E how \in Spellings :
                                 q.signature = [mac |-> q.signature.mac, spelling |-> how]
                            /\ q.signature.mac[2] = StringToSign(q) => q.signature.mac = issued
<1> SUFFICES Shape(r)
  OBVIOUS
<1>1. /\ u = [ method |-> Text(call.method), host |-> Text(call.host), path |-> u.path,
              query |-> "ok", algorithm |-> "AWS4-HMAC-SHA256",
              credential |-> u.credential, date |-> call.at, expires |-> call.expires,
              signed_headers |-> "host", extra |-> call.extra, signature |-> u.signature ]
      /\ u.path \in Seq(Segment)
      /\ u.signature = [mac |-> issued, spelling |-> "plain"]
  BY PresignFields
<1>2. call.at \in Int /\ call.at <= MaxInt
  BY TimeAssumption
<1>3. r = u \/ r = [u EXCEPT !.signature.spelling = "upper"]
        \/ \E a \in Alterations : r = [u EXCEPT ![a.field] = a.value]
  BY DEF Requests
<1> HIDE DEF u, issued
<1>4. ASSUME NEW how \in Spellings, NEW q, q.signature = [mac |-> issued, spelling |-> how]
      PROVE  /\ \E h \in Spellings : q.signature = [mac |-> q.signature.mac, spelling |-> h]
             /\ q.signature.mac = issued
  BY <1>4
<1>5. CASE r = u
  <2>1. Typed(r) /\ r.query = "ok" /\ r.signature = [mac |-> issued, spelling |-> "plain"]
    BY <1>1, <1>2, <1>5 DEF Typed
  <2> QED
    BY <1>4, <2>1 DEF Spellings
<1>6. CASE r = [u EXCEPT !.signature.spelling = "upper"]
  <2>1. Typed(r) /\ r.query = "ok" /\ r.signature = [mac |-> issued, spelling |-> "upper"]
    BY <1>1, <1>2, <1>6 DEF Typed
  <2> QED
    BY <1>4, <2>1 DEF Spellings
<1>7. ASSUME NEW a \in Alterations, r = [u EXCEPT ![a.field] = a.value]
      PROVE  Shape(r)
  <2>1. /\ a.field \in { "method", "host", "path", "query", "algorithm", "credential", "date",
                        "expires", "signed_headers", "extra", "signature" }
        /\ a.field = "path" => a.value \in Seq(Segment)
        /\ a.field = "query" => a.value = Malformed
        /\ a.field = "date" => a.value \in Marks \/ (a.value \in Int /\ a.value <= MaxInt)
    BY AlterationAssumption
  <2>2. /\ r.path = IF a.field = "path" THEN a.value ELSE u.path
        /\ r.query = IF a.field = "query" THEN a.value ELSE "ok"
        /\ r.date = IF a.field = "date" THEN a.value ELSE call.at
        /\ r.signature = IF a.field = "signature" THEN a.value ELSE u.signature
    BY <1>1, <1>7
  <2>3. Typed(r) /\ r.query \in {"ok", Malformed}
    BY <1>1, <1>2, <2>1, <2>2 DEF Typed
  <2>4. CASE a.field # "signature"
    BY <1>1, <1>4, <2>2, <2>3, <2>4 DEF Spellings
  <2>5. CASE a.field = "signature" /\ a.value \in Marks
    BY <2>2, <2>3, <2>5
  <2>6. CASE a.field = "signature" /\ a.value \notin Marks
    <3>1. /\ a.value.spelling \in Spellings
          /\ a.value.mac[2] = StringToSign(u) => a.value.mac = issued
          /\ a.value = [mac |-> a.value.mac, spelling |-> a.value.spelling]
      BY <2>6, SignatureAssumption DEF u, issued
    <3>2. StringToSign(r) = StringToSign(u)
      <4>1. /\ r.method = u.method /\ r.host = u.host /\ r.path = u.path
            /\ r.algorithm = u.algorithm /\ r.credential = u.credential /\ r.date = u.date
            /\ r.expires = u.expires /\ r.signed_headers = u.signed_headers /\ r.extra = u.extra
        BY <1>1, <1>7, <2>6
      <4> QED
        BY <4>1, StringToSignDepends
    <3> QED
      BY <2>2, <2>3, <2>6, <3>1, <3>2
  <2> QED
    BY <2>4, <2>5, <2>6
<1> QED
  BY <1>3, <1>5, <1>6, <1>7

LEMMA UnalteredIsFormed ==
  ASSUME NEW call \in Calls, NEW r, Promise!Unaltered(call, r)
  PROVE  Formed(r) /\ r.signature \notin Marks
<1>1. /\ r.query = "ok" /\ r.algorithm = "AWS4-HMAC-SHA256" /\ r.signed_headers = "host"
      /\ r.credential = Presign(call).credential
      /\ r.credential.service = "s3" /\ r.credential.terminal = "aws4_request"
      /\ r.credential.date = DateOf(call.at)
      /\ r.date = call.at /\ r.expires = call.expires
  <2>1. r.credential = [ access_key |-> call.access_key, date |-> call.at \div DayLength,
                         region |-> call.region, service |-> "s3",
                         terminal |-> "aws4_request" ]
    BY DEF Promise!Unaltered
  <2>2. r.credential = Presign(call).credential
    BY <2>1, PresignedWords
  <2> QED
    BY <2>1, <2>2 DEF Promise!Unaltered, DateOf
<1>2. PICK how \in Spellings : r.signature = [mac |-> IssuedSignature(call), spelling |-> how]
  BY DEF Promise!Unaltered, Spellings
<1>3. /\ r.query \notin Marks /\ r.algorithm \notin Marks /\ r.signed_headers \notin Marks
      /\ r.credential \notin Marks /\ r.date \notin Marks /\ r.expires \notin Marks
      /\ r.signature \notin Marks
  BY <1>1, <1>2, PresignAssumption
<1> QED
  BY <1>1, <1>3 DEF Formed, Single, Marks

\* A request that fails a test is not entitled to pass.
LEMMA DeniedIsNotEntitled ==
  ASSUME NEW cfg \in Configs, Compiles(cfg), NEW q, q.call \in Calls,
         q.request \in Requests(q.call), q.now \in Times,
         ~Clear(Policy(cfg), q.request, q.now)
  PROVE  ~Promise!Entitled(cfg, q)
<1> SUFFICES ASSUME Promise!Entitled(cfg, q)
             PROVE  FALSE
  OBVIOUS
<1>1. Formed(q.request) /\ Typed(q.request)
  BY UnalteredIsFormed, RequestShape DEF Promise!Entitled
<1>2. PICK i \in DOMAIN cfg.credentials :
        Promise!Plausible(cfg, cfg.credentials[i], q.request, q.now)
  BY DEF Promise!Entitled
<1>3. cfg.credentials[i].access_key.word = q.request.credential.access_key
  BY <1>2 DEF Promise!Plausible
<1> QED
  BY <1>1, <1>2, <1>3, ClearIsPlausible

\* One that passes them all has the right signature exactly when it is.
LEMMA SignedIsEntitled ==
  ASSUME NEW cfg \in Configs, Compiles(cfg), NEW q, q.call \in Calls,
         q.request \in Requests(q.call), q.now \in Times,
         Clear(Policy(cfg), q.request, q.now)
  PROVE  LET r    == q.request
             seed == Policy(cfg).credentials[r.credential.access_key].seed
         IN Judge(Mac(DeriveFrom(seed, ScopeOf(r)), r), r).allowed <=> Promise!Entitled(cfg, q)
<1> DEFINE r    == q.request
           u    == Presign(q.call)
           ak   == r.credential.access_key
           seed == Policy(cfg).credentials[ak].seed
           mac  == Mac(DeriveFrom(seed, ScopeOf(r)), r)
           issued == IssuedSignature(q.call)
<1>1. Formed(r) /\ ak \in DOMAIN Policy(cfg).credentials
  BY DEF Clear, Formed
<1>2. /\ Typed(r)
      /\ r.query = "ok"
      /\ r.signature # Malformed =>
           /\ \E how \in Spellings : r.signature = [mac |-> r.signature.mac, spelling |-> how]
           /\ r.signature.mac[2] = StringToSign(r) => r.signature.mac = issued
  BY <1>1, RequestShape DEF Formed, Single, Marks
<1>3. PICK i \in DOMAIN cfg.credentials : cfg.credentials[i].access_key.word = ak
  BY <1>1, KeyIsListed
<1>4. seed = Seed(cfg.credentials[i].secret_key)
  <2>1. Policy(cfg).credentials[ak]
          = CompileCredential(cfg.credentials[i], DefaultExpires(cfg.settings))
    BY <1>3, CredentialFound
  <2>2. ASSUME NEW c, NEW limit
        PROVE  CompileCredential(c, limit).seed = Seed(c.secret_key)
    BY DEF CompileCredential, Seed
  <2> QED
    BY <2>1, <2>2
<1>5. Promise!Plausible(cfg, cfg.credentials[i], r, q.now)
  BY <1>1, <1>2, <1>3, ClearIsPlausible
<1>6. \A j \in DOMAIN cfg.credentials : cfg.credentials[j].access_key.word = ak => j = i
  BY <1>3 DEF Compiles, ConfigError
<1>7. /\ u.method.word = q.call.method /\ u.host.word = q.call.host
      /\ CanonicalPath(u.path) = q.call.path
      /\ u.algorithm = "AWS4-HMAC-SHA256"
      /\ u.credential = [ access_key |-> q.call.access_key, date |-> q.call.at \div DayLength,
                          region |-> q.call.region, service |-> "s3",
                          terminal |-> "aws4_request" ]
      /\ u.date = q.call.at /\ u.expires = q.call.expires
      /\ u.signed_headers = "host" /\ u.extra = q.call.extra
      /\ issued = Mac(DeriveFrom(Seed(q.call.secret), ScopeOf(u)), u)
  BY PresignedWords
<1>8. Judge(mac, r).allowed <=> r.signature # Malformed /\ r.signature.mac = mac
  BY DEF Judge
<1>9. Promise!Entitled(cfg, q) <=>
        Promise!Unaltered(q.call, r) /\ cfg.credentials[i].secret_key = q.call.secret
  BY <1>5, <1>6 DEF Promise!Entitled, Promise!Plausible
<1> HIDE DEF u, seed, mac, issued, r
<1>10. ASSUME r.signature # Malformed, r.signature.mac = mac
       PROVE  Promise!Unaltered(q.call, r) /\ cfg.credentials[i].secret_key = q.call.secret
  <2>1. mac = <<DeriveFrom(seed, ScopeOf(r)), StringToSign(r)>>
    BY DEF mac, Mac
  <2>2. r.signature.mac = issued
    BY <1>2, <1>10, <2>1
  <2>3. issued = <<DeriveFrom(Seed(q.call.secret), ScopeOf(u)), StringToSign(u)>>
    BY <1>7 DEF Mac
  <2>4. /\ StringToSign(r) = StringToSign(u)
        /\ DeriveFrom(seed, ScopeOf(r)) = DeriveFrom(Seed(q.call.secret), ScopeOf(u))
    BY <1>10, <2>1, <2>2, <2>3
  <2>5. /\ r.method.word = u.method.word /\ r.host.word = u.host.word
        /\ CanonicalPath(r.path) = CanonicalPath(u.path)
        /\ r.algorithm = u.algorithm /\ r.credential = u.credential /\ r.date = u.date
        /\ r.expires = u.expires /\ r.signed_headers = u.signed_headers /\ r.extra = u.extra
    BY <2>4, StringToSignCovers
  <2>6. cfg.credentials[i].secret_key = q.call.secret
    <3>1. ScopeOf(r) = ScopeOf(u)
      BY <2>5 DEF ScopeOf
    <3>2. seed = Seed(q.call.secret)
      BY <2>4, <3>1, SeedFromKey
    <3> QED
      BY <1>4, <3>2 DEF Seed
  <2>7. Promise!Unaltered(q.call, r)
    <3>1. \E how \in Spellings : r.signature = [mac |-> issued, spelling |-> how]
      BY <1>2, <1>10, <2>2
    <3>2. [k \in DOMAIN r.path |-> r.path[k].name] = q.call.path
      BY <1>7, <2>5 DEF CanonicalPath
    <3> QED
      BY <1>2, <1>7, <2>5, <3>1, <3>2 DEF Promise!Unaltered, issued, Spellings
  <2> QED
    BY <2>6, <2>7
<1>11. ASSUME Promise!Unaltered(q.call, r), cfg.credentials[i].secret_key = q.call.secret
       PROVE  r.signature # Malformed /\ r.signature.mac = mac
  <2>1. r.signature # Malformed
    BY <1>11, UnalteredIsFormed DEF Marks
  <2>2. r.signature.mac = issued
    BY <1>11 DEF Promise!Unaltered, issued
  <2>3. /\ r.method.word = u.method.word /\ r.host.word = u.host.word
        /\ CanonicalPath(r.path) = CanonicalPath(u.path)
        /\ r.algorithm = u.algorithm /\ r.credential = u.credential /\ r.date = u.date
        /\ r.expires = u.expires /\ r.signed_headers = u.signed_headers /\ r.extra = u.extra
    BY <1>7, <1>11 DEF Promise!Unaltered, CanonicalPath
  <2>4. StringToSign(r) = StringToSign(u) /\ ScopeOf(r) = ScopeOf(u)
    <3>1. ScopeOf(r) = ScopeOf(u)
      BY <2>3 DEF ScopeOf
    <3> QED
      BY <2>3, <3>1, StringToSignDepends
  <2>5. mac = issued
    BY <1>4, <1>7, <1>11, <2>4 DEF mac, Mac
  <2> QED
    BY <2>1, <2>2, <2>5
<1> QED
  BY <1>8, <1>9, <1>10, <1>11 DEF r, seed, mac, ak
-------------------------------------------------------------------------------
\* The queue of keys of one credential.

KeysFor(seed) ==
  {[scope |-> ScopeOf(r), key |-> DeriveFrom(seed, ScopeOf(r))] :
     r \in UNION {Requests(call) : call \in Calls}}

Queues(seed) ==
  {c \in Seq(KeysFor(seed)) :
     /\ Len(c) <= Capacity
     /\ \A i, j \in 1..Len(c) : c[i].scope = c[j].scope => i = j}

\* Whatever entry the lookup stops at, the key under it is the scope's.
LEMMA KeyAtIsDerived ==
  ASSUME NEW seed, NEW c \in Seq(KeysFor(seed)), NEW s, Holds(c, s)
  PROVE  KeyAt(c, s) = DeriveFrom(seed, s)
<1> DEFINE T == {i \in DOMAIN c : Matches(c[i], s)}
           p == CHOOSE i \in DOMAIN c : IsPosition(c, s, i)
<1>1. DOMAIN c = 1..Len(c) /\ Len(c) \in Nat
  BY LenProperties
<1>2. PICK m \in T : \A k \in T : m <= k
  <2>1. T \subseteq Nat /\ T # {}
    BY <1>1 DEF Holds
  <2> QED
    BY <2>1, LeastMember
<1>3. IsPosition(c, s, m)
  BY <1>1, <1>2 DEF IsPosition
<1>4. p \in DOMAIN c /\ IsPosition(c, s, p)
  BY <1>2, <1>3
<1> HIDE DEF p
<1>5. c[p] \in KeysFor(seed) /\ Matches(c[p], s)
  BY <1>1, <1>4, ElementOfSeq DEF IsPosition
<1>6. c[p].key = DeriveFrom(seed, c[p].scope)
  BY <1>5 DEF KeysFor
<1>7. DeriveFrom(seed, c[p].scope) = DeriveFrom(seed, s)
  BY <1>5 DEF Matches, DeriveFrom
<1> QED
  BY <1>6, <1>7 DEF KeyAt, p

\* A lookup leaves a queue of the same seed behind, which holds the scope.
LEMMA CacheAfterIsQueue ==
  ASSUME NEW seed, NEW c \in Queues(seed), NEW call \in Calls, NEW r \in Requests(call)
  PROVE  LET s == ScopeOf(r) IN
         /\ CacheAfter(seed, c, s) \in Queues(seed)
         /\ KeyAt(CacheAfter(seed, c, s), s) = DeriveFrom(seed, s)
<1> DEFINE s == ScopeOf(r)
           e == [scope |-> s, key |-> DeriveFrom(seed, s)]
           longer == PushFront(c, e)
           n == IF Len(longer) > Capacity THEN Capacity ELSE Len(longer)
           after == CacheAfter(seed, c, s)
<1>1. /\ c \in Seq(KeysFor(seed)) /\ Len(c) \in Nat /\ Len(c) <= Capacity
      /\ \A i, j \in 1..Len(c) : c[i].scope = c[j].scope => i = j
  BY LenProperties DEF Queues
<1>2. CASE Holds(c, s)
  BY <1>1, <1>2, KeyAtIsDerived DEF CacheAfter
<1>3. CASE ~Holds(c, s)
  <2>1. after = SubSeq(longer, 1, n)
    BY <1>3 DEF CacheAfter
  <2>2. e \in KeysFor(seed) /\ e.scope = s
    BY DEF KeysFor
  <2>3. \A i \in 1..Len(c) : c[i].scope # s
    <3>1. DOMAIN c = 1..Len(c)
      BY <1>1, LenProperties
    <3> QED
      BY <1>3, <3>1 DEF Holds, Matches
  <2> HIDE DEF e, s
  <2>4. /\ longer \in Seq(KeysFor(seed)) /\ Len(longer) = Len(c) + 1
        /\ longer[1] = e /\ \A i \in 2..(Len(c) + 1) : longer[i] = c[i - 1]
    BY <1>1, <2>2 DEF PushFront
  <2>5. \A i, j \in 1..Len(longer) : longer[i].scope = longer[j].scope => i = j
    <3>1. \A i \in 2..(Len(c) + 1) : i - 1 \in 1..Len(c) /\ longer[i].scope = c[i - 1].scope
      BY <1>1, <2>4
    <3>2. longer[1].scope = s
      BY <2>2, <2>4
    <3>3. \A i \in 1..Len(longer) : i = 1 \/ i \in 2..(Len(c) + 1)
      BY <1>1, <2>4
    <3> HIDE DEF longer
    <3>4. ASSUME NEW i \in 2..(Len(c) + 1), NEW j \in 2..(Len(c) + 1),
                 longer[i].scope = longer[j].scope
          PROVE  i = j
      <4>1. c[i - 1].scope = c[j - 1].scope
        BY <3>1, <3>4
      <4>2. i - 1 = j - 1
        BY <1>1, <3>1, <4>1
      <4> QED
        BY <1>1, <4>2
    <3>5. ASSUME NEW j \in 2..(Len(c) + 1)
          PROVE  longer[j].scope # longer[1].scope
      BY <2>3, <3>1, <3>2
    <3> SUFFICES ASSUME NEW i \in 1..Len(longer), NEW j \in 1..Len(longer),
                        longer[i].scope = longer[j].scope
                 PROVE  i = j
      OBVIOUS
    <3>6. CASE i = 1 \/ j = 1
      BY <3>3, <3>5, <3>6
    <3>7. CASE i # 1 /\ j # 1
      BY <3>3, <3>4, <3>7
    <3> QED
      BY <3>6, <3>7
  <2>6. n \in 1..Len(longer) /\ n <= Capacity
    BY <1>1, <2>4, CapacityAssumption
  <2> HIDE DEF longer, n
  <2>7. /\ after \in Seq(KeysFor(seed)) /\ Len(after) = n
        /\ \A i \in 1..n : after[i] = longer[i]
    <3>1. \A i \in 1..n : longer[i] \in KeysFor(seed) /\ 1 + i - 1 = i
      BY <1>1, <2>4, <2>6, ElementOfSeq
    <3>2. n \in Nat /\ n >= 1 /\ n - 1 + 1 = n
      BY <1>1, <2>4, <2>6
    <3> QED
      BY <2>1, <3>1, <3>2, SubSeqProperties
  <2> HIDE DEF after
  <2>8. after \in Queues(seed)
    <3>1. \A i \in 1..n : i \in 1..Len(longer)
      BY <1>1, <2>4, <2>6
    <3>2. \A i, j \in 1..n : after[i].scope = after[j].scope => i = j
      BY <2>5, <2>7, <3>1
    <3> QED
      BY <2>6, <2>7, <3>2 DEF Queues
  <2>9. Holds(after, s)
    <3>1. 1 \in 1..n
      BY <1>1, <2>4, <2>6
    <3>2. 1 \in DOMAIN after /\ after[1].scope = s
      BY <2>2, <2>4, <2>7, <3>1, LenProperties
    <3> QED
      BY <3>2 DEF Holds, Matches
  <2>10. KeyAt(after, s) = DeriveFrom(seed, s)
    BY <2>7, <2>9, KeyAtIsDerived
  <2> QED
    BY <2>8, <2>10 DEF after, s
<1> QED
  BY <1>2, <1>3
-------------------------------------------------------------------------------
\* The states ever compiled and the calls in progress.

Caches(creds) ==
  {f \in [DOMAIN creds -> UNION {Queues(creds[ak].seed) : ak \in DOMAIN creds}] :
     \A ak \in DOMAIN creds : f[ak] \in Queues(creds[ak].seed)}

StatesOf(cfg) ==
  {[source |-> cfg, policy |-> Policy(cfg), cache |-> f] : f \in Caches(Policy(cfg).credentials)}

Compiled == UNION {StatesOf(cfg) : cfg \in {c \in Configs : Compiles(c)}}

LEMMA CompiledFields ==
  ASSUME NEW st \in Compiled
  PROVE  /\ st.source \in Configs /\ Compiles(st.source)
         /\ st.policy = Policy(st.source)
         /\ st.cache \in Caches(st.policy.credentials)
         /\ st = [source |-> st.source, policy |-> st.policy, cache |-> st.cache]
         /\ \A f \in Caches(st.policy.credentials) : [st EXCEPT !.cache = f] \in Compiled
<1>1. PICK cfg \in Configs : Compiles(cfg) /\ st \in StatesOf(cfg)
  BY DEF Compiled
<1>2. PICK f \in Caches(Policy(cfg).credentials) :
        st = [source |-> cfg, policy |-> Policy(cfg), cache |-> f]
  BY <1>1 DEF StatesOf
<1>3. ASSUME NEW g \in Caches(st.policy.credentials)
      PROVE  [st EXCEPT !.cache = g] \in Compiled
  <2>1. [st EXCEPT !.cache = g] = [source |-> cfg, policy |-> Policy(cfg), cache |-> g]
    BY <1>2
  <2>2. [st EXCEPT !.cache = g] \in StatesOf(cfg)
    BY <1>2, <2>1 DEF StatesOf
  <2> QED
    BY <1>1, <2>2 DEF Compiled
<1> QED
  BY <1>1, <1>2, <1>3

\* A new state starts with empty queues.
LEMMA NewStateCompiled ==
  ASSUME NEW cfg \in Configs, Compiles(cfg)
  PROVE  NewState(cfg) \in Compiled /\ NewState(cfg).source = cfg
<1> DEFINE creds == Policy(cfg).credentials
           f == [ak \in DOMAIN creds |-> <<>>]
<1>1. NewState(cfg) = [source |-> cfg, policy |-> Policy(cfg), cache |-> f]
  BY DEF NewState, Policy
<1>2. \A seed : <<>> \in Queues(seed)
  BY CapacityAssumption DEF Queues
<1> HIDE DEF creds
<1>3. f \in Caches(creds)
  BY <1>2 DEF Caches
<1>4. NewState(cfg) \in StatesOf(cfg)
  BY <1>1, <1>3 DEF StatesOf, creds
<1> QED
  BY <1>1, <1>4 DEF Compiled

\* A lookup leaves a compiled state behind, changed in the one queue.
LEMMA LookupCompiled ==
  ASSUME NEW st \in Compiled, NEW call \in Calls, NEW r \in Requests(call),
         r.credential.access_key \in DOMAIN st.policy.credentials
  PROVE  LET ak    == r.credential.access_key
             seed  == st.policy.credentials[ak].seed
             queue == CacheAfter(seed, st.cache[ak], ScopeOf(r))
         IN /\ [st EXCEPT !.cache[ak] = queue] \in Compiled
            /\ [st EXCEPT !.cache[ak] = queue].source = st.source
            /\ KeyAt(queue, ScopeOf(r)) = DeriveFrom(seed, ScopeOf(r))
<1> DEFINE ak    == r.credential.access_key
           creds == st.policy.credentials
           queue == CacheAfter(creds[ak].seed, st.cache[ak], ScopeOf(r))
           f     == [st.cache EXCEPT ![ak] = queue]
<1>1. st.cache \in Caches(creds)
  BY CompiledFields
<1>2. st.cache[ak] \in Queues(creds[ak].seed)
  BY <1>1 DEF Caches
<1>3. /\ queue \in Queues(creds[ak].seed)
      /\ KeyAt(queue, ScopeOf(r)) = DeriveFrom(creds[ak].seed, ScopeOf(r))
  BY <1>2, CacheAfterIsQueue
<1> HIDE DEF ak, creds, queue
<1>4. f \in Caches(creds)
  BY <1>1, <1>3 DEF Caches
<1>5. [st EXCEPT !.cache = f] \in Compiled
  BY <1>4, CompiledFields DEF creds
<1>6. [st EXCEPT !.cache[ak] = queue] = [st EXCEPT !.cache = f]
  BY CompiledFields
<1>7. [st EXCEPT !.cache = f].source = st.source
  BY CompiledFields
<1> QED
  BY <1>3, <1>5, <1>6, <1>7 DEF ak, creds, queue

LEMMA QueryFields ==
  ASSUME NEW q \in AllQueries
  PROVE  q.handle \in Handles /\ q.call \in Calls /\ q.request \in Requests(q.call) /\ q.now \in Times
BY DEF AllQueries

LEMMA QueryMade ==
  ASSUME NEW h \in Handles, NEW call \in Calls, NEW r \in Requests(call), NEW now \in Times
  PROVE  [handle |-> h, call |-> call, request |-> r, now |-> now] \in AllQueries
BY DEF AllQueries

Stages == {"idle", "asked", "vetted", "done"}

IInv ==
  /\ states \in Seq(Compiled)
  /\ handle \in [Handles -> 0..Len(states)]
  /\ job \in [Threads -> AllQueries \cup {None}]
  /\ stage \in [Threads -> Stages]
  /\ result = [t \in Threads |-> result[t]]
  /\ \A t \in Threads :
       /\ stage[t] = "idle" <=> job[t] = None
       /\ job[t] # None => handle[job[t].handle] # 0
       /\ stage[t] = "vetted" => Clear(StateOf(t).policy, job[t].request, job[t].now)
       /\ stage[t] = "done" => result[t].allowed \in BOOLEAN

\* What the invariant says of a call in progress.
LEMMA CallInProgress ==
  ASSUME IInv, NEW t \in Threads, stage[t] # "idle"
  PROVE  /\ job[t] \in AllQueries /\ job[t] # None
         /\ job[t].handle \in Handles /\ job[t].call \in Calls
         /\ job[t].request \in Requests(job[t].call) /\ job[t].now \in Times
         /\ handle[job[t].handle] \in DOMAIN states
         /\ StateOf(t) \in Compiled
<1>1. job[t] \in AllQueries /\ job[t] # None /\ handle[job[t].handle] # 0
  BY DEF IInv
<1>2. /\ job[t].handle \in Handles /\ job[t].call \in Calls
      /\ job[t].request \in Requests(job[t].call) /\ job[t].now \in Times
  BY <1>1, QueryFields
<1>3. /\ states \in Seq(Compiled) /\ Len(states) \in Nat /\ DOMAIN states = 1..Len(states)
      /\ handle[job[t].handle] \in 0..Len(states)
  BY <1>2, LenProperties DEF IInv
<1>4. handle[job[t].handle] \in 1..Len(states)
  BY <1>1, <1>3
<1>5. states[handle[job[t].handle]] \in Compiled
  BY <1>3, <1>4, ElementOfSeq
<1> QED
  BY <1>1, <1>2, <1>3, <1>4, <1>5 DEF StateOf

\* The entries of the caches after a compilation or a lookup.
LEMMA PutKeeps ==
  ASSUME IInv, NEW h \in Handles, NEW st \in Compiled, Put(h, st)
  PROVE  /\ states' \in Seq(Compiled)
         /\ Len(states') = Len(states) + 1
         /\ \A g \in DOMAIN states : g \in DOMAIN states' /\ states'[g] = states[g]
         /\ states'[Len(states) + 1] = st
         /\ handle' \in [Handles -> 0..Len(states')]
         /\ handle'[h] = Len(states) + 1
         /\ \A k \in Handles \ {h} : handle'[k] = handle[k]
<1>1. states \in Seq(Compiled) /\ Len(states) \in Nat /\ DOMAIN states = 1..Len(states)
  BY LenProperties DEF IInv
<1>2. states' = Append(states, st) /\ handle' = [handle EXCEPT ![h] = Len(states) + 1]
  BY DEF Put
<1>3. /\ states' \in Seq(Compiled)
      /\ Len(states') = Len(states) + 1
      /\ \A g \in 1..Len(states) : states'[g] = states[g]
      /\ states'[Len(states) + 1] = st
  BY <1>1, <1>2, AppendProperties
<1>4. DOMAIN states' = 1..(Len(states) + 1)
  BY <1>3, LenProperties
<1> QED
  BY <1>1, <1>2, <1>3, <1>4 DEF IInv

LEMMA Initially == Init => IInv
<1> SUFFICES ASSUME Init
             PROVE  IInv
  OBVIOUS
<1>1. states = <<>> /\ states \in Seq(Compiled) /\ Len(states) = 0
  BY DEF Init
<1>2. handle \in [Handles -> 0..Len(states)]
  BY <1>1 DEF Init
<1> QED
  BY <1>1, <1>2, NoneAssumption DEF Init, IInv, Stages

\* No call is in progress on the handle that gets the new state.
LEMMA PutInv ==
  ASSUME IInv, NEW h \in Handles, NEW st \in Compiled, Put(h, st),
         UNCHANGED <<job, stage, result>>,
         \A t \in Threads : job[t] # None => job[t].handle # h
  PROVE  IInv'
<1>1. /\ states' \in Seq(Compiled)
      /\ Len(states') = Len(states) + 1
      /\ \A g \in DOMAIN states : states'[g] = states[g]
      /\ handle' \in [Handles -> 0..Len(states')]
      /\ \A k \in Handles \ {h} : handle'[k] = handle[k]
  BY PutKeeps
<1>2. ASSUME NEW t \in Threads, stage[t] # "idle"
      PROVE  StateOf(t)' = StateOf(t) /\ handle'[job[t].handle] = handle[job[t].handle]
  <2>1. /\ job[t] # None /\ job[t].handle \in Handles
        /\ handle[job[t].handle] \in DOMAIN states
    BY <1>2, CallInProgress
  <2>2. handle'[job[t].handle] = handle[job[t].handle]
    BY <1>1, <2>1
  <2> QED
    BY <1>1, <2>1, <2>2 DEF StateOf
<1>3. ASSUME NEW t \in Threads
      PROVE  /\ stage'[t] = "idle" <=> job'[t] = None
             /\ job'[t] # None => handle'[job'[t].handle] # 0
             /\ stage'[t] = "vetted" => Clear(StateOf(t)'.policy, job'[t].request, job'[t].now)
             /\ stage'[t] = "done" => result'[t].allowed \in BOOLEAN
  BY <1>2 DEF IInv
<1> QED
  BY <1>1, <1>3 DEF IInv

LEMMA NewInv ==
  ASSUME IInv, NEW h \in Handles, NEW cfg \in Configs, New(h, cfg) \/ Reload(h, cfg)
  PROVE  /\ IInv'
         /\ Put(h, NewState(cfg)) /\ Compiles(cfg)
         /\ UNCHANGED <<job, stage, result>>
         /\ \A t \in Threads : job[t] # None => job[t].handle # h
<1>1. /\ Put(h, NewState(cfg)) /\ Compiles(cfg)
      /\ UNCHANGED <<job, stage, result>>
  BY DEF New, Reload
<1>2. NewState(cfg) \in Compiled
  BY <1>1, NewStateCompiled
<1>3. \A t \in Threads : job[t] # None => job[t].handle # h
  BY DEF IInv, New, Reload, Borrowed
<1> QED
  BY <1>1, <1>2, <1>3, PutInv

LEMMA CloneInv ==
  ASSUME IInv, NEW h \in Handles, NEW from \in Handles, Clone(h, from)
  PROVE  IInv'
<1>1. /\ handle[h] = 0 /\ handle' = [handle EXCEPT ![h] = handle[from]]
      /\ UNCHANGED <<states, job, stage, result>>
  BY DEF Clone
<1>2. handle' \in [Handles -> 0..Len(states)]
  BY <1>1 DEF IInv
<1>3. ASSUME NEW t \in Threads, stage[t] # "idle"
      PROVE  StateOf(t)' = StateOf(t) /\ handle'[job[t].handle] = handle[job[t].handle]
  <2>1. job[t].handle \in Handles /\ handle[job[t].handle] # 0
    BY <1>3, CallInProgress DEF IInv
  <2> QED
    BY <1>1, <2>1 DEF StateOf, IInv
<1>4. ASSUME NEW t \in Threads
      PROVE  /\ stage'[t] = "idle" <=> job'[t] = None
             /\ job'[t] # None => handle'[job'[t].handle] # 0
             /\ stage'[t] = "vetted" => Clear(StateOf(t)'.policy, job'[t].request, job'[t].now)
             /\ stage'[t] = "done" => result'[t].allowed \in BOOLEAN
  BY <1>1, <1>3 DEF IInv
<1> QED
  BY <1>1, <1>2, <1>4 DEF IInv

LEMMA VerifyInv ==
  ASSUME IInv, NEW t \in Threads, NEW h \in Handles, NEW call \in Calls,
         NEW r \in Requests(call), NEW now \in Times, Verify(t, h, call, r, now)
  PROVE  IInv'
<1> DEFINE q == [handle |-> h, call |-> call, request |-> r, now |-> now]
<1>1. /\ stage[t] = "idle" /\ handle[h] # 0
      /\ job' = [job EXCEPT ![t] = q] /\ stage' = [stage EXCEPT ![t] = "asked"]
      /\ UNCHANGED <<states, handle, result>>
  BY DEF Verify
<1>2. q \in AllQueries /\ q # None /\ q.handle = h
  BY QueryMade, NoneAssumption
<1> HIDE DEF q
<1>3. job' \in [Threads -> AllQueries \cup {None}] /\ stage' \in [Threads -> Stages]
  BY <1>1, <1>2 DEF IInv, Stages
<1>4. job'[t] = q /\ stage'[t] = "asked"
  BY <1>1 DEF IInv
<1>5. \A u \in Threads \ {t} : job'[u] = job[u] /\ stage'[u] = stage[u]
  BY <1>1 DEF IInv
<1>6. ASSUME NEW u \in Threads
      PROVE  /\ stage'[u] = "idle" <=> job'[u] = None
             /\ job'[u] # None => handle'[job'[u].handle] # 0
             /\ stage'[u] = "vetted" => Clear(StateOf(u)'.policy, job'[u].request, job'[u].now)
             /\ stage'[u] = "done" => result'[u].allowed \in BOOLEAN
  BY <1>1, <1>2, <1>4, <1>5 DEF IInv, StateOf
<1> QED
  BY <1>1, <1>3, <1>6 DEF IInv

LEMMA DenyInv ==
  ASSUME IInv, NEW t \in Threads, Deny(t)
  PROVE  IInv'
<1> DEFINE res == DenyAt(Verdict(t), job[t].request)
<1>1. /\ stage[t] = "asked" /\ UNCHANGED <<states, handle, job>>
      /\ result' = [result EXCEPT ![t] = res] /\ stage' = [stage EXCEPT ![t] = "done"]
  BY DEF Deny, Answer
<1>2. res.allowed = FALSE
  BY DEF DenyAt
<1> HIDE DEF res
<1>3. stage' \in [Threads -> Stages] /\ stage'[t] = "done" /\ result'[t] = res
  BY <1>1 DEF IInv, Stages
<1>4. result' = [u \in Threads |-> result'[u]]
  BY <1>1 DEF IInv
<1>5. \A u \in Threads \ {t} : result'[u] = result[u] /\ stage'[u] = stage[u]
  BY <1>1 DEF IInv
<1>6. ASSUME NEW u \in Threads
      PROVE  /\ stage'[u] = "idle" <=> job'[u] = None
             /\ job'[u] # None => handle'[job'[u].handle] # 0
             /\ stage'[u] = "vetted" => Clear(StateOf(u)'.policy, job'[u].request, job'[u].now)
             /\ stage'[u] = "done" => result'[u].allowed \in BOOLEAN
  BY <1>1, <1>2, <1>3, <1>5 DEF IInv, StateOf
<1> QED
  BY <1>1, <1>3, <1>4, <1>6 DEF IInv

LEMMA VetInv ==
  ASSUME IInv, NEW t \in Threads, Vet(t)
  PROVE  IInv'
<1>1. /\ stage[t] = "asked" /\ UNCHANGED <<states, handle, job, result>>
      /\ stage' = [stage EXCEPT ![t] = "vetted"]
      /\ Verdict(t) \notin DOMAIN Checks
  BY DEF Vet
<1>2. Clear(StateOf(t).policy, job[t].request, job[t].now)
  BY <1>1, FirstFailingIsFirst, AllPassIsClear DEF Verdict
<1>3. stage' \in [Threads -> Stages] /\ stage'[t] = "vetted"
  BY <1>1 DEF IInv, Stages
<1>4. \A u \in Threads \ {t} : stage'[u] = stage[u]
  BY <1>1 DEF IInv
<1>5. ASSUME NEW u \in Threads
      PROVE  /\ stage'[u] = "idle" <=> job'[u] = None
             /\ job'[u] # None => handle'[job'[u].handle] # 0
             /\ stage'[u] = "vetted" => Clear(StateOf(u)'.policy, job'[u].request, job'[u].now)
             /\ stage'[u] = "done" => result'[u].allowed \in BOOLEAN
  BY <1>1, <1>2, <1>3, <1>4 DEF IInv, StateOf
<1> QED
  BY <1>1, <1>3, <1>5 DEF IInv

LEMMA ReturnInv ==
  ASSUME IInv, NEW t \in Threads, Return(t)
  PROVE  IInv'
<1>1. /\ stage[t] = "done" /\ UNCHANGED <<states, handle>>
      /\ job' = [job EXCEPT ![t] = None] /\ stage' = [stage EXCEPT ![t] = "idle"]
      /\ result' = [result EXCEPT ![t] = None]
  BY DEF Return
<1>2. /\ job' \in [Threads -> AllQueries \cup {None}] /\ stage' \in [Threads -> Stages]
      /\ job'[t] = None /\ stage'[t] = "idle"
  BY <1>1 DEF IInv, Stages
<1>3. result' = [u \in Threads |-> result'[u]]
  BY <1>1 DEF IInv
<1>4. \A u \in Threads \ {t} : job'[u] = job[u] /\ stage'[u] = stage[u] /\ result'[u] = result[u]
  BY <1>1 DEF IInv
<1>5. ASSUME NEW u \in Threads
      PROVE  /\ stage'[u] = "idle" <=> job'[u] = None
             /\ job'[u] # None => handle'[job'[u].handle] # 0
             /\ stage'[u] = "vetted" => Clear(StateOf(u)'.policy, job'[u].request, job'[u].now)
             /\ stage'[u] = "done" => result'[u].allowed \in BOOLEAN
  BY <1>1, <1>2, <1>4 DEF IInv, StateOf
<1> QED
  BY <1>1, <1>2, <1>3, <1>5 DEF IInv

\* A signature changes one queue and answers what the request is entitled to.
LEMMA SignStep ==
  ASSUME IInv, NEW t \in Threads, Sign(t)
  PROVE  LET g == handle[job[t].handle] IN
         /\ g \in DOMAIN states
         /\ Len(states') = Len(states) /\ DOMAIN states' = DOMAIN states
         /\ states' \in Seq(Compiled)
         /\ states'[g].source = states[g].source
         /\ \A k \in DOMAIN states \ {g} : states'[k] = states[k]
         /\ \E res : /\ Answer(t, res)
                     /\ res.allowed = Promise!Entitled(states[g].source, job[t])
<1> DEFINE g     == handle[job[t].handle]
           st    == states[g]
           r     == job[t].request
           ak    == r.credential.access_key
           seed  == st.policy.credentials[ak].seed
           queue == CacheAfter(seed, st.cache[ak], ScopeOf(r))
           new   == [st EXCEPT !.cache[ak] = queue]
           res   == Judge(Mac(KeyAt(queue, ScopeOf(r)), r), r)
<1>1. /\ stage[t] = "vetted"
      /\ states' = [states EXCEPT ![g].cache[ak] = queue]
      /\ Answer(t, res)
  BY DEF Sign, StateOf
<1>2. /\ job[t].call \in Calls /\ r \in Requests(job[t].call) /\ job[t].now \in Times
      /\ g \in DOMAIN states /\ st \in Compiled
  BY <1>1, CallInProgress DEF StateOf
<1>3. Clear(st.policy, r, job[t].now)
  BY <1>1 DEF IInv, StateOf
<1>4. /\ st.source \in Configs /\ Compiles(st.source) /\ st.policy = Policy(st.source)
  BY <1>2, CompiledFields
<1>5. ak \in DOMAIN st.policy.credentials
  BY <1>3 DEF Clear
<1>6. /\ new \in Compiled /\ new.source = st.source
      /\ KeyAt(queue, ScopeOf(r)) = DeriveFrom(seed, ScopeOf(r))
  BY <1>2, <1>5, LookupCompiled
<1>7. res.allowed <=> Promise!Entitled(st.source, job[t])
  BY <1>2, <1>3, <1>4, <1>6, SignedIsEntitled
<1>8. res.allowed = Promise!Entitled(st.source, job[t])
  <2>1. res.allowed \in BOOLEAN
    BY DEF Judge
  <2>2. Promise!Entitled(st.source, job[t]) \in BOOLEAN
    BY DEF Promise!Entitled
  <2> HIDE DEF res, st
  <2> QED
    BY <1>7, <2>1, <2>2
<1>9. states' = [states EXCEPT ![g] = new]
  BY <1>1
<1> HIDE DEF g, st, new, queue, res, r, ak, seed
<1>10. states \in Seq(Compiled) /\ Len(states) \in Nat /\ DOMAIN states = 1..Len(states)
  BY LenProperties DEF IInv
<1>11. /\ states' \in Seq(Compiled) /\ Len(states') = Len(states)
       /\ states'[g] = new
       /\ \A k \in 1..Len(states) \ {g} : states'[k] = states[k]
  BY <1>2, <1>6, <1>9, <1>10, ExceptSeq
<1>12. DOMAIN states' = DOMAIN states
  BY <1>9
<1> QED
  BY <1>1, <1>2, <1>6, <1>8, <1>10, <1>11, <1>12 DEF g, st

LEMMA SignInv ==
  ASSUME IInv, NEW t \in Threads, Sign(t)
  PROVE  IInv'
<1> DEFINE g == handle[job[t].handle]
<1>1. stage[t] = "vetted" /\ UNCHANGED <<handle, job>>
  BY DEF Sign
<1>2. /\ g \in DOMAIN states /\ DOMAIN states' = DOMAIN states
      /\ states' \in Seq(Compiled) /\ Len(states') = Len(states)
      /\ \A k \in DOMAIN states \ {g} : states'[k] = states[k]
      /\ states'[g].source = states[g].source
  BY SignStep
<1>3. PICK res : /\ Answer(t, res)
                 /\ res.allowed = Promise!Entitled(states[g].source, job[t])
  BY SignStep
<1>4. res.allowed \in BOOLEAN
  BY <1>3 DEF Promise!Entitled
<1>5. /\ stage' \in [Threads -> Stages] /\ stage'[t] = "done"
      /\ result' = [u \in Threads |-> result'[u]] /\ result'[t] = res
      /\ \A u \in Threads \ {t} : stage'[u] = stage[u] /\ result'[u] = result[u]
  BY <1>3 DEF Answer, IInv, Stages
<1> HIDE DEF g
<1>6. \A k \in DOMAIN states : states'[k].policy = states[k].policy
  <2>1. states[g] \in Compiled /\ states'[g] \in Compiled
    <3>1. states \in Seq(Compiled)
      BY DEF IInv
    <3> QED
      BY <1>2, <3>1, ElementOfSeq, LenProperties
  <2>2. states'[g].policy = states[g].policy
    BY <1>2, <2>1, CompiledFields
  <2> QED
    BY <1>2, <2>2
<1>7. ASSUME NEW u \in Threads
      PROVE  /\ stage'[u] = "idle" <=> job'[u] = None
             /\ job'[u] # None => handle'[job'[u].handle] # 0
             /\ stage'[u] = "vetted" => Clear(StateOf(u)'.policy, job'[u].request, job'[u].now)
             /\ stage'[u] = "done" => result'[u].allowed \in BOOLEAN
  <2>1. CASE u = t
    BY <1>1, <1>4, <1>5, <2>1 DEF IInv
  <2>2. CASE u # t
    <3>1. stage[u] = "vetted" => StateOf(u)'.policy = StateOf(u).policy
      <4>1. stage[u] = "vetted" => handle[job[u].handle] \in DOMAIN states
        BY CallInProgress
      <4> QED
        BY <1>1, <1>6, <4>1 DEF StateOf
    <3> QED
      BY <1>1, <1>5, <2>2, <3>1 DEF IInv
  <2> QED
    BY <2>1, <2>2
<1> QED
  BY <1>1, <1>2, <1>5, <1>7 DEF IInv

LEMMA StepKeepsInv == IInv /\ [Next]_vars => IInv'
<1> SUFFICES ASSUME IInv, [Next]_vars
             PROVE  IInv'
  OBVIOUS
<1>1. CASE UNCHANGED vars
  BY <1>1 DEF vars, IInv, StateOf
<1>2. ASSUME NEW h \in Handles, NEW cfg \in Configs, New(h, cfg) \/ Reload(h, cfg)
      PROVE  IInv'
  BY <1>2, NewInv
<1>3. ASSUME NEW h \in Handles, NEW cfg \in Configs, Refused(h, cfg)
      PROVE  IInv'
  BY <1>3 DEF Refused, vars, IInv, StateOf
<1>4. ASSUME NEW h \in Handles, NEW from \in Handles, Clone(h, from)
      PROVE  IInv'
  BY <1>4, CloneInv
<1>5. ASSUME NEW t \in Threads, NEW h \in Handles, NEW call \in Calls, NEW now \in Times,
             NEW r \in Requests(call), Verify(t, h, call, r, now)
      PROVE  IInv'
  BY <1>5, VerifyInv
<1>6. ASSUME NEW t \in Threads, Deny(t) \/ Vet(t) \/ Sign(t) \/ Return(t)
      PROVE  IInv'
  BY <1>6, DenyInv, VetInv, SignInv, ReturnInv
<1> QED
  BY <1>1, <1>2, <1>3, <1>4, <1>5, <1>6 DEF Next

LEMMA InvHolds == Spec => []IInv
BY Initially, StepKeepsInv, PTL DEF Spec

LEMMA KeysFromInv == IInv => KeysAreOfTheSecretInForce
<1> SUFFICES ASSUME IInv, NEW g \in DOMAIN states,
                    NEW i \in DOMAIN states[g].source.credentials
             PROVE  LET c     == states[g].source.credentials[i]
                        cache == states[g].cache[c.access_key.word]
                    IN /\ Len(cache) <= Capacity
                       /\ \A j \in DOMAIN cache :
                            cache[j].key = DeriveFrom(<<"AWS4", c.secret_key>>, cache[j].scope)
                       /\ \A j, k \in DOMAIN cache : cache[j].scope = cache[k].scope => j = k
  BY DEF KeysAreOfTheSecretInForce
<1> DEFINE st    == states[g]
           c     == st.source.credentials[i]
           ak    == c.access_key.word
           cache == st.cache[ak]
           seed  == <<"AWS4", c.secret_key>>
<1>1. st \in Compiled
  <2>1. states \in Seq(Compiled)
    BY DEF IInv
  <2> QED
    BY <2>1, ElementOfSeq, LenProperties
<1>2. /\ st.source \in Configs /\ Compiles(st.source) /\ st.policy = Policy(st.source)
      /\ st.cache \in Caches(st.policy.credentials)
  BY <1>1, CompiledFields
<1>3. /\ ak \in DOMAIN st.policy.credentials
      /\ st.policy.credentials[ak] = CompileCredential(c, DefaultExpires(st.source.settings))
  BY <1>2, CredentialFound
<1>4. st.policy.credentials[ak].seed = seed
  <2>1. ASSUME NEW d, NEW limit
        PROVE  CompileCredential(d, limit).seed = <<"AWS4", d.secret_key>>
    BY DEF CompileCredential
  <2> QED
    BY <1>3, <2>1
<1>5. cache \in Queues(seed)
  BY <1>2, <1>3, <1>4 DEF Caches
<1> HIDE DEF st, c, ak, cache, seed
<1>6. /\ cache \in Seq(KeysFor(seed)) /\ DOMAIN cache = 1..Len(cache)
      /\ Len(cache) <= Capacity
      /\ \A j, k \in 1..Len(cache) : cache[j].scope = cache[k].scope => j = k
  BY <1>5, LenProperties DEF Queues
<1>7. \A j \in DOMAIN cache : cache[j].key = DeriveFrom(seed, cache[j].scope)
  <2>1. \A j \in DOMAIN cache : cache[j] \in KeysFor(seed)
    BY <1>6, ElementOfSeq
  <2> QED
    BY <2>1 DEF KeysFor
<1> QED
  BY <1>6, <1>7 DEF st, c, ak, cache, seed

\* The keys a State caches are those of its own configuration's secrets, one
\* per scope and no more than the capacity.
THEOREM CachesAreOfTheirState == Spec => []KeysAreOfTheSecretInForce
BY InvHolds, KeysFromInv, PTL
-------------------------------------------------------------------------------
\* The refinement of Authorizer.

Given == [h \in Handles |-> IF handle[h] = 0 THEN None ELSE states[handle[h]].source]

Verdicts == [t \in Threads |-> IF stage[t] = "done" THEN result[t].allowed ELSE None]

LEMMA GivenInForce ==
  ASSUME IInv, NEW h \in Handles, handle[h] # 0
  PROVE  /\ handle[h] \in DOMAIN states /\ states[handle[h]] \in Compiled
         /\ Given[h] = states[handle[h]].source
         /\ Given[h] \in Configs /\ Compiles(Given[h]) /\ Given[h] # None
<1>1. /\ states \in Seq(Compiled) /\ Len(states) \in Nat /\ DOMAIN states = 1..Len(states)
      /\ handle[h] \in 0..Len(states)
  BY LenProperties DEF IInv
<1>2. handle[h] \in DOMAIN states /\ states[handle[h]] \in Compiled
  BY <1>1, ElementOfSeq
<1>3. Given[h] = states[handle[h]].source
  BY DEF Given
<1> QED
  BY <1>2, <1>3, CompiledFields, NoneAssumption

LEMMA InstallRefines ==
  ASSUME IInv, NEW h \in Handles, NEW cfg \in Configs, New(h, cfg) \/ Reload(h, cfg)
  PROVE  Promise!Install(h, cfg)
<1>1. /\ Put(h, NewState(cfg)) /\ Compiles(cfg)
      /\ UNCHANGED <<job, stage, result>>
      /\ \A t \in Threads : job[t] # None => job[t].handle # h
  BY NewInv
<1>2. NewState(cfg) \in Compiled /\ NewState(cfg).source = cfg
  BY <1>1, NewStateCompiled
<1>3. /\ Len(states) \in Nat
      /\ \A g \in DOMAIN states : states'[g] = states[g]
      /\ states'[Len(states) + 1] = NewState(cfg)
      /\ handle'[h] = Len(states) + 1
      /\ \A k \in Handles \ {h} : handle'[k] = handle[k]
  BY <1>1, <1>2, PutKeeps, LenProperties DEF IInv
<1>4. \A k \in Handles \ {h} : handle[k] # 0 => handle[k] \in DOMAIN states
  BY GivenInForce
<1>5. Given' = [Given EXCEPT ![h] = cfg]
  <2>1. Given'[h] = cfg
    BY <1>2, <1>3 DEF Given
  <2>2. \A k \in Handles \ {h} : Given'[k] = Given[k]
    BY <1>3, <1>4 DEF Given
  <2>3. Given' = [k \in Handles |-> Given'[k]] /\ Given = [k \in Handles |-> Given[k]]
    BY DEF Given
  <2> HIDE DEF Given
  <2> QED
    BY <2>1, <2>2, <2>3
<1>6. Verdicts' = Verdicts /\ job' = job
  BY <1>1 DEF Verdicts
<1> QED
  BY <1>1, <1>5, <1>6 DEF Promise!Install, Given, Verdicts

LEMMA CloneRefines ==
  ASSUME IInv, NEW h \in Handles, NEW from \in Handles, Clone(h, from)
  PROVE  Promise!Share(h, from)
<1>1. /\ handle[h] = 0 /\ handle' = [handle EXCEPT ![h] = handle[from]]
      /\ UNCHANGED <<states, job, stage, result>>
  BY DEF Clone
<1>2. handle'[h] = handle[from] /\ \A k \in Handles \ {h} : handle'[k] = handle[k]
  BY <1>1 DEF IInv
<1>3. Given[h] = None /\ Given' = [Given EXCEPT ![h] = Given[from]]
  <2>1. Given[h] = None /\ Given'[h] = Given[from]
    BY <1>1, <1>2 DEF Given
  <2>2. \A k \in Handles \ {h} : Given'[k] = Given[k]
    BY <1>1, <1>2 DEF Given
  <2>3. Given' = [k \in Handles |-> Given'[k]] /\ Given = [k \in Handles |-> Given[k]]
    BY DEF Given
  <2> HIDE DEF Given
  <2> QED
    BY <2>1, <2>2, <2>3
<1>4. Verdicts' = Verdicts
  BY <1>1 DEF Verdicts
<1> QED
  BY <1>1, <1>3, <1>4 DEF Promise!Share, Given, Verdicts

LEMMA VerifyRefines ==
  ASSUME IInv, NEW t \in Threads, NEW h \in Handles, NEW call \in Calls,
         NEW r \in Requests(call), NEW now \in Times, Verify(t, h, call, r, now)
  PROVE  Promise!Ask(t)
<1> DEFINE q == [handle |-> h, call |-> call, request |-> r, now |-> now]
<1>1. /\ stage[t] = "idle" /\ handle[h] # 0
      /\ job' = [job EXCEPT ![t] = q] /\ stage' = [stage EXCEPT ![t] = "asked"]
      /\ UNCHANGED <<states, handle, result>>
  BY DEF Verify
<1>2. q \in AllQueries /\ q.handle = h
  BY QueryMade
<1> HIDE DEF q
<1>3. job[t] = None /\ job'[t] = q
  BY <1>1 DEF IInv
<1>4. Given[h] # None
  BY <1>1, GivenInForce
<1>5. Given' = Given
  BY <1>1 DEF Given
<1>6. Verdicts' = Verdicts
  BY <1>1 DEF IInv, Verdicts
<1> QED
  BY <1>1, <1>2, <1>3, <1>4, <1>5, <1>6 DEF Promise!Ask, Given, Verdicts

\* The answer of a call is a decision when it is what the request is entitled to.
LEMMA AnswerRefines ==
  ASSUME IInv, NEW t \in Threads, stage[t] \in {"asked", "vetted"}, NEW res, Answer(t, res),
         res.allowed = Promise!Entitled(StateOf(t).source, job[t]),
         UNCHANGED <<handle, job>>, Given' = Given
  PROVE  Promise!Decide(t)
<1>1. job[t] # None /\ job[t].handle \in Handles /\ handle[job[t].handle] # 0
  BY CallInProgress DEF IInv
<1>2. Given[job[t].handle] = StateOf(t).source
  BY <1>1, GivenInForce DEF StateOf
<1>3. /\ stage'[t] = "done" /\ result'[t] = res
      /\ \A u \in Threads \ {t} : stage'[u] = stage[u] /\ result'[u] = result[u]
  BY DEF Answer, IInv
<1>4. Verdicts[t] = None
  BY DEF Verdicts
<1>5. Verdicts' = [Verdicts EXCEPT ![t] = res.allowed]
  BY <1>3 DEF Verdicts
<1> QED
  BY <1>1, <1>2, <1>4, <1>5 DEF Promise!Decide, Given, Verdicts

LEMMA DenyRefines ==
  ASSUME IInv, NEW t \in Threads, Deny(t)
  PROVE  Promise!Decide(t)
<1> DEFINE res == DenyAt(Verdict(t), job[t].request)
           st  == StateOf(t)
<1>1. /\ stage[t] = "asked" /\ UNCHANGED <<states, handle, job>>
      /\ Answer(t, res) /\ Verdict(t) \in DOMAIN Checks
  BY DEF Deny
<1>2. /\ job[t].call \in Calls /\ job[t].request \in Requests(job[t].call)
      /\ job[t].now \in Times /\ st \in Compiled
  BY <1>1, CallInProgress
<1>3. /\ st.source \in Configs /\ Compiles(st.source) /\ st.policy = Policy(st.source)
  BY <1>2, CompiledFields
<1>4. ~Clear(st.policy, job[t].request, job[t].now)
  BY <1>1, FirstFailingIsFirst, AllPassIsClear DEF Verdict
<1>5. ~Promise!Entitled(st.source, job[t])
  BY <1>2, <1>3, <1>4, DeniedIsNotEntitled
<1>6. res.allowed = FALSE
  BY DEF DenyAt
<1>7. res.allowed = Promise!Entitled(st.source, job[t])
  <2>1. Promise!Entitled(st.source, job[t]) \in BOOLEAN
    BY DEF Promise!Entitled
  <2> HIDE DEF res, st
  <2> QED
    BY <1>5, <1>6, <2>1
<1>8. Given' = Given
  BY <1>1 DEF Given
<1> HIDE DEF res, st
<1> QED
  BY <1>1, <1>7, <1>8, AnswerRefines DEF st

LEMMA SignRefines ==
  ASSUME IInv, NEW t \in Threads, Sign(t)
  PROVE  Promise!Decide(t)
<1> DEFINE g == handle[job[t].handle]
<1>1. stage[t] = "vetted" /\ UNCHANGED <<handle, job>>
  BY DEF Sign
<1>2. /\ states'[g].source = states[g].source
      /\ \A k \in DOMAIN states \ {g} : states'[k] = states[k]
  BY SignStep
<1>3. PICK res : /\ Answer(t, res)
                 /\ res.allowed = Promise!Entitled(states[g].source, job[t])
  BY SignStep
<1>4. Given' = Given
  <2>1. \A h \in Handles : handle[h] # 0 => states'[handle[h]].source = states[handle[h]].source
    BY <1>2, GivenInForce
  <2> QED
    BY <1>1, <2>1 DEF Given
<1> QED
  BY <1>1, <1>3, <1>4, AnswerRefines DEF StateOf

LEMMA ReturnRefines ==
  ASSUME IInv, NEW t \in Threads, Return(t)
  PROVE  Promise!Return(t)
<1>1. /\ stage[t] = "done" /\ UNCHANGED <<states, handle>>
      /\ job' = [job EXCEPT ![t] = None] /\ stage' = [stage EXCEPT ![t] = "idle"]
      /\ result' = [result EXCEPT ![t] = None]
  BY DEF Return
<1>2. Verdicts[t] # None
  BY <1>1, NoneAssumption DEF Verdicts, IInv
<1>3. /\ stage'[t] = "idle"
      /\ \A u \in Threads \ {t} : stage'[u] = stage[u] /\ result'[u] = result[u]
  BY <1>1 DEF IInv
<1>4. Verdicts' = [Verdicts EXCEPT ![t] = None]
  BY <1>3 DEF Verdicts
<1>5. Given' = Given
  BY <1>1 DEF Given
<1> QED
  BY <1>1, <1>2, <1>4, <1>5 DEF Promise!Return, Given, Verdicts

LEMMA StepRefines == IInv /\ [Next]_vars => [Promise!Next]_(Promise!vars)
<1> SUFFICES ASSUME IInv, [Next]_vars
             PROVE  [Promise!Next]_(Promise!vars)
  OBVIOUS
<1>1. ASSUME UNCHANGED vars
      PROVE  UNCHANGED Promise!vars
  BY <1>1 DEF vars, Promise!vars
<1>2. ASSUME NEW h \in Handles, NEW cfg \in Configs, New(h, cfg) \/ Reload(h, cfg)
      PROVE  Promise!Next
  BY <1>2, InstallRefines DEF Promise!Next
<1>3. ASSUME NEW h \in Handles, NEW from \in Handles, Clone(h, from)
      PROVE  Promise!Next
  BY <1>3, CloneRefines DEF Promise!Next
<1>4. ASSUME NEW t \in Threads, NEW h \in Handles, NEW call \in Calls, NEW now \in Times,
             NEW r \in Requests(call), Verify(t, h, call, r, now)
      PROVE  Promise!Next
  BY <1>4, VerifyRefines DEF Promise!Next
<1>5. ASSUME NEW t \in Threads, Deny(t) \/ Sign(t) \/ Return(t)
      PROVE  Promise!Next
  BY <1>5, DenyRefines, SignRefines, ReturnRefines DEF Promise!Next
<1>6. ASSUME NEW t \in Threads, Vet(t)
      PROVE  UNCHANGED Promise!vars
  <2>1. /\ stage[t] = "asked" /\ stage' = [stage EXCEPT ![t] = "vetted"]
        /\ UNCHANGED <<states, handle, job, result>>
    BY <1>6 DEF Vet
  <2>2. Verdicts' = Verdicts
    BY <2>1 DEF Verdicts, IInv
  <2>3. Given' = Given
    BY <2>1 DEF Given
  <2> QED
    BY <2>1, <2>2, <2>3 DEF Promise!vars, Given, Verdicts
<1>7. ASSUME NEW h \in Handles, NEW cfg \in Configs, Refused(h, cfg)
      PROVE  UNCHANGED vars
  BY <1>7 DEF Refused
<1> QED
  BY <1>1, <1>2, <1>3, <1>4, <1>5, <1>6, <1>7 DEF Next

\* verify lets a request through exactly when the configuration in force at its
\* handle entitles it.
THEOREM VerifierDecidesAsPromised == Spec => KeepsPromise
<1>1. Init => Promise!Init
  <2> SUFFICES ASSUME Init
               PROVE  Promise!Init
    OBVIOUS
  <2>1. Given = [h \in Handles |-> None] /\ Verdicts = [t \in Threads |-> None]
    BY DEF Init, Given, Verdicts
  <2> QED
    BY <2>1 DEF Init, Promise!Init, Given, Verdicts
<1> QED
  BY <1>1, InvHolds, StepRefines, PTL DEF Spec, KeepsPromise, Promise!Spec
-------------------------------------------------------------------------------
\* What a call that reaches the signature has shown.
LEMMA VettedIsPlausible ==
  ASSUME IInv, NEW t \in Threads, stage[t] = "vetted"
  PROVE  LET cfg == StateOf(t).source IN
         \E i \in DOMAIN cfg.credentials :
           Promise!Plausible(cfg, cfg.credentials[i], job[t].request, job[t].now)
<1> DEFINE st == StateOf(t)
           r  == job[t].request
<1>1. /\ job[t].call \in Calls /\ r \in Requests(job[t].call)
      /\ job[t].now \in Times /\ st \in Compiled
  BY CallInProgress
<1>2. Clear(st.policy, r, job[t].now)
  BY DEF IInv
<1>3. st.source \in Configs /\ Compiles(st.source) /\ st.policy = Policy(st.source)
  BY <1>1, CompiledFields
<1>4. Formed(r) /\ r.credential.access_key \in DOMAIN Policy(st.source).credentials
  BY <1>2, <1>3 DEF Clear, Formed
<1>5. PICK i \in DOMAIN st.source.credentials :
        st.source.credentials[i].access_key.word = r.credential.access_key
  BY <1>4, KeyIsListed
<1>6. Typed(r)
  BY <1>1, RequestShape
<1>7. Promise!Plausible(st.source, st.source.credentials[i], r, job[t].now)
  BY <1>1, <1>2, <1>3, <1>4, <1>5, <1>6, ClearIsPlausible
<1> QED
  BY <1>7

LookupIsPlausible ==
  \A g \in DOMAIN states : states'[g].cache # states[g].cache =>
    \E t \in Threads :
      /\ job[t] # None
      /\ handle[job[t].handle] = g
      /\ LET cfg == states[g].source IN
         \E i \in DOMAIN cfg.credentials :
           Promise!Plausible(cfg, cfg.credentials[i], job[t].request, job[t].now)

LEMMA LookupStep == IInv /\ [Next]_vars => [LookupIsPlausible]_vars
<1> SUFFICES ASSUME IInv, [Next]_vars, NEW g \in DOMAIN states,
                    states'[g].cache # states[g].cache
             PROVE  \E t \in Threads :
                      /\ job[t] # None
                      /\ handle[job[t].handle] = g
                      /\ LET cfg == states[g].source IN
                         \E i \in DOMAIN cfg.credentials :
                           Promise!Plausible(cfg, cfg.credentials[i], job[t].request, job[t].now)
  BY DEF LookupIsPlausible
<1>1. states' # states
  OBVIOUS
<1>2. ASSUME NEW h \in Handles, NEW cfg \in Configs, New(h, cfg) \/ Reload(h, cfg)
      PROVE  FALSE
  <2>1. Put(h, NewState(cfg)) /\ NewState(cfg) \in Compiled
    BY <1>2, NewInv, NewStateCompiled
  <2> QED
    BY <2>1, PutKeeps
<1>3. PICK t \in Threads : Sign(t)
  BY <1>1, <1>2 DEF Next, vars, Refused, Clone, Verify, Deny, Vet, Return
<1>4. stage[t] = "vetted"
  BY <1>3 DEF Sign
<1>5. handle[job[t].handle] = g
  BY <1>3, SignStep
<1>6. job[t] # None
  BY <1>4, CallInProgress
<1>7. StateOf(t) = states[g]
  BY <1>5 DEF StateOf
<1> QED
  BY <1>4, <1>5, <1>6, <1>7, VettedIsPlausible

\* Only requests that an enabled credential's policy and lifetime would admit
\* make the verifier derive or evict a signing key.
THEOREM KeysAreTouchedPlausibly == Spec => OnlyPlausibleRequestsTouchKeys
<1>1. [LookupIsPlausible]_vars =>
        [\A g \in DOMAIN states : states'[g].cache # states[g].cache =>
           \E t \in Threads :
             /\ job[t] # None
             /\ handle[job[t].handle] = g
             /\ LET cfg == states[g].source IN
                \E i \in DOMAIN cfg.credentials :
                  Promise!Plausible(cfg, cfg.credentials[i], job[t].request, job[t].now)]_vars
  BY DEF LookupIsPlausible
<1> QED
  BY <1>1, InvHolds, LookupStep, PTL DEF Spec, OnlyPlausibleRequestsTouchKeys, LookupIsPlausible
===============================================================================
