------------------------------ MODULE Authorizer ------------------------------
(***************************************************************************)
(* What the verifier promises: a request is let through exactly when the   *)
(* configuration in force at the handle it was put to entitles it.  No     *)
(* compilation, no order of tests, no keys, no cache.  The provenance of a *)
(* signature is a ghost: `call' is the presigning call that issued the     *)
(* signature the request carries, with the secret that made it.            *)
(*                                                                         *)
(* Entitled is stated on the configuration as the operator wrote it and on *)
(* the presigning call, after docs/security-scan/threat_model.md ("Security *)
(* invariants") and the presigner of the tests (rust/sigv4-verifier/tests/  *)
(* verifier.rs, presigned_uri).                                            *)
(***************************************************************************)
EXTENDS Integers, Sequences

CONSTANTS
  Threads, Handles,
  Configs,          \* configurations the operator may install
  Accepted(_),      \* whether a configuration compiles
  Queries,          \* what a thread may ask: a handle, a request, its
                    \* signature's call and the time
  Signature(_),     \* the signature a presigning call issues
  MaxExpires, DayLength, None

VARIABLES
  given,      \* given[h]: the configuration in force at handle h, or None
  query,      \* query[t]: what thread t is asking, or None
  verdict     \* verdict[t]: TRUE, FALSE, or None while there is none

vars == <<given, query, verdict>>

Init ==
  /\ given   = [h \in Handles |-> None]
  /\ query   = [t \in Threads |-> None]
  /\ verdict = [t \in Threads |-> None]

\* The request is, up to spelling, the one the call signed.
Unaltered(call, r) ==
  /\ r.method.word = call.method
  /\ r.host.word = call.host
  /\ [i \in DOMAIN r.path |-> r.path[i].name] = call.path
  /\ r.query = "ok"
  /\ r.algorithm = "AWS4-HMAC-SHA256"
  /\ r.credential = [ access_key |-> call.access_key,
                      date       |-> call.at \div DayLength,
                      region     |-> call.region,
                      service    |-> "s3",
                      terminal   |-> "aws4_request" ]
  /\ r.date = call.at
  /\ r.expires = call.expires
  /\ r.signed_headers = "host"
  /\ r.extra = call.extra
  /\ \E how \in {"plain", "upper"} : r.signature = [mac |-> Signature(call), spelling |-> how]

\* An allowlist with no entry but blanks restricts nothing.
Allows(list, word) ==
  (\A x \in list : x.word = "") \/ (\E x \in list : x.word = word)

\* The path is the prefix's directory or lies below it; a prefix that ends in
\* a slash leaves the directory itself out.
Below(path, prefix) ==
  \A i \in DOMAIN prefix :
    i \in DOMAIN path /\ (prefix[i].name # "" => path[i] = prefix[i])

LifetimeLimit(cfg, c) ==
  IF c.max_expires # 0 THEN c.max_expires
  ELSE IF cfg.settings.default_max_expires \in 1..MaxExpires
       THEN cfg.settings.default_max_expires
       ELSE MaxExpires

\* The request names an enabled credential, keeps to its limits and comes in
\* time; nothing is said about who signed it.
Plausible(cfg, c, r, now) ==
  /\ c.enabled
  /\ c.access_key.word = r.credential.access_key
  /\ IF cfg.settings.supported_methods = {}
     THEN r.method.word \in {"GET", "HEAD"}
     ELSE \E m \in cfg.settings.supported_methods : m.word = r.method.word
  /\ Allows(c.allowed_methods, r.method.word)
  /\ r.host.word # "" /\ Allows(c.allowed_hosts, r.host.word)
  /\ \/ c.allowed_prefixes \subseteq {<<>>}
     \/ \E p \in c.allowed_prefixes \ {<<>>} : Below(r.path, p)
  /\ r.path # <<>>
  /\ \A i \in DOMAIN r.path :
       /\ r.path[i].name \notin {".", "..", "/", "%"}
       /\ r.path[i].name = "" => i = Len(r.path)
  /\ r.expires \in 1..LifetimeLimit(cfg, c)
  /\ r.date - cfg.settings.allowed_clock_skew <= now
  /\ now <= r.date + r.expires

Entitled(cfg, q) ==
  /\ Unaltered(q.call, q.request)
  /\ \E i \in DOMAIN cfg.credentials :
       LET c == cfg.credentials[i] IN
       c.secret_key = q.call.secret /\ Plausible(cfg, c, q.request, q.now)

Install(h, cfg) ==
  /\ Accepted(cfg)
  /\ \A t \in Threads : query[t] # None => query[t].handle # h
  /\ given' = [given EXCEPT ![h] = cfg]
  /\ UNCHANGED <<query, verdict>>

Share(h, from) ==
  /\ given[h] = None
  /\ given' = [given EXCEPT ![h] = given[from]]
  /\ UNCHANGED <<query, verdict>>

Ask(t) ==
  /\ query[t] = None
  /\ query'[t] \in Queries
  /\ given[query'[t].handle] # None
  /\ query' = [query EXCEPT ![t] = query'[t]]
  /\ UNCHANGED <<given, verdict>>

Decide(t) ==
  /\ query[t] # None
  /\ verdict[t] = None
  /\ verdict' = [verdict EXCEPT ![t] = Entitled(given[query[t].handle], query[t])]
  /\ UNCHANGED <<given, query>>

Return(t) ==
  /\ verdict[t] # None
  /\ query'   = [query EXCEPT ![t] = None]
  /\ verdict' = [verdict EXCEPT ![t] = None]
  /\ UNCHANGED given

Next ==
  \/ \E h \in Handles, cfg \in Configs : Install(h, cfg)
  \/ \E h, from \in Handles : Share(h, from)
  \/ \E t \in Threads : Ask(t) \/ Decide(t) \/ Return(t)

Spec == Init /\ [][Next]_vars
===============================================================================
