------------------------------- MODULE Verifier -------------------------------
(***************************************************************************)
(* The Verifier type as its callers use it (rust/sigv4-verifier/src/lib.rs): *)
(* new, clone, reload and verify on handles shared between threads.  A     *)
(* handle is an Arc to an immutable State; clones share it, reload puts a  *)
(* new one in the handle it is called on and leaves the others alone.      *)
(* verify borrows its handle and reload borrows it mutably, so no reload   *)
(* runs on a handle while a verify does.                                   *)
(*                                                                         *)
(* The signing keys each State has cached are kept apart per State and per *)
(* credential, in a KeyQueue; a call of signing_key is one step here,      *)
(* which is what SigningKeyCache implements.                               *)
(***************************************************************************)
EXTENDS Verify, KeyQueue

CONSTANTS
  Threads,
  Handles,
  Configs,       \* what the operator may pass to new and reload
  Calls,         \* presigning calls
  Alterations,   \* changes to a presigned request: a field and a value
  Times,         \* what SystemTime::now may return; it may step back
  Capacity,
  MaxStates      \* bound: how many States are compiled

VARIABLES
  states,   \* every State ever compiled: its source, its policy, its caches
  handle,   \* handle[h]: index into states, 0 before new succeeds
  job,      \* job[t]: the arguments of the verify call thread t is in, or None
  stage,    \* stage[t]: how far that call has got
  result    \* result[t]: what it returns, once the stage is "done"

vars == <<states, handle, job, stage, result>>

\* The presigner of the tests: sign the request the call describes.
Presign(call) ==
  LET unsigned ==
        [ method         |-> Text(call.method),
          host           |-> Text(call.host),
          path           |-> [i \in DOMAIN call.path |->
                                [name |-> call.path[i], spelling |-> "plain"]],
          query          |-> "ok",
          algorithm      |-> "AWS4-HMAC-SHA256",
          credential     |-> [ access_key |-> call.access_key,
                               date       |-> DateOf(call.at),
                               region     |-> call.region,
                               service    |-> "s3",
                               terminal   |-> "aws4_request" ],
          date           |-> call.at,
          expires        |-> call.expires,
          signed_headers |-> "host",
          extra          |-> call.extra,
          signature      |-> Missing ]
      key == DeriveFrom(<<"AWS4", call.secret>>, ScopeOf(unsigned))
  IN [unsigned EXCEPT !.signature = [mac |-> Mac(key, unsigned), spelling |-> "plain"]]

IssuedSignature(call) == Presign(call).signature.mac

\* What arrives: a presigned request as it was issued, with its hexadecimal
\* digits in the other case, or with one field changed.
Requests(call) ==
  LET issued == Presign(call) IN
  {issued, [issued EXCEPT !.signature.spelling = "upper"]}
    \cup {[issued EXCEPT ![a.field] = a.value] : a \in Alterations}

AllQueries ==
  UNION {[handle : Handles, call : {call}, request : Requests(call), now : Times] : call \in Calls}
-------------------------------------------------------------------------------
ASSUME CapacityAssumption == Capacity \in Nat \ {0}

ASSUME NoneAssumption == None \notin Configs /\ None \notin AllQueries /\ None \notin BOOLEAN

\* Seconds are i64.
ASSUME TimeAssumption ==
  /\ MaxInt \in Int
  /\ \A now \in Times : now \in Int /\ now <= MaxInt
  /\ \A call \in Calls : call.at \in Int /\ call.at <= MaxInt

Segment == [name : STRING, spelling : {"plain", "encoded"}]

ASSUME ConfigAssumption ==
  \A cfg \in Configs :
    /\ cfg.settings.allowed_clock_skew \in Int
    /\ \A i \in DOMAIN cfg.credentials :
         /\ cfg.credentials[i].enabled \in BOOLEAN
         /\ cfg.credentials[i].allowed_prefixes \subseteq Seq(Segment)

Marks == {Missing, Repeated, Malformed}

Spellings == {"plain", "upper"}

\* What a presigner writes is there once and parses.
ASSUME PresignAssumption ==
  /\ Marks \cap {"ok", "AWS4-HMAC-SHA256", "host"} = {}
  /\ \A call \in Calls, mark \in Marks :
       /\ mark # Presign(call).credential
       /\ mark # call.at /\ mark # call.expires
       /\ \A how \in Spellings : mark # [mac |-> IssuedSignature(call), spelling |-> how]
  /\ \A call \in Calls : call.path \in Seq(STRING)

\* What an altered field can hold.
ASSUME AlterationAssumption ==
  \A a \in Alterations :
    /\ a.field \in { "method", "host", "path", "query", "algorithm", "credential", "date",
                     "expires", "signed_headers", "extra", "signature" }
    /\ a.field = "path" => a.value \in Seq(Segment)
    /\ a.field = "query" => a.value = Malformed
    /\ a.field = "date" => a.value \in Marks \/ (a.value \in Int /\ a.value <= MaxInt)

\* Signatures are not forged: one put in the place of another was made of
\* another string to sign, or is the very one it replaces.
ASSUME SignatureAssumption ==
  \A a \in Alterations : a.field = "signature" =>
    \/ a.value \in Marks
    \/ /\ a.value.spelling \in Spellings
       /\ \A call \in Calls :
            a.value.mac[2] = StringToSign(Presign(call)) => a.value.mac = IssuedSignature(call)
       /\ a.value = [mac |-> a.value.mac, spelling |-> a.value.spelling]
-------------------------------------------------------------------------------
Init ==
  /\ states = <<>>
  /\ handle = [h \in Handles |-> 0]
  /\ job    = [t \in Threads |-> None]
  /\ stage  = [t \in Threads |-> "idle"]
  /\ result = [t \in Threads |-> None]

Compiles(cfg) == ~ConfigError(cfg.settings, cfg.credentials)

NewState(cfg) ==
  LET policy == CompileState(cfg.settings, cfg.credentials) IN
  [source |-> cfg, policy |-> policy, cache |-> [ak \in DOMAIN policy.credentials |-> <<>>]]

Borrowed(h) == \E t \in Threads : job[t] # None /\ job[t].handle = h

Put(h, state) ==
  /\ states' = Append(states, state)
  /\ handle' = [handle EXCEPT ![h] = Len(states) + 1]

New(h, cfg) ==
  /\ handle[h] = 0
  /\ Len(states) < MaxStates
  /\ Compiles(cfg)
  /\ Put(h, NewState(cfg))
  /\ UNCHANGED <<job, stage, result>>

Clone(h, from) ==
  /\ handle[h] = 0
  /\ handle[from] # 0
  /\ handle' = [handle EXCEPT ![h] = handle[from]]
  /\ UNCHANGED <<states, job, stage, result>>

\* Mutant: the caches of the credentials that stay are carried over.
ReloadKeepsCaches(h, cfg) ==
  /\ handle[h] # 0
  /\ ~Borrowed(h)
  /\ Len(states) < MaxStates
  /\ Compiles(cfg)
  /\ LET old == states[handle[h]].cache
         new == NewState(cfg)
     IN Put(h, [new EXCEPT !.cache = [ak \in DOMAIN new.cache |->
                  IF ak \in DOMAIN old THEN old[ak] ELSE <<>>]])
  /\ UNCHANGED <<job, stage, result>>

Reload(h, cfg) ==
  /\ handle[h] # 0
  /\ ~Borrowed(h)
  /\ Len(states) < MaxStates
  /\ Compiles(cfg)
  /\ Put(h, NewState(cfg))
  /\ UNCHANGED <<job, stage, result>>

\* compile_state fails before the handle is assigned: new and reload report
\* the error and leave everything as it was.
Refused(h, cfg) ==
  /\ ~Borrowed(h)
  /\ ~Compiles(cfg)
  /\ UNCHANGED vars

Verify(t, h, call, r, now) ==
  /\ stage[t] = "idle"
  /\ handle[h] # 0
  /\ job' = [job EXCEPT ![t] = [handle |-> h, call |-> call, request |-> r, now |-> now]]
  /\ stage' = [stage EXCEPT ![t] = "asked"]
  /\ UNCHANGED <<states, handle, result>>

StateOf(t) == states[handle[job[t].handle]]

Verdict(t) == FirstFailing(StateOf(t).policy, job[t].request, job[t].now)

Answer(t, res) ==
  /\ result' = [result EXCEPT ![t] = res]
  /\ stage'  = [stage EXCEPT ![t] = "done"]

\* The tests up to the signature end in a denial, or all pass.
Deny(t) ==
  /\ stage[t] = "asked"
  /\ Verdict(t) \in DOMAIN Checks
  /\ Answer(t, DenyAt(Verdict(t), job[t].request))
  /\ UNCHANGED <<states, handle, job>>

Vet(t) ==
  /\ stage[t] = "asked"
  /\ Verdict(t) \notin DOMAIN Checks
  /\ stage' = [stage EXCEPT ![t] = "vetted"]
  /\ UNCHANGED <<states, handle, job, result>>

\* Mutant: the eviction is forgotten.
CacheAfterKeepsAll(seed, cache, s) ==
  IF Holds(cache, s) THEN cache
  ELSE PushFront(cache, [scope |-> s, key |-> DeriveFrom(seed, s)])

\* signing_key: a hit leaves the queue alone, a miss pushes the derived key to
\* the front and keeps the first Capacity entries.
CacheAfter(seed, cache, s) ==
  IF Holds(cache, s) THEN cache
  ELSE LET longer == PushFront(cache, [scope |-> s, key |-> DeriveFrom(seed, s)])
       IN SubSeq(longer, 1, IF Len(longer) > Capacity THEN Capacity ELSE Len(longer))

\* The key at the scope's position.
KeyAt(cache, s) == cache[CHOOSE i \in DOMAIN cache : IsPosition(cache, s, i)].key

\* sign and the comparison with the signature of the request.
Sign(t) ==
  /\ stage[t] = "vetted"
  /\ LET r     == job[t].request
         ak    == r.credential.access_key
         s     == ScopeOf(r)
         cache == CacheAfter(StateOf(t).policy.credentials[ak].seed, StateOf(t).cache[ak], s)
     IN /\ states' = [states EXCEPT ![handle[job[t].handle]].cache[ak] = cache]
        /\ Answer(t, Judge(Mac(KeyAt(cache, s), r), r))
  /\ UNCHANGED <<handle, job>>

Return(t) ==
  /\ stage[t] = "done"
  /\ job'    = [job EXCEPT ![t] = None]
  /\ stage'  = [stage EXCEPT ![t] = "idle"]
  /\ result' = [result EXCEPT ![t] = None]
  /\ UNCHANGED <<states, handle>>

Next ==
  \/ \E h \in Handles, cfg \in Configs : New(h, cfg) \/ Reload(h, cfg) \/ Refused(h, cfg)
  \/ \E h, from \in Handles : Clone(h, from)
  \/ \E t \in Threads :
       \/ \E h \in Handles, call \in Calls, now \in Times :
            \E r \in Requests(call) : Verify(t, h, call, r, now)
       \/ Deny(t) \/ Vet(t) \/ Sign(t) \/ Return(t)

Spec == Init /\ [][Next]_vars
-------------------------------------------------------------------------------

Promise == INSTANCE Authorizer WITH
  given     <- [h \in Handles |-> IF handle[h] = 0 THEN None ELSE states[handle[h]].source],
  query     <- job,
  verdict   <- [t \in Threads |-> IF stage[t] = "done" THEN result[t].allowed ELSE None],
  Accepted  <- Compiles,
  Queries   <- AllQueries,
  Signature <- IssuedSignature

\* verify lets a request through exactly when the configuration last
\* installed in the handle it is called on entitles it: after a reload no
\* signature of a rotated secret passes and no listed restriction is lost,
\* and a clone keeps deciding by the configuration it was cloned with.
KeepsPromise == Promise!Spec

\* Every key a State has cached was derived from the seed of the credential it
\* is cached for, in the configuration the State was compiled from, and stands
\* there once: nothing of a replaced secret survives a reload, no clone fills
\* another's cache past its capacity.
KeysAreOfTheSecretInForce ==
  \A g \in DOMAIN states :
    LET st == states[g] IN
    \A i \in DOMAIN st.source.credentials :
      LET c     == st.source.credentials[i]
          cache == st.cache[c.access_key.word]
      IN /\ Len(cache) <= Capacity
         /\ \A j \in DOMAIN cache :
              cache[j].key = DeriveFrom(<<"AWS4", c.secret_key>>, cache[j].scope)
         /\ \A j, k \in DOMAIN cache : cache[j].scope = cache[k].scope => j = k

\* Nobody makes the verifier derive or evict a signing key with a request
\* that an enabled credential's policy and lifetime would not admit: forged
\* or altered requests reach the cache of a credential only in its window.
OnlyPlausibleRequestsTouchKeys ==
  [][\A g \in DOMAIN states : states'[g].cache # states[g].cache =>
       \E t \in Threads :
         /\ job[t] # None
         /\ handle[job[t].handle] = g
         /\ LET cfg == states[g].source IN
            \E i \in DOMAIN cfg.credentials :
              Promise!Plausible(cfg, cfg.credentials[i], job[t].request, job[t].now)]_vars
===============================================================================
