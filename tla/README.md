# A TLA+ verification of sigv4-verify

`sigv4-verify` checks AWS Signature Version 4 presigned URLs at the edge. A Rust
library (`rust/sigv4-verifier`) decides whether one GET or HEAD request is
authorised by the configuration; an nginx module (`rust/nginx-module`, with the
directive parser `rust/module-config`) calls it in the access phase. This
directory holds TLA+ modules of that system, TLC configurations that check them
on small instances, and TLAPS proofs of the results that matter most for every
instance.

Paths below are relative to the repository root; `verifier` is
`rust/sigv4-verifier/src/lib.rs`, `parser` is `rust/module-config/src/lib.rs` and
`module` is `rust/nginx-module/src/lib.rs`.

## 1. The system

| Part | State it keeps | Operations | What makes it correct |
|---|---|---|---|
| Signing-key cache (`verifier`, `CompiledCredential::signing_key`) | per credential, a `VecDeque` of at most 32 derived keys behind an `RwLock` | look up (read lock), look up again, promote, derive, insert, evict (write lock) | the key handed out is the one derived for the scope asked for; no scope twice; bounded; nobody waits for ever |
| `Verifier` (`verifier`) | an `Arc` to an immutable `State`: limits and compiled credentials | `new`, `clone`, `reload`, `verify` | a request passes exactly when the configuration of its handle entitles it; a refused reload changes nothing; nothing of a replaced secret survives |
| Configuration compilation (`verifier`, `compile_state`) | none | normalise, validate, compile | an invalid configuration is refused; what is compiled restricts what was written |
| Canonicalisation (`verifier`) | none | raw path validation, canonical path, query parsing and sorting | what is signed and what the policy reads are the same request |
| Dates (`verifier`) | none | calendar to seconds, expiry, clock skew | first and last second of a lifetime are right, sums do not wrap |
| Directive parser (`parser`) | none | `Mode`, `CredentialDirective::{parse, validate, resolve}`, `parse_duration` | a credential is never less restricted than its line says |
| nginx configuration hooks (`module`) | `MainConf` and one `LocConf` per block while a configuration is loaded | seven directive handlers, `init_main_conf`, `merge_loc_conf` | a verifying block has a verifier; the nearest mode wins |
| Access handler (`module`) | a `RequestCtx` per request | `handle_request` with its panic boundary | fail closed; variables and log lines tell what happened |
| Variables (`module`) | none; nginx keeps each value it has read | registration, four getters | the log shows no verdict that was not given |
| Deployment (nginx around `module`) | the configurations installed, the workers | load, install, retire and replace workers, `preconfiguration`, `postconfiguration` | a request is judged by one file, that of its worker; old files come to an end |

How they interact. nginx calls a directive handler for each directive of its
configuration file; `init_main_conf` resolves the credential lines, builds a
`VerifierConfig` and calls `Verifier::new`; blocks are then merged from the outside
in. For each request in the access phase the handler allocates a context, looks
at the mode of the location and calls `verify`, which runs up to 22 tests in a
fixed order, asks the credential for a signing key and compares signatures. The
handler turns the result into a status, the variables of the context and a log
line. The variables are read by nginx whenever a rewrite rule, a header or the
access log needs them, and each is kept once read. A reload loads a new
configuration beside the one in force, starts workers under it and lets the old
ones finish; a load that fails leaves everything as it was. Inside a worker the handler runs to its end for one request at a time; the
library is `Sync`, and other users of it share one `Verifier` or clones of it
between threads, which is what its locks are for.

What is hard in it: the gap between the read lock and the write lock in
`signing_key`, handles reloaded while clones of them verify, a reload that fails
half way, the order of the tests before a key is derived (the key is cached
before the signature is known to be right), raw paths against canonical paths,
an empty allowlist meaning "anything", limits of zero, sums that saturate, the
many ways out of the handler, internal redirects, variables kept from before the
answer they seem to tell, reloads with requests under way, and a panic under two
panic strategies. `PROJECT.json` lists each at its line under `hazards`.

## 2. The modules

```
 KeyService        SigningKey --> KeyQueue <------------------+
     ^                  ^                                     |
     | implements       |                                     |
 SigningKeyCache -------+                                     |
     ^                                                        |
 ...History <-- SigningKeyCacheProofs                         |
                                                              |
 Authorizer <-- implements -- Verifier -----------------------+--> Verify --> Credentials <-- ModuleConf
                                 ^
                                 VerifierProofs

 AccessHandler <-- Variables <-- HandlerProofs               ModuleConf
   ^                                                            ^
   +--------- INSTANCE, one per configuration --------- Deployment <-- DeploymentProofs

 Bytes <-- PathCanon, QueryCanon <-- RequestUri <-- RequestUriProofs <-- QueryProofs

 CivilDate <-- CivilDateProofs     Durations <-- DurationsProofs
```

Arrows without a word are EXTENDS. The `MC` modules only give constants values.

**KeyQueue** – the queue of derived keys and the four-step HMAC chain as a free
constructor (`DeriveFrom`): `PushFront`, `PopBack`, `MoveToFront` and the lookup
`IsPosition`, for any seed and scopes. The service is fixed to `s3` by the time a key
is asked for, so a scope is a date and a region. **SigningKey** adds the one
credential whose cache `SigningKeyCache` is about: its seed, its scopes and its
capacity.

**KeyService** – the abstract specification: a thread asks for the key of a scope
and is handed that key. No cache, no lock.

**SigningKeyCache** – `signing_key` (`verifier` 979-1020) cut where another thread
can come in between: one action per lock operation or operation on the queue.

| Code | Actions |
|---|---|
| `if let Some(..) = cache.read()..` | `ReadLock`, then `ReadHit` or `ReadMiss`; both give the guard up |
| `cache.write()` | `WriteLock` |
| `iter().position(..)` | `WriteHit` or `WriteMiss` (which derives and inserts) |
| `remove(position)`, `push_front` | `Promote` |
| `while len > CAPACITY { pop_back }` | `Evict`, one turn at a time, and `Finish` |

**SigningKeyCacheHistory** – two history variables, the scopes by last write and
by last use, to say what the order of eviction is.

**Credentials** – `compile_state`, `compile_credential` and the three policy tests.
Text that the code trims or case-folds is a word with a spelling, and to
normalise is to forget the spelling. A path is a sequence of segments with a
canonical name and a spelling.

**Verify** – `verify` as a function: `Checks` lists the 22 early returns in the order
of the code with their reasons, `Fails` says what each tests, `FirstFailing` finds
the one that ends the call, `CanonicalRequest`, `StringToSign` and `Mac` say what a
signature covers, `Judge` compares. SHA-256 and HMAC are free constructors, so two
signatures are equal exactly when everything they cover is.

**Verifier** – the handles. `states` is every `State` compiled so far: the configuration
it came from, the policy and the key queues of its credentials. `handle` is the `Arc` each
handle holds, `job` the arguments of the call each thread is in, `stage` how far it has got
(`asked`, `vetted` once every test before the signature has passed, `done`) and `result`
what it returns. `New`, `Clone`, `Reload`, `Refused` (a compile error, which leaves all
as it was) and a call of `verify` in steps: `Verify`, then `Deny` or `Vet`, then `Sign`,
then `Return`. `&self` and `&mut self` keep a `reload` of a handle away from the
verifications on it (`Borrowed`). `Presign` is the presigner of the tests, and
`Requests(call)` what may arrive of it: the request, the same with its hexadecimal
digits in the other case, or the request with one field changed.

**Authorizer** – the abstract specification of `Verifier`: a question to a handle is
answered by `Entitled`, stated on the configuration as it was written and on the
presigning call, without compilation, order of tests, keys or caches. Its clauses
follow `docs/security-scan/threat_model.md` ("Security invariants") and
`rust/sigv4-verifier/tests/verifier.rs`.

**ModuleConf** – loading a configuration: one action per directive handler, in any
order and in any block, `InitMainConf`, and `MergeLocConf` per block after the block
around it. A failing directive ends the load (`failed`); what nginx does then is in
`Deployment`.

**AccessHandler** – `handle_request` by the door it is left through: `Unprepared` (no
location configuration or no memory), `Decline` (off), `NotConfigured`, `CallVerify`
and `VerifyReturns`, `Panic` followed by `Caught` where panics unwind, `Abort` where they
end the worker. `Redirect` is nginx's internal redirect, which clears the context.
The panic strategy is the variable `aborts`, fixed at the start.

**Variables** – the four getters on top of the handler. `Getter` is what a getter
leaves behind for a context, `Answers` adds the one that may find no memory.
`Read` is nginx asking for a variable before the handler has run or after it, `Log`
the log phase, which asks for the rest and ends the request; `Asked` keeps what was
read first, found or not, which nginx does because the variables are registered
without `NGX_HTTP_VAR_NOCACHEABLE` (`module` 237-270) and bound as cacheable (675). What is kept
survives an internal redirect; the context does not.

**Deployment** – `ModuleConf` and `AccessHandler` composed. The variables of
`ModuleConf` are the load under way (`StartLoad`, which is `preconfiguration`, then
`LoadStep`, then `Install`, which is `postconfiguration` and the start of workers, or
`GiveUp`). `cycles` keeps every configuration installed, `worker` says which of them
each process runs under. `Handler(c)` is an instance of `AccessHandler` whose mode,
verifier and log settings are those of configuration `c`, and `HandlerStep` takes one
of its actions in the worker that has the request; one worker handles one request
at a time (`Idle`). `Verdict` is the part of `verify` that depends on the loaded
credentials: unknown key, disabled credential, wrong secret. `Abort` is a
panic in a release build, which ends the worker; the master replaces it (`Respawn`).

The rest models pure algorithms, on the data that the modules above abstract.
The state is an input, which grows by one piece, parameter, day or byte at a
time, and an invariant compares what the code makes of it with a definition that
is not the code's.

**Bytes** – the byte helpers of `verifier`. Every loop there over percent-encoded text
moves by one byte or over one escape; `Units` is that walk, and the loops are
maps over it.

**PathCanon** – `validate_raw_path`, the canonical path and `path_matches_prefix`. Its
reference is `Resolved`, a server that decodes a path before it splits it and
resolves its dot segments.

**QueryCanon** – `canonical_query`: the one pass over the raw query that yields both
the string to be signed and the values `verify` decides on (`SigV4Query::set`).
`InOrder` is what a sort returns: the one order in which everything stands behind what comes
before it. `IsUtf8` is `str::from_utf8`, in full. The reference is `Decoded`, the parameters
as an application decodes them.

**RequestUri** – `split_original_uri` and the two above composed: the URI of a request,
grown by `Extend` and `AddParam`.

**CivilDate** – `parse_amz_date` and `days_from_civil`, from the sixteen bytes of the
text to seconds. The reference is the calendar itself: the next day, and `Stamp`,
which writes a date down.

**Durations** – the loop of `parse_duration`, one byte per step, with every checked
product and sum at a word whose largest value is `MaxWord`. The reference, `Meaning`, is read
off the text with integers that have no width: each digit is worth its power of ten
(its distance to the unit that ends its number) times that unit, and a duration is the
sum. `MCTimes` runs it and `CivilDate` in one run; a
behaviour is in one or the other.

## 3. The runs

| Run | Question | Distinct states |
|---|---|---|
| `SigningKeyCache_safety` | Can racing threads cache a scope twice, overfill the queue, or use a stale position? Which keys does eviction keep? | 77,238 |
| `SigningKeyCache_service` | Does the cache implement `KeyService`, and does every thread get out? | 2,205 |
| `SigningKeyCacheHistory_lru` | Is the cache LRU, as documented? *(violated)* | – |
| `Verifier_decisions` | Does `verify` agree with `Authorizer` on every configuration and altered request? Who can touch the key caches? | 125,981 |
| `Verifier_reload` | Do verdicts follow the configuration of their handle under clones, reloads and refused reloads? | 326,305 |
| `ModuleConf_load` | Does a configuration that loads mean what was written? | 416,768 |
| `ModuleConf_docs` | Does a `default_max_expires` out of range always fail the load, as documented? *(violated)* | – |
| `AccessHandler_doors` | Does the handler fail closed through every door, and do variables and log lines tell the truth, whenever they are read? | 4,159,296 |
| `Deployment_reload` | Is a request judged by the file it arrived under, through reloads, redirects and lost workers? Does an old file come to its end? | 821,543 |
| `RequestUri_bytes` | Do policy, signature, `verify`, server and application read one path and the same parameters? | 428,008 |
| `RequestUri_fuzz` | Does an allowed URI spell `X-Amz-Signature` out, as the fuzz target asserts? *(violated)* | – |
| `Times_seconds` | Does the closed formula count the days of the calendar, and does a time have one spelling? Is a duration exact when accepted and rightly refused when not? | 667,907 |

What the passing runs show, property by property:

* `TypeOK`, `UniqueScopes`, `Bounded`, `PositionStillValid` (`SigningKeyCache_safety`):
  the second lookup under the write lock is what keeps a scope from being
  inserted twice; the extra entry between insertion and eviction is never visible
  to anyone who does not hold the write lock; the position found under the lock
  is still the position of that scope when `remove(..).expect(..)` uses it.
* `KeepsPromise` (`SigningKeyCache_service`): a refinement of `KeyService`, with the
  key returned exactly on the step that gives the last lock up.
* `Drains`: either calls keep coming for ever, or every thread ends up outside
  `signing_key`. It fails if the read guard outlives its condition.
* `RetainsRecentlyWritten`: between writers the queue is the list of the scopes
  last inserted or promoted under the write lock, newest first, cut at the capacity.
* `KeepsPromise` (`Verifier_*`): a refinement of `Authorizer`, in both directions: what
  passes is entitled, and what is entitled passes.
* `KeysAreOfTheSecretInForce`: what a `State` has cached for a credential was derived from
  the secret its own configuration gives that credential, stands there once per scope
  and keeps to the capacity; it breaks if a reload hands the old queues on.
* `OnlyPlausibleRequestsTouchKeys`: a key is derived only for a request that an
  enabled credential's policy and time window admit, whoever signed it.
* `VerifierWhereNeeded`: with it, the handler's `not_configured` answer is
  unreachable from a configuration that loads.
* `RestrictedUnlessWaived`: a dimension of a compiled credential is unrestricted
  only where the line carries the flag that waives it, although the compiled
  form (an empty list) cannot tell the two apart.
* `NearestModeWins`: the mode of a block after merging is the one written in the
  nearest block around it, and off when none is written.
* `FailClosed`: where a location enforces, only an outcome of `verify` that allows
  lets a request go on, whichever door the handler is left through.
  `VariablesTellTheOutcome`: the variables are those of the location and outcome that
  gave the answer, also after a redirect or a caught panic. `DenialsAreLogged`: a
  denial leaves its line in shadow mode as well.
* `LogLineTellsTheAnswer`: the access log shows the result, reason and key of the
  answer, provided its variables were read after it. The premise (`ReadInTime`) is
  needed: a variable that a rewrite rule reads before the access phase, or that is
  read before an internal redirect, keeps the old value, so an operator who
  does that reads a stale one. `LogCreditsNothing` has no premise: whenever the
  variables are read, an allow, a deny, a key or a latency in the log is one that
  `verify` gave for this request.
* `NeverUnconfigured`: `not_configured` is unreachable in a configuration that was
  installed (`docs/rust-nginx-module.md:340-341`), now with the handler and
  reloads in the model.
* `TheFileDecides`: from the directives as they are written to the status of the
  answer. A request passes an enforcing location, or is refused by it, as the
  file in force where it arrived says, also when another file is loaded, the secret
  rotated, or the worker of another request dies while it is under way.
* `OldConfigurationsEnd`: a worker does not stay with a configuration that was
  replaced, so a secret taken out of the file stops working.
* `OneReading`: in a path that is let through, decoding adds, removes and moves no
  segment, so splitting before or after it is the same.
  `CanonicalFormIsFaithful`: the canonical path is a fixed point in normal form that
  decodes to the path received. `PolicyHoldsAfterDecoding`: a path admitted by a
  prefix lies in the directory of the prefix after decoding.
* `EveryParameterIsSigned`: decoded, the canonical query holds each name and value as
  often as the query does, whatever its spelling, and none under `X-Amz-Signature`.
  `CanonicalQueryIsNormalForm`: it parses, is a fixed point and is in order.
  `VerifierReadsWhatIsSigned`: the values read under a known name are those signed, each as
  often.
* `DaysAreCounted`, `CalendarIsGregorian`, `SecondsBelongToTheirDate`: one day is one
  more, the dates accepted are the Gregorian ones, and among every clock time and
  every text that differs from midnight's in one byte or in length, those accepted
  fall on the date they are written with and no two are the same second, which `verify` relies on when it compares the
  first with the credential scope and the second with the clock.
* `AcceptedIsExact`, `RefusedIsDue`: the checks of `parse_duration` refuse what does
  not fit and nothing else.

### Bounds, and why they are enough

* `SigningKeyCache`: `Capacity` is 2 (1 in the liveness run) for the code's 32, with
  four scopes, so that the queue overflows and an entry in the middle can be
  promoted; three threads, so that a reader, a writer and one that waits meet.
  Threads, dates and regions are symmetric in the safety runs; the liveness run
  uses no symmetry. The safety results are proved for every value of these.
* `Verifier`: `DayLength` is 4 and `MaxExpires` 28, which keeps seven days to a
  lifetime; `Times` are the seconds around both ends of the base call's lifetime
  (5 to 7, skew 1); `MaxInt` is 1000, and one configuration has a clock skew of
  `MaxInt` so that the addition saturates. `MaxStates` bounds how many states are
  compiled: 1 for decisions, 2 for reloads, which is enough for a clone to stay
  with the old one. Every field of a request takes every value that some test
  tells apart; one field is altered at a time. Each way to be refused at
  compilation has one configuration.
* `ModuleConf`: an http, a server and a location block; three good credential lines
  and one bad line for each reason to be refused. Blocks deeper than that merge
  by the same step.
* `AccessHandler`, `Variables`: two requests and two locations in every mode,
  `MaxRedirects` is 1 (nginx allows ten), three outcomes of `verify`. One of the requests
  is `Watched`, and `MaxReads` = 1 of its variables may be read early, at any point;
  a line read in part early is enough to mix two answers. The other request is there
  to share a worker that aborts.
* `Deployment`: `MaxCycles` = 2 files from four credential lines (the old secret, a new one in
  a file, the old one switched off, an unreadable file) and one location; one request signed
  with each secret, the first of which may be redirected once; two slots for workers
  of which a configuration needs one, so that the old and the new run side by side.
  The second file cannot be installed while both slots are taken. The directives that do not
  change these verdicts are left to `ModuleConf_load`. The safety results are proved for
  every value of these.
* `RequestUri`: twelve pieces of path (slash, dot, question mark, a space, a letter,
  bytes that are escaped, escapes of a dot, a slash, a backslash and a letter, in
  lower or upper case, an escape cut short) and 49 parameters: five names (plain and
  escaped) by nine values (missing, empty, escaped, with an equals sign, not UTF-8, UTF-8 of two
  bytes, cut short), and a missing name and one cut short, which make the query unreadable
  whatever the value.
  `MaxPieces` is 5 without a parameter, which is room for two segments with an
  escaped dot each and for an escape cut short by a slash, a question mark or the
  end, and 2, 1 and 0 before one, two and three parameters, which is the
  signature next to a repeated name in any order. Two one-letter names stand for
  the six known ones; no name of SigV4 is a prefix of another.
* `CivilDate`: walks of `Span` = 3 years from each of `FirstYears`: year 0 (whose January
  falls in the era before), the end of an era (398-401), of a leap and of a plain
  century, 1970, 2024, and 9999. `SecondYears` (1903-2036) are the years whose seconds
  fit TLC's 32-bit integers; the code's are 64-bit and four digits of a year
  cannot overflow them. `Clocks` are the first, the last and the next value of each field,
  `Strays` five bytes that are no digits (a space, the two neighbours of the digits,
  a plus and a `T`).
* `Durations`: `MaxWord` is 3999 for `u64::MAX`, between one and two hours, so that each
  product and each sum overflows for some text of `MaxLength` = 7 bytes and fits for
  another.

Seven models really stop, and their runs say `CHECK_DEADLOCK FALSE`: the three of
pure algorithms when the input has its full length, `ModuleConf` ends loaded or
failed, `AccessHandler` with `Variables` once every request is answered, logged or lost
and has used up its redirects, `Deployment` likewise once all files are installed,
`Verifier` has no legal call before the first configuration that compiles when
`MaxStates` is used up on none. The `SigningKeyCache` runs check for deadlock.

### Fairness

Two runs assume fairness. `SigningKeyCache_service` assumes weak fairness of each
thread's next step, which says that the operating system runs a thread that can
run. `std`'s `RwLock` promises no order between readers and writers, so no strong
fairness is assumed, and a writer may starve while readers keep coming. `Drains` is
therefore conditional on calls ceasing. Nothing is assumed of callers: `Call` is
not fair.

`Deployment_reload` assumes weak fairness of each request's handler, which never
waits for anything (`handle_request` takes one lock, whose holders leave by
`Drains`), of the master's message to old workers and of their exit. Nothing is
assumed of operators, clients, panics or the replacement of dead workers.

### Disagreements between documentation and code

1. **The cache is not LRU.** `docs/rust-nginx-module.md:413-415` calls the key cache
   "bounded to 32 entries, LRU". A hit under the read lock, the usual case, does
   not move its entry (`verifier` 985-991), so a key in constant use is evicted once
   32 others have been inserted. Only a hit in the re-check promotes. The cost is
   a derivation, not a wrong answer. Run `SigningKeyCacheHistory_lru`.
2. **An out-of-range default limit can load.** `docs/rust-nginx-module.md:198-199`
   says a `sigv4_verify_default_max_expires` of 0 or over 7d fails `nginx -t`.
   `init_main_conf` returns before that test when no credential is configured
   (`module` 480-489). Run `ModuleConf_docs`.
3. **The fuzz target asserts too much.** `fuzz_verify.rs:49-59` takes an allowed URI
   to contain the letters `X-Amz-Signature`. `canonical_query` recognises a parameter
   by its decoded name (`verifier` 731-737), so an escaped spelling of the name is the
   signature too. The code is right, as `EveryParameterIsSigned` says: no spelling
   of it is signed. Run `RequestUri_fuzz`.

`docs/rust-nginx-module.md:417-418` says that a panic "becomes a `500`", and its next
sentence that release builds abort instead (`Cargo.toml:18`); the models have both.

## 4. The proofs

`tlapm` checks eight modules, for every value of the constants.

**SigningKeyCacheProofs** assumes `CapacityAssumption` (a positive capacity) and
`NoneAssumption` (`None` is neither a thread nor a scope). The invariant

    IInv == TypeOK /\ LockInv /\ QueueInv /\ CallInv /\ PositionStillValid

is inductive. `UniqueScopes` alone is not: a thread may insert under the write lock
only because nobody else can have changed the queue since its re-check, so the
invariant must say who holds which lock at which label (`LockInv`: the writer is
the one thread at the labels of the write section, and there are no readers
then), that the queue is tidy and how long it is in each phase (`QueueInv`: one
entry over only while its writer is evicting) and that each thread inside asks
for a scope, and holds the right key once it has one (`CallInv`). Lemmas about
`PushFront`, `PopBack` and `MoveToFront` say that they keep a queue tidy, that is,
free of repeated scopes and of keys filed under another scope. From `IInv` follow
`TypeCorrect`, `NoDuplicateScopes`, `CacheBounded`, `PromoteIsSafe` and `CacheIsSound`.
`ServesTheRightKey` is the refinement `Spec => KeepsPromise`: `ReadHit`, `Promote` and
`Finish` are the step `Serve`, `Call` and `Return` are themselves and the rest cannot be
seen. `QueueIsNewest` is about the order of eviction. Its invariant `HInv` says that
the history of writes holds each scope once and that the queue agrees with it in every
phase: entry by entry (`Follows`), as long as the history or filled to the capacity,
with one entry more while the writer is evicting. A push, a promotion and an eviction
keep it (`PushFollows`, `MoveFollows`, `PopFollows`), the promotion because moving the same
position of both lists to the front leaves them in step.

**VerifierProofs** assumes, by name in `Verifier`:

* `CapacityAssumption` and `MaxExpiresAssumption` (positive), `TimeAssumption` (seconds are
  integers up to `MaxInt`), `NoneAssumption` (`None` is no configuration, call or truth value);
* `ConfigAssumption`: a configuration has the types of `VerifierConfig`;
* `PresignAssumption`: what a presigner writes is not one of the marks for a missing,
  repeated or malformed parameter;
* `AlterationAssumption`: an altered field holds a value of its own kind, and
* `SignatureAssumption`: signatures are not forged; one put in the place of another was made of
  another string to sign, or is the one it replaces. A signature made with another
  secret is a presigning call of its own.

Three groups of lemmas come first, without any state. `FirstFailingIsFirst` and `AllPassIsClear`
forget the order of the 22 tests; `AllowlistsKept`, `PrefixIsBelow` and `SaturationIsHarmless`
compare what is compiled with what was written (a blank entry of an allowlist changes
nothing, `strip_prefix` with the boundary test is to lie below a directory, a sum that
saturates decides as the exact one does), which gives `ClearIsPlausible`.
`StringToSignCovers` and `SeedFromKey` say that the signature leaves nothing out, so that
`SignedIsEntitled` can conclude from a matching signature that the request is the
one presigned with the credential's secret; `DeniedIsNotEntitled` is the other half.
`CacheAfterIsQueue` says that a lookup leaves a queue of the same seed behind and returns the
scope's key. The invariant `IInv` then says that every `State` is what its configuration
compiles to with queues of its own seeds, that a call in progress is on a handle that has
a `State`, and that a call at `vetted` has passed every test in the state its handle has *now*,
which holds because a handle that is borrowed is not reloaded.
`CachesAreOfTheirState`, `KeysAreTouchedPlausibly` and the refinement
`VerifierDecidesAsPromised` follow: `New` and `Reload` are `Install`, `Clone` is `Share`, `Verify` is
`Ask`, `Deny` and `Sign` are `Decide`, and `Vet` and `Refused` cannot be seen.

**HandlerProofs** treats the handler first and then the variables. For the handler it
assumes `OutcomesAssumption` (an outcome says whether it allows). The invariant `IInv` says
of each request, by its stage, which of the three ways an answer was reached (an error, a
location that is off, an outcome of `verify`) fits its status, its context and its history.
`HandlerFailsClosed`, `VariablesAreTrue` and `DenialsLeaveALine` follow for any number of
requests, locations, redirects and outcomes.

For the variables it assumes `WatchedAssumption`, `ReasonsAssumption` (`verify` always gives a
reason) and `ContextsAssumption` (a context is not `None`). `WatchingIsHarmless` shows that `VarSpec` implements the handler's
specification, which carries its theorems over. `VarInv` says that what is kept and
what a line shows was earned (a verdict kept is one `verify` gave), and that
a value read after the answer is the getter's value of the context that is still
there. `LogTellsTheAnswer` and `NothingIsCredited` follow.

**DeploymentProofs** treats one load first and then all that is installed. For a load it
assumes `TreeAssumption` (`http` is no inner block, and every block has one around it),
`NoneAssumption` (`None` is no compiled state) and `LinesAssumption` (a credential line has
finitely many arguments, and only a blank one has a blank value). The invariant

    IInv == TypeInv /\ ModeInv /\ MainInv

says what each field holds in each phase, that a block that is not merged is still as it was
written and a merged one in its nearest written mode (`ModeInv`), and that
`enabled_anywhere` is noted for every verifying mode, the lines kept are parsed ones
with distinct keys, and the verifier is what they compile to (`MainInv`). `VerifierPresent`
follows because a mode that verifies after merging was written somewhere;
`RestrictionsSurvive` by following each list from the arguments to the compiled set;
`ModesAreInherited` because a merge in the order outside in reaches the block
around first. The tree need not be finite: `Around` is stated by the sets that
are closed outwards, not by recursion.

The second half adds `WorkersAssumption` (`None` is no worker) and
`RedirectedAssumption`. Its invariant

    DeployInv == IInv /\ IdleInv /\ CyclesInv /\ WorkersInv /\ RequestsInv

takes that of a load over for the load under way and says that nothing is left of a load
when none is (`IdleInv`), that each installed configuration is what its
file says (`CyclesInv`, from the theorems above), that workers run under one that was
installed (`WorkersInv`), and that a request under way is in a worker of
the configuration it arrived under and answered as that one makes of it
(`RequestsInv`). `NobodyUnconfigured` and `FilesDecide` follow.

**CivilDateProofs** assumes `YearsAssumption` (walks start in natural years),
`ClocksAssumption` (the clocks that are written are natural numbers) and
`StraysAssumption` (a stray byte is no digit). `DayInv` keeps
the walk on dates of the calendar. `Marches` is the
number of days before the first of March of a year, without eras. `Count` shows that
`DaysFromCivil` is `Marches` and the days since March, for which `ErasAreYears` takes the eras
out of the formula; `YearEnds` says that `Marches` grows by 366 in a leap year and by
365 in any other, and `MonthEnds` treats the ends of the months. `EveryDayCounts` and
`YearsAreGregorian` hold
for every year, not only those the run walks.

From the count the proof goes on to the text. `AcceptedText` unrolls the loop of
`parse_digits` over two and over four digits (`LoopOfTwo`, `LoopOfFour`). `DatesFit` says
that a date ends before its month and its year do, so that days and dates are one to one
(`OneDate`); the clock is the rest of the seconds modulo a day; and two digits can be read off
their number. Hence `OneSpelling`: of all sequences of integers, no two that
`parse_amz_date` accepts name one second. `SecondsHaveTheirDate` is the run's property for
every year: of the texts tried for a day only whole stamps of that day are
accepted (`NoStrays`), and they are read as that day (`StampSays`).

**RequestUriProofs** assumes only that what a URI is put together from are bytes
(`PiecesAssumption`, `RawParamsAssumption`; `PathPrefixesAssumption` says the same of
prefixes), so every URI is a text of bytes (`UriIsText`). The loops of the source are
recursive functions in `Bytes`. That such a function exists at all, so that its equation may
be used, is `RecursionExists`, and inductions over a text are `Downwards` and `Upwards`: a
set of natural numbers that is not empty has a least member. `WalkExists`, `FlattenExists`
and `SplitExists` give `Units`, `FlattenSeq` and `Split` one equation per place.
`UnitsAreProper` and `WellFormedUnits` say what a unit is; `FlattenUnits` is the heart of
the argument, that sound units put together are taken apart into the same units, for which
no unit may begin in the middle of another. `CanonicalUnits` says that the canonical unit
keeps its byte and has the canonical shape, `CanonicalForm` that a path of units of that
shape is canonical byte by byte. Hence `CanonicalPath` for every well-formed path, and
`CanonicalPathIsFaithful` for the path of every URI that `split_original_uri` takes
(`PathIsText`).

The same units give the path one reading. `SplitHere` and `SplitOver` say what one byte, a
separator or not, does to the pieces `Split` makes; `UnitsOfCons` that a unit in front of a
text is decoded on its own; and `SlashIsPlain` that only a slash stands for a slash, because
`validate_raw_path` refuses `%2F`. By induction from the end of the path, splitting and decoding
commute (`SplitDecodes`). A fold over segments none of which is a dot segment is those
segments (`NothingToResolve`, through the recursive function behind `FoldLeft`), hence
`ValidPathHasOneReading` and `PathsHaveOneReading`. `PrefixSegments` compares the segments of a
prefix with those of a path it admits: all are the same but an empty last one, since the path
ends or goes on with a slash where the prefix ends. With the one reading of both, `PolicyHolds`.

**QueryProofs** goes on to the query of the same URIs. It adds `NamesAssumption` (the signature's
name is none of the other names). It takes the three
steps of `canonical_query` one by one.

* *Sorting.* `OrderExists`: a strict total order on a finite set has an order of its members, the
  one by rank, so that `InOrder` is never an arbitrary choice; by `InOrderIs` it takes each member
  once. `LexOrder` and `ParamOrder` show that bytewise comparison, of components and then of
  pairs, is such an order; ties are broken by place.
* *Encoding.* `EncodeIsFaithful`: an encoded component decodes to what the component decodes to, is
  encoded already (a second encoding changes nothing) and is made of `SafeBytes`, which neither an
  ampersand nor an equals sign belongs to.
* *Joining.* `SplitSnoc` and `JoinSplit`: what is joined by a byte that none of the parts has is
  split into the same parts. `ParamOfPart` does the same for the equals sign.

Together they give `CanonicalQueryReads`: the parameters written in the canonical query are those
that are signed, encoded and in order. Encoding and sorting them once more changes
nothing (`CanonicalQueryIsNormal`). For the other two properties parameters are counted:
`CountInOrder` says that an order has as many places with a property as the set has members with
it, and `SignedBag` that a decoded pair stands in the canonical query as often as in the query
received (`CanonicalQuerySaysTheSame`, `ValuesAreSigned`). `QueryIsText` and `ReadableQuery` carry the
three over to every URI the run could be given: `ParametersAreSigned`, `CanonicalQueryIsFixed` and
`VerifierReadsTheSigned`.

**DurationsProofs** assumes `WordAssumption` (`MaxWord` is a natural number) and nothing of
the bytes. The invariant keeps an account (`Reckoned`): what the places up to the last unit
are worth adds up to `total`, and those behind it, as seconds, to `number`, both within a
word. A digit multiplies the worth of the open number by ten (`DigitReckons`) and a letter
by its unit; `SumsScaled` says what that does to the sum, and `TensAre` and `UpToIs` give
the two recursive functions one equation per place. When the loop refuses, either the text
read so far can be no duration or the sum is past `MaxWord` already. `AcceptedDurations` and
`RefusedDurations` follow, so `parse_duration` is exact at the 64 bits of the code and not
only at the 3999 of the run.

Every invariant and action property of the passing runs, and both refinements, are stated by
a theorem. Only model-checked, not proved: `Drains` and `OldConfigurationsEnd`, which hold by
fairness; liveness and ENABLED are beyond the prover.

## 5. What is not modelled

* The bytes inside `Verifier`. There a path is segments with a spelling, a parameter is
  single, missing, repeated or malformed, and a date is a second; `RequestUri`
  and `CivilDate` check the bytes on their own. That the abstraction is
  the one these algorithms induce is argued here, not checked.
* The hexadecimal digits of a signature, the slashes of a credential scope, and
  UTF-8 beyond ASCII, except in the values of a query.
* The nginx engine, but for redirects, the order of merging, kept variables, workers
  and reloads. `satisfy any`,
  other access modules, subrequests and upstreams are not modelled.
* Cryptography: SHA-256 and HMAC are taken to be free of collisions. Zeroisation
  and constant-time comparison have no state a model could tell apart.
* Benchmarks, the examples, the differential corpus, packaging and CI. Of the fuzz
  targets only what they assert is used, as properties of `RequestUri`.

## 6. Plan

Done, in this order: `SigningKey`, `KeyService`, `SigningKeyCache` with its history and
proofs; `Credentials`, `Verify`, `Authorizer`, `Verifier`; `ModuleConf`; `AccessHandler` and
its proofs; `Bytes`, `PathCanon`, `QueryCanon`, `RequestUri`, `CivilDate`,
`Durations`.

After these: `Deployment`, which composes `ModuleConf` and `AccessHandler`; `Variables`;
the text of dates; the proofs of `ModuleConf`, `Deployment`, `Variables` and
`CivilDate`; the order of eviction; the refinement of `Authorizer`; the canonical path, its
one reading and the path policy; the canonical query and what it signs; the exactness of
durations at every width.

What remains is composition: the key caches of `Verifier`, which a call looks up in one
step there, filled by the steps of `SigningKeyCache`, so that one theorem covers
both.
