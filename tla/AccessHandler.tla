----------------------------- MODULE AccessHandler -----------------------------
(***************************************************************************)
(* The access-phase handler of the nginx module and the request context    *)
(* behind its variables (rust/nginx-module/src/lib.rs).  handle_request    *)
(* runs to its end inside one worker, but it leaves by many doors: the     *)
(* context may not be allocated, the location may be off, the verifier may *)
(* be missing, verify may deny or panic.  nginx may run the handler again  *)
(* for the same request after an internal redirect to another location; it *)
(* clears the module contexts first.                                       *)
(*                                                                         *)
(* verify is its promise only: it answers with one of Outcomes.            *)
(***************************************************************************)
EXTENDS Integers, FiniteSets

CONSTANTS
  Requests,
  Blocks,         \* locations, each with its merged mode
  Outcomes,       \* results of verify: allowed, reason, access_key_hash
  MaxRedirects,   \* nginx's bound on internal redirects
  None

ASSUME OutcomesAssumption ==
  None \notin Outcomes /\ \A o \in Outcomes : o.allowed \in BOOLEAN

VARIABLES
  mode,        \* mode[b]: "on", "off" or "shadow"
  verifier,    \* main conf holds a compiled verifier
  log_denies, log_all,
  aborts,      \* the build's panic strategy: "abort" in a release build
  req          \* req[r]: where request r is and what is known of it

conf == <<mode, verifier, log_denies, log_all, aborts>>
vars == <<conf, req>>

EmptyCtx == [result |-> "", reason |-> "", hash |-> None, timed |-> FALSE]

Fresh == [ stage     |-> "new",    \* new, access, verify, panicked, answered, lost
           block     |-> None,
           ctx       |-> None,
           status    |-> None,
           outcome   |-> None,     \* history: what verify said here
           logged    |-> FALSE,    \* history: a line was logged here
           redirects |-> 0 ]

Verifies(m) == m \in {"on", "shadow"}

\* init_main_conf never leaves a verifying location without a verifier; the
\* handler is written for the case all the same, so it is not assumed here.
Init ==
  /\ mode \in [Blocks -> {"on", "off", "shadow"}]
  /\ verifier \in BOOLEAN
  /\ log_denies \in BOOLEAN
  /\ log_all \in BOOLEAN
  /\ aborts \in BOOLEAN
  /\ req = [r \in Requests |-> Fresh]

At(r, stage) == req[r].stage = stage

ModeAt(r) == mode[req[r].block]

\* Handling of r goes on as the record q says.
Update(r, q) == req' = [req EXCEPT ![r] = q] /\ UNCHANGED conf

Arrive(r, b) ==
  /\ At(r, "new")
  /\ Update(r, [req[r] EXCEPT !.stage = "access", !.block = b])

\* The handler is left with this status and this context.
Answer(r, status, ctx) ==
  Update(r, [req[r] EXCEPT !.stage = "answered", !.status = status, !.ctx = ctx])

\* No location conf, or no memory for the context: 500, whatever the mode.
Unprepared(r) ==
  /\ At(r, "access")
  /\ Answer(r, "INTERNAL_SERVER_ERROR", req[r].ctx)

Decline(r) ==
  /\ At(r, "access")
  /\ ~Verifies(ModeAt(r))
  /\ Answer(r, "NGX_DECLINED", [EmptyCtx EXCEPT !.result = "off"])

ErrorCtx(reason) == [EmptyCtx EXCEPT !.result = "error", !.reason = reason]

\* Mutant: a missing verifier lets the request through.
NotConfiguredDeclines(r) ==
  /\ At(r, "access")
  /\ Verifies(ModeAt(r))
  /\ ~verifier
  /\ Answer(r, "NGX_DECLINED", ErrorCtx("not_configured"))

NotConfigured(r) ==
  /\ At(r, "access")
  /\ Verifies(ModeAt(r))
  /\ ~verifier
  /\ Answer(r, "INTERNAL_SERVER_ERROR", ErrorCtx("not_configured"))

\* Mutant: the result is set before verify has given one.
CallVerifyOptimistic(r) ==
  /\ At(r, "access")
  /\ Verifies(ModeAt(r))
  /\ verifier
  /\ Update(r, [req[r] EXCEPT !.stage = "verify", !.ctx = [EmptyCtx EXCEPT !.result = "allow"]])

CallVerify(r) ==
  /\ At(r, "access")
  /\ Verifies(ModeAt(r))
  /\ verifier
  /\ Update(r, [req[r] EXCEPT !.stage = "verify", !.ctx = EmptyCtx])

\* Mutant: an allowed request is reported as such in shadow mode too.
ResultOfAllowedFirst(o, m) ==
  IF o.allowed THEN "allow" ELSE IF m = "shadow" THEN "shadow" ELSE "deny"

ResultOf(o, m) ==
  IF m = "shadow" THEN "shadow" ELSE IF o.allowed THEN "allow" ELSE "deny"

\* Mutant: denials are logged only where they deny.
LoggedInOn(o, m) == log_all \/ (~o.allowed /\ log_denies /\ m = "on")

Logged(o, m) == log_all \/ (~o.allowed /\ log_denies)

StatusOf(o, m) == IF o.allowed \/ m = "shadow" THEN "NGX_OK" ELSE "FORBIDDEN"

OutcomeCtx(o, m) ==
  [result |-> ResultOf(o, m), reason |-> o.reason, hash |-> o.hash, timed |-> TRUE]

VerifyReturns(r, o) ==
  /\ At(r, "verify")
  /\ Update(r, [req[r] EXCEPT !.stage   = "answered",
                              !.outcome = o,
                              !.ctx     = OutcomeCtx(o, ModeAt(r)),
                              !.logged  = Logged(o, ModeAt(r)),
                              !.status  = StatusOf(o, ModeAt(r))])

\* catch_unwind takes over where panics unwind.
Panic(r) ==
  /\ ~aborts
  /\ At(r, "verify")
  /\ Update(r, [req[r] EXCEPT !.stage = "panicked"])

\* Mutant: verify is tried again after a panic.
CaughtRetries(r) ==
  /\ At(r, "panicked")
  /\ Update(r, [req[r] EXCEPT !.stage = "access"])

\* A second context takes the place of the first, if there is memory for it.
Caught(r) ==
  /\ At(r, "panicked")
  /\ \E ctx \in {ErrorCtx("internal_error"), req[r].ctx} :
       Answer(r, "INTERNAL_SERVER_ERROR", ctx)

\* Where panics abort, the worker dies with every request it has.
Abort(r) ==
  /\ aborts
  /\ At(r, "verify")
  /\ req' = [q \in Requests |->
       IF req[q].stage \in {"new", "answered"} THEN req[q] ELSE [req[q] EXCEPT !.stage = "lost"]]
  /\ UNCHANGED conf

\* nginx: the phases start over in another location, without the context.
Redirect(r, b) ==
  /\ At(r, "answered")
  /\ req[r].redirects < MaxRedirects
  /\ Update(r, [Fresh EXCEPT !.stage = "access", !.block = b,
                             !.redirects = req[r].redirects + 1])

Next ==
  \E r \in Requests :
    \/ \E b \in Blocks : Arrive(r, b) \/ Redirect(r, b)
    \/ Unprepared(r) \/ Decline(r) \/ NotConfigured(r) \/ CallVerify(r)
    \/ \E o \in Outcomes : VerifyReturns(r, o)
    \/ Panic(r) \/ Caught(r) \/ Abort(r)

Spec == Init /\ [][Next]_vars
-------------------------------------------------------------------------------
Answered(r) == At(r, "answered")

Passed(r) == Answered(r) /\ req[r].status \in {"NGX_OK", "NGX_DECLINED"}

\* Fail closed: a request goes on from a location that enforces only if verify
\* allowed it in that location, by whatever door the handler was left and
\* wherever the request was redirected from.
FailClosed ==
  \A r \in Requests : Passed(r) /\ ModeAt(r) = "on" =>
    req[r].outcome # None /\ req[r].outcome.allowed

\* What an operator reads in $sigv4_verify_result is what happened here and
\* nothing of an earlier location: allow and deny are enforced, off and shadow
\* are the location's mode, error is a 500.
VariablesTellTheOutcome ==
  \A r \in Requests : Answered(r) /\ req[r].ctx # None =>
    LET ctx == req[r].ctx
        status == req[r].status
    IN /\ ctx.result = "allow"  <=> (ModeAt(r) = "on" /\ status = "NGX_OK")
       /\ ctx.result = "deny"   <=> status = "FORBIDDEN"
       /\ ctx.result = "shadow" <=> (ModeAt(r) = "shadow" /\ status = "NGX_OK")
       /\ ctx.result = "off"    <=> status = "NGX_DECLINED"
       /\ ctx.result = "error"  => status = "INTERNAL_SERVER_ERROR"
       /\ status \notin {"NGX_OK", "FORBIDDEN"} => ctx.hash = None /\ ~ctx.timed

\* Every denial leaves a line in the log unless the operator turned it off,
\* in shadow mode too, where the log is all there is to see of it.
DenialsAreLogged ==
  \A r \in Requests :
    Answered(r) /\ req[r].outcome # None /\ ~req[r].outcome.allowed /\ log_denies => req[r].logged
===============================================================================
