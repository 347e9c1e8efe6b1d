------------------------------ MODULE HandlerProofs ------------------------------
(***************************************************************************)
(* The handler fails closed, tells the truth in its variables and logs its *)
(* denials, and the access log tells the truth of it, for every number of  *)
(* requests, locations, redirects, reads and outcomes of verify.  The      *)
(* invariant lists the ways out of the handler and what each leaves in the *)
(* request; of every answer nginx keeps it says that verify has earned it, *)
(* and that one given after the handler's last run is still what the       *)
(* context says.                                                           *)
(***************************************************************************)
EXTENDS Variables, TLAPS

Modes == {"on", "off", "shadow"}

ConfOK ==
  /\ mode \in [Blocks -> Modes]
  /\ verifier \in BOOLEAN /\ log_denies \in BOOLEAN
  /\ log_all \in BOOLEAN /\ aborts \in BOOLEAN

\* Answered by an error: verify gave no outcome and the request stops.
ErrorDoor(q) ==
  /\ q.status = "INTERNAL_SERVER_ERROR"
  /\ q.outcome = None
  /\ q.ctx \in {None, EmptyCtx, ErrorCtx("not_configured"), ErrorCtx("internal_error")}

\* Answered by a location that does not verify.
OffDoor(q) ==
  /\ q.status = "NGX_DECLINED"
  /\ mode[q.block] = "off"
  /\ q.outcome = None
  /\ q.ctx = [EmptyCtx EXCEPT !.result = "off"]

\* Answered by what verify said.
VerifyDoor(q) ==
  /\ mode[q.block] \in {"on", "shadow"}
  /\ q.outcome \in Outcomes
  /\ q.status = StatusOf(q.outcome, mode[q.block])
  /\ q.ctx = OutcomeCtx(q.outcome, mode[q.block])
  /\ q.logged = Logged(q.outcome, mode[q.block])

\* What is known of a request at each stage of the handler.
RequestOK(q) ==
  /\ q.stage = "new" => q = Fresh
  /\ q.stage \in {"access", "verify", "panicked", "answered"} => q.block \in Blocks
  /\ q.stage \in {"access", "verify", "panicked"} => q.outcome = None
  /\ q.stage = "access" => q.ctx = None
  /\ q.stage \in {"verify", "panicked"} => mode[q.block] \in {"on", "shadow"} /\ q.ctx = EmptyCtx
  /\ q.stage = "answered" => ErrorDoor(q) \/ OffDoor(q) \/ VerifyDoor(q)

Contexts ==
  {EmptyCtx, [EmptyCtx EXCEPT !.result = "off"], ErrorCtx("not_configured"),
   ErrorCtx("internal_error")} \cup {OutcomeCtx(o, m) : o \in Outcomes, m \in Modes}

RequestType ==
  [ stage     : {"new", "access", "verify", "panicked", "answered", "lost"},
    block     : Blocks \cup {None},
    ctx       : Contexts \cup {None},
    status    : {"NGX_OK", "NGX_DECLINED", "FORBIDDEN", "INTERNAL_SERVER_ERROR", None},
    outcome   : Outcomes \cup {None},
    logged    : BOOLEAN,
    redirects : Nat ]

IInv ==
  /\ ConfOK
  /\ req \in [Requests -> RequestType]
  /\ \A r \in Requests : RequestOK(req[r])

\* A handler step on request r keeps the invariant when it keeps it for r.
LEMMA UpdateInv ==
  ASSUME IInv, NEW r \in Requests, NEW q, Update(r, q),
         q \in RequestType, RequestOK(q)
  PROVE  IInv'
<1>1. ConfOK'
  BY DEF IInv, ConfOK, Update, conf
<1>2. req' = [s \in Requests |-> IF s = r THEN q ELSE req[s]]
  BY DEF IInv, Update
<1>3. UNCHANGED <<mode, log_denies, log_all>>
  BY DEF Update, conf
<1>4. ASSUME NEW s \in Requests
      PROVE  RequestOK(req[s])'
  <2>1. CASE s = r
    <3>1. req'[s] = q
      BY <1>2, <2>1
    <3> QED
      BY <1>3, <3>1 DEF RequestOK, ErrorDoor, OffDoor, VerifyDoor, Logged
  <2>2. CASE s # r
    <3>1. req'[s] = req[s]
      BY <1>2, <2>2
    <3> QED
      BY <1>3, <3>1 DEF IInv, RequestOK, ErrorDoor, OffDoor, VerifyDoor, Logged
  <2> QED
    BY <2>1, <2>2
<1>5. (req \in [Requests -> RequestType])'
  BY <1>2 DEF IInv, RequestType, Contexts
<1> QED
  BY <1>1, <1>4, <1>5 DEF IInv

LEMMA InitInv == Init => IInv
<1> SUFFICES ASSUME Init PROVE IInv
  OBVIOUS
<1>1. ConfOK
  BY DEF Init, ConfOK, Modes
<1>2. \A r \in Requests : req[r] = Fresh /\ Fresh.stage = "new" /\ Fresh \in RequestType
  BY DEF Init, Fresh, RequestType
<1>3. \A r \in Requests : RequestOK(req[r])
  BY <1>2 DEF RequestOK
<1>4. req \in [Requests -> RequestType]
  BY <1>2 DEF Init
<1> QED
  BY <1>1, <1>3, <1>4 DEF IInv

\* The ways into the handler: a new request and a redirected one.
LEMMA EntryInv ==
  ASSUME IInv, NEW r \in Requests, NEW b \in Blocks, Arrive(r, b) \/ Redirect(r, b)
  PROVE  IInv'
<1>1. ASSUME NEW n \in Nat, NEW q,
             q = [Fresh EXCEPT !.stage = "access", !.block = b, !.redirects = n]
      PROVE  q \in RequestType /\ RequestOK(q)
  <2>1. q \in RequestType
    BY <1>1 DEF Fresh, RequestType
  <2>2. q.stage = "access" /\ q.block = b /\ q.outcome = None /\ q.ctx = None
    BY <1>1 DEF Fresh
  <2> QED
    BY <2>1, <2>2 DEF RequestOK
<1>2. CASE Arrive(r, b)
  <2> DEFINE q == [req[r] EXCEPT !.stage = "access", !.block = b]
  <2>1. req[r] = Fresh
    BY <1>2 DEF Arrive, At, IInv, RequestOK
  <2>2. /\ q \in RequestType
        /\ q.stage = "access" /\ q.block = b /\ q.outcome = None /\ q.ctx = None
    <3>1. Fresh \in RequestType /\ Fresh.outcome = None /\ Fresh.ctx = None
      BY DEF Fresh, RequestType
    <3> QED
      BY <2>1, <3>1 DEF RequestType
  <2>3. Update(r, q)
    BY <1>2 DEF Arrive
  <2> HIDE DEF q
  <2>4. RequestOK(q)
    BY <2>2 DEF RequestOK
  <2> QED
    BY <2>2, <2>3, <2>4, UpdateInv
<1>3. CASE Redirect(r, b)
  <2>1. req[r].redirects + 1 \in Nat
    BY DEF IInv, RequestType
  <2> QED
    BY <1>1, <1>3, <2>1, UpdateInv DEF Redirect
<1> QED
  BY <1>2, <1>3

\* Leaving the handler with an error, or because the location is off.
LEMMA AnswerInv ==
  ASSUME IInv, NEW r \in Requests, NEW status, NEW ctx, Answer(r, status, ctx),
         req[r].block \in Blocks, req[r].outcome = None,
         \/ /\ status = "INTERNAL_SERVER_ERROR"
            /\ ctx \in {None, EmptyCtx, ErrorCtx("not_configured"), ErrorCtx("internal_error")}
         \/ /\ status = "NGX_DECLINED"
            /\ ctx = [EmptyCtx EXCEPT !.result = "off"]
            /\ mode[req[r].block] = "off"
  PROVE  IInv'
<1> DEFINE q == [req[r] EXCEPT !.stage = "answered", !.status = status, !.ctx = ctx]
<1>1. ctx \in Contexts \cup {None} /\ status \in {"NGX_DECLINED", "INTERNAL_SERVER_ERROR"}
  BY DEF Contexts
<1>2. req[r] \in RequestType
  BY DEF IInv
<1>3. /\ q \in RequestType
      /\ q.stage = "answered" /\ q.status = status /\ q.ctx = ctx
      /\ q.block = req[r].block /\ q.outcome = req[r].outcome
  BY <1>1, <1>2 DEF RequestType
<1>4. Update(r, q)
  BY DEF Answer
<1> HIDE DEF q
<1>5. RequestOK(q)
  BY <1>3 DEF RequestOK, ErrorDoor, OffDoor
<1> QED
  BY <1>3, <1>4, <1>5, UpdateInv

\* The handler leaves before it calls verify, or gets as far as calling it.
LEMMA BeforeVerifyInv ==
  ASSUME IInv, NEW r \in Requests,
         Unprepared(r) \/ Decline(r) \/ NotConfigured(r) \/ CallVerify(r)
  PROVE  IInv'
<1>1. req[r] \in RequestType /\ req[r].stage = "access"
  BY DEF Unprepared, Decline, NotConfigured, CallVerify, At, IInv
<1>2. /\ req[r].block \in Blocks /\ req[r].outcome = None /\ req[r].ctx = None
      /\ mode[req[r].block] \in Modes
  BY <1>1 DEF IInv, RequestOK, ConfOK
<1>3. CASE Unprepared(r) \/ NotConfigured(r)
  BY <1>2, <1>3, AnswerInv DEF Unprepared, NotConfigured
<1>4. CASE Decline(r)
  <2>1. mode[req[r].block] = "off"
    BY <1>2, <1>4 DEF Decline, Verifies, ModeAt, Modes
  <2> QED
    BY <1>2, <1>4, <2>1, AnswerInv DEF Decline
<1>5. CASE CallVerify(r)
  <2> DEFINE q == [req[r] EXCEPT !.stage = "verify", !.ctx = EmptyCtx]
  <2>1. Update(r, q) /\ mode[req[r].block] \in {"on", "shadow"}
    BY <1>5 DEF CallVerify, Verifies, ModeAt
  <2>2. EmptyCtx \in Contexts
    BY DEF Contexts
  <2>3. /\ q \in RequestType /\ q.stage = "verify" /\ q.ctx = EmptyCtx
        /\ q.block = req[r].block /\ q.outcome = req[r].outcome
    BY <1>1, <2>2 DEF RequestType
  <2> HIDE DEF q
  <2>4. RequestOK(q)
    BY <1>2, <2>1, <2>3 DEF RequestOK
  <2> QED
    BY <2>1, <2>3, <2>4, UpdateInv
<1> QED
  BY <1>3, <1>4, <1>5

\* verify returns, or panics and is caught.
LEMMA AfterVerifyInv ==
  ASSUME IInv, NEW r \in Requests,
         (\E o \in Outcomes : VerifyReturns(r, o)) \/ Panic(r) \/ Caught(r)
  PROVE  IInv'
<1>1. req[r] \in RequestType /\ req[r].stage \in {"verify", "panicked"}
  BY DEF VerifyReturns, Panic, Caught, At, IInv
<1>2. /\ req[r].block \in Blocks /\ req[r].outcome = None /\ req[r].ctx = EmptyCtx
      /\ mode[req[r].block] \in {"on", "shadow"}
  BY <1>1 DEF IInv, RequestOK
<1>3. ASSUME NEW o \in Outcomes, VerifyReturns(r, o)
      PROVE  IInv'
  <2> DEFINE m == mode[req[r].block]
             ctx == OutcomeCtx(o, m)
             logged == Logged(o, m)
             status == StatusOf(o, m)
             q == [req[r] EXCEPT !.stage = "answered", !.outcome = o, !.ctx = ctx,
                                 !.logged = logged, !.status = status]
  <2>1. Update(r, q)
    BY <1>3 DEF VerifyReturns, ModeAt
  <2>2. ctx \in Contexts
    BY <1>2 DEF Contexts, Modes
  <2>3. logged \in BOOLEAN
    BY DEF Logged
  <2>4. status \in {"NGX_OK", "FORBIDDEN"}
    BY DEF StatusOf
  <2> HIDE DEF ctx, logged, status
  <2>5. /\ q \in RequestType /\ q.stage = "answered" /\ q.outcome = o /\ q.ctx = ctx
        /\ q.logged = logged /\ q.status = status /\ q.block = req[r].block
    BY <1>1, <2>2, <2>3, <2>4 DEF RequestType
  <2> HIDE DEF q
  <2>6. VerifyDoor(q)
    BY <1>2, <2>5 DEF VerifyDoor, ctx, logged, status
  <2>7. RequestOK(q)
    BY <1>2, <2>5, <2>6 DEF RequestOK
  <2> QED
    BY <2>1, <2>5, <2>7, UpdateInv
<1>4. CASE Panic(r)
  <2> DEFINE q == [req[r] EXCEPT !.stage = "panicked"]
  <2>1. Update(r, q)
    BY <1>4 DEF Panic
  <2>2. /\ q \in RequestType /\ q.stage = "panicked" /\ q.ctx = req[r].ctx
        /\ q.block = req[r].block /\ q.outcome = req[r].outcome
    BY <1>1 DEF RequestType
  <2> HIDE DEF q
  <2>3. RequestOK(q)
    BY <1>2, <2>2 DEF RequestOK
  <2> QED
    BY <2>1, <2>2, <2>3, UpdateInv
<1>5. CASE Caught(r)
  <2>1. PICK ctx \in {ErrorCtx("internal_error"), EmptyCtx} :
          Answer(r, "INTERNAL_SERVER_ERROR", ctx)
    BY <1>2, <1>5 DEF Caught
  <2> QED
    BY <1>2, <2>1, AnswerInv
<1> QED
  BY <1>3, <1>4, <1>5

\* An abort takes the worker's open requests with it and answers none.
LEMMA AbortInv ==
  ASSUME IInv, NEW r \in Requests, Abort(r)
  PROVE  IInv'
<1>1. UNCHANGED <<mode, verifier, log_denies, log_all, aborts>>
  BY DEF Abort, conf
<1>2. ASSUME NEW s \in Requests
      PROVE  RequestOK(req[s])'
  <2>1. CASE req[s].stage \in {"new", "answered"}
    <3>1. req'[s] = req[s]
      BY <2>1 DEF Abort
    <3> QED
      BY <1>1, <3>1 DEF IInv, RequestOK, ErrorDoor, OffDoor, VerifyDoor, Logged
  <2>2. CASE req[s].stage \notin {"new", "answered"}
    <3>1. req'[s] = [req[s] EXCEPT !.stage = "lost"] /\ req[s] \in RequestType
      BY <2>2 DEF Abort, IInv
    <3>2. req'[s].stage = "lost"
      BY <3>1 DEF RequestType
    <3> QED
      BY <3>2 DEF RequestOK
  <2> QED
    BY <2>1, <2>2
<1>3. ConfOK' /\ (req \in [Requests -> RequestType])'
  <2>1. \A q \in RequestType : [q EXCEPT !.stage = "lost"] \in RequestType
    BY DEF RequestType
  <2>2. RequestType' = RequestType
    BY DEF RequestType, Contexts
  <2> QED
    BY <1>1, <2>1, <2>2 DEF Abort, IInv, ConfOK
<1> QED
  BY <1>2, <1>3 DEF IInv

LEMMA StepInv == IInv /\ [Next]_vars => IInv'
<1> SUFFICES ASSUME IInv, [Next]_vars PROVE IInv'
  OBVIOUS
<1>1. CASE UNCHANGED vars
  BY <1>1 DEF vars, conf, IInv, ConfOK, RequestOK, ErrorDoor, OffDoor, VerifyDoor, Logged
<1>2. CASE Next
  BY <1>2, EntryInv, BeforeVerifyInv, AfterVerifyInv, AbortInv DEF Next
<1> QED
  BY <1>1, <1>2

-------------------------------------------------------------------------------
THEOREM Inductive == Spec => []IInv
BY InitInv, StepInv, PTL DEF Spec

\* No request passes a location that enforces unless verify allowed it there.
THEOREM HandlerFailsClosed == Spec => []FailClosed
<1>1. IInv => FailClosed
  <2> SUFFICES ASSUME IInv, NEW r \in Requests, Passed(r), ModeAt(r) = "on"
               PROVE  req[r].outcome # None /\ req[r].outcome.allowed
    BY DEF FailClosed
  <2> DEFINE q == req[r]
  <2>1. /\ ErrorDoor(q) \/ OffDoor(q) \/ VerifyDoor(q)
        /\ q.status \in {"NGX_OK", "NGX_DECLINED"} /\ mode[q.block] = "on"
    BY DEF IInv, RequestOK, Passed, Answered, At, ModeAt
  <2>2. VerifyDoor(q)
    BY <2>1 DEF ErrorDoor, OffDoor
  <2>3. q.outcome \in Outcomes /\ q.status = StatusOf(q.outcome, "on")
    BY <2>1, <2>2 DEF VerifyDoor
  <2>4. q.outcome.allowed
    BY <2>1, <2>3 DEF StatusOf
  <2> QED
    BY <2>3, <2>4, OutcomesAssumption
<1> QED
  BY <1>1, Inductive, PTL

LEMMA ErrorFields ==
  ASSUME NEW ctx \in {EmptyCtx, ErrorCtx("not_configured"), ErrorCtx("internal_error")}
  PROVE  ctx.result \in {"", "error"} /\ ctx.hash = None /\ ~ctx.timed
<1>1. EmptyCtx.result = "" /\ EmptyCtx.hash = None /\ ~EmptyCtx.timed
  BY DEF EmptyCtx
<1>2. ASSUME NEW reason
      PROVE  /\ ErrorCtx(reason).result = "error" /\ ErrorCtx(reason).hash = None
             /\ ~ErrorCtx(reason).timed
  BY DEF ErrorCtx, EmptyCtx
<1> QED
  BY <1>1, <1>2

\* What the variables say of a request is what was done with it.
THEOREM VariablesAreTrue == Spec => []VariablesTellTheOutcome
<1>1. IInv => VariablesTellTheOutcome
  <2> SUFFICES ASSUME IInv, NEW r \in Requests, Answered(r), req[r].ctx # None
               PROVE  LET ctx == req[r].ctx
                          status == req[r].status
                      IN /\ ctx.result = "allow"  <=> (ModeAt(r) = "on" /\ status = "NGX_OK")
                         /\ ctx.result = "deny"   <=> status = "FORBIDDEN"
                         /\ ctx.result = "shadow" <=> (ModeAt(r) = "shadow" /\ status = "NGX_OK")
                         /\ ctx.result = "off"    <=> status = "NGX_DECLINED"
                         /\ ctx.result = "error"  => status = "INTERNAL_SERVER_ERROR"
                         /\ status \notin {"NGX_OK", "FORBIDDEN"} => ctx.hash = None /\ ~ctx.timed
    BY DEF VariablesTellTheOutcome
  <2>1. req[r].stage = "answered"
    BY DEF Answered, At
  <2>2. CASE ErrorDoor(req[r])
    <3>1. req[r].ctx \in {EmptyCtx, ErrorCtx("not_configured"), ErrorCtx("internal_error")}
      BY <2>2 DEF ErrorDoor
    <3>2. /\ req[r].ctx.result \in {"", "error"}
          /\ req[r].ctx.hash = None /\ ~req[r].ctx.timed
      BY <3>1, ErrorFields
    <3> QED
      BY <2>2, <3>2 DEF ErrorDoor
  <2>3. CASE OffDoor(req[r])
    BY <2>3 DEF OffDoor, EmptyCtx, ModeAt
  <2>4. CASE VerifyDoor(req[r])
    BY <2>4, OutcomesAssumption DEF VerifyDoor, OutcomeCtx, ResultOf, StatusOf, ModeAt
  <2> QED
    BY <2>1, <2>2, <2>3, <2>4 DEF IInv, RequestOK
<1> QED
  BY <1>1, Inductive, PTL

\* A denial is logged in every mode unless log_denies is off.
THEOREM DenialsLeaveALine == Spec => []DenialsAreLogged
<1>1. IInv => DenialsAreLogged
  <2> SUFFICES ASSUME IInv, NEW r \in Requests, Answered(r), req[r].outcome # None,
                      ~req[r].outcome.allowed, log_denies
               PROVE  req[r].logged
    BY DEF DenialsAreLogged
  <2>1. VerifyDoor(req[r])
    BY DEF IInv, RequestOK, Answered, At, ErrorDoor, OffDoor
  <2>2. req[r].logged = Logged(req[r].outcome, mode[req[r].block])
    BY <2>1 DEF VerifyDoor
  <2>3. Logged(req[r].outcome, mode[req[r].block])
    BY DEF Logged
  <2> QED
    BY <2>2, <2>3, Zenon
<1> QED
  BY <1>1, Inductive, PTL
-------------------------------------------------------------------------------
\* A value of v that verify gave cause for, with the verdicts S.
EarnedBy(S, v, value) ==
  /\ v = "result" /\ value = "allow" => \E o \in S : o.allowed
  /\ v = "result" /\ value = "deny" => \E o \in S : ~o.allowed
  /\ v = "access_key_hash" /\ value # NotFound => \E o \in S : o.hash = value
  /\ v = "latency_us" /\ value # NotFound => S # {}

\* What may be known of an answer a that was given for v of request r.
AnswerOK(r, v, a) ==
  /\ EarnedBy(verdicts[r], v, a.value)
  /\ a.answered => a.redirects \in Nat /\ a.redirects <= req[r].redirects
  /\ a.answered /\ a.redirects = req[r].redirects => At(r, "answered") /\ a.value \in Answers(r, v)

VerdictsInv ==
  /\ verdicts = [r \in Requests |-> verdicts[r]]
  /\ \A r \in Requests : req[r].outcome # None => req[r].outcome \in verdicts[r]

KeptInv ==
  /\ kept = [r \in Requests |-> [v \in VariableNames |-> kept[r][v]]]
  /\ \A r \in Requests, v \in VariableNames : kept[r][v] # Unread => AnswerOK(r, v, kept[r][v])

LineInv ==
  /\ line = [r \in Requests |-> line[r]]
  /\ \A r \in Requests : line[r] # None => \A v \in VariableNames : AnswerOK(r, v, line[r][v])

VarInv == IInv /\ VerdictsInv /\ KeptInv /\ LineInv
-------------------------------------------------------------------------------
\* The names of the variables, one by one.
LEMMA EachName ==
  ASSUME NEW v \in VariableNames
  PROVE  v \in {"result", "reason", "access_key_hash", "latency_us"}
BY DEF VariableNames

\* What a getter gives for a context.
LEMMA Getters ==
  ASSUME NEW ctx, ctx # None
  PROVE  /\ Getter(ctx, "result") = IF ctx.result # "" THEN ctx.result ELSE NotFound
         /\ Getter(ctx, "reason") = IF ctx.reason # "" THEN ctx.reason ELSE NotFound
         /\ Getter(ctx, "access_key_hash") = IF ctx.hash # None THEN ctx.hash ELSE NotFound
         /\ Getter(ctx, "latency_us") = IF ctx.timed THEN "measured" ELSE NotFound
BY DEF Getter

LEMMA NoGetters == \A v \in VariableNames : Getter(None, v) = NotFound
BY DEF Getter

\* The doors of the handler, as the variables show them.
LEMMA ShownAtTheDoors ==
  ASSUME IInv, NEW r \in Requests, At(r, "answered")
  PROVE  LET ctx == req[r].ctx
             o == req[r].outcome
             shown(v) == Getter(ctx, v)
         IN \/ /\ o \in Outcomes /\ ModeAt(r) \in {"on", "shadow"}
               /\ shown("result") = ResultOf(o, ModeAt(r))
               /\ shown("reason") = o.reason
               /\ shown("access_key_hash") = (IF o.hash = None THEN NotFound ELSE o.hash)
            \/ /\ o = None
               /\ shown("result") \in {"off", "error", NotFound}
               /\ shown("result") = "off" <=> req[r].status = "NGX_DECLINED"
               /\ shown("access_key_hash") = NotFound /\ shown("latency_us") = NotFound
<1> DEFINE q == req[r]
<1>1. ErrorDoor(q) \/ OffDoor(q) \/ VerifyDoor(q)
  BY DEF IInv, RequestOK, At
<1>2. CASE ErrorDoor(q)
  <2>1. q.status = "INTERNAL_SERVER_ERROR" /\ q.outcome = None
    BY <1>2 DEF ErrorDoor
  <2>2. CASE q.ctx = None
    BY <2>1, <2>2, NoGetters DEF VariableNames, NotFound
  <2>3. CASE q.ctx # None
    <3>1. q.ctx.result \in {"", "error"} /\ q.ctx.hash = None /\ q.ctx.timed = FALSE
      <4> DEFINE Plain(ctx) ==
            ctx.result \in {"", "error"} /\ ctx.hash = None /\ ctx.timed = FALSE
      <4>1. Plain(EmptyCtx) /\ \A reason : Plain(ErrorCtx(reason))
        BY DEF EmptyCtx, ErrorCtx
      <4> HIDE DEF Plain
      <4>2. Plain(q.ctx)
        BY <1>2, <2>3, <4>1 DEF ErrorDoor
      <4> QED
        BY <4>2 DEF Plain
    <3> HIDE DEF q
    <3>2. /\ Getter(q.ctx, "result") \in {"error", NotFound}
          /\ Getter(q.ctx, "access_key_hash") = NotFound /\ Getter(q.ctx, "latency_us") = NotFound
      BY <2>3, <3>1, Getters
    <3> QED
      BY <2>1, <3>2 DEF NotFound, q
  <2> QED
    BY <2>2, <2>3
<1>3. CASE OffDoor(q)
  <2>1. q.ctx # None /\ q.ctx.result = "off" /\ q.ctx.hash = None /\ q.ctx.timed = FALSE
    BY <1>3, ContextsAssumption DEF OffDoor, EmptyCtx
  <2>2. q.status = "NGX_DECLINED" /\ q.outcome = None
    BY <1>3 DEF OffDoor
  <2> HIDE DEF q
  <2>3. /\ Getter(q.ctx, "result") = "off"
        /\ Getter(q.ctx, "access_key_hash") = NotFound /\ Getter(q.ctx, "latency_us") = NotFound
    BY <2>1, Getters
  <2> QED
    BY <2>2, <2>3 DEF q
<1>4. CASE VerifyDoor(q)
  <2> DEFINE o == q.outcome
             m == ModeAt(r)
  <2>1. o \in Outcomes /\ m \in {"on", "shadow"} /\ q.ctx = OutcomeCtx(o, m)
    BY <1>4 DEF VerifyDoor, ModeAt
  <2> HIDE DEF q, o, m
  <2>2. q.ctx # None /\ o.reason # ""
    BY <2>1, ContextsAssumption, ReasonsAssumption
  <2>3. q.ctx.result = ResultOf(o, m) /\ q.ctx.reason = o.reason /\ q.ctx.hash = o.hash
    BY <2>1 DEF OutcomeCtx
  <2>4. ResultOf(o, m) # ""
    BY DEF ResultOf
  <2>5. /\ Getter(q.ctx, "result") = ResultOf(o, m)
        /\ Getter(q.ctx, "reason") = o.reason
        /\ Getter(q.ctx, "access_key_hash") = (IF o.hash = None THEN NotFound ELSE o.hash)
    BY <2>2, <2>3, <2>4, Getters
  <2> QED
    BY <2>1, <2>5 DEF q, o, m
<1> QED
  BY <1>1, <1>2, <1>3, <1>4

\* An answer given now is one that verify has earned.
LEMMA AnswersAreEarned ==
  ASSUME IInv, VerdictsInv, NEW r \in Requests, At(r, "access") \/ At(r, "answered"),
         NEW v \in VariableNames, NEW value \in Answers(r, v)
  PROVE  EarnedBy(verdicts[r], v, value)
<1>1. CASE value = NotFound
  BY <1>1 DEF EarnedBy, NotFound
<1>2. CASE value # NotFound
  <2>1. value = Getter(req[r].ctx, v)
    BY <1>2 DEF Answers
  <2>2. At(r, "answered")
    <3>1. At(r, "access") => req[r].ctx = None
      BY DEF IInv, RequestOK, At
    <3> QED
      BY <1>2, <2>1, <3>1, NoGetters
  <2>3. CASE req[r].outcome \in Outcomes
    <3>1. req[r].outcome \in verdicts[r]
      BY <2>3, OutcomesAssumption DEF VerdictsInv
    <3> DEFINE o == req[r].outcome
    <3>2. /\ v = "result" => value = ResultOf(o, ModeAt(r))
          /\ v = "access_key_hash" => value = o.hash
      BY <1>2, <2>1, <2>2, <2>3, ShownAtTheDoors, OutcomesAssumption
    <3> HIDE DEF o
    <3>3. /\ ResultOf(o, ModeAt(r)) = "allow" => o.allowed
          /\ ResultOf(o, ModeAt(r)) = "deny" => ~o.allowed
      BY DEF ResultOf
    <3>4. o \in verdicts[r]
      BY <3>1 DEF o
    <3> QED
      BY <3>2, <3>3, <3>4 DEF EarnedBy
  <2>4. CASE req[r].outcome \notin Outcomes
    <3>1. /\ v = "result" => value \in {"off", "error"}
          /\ v \notin {"access_key_hash", "latency_us"}
      BY <1>2, <2>1, <2>2, <2>4, ShownAtTheDoors
    <3> QED
      BY <3>1 DEF EarnedBy
  <2> QED
    BY <2>3, <2>4
<1> QED
  BY <1>1, <1>2
-------------------------------------------------------------------------------
\* A step of the handler leaves a request alone, or goes on with one that is
\* not answered, or redirects one that is.
Moves(q, next) ==
  \/ next = q
  \/ q.stage # "answered" /\ next.redirects = q.redirects
  \/ q.stage = "answered" /\ next.redirects = q.redirects + 1

\* One request is brought to the record q and the others stay.
LEMMA UpdateMoves ==
  ASSUME IInv, NEW r \in Requests, NEW q, Update(r, q), Moves(req[r], q)
  PROVE  \A s \in Requests : Moves(req[s], req'[s])
<1>1. \A s \in Requests : req'[s] = IF s = r THEN q ELSE req[s]
  BY DEF IInv, Update
<1> QED
  BY <1>1 DEF Moves

LEMMA NextMoves ==
  ASSUME IInv, Next
  PROVE  \A s \in Requests : Moves(req[s], req'[s])
<1> USE DEF At
<1>0. \A r \in Requests : req[r] \in RequestType
  BY DEF IInv
<1>1. ASSUME NEW r \in Requests, NEW b \in Blocks, Arrive(r, b)
      PROVE  \A s \in Requests : Moves(req[s], req'[s])
  <2> DEFINE q == [req[r] EXCEPT !.stage = "access", !.block = b]
  <2>1. Update(r, q) /\ req[r].stage = "new"
    BY <1>1 DEF Arrive
  <2>2. q.redirects = req[r].redirects
    BY <1>0 DEF RequestType
  <2> HIDE DEF q
  <2> QED
    BY <2>1, <2>2, UpdateMoves DEF Moves
<1>2. ASSUME NEW r \in Requests, NEW b \in Blocks, Redirect(r, b)
      PROVE  \A s \in Requests : Moves(req[s], req'[s])
  <2> DEFINE q == [Fresh EXCEPT !.stage = "access", !.block = b,
                                !.redirects = req[r].redirects + 1]
  <2>1. Update(r, q) /\ req[r].stage = "answered"
    BY <1>2 DEF Redirect
  <2>2. q.redirects = req[r].redirects + 1
    BY DEF Fresh
  <2> HIDE DEF q
  <2> QED
    BY <2>1, <2>2, UpdateMoves DEF Moves
<1>3. ASSUME NEW r \in Requests, Unprepared(r) \/ Decline(r) \/ NotConfigured(r) \/ Caught(r)
      PROVE  \A s \in Requests : Moves(req[s], req'[s])
  <2>1. PICK status, ctx :
          Update(r, [req[r] EXCEPT !.stage = "answered", !.status = status, !.ctx = ctx])
    BY <1>3 DEF Unprepared, Decline, NotConfigured, Caught, Answer
  <2>2. req[r].stage # "answered"
    BY <1>3 DEF Unprepared, Decline, NotConfigured, Caught
  <2> DEFINE q == [req[r] EXCEPT !.stage = "answered", !.status = status, !.ctx = ctx]
  <2>3. q.redirects = req[r].redirects
    BY <1>0 DEF RequestType
  <2>4. Update(r, q)
    BY <2>1
  <2> HIDE DEF q
  <2> QED
    BY <2>2, <2>3, <2>4, UpdateMoves DEF Moves
<1>4. ASSUME NEW r \in Requests, CallVerify(r)
      PROVE  \A s \in Requests : Moves(req[s], req'[s])
  <2> DEFINE q == [req[r] EXCEPT !.stage = "verify", !.ctx = EmptyCtx]
  <2>1. Update(r, q) /\ req[r].stage = "access"
    BY <1>4 DEF CallVerify
  <2>2. q.redirects = req[r].redirects
    BY <1>0 DEF RequestType
  <2> HIDE DEF q
  <2> QED
    BY <2>1, <2>2, UpdateMoves DEF Moves
<1>5. ASSUME NEW r \in Requests, Panic(r)
      PROVE  \A s \in Requests : Moves(req[s], req'[s])
  <2> DEFINE q == [req[r] EXCEPT !.stage = "panicked"]
  <2>1. Update(r, q) /\ req[r].stage = "verify"
    BY <1>5 DEF Panic
  <2>2. q.redirects = req[r].redirects
    BY <1>0 DEF RequestType
  <2> HIDE DEF q
  <2> QED
    BY <2>1, <2>2, UpdateMoves DEF Moves
<1>6. ASSUME NEW r \in Requests, NEW o \in Outcomes, VerifyReturns(r, o)
      PROVE  \A s \in Requests : Moves(req[s], req'[s])
  <2> DEFINE q == [req[r] EXCEPT !.stage   = "answered",
                                 !.outcome = o,
                                 !.ctx     = OutcomeCtx(o, ModeAt(r)),
                                 !.logged  = Logged(o, ModeAt(r)),
                                 !.status  = StatusOf(o, ModeAt(r))]
  <2>1. Update(r, q) /\ req[r].stage = "verify"
    BY <1>6 DEF VerifyReturns
  <2>2. q.redirects = req[r].redirects
    BY <1>0 DEF RequestType
  <2> HIDE DEF q
  <2> QED
    BY <2>1, <2>2, UpdateMoves DEF Moves
<1>7. ASSUME NEW r \in Requests, Abort(r)
      PROVE  \A s \in Requests : Moves(req[s], req'[s])
  <2> SUFFICES ASSUME NEW s \in Requests PROVE Moves(req[s], req'[s])
    OBVIOUS
  <2>1. req'[s] = IF req[s].stage \in {"new", "answered"} THEN req[s]
                  ELSE [req[s] EXCEPT !.stage = "lost"]
    BY <1>7 DEF Abort
  <2>2. [req[s] EXCEPT !.stage = "lost"].redirects = req[s].redirects
    BY <1>0 DEF RequestType
  <2> QED
    BY <2>1, <2>2 DEF Moves
<1> QED
  BY <1>1, <1>2, <1>3, <1>4, <1>5, <1>6, <1>7 DEF Next

\* What was known of an answer is known after any step.
LEMMA AnswerStays ==
  ASSUME IInv, NEW r \in Requests, NEW v, NEW a, AnswerOK(r, v, a),
         Moves(req[r], req'[r]), verdicts[r] \subseteq verdicts'[r]
  PROVE  AnswerOK(r, v, a)'
<1>1. req[r].redirects \in Nat
  BY DEF IInv, RequestType
<1>2. EarnedBy(verdicts'[r], v, a.value)
  BY DEF AnswerOK, EarnedBy
<1>3. a.answered => a.redirects \in Nat /\ a.redirects <= req'[r].redirects
  BY <1>1 DEF AnswerOK, Moves
<1>4. ASSUME a.answered, a.redirects = req'[r].redirects
      PROVE  req'[r] = req[r] /\ At(r, "answered") /\ a.value \in Answers(r, v)
  BY <1>1, <1>4 DEF AnswerOK, Moves, At
<1> QED
  BY <1>2, <1>3, <1>4 DEF AnswerOK, At, Answers

\* An answer given now, to be kept or logged.
LEMMA AnswerGiven ==
  ASSUME IInv, VerdictsInv, NEW r \in Requests, At(r, "access") \/ At(r, "answered"),
         NEW v \in VariableNames, NEW value \in Answers(r, v),
         kept[r][v] # Unread => AnswerOK(r, v, kept[r][v])
  PROVE  AnswerOK(r, v, Asked(r, v, value))
<1>1. CASE kept[r][v] # Unread
  BY <1>1 DEF Asked
<1>2. CASE kept[r][v] = Unread
  <2> DEFINE a == [value |-> value, redirects |-> req[r].redirects, answered |-> At(r, "answered")]
  <2>1. Asked(r, v, value) = a
    BY <1>2 DEF Asked
  <2>2. a.value = value /\ a.redirects = req[r].redirects /\ (a.answered <=> At(r, "answered"))
    OBVIOUS
  <2> HIDE DEF a
  <2>3. EarnedBy(verdicts[r], v, value)
    BY AnswersAreEarned
  <2>4. req[r].redirects \in Nat
    BY DEF IInv, RequestType
  <2>5. AnswerOK(r, v, a)
    BY <2>2, <2>3, <2>4 DEF AnswerOK
  <2> QED
    BY <2>1, <2>5
<1> QED
  BY <1>1, <1>2
-------------------------------------------------------------------------------
LEMMA VarInitInv == VarInit => VarInv
<1> SUFFICES ASSUME VarInit PROVE VarInv
  OBVIOUS
<1>1. IInv
  BY InitInv DEF VarInit
<1>2. VerdictsInv
  BY DEF VarInit, Init, Fresh, VerdictsInv
<1>3. KeptInv /\ LineInv
  BY DEF VarInit, KeptInv, LineInv
<1> QED
  BY <1>1, <1>2, <1>3 DEF VarInv

LEMMA HandleInv ==
  ASSUME VarInv, Handle
  PROVE  VarInv'
<1>1. /\ Next /\ UNCHANGED <<kept, line>>
      /\ verdicts' = [r \in Requests |->
           verdicts[r] \cup IF req'[r].outcome # None THEN {req'[r].outcome} ELSE {}]
  BY DEF Handle
<1>2. IInv'
  BY <1>1, StepInv DEF VarInv
<1>3. VerdictsInv'
  BY <1>1 DEF VerdictsInv
<1>4. ASSUME NEW r \in Requests, NEW v, NEW a, AnswerOK(r, v, a)
      PROVE  AnswerOK(r, v, a)'
  BY <1>1, <1>4, NextMoves, AnswerStays DEF VarInv
<1>5. KeptInv'
  BY <1>1, <1>4 DEF VarInv, KeptInv
<1>6. LineInv'
  BY <1>1, <1>4 DEF VarInv, LineInv
<1> QED
  BY <1>2, <1>3, <1>5, <1>6 DEF VarInv

\* Reading a variable and writing the log leave the handler's side alone.
LEMMA HandlerStays ==
  ASSUME VarInv, UNCHANGED <<vars, verdicts>>
  PROVE  /\ IInv' /\ VerdictsInv'
         /\ \A r \in Requests : \A v, a : AnswerOK(r, v, a) => AnswerOK(r, v, a)'
<1>1. IInv'
  BY StepInv DEF VarInv
<1>2. VerdictsInv'
  BY DEF VarInv, VerdictsInv, vars
<1>3. ASSUME NEW r \in Requests, NEW v, NEW a, AnswerOK(r, v, a)
      PROVE  AnswerOK(r, v, a)'
  BY <1>3, AnswerStays DEF VarInv, Moves, vars
<1> QED
  BY <1>1, <1>2, <1>3

LEMMA ReadInv ==
  ASSUME VarInv, NEW r \in Requests, NEW v \in VariableNames, Read(r, v)
  PROVE  VarInv'
<1>1. /\ UNCHANGED <<vars, line, verdicts>>
      /\ At(r, "access") \/ At(r, "answered")
  BY DEF Read
<1>2. PICK value \in Answers(r, v) : kept' = [kept EXCEPT ![r][v] = Asked(r, v, value)]
  BY DEF Read
<1>3. AnswerOK(r, v, Asked(r, v, value))
  BY <1>1, AnswerGiven DEF VarInv, KeptInv
<1>4. \A s \in Requests, u \in VariableNames :
        kept'[s][u] = IF s = r /\ u = v THEN Asked(r, v, value) ELSE kept[s][u]
  BY <1>2 DEF VarInv, KeptInv
<1>5. kept' = [s \in Requests |-> [u \in VariableNames |-> kept'[s][u]]]
  BY <1>2 DEF VarInv, KeptInv
<1>6. KeptInv'
  <2>1. ASSUME NEW s \in Requests, NEW u \in VariableNames, NEW given,
               given = kept'[s][u], kept'[s][u] # Unread
        PROVE  AnswerOK(s, u, given)'
    <3>1. AnswerOK(s, u, given)
      BY <1>3, <1>4, <2>1 DEF VarInv, KeptInv
    <3> QED
      BY <1>1, <3>1, HandlerStays
  <2> QED
    BY <1>5, <2>1 DEF KeptInv, AnswerOK
<1>7. LineInv'
  BY <1>1, HandlerStays DEF VarInv, LineInv
<1> QED
  BY <1>1, <1>6, <1>7, HandlerStays DEF VarInv

LEMMA LogInv ==
  ASSUME VarInv, NEW r \in Requests, Log(r)
  PROVE  VarInv'
<1>1. UNCHANGED <<vars, kept, verdicts>> /\ At(r, "answered")
  BY DEF Log
<1>2. PICK latency \in Answers(r, "latency_us") :
        line' = [line EXCEPT ![r] = [v \in VariableNames |->
          Asked(r, v, IF v = "latency_us" THEN latency ELSE Getter(req[r].ctx, v))]]
  BY DEF Log
<1> DEFINE a == [v \in VariableNames |->
          Asked(r, v, IF v = "latency_us" THEN latency ELSE Getter(req[r].ctx, v))]
<1>3. ASSUME NEW v \in VariableNames
      PROVE  AnswerOK(r, v, a[v])
  <2> DEFINE value == IF v = "latency_us" THEN latency ELSE Getter(req[r].ctx, v)
  <2>1. value \in Answers(r, v)
    BY DEF Answers
  <2> HIDE DEF value
  <2>2. AnswerOK(r, v, Asked(r, v, value))
    BY <1>1, <2>1, AnswerGiven DEF VarInv, KeptInv
  <2> QED
    BY <2>2 DEF value
<1> HIDE DEF a
<1>4. line' = [s \in Requests |-> line'[s]] /\ \A s \in Requests : line'[s] = IF s = r THEN a ELSE line[s]
  BY <1>2 DEF VarInv, LineInv, a
<1>5. LineInv'
  <2>1. ASSUME NEW s \in Requests, NEW u \in VariableNames, NEW given,
               given = line'[s][u], line'[s] # None
        PROVE  AnswerOK(s, u, given)'
    <3>1. AnswerOK(s, u, given)
      BY <1>3, <1>4, <2>1 DEF VarInv, LineInv
    <3> QED
      BY <1>1, <3>1, HandlerStays
  <2> QED
    BY <1>4, <2>1 DEF LineInv, AnswerOK
<1>6. KeptInv'
  BY <1>1, HandlerStays DEF VarInv, KeptInv
<1> QED
  BY <1>1, <1>5, <1>6, HandlerStays DEF VarInv

LEMMA VarStepInv == VarInv /\ [VarNext]_allVars => VarInv'
<1> SUFFICES ASSUME VarInv, [VarNext]_allVars PROVE VarInv'
  OBVIOUS
<1>1. CASE Handle
  BY <1>1, HandleInv
<1>2. ASSUME NEW r \in Watched, Log(r)
      PROVE  VarInv'
  BY <1>2, LogInv, WatchedAssumption
<1>3. ASSUME NEW r \in Watched, NEW v \in VariableNames, Read(r, v)
      PROVE  VarInv'
  BY <1>3, ReadInv, WatchedAssumption
<1>4. CASE UNCHANGED allVars
  BY <1>4, HandlerStays DEF allVars, nginxVars, VarInv, KeptInv, LineInv
<1> QED
  BY <1>1, <1>2, <1>3, <1>4 DEF VarNext
-------------------------------------------------------------------------------
\* Whatever is read, and whenever, the invariant stays.
THEOREM VariablesInductive == VarSpec => []VarInv
<1> QED
  BY VarInitInv, VarStepInv, PTL DEF VarSpec

\* nginx's reads and its log take nothing from the handler and add nothing to
\* it: what is shown above of a handler holds of one that is watched.
THEOREM WatchingIsHarmless == VarSpec => Spec
<1>1. VarInit => Init
  BY DEF VarInit
<1>2. [VarNext]_allVars => [Next]_vars
  BY DEF VarNext, allVars, Handle, Log, Read
<1> QED
  BY <1>1, <1>2, PTL DEF VarSpec, Spec

\* A line of the access log, read in time, tells the answer that was given and
\* the verdict behind it.
THEOREM LogTellsTheAnswer == VarSpec => []LogLineTellsTheAnswer
<1>1. VarInv => LogLineTellsTheAnswer
  <2> SUFFICES ASSUME VarInv, NEW r \in Requests, line[r] # None, ReadInTime(r)
               PROVE  LET shown == [v \in VariableNames |-> line[r][v].value]
                          o == req[r].outcome
                      IN IF o # None
                         THEN /\ shown.result = ResultOf(o, ModeAt(r))
                              /\ shown.reason = o.reason
                              /\ shown.access_key_hash = (IF o.hash = None THEN NotFound ELSE o.hash)
                         ELSE /\ shown.result \in {"off", "error", NotFound}
                              /\ shown.result = "off" <=> req[r].status = "NGX_DECLINED"
                              /\ shown.latency_us = NotFound /\ shown.access_key_hash = NotFound
    BY DEF LogLineTellsTheAnswer
  <2>1. \A v \in VariableNames : At(r, "answered") /\ line[r][v].value \in Answers(r, v)
    BY DEF VarInv, LineInv, AnswerOK, ReadInTime
  <2>2. At(r, "answered")
    BY <2>1 DEF VariableNames
  <2> DEFINE shown == [v \in VariableNames |-> line[r][v].value]
  <2>3. /\ shown.result = Getter(req[r].ctx, "result")
        /\ shown.reason = Getter(req[r].ctx, "reason")
        /\ shown.access_key_hash = Getter(req[r].ctx, "access_key_hash")
        /\ shown.latency_us \in {Getter(req[r].ctx, "latency_us"), NotFound}
    BY <2>1 DEF VariableNames, Answers
  <2> HIDE DEF shown
  <2>4. CASE req[r].outcome # None
    BY <2>2, <2>3, <2>4, ShownAtTheDoors DEF VarInv, shown
  <2>5. CASE req[r].outcome = None
    BY <2>2, <2>3, <2>5, ShownAtTheDoors, OutcomesAssumption DEF VarInv, shown
  <2> QED
    BY <2>4, <2>5 DEF shown
<1> QED
  BY <1>1, VariablesInductive, PTL

\* Read early or late, the log credits verify with no verdict it did not give.
THEOREM NothingIsCredited == VarSpec => []LogCreditsNothing
<1>1. VarInv => LogCreditsNothing
  <2> SUFFICES ASSUME VarInv, NEW r \in Requests, line[r] # None
               PROVE  LET value(v) == line[r][v].value IN
                      /\ value("result") = "allow" => \E o \in verdicts[r] : o.allowed
                      /\ value("result") = "deny" => \E o \in verdicts[r] : ~o.allowed
                      /\ value("access_key_hash") # NotFound =>
                           \E o \in verdicts[r] : o.hash = value("access_key_hash")
                      /\ value("latency_us") # NotFound => verdicts[r] # {}
    BY DEF LogCreditsNothing
  <2>1. \A v \in VariableNames : EarnedBy(verdicts[r], v, line[r][v].value)
    BY DEF VarInv, LineInv, AnswerOK
  <2> QED
    BY <2>1 DEF EarnedBy, VariableNames
<1> QED
  BY <1>1, VariablesInductive, PTL
===============================================================================
