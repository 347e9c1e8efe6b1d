------------------------------- MODULE Variables -------------------------------
(***************************************************************************)
(* The four variables of the nginx module and the access log that shows    *)
(* them: their registration, bind_variable and the getters                 *)
(* (rust/nginx-module/src/lib.rs), on top of AccessHandler.                *)
(*                                                                         *)
(* The variables are registered without the flag that forbids caching, so  *)
(* nginx asks a getter once per request and keeps the answer, found or     *)
(* not.  It may ask before the access phase, in a rewrite rule, and it     *)
(* keeps the answer over an internal redirect, where the context goes.     *)
(***************************************************************************)
EXTENDS AccessHandler

CONSTANTS
  Watched,   \* the requests whose location has an access log
  MaxReads   \* bound: variables of a request read before it is logged

ASSUME WatchedAssumption == Watched \subseteq Requests

\* verify always gives a reason.
ASSUME ReasonsAssumption == \A o \in Outcomes : o.reason # ""

\* A context is not the absence of one.
ASSUME ContextsAssumption ==
  /\ \A o \in Outcomes, m \in {"on", "shadow"} : OutcomeCtx(o, m) # None
  /\ [EmptyCtx EXCEPT !.result = "off"] # None

VARIABLES
  kept,      \* kept[r][v]: what nginx keeps of variable v
  line,      \* line[r]: the access log's line for r
  verdicts   \* history: what verify said of r, in any location

nginxVars == <<kept, line, verdicts>>
allVars == <<vars, nginxVars>>

VariableNames == {"result", "reason", "access_key_hash", "latency_us"}

NotFound == "-"

Unread == [value |-> "?", redirects |-> 0, answered |-> FALSE]

\* Mutant: a latency that was not measured is bound as zero.
GetterZeroLatency(ctx, v) ==
  IF v = "latency_us" THEN "measured"
  ELSE IF ctx = None THEN NotFound
  ELSE CASE v = "result" /\ ctx.result # ""        -> ctx.result
         [] v = "reason" /\ ctx.reason # ""        -> ctx.reason
         [] v = "access_key_hash" /\ ctx.hash # None -> ctx.hash
         [] OTHER                                  -> NotFound

\* What the getter of v leaves behind, given the context.  The number of
\* microseconds is left out.
Getter(ctx, v) ==
  IF ctx = None THEN NotFound
  ELSE CASE v = "result" /\ ctx.result # ""          -> ctx.result
         [] v = "reason" /\ ctx.reason # ""          -> ctx.reason
         [] v = "access_key_hash" /\ ctx.hash # None -> ctx.hash
         [] v = "latency_us" /\ ctx.timed            -> "measured"
         [] OTHER                                    -> NotFound

\* variable_latency_us needs memory for its digits; nginx takes an error for
\* a variable that is not found.
Answers(r, v) ==
  {Getter(req[r].ctx, v)} \cup (IF v = "latency_us" THEN {NotFound} ELSE {})

\* A variable once read is answered from what is kept.
Asked(r, v, value) ==
  IF kept[r][v] # Unread THEN kept[r][v]
  ELSE [value |-> value, redirects |-> req[r].redirects, answered |-> At(r, "answered")]

VarInit ==
  /\ Init
  /\ kept = [r \in Requests |-> [v \in VariableNames |-> Unread]]
  /\ line = [r \in Requests |-> None]
  /\ verdicts = [r \in Requests |-> {}]

ReadSoFar(r) == {v \in VariableNames : kept[r][v] # Unread}

\* A rewrite rule or a map before the handler runs, or a header after it.
Read(r, v) ==
  /\ At(r, "access") \/ At(r, "answered")
  /\ line[r] = None
  /\ kept[r][v] = Unread
  /\ Cardinality(ReadSoFar(r)) < MaxReads
  /\ \E value \in Answers(r, v) : kept' = [kept EXCEPT ![r][v] = Asked(r, v, value)]
  /\ UNCHANGED <<vars, line, verdicts>>

\* The log phase ends the request; it reads whatever was not read before.
Log(r) ==
  /\ At(r, "answered")
  /\ line[r] = None
  /\ \E latency \in Answers(r, "latency_us") :
       LET value(v) == IF v = "latency_us" THEN latency ELSE Getter(req[r].ctx, v) IN
       line' = [line EXCEPT ![r] = [v \in VariableNames |-> Asked(r, v, value(v))]]
  /\ UNCHANGED <<vars, kept, verdicts>>

\* The handler, for requests that are not over.
Handle ==
  /\ Next
  /\ \A r \in Requests : line[r] # None => req'[r] = req[r]
  /\ verdicts' = [r \in Requests |->
       verdicts[r] \cup IF req'[r].outcome # None THEN {req'[r].outcome} ELSE {}]
  /\ UNCHANGED <<kept, line>>

VarNext ==
  \/ Handle
  \/ \E r \in Watched : Log(r) \/ \E v \in VariableNames : Read(r, v)

VarSpec == VarInit /\ [][VarNext]_allVars
-------------------------------------------------------------------------------
\* No variable in r's line was read before the handler's last run was over.
ReadInTime(r) ==
  \A v \in VariableNames :
    line[r][v].answered /\ line[r][v].redirects = req[r].redirects

\* A line of the access log whose variables were read after the answer tells
\* that answer and no part of another: the reason and key that verify gave,
\* with a latency only if verify ran, and nothing but errors where it did not.
LogLineTellsTheAnswer ==
  \A r \in Requests : line[r] # None /\ ReadInTime(r) =>
    LET shown == [v \in VariableNames |-> line[r][v].value]
        o == req[r].outcome
    IN IF o # None
       THEN /\ shown.result = ResultOf(o, ModeAt(r))
            /\ shown.reason = o.reason
            /\ shown.access_key_hash = (IF o.hash = None THEN NotFound ELSE o.hash)
       ELSE /\ shown.result \in {"off", "error", NotFound}
            /\ shown.result = "off" <=> req[r].status = "NGX_DECLINED"
            /\ shown.latency_us = NotFound /\ shown.access_key_hash = NotFound

\* Whatever was read too early, kept over redirects or left by a panic, the
\* log never credits verify with a verdict it did not give: allow is an
\* outcome that allowed, deny one that did not, and a hash is one of theirs.
LogCreditsNothing ==
  \A r \in Requests : line[r] # None =>
    LET value(v) == line[r][v].value IN
    /\ value("result") = "allow" => \E o \in verdicts[r] : o.allowed
    /\ value("result") = "deny" => \E o \in verdicts[r] : ~o.allowed
    /\ value("access_key_hash") # NotFound =>
         \E o \in verdicts[r] : o.hash = value("access_key_hash")
    /\ value("latency_us") # NotFound => verdicts[r] # {}
===============================================================================
