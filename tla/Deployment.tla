------------------------------ MODULE Deployment -------------------------------
(***************************************************************************)
(* The module in a running nginx.  The master loads a configuration        *)
(* (ModuleConf) and installs it if the load succeeds; it starts workers    *)
(* under the new one and tells the old ones to finish what they have.      *)
(* Each worker answers requests (AccessHandler) under the configuration it *)
(* was started with.  In a build that aborts, a panic ends a worker and    *)
(* the master starts another under the configuration then in force.        *)
(*                                                                         *)
(* verify is reduced to what it makes of the compiled credentials for a    *)
(* request that is well formed, in time and within the policy.             *)
(***************************************************************************)
EXTENDS ModuleConf

CONSTANTS
  Requests,
  SignedWith,       \* SignedWith[r]: the access key and secret r is signed with
  Workers,          \* process slots of the master
  WorkerProcesses,  \* workers started for a configuration
  MaxCycles,        \* bound: configurations installed
  MaxRedirects,
  Redirected        \* bound: the requests nginx redirects

ASSUME WorkersAssumption == None \notin Workers

ASSUME RedirectedAssumption == Redirected \subseteq Requests

VARIABLES
  loading,   \* a load is under way
  cycles,    \* the configurations installed, the one in force last
  worker,    \* worker[w]: its configuration, and whether it takes requests
  at,        \* at[r]: the worker that has r
  arrived,   \* history: the configuration r arrived under
  aborts,    \* the build's panic strategy
  req        \* the handler's side of each request

serving == <<at, arrived, req>>
allVars == <<vars, loading, cycles, worker, serving, aborts>>

NoWorker == [stage |-> "none", cycle |-> 0]

Free == {w \in Workers : worker[w].stage = "none"}

Reasons == {"ok", "unknown_access_key", "unauthorized", "signature_mismatch"}

\* The handler under configuration c.
Handler(c) == INSTANCE AccessHandler WITH
  mode       <- cycles[c].mode,
  verifier   <- cycles[c].verifier # None,
  log_denies <- cycles[c].log_denies,
  log_all    <- cycles[c].log_all,
  Outcomes   <- [allowed : BOOLEAN, reason : Reasons, hash : {SignedWith[r].access_key : r \in Requests}]

\* verify, from the look-up of the access key on.
Verdict(st, r) ==
  LET key == SignedWith[r].access_key
      reason ==
        IF key \notin DOMAIN st.credentials THEN "unknown_access_key"
        ELSE IF ~st.credentials[key].enabled THEN "unauthorized"
        ELSE IF st.credentials[key].seed # <<"AWS4", SignedWith[r].secret_key>>
             THEN "signature_mismatch" ELSE "ok"
  IN [allowed |-> reason = "ok", reason |-> reason, hash |-> key]

\* What a loaded MainConf and its LocConfs are to the handler.  The lines
\* and modes of the file are history.
Loaded ==
  [ mode        |-> mode,
    verifier    |-> main.verifier,
    log_denies  |-> OrElse(main.log_denies, TRUE),
    log_all     |-> OrElse(main.log_all, FALSE),
    declared    |-> declared,
    credentials |-> main.credentials ]

DeployInit ==
  /\ Init
  /\ loading = FALSE
  /\ cycles = <<>>
  /\ worker = [w \in Workers |-> NoWorker]
  /\ at = [r \in Requests |-> None]
  /\ arrived = [r \in Requests |-> 0]
  /\ aborts \in BOOLEAN
  /\ req = [r \in Requests |-> Handler(1)!Fresh]
-------------------------------------------------------------------------------
\* The master

\* The pool of the load is dropped, and with it MainConf and its verifier.
DropLoad ==
  /\ loading' = FALSE
  /\ phase' = "parsing" /\ main' = EmptyMain
  /\ mode' = [b \in AllBlocks |-> "unset"] /\ declared' = mode' /\ merged' = {}

\* preconfiguration adds the variables, for which there may be no memory.
StartLoad ==
  /\ ~loading
  /\ Len(cycles) < MaxCycles
  /\ loading' = TRUE
  /\ phase' \in {"parsing", "failed"}
  /\ UNCHANGED <<main, mode, merged, declared, cycles, worker, serving, aborts>>

LoadStep ==
  /\ loading
  /\ Next
  /\ UNCHANGED <<loading, cycles, worker, serving, aborts>>

\* A load that failed leaves the configuration in force as it is.
GiveUp ==
  /\ loading
  /\ phase = "failed"
  /\ DropLoad
  /\ UNCHANGED <<cycles, worker, serving, aborts>>

\* postconfiguration pushes the handler on the access phase, or fails the
\* load.  The new workers are started before the old ones are told.
Install ==
  /\ loading
  /\ phase = "loaded"
  /\ \E fresh \in SUBSET Free :
       /\ Cardinality(fresh) = WorkerProcesses
       /\ cycles' = Append(cycles, Loaded)
       /\ worker' = [w \in Workers |->
            IF w \in fresh THEN [stage |-> "serving", cycle |-> Len(cycles) + 1]
            ELSE IF worker[w].stage = "dead" THEN NoWorker ELSE worker[w]]
  /\ DropLoad
  /\ UNCHANGED <<serving, aborts>>

PostconfigurationFails ==
  /\ loading
  /\ phase = "loaded"
  /\ phase' = "failed"
  /\ UNCHANGED <<main, mode, merged, declared, loading, cycles, worker, serving, aborts>>

Master(w, stage, new) ==
  /\ worker[w].stage = stage
  /\ worker' = [worker EXCEPT ![w] = new]
  /\ UNCHANGED <<vars, loading, cycles, serving, aborts>>

\* An old worker hears that it is to finish and take no more.
Retire(w) ==
  worker[w].cycle < Len(cycles) /\ Master(w, "serving", [worker[w] EXCEPT !.stage = "draining"])

\* The master starts a worker in the place of one that died serving.
Respawn(w) == Master(w, "dead", [stage |-> "serving", cycle |-> Len(cycles)])
-------------------------------------------------------------------------------
\* The workers

Alive(w) == worker[w].stage \in {"serving", "draining"}

InHandler(w) == {r \in Requests : at[r] = w /\ req[r].stage \in {"access", "verify", "panicked"}}

\* A worker has one thread: nobody is let in while a handler has not returned.
Idle(w) == \A r \in InHandler(w) : req[r].stage = "access"

Arrive(r, b, w) ==
  /\ worker[w].stage = "serving"
  /\ at' = [at EXCEPT ![r] = w]
  /\ arrived' = [arrived EXCEPT ![r] = worker[w].cycle]
  /\ UNCHANGED <<vars, loading, cycles, worker>>
  /\ Handler(worker[w].cycle)!Arrive(r, b)

\* A step of the handler for r, in the worker that has it.
HandlerStep(r) ==
  /\ at[r] # None
  /\ UNCHANGED <<vars, loading, cycles, worker, at, arrived>>
  /\ \E c \in {worker[at[r]].cycle} :
       \/ Handler(c)!Unprepared(r)
       \/ Handler(c)!Decline(r)
       \/ Handler(c)!NotConfigured(r)
       \/ Idle(at[r]) /\ Handler(c)!CallVerify(r)
       \/ req[r].stage = "verify" /\ Handler(c)!VerifyReturns(r, Verdict(cycles[c].verifier, r))
       \/ Handler(c)!Panic(r)
       \/ Handler(c)!Caught(r)

Redirect(r, b) ==
  /\ at[r] # None
  /\ UNCHANGED <<vars, loading, cycles, worker, at, arrived>>
  /\ Handler(worker[at[r]].cycle)!Redirect(r, b)

\* A panic where panics abort: the worker is gone with what it was at.  A
\* worker that was to finish anyway is not replaced.
Abort(w) ==
  /\ aborts
  /\ \E r \in InHandler(w) : req[r].stage = "verify"
  /\ req' = [r \in Requests |->
       IF r \in InHandler(w) THEN [req[r] EXCEPT !.stage = "lost"] ELSE req[r]]
  /\ at' = [r \in Requests |-> IF at[r] = w THEN None ELSE at[r]]
  /\ worker' = [worker EXCEPT ![w] =
       IF worker[w].stage = "serving" THEN [@ EXCEPT !.stage = "dead"] ELSE NoWorker]
  /\ UNCHANGED <<vars, loading, cycles, arrived, aborts>>

\* A worker told to finish goes once it has answered; its answers stay.
Quit(w) ==
  /\ worker[w].stage = "draining"
  /\ InHandler(w) = {}
  /\ worker' = [worker EXCEPT ![w] = NoWorker]
  /\ at' = [r \in Requests |-> IF at[r] = w THEN None ELSE at[r]]
  /\ UNCHANGED <<vars, loading, cycles, arrived, aborts, req>>

DeployNext ==
  \/ StartLoad \/ LoadStep \/ GiveUp \/ Install \/ PostconfigurationFails
  \/ \E w \in Workers :
       \/ Retire(w) \/ Respawn(w) \/ Abort(w) \/ Quit(w)
       \/ \E r \in Requests, b \in Blocks : Arrive(r, b, w)
  \/ \E r \in Requests : HandlerStep(r)
  \/ \E r \in Redirected, b \in Blocks : Redirect(r, b)

\* Workers run, the handler never waits for anything, and the master's
\* message arrives.  Nothing is assumed of operators, clients and panics.
Fairness ==
  /\ \A r \in Requests : WF_allVars(HandlerStep(r))
  /\ \A w \in Workers : WF_allVars(Retire(w)) /\ WF_allVars(Quit(w))

DeploySpec == DeployInit /\ [][DeployNext]_allVars

FairDeploySpec == DeploySpec /\ Fairness
-------------------------------------------------------------------------------
\* docs/rust-nginx-module.md:340-341: not_configured is "unreachable in a
\* config that passed nginx -t".  In whatever order directives come, loads
\* fail and workers are replaced, no worker meets a location that verifies
\* without a verifier.
NeverUnconfigured ==
  \A r \in Requests : req[r].stage = "access" =>
    LET c == cycles[worker[at[r]].cycle] IN
    Verifies(c.mode[req[r].block]) => c.verifier # None

\* What the file of configuration c says, read without the parser's steps:
\* the mode nearest to b is on; the credential of r is there and enabled.
EnforcedInFile(c, b) ==
  \E near \in Around(b) :
    /\ c.declared[near] = "on"
    /\ \A a \in Around(b) : c.declared[a] # "unset" => a \in Around(near)

EntitledInFile(c, r) ==
  \E i \in DOMAIN c.credentials :
    LET line == c.credentials[i] IN
    /\ line.access_key.word = SignedWith[r].access_key
    /\ FALSE \notin Values(line.args, "enabled")
    /\ SignedWith[r].secret_key \in
         Values(line.args, "secret_key")
           \cup {FileSecret[f] : f \in Values(line.args, "secret_key_file")}

\* The file decides: a request is let through or refused as the file said
\* that was in force where the request arrived, and by no other file, while
\* reloads succeed and fail, workers die and requests are redirected.
TheFileDecides ==
  \A r \in Requests : req[r].stage = "answered" =>
    LET c == cycles[arrived[r]]
        enforced == EnforcedInFile(c, req[r].block)
    IN /\ enforced /\ req[r].status \in {"NGX_OK", "NGX_DECLINED"} => EntitledInFile(c, r)
       /\ req[r].status = "FORBIDDEN" => enforced /\ ~EntitledInFile(c, r)

\* A configuration that was replaced comes to its end: no worker goes on for
\* ever under the old one, so what it allowed is refused at last.
OldConfigurationsEnd ==
  \A w \in Workers, n \in 1..(MaxCycles - 1) :
    (Len(cycles) > n /\ Alive(w) /\ worker[w].cycle = n) ~> (worker[w].cycle # n \/ ~Alive(w))
===============================================================================
