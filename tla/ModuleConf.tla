------------------------------ MODULE ModuleConf ------------------------------
(***************************************************************************)
(* Loading the nginx configuration: the sigv4_verify directives            *)
(* (rust/nginx-module/src/lib.rs), the strict parser of a credential       *)
(* (rust/module-config/src/lib.rs) and, through Credentials, its           *)
(* compilation by the verifier.  nginx calls one handler per directive in  *)
(* the order of the file, then init_main_conf, then merges every block     *)
(* with the block around it.  An error ends the load, and nginx keeps what *)
(* it ran before.                                                          *)
(***************************************************************************)
EXTENDS Credentials, FiniteSets

CONSTANTS
  Blocks,            \* the server and location blocks
  Parent,            \* Parent[b]: the block around b; "http" is the outermost
  ModeWords,         \* arguments of sigv4_verify
  Durations,         \* arguments of the duration directives, parsed
  OnOffs,            \* arguments of the logging directives, parsed
  MethodLists,       \* arguments of sigv4_verify_methods
  CredentialLines,   \* arguments of sigv4_verify_credential: key and list
  FileSecret,        \* what a secret file holds, or Malformed
  DefaultSkew,       \* fifteen minutes
  Malformed          \* an argument its parser rejects

VARIABLES
  phase,      \* "parsing", "merging", "loaded" or "failed"
  main,       \* MainConf
  mode,       \* mode[b]: LocConf.mode of block b, http included
  merged,     \* blocks merged with their parent
  declared    \* history: the modes written in the file

vars == <<phase, main, mode, merged, declared>>

AllBlocks == Blocks \cup {"http"}

ASSUME TreeAssumption == "http" \notin Blocks /\ Parent \in [Blocks -> AllBlocks]
-------------------------------------------------------------------------------
\* Mode

ModeOf(w) == IF w \in {"on", "off", "shadow"} THEN w ELSE Malformed

Verifies(m) == m \in {"on", "shadow"}

\* Mutant: the outer value wins over the inner one.
MergeModeOuterFirst(inner, outer) ==
  IF outer # "unset" THEN outer ELSE IF inner # "unset" THEN inner ELSE "off"

MergeMode(inner, outer) ==
  IF inner # "unset" THEN inner ELSE IF outer # "unset" THEN outer ELSE "off"
-------------------------------------------------------------------------------
\* CredentialDirective: an argument is a key, the shape of what follows the
\* equals sign ("flag" without one, "empty", "blank" or "text") and a value.

ListKeys == {"allowed_host", "allowed_method", "allowed_prefix"}
FlagKeys == {"allow_any_host", "allow_default_methods", "allow_any_prefix"}

\* A restriction and the flag that waives it.
Dimensions == { <<"allowed_host", "allow_any_host">>,
                <<"allowed_method", "allow_default_methods">>,
                <<"allowed_prefix", "allow_any_prefix">> }

Given(args, keys) == {i \in DOMAIN args : args[i].key \in keys}

Values(args, key) == {args[i].value : i \in Given(args, {key})}

\* Mutant: a blank list value goes through.
BadArgumentBlankPasses(a) ==
  \/ a.shape = "flag" /\ a.key \notin FlagKeys
  \/ a.shape = "empty"
  \/ a.shape \in {"blank", "text"}
       /\ a.key \notin ListKeys \cup {"secret_key", "secret_key_file", "enabled", "max_expires"}
  \/ a.key \in {"enabled", "max_expires"} /\ a.value = Malformed

BadArgument(a) ==
  \/ a.shape = "flag" /\ a.key \notin FlagKeys
  \/ a.shape = "empty"
  \/ a.shape = "blank" /\ a.key \in ListKeys
  \/ a.shape \in {"blank", "text"}
       /\ a.key \notin ListKeys \cup {"secret_key", "secret_key_file", "enabled", "max_expires"}
  \/ a.key \in {"enabled", "max_expires"} /\ a.value = Malformed

LineError(line) ==
  LET args == line.args IN
  \/ line.access_key.word \in {"", "="}
  \/ \E i \in DOMAIN args : BadArgument(args[i])
  \/ Cardinality(Given(args, {"secret_key", "secret_key_file"})) # 1
  \/ \E key \in {"enabled", "max_expires"} : Cardinality(Given(args, {key})) > 1
  \/ \E d \in Dimensions : (Given(args, {d[1]}) = {}) <=> (Given(args, {d[2]}) = {})
  \/ \E limit \in Values(args, "max_expires") : limit \notin 1..MaxExpires

TheOrElse(values, default) ==
  IF values = {} THEN default ELSE CHOOSE v \in values : TRUE

\* A file's trailing newlines are its spelling; a literal is taken as it is.
LoadSecret(args) ==
  IF Given(args, {"secret_key"}) # {}
  THEN TheOrElse(Values(args, "secret_key"), "")
  ELSE FileSecret[TheOrElse(Values(args, "secret_key_file"), "")]

ResolveError(line) == LoadSecret(line.args) \in {Malformed, ""}

\* Mutant: a credential that is switched off is compiled like any other.
ResolveAlwaysEnabled(line) ==
  [ access_key       |-> Text(line.access_key.word),
    secret_key       |-> LoadSecret(line.args),
    enabled          |-> TRUE,
    max_expires      |-> TheOrElse(Values(line.args, "max_expires"), 0),
    allowed_hosts    |-> Values(line.args, "allowed_host"),
    allowed_methods  |-> Values(line.args, "allowed_method"),
    allowed_prefixes |-> Values(line.args, "allowed_prefix") ]

Resolve(line) ==
  [ access_key       |-> Text(line.access_key.word),
    secret_key       |-> LoadSecret(line.args),
    enabled          |-> TheOrElse(Values(line.args, "enabled"), TRUE),
    max_expires      |-> TheOrElse(Values(line.args, "max_expires"), 0),
    allowed_hosts    |-> Values(line.args, "allowed_host"),
    allowed_methods  |-> Values(line.args, "allowed_method"),
    allowed_prefixes |-> Values(line.args, "allowed_prefix") ]

ParsedLines == {line \in CredentialLines : ~LineError(line)}

\* Every State the directives can compile to.
CompiledStates ==
  [ skew        : Durations \cup {DefaultSkew},
    methods     : SUBSET {"GET", "HEAD"},
    credentials : UNION {
      [keys -> {CompileCredential(Resolve(line), default) :
                  line \in ParsedLines, default \in 1..MaxExpires}] :
      keys \in SUBSET {line.access_key.word : line \in ParsedLines}} ]

ASSUME NoneAssumption == None \notin CompiledStates

\* Only a blank argument has a blank value; enabled is on, off or rejected.
ASSUME LinesAssumption ==
  \A line \in CredentialLines :
    /\ IsFiniteSet(DOMAIN line.args)
    /\ \A i \in DOMAIN line.args :
         LET a == line.args[i] IN
         /\ a.shape \in {"flag", "empty", "blank", "text"}
         /\ a.shape = "text" /\ a.key = "allowed_host" => a.value.word # ""
         /\ a.shape = "text" /\ a.key = "allowed_prefix" => a.value # <<>>
         /\ a.shape # "flag" /\ a.key = "enabled" => a.value \in BOOLEAN \cup {Malformed}
-------------------------------------------------------------------------------
EmptyMain ==
  [ clock_skew          |-> None,
    default_max_expires |-> None,
    supported_methods   |-> {},
    log_denies          |-> None,
    log_all             |-> None,
    credentials         |-> <<>>,
    enabled_anywhere    |-> FALSE,
    verifier            |-> None ]

Init ==
  /\ phase    = "parsing"
  /\ main     = EmptyMain
  /\ mode     = [b \in AllBlocks |-> "unset"]
  /\ merged   = {}
  /\ declared = mode

Fail == phase' = "failed" /\ UNCHANGED <<main, mode, merged, declared>>

Keep(m) == main' = m /\ UNCHANGED <<phase, mode, merged, declared>>

\* Mutant: shadow mode is not counted as enabling the module.
SetModeOnOnly(b, w) ==
  /\ phase = "parsing"
  /\ IF mode[b] # "unset" \/ ModeOf(w) = Malformed THEN Fail
     ELSE /\ mode' = [mode EXCEPT ![b] = ModeOf(w)]
          /\ declared' = mode'
          /\ main' = [main EXCEPT !.enabled_anywhere = @ \/ w = "on"]
          /\ UNCHANGED <<phase, merged>>

SetMode(b, w) ==
  /\ phase = "parsing"
  /\ IF mode[b] # "unset" \/ ModeOf(w) = Malformed THEN Fail
     ELSE /\ mode' = [mode EXCEPT ![b] = ModeOf(w)]
          /\ declared' = mode'
          /\ main' = [main EXCEPT !.enabled_anywhere = @ \/ Verifies(ModeOf(w))]
          /\ UNCHANGED <<phase, merged>>

SetDuration(field, d) ==
  /\ phase = "parsing"
  /\ IF main[field] # None \/ d = Malformed THEN Fail
     ELSE Keep([main EXCEPT ![field] = d])

SetFlag(field, v) ==
  /\ phase = "parsing"
  /\ IF main[field] # None \/ v = Malformed THEN Fail
     ELSE Keep([main EXCEPT ![field] = v])

\* Unlike the verifier's own compilation, the directive takes no other
\* spelling of a method.
SetMethods(methods) ==
  /\ phase = "parsing"
  /\ IF \/ main.supported_methods # {}
        \/ \E m \in methods : m \notin {Text("GET"), Text("HEAD")}
     THEN Fail
     ELSE Keep([main EXCEPT !.supported_methods = methods])

SetCredential(line) ==
  /\ phase = "parsing"
  /\ IF \/ LineError(line)
        \/ \E i \in DOMAIN main.credentials :
             main.credentials[i].access_key.word = line.access_key.word
     THEN Fail
     ELSE Keep([main EXCEPT !.credentials = Append(@, line)])

OrElse(value, default) == IF value = None THEN default ELSE value

SettingsOf(m) ==
  [ allowed_clock_skew  |-> OrElse(m.clock_skew, DefaultSkew),
    default_max_expires |-> OrElse(m.default_max_expires, MaxExpires),
    supported_methods   |-> IF m.supported_methods = {} THEN {Text("GET"), Text("HEAD")}
                            ELSE m.supported_methods,
    supported_service   |-> Text("s3") ]

CredentialsOf(m) == [i \in DOMAIN m.credentials |-> Resolve(m.credentials[i])]

CredentialsError(m) ==
  \/ m.default_max_expires # None /\ m.default_max_expires \notin 1..MaxExpires
  \/ \E i \in DOMAIN m.credentials : ResolveError(m.credentials[i])
  \/ ConfigError(SettingsOf(m), CredentialsOf(m))

\* Mutant: a module that is on may be left without a credential.
InitErrorNoneNeeded(m) == m.credentials # <<>> /\ CredentialsError(m)

\* Nothing is compiled, nor any limit looked at, when there is no credential.
InitError(m) ==
  IF m.credentials = <<>> THEN m.enabled_anywhere ELSE CredentialsError(m)

InitMainConf ==
  /\ phase = "parsing"
  /\ IF InitError(main) THEN Fail
     ELSE /\ main' = [main EXCEPT !.verifier =
               IF main.credentials = <<>> THEN None
               ELSE CompileState(SettingsOf(main), CredentialsOf(main))]
          /\ phase' = "merging"
          /\ UNCHANGED <<mode, merged, declared>>

\* nginx merges a block after the block around it.
MergeLocConf(b) ==
  /\ phase = "merging"
  /\ b \notin merged
  /\ Parent[b] \in merged \cup {"http"}
  /\ mode' = [mode EXCEPT ![b] = MergeMode(@, mode[Parent[b]])]
  /\ merged' = merged \cup {b}
  /\ phase' = IF merged' = Blocks THEN "loaded" ELSE "merging"
  /\ UNCHANGED <<main, declared>>

Next ==
  \/ \E b \in AllBlocks, w \in ModeWords : SetMode(b, w)
  \/ \E field \in {"clock_skew", "default_max_expires"}, d \in Durations : SetDuration(field, d)
  \/ \E field \in {"log_denies", "log_all"}, v \in OnOffs : SetFlag(field, v)
  \/ \E methods \in MethodLists : SetMethods(methods)
  \/ \E line \in CredentialLines : SetCredential(line)
  \/ InitMainConf
  \/ \E b \in Blocks : MergeLocConf(b)

Spec == Init /\ [][Next]_vars
-------------------------------------------------------------------------------
\* A loaded configuration has a verifier with at least one credential as
\* soon as one block verifies: the handler's not_configured answer is for
\* configurations nginx never loads.
VerifierWhereNeeded ==
  phase = "loaded" /\ (\E b \in Blocks : Verifies(mode[b])) =>
    main.verifier # None /\ DOMAIN main.verifier.credentials # {}

\* The strict allowlist survives the whole way from the file to the compiled
\* credential: a dimension is unrestricted only where the operator wrote the
\* flag that says so, although the compiled form cannot tell the two apart.
RestrictedUnlessWaived ==
  phase = "loaded" => \A i \in DOMAIN main.credentials :
    LET line == main.credentials[i]
        compiled == main.verifier.credentials[line.access_key.word]
        Waived(flag) == Given(line.args, {flag}) # {}
    IN /\ compiled.hosts = {} <=> Waived("allow_any_host")
       /\ compiled.methods = {} <=> Waived("allow_default_methods")
       /\ compiled.prefixes = {} <=> Waived("allow_any_prefix")

\* b and the blocks around it: what no set that goes outwards from b misses.
Around(b) ==
  {c \in AllBlocks : \A out \in SUBSET AllBlocks :
     b \in out /\ (\A d \in out \ {"http"} : Parent[d] \in out) => c \in out}

\* A block runs in the mode written in the nearest block around it that has
\* one, and is off when none has.
NearestModeWins ==
  phase = "loaded" => \A b \in Blocks :
    LET set == {c \in Around(b) : declared[c] # "unset"} IN
    IF set = {} THEN mode[b] = "off"
    ELSE \E c \in set : mode[b] = declared[c] /\ \A d \in set : d \in Around(c)

\* docs/rust-nginx-module.md:198: "0 or values over 7d fail nginx -t".
\* init_main_conf looks at the limit only when a credential is configured.
BadDefaultNeverLoads ==
  phase = "loaded" => main.default_max_expires \in {None} \cup 1..MaxExpires
===============================================================================
