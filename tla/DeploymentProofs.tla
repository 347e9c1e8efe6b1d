--------------------------- MODULE DeploymentProofs ---------------------------
(***************************************************************************)
(* First, what a configuration that loads means, for every file: any       *)
(* blocks, at any depth, any directives in any order.  The invariant       *)
(* follows the load: before init_main_conf only what was written is known, *)
(* after it the verifier is the compilation of the lines accepted so far,  *)
(* and the blocks merged so far run in the mode nearest to them.           *)
(*                                                                         *)
(* Then that a deployment decides by the file, for every configuration     *)
(* file, number of workers, reloads, redirects, panics and requests.  The  *)
(* invariant says that every configuration installed is true to its file,  *)
(* that a request and its worker agree on the configuration, and what each *)
(* stage of the handler knows.                                             *)
(***************************************************************************)
EXTENDS Deployment, FiniteSetTheorems, TLAPS

ModeNames == {"unset", "on", "off", "shadow"}

MainType ==
  [ clock_skew          : Durations \cup {None},
    default_max_expires : Durations \cup {None},
    supported_methods   : SUBSET {Text("GET"), Text("HEAD")},
    log_denies          : OnOffs \cup {None},
    log_all             : OnOffs \cup {None},
    credentials         : Seq(ParsedLines),
    enabled_anywhere    : BOOLEAN,
    verifier            : CompiledStates \cup {None} ]

TypeInv ==
  /\ phase \in {"parsing", "merging", "loaded", "failed"}
  /\ main \in MainType
  /\ mode \in [AllBlocks -> ModeNames]
  /\ declared \in [AllBlocks -> ModeNames]
  /\ merged \subseteq Blocks

\* The mode written nearest to b is the one b has.
Nearest(b) ==
  LET set == {c \in Around(b) : declared[c] # "unset"} IN
  IF set = {} THEN mode[b] = "off"
  ELSE \E c \in set : mode[b] = declared[c] /\ \A d \in set : d \in Around(c)

\* No block lies around itself once more.
Outward(b) ==
  \A c, d \in Around(b) : c \in Around(d) /\ d \in Around(c) => c = d

ModeInv ==
  /\ phase = "parsing" => merged = {}
  /\ phase = "loaded" => merged = Blocks
  /\ \A b \in AllBlocks \ merged : mode[b] = declared[b]
  /\ \A b \in merged : Nearest(b) /\ Outward(b) /\ Around(b) \subseteq merged \cup {"http"}

DistinctKeys(lines) ==
  \A i, j \in DOMAIN lines : lines[i].access_key.word = lines[j].access_key.word => i = j

MainInv ==
  /\ DistinctKeys(main.credentials)
  /\ main.enabled_anywhere <=> \E b \in AllBlocks : Verifies(declared[b])
  /\ phase = "parsing" => main.verifier = None
  /\ phase \in {"merging", "loaded"} =>
       IF main.credentials = <<>> THEN ~main.enabled_anywhere /\ main.verifier = None
       ELSE main.verifier = CompileState(SettingsOf(main), CredentialsOf(main))

IInv == TypeInv /\ ModeInv /\ MainInv

-------------------------------------------------------------------------------
\* Blocks

\* Around b lie b, the block around it and whatever lies around that.
LEMMA AroundBlock ==
  ASSUME NEW b \in Blocks
  PROVE  Around(b) = {b} \cup Around(Parent[b])
<1>1. Parent[b] \in AllBlocks /\ b # "http" /\ b \in AllBlocks
  BY TreeAssumption DEF AllBlocks
<1>2. ASSUME NEW c \in Around(b), c # b
      PROVE  c \in Around(Parent[b])
  <2>1. ASSUME NEW out \in SUBSET AllBlocks, Parent[b] \in out,
               \A d \in out \ {"http"} : Parent[d] \in out
        PROVE  c \in out
    <3>1. \A o \in SUBSET AllBlocks :
            b \in o /\ (\A d \in o \ {"http"} : Parent[d] \in o) => c \in o
      BY <1>2 DEF Around
    <3>2. out \cup {b} \in SUBSET AllBlocks
      BY <1>1
    <3>3. \A d \in (out \cup {b}) \ {"http"} : Parent[d] \in out \cup {b}
      BY <2>1
    <3> QED
      BY <1>2, <3>1, <3>2, <3>3
  <2> QED
    BY <2>1 DEF Around
<1>3. ASSUME NEW c \in Around(Parent[b])
      PROVE  c \in Around(b)
  BY <1>1, <1>3 DEF Around
<1>4. b \in Around(b)
  BY <1>1 DEF Around
<1> QED
  BY <1>2, <1>3, <1>4

LEMMA AroundHttp == Around("http") = {"http"}
<1>1. "http" \in AllBlocks
  BY DEF AllBlocks
<1> QED
  BY <1>1 DEF Around

LEMMA AroundSelf ==
  ASSUME NEW b \in AllBlocks
  PROVE  b \in Around(b) /\ Around(b) \subseteq AllBlocks
BY DEF Around

\* A block merged with the block around it has the mode nearest to it, if
\* that one had or is the outermost.
LEMMA NearestMerged ==
  ASSUME TypeInv, NEW b \in Blocks, NEW m \in ModeNames,
         m = MergeMode(declared[b], mode[Parent[b]]),
         \/ Parent[b] = "http" /\ mode["http"] = declared["http"]
         \/ Nearest(Parent[b])
  PROVE  LET set == {c \in Around(b) : declared[c] # "unset"} IN
         IF set = {} THEN m = "off"
         ELSE \E c \in set : m = declared[c] /\ \A d \in set : d \in Around(c)
<1> DEFINE set   == {c \in Around(b) : declared[c] # "unset"}
           outer == {c \in Around(Parent[b]) : declared[c] # "unset"}
<1>1. Parent[b] \in AllBlocks /\ b \in AllBlocks
  BY TreeAssumption DEF AllBlocks
<1>2. CASE declared[b] # "unset"
  <2>1. b \in set /\ m = declared[b]
    BY <1>1, <1>2, AroundSelf DEF MergeMode
  <2> QED
    BY <2>1
<1>3. CASE declared[b] = "unset"
  <2>1. set = outer
    BY <1>3, AroundBlock
  <2>2. m = IF mode[Parent[b]] # "unset" THEN mode[Parent[b]] ELSE "off"
    BY <1>3 DEF MergeMode
  <2>3. CASE Nearest(Parent[b])
    <3>1. IF outer = {} THEN mode[Parent[b]] = "off"
          ELSE \E c \in outer : mode[Parent[b]] = declared[c] /\ \A d \in outer : d \in Around(c)
      BY <2>3 DEF Nearest
    <3> QED
      BY <2>1, <2>2, <3>1
  <2>4. CASE Parent[b] = "http" /\ mode["http"] = declared["http"]
    <3>1. outer = IF declared["http"] = "unset" THEN {} ELSE {"http"}
      BY <2>4, AroundHttp
    <3> QED
      BY <2>1, <2>2, <2>4, <3>1, AroundHttp
  <2> QED
    BY <2>3, <2>4
<1> QED
  BY <1>2, <1>3
\* Merged blocks stay apart: the chain of b does not come back to b.
LEMMA OutwardMerged ==
  ASSUME NEW b \in Blocks, NEW done \in SUBSET Blocks, b \notin done,
         Parent[b] \in done \cup {"http"},
         \A d \in done : Outward(d) /\ Around(d) \subseteq done \cup {"http"}
  PROVE  Outward(b) /\ Around(b) \subseteq done \cup {b, "http"}
<1>1. Around(b) = {b} \cup Around(Parent[b]) /\ b # "http"
  BY AroundBlock, TreeAssumption
<1>2. Outward(Parent[b]) /\ Around(Parent[b]) \subseteq done \cup {"http"}
  BY AroundHttp DEF Outward
<1>3. ASSUME NEW c \in Around(Parent[b])
      PROVE  b \notin Around(c)
  <2>1. c \in done \cup {"http"}
    BY <1>2
  <2> QED
    BY <1>1, <2>1, AroundHttp
<1> QED
  BY <1>1, <1>2, <1>3 DEF Outward
-------------------------------------------------------------------------------
\* Compilation

LEMMA SettingsCompile ==
  ASSUME NEW m \in MainType
  PROVE  /\ SettingsOf(m).allowed_clock_skew \in Durations \cup {DefaultSkew}
         /\ DefaultExpires(SettingsOf(m)) \in 1..MaxExpires
         /\ SupportedMethods(SettingsOf(m)) \in SUBSET {"GET", "HEAD"}
<1>1. SettingsOf(m).allowed_clock_skew \in Durations \cup {DefaultSkew}
  BY DEF SettingsOf, OrElse, MainType
<1>2. DefaultExpires(SettingsOf(m)) \in 1..MaxExpires
  BY MaxExpiresAssumption DEF DefaultExpires
<1>3. \A x \in {Text("GET"), Text("HEAD")} : x.word \in {"GET", "HEAD"}
  BY DEF Text, Spelled
<1>4. SettingsOf(m).supported_methods \in SUBSET {Text("GET"), Text("HEAD")}
  BY DEF SettingsOf, MainType
<1>5. SupportedMethods(SettingsOf(m)) \in SUBSET {"GET", "HEAD"}
  BY <1>3, <1>4 DEF SupportedMethods, Words
<1> QED
  BY <1>1, <1>2, <1>5

LEMMA ResolvedKey ==
  ASSUME NEW line
  PROVE  Resolve(line).access_key.word = line.access_key.word
<1>1. Resolve(line).access_key = Text(line.access_key.word)
  BY DEF Resolve
<1> QED
  BY <1>1 DEF Text, Spelled

\* The credential compiled for a line is found under the line's access key.
LEMMA CompiledLine ==
  ASSUME NEW m \in MainType, DistinctKeys(m.credentials), NEW i \in DOMAIN m.credentials
  PROVE  LET st == CompileState(SettingsOf(m), CredentialsOf(m))
             line == m.credentials[i]
         IN /\ line.access_key.word \in DOMAIN st.credentials
            /\ st.credentials[line.access_key.word]
                 = CompileCredential(Resolve(line), DefaultExpires(SettingsOf(m)))
<1> DEFINE creds == CredentialsOf(m)
           default == DefaultExpires(SettingsOf(m))
           ak == m.credentials[i].access_key.word
           j == CHOOSE k \in DOMAIN creds : creds[k].access_key.word = ak
<1>1. DOMAIN creds = DOMAIN m.credentials
      /\ \A k \in DOMAIN creds : creds[k] = Resolve(m.credentials[k])
  BY DEF CredentialsOf
<1>2. ASSUME NEW k \in DOMAIN creds
      PROVE  creds[k].access_key.word = m.credentials[k].access_key.word
  BY <1>1, ResolvedKey
<1>3. j \in DOMAIN creds /\ creds[j].access_key.word = ak
  BY <1>1, <1>2
<1>4. j = i
  BY <1>1, <1>2, <1>3 DEF DistinctKeys
<1>5. CompileState(SettingsOf(m), creds).credentials =
        [a \in {creds[k].access_key.word : k \in DOMAIN creds} |->
           CompileCredential(creds[CHOOSE k \in DOMAIN creds : creds[k].access_key.word = a], default)]
  BY DEF CompileState
<1>6. ak \in {creds[k].access_key.word : k \in DOMAIN creds}
  BY <1>1, <1>2
<1>7. creds[j] = Resolve(m.credentials[i])
  BY <1>1, <1>4
<1> DEFINE st == CompileState(SettingsOf(m), creds)
<1> HIDE DEF creds, default, st
<1>8. ak \in DOMAIN st.credentials /\ st.credentials[ak] = CompileCredential(creds[j], default)
  BY <1>5, <1>6 DEF st
<1> QED
  BY <1>7, <1>8 DEF creds, default, st

LEMMA CompiledType ==
  ASSUME NEW m \in MainType
  PROVE  CompileState(SettingsOf(m), CredentialsOf(m)) \in CompiledStates
<1> DEFINE creds == CredentialsOf(m)
           default == DefaultExpires(SettingsOf(m))
           keys == {creds[k].access_key.word : k \in DOMAIN creds}
           chosen(a) == CHOOSE k \in DOMAIN creds : creds[k].access_key.word = a
           credential(a) == CompileCredential(creds[chosen(a)], default)
           compiled == [a \in keys |-> credential(a)]
           Images == {CompileCredential(Resolve(line), d) : line \in ParsedLines, d \in 1..MaxExpires}
           Names == {line.access_key.word : line \in ParsedLines}
<1>1. DOMAIN creds = DOMAIN m.credentials
      /\ \A k \in DOMAIN creds : creds[k] = Resolve(m.credentials[k])
  BY DEF CredentialsOf
<1>2. \A k \in DOMAIN creds : m.credentials[k] \in ParsedLines
  BY <1>1 DEF MainType
<1>3. \A k \in DOMAIN creds : creds[k].access_key.word = m.credentials[k].access_key.word
  BY <1>1, ResolvedKey
<1>4. default \in 1..MaxExpires
  BY SettingsCompile
<1> HIDE DEF creds, default
<1>5. keys \in SUBSET Names
  BY <1>2, <1>3
<1>6. ASSUME NEW a \in keys
      PROVE  credential(a) \in Images
  <2>1. chosen(a) \in DOMAIN creds
    OBVIOUS
  <2>2. PICK line \in ParsedLines : creds[chosen(a)] = Resolve(line)
    BY <1>1, <1>2, <2>1
  <2>3. CompileCredential(Resolve(line), default) \in Images
    BY <1>4
  <2> QED
    BY <2>2, <2>3
<1> HIDE DEF keys, credential, Images, Names
<1>7. compiled \in [keys -> Images]
  BY <1>6
<1>8. compiled \in UNION {[k -> Images] : k \in SUBSET Names}
  <2> HIDE DEF compiled
  <2> QED
    BY <1>5, <1>7, Zenon
<1>9. CompileState(SettingsOf(m), creds) =
        [ skew |-> SettingsOf(m).allowed_clock_skew,
          methods |-> SupportedMethods(SettingsOf(m)),
          credentials |-> compiled ]
  BY DEF CompileState, default, keys, credential
<1> HIDE DEF compiled
<1> QED
  BY <1>8, <1>9, SettingsCompile DEF CompiledStates, creds, Images, Names
-------------------------------------------------------------------------------
\* The steps of a load

LEMMA InitInv == Init => IInv
<1> SUFFICES ASSUME Init PROVE IInv
  OBVIOUS
<1>1. EmptyMain \in MainType
  BY DEF EmptyMain, MainType
<1>2. EmptyMain.credentials = <<>> /\ EmptyMain.verifier = None /\ EmptyMain.enabled_anywhere = FALSE
  BY DEF EmptyMain
<1>3. TypeInv
  BY <1>1 DEF Init, TypeInv, ModeNames
<1>4. ModeInv
  BY DEF Init, ModeInv
<1>5. MainInv
  BY <1>2 DEF Init, MainInv, DistinctKeys, Verifies
<1> QED
  BY <1>3, <1>4, <1>5 DEF IInv

LEMMA FailInv ==
  ASSUME IInv, phase = "parsing", Fail
  PROVE  IInv'
<1>1. UNCHANGED <<main, mode, merged, declared>> /\ phase' = "failed"
  BY DEF Fail
<1>2. TypeInv'
  BY <1>1 DEF IInv, TypeInv
<1>3. ModeInv'
  BY <1>1 DEF IInv, ModeInv
<1>4. MainInv'
  BY <1>1 DEF IInv, MainInv
<1> QED
  BY <1>2, <1>3, <1>4 DEF IInv

\* A directive other than sigv4_verify changes a field of MainConf.
LEMMA KeepInv ==
  ASSUME IInv, phase = "parsing", NEW m \in MainType, Keep(m),
         m.enabled_anywhere = main.enabled_anywhere, m.verifier = main.verifier,
         DistinctKeys(m.credentials)
  PROVE  IInv'
<1>1. UNCHANGED <<phase, mode, merged, declared>> /\ main' = m
  BY DEF Keep
<1>2. TypeInv'
  BY <1>1 DEF IInv, TypeInv
<1>3. ModeInv'
  BY <1>1 DEF IInv, ModeInv, Nearest
<1>4. MainInv'
  BY <1>1 DEF IInv, MainInv
<1> QED
  BY <1>2, <1>3, <1>4 DEF IInv

LEMMA SetModeInv ==
  ASSUME IInv, NEW b \in AllBlocks, NEW w, SetMode(b, w)
  PROVE  IInv'
<1> DEFINE m == ModeOf(w)
<1>1. phase = "parsing"
  BY DEF SetMode
<1>2. CASE Fail
  BY <1>1, <1>2, FailInv
<1>3. CASE ~Fail
  <2>1. /\ mode[b] = "unset" /\ m # Malformed
        /\ mode' = [mode EXCEPT ![b] = m]
        /\ declared' = mode'
        /\ main' = [main EXCEPT !.enabled_anywhere = @ \/ Verifies(m)]
        /\ UNCHANGED <<phase, merged>>
    BY <1>3 DEF SetMode
  <2>2. m \in ModeNames
    BY <2>1 DEF ModeOf, ModeNames
  <2> HIDE DEF m
  <2>3. main' \in MainType
    BY <2>1 DEF IInv, TypeInv, MainType
  <2>4. TypeInv'
    BY <2>1, <2>2, <2>3 DEF IInv, TypeInv
  <2>5. merged = {} /\ \A c \in AllBlocks : mode[c] = declared[c]
    BY <1>1 DEF IInv, ModeInv
  <2>6. ModeInv'
    BY <1>1, <2>1, <2>5 DEF ModeInv
  <2>7. /\ main'.credentials = main.credentials /\ main'.verifier = main.verifier
        /\ main'.enabled_anywhere = (main.enabled_anywhere \/ Verifies(m))
    BY <2>1 DEF IInv, TypeInv, MainType
  <2>8. \A c \in AllBlocks : declared'[c] = IF c = b THEN m ELSE declared[c]
    BY <2>1, <2>5 DEF IInv, TypeInv
  <2>9. ~Verifies(declared[b])
    BY <2>1, <2>5 DEF Verifies
  <2>10. main'.enabled_anywhere <=> \E c \in AllBlocks : Verifies(declared'[c])
    BY <2>7, <2>8, <2>9 DEF IInv, MainInv
  <2>11. MainInv'
    BY <1>1, <2>1, <2>7, <2>10 DEF IInv, MainInv, DistinctKeys
  <2> QED
    BY <2>4, <2>6, <2>11 DEF IInv
<1> QED
  BY <1>2, <1>3

LEMMA SetLimitInv ==
  ASSUME IInv, phase = "parsing",
         NEW m \in MainType, Fail \/ Keep(m),
         m.enabled_anywhere = main.enabled_anywhere, m.verifier = main.verifier,
         m.credentials = main.credentials
  PROVE  IInv'
<1>1. DistinctKeys(m.credentials)
  BY DEF IInv, MainInv
<1> QED
  BY <1>1, FailInv, KeepInv

LEMMA SetDurationInv ==
  ASSUME IInv, NEW field \in {"clock_skew", "default_max_expires"}, NEW d \in Durations,
         SetDuration(field, d)
  PROVE  IInv'
<1> DEFINE m == [main EXCEPT ![field] = d]
<1>1. phase = "parsing" /\ (Fail \/ Keep(m))
  BY DEF SetDuration
<1>2. /\ m \in MainType /\ m.enabled_anywhere = main.enabled_anywhere
      /\ m.verifier = main.verifier /\ m.credentials = main.credentials
  BY DEF IInv, TypeInv, MainType
<1> QED
  BY <1>1, <1>2, SetLimitInv

LEMMA SetFlagInv ==
  ASSUME IInv, NEW field \in {"log_denies", "log_all"}, NEW v \in OnOffs, SetFlag(field, v)
  PROVE  IInv'
<1> DEFINE m == [main EXCEPT ![field] = v]
<1>1. phase = "parsing" /\ (Fail \/ Keep(m))
  BY DEF SetFlag
<1>2. /\ m \in MainType /\ m.enabled_anywhere = main.enabled_anywhere
      /\ m.verifier = main.verifier /\ m.credentials = main.credentials
  BY DEF IInv, TypeInv, MainType
<1> QED
  BY <1>1, <1>2, SetLimitInv

LEMMA SetMethodsInv ==
  ASSUME IInv, NEW methods, SetMethods(methods)
  PROVE  IInv'
<1> DEFINE m == [main EXCEPT !.supported_methods = methods]
<1>1. phase = "parsing"
  BY DEF SetMethods
<1>2. CASE Fail
  BY <1>1, <1>2, FailInv
<1>3. CASE ~Fail
  <2>1. Keep(m) /\ methods \in SUBSET {Text("GET"), Text("HEAD")}
    BY <1>3 DEF SetMethods
  <2>2. /\ m \in MainType /\ m.enabled_anywhere = main.enabled_anywhere
        /\ m.verifier = main.verifier /\ m.credentials = main.credentials
    BY <2>1 DEF IInv, TypeInv, MainType
  <2> QED
    BY <1>1, <2>1, <2>2, SetLimitInv
<1> QED
  BY <1>2, <1>3

LEMMA SetCredentialInv ==
  ASSUME IInv, NEW line \in CredentialLines, SetCredential(line)
  PROVE  IInv'
<1> DEFINE m == [main EXCEPT !.credentials = Append(@, line)]
           lines == main.credentials
<1>1. phase = "parsing"
  BY DEF SetCredential
<1>2. CASE Fail
  BY <1>1, <1>2, FailInv
<1>3. CASE ~Fail
  <2>1. /\ Keep(m) /\ line \in ParsedLines
        /\ \A i \in DOMAIN lines : lines[i].access_key.word # line.access_key.word
    BY <1>3 DEF SetCredential, ParsedLines
  <2>2. main \in MainType /\ lines \in Seq(ParsedLines)
    BY DEF IInv, TypeInv, MainType
  <2>3. Append(lines, line) \in Seq(ParsedLines)
    BY <2>1, <2>2
  <2>4. /\ m \in MainType /\ m.enabled_anywhere = main.enabled_anywhere
        /\ m.verifier = main.verifier /\ m.credentials = Append(lines, line)
    BY <2>2, <2>3 DEF MainType
  <2>5. DistinctKeys(lines)
    BY DEF IInv, MainInv
  <2>6. DistinctKeys(Append(lines, line))
    <3> DEFINE longer == Append(lines, line)
    <3>1. SUFFICES ASSUME NEW i \in DOMAIN longer, NEW j \in DOMAIN longer,
                          longer[i].access_key.word = longer[j].access_key.word
                   PROVE  i = j
      BY DEF DistinctKeys
    <3>2. /\ DOMAIN longer = 1..(Len(lines) + 1) /\ DOMAIN lines = 1..Len(lines)
          /\ \A k \in DOMAIN lines : longer[k] = lines[k]
          /\ longer[Len(lines) + 1] = line
          /\ Len(lines) \in Nat
      BY <2>2
    <3> HIDE DEF longer, lines
    <3> QED
      BY <2>1, <2>5, <3>1, <3>2 DEF DistinctKeys
  <2> QED
    BY <1>1, <2>1, <2>4, <2>6, KeepInv
<1> QED
  BY <1>2, <1>3

LEMMA InitMainConfInv ==
  ASSUME IInv, InitMainConf
  PROVE  IInv'
<1>1. phase = "parsing" /\ merged = {}
  BY DEF InitMainConf, IInv, ModeInv
<1>2. CASE Fail
  BY <1>1, <1>2, FailInv
<1>3. CASE ~Fail
  <2> DEFINE st == IF main.credentials = <<>> THEN None
                   ELSE CompileState(SettingsOf(main), CredentialsOf(main))
  <2>1. /\ ~InitError(main)
        /\ main' = [main EXCEPT !.verifier = st]
        /\ phase' = "merging" /\ UNCHANGED <<mode, merged, declared>>
    BY <1>3 DEF InitMainConf
  <2>2. st \in CompiledStates \cup {None}
    BY CompiledType DEF IInv, TypeInv
  <2>3. /\ main' \in MainType /\ main'.verifier = st
        /\ main'.credentials = main.credentials
        /\ main'.enabled_anywhere = main.enabled_anywhere
        /\ SettingsOf(main') = SettingsOf(main)
        /\ CredentialsOf(main') = CredentialsOf(main)
    <3> HIDE DEF st
    <3> QED
      BY <2>1, <2>2 DEF IInv, TypeInv, MainType, SettingsOf, CredentialsOf
  <2>4. TypeInv'
    BY <2>1, <2>3 DEF IInv, TypeInv
  <2>5. ModeInv'
    BY <1>1, <2>1 DEF IInv, ModeInv
  <2>6. main.credentials = <<>> => ~main.enabled_anywhere
    BY <2>1 DEF InitError
  <2>7. MainInv'
    BY <2>1, <2>3, <2>6 DEF IInv, MainInv, DistinctKeys
  <2> QED
    BY <2>4, <2>5, <2>7 DEF IInv
<1> QED
  BY <1>2, <1>3

LEMMA MergeLocConfInv ==
  ASSUME IInv, NEW b \in Blocks, MergeLocConf(b)
  PROVE  IInv'
<1> DEFINE m == MergeMode(mode[b], mode[Parent[b]])
<1>1. /\ phase = "merging" /\ b \notin merged /\ Parent[b] \in merged \cup {"http"}
      /\ mode' = [mode EXCEPT ![b] = m] /\ merged' = merged \cup {b}
      /\ phase' = (IF merged' = Blocks THEN "loaded" ELSE "merging")
      /\ UNCHANGED <<main, declared>>
  BY DEF MergeLocConf
<1>2. /\ b \in AllBlocks /\ "http" \in AllBlocks \ merged /\ merged \subseteq Blocks
      /\ b # "http" /\ Parent[b] \in AllBlocks
  BY TreeAssumption DEF AllBlocks, IInv, TypeInv
<1>3. m \in ModeNames /\ mode[b] = declared[b]
  BY <1>1, <1>2 DEF IInv, TypeInv, ModeInv, MergeMode, ModeNames
<1>4. \A c \in AllBlocks : mode'[c] = IF c = b THEN m ELSE mode[c]
  BY <1>1 DEF IInv, TypeInv
<1>5. LET set == {c \in Around(b) : declared[c] # "unset"} IN
      IF set = {} THEN m = "off"
      ELSE \E c \in set : m = declared[c] /\ \A d \in set : d \in Around(c)
  <2>1. \/ Parent[b] = "http" /\ mode["http"] = declared["http"]
        \/ Nearest(Parent[b])
    BY <1>1, <1>2 DEF IInv, ModeInv
  <2> QED
    BY <1>3, <2>1, NearestMerged DEF IInv
<1> HIDE DEF m
<1>6. TypeInv'
  BY <1>1, <1>2, <1>3 DEF IInv, TypeInv
<1>7. \A c \in merged' :
        Nearest(c)' /\ Outward(c)' /\ Around(c)' \subseteq merged' \cup {"http"}
  <2>1. Nearest(b)'
    BY <1>1, <1>2, <1>4, <1>5 DEF Nearest
  <2>2. ASSUME NEW c \in merged
        PROVE  Nearest(c)'
    <3>1. Nearest(c) /\ mode'[c] = mode[c] /\ declared' = declared
      BY <1>1, <1>2, <1>4 DEF IInv, ModeInv, AllBlocks
    <3> QED
      BY <3>1 DEF Nearest
  <2>3. Outward(b) /\ Around(b) \subseteq merged' \cup {"http"}
    BY <1>1, <1>2, OutwardMerged DEF IInv, ModeInv
  <2>4. \A c \in merged : Outward(c) /\ Around(c) \subseteq merged' \cup {"http"}
    BY <1>1 DEF IInv, ModeInv
  <2>5. \A c : Outward(c)' = Outward(c) /\ Around(c)' = Around(c)
    BY DEF Outward, Around
  <2> QED
    BY <1>1, <2>1, <2>2, <2>3, <2>4, <2>5
<1>8. ModeInv'
  <2>1. \A c \in AllBlocks \ merged' : mode'[c] = declared'[c]
    BY <1>1, <1>4 DEF IInv, ModeInv
  <2>2. (phase' = "parsing" => merged' = {}) /\ (phase' = "loaded" => merged' = Blocks)
    BY <1>1
  <2> QED
    BY <1>7, <2>1, <2>2 DEF ModeInv
<1>9. MainInv'
  BY <1>1 DEF IInv, MainInv
<1> QED
  BY <1>6, <1>8, <1>9 DEF IInv

LEMMA StepInv == IInv /\ [Next]_vars => IInv'
<1> SUFFICES ASSUME IInv, [Next]_vars PROVE IInv'
  OBVIOUS
<1>1. CASE UNCHANGED vars
  BY <1>1 DEF vars, IInv, TypeInv, ModeInv, Nearest, MainInv
<1>2. CASE Next
  BY <1>2, SetModeInv, SetDurationInv, SetFlagInv, SetMethodsInv, SetCredentialInv,
     InitMainConfInv, MergeLocConfInv DEF Next
<1> QED
  BY <1>1, <1>2
-------------------------------------------------------------------------------
THEOREM Inductive == Spec => []IInv
BY InitInv, StepInv, PTL DEF Spec

\* A block that verifies was told to, or a block around it was.
LEMMA VerifyingWasWritten ==
  ASSUME IInv, phase = "loaded", NEW b \in Blocks, Verifies(mode[b])
  PROVE  \E c \in AllBlocks : Verifies(declared[c])
<1>1. Nearest(b) /\ b \in AllBlocks
  BY DEF IInv, ModeInv, AllBlocks
<1>2. mode[b] # "off"
  BY DEF Verifies
<1>3. PICK c \in Around(b) : mode[b] = declared[c]
  BY <1>1, <1>2 DEF Nearest
<1> QED
  BY <1>1, <1>3, AroundSelf

LEMMA LoadedVerifier ==
  ASSUME IInv, phase = "loaded", NEW b \in Blocks, Verifies(mode[b])
  PROVE  main.verifier # None /\ DOMAIN main.verifier.credentials # {}
<1>1. main \in MainType /\ DistinctKeys(main.credentials)
  BY DEF IInv, TypeInv, MainInv
<1>2. main.credentials # <<>> /\ main.verifier = CompileState(SettingsOf(main), CredentialsOf(main))
  BY VerifyingWasWritten DEF IInv, MainInv
<1>3. main.verifier # None
  BY <1>1, <1>2, CompiledType, NoneAssumption
<1>4. 1 \in DOMAIN main.credentials
  BY <1>1, <1>2 DEF MainType
<1>5. main.credentials[1].access_key.word \in DOMAIN main.verifier.credentials
  BY <1>1, <1>2, <1>4, CompiledLine
<1> QED
  BY <1>3, <1>5

\* Whatever the file, a block that verifies is only loaded with a verifier
\* that knows a credential.
THEOREM VerifierPresent == Spec => []VerifierWhereNeeded
<1>1. IInv => VerifierWhereNeeded
  BY LoadedVerifier DEF VerifierWhereNeeded
<1> QED
  BY <1>1, Inductive, PTL

\* A loaded block enforces exactly where the nearest mode written says on.
LEMMA LoadedModes ==
  ASSUME IInv, phase = "loaded", NEW b \in Blocks
  PROVE  mode[b] = "on" <=>
           \E near \in Around(b) :
             /\ declared[near] = "on"
             /\ \A a \in Around(b) : declared[a] # "unset" => a \in Around(near)
<1>1. Nearest(b) /\ Outward(b)
  BY DEF IInv, ModeInv
<1>2. CASE mode[b] = "on"
  <2>1. PICK c \in Around(b) :
          mode[b] = declared[c] /\ \A d \in Around(b) : declared[d] # "unset" => d \in Around(c)
    BY <1>1, <1>2 DEF Nearest
  <2> QED
    BY <1>2, <2>1
<1>3. ASSUME NEW near \in Around(b), declared[near] = "on",
             \A a \in Around(b) : declared[a] # "unset" => a \in Around(near)
      PROVE  mode[b] = "on"
  <2>1. PICK c \in Around(b) :
          /\ declared[c] # "unset" /\ mode[b] = declared[c]
          /\ \A d \in Around(b) : declared[d] # "unset" => d \in Around(c)
    BY <1>1, <1>3 DEF Nearest
  <2>2. c = near
    BY <1>1, <1>3, <2>1 DEF Outward
  <2> QED
    BY <1>3, <2>1, <2>2
<1> QED
  BY <1>2, <1>3

\* An argument that may not be repeated has one value, or none.
LEMMA OneValue ==
  ASSUME NEW args, IsFiniteSet(DOMAIN args), NEW keys,
         Cardinality(Given(args, keys)) \leq 1
  PROVE  Given(args, keys) = {} \/ \E i \in DOMAIN args : Given(args, keys) = {i}
<1>1. Given(args, keys) \in SUBSET DOMAIN args
  BY DEF Given
<1>2. IsFiniteSet(Given(args, keys)) /\ Cardinality(Given(args, keys)) \in Nat
  BY <1>1, FS_Subset, FS_CardinalityType
<1>3. Cardinality(Given(args, keys)) = 0 \/ Cardinality(Given(args, keys)) = 1
  BY <1>2
<1>4. CASE Cardinality(Given(args, keys)) = 0
  BY <1>2, <1>4, FS_EmptySet
<1>5. CASE Cardinality(Given(args, keys)) = 1
  <2>1. PICK i : Given(args, keys) = {i}
    BY <1>2, <1>5, FS_Singleton
  <2> QED
    BY <1>1, <2>1
<1> QED
  BY <1>3, <1>4, <1>5

LEMMA ParsedArgs ==
  ASSUME NEW line \in ParsedLines
  PROVE  /\ IsFiniteSet(DOMAIN line.args)
         /\ Cardinality(Given(line.args, {"enabled"})) \leq 1
         /\ Cardinality(Given(line.args, {"secret_key", "secret_key_file"})) = 1
         /\ \A i \in DOMAIN line.args : ~BadArgument(line.args[i])
<1>1. line \in CredentialLines /\ ~LineError(line)
  BY DEF ParsedLines
<1>2. IsFiniteSet(DOMAIN line.args)
  BY <1>1, LinesAssumption
<1>3. /\ ~(Cardinality(Given(line.args, {"enabled"})) > 1)
      /\ Cardinality(Given(line.args, {"secret_key", "secret_key_file"})) = 1
      /\ \A i \in DOMAIN line.args : ~BadArgument(line.args[i])
  BY <1>1 DEF LineError
<1>4. Given(line.args, {"enabled"}) \in SUBSET DOMAIN line.args
  BY DEF Given
<1>5. Cardinality(Given(line.args, {"enabled"})) \in Nat
  BY <1>2, <1>4, FS_Subset, FS_CardinalityType
<1> QED
  BY <1>2, <1>3, <1>5

\* A credential is enabled unless its line says off.
LEMMA EnabledResolved ==
  ASSUME NEW line \in ParsedLines
  PROVE  /\ Resolve(line).enabled \in BOOLEAN
         /\ Resolve(line).enabled <=> FALSE \notin Values(line.args, "enabled")
<1> DEFINE args == line.args
           values == Values(args, "enabled")
<1>1. Resolve(line).enabled = TheOrElse(values, TRUE)
  BY DEF Resolve
<1>2. CASE Given(args, {"enabled"}) = {}
  BY <1>1, <1>2 DEF Values, TheOrElse
<1>3. ASSUME NEW i \in DOMAIN args, Given(args, {"enabled"}) = {i}
      PROVE  /\ Resolve(line).enabled \in BOOLEAN
             /\ Resolve(line).enabled <=> FALSE \notin values
  <2>1. values = {args[i].value} /\ args[i].key = "enabled"
    BY <1>3 DEF Values, Given
  <2>2. line \in CredentialLines /\ ~BadArgument(args[i])
    BY ParsedArgs DEF ParsedLines
  <2>3. args[i].value # Malformed /\ args[i].shape # "flag"
    BY <2>1, <2>2 DEF BadArgument, FlagKeys
  <2>4. args[i].value \in BOOLEAN
    BY <2>1, <2>2, <2>3, LinesAssumption
  <2>5. TheOrElse(values, TRUE) = args[i].value
    BY <2>1 DEF TheOrElse
  <2> QED
    BY <1>1, <2>1, <2>4, <2>5
<1> QED
  BY <1>2, <1>3, OneValue, ParsedArgs

\* The secret is the one the line gives, or its file holds.
LEMMA SecretResolved ==
  ASSUME NEW line \in ParsedLines, NEW secret
  PROVE  Resolve(line).secret_key = secret <=>
           secret \in Values(line.args, "secret_key")
             \cup {FileSecret[f] : f \in Values(line.args, "secret_key_file")}
<1> DEFINE args == line.args
           Chosen == LoadSecret(args)
           Offered == Values(args, "secret_key")
                        \cup {FileSecret[f] : f \in Values(args, "secret_key_file")}
<1>1. Resolve(line).secret_key = Chosen
  BY DEF Resolve
<1>2. Given(args, {"secret_key", "secret_key_file"}) # {}
  <2>1. Cardinality(Given(args, {"secret_key", "secret_key_file"})) = 1
    BY ParsedArgs
  <2>2. Cardinality({}) = 0
    BY FS_EmptySet
  <2> QED
    BY <2>1, <2>2
<1>3. PICK i \in DOMAIN args : Given(args, {"secret_key", "secret_key_file"}) = {i}
  <2>1. IsFiniteSet(DOMAIN args) /\ Cardinality(Given(args, {"secret_key", "secret_key_file"})) \leq 1
    BY ParsedArgs
  <2> QED
    BY <1>2, <2>1, OneValue
<1>4. CASE args[i].key = "secret_key"
  <2>1. Given(args, {"secret_key"}) = {i} /\ Given(args, {"secret_key_file"}) = {}
    BY <1>3, <1>4 DEF Given
  <2>2. Values(args, "secret_key") = {args[i].value} /\ Values(args, "secret_key_file") = {}
    BY <2>1 DEF Values
  <2>3. Chosen = args[i].value
    BY <2>1, <2>2 DEF LoadSecret, TheOrElse
  <2>4. Offered = {args[i].value}
    BY <2>2
  <2> QED
    BY <1>1, <2>3, <2>4
<1>5. CASE args[i].key # "secret_key"
  <2>1. Given(args, {"secret_key"}) = {} /\ Given(args, {"secret_key_file"}) = {i}
    BY <1>3, <1>5 DEF Given
  <2>2. Values(args, "secret_key") = {} /\ Values(args, "secret_key_file") = {args[i].value}
    BY <2>1 DEF Values
  <2>3. Chosen = FileSecret[args[i].value]
    BY <2>1, <2>2 DEF LoadSecret, TheOrElse
  <2>4. Offered = {FileSecret[args[i].value]}
    BY <2>2
  <2> QED
    BY <1>1, <2>3, <2>4
<1> QED
  BY <1>4, <1>5

LEMMA CompiledFields ==
  ASSUME NEW c, NEW default
  PROVE  /\ CompileCredential(c, default).enabled = c.enabled
         /\ CompileCredential(c, default).seed = <<"AWS4", c.secret_key>>
BY DEF CompileCredential

\* What a loaded verifier knows of an access key is what its line says.
LEMMA LoadedLines ==
  ASSUME IInv, phase = "loaded", main.verifier # None, NEW key, NEW secret
  PROVE  LET known == main.verifier.credentials IN
         (key \in DOMAIN known /\ known[key].enabled /\ known[key].seed = <<"AWS4", secret>>) <=>
           \E i \in DOMAIN main.credentials :
             LET line == main.credentials[i] IN
             /\ line.access_key.word = key
             /\ FALSE \notin Values(line.args, "enabled")
             /\ secret \in Values(line.args, "secret_key")
                  \cup {FileSecret[f] : f \in Values(line.args, "secret_key_file")}
<1> DEFINE lines == main.credentials
           known == main.verifier.credentials
           Says(line) == /\ FALSE \notin Values(line.args, "enabled")
                         /\ secret \in Values(line.args, "secret_key")
                              \cup {FileSecret[f] : f \in Values(line.args, "secret_key_file")}
<1>1. /\ main \in MainType /\ DistinctKeys(lines)
      /\ main.verifier = CompileState(SettingsOf(main), CredentialsOf(main))
  BY DEF IInv, TypeInv, MainInv
<1>2. \A i \in DOMAIN lines : lines[i] \in ParsedLines
  BY <1>1 DEF MainType
<1>3. DOMAIN known = {lines[i].access_key.word : i \in DOMAIN lines}
  <2>1. known = [ak \in {CredentialsOf(main)[i].access_key.word : i \in DOMAIN CredentialsOf(main)} |->
                   CompileCredential(CredentialsOf(main)[CHOOSE i \in DOMAIN CredentialsOf(main) :
                       CredentialsOf(main)[i].access_key.word = ak], DefaultExpires(SettingsOf(main)))]
    BY <1>1 DEF CompileState
  <2>2. DOMAIN CredentialsOf(main) = DOMAIN lines
        /\ \A i \in DOMAIN lines : CredentialsOf(main)[i].access_key.word = lines[i].access_key.word
    BY ResolvedKey DEF CredentialsOf
  <2>3. DOMAIN known = {CredentialsOf(main)[i].access_key.word : i \in DOMAIN CredentialsOf(main)}
    BY <2>1
  <2> HIDE DEF lines, known
  <2> QED
    BY <2>2, <2>3
<1>4. ASSUME NEW i \in DOMAIN lines
      PROVE  (known[lines[i].access_key.word].enabled
               /\ known[lines[i].access_key.word].seed = <<"AWS4", secret>>) <=> Says(lines[i])
  <2>1. known[lines[i].access_key.word]
          = CompileCredential(Resolve(lines[i]), DefaultExpires(SettingsOf(main)))
    BY <1>1, CompiledLine
  <2>2. /\ known[lines[i].access_key.word].enabled = Resolve(lines[i]).enabled
        /\ known[lines[i].access_key.word].seed = <<"AWS4", Resolve(lines[i]).secret_key>>
    BY <2>1, CompiledFields
  <2>3. Resolve(lines[i]).enabled <=> FALSE \notin Values(lines[i].args, "enabled")
    BY <1>2, EnabledResolved
  <2>4. Resolve(lines[i]).secret_key = secret <=>
          secret \in Values(lines[i].args, "secret_key")
            \cup {FileSecret[f] : f \in Values(lines[i].args, "secret_key_file")}
    BY <1>2, SecretResolved
  <2>5. known[lines[i].access_key.word].seed = <<"AWS4", secret>> <=> Resolve(lines[i]).secret_key = secret
    <3> HIDE DEF known, lines
    <3> QED
      BY <2>2
  <2>6. known[lines[i].access_key.word].enabled <=> Resolve(lines[i]).enabled
    BY <2>2
  <2> HIDE DEF known, lines
  <2> QED
    BY <2>3, <2>4, <2>5, <2>6
<1> HIDE DEF lines, known, Says
<1>5. (key \in DOMAIN known /\ known[key].enabled /\ known[key].seed = <<"AWS4", secret>>) <=>
        \E i \in DOMAIN lines : lines[i].access_key.word = key /\ Says(lines[i])
  BY <1>3, <1>4
<1> QED
  BY <1>5 DEF lines, known, Says

\* A list and its waiver exclude each other on a line that is parsed.
LEMMA ParsedLine ==
  ASSUME NEW line \in ParsedLines, NEW d \in Dimensions
  PROVE  /\ Given(line.args, {d[1]}) = {} <=> Given(line.args, {d[2]}) # {}
         /\ \A i \in DOMAIN line.args : ~BadArgument(line.args[i])
BY DEF ParsedLines, LineError

\* What a list holds comes from arguments with a text.
LEMMA ListedText ==
  ASSUME NEW line \in ParsedLines, NEW key \in ListKeys, NEW v \in Values(line.args, key)
  PROVE  \E i \in DOMAIN line.args :
           line.args[i].value = v /\ line.args[i].key = key /\ line.args[i].shape = "text"
<1>1. PICK i \in Given(line.args, {key}) : line.args[i].value = v
  BY DEF Values
<1>2. i \in DOMAIN line.args /\ line.args[i].key = key
  BY <1>1 DEF Given
<1>3. line \in CredentialLines /\ ~BadArgument(line.args[i])
  BY <1>2 DEF ParsedLines, LineError
<1>4. line.args[i].shape \in {"flag", "empty", "blank", "text"}
  BY <1>2, <1>3, LinesAssumption
<1>5. line.args[i].shape = "text"
  BY <1>2, <1>3, <1>4 DEF BadArgument, ListKeys, FlagKeys
<1> QED
  BY <1>1, <1>2, <1>5

LEMMA NothingListed ==
  ASSUME NEW args, NEW key
  PROVE  Values(args, key) = {} <=> Given(args, {key}) = {}
BY DEF Values

LEMMA WordsLeft ==
  ASSUME NEW texts
  PROVE  /\ Words(texts) = {} <=> texts = {}
         /\ (\A v \in texts : v.word # "") => (Words(texts) \ {""} = {} <=> texts = {})
<1>1. \A v \in texts : v.word \in Words(texts)
  BY DEF Words
<1>2. \A w \in Words(texts) : \E v \in texts : w = v.word
  BY DEF Words
<1> QED
  BY <1>1, <1>2

\* A compiled credential is unrestricted in a dimension only where its line
\* waives the dimension.
THEOREM RestrictionsSurvive == Spec => []RestrictedUnlessWaived
<1>1. IInv => RestrictedUnlessWaived
  <2> SUFFICES ASSUME IInv, phase = "loaded", NEW i \in DOMAIN main.credentials
               PROVE  LET line == main.credentials[i]
                          compiled == main.verifier.credentials[line.access_key.word]
                          Waived(flag) == Given(line.args, {flag}) # {}
                      IN /\ compiled.hosts = {} <=> Waived("allow_any_host")
                         /\ compiled.methods = {} <=> Waived("allow_default_methods")
                         /\ compiled.prefixes = {} <=> Waived("allow_any_prefix")
    BY DEF RestrictedUnlessWaived
  <2> DEFINE line == main.credentials[i]
             compiled == main.verifier.credentials[line.access_key.word]
             hosts == Values(line.args, "allowed_host")
             methods == Values(line.args, "allowed_method")
             prefixes == Values(line.args, "allowed_prefix")
  <2>1. main \in MainType /\ DistinctKeys(main.credentials) /\ line \in ParsedLines
    BY DEF IInv, TypeInv, MainInv, MainType
  <2>2. main.credentials # <<>>
    BY <2>1
  <2>3. main.verifier = CompileState(SettingsOf(main), CredentialsOf(main))
    BY <2>2 DEF IInv, MainInv
  <2>4. compiled = CompileCredential(Resolve(line), DefaultExpires(SettingsOf(main)))
    BY <2>1, <2>3, CompiledLine
  <2>5. /\ compiled.hosts = Words(hosts) \ {""}
        /\ compiled.methods = Words(methods)
        /\ compiled.prefixes = prefixes \ {<<>>}
    <3>1. /\ Resolve(line).allowed_hosts = hosts
          /\ Resolve(line).allowed_methods = methods
          /\ Resolve(line).allowed_prefixes = prefixes
      BY DEF Resolve
    <3> HIDE DEF compiled, line, hosts, methods, prefixes
    <3> QED
      BY <2>4, <3>1 DEF CompileCredential
  <2>6. compiled.hosts = {} <=> hosts = {}
    <3>1. ASSUME NEW v \in hosts PROVE v.word # ""
      <4>1. PICK k \in DOMAIN line.args :
              /\ line.args[k].value = v /\ line.args[k].key = "allowed_host"
              /\ line.args[k].shape = "text"
        BY <2>1, ListedText DEF ListKeys
      <4> QED
        BY <2>1, <4>1, LinesAssumption DEF ParsedLines
    <3> HIDE DEF compiled, hosts
    <3> QED
      BY <2>5, <3>1, WordsLeft
  <2>7. compiled.methods = {} <=> methods = {}
    <3> HIDE DEF compiled, methods
    <3> QED
      BY <2>5, WordsLeft
  <2>8. compiled.prefixes = {} <=> prefixes = {}
    <3>1. ASSUME NEW v \in prefixes PROVE v # <<>>
      <4>1. PICK k \in DOMAIN line.args :
              /\ line.args[k].value = v /\ line.args[k].key = "allowed_prefix"
              /\ line.args[k].shape = "text"
        BY <2>1, ListedText DEF ListKeys
      <4> QED
        BY <2>1, <4>1, LinesAssumption DEF ParsedLines
    <3> QED
      BY <2>5, <3>1
  <2>9. \A d \in Dimensions : Given(line.args, {d[1]}) = {} <=> Given(line.args, {d[2]}) # {}
    BY <2>1, ParsedLine
  <2>10. /\ hosts = {} <=> Given(line.args, {"allow_any_host"}) # {}
         /\ methods = {} <=> Given(line.args, {"allow_default_methods"}) # {}
         /\ prefixes = {} <=> Given(line.args, {"allow_any_prefix"}) # {}
    BY <2>9, NothingListed DEF Dimensions
  <2> QED
    BY <2>6, <2>7, <2>8, <2>10
<1> QED
  BY <1>1, Inductive, PTL

\* A block runs in the mode written nearest to it, at any depth.
THEOREM ModesAreInherited == Spec => []NearestModeWins
<1>1. IInv => NearestModeWins
  <2> SUFFICES ASSUME IInv, phase = "loaded", NEW b \in Blocks PROVE Nearest(b)
    BY DEF NearestModeWins, Nearest
  <2> QED
    BY DEF IInv, ModeInv
<1> QED
  BY <1>1, Inductive, PTL

-------------------------------------------------------------------------------
\* The deployment.

LoadedConfs ==
  [ mode        : [AllBlocks -> ModeNames],
    verifier    : CompiledStates \cup {None},
    log_denies  : OnOffs \cup {TRUE},
    log_all     : OnOffs \cup {FALSE},
    declared    : [AllBlocks -> ModeNames],
    credentials : Seq(ParsedLines) ]

\* What a configuration is to the handler is what its file says.
TrueToFile(c) ==
  /\ \A b \in Blocks :
       /\ Verifies(c.mode[b]) => c.verifier # None
       /\ c.mode[b] = "on" <=> EnforcedInFile(c, b)
  /\ c.verifier # None =>
       \A r \in Requests : Verdict(c.verifier, r).allowed <=> EntitledInFile(c, r)

CyclesInv ==
  /\ cycles \in Seq(LoadedConfs)
  /\ \A n \in DOMAIN cycles : TrueToFile(cycles[n])

WorkersInv ==
  /\ worker \in [Workers -> [stage : {"none", "serving", "draining", "dead"}, cycle : Nat]]
  /\ \A w \in Workers : worker[w].stage # "none" => worker[w].cycle \in DOMAIN cycles
  /\ at \in [Requests -> Workers \cup {None}]
  /\ arrived \in [Requests -> Nat]
  /\ \A r \in Requests : at[r] # None => Alive(at[r]) /\ arrived[r] = worker[at[r]].cycle

Fields == {"stage", "block", "ctx", "status", "outcome", "logged", "redirects"}

\* The answer q to a request r is the one configuration c gives.
DecidedBy(c, r, q) ==
  /\ EnforcedInFile(c, q.block) /\ q.status \in {"NGX_OK", "NGX_DECLINED"} => EntitledInFile(c, r)
  /\ q.status = "FORBIDDEN" => EnforcedInFile(c, q.block) /\ ~EntitledInFile(c, r)

RequestOK(r, q) ==
  LET c == cycles[arrived[r]] IN
  /\ DOMAIN q = Fields
  /\ q.stage \in {"access", "verify", "panicked"} => at[r] # None /\ q.block \in Blocks
  /\ q.stage \in {"verify", "panicked"} => Verifies(c.mode[q.block]) /\ c.verifier # None
  /\ q.stage = "answered" => arrived[r] \in DOMAIN cycles /\ q.block \in Blocks /\ DecidedBy(c, r, q)

RequestsInv ==
  /\ req = [r \in Requests |-> req[r]]
  /\ \A r \in Requests : RequestOK(r, req[r])

IdleInv == loading \in BOOLEAN /\ (~loading => phase = "parsing")

DeployInv == IInv /\ IdleInv /\ CyclesInv /\ WorkersInv /\ RequestsInv
-------------------------------------------------------------------------------
\* A configuration that has loaded is true to its file.
LEMMA LoadedIsTrue ==
  ASSUME IInv, phase = "loaded"
  PROVE  Loaded \in LoadedConfs /\ TrueToFile(Loaded)
<1>1. main \in MainType /\ mode \in [AllBlocks -> ModeNames] /\ declared \in [AllBlocks -> ModeNames]
  BY DEF IInv, TypeInv
<1>2. /\ Loaded.mode = mode /\ Loaded.verifier = main.verifier
      /\ Loaded.declared = declared /\ Loaded.credentials = main.credentials
  BY DEF Loaded
<1>3. Loaded \in LoadedConfs
  <2>1. OrElse(main.log_denies, TRUE) \in OnOffs \cup {TRUE}
    BY <1>1 DEF OrElse, MainType
  <2>2. OrElse(main.log_all, FALSE) \in OnOffs \cup {FALSE}
    BY <1>1 DEF OrElse, MainType
  <2>3. main.verifier \in CompiledStates \cup {None} /\ main.credentials \in Seq(ParsedLines)
    BY <1>1 DEF MainType
  <2> QED
    BY <1>1, <2>1, <2>2, <2>3 DEF Loaded, LoadedConfs
<1>4. ASSUME NEW b \in Blocks
      PROVE  /\ Verifies(Loaded.mode[b]) => Loaded.verifier # None
             /\ Loaded.mode[b] = "on" <=> EnforcedInFile(Loaded, b)
  <2>1. Verifies(mode[b]) => main.verifier # None
    BY LoadedVerifier
  <2>2. mode[b] = "on" <=> EnforcedInFile(Loaded, b)
    BY <1>2, LoadedModes DEF EnforcedInFile
  <2> QED
    BY <1>2, <2>1, <2>2
<1>5. ASSUME Loaded.verifier # None, NEW r \in Requests
      PROVE  Verdict(Loaded.verifier, r).allowed <=> EntitledInFile(Loaded, r)
  <2> DEFINE key == SignedWith[r].access_key
             secret == SignedWith[r].secret_key
             known == main.verifier.credentials
  <2>1. Verdict(main.verifier, r).allowed <=>
          key \in DOMAIN known /\ known[key].enabled /\ known[key].seed = <<"AWS4", secret>>
    BY DEF Verdict
  <2>2. EntitledInFile(Loaded, r) <=>
          \E i \in DOMAIN main.credentials :
            LET line == main.credentials[i] IN
            /\ line.access_key.word = key
            /\ FALSE \notin Values(line.args, "enabled")
            /\ secret \in Values(line.args, "secret_key")
                 \cup {FileSecret[f] : f \in Values(line.args, "secret_key_file")}
    BY <1>2 DEF EntitledInFile
  <2> HIDE DEF key, secret, known
  <2>3. (key \in DOMAIN known /\ known[key].enabled /\ known[key].seed = <<"AWS4", secret>>) <=>
          \E i \in DOMAIN main.credentials :
            LET line == main.credentials[i] IN
            /\ line.access_key.word = key
            /\ FALSE \notin Values(line.args, "enabled")
            /\ secret \in Values(line.args, "secret_key")
                 \cup {FileSecret[f] : f \in Values(line.args, "secret_key_file")}
    BY <1>2, <1>5, LoadedLines DEF known
  <2> QED
    BY <1>2, <2>1, <2>2, <2>3
<1> QED
  BY <1>3, <1>4, <1>5 DEF TrueToFile
-------------------------------------------------------------------------------
\* The master

\* A load that is stopped, by whatever hook of nginx, keeps the invariant.
LEMMA StoppedInv ==
  ASSUME IInv, phase' \in {"failed", phase}, UNCHANGED <<main, mode, merged, declared>>
  PROVE  IInv'
<1>1. TypeInv'
  BY DEF IInv, TypeInv
<1>2. ModeInv'
  BY DEF IInv, ModeInv, Nearest, Outward
<1>3. MainInv'
  BY DEF IInv, MainInv
<1> QED
  BY <1>1, <1>2, <1>3 DEF IInv

LEMMA DroppedInv ==
  ASSUME DropLoad
  PROVE  IInv' /\ IdleInv'
<1>1. Init'
  BY DEF DropLoad, Init
<1>2. Init' => IInv'
  BY InitInv, PTL
<1> QED
  BY <1>1, <1>2 DEF DropLoad, IdleInv

LEMMA FreshFields == DOMAIN Handler(1)!Fresh = Fields /\ Handler(1)!Fresh.stage = "new"
BY DEF Handler!Fresh, Fields

LEMMA DeployInitInv == DeployInit => DeployInv
<1> SUFFICES ASSUME DeployInit PROVE DeployInv
  OBVIOUS
<1>1. IInv /\ IdleInv
  BY InitInv DEF DeployInit, Init, IdleInv
<1>2. CyclesInv
  BY DEF DeployInit, CyclesInv
<1>3. WorkersInv
  BY WorkersAssumption DEF DeployInit, WorkersInv, NoWorker
<1>4. RequestsInv
  BY FreshFields DEF DeployInit, RequestsInv, RequestOK
<1> QED
  BY <1>1, <1>2, <1>3, <1>4 DEF DeployInv

\* Nothing of the requests changes, and the configurations they are under stay.
LEMMA RequestsStay ==
  ASSUME RequestsInv, UNCHANGED <<at, arrived, req>>,
         \A n \in DOMAIN cycles : n \in DOMAIN cycles' /\ cycles'[n] = cycles[n],
         \A r \in Requests : at[r] # None => arrived[r] \in DOMAIN cycles
  PROVE  RequestsInv'
<1>1. ASSUME NEW r \in Requests
      PROVE  RequestOK(r, req[r])'
  <2>1. RequestOK(r, req[r])
    BY DEF RequestsInv
  <2>2. CASE arrived[r] \in DOMAIN cycles
    <3>1. cycles'[arrived[r]] = cycles[arrived[r]] /\ arrived[r] \in DOMAIN cycles'
      BY <2>2
    <3> QED
      BY <2>1, <3>1 DEF RequestOK
  <2>3. CASE arrived[r] \notin DOMAIN cycles
    BY <2>1, <2>3 DEF RequestOK
  <2> QED
    BY <2>2, <2>3
<1> QED
  BY <1>1 DEF RequestsInv

LEMMA UnderWay ==
  ASSUME WorkersInv, NEW r \in Requests, at[r] # None
  PROVE  /\ at[r] \in Workers /\ worker[at[r]].cycle = arrived[r]
         /\ worker[at[r]].stage \in {"serving", "draining"}
         /\ arrived[r] \in DOMAIN cycles
BY DEF WorkersInv, Alive

\* The load goes on, fails or is dropped; the workers do not notice.
LEMMA LoadInv ==
  ASSUME DeployInv, StartLoad \/ LoadStep \/ GiveUp \/ PostconfigurationFails
  PROVE  DeployInv'
<1>1. UNCHANGED <<cycles, worker, at, arrived, req>>
  BY DEF StartLoad, LoadStep, GiveUp, PostconfigurationFails, serving
<1>2. IInv' /\ IdleInv'
  <2>1. CASE StartLoad
    <3>1. /\ phase' \in {"failed", phase} /\ loading' = TRUE
          /\ UNCHANGED <<main, mode, merged, declared>>
      BY <2>1 DEF StartLoad, DeployInv, IdleInv
    <3> QED
      BY <3>1, StoppedInv DEF DeployInv, IdleInv
  <2>2. CASE LoadStep
    BY <2>2, StepInv DEF LoadStep, DeployInv, IdleInv
  <2>3. CASE GiveUp
    BY <2>3, DroppedInv DEF GiveUp
  <2>4. CASE PostconfigurationFails
    <3>1. phase' = "failed" /\ loading' /\ UNCHANGED <<main, mode, merged, declared>>
      BY <2>4 DEF PostconfigurationFails
    <3> QED
      BY <3>1, StoppedInv DEF DeployInv, IdleInv
  <2> QED
    BY <2>1, <2>2, <2>3, <2>4
<1>3. CyclesInv'
  BY <1>1 DEF DeployInv, CyclesInv
<1>4. WorkersInv'
  BY <1>1 DEF DeployInv, WorkersInv, Alive
<1>5. RequestsInv'
  BY <1>1, RequestsStay, UnderWay DEF DeployInv
<1> QED
  BY <1>2, <1>3, <1>4, <1>5 DEF DeployInv
\* A configuration is installed after the others, with workers of its own.
LEMMA InstallInv ==
  ASSUME DeployInv, Install
  PROVE  DeployInv'
<1>1. /\ phase = "loaded" /\ DropLoad
      /\ cycles' = Append(cycles, Loaded) /\ UNCHANGED <<at, arrived, req>>
  BY DEF Install, serving
<1>2. PICK fresh \in SUBSET Free :
        worker' = [w \in Workers |->
          IF w \in fresh THEN [stage |-> "serving", cycle |-> Len(cycles) + 1]
          ELSE IF worker[w].stage = "dead" THEN NoWorker ELSE worker[w]]
  BY DEF Install
<1>3. IInv' /\ IdleInv'
  BY <1>1, DroppedInv
<1>4. Loaded \in LoadedConfs /\ TrueToFile(Loaded)
  BY <1>1, LoadedIsTrue DEF DeployInv
<1>5. /\ cycles \in Seq(LoadedConfs) /\ Len(cycles) \in Nat /\ DOMAIN cycles = 1..Len(cycles)
      /\ cycles' \in Seq(LoadedConfs) /\ DOMAIN cycles' = 1..(Len(cycles) + 1)
      /\ \A n \in DOMAIN cycles : cycles'[n] = cycles[n]
      /\ cycles'[Len(cycles) + 1] = Loaded
  BY <1>1, <1>4 DEF DeployInv, CyclesInv
<1>6. CyclesInv'
  <2>1. ASSUME NEW n \in DOMAIN cycles'
        PROVE  TrueToFile(cycles'[n])
    <3>1. CASE n \in DOMAIN cycles
      BY <1>5, <3>1 DEF DeployInv, CyclesInv
    <3>2. CASE n = Len(cycles) + 1
      BY <1>4, <1>5, <3>2
    <3> QED
      BY <1>5, <2>1, <3>1, <3>2
  <2> QED
    BY <1>5, <2>1 DEF CyclesInv, TrueToFile, Verdict, EntitledInFile, EnforcedInFile
<1>7. WorkersInv'
  <2>1. worker' \in [Workers -> [stage : {"none", "serving", "draining", "dead"}, cycle : Nat]]
    BY <1>2, <1>5 DEF DeployInv, WorkersInv, NoWorker
  <2>2. \A w \in Workers : worker'[w].stage # "none" => worker'[w].cycle \in DOMAIN cycles'
    BY <1>2, <1>5 DEF DeployInv, WorkersInv, NoWorker
  <2>3. ASSUME NEW r \in Requests, at[r] # None
        PROVE  worker'[at[r]] = worker[at[r]]
    <3>1. at[r] \in Workers /\ worker[at[r]].stage \in {"serving", "draining"}
      BY <2>3, UnderWay DEF DeployInv
    <3>2. at[r] \notin fresh
      BY <3>1 DEF Free
    <3> QED
      BY <1>2, <3>1, <3>2
  <2> QED
    BY <1>1, <2>1, <2>2, <2>3 DEF DeployInv, WorkersInv, Alive
<1>8. RequestsInv'
  BY <1>1, <1>5, RequestsStay, UnderWay DEF DeployInv
<1> QED
  BY <1>3, <1>6, <1>7, <1>8 DEF DeployInv

\* A worker is told to finish, or another is started in its place.
LEMMA MasterInv ==
  ASSUME DeployInv, NEW w \in Workers, Retire(w) \/ Respawn(w)
  PROVE  DeployInv'
<1>1. /\ UNCHANGED <<phase, main, mode, merged, declared, loading, cycles, at, arrived, req>>
  BY DEF Retire, Respawn, Master, vars, serving
<1>2. IInv' /\ IdleInv'
  <2>1. IInv'
    BY <1>1, StoppedInv DEF DeployInv
  <2> QED
    BY <1>1, <2>1 DEF DeployInv, IdleInv
<1>3. CyclesInv'
  BY <1>1 DEF DeployInv, CyclesInv
<1>4. WorkersInv'
  <2> DEFINE new == IF Retire(w) THEN [worker[w] EXCEPT !.stage = "draining"]
                    ELSE [stage |-> "serving", cycle |-> Len(cycles)]
  <2>1. worker' = [worker EXCEPT ![w] = new] /\ worker[w].stage \in {"serving", "dead"}
    BY DEF Retire, Respawn, Master
  <2>2. worker[w].cycle \in DOMAIN cycles /\ cycles \in Seq(LoadedConfs)
    BY <2>1 DEF DeployInv, WorkersInv, CyclesInv
  <2>3. Len(cycles) \in DOMAIN cycles /\ Len(cycles) \in Nat
    BY <2>2
  <2>4. /\ new \in [stage : {"none", "serving", "draining", "dead"}, cycle : Nat]
        /\ new.stage \in {"serving", "draining"} /\ new.cycle \in DOMAIN cycles
        /\ Retire(w) => new.cycle = worker[w].cycle
    BY <2>2, <2>3 DEF DeployInv, WorkersInv
  <2>5. ~Retire(w) => worker[w].stage = "dead"
    BY DEF Respawn, Master
  <2> HIDE DEF new
  <2>6. worker' \in [Workers -> [stage : {"none", "serving", "draining", "dead"}, cycle : Nat]]
    BY <2>1, <2>4 DEF DeployInv, WorkersInv
  <2>7. \A v \in Workers : worker'[v].stage # "none" => worker'[v].cycle \in DOMAIN cycles'
    BY <1>1, <2>1, <2>4 DEF DeployInv, WorkersInv
  <2>8. ASSUME NEW r \in Requests, at[r] # None
        PROVE  worker'[at[r]].stage \in {"serving", "draining"} /\ arrived[r] = worker'[at[r]].cycle
    <3>1. /\ at[r] \in Workers /\ worker[at[r]].cycle = arrived[r]
          /\ worker[at[r]].stage \in {"serving", "draining"}
      BY <2>8, UnderWay DEF DeployInv
    <3>2. CASE at[r] = w
      BY <2>1, <2>4, <2>5, <3>1, <3>2 DEF DeployInv, WorkersInv
    <3>3. CASE at[r] # w
      BY <2>1, <3>1, <3>3 DEF DeployInv, WorkersInv
    <3> QED
      BY <3>2, <3>3
  <2> QED
    BY <1>1, <2>6, <2>7, <2>8 DEF DeployInv, WorkersInv, Alive
<1>5. RequestsInv'
  BY <1>1, RequestsStay, UnderWay DEF DeployInv
<1> QED
  BY <1>2, <1>3, <1>4, <1>5 DEF DeployInv
-------------------------------------------------------------------------------
\* The workers

\* A step of the workers leaves the load and the configurations alone.
LEMMA ServingInv ==
  ASSUME DeployInv, UNCHANGED <<vars, loading, cycles>>, WorkersInv', RequestsInv'
  PROVE  DeployInv'
<1>1. IInv' /\ IdleInv'
  <2>1. IInv'
    BY StoppedInv DEF DeployInv, vars
  <2> QED
    BY <2>1 DEF DeployInv, IdleInv, vars
<1>2. CyclesInv'
  BY DEF DeployInv, CyclesInv
<1> QED
  BY <1>1, <1>2 DEF DeployInv

\* The handler goes on with r as the record q says.
LEMMA GoesOnInv ==
  ASSUME DeployInv, NEW r \in Requests,
         UNCHANGED <<vars, loading, cycles, worker, at, arrived>>,
         NEW q, req' = [req EXCEPT ![r] = q], RequestOK(r, q)
  PROVE  DeployInv'
<1>1. \A s \in Requests : req'[s] = IF s = r THEN q ELSE req[s]
  BY DEF DeployInv, RequestsInv
<1>2. req' = [s \in Requests |-> req'[s]]
  BY <1>1 DEF DeployInv, RequestsInv
<1>3. ASSUME NEW s \in Requests
      PROVE  RequestOK(s, req[s])'
  <2>1. RequestOK(s, req'[s])
    BY <1>1 DEF DeployInv, RequestsInv
  <2> QED
    BY <2>1 DEF RequestOK
<1>4. RequestsInv'
  BY <1>2, <1>3 DEF RequestsInv
<1>5. WorkersInv'
  BY DEF DeployInv, WorkersInv, Alive
<1> QED
  BY <1>4, <1>5, ServingInv

\* A step that answers r, whatever it leaves in the context and the log.
LEMMA AnswersInv ==
  ASSUME DeployInv, NEW r \in Requests, at[r] # None, req[r].block \in Blocks,
         UNCHANGED <<vars, loading, cycles, worker, at, arrived>>,
         NEW q, req' = [req EXCEPT ![r] = q],
         DOMAIN q = Fields, q.stage = "answered", q.block = req[r].block,
         DecidedBy(cycles[arrived[r]], r, q)
  PROVE  DeployInv'
<1>1. RequestOK(r, q)
  BY UnderWay DEF RequestOK, DeployInv
<1> QED
  BY <1>1, GoesOnInv

\* The part of a request a handler step starts from.
LEMMA InHand ==
  ASSUME DeployInv, NEW r \in Requests, at[r] # None
  PROVE  LET c == cycles[arrived[r]] IN
         /\ worker[at[r]].cycle = arrived[r] /\ TrueToFile(c)
         /\ DOMAIN req[r] = Fields
         /\ req[r].stage \in {"access", "verify", "panicked"} => req[r].block \in Blocks
         /\ req[r].stage \in {"verify", "panicked"} =>
              Verifies(c.mode[req[r].block]) /\ c.verifier # None
BY UnderWay DEF DeployInv, CyclesInv, RequestsInv, RequestOK

\* The handler gives up with a 500, or declines because the block is off.
LEMMA ShortAnswerInv ==
  ASSUME DeployInv, NEW r \in Requests, at[r] # None,
         UNCHANGED <<vars, loading, cycles, worker, at, arrived>>,
         NEW n, n = worker[at[r]].cycle,
         Handler(n)!Unprepared(r) \/ Handler(n)!Decline(r) \/ Handler(n)!NotConfigured(r)
           \/ Handler(n)!Caught(r)
  PROVE  DeployInv'
<1>1. req[r].stage \in {"access", "panicked"} /\ req[r].block \in Blocks
  BY InHand DEF Handler!Unprepared, Handler!Decline, Handler!NotConfigured, Handler!Caught, Handler!At
<1>2. PICK status, ctx :
        /\ Handler(n)!Answer(r, status, ctx)
        /\ \/ status = "INTERNAL_SERVER_ERROR"
           \/ status = "NGX_DECLINED" /\ cycles[n].mode[req[r].block] # "on"
  BY DEF Handler!Unprepared, Handler!Decline, Handler!NotConfigured, Handler!Caught,
         Handler!ModeAt, Handler!Verifies
<1> DEFINE q == [req[r] EXCEPT !.stage = "answered", !.status = status, !.ctx = ctx]
<1>3. req' = [req EXCEPT ![r] = q]
  BY <1>2 DEF Handler!Answer, Handler!Update
<1>4. DOMAIN q = Fields /\ q.stage = "answered" /\ q.status = status /\ q.block = req[r].block
  BY InHand DEF Fields
<1> HIDE DEF q
<1>5. DecidedBy(cycles[arrived[r]], r, q)
  BY <1>1, <1>2, <1>4, InHand DEF DecidedBy, TrueToFile
<1> QED
  BY <1>1, <1>3, <1>4, <1>5, AnswersInv

LEMMA CallVerifyInv ==
  ASSUME DeployInv, NEW r \in Requests, at[r] # None,
         UNCHANGED <<vars, loading, cycles, worker, at, arrived>>,
         NEW n, n = worker[at[r]].cycle, Handler(n)!CallVerify(r) \/ Handler(n)!Panic(r)
  PROVE  DeployInv'
<1>0. PICK stage \in {"verify", "panicked"} :
        \E ctx : req' = [req EXCEPT ![r] = [req[r] EXCEPT !.stage = stage, !.ctx = ctx]]
  <2>1. CASE Handler(n)!CallVerify(r)
    BY <2>1 DEF Handler!CallVerify, Handler!Update
  <2>2. CASE Handler(n)!Panic(r)
    <3>1. req' = [req EXCEPT ![r] = [req[r] EXCEPT !.stage = "panicked"]]
      BY <2>2 DEF Handler!Panic, Handler!Update
    <3>2. [req[r] EXCEPT !.stage = "panicked"]
            = [req[r] EXCEPT !.stage = "panicked", !.ctx = req[r].ctx]
      BY InHand DEF Fields
    <3> QED
      BY <3>1, <3>2
  <2> QED
    BY <2>1, <2>2
<1>1. PICK ctx : req' = [req EXCEPT ![r] = [req[r] EXCEPT !.stage = stage, !.ctx = ctx]]
  BY <1>0
<1>2. /\ req[r].block \in Blocks
      /\ Verifies(cycles[n].mode[req[r].block]) /\ cycles[n].verifier # None
  BY InHand DEF Handler!CallVerify, Handler!Panic, Handler!At, Handler!ModeAt, Handler!Verifies, Verifies
<1> DEFINE q == [req[r] EXCEPT !.stage = stage, !.ctx = ctx]
<1>3. DOMAIN q = Fields /\ q.stage = stage /\ q.block = req[r].block
  BY InHand DEF Fields
<1>4. req' = [req EXCEPT ![r] = q]
  BY <1>1
<1> HIDE DEF q
<1>5. RequestOK(r, q)
  BY <1>0, <1>2, <1>3, InHand DEF RequestOK
<1> QED
  BY <1>4, <1>5, GoesOnInv

\* verify has spoken: the status says what the file does.
LEMMA VerifyReturnsInv ==
  ASSUME DeployInv, NEW r \in Requests, at[r] # None,
         UNCHANGED <<vars, loading, cycles, worker, at, arrived>>,
         NEW n, n = worker[at[r]].cycle,
         Handler(n)!VerifyReturns(r, Verdict(cycles[n].verifier, r))
  PROVE  DeployInv'
<1> DEFINE o == Verdict(cycles[n].verifier, r)
           m == cycles[n].mode[req[r].block]
           ctx == Handler(n)!OutcomeCtx(o, m)
           logged == Handler(n)!Logged(o, m)
           status == Handler(n)!StatusOf(o, m)
           q == [req[r] EXCEPT !.stage = "answered", !.outcome = o, !.ctx = ctx,
                               !.logged = logged, !.status = status]
<1>1. req' = [req EXCEPT ![r] = q] /\ req[r].stage = "verify"
  BY DEF Handler!VerifyReturns, Handler!Update, Handler!At, Handler!ModeAt
<1>2. DOMAIN q = Fields /\ q.stage = "answered" /\ q.status = status /\ q.block = req[r].block
  <2> HIDE DEF o, ctx, logged, status
  <2> QED
    BY InHand DEF Fields
<1>3. /\ req[r].block \in Blocks /\ Verifies(m) /\ cycles[n].verifier # None
      /\ TrueToFile(cycles[n]) /\ n = arrived[r]
  BY <1>1, InHand
<1>4. /\ m = "on" <=> EnforcedInFile(cycles[n], req[r].block)
      /\ o.allowed <=> EntitledInFile(cycles[n], r)
  BY <1>3 DEF TrueToFile
<1>5. status = IF o.allowed \/ m = "shadow" THEN "NGX_OK" ELSE "FORBIDDEN"
  BY DEF Handler!StatusOf
<1>6. m \in {"on", "shadow"}
  BY <1>3 DEF Verifies
<1> HIDE DEF q, o, m, status
<1>7. DecidedBy(cycles[arrived[r]], r, q)
  BY <1>2, <1>3, <1>4, <1>5, <1>6 DEF DecidedBy
<1> QED
  BY <1>1, <1>2, <1>3, <1>7, AnswersInv

LEMMA HandlerStepInv ==
  ASSUME DeployInv, NEW r \in Requests, HandlerStep(r)
  PROVE  DeployInv'
<1>1. at[r] # None /\ UNCHANGED <<vars, loading, cycles, worker, at, arrived>>
  BY DEF HandlerStep
<1>2. PICK n \in {worker[at[r]].cycle} :
        \/ Handler(n)!Unprepared(r)
        \/ Handler(n)!Decline(r)
        \/ Handler(n)!NotConfigured(r)
        \/ Idle(at[r]) /\ Handler(n)!CallVerify(r)
        \/ req[r].stage = "verify" /\ Handler(n)!VerifyReturns(r, Verdict(cycles[n].verifier, r))
        \/ Handler(n)!Panic(r)
        \/ Handler(n)!Caught(r)
  BY DEF HandlerStep
<1>3. n = worker[at[r]].cycle
  BY <1>2
<1>4. CASE \/ Handler(n)!Unprepared(r) \/ Handler(n)!Decline(r)
           \/ Handler(n)!NotConfigured(r) \/ Handler(n)!Caught(r)
  BY <1>1, <1>3, <1>4, ShortAnswerInv
<1>5. CASE Handler(n)!CallVerify(r) \/ Handler(n)!Panic(r)
  BY <1>1, <1>3, <1>5, CallVerifyInv
<1>6. CASE Handler(n)!VerifyReturns(r, Verdict(cycles[n].verifier, r))
  BY <1>1, <1>3, <1>6, VerifyReturnsInv
<1> QED
  BY <1>2, <1>4, <1>5, <1>6

\* The phases start over in another location of the same configuration.
LEMMA RedirectInv ==
  ASSUME DeployInv, NEW r \in Requests, NEW b \in Blocks, Redirect(r, b)
  PROVE  DeployInv'
<1>1. at[r] # None /\ UNCHANGED <<vars, loading, cycles, worker, at, arrived>>
  BY DEF Redirect
<1> DEFINE q == [Handler(1)!Fresh EXCEPT !.stage = "access", !.block = b,
                                         !.redirects = req[r].redirects + 1]
<1>2. req' = [req EXCEPT ![r] = q]
  BY DEF Redirect, Handler!Redirect, Handler!Update, Handler!Fresh
<1>3. DOMAIN q = Fields /\ q.stage = "access" /\ q.block = b
  BY DEF Handler!Fresh, Fields
<1> HIDE DEF q
<1>4. RequestOK(r, q)
  BY <1>1, <1>3 DEF RequestOK
<1> QED
  BY <1>1, <1>2, <1>4, GoesOnInv

\* A request arrives at a worker and under its configuration.
LEMMA ArriveInv ==
  ASSUME DeployInv, NEW r \in Requests, NEW b \in Blocks, NEW w \in Workers, Arrive(r, b, w)
  PROVE  DeployInv'
<1>1. /\ worker[w].stage = "serving" /\ UNCHANGED <<vars, loading, cycles, worker>>
      /\ at' = [at EXCEPT ![r] = w]
      /\ arrived' = [arrived EXCEPT ![r] = worker[w].cycle]
  BY DEF Arrive
<1> DEFINE q == [req[r] EXCEPT !.stage = "access", !.block = b]
<1>2. req' = [req EXCEPT ![r] = q]
  BY DEF Arrive, Handler!Arrive, Handler!Update
<1>3. DOMAIN q = Fields /\ q.stage = "access" /\ q.block = b
  BY DEF DeployInv, RequestsInv, RequestOK, Fields
<1> HIDE DEF q
<1>4. \A s \in Requests : /\ req'[s] = IF s = r THEN q ELSE req[s]
                          /\ at'[s] = IF s = r THEN w ELSE at[s]
                          /\ arrived'[s] = IF s = r THEN worker[w].cycle ELSE arrived[s]
  BY <1>1, <1>2 DEF DeployInv, RequestsInv, WorkersInv
<1>5. WorkersInv'
  <2>1. at' \in [Requests -> Workers \cup {None}] /\ arrived' \in [Requests -> Nat]
    BY <1>1 DEF DeployInv, WorkersInv
  <2>2. ASSUME NEW s \in Requests, at'[s] # None
        PROVE  worker[at'[s]].stage \in {"serving", "draining"} /\ arrived'[s] = worker[at'[s]].cycle
    BY <1>1, <1>4, <2>2, UnderWay DEF DeployInv
  <2> QED
    BY <1>1, <2>1, <2>2 DEF DeployInv, WorkersInv, Alive
<1>6. RequestsInv'
  <2>1. ASSUME NEW s \in Requests
        PROVE  RequestOK(s, req[s])'
    <3>1. CASE s = r
      <4>1. req'[s] = q /\ at'[s] # None
        BY <1>4, <3>1, WorkersAssumption
      <4> QED
        BY <1>3, <4>1 DEF RequestOK
    <3>2. CASE s # r
      <4>1. req'[s] = req[s] /\ at'[s] = at[s] /\ arrived'[s] = arrived[s] /\ RequestOK(s, req[s])
        BY <1>4, <3>2 DEF DeployInv, RequestsInv
      <4> QED
        BY <1>1, <4>1 DEF RequestOK
    <3> QED
      BY <3>1, <3>2
  <2>2. req' = [s \in Requests |-> req'[s]]
    BY <1>2 DEF DeployInv, RequestsInv
  <2> QED
    BY <2>1, <2>2 DEF RequestsInv
<1> QED
  BY <1>1, <1>5, <1>6, ServingInv

\* A worker goes, by dying of a panic or by having finished: what it has in a
\* handler is lost, and what it has answered is no longer with it.
LEMMA GoneInv ==
  ASSUME DeployInv, NEW w \in Workers, Abort(w) \/ Quit(w)
  PROVE  DeployInv'
<1>1. /\ UNCHANGED <<vars, loading, cycles, arrived>>
      /\ at' = [r \in Requests |-> IF at[r] = w THEN None ELSE at[r]]
      /\ worker[w].stage \in {"serving", "draining"}
      /\ \/ worker' = [worker EXCEPT ![w] = NoWorker]
         \/ worker' = [worker EXCEPT ![w] = [worker[w] EXCEPT !.stage = "dead"]]
  <2>1. CASE Abort(w)
    <3>1. PICK r \in InHandler(w) : req[r].stage = "verify"
      BY <2>1 DEF Abort
    <3>2. worker[w].stage \in {"serving", "draining"}
      BY <3>1, UnderWay, WorkersAssumption DEF InHandler, DeployInv
    <3> QED
      BY <2>1, <3>2 DEF Abort
  <2>2. CASE Quit(w)
    BY <2>2 DEF Quit
  <2> QED
    BY <2>1, <2>2
<1>2. /\ req' = [r \in Requests |-> req'[r]]
      /\ \A r \in Requests :
           \/ req'[r] = req[r] /\ r \notin InHandler(w)
           \/ req'[r] = [req[r] EXCEPT !.stage = "lost"]
  BY DEF Abort, Quit, DeployInv, RequestsInv
<1>3. WorkersInv'
  <2>1. worker' \in [Workers -> [stage : {"none", "serving", "draining", "dead"}, cycle : Nat]]
    BY <1>1 DEF DeployInv, WorkersInv, NoWorker
  <2>2. \A v \in Workers : worker'[v].stage # "none" => worker'[v].cycle \in DOMAIN cycles'
    BY <1>1 DEF DeployInv, WorkersInv, NoWorker
  <2>3. ASSUME NEW r \in Requests, at'[r] # None
        PROVE  worker'[at'[r]].stage \in {"serving", "draining"} /\ arrived[r] = worker'[at'[r]].cycle
    <3>1. at'[r] = at[r] /\ at[r] # w
      BY <1>1, <2>3
    <3>2. worker'[at[r]] = worker[at[r]]
      BY <1>1, <2>3, <3>1, UnderWay DEF DeployInv, WorkersInv
    <3> QED
      BY <2>3, <3>1, <3>2, UnderWay DEF DeployInv
  <2>4. at' \in [Requests -> Workers \cup {None}]
    BY <1>1 DEF DeployInv, WorkersInv
  <2> QED
    BY <1>1, <2>1, <2>2, <2>3, <2>4 DEF DeployInv, WorkersInv, Alive
<1>4. ASSUME NEW r \in Requests
      PROVE  RequestOK(r, req[r])'
  <2>1. RequestOK(r, req[r])
    BY DEF DeployInv, RequestsInv
  <2>2. CASE req'[r] = req[r] /\ r \notin InHandler(w)
    <3>1. req[r].stage \in {"access", "verify", "panicked"} => at'[r] # None
      BY <1>1, <2>1, <2>2 DEF InHandler, RequestOK
    <3> QED
      BY <1>1, <2>1, <2>2, <3>1 DEF RequestOK
  <2>3. CASE req'[r] = [req[r] EXCEPT !.stage = "lost"]
    <3>1. DOMAIN req'[r] = Fields /\ req'[r].stage = "lost"
      BY <2>1, <2>3 DEF RequestOK, Fields
    <3> QED
      BY <3>1 DEF RequestOK
  <2> QED
    BY <1>2, <2>2, <2>3
<1> QED
  BY <1>1, <1>2, <1>3, <1>4, ServingInv DEF RequestsInv

LEMMA DeployStepInv == DeployInv /\ [DeployNext]_allVars => DeployInv'
<1> SUFFICES ASSUME DeployInv, [DeployNext]_allVars PROVE DeployInv'
  OBVIOUS
<1>1. CASE StartLoad \/ LoadStep \/ GiveUp \/ PostconfigurationFails
  BY <1>1, LoadInv
<1>2. CASE Install
  BY <1>2, InstallInv
<1>3. ASSUME NEW w \in Workers, Retire(w) \/ Respawn(w)
      PROVE  DeployInv'
  BY <1>3, MasterInv
<1>4. ASSUME NEW w \in Workers, Abort(w) \/ Quit(w)
      PROVE  DeployInv'
  BY <1>4, GoneInv
<1>5. ASSUME NEW w \in Workers, NEW r \in Requests, NEW b \in Blocks, Arrive(r, b, w)
      PROVE  DeployInv'
  BY <1>5, ArriveInv
<1>6. ASSUME NEW r \in Requests, HandlerStep(r)
      PROVE  DeployInv'
  BY <1>6, HandlerStepInv
<1>7. ASSUME NEW r \in Redirected, NEW b \in Blocks, Redirect(r, b)
      PROVE  DeployInv'
  BY <1>7, RedirectInv, RedirectedAssumption
<1>8. CASE UNCHANGED allVars
  <2>1. WorkersInv' /\ UNCHANGED <<vars, loading, cycles>>
    BY <1>8 DEF allVars, serving, DeployInv, WorkersInv, Alive
  <2>2. RequestsInv'
    BY <1>8, RequestsStay, UnderWay DEF allVars, serving, DeployInv
  <2> QED
    BY <2>1, <2>2, ServingInv
<1> QED
  BY <1>1, <1>2, <1>3, <1>4, <1>5, <1>6, <1>7, <1>8 DEF DeployNext
-------------------------------------------------------------------------------
\* Whatever is loaded, reloaded and refused, and whichever workers die, the
\* configurations installed stay true to their files and requests to theirs.
THEOREM DeployInductive == DeploySpec => []DeployInv
<1>1. DeployInit => DeployInv
  BY DeployInitInv
<1>2. DeployInv /\ [DeployNext]_allVars => DeployInv'
  BY DeployStepInv
<1> QED
  BY <1>1, <1>2, PTL DEF DeploySpec

\* docs/rust-nginx-module.md:340-341: no worker meets a location that
\* verifies and has no verifier.
THEOREM NobodyUnconfigured == DeploySpec => []NeverUnconfigured
<1>1. DeployInv => NeverUnconfigured
  <2> SUFFICES ASSUME DeployInv, NEW r \in Requests, req[r].stage = "access"
               PROVE  LET c == cycles[worker[at[r]].cycle] IN
                      Verifies(c.mode[req[r].block]) => c.verifier # None
    BY DEF NeverUnconfigured
  <2>1. at[r] # None
    BY DEF DeployInv, RequestsInv, RequestOK
  <2> QED
    BY <2>1, InHand DEF TrueToFile
<1> QED
  BY <1>1, DeployInductive, PTL

\* A request is let through or refused as the file says that was in force
\* where it arrived.
THEOREM FilesDecide == DeploySpec => []TheFileDecides
<1>1. DeployInv => TheFileDecides
  BY DEF DeployInv, RequestsInv, RequestOK, DecidedBy, TheFileDecides
<1> QED
  BY <1>1, DeployInductive, PTL
===============================================================================
