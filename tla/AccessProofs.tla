----------------------------- MODULE AccessProofs -----------------------------
(***************************************************************************)
(* What the process lets in: how a start arrives at a token, TLS and a     *)
(* limit (Startup), and what a call passes before its handler (Gate).     *)
(* The two share the token check (Auth).                                   *)
(***************************************************************************)
EXTENDS Startup, Gate, FiniteSetTheorems, TLAPS

-----------------------------------------------------------------------------
(* Start-up, for any environment and first argument *)

(* Past the reading of its configuration; past that of its token; past     *)
(* that of its TLS files.                                                  *)
Configured == stage \in {"metrics", "database", "auth", "tls", "listen", "serving"}
HasToken   == stage \in {"tls", "listen", "serving"}
HasTls     == stage \in {"listen", "serving"}

(* What a process that has come so far knows is what the environment says: *)
(* everything it refuses, it refuses before it serves.                     *)
StartupInv ==
  /\ env \in [Variables -> Values] /\ arg \in Values
  /\ Configured => /\ "ok" \in StrictOutcomes
                   /\ from_env_and_args.ok /\ config = from_env_and_args.value
  /\ HasToken => /\ from_env_var(env["QUOTE_LEDGER_AUTH_TOKEN"]).ok
                 /\ token = from_env_var(env["QUOTE_LEDGER_AUTH_TOKEN"]).value
  /\ HasTls => tls = (config.grpc_tls_cert # Nothing /\ config.grpc_tls_key # Nothing)
  /\ stage = "unknown variable" => "unknown variable" \in StrictOutcomes

(* The names of the variables. *)
LEMMA NamesRead ==
  /\ Var("strict_config") = env["STRICT_CONFIG"]
  /\ Var("grpc_listen") = env["GRPC_LISTEN_ADDR"]
  /\ Var("append_idle_timeout") = env["APPEND_IDLE_TIMEOUT_MS"]
  /\ Var("append_max_commands") = env["APPEND_MAX_COMMANDS"]
  /\ Var("grpc_concurrency_limit") = env["GRPC_CONCURRENCY_LIMIT"]
  /\ Var("grpc_keepalive_interval") = env["GRPC_KEEPALIVE_INTERVAL_MS"]
  /\ Var("grpc_keepalive_timeout") = env["GRPC_KEEPALIVE_TIMEOUT_MS"]
  /\ Var("reflection_enabled") = env["QUOTE_LEDGER_REFLECTION"]
  /\ Var("grpc_tls_cert") = env["GRPC_TLS_CERT"]
  /\ Var("grpc_tls_key") = env["GRPC_TLS_KEY"]
  /\ Var("grpc_rate_limit_rps") = env["GRPC_RATE_LIMIT_RPS"]
  /\ Var("auth_token") = env["QUOTE_LEDGER_AUTH_TOKEN"]
BY DEF Var, ReadAs

(* They are those of the list in config.rs, and no others. *)
LEMMA ListsAgree == ServiceKeys = KNOWN_ENV_KEYS
<1>1. DOMAIN ReadAs =
        {"strict_config", "grpc_listen", "metrics_listen", "db_path", "append_idle_timeout",
         "append_max_commands", "grpc_concurrency_limit", "grpc_keepalive_interval",
         "grpc_keepalive_timeout", "reflection_enabled", "grpc_tls_cert", "grpc_tls_key",
         "grpc_rate_limit_rps", "auth_token"}
  BY DEF ReadAs
<1>2. ServiceKeys =
        {ReadAs.strict_config, ReadAs.grpc_listen, ReadAs.metrics_listen, ReadAs.db_path,
         ReadAs.append_idle_timeout, ReadAs.append_max_commands, ReadAs.grpc_concurrency_limit,
         ReadAs.grpc_keepalive_interval, ReadAs.grpc_keepalive_timeout, ReadAs.reflection_enabled,
         ReadAs.grpc_tls_cert, ReadAs.grpc_tls_key, ReadAs.grpc_rate_limit_rps, ReadAs.auth_token}
  BY <1>1 DEF ServiceKeys
<1> QED
  BY <1>2 DEF ReadAs, KNOWN_ENV_KEYS

LEMMA StartupInvNext == StartupInv /\ [StartupNext]_startupVars => StartupInv'
<1> SUFFICES ASSUME StartupInv, StartupNext \/ UNCHANGED startupVars PROVE StartupInv'
  OBVIOUS
<1>1. env' = env /\ arg' = arg
  BY DEF StartupNext, ReadConfig, BindMetrics, OpenDatabase, ReadToken, ReadTlsFiles, Listen, Fail,
         startupVars
<1>2. StrictOutcomes' = StrictOutcomes /\ from_env_and_args' = from_env_and_args
  BY <1>1 DEF StrictOutcomes, from_env_and_args, Settings, GrpcListen, Var
<1> USE <1>1, <1>2 DEF StartupInv, Configured, HasToken, HasTls
<1>3. CASE ReadConfig
  <2>1. PICK outcome \in StrictOutcomes :
          IF outcome = "ok" /\ from_env_and_args.ok
          THEN stage' = "metrics" /\ config' = from_env_and_args.value
          ELSE stage' = (IF outcome = "ok" THEN "refused" ELSE outcome) /\ UNCHANGED config
    BY <1>3 DEF ReadConfig
  <2>2. outcome \in {"ok", "refused", "unknown variable", "panicked"}
    BY DEF StrictOutcomes
  <2> QED
    BY <2>1, <2>2
<1>4. CASE BindMetrics
  BY <1>4 DEF BindMetrics
<1>5. CASE OpenDatabase
  BY <1>5 DEF OpenDatabase
<1>6. CASE ReadToken
  <2>1. Var("auth_token") = env["QUOTE_LEDGER_AUTH_TOKEN"]
    BY NamesRead
  <2> QED
    BY <1>6, <2>1 DEF ReadToken
<1>7. CASE ReadTlsFiles
  BY <1>7 DEF ReadTlsFiles
<1>8. CASE Listen
  BY <1>8 DEF Listen
<1>9. CASE Fail
  BY <1>9 DEF Fail
<1>10. CASE UNCHANGED startupVars
  BY <1>10 DEF startupVars
<1> QED
  BY <1>3, <1>4, <1>5, <1>6, <1>7, <1>8, <1>9, <1>10 DEF StartupNext

LEMMA StartupInvariant == StartupSpec => []StartupInv
<1>1. StartupInit => StartupInv
  BY InputsAssumption DEF StartupInit, StartupInv, Configured, HasToken, HasTls
<1>2. StartupInv /\ [StartupNext]_startupVars => StartupInv'
  BY StartupInvNext
<1> QED
  BY <1>1, <1>2, PTL DEF StartupSpec

(* A value, by its kind. *)
LEMMA KindsOfValues ==
  ASSUME NEW v \in Values
  PROVE  /\ v.kind \in {"unset", "not unicode", "text"}
         /\ v.kind = "unset" <=> v = Unset
         /\ v.kind = "text" => v.word \in Words
<1>1. \A w \in Words : /\ Text(w).kind = "text" /\ Text(w).word = w
                       /\ PaddedText(w).kind = "text" /\ PaddedText(w).word = w
  BY DEF Text, PaddedText, Unset
<1>2. Unset.kind = "unset" /\ NotUnicode.kind = "not unicode"
  BY DEF Unset, NotUnicode
<1> QED
  BY <1>1, <1>2 DEF Values

(* What a configuration that was accepted says of the variables. *)
LEMMA AcceptedSettings ==
  ASSUME from_env_and_args.ok
  PROVE  /\ \A f \in DOMAIN Settings : Settings[f].ok
         /\ from_env_and_args.value = [f \in DOMAIN Settings |-> Settings[f].value]
         /\ IsValid(from_env_and_args.value)
<1> DEFINE read == [f \in DOMAIN Settings |-> Settings[f].value]
<1>1. (\A f \in DOMAIN Settings : Settings[f].ok) /\ IsValid(read)
  BY DEF from_env_and_args, Err, Ok
<1>2. from_env_and_args = Ok(read)
  BY <1>1 DEF from_env_and_args
<1>3. from_env_and_args.value = read
  BY <1>2 DEF Ok
<1> QED
  BY <1>1, <1>3

(* What the readers of one variable accept. *)
LEMMA OkAndErr == /\ \A x : Ok(x).ok /\ Ok(x).value = x
                  /\ ~Err.ok
BY DEF Ok, Err

LEMMA ParseAccepts ==
  ASSUME NEW v, NEW max, parse(v, max).ok
  PROVE  parse(v, max).value \in Nat /\ parse(v, max).value <= max
BY OkAndErr, NumeralsAssumption DEF parse

LEMMA TokenAccepted ==
  ASSUME NEW v \in Values, from_env_var(v).ok
  PROVE  /\ v.kind # "not unicode"
         /\ v # Unset => from_env_var(v).value = v.word /\ v.word # Blank
BY OkAndErr, KindsOfValues DEF from_env_var

LEMMA PathAccepted ==
  ASSUME NEW v \in Values, env_opt_path(v).ok
  PROVE  /\ v.kind # "not unicode"
         /\ v # Unset => env_opt_path(v).value # Nothing
BY OkAndErr, KindsOfValues DEF env_opt_path, Nothing

LEMMA BoolAccepted ==
  ASSUME NEW v \in Values, NEW d, env_bool(v, d).ok
  PROVE  v.kind # "not unicode"
BY OkAndErr, KindsOfValues DEF env_bool

LEMMA IntegerAccepted ==
  ASSUME NEW v \in Values, NEW d \in Nat, env_integer(v, d).ok
  PROVE  v.kind # "not unicode" /\ env_integer(v, d).value \in Nat
<1>1. CASE v.kind = "unset"
  BY <1>1, OkAndErr DEF env_integer
<1>2. CASE v.kind = "text" /\ ~v.padded
  <2>1. env_integer(v, d) = parse(v, MaxU64)
    BY <1>2 DEF env_integer
  <2> QED
    BY <1>2, <2>1, ParseAccepts
<1>3. CASE v.kind # "unset" /\ ~(v.kind = "text" /\ ~v.padded)
  BY <1>3, OkAndErr DEF env_integer
<1> QED
  BY <1>1, <1>2, <1>3

LEMMA NonzeroAccepted ==
  ASSUME NEW v \in Values, env_opt_nonzero_u32(v).ok
  PROVE  /\ v.kind # "not unicode"
         /\ v # Unset => /\ env_opt_nonzero_u32(v).value = Numerals[v.word]
                         /\ env_opt_nonzero_u32(v).value # NoLimit
<1>1. CASE v.kind = "unset"
  BY <1>1, KindsOfValues
<1>2. CASE v.kind = "text" /\ parse(v, MaxU32).ok /\ parse(v, MaxU32).value # 0
  <2>1. env_opt_nonzero_u32(v) = parse(v, MaxU32)
    BY <1>2 DEF env_opt_nonzero_u32
  <2>2. parse(v, MaxU32).value = Numerals[v.word]
    BY <1>2, OkAndErr DEF parse
  <2> QED
    BY <1>2, <2>1, <2>2 DEF NoLimit
<1>3. CASE v.kind # "unset" /\ ~(v.kind = "text" /\ parse(v, MaxU32).ok /\ parse(v, MaxU32).value # 0)
  <2>1. env_opt_nonzero_u32(v) = Err
    BY <1>3 DEF env_opt_nonzero_u32
  <2> QED
    BY <2>1, OkAndErr
<1> QED
  BY <1>1, <1>2, <1>3

LEMMA AddressAccepted ==
  ASSUME NEW v \in Values, ParseAddress(v).ok
  PROVE  v.kind # "not unicode"
BY OkAndErr DEF ParseAddress

(* Each setting of an accepted configuration, as it was read. *)
IntegerKeys ==
  {"APPEND_IDLE_TIMEOUT_MS", "APPEND_MAX_COMMANDS", "GRPC_CONCURRENCY_LIMIT",
   "GRPC_KEEPALIVE_INTERVAL_MS", "GRPC_KEEPALIVE_TIMEOUT_MS"}

LEMMA SettingsAreAccepted ==
  ASSUME StartupInv, Configured
  PROVE  \A f \in DOMAIN Settings : Settings[f].ok /\ config[f] = Settings[f].value
BY AcceptedSettings, Zenon DEF StartupInv

LEMMA ConfigIsValid ==
  ASSUME StartupInv, Configured
  PROVE  IsValid(config)
BY AcceptedSettings, Zenon DEF StartupInv

LEMMA SettingsDomain ==
  DOMAIN Settings =
    {"grpc_listen", "metrics_listen", "db_path", "append_idle_timeout", "append_max_commands",
     "grpc_concurrency_limit", "grpc_keepalive_interval", "grpc_keepalive_timeout",
     "reflection_enabled", "grpc_tls_cert", "grpc_tls_key", "grpc_rate_limit_rps"}
BY DEF Settings

LEMMA TextSettings ==
  ASSUME StartupInv, Configured
  PROVE  /\ GrpcListen.ok
         /\ env_bool(env["QUOTE_LEDGER_REFLECTION"], TRUE).ok
         /\ env_opt_path(env["GRPC_TLS_CERT"]).ok
         /\ env_opt_path(env["GRPC_TLS_KEY"]).ok
         /\ env_opt_nonzero_u32(env["GRPC_RATE_LIMIT_RPS"]).ok
         /\ config.grpc_tls_cert = env_opt_path(env["GRPC_TLS_CERT"]).value
         /\ config.grpc_tls_key = env_opt_path(env["GRPC_TLS_KEY"]).value
         /\ config.grpc_rate_limit_rps = env_opt_nonzero_u32(env["GRPC_RATE_LIMIT_RPS"]).value
<1>1. /\ Settings.grpc_listen = GrpcListen
      /\ Settings.reflection_enabled = env_bool(env["QUOTE_LEDGER_REFLECTION"], TRUE)
      /\ Settings.grpc_tls_cert = env_opt_path(env["GRPC_TLS_CERT"])
      /\ Settings.grpc_tls_key = env_opt_path(env["GRPC_TLS_KEY"])
      /\ Settings.grpc_rate_limit_rps = env_opt_nonzero_u32(env["GRPC_RATE_LIMIT_RPS"])
  <2>1. /\ Settings.grpc_listen = GrpcListen
        /\ Settings.reflection_enabled = env_bool(Var("reflection_enabled"), TRUE)
        /\ Settings.grpc_tls_cert = env_opt_path(Var("grpc_tls_cert"))
        /\ Settings.grpc_tls_key = env_opt_path(Var("grpc_tls_key"))
        /\ Settings.grpc_rate_limit_rps = env_opt_nonzero_u32(Var("grpc_rate_limit_rps"))
    BY DEF Settings
  <2> QED
    BY <2>1, NamesRead, Zenon
<1>2. /\ Settings.grpc_listen.ok /\ Settings.reflection_enabled.ok
      /\ Settings.grpc_tls_cert.ok /\ Settings.grpc_tls_key.ok
      /\ Settings.grpc_rate_limit_rps.ok
      /\ config.grpc_tls_cert = Settings.grpc_tls_cert.value
      /\ config.grpc_tls_key = Settings.grpc_tls_key.value
      /\ config.grpc_rate_limit_rps = Settings.grpc_rate_limit_rps.value
  BY SettingsAreAccepted, SettingsDomain, Zenon
<1> QED
  BY <1>1, <1>2, Zenon

LEMMA IntegerSettings ==
  ASSUME StartupInv, Configured, NEW k \in IntegerKeys
  PROVE  \E d \in Nat : env_integer(env[k], d).ok
<1>1. /\ \E d \in Nat : Settings.append_idle_timeout = env_integer(env["APPEND_IDLE_TIMEOUT_MS"], d)
      /\ \E d \in Nat : Settings.append_max_commands = env_integer(env["APPEND_MAX_COMMANDS"], d)
      /\ \E d \in Nat : Settings.grpc_concurrency_limit = env_integer(env["GRPC_CONCURRENCY_LIMIT"], d)
      /\ \E d \in Nat : Settings.grpc_keepalive_interval
                          = env_integer(env["GRPC_KEEPALIVE_INTERVAL_MS"], d)
      /\ \E d \in Nat : Settings.grpc_keepalive_timeout
                          = env_integer(env["GRPC_KEEPALIVE_TIMEOUT_MS"], d)
  BY NamesRead, SMT DEF Settings
<1>2. /\ Settings.append_idle_timeout.ok /\ Settings.append_max_commands.ok
      /\ Settings.grpc_concurrency_limit.ok
      /\ Settings.grpc_keepalive_interval.ok /\ Settings.grpc_keepalive_timeout.ok
  BY SettingsAreAccepted, SettingsDomain, Zenon
<1> QED
  BY <1>1, <1>2, Zenon DEF IntegerKeys

(* Whoever has come past the reading of its configuration was not in the   *)
(* way of STRICT_CONFIG.                                                   *)
LEMMA PassedStrict ==
  ASSUME "ok" \in StrictOutcomes
  PROVE  /\ env_bool(env["STRICT_CONFIG"], FALSE).ok
         /\ env_bool(env["STRICT_CONFIG"], FALSE).value =>
              \A k \in Prefixed \ KNOWN_ENV_KEYS : env[k].kind # "text"
         /\ env_bool(env["STRICT_CONFIG"], FALSE).value =>
              \A k \in Variables : env[k].kind # "not unicode"
BY NamesRead DEF StrictOutcomes

LEMMA ServiceVariables ==
  ASSUME StartupInv, NEW k \in ServiceKeys \cup Strangers
  PROVE  k \in Variables /\ env[k] \in Values
BY DEF StartupInv, Variables

(* Two words that are one as a header are one. *)
LEMMA HeaderOfToken ==
  ASSUME NEW w \in Words, w # Blank, NEW h \in Headers, check_request(w, h)
  PROVE  h = BearerOf(w)
<1>1. h.form = "pair" /\ h.scheme = "bearer" /\ h.token = Text(w)
  BY DEF check_request, NoToken
<1>2. /\ Missing.form = "missing" /\ NotAscii.form = "not ascii"
      /\ \A u : OneWord(u).form = "one word"
  BY DEF Missing, NotAscii, OneWord
<1>3. PICK s \in Schemes, t \in {Text(u) : u \in Ascii} \cup {PaddedText(u) : u \in Ascii} :
        h = Credentials(s, t)
  <2> DEFINE Tokens == {Text(u) : u \in Ascii} \cup {PaddedText(u) : u \in Ascii}
             Pairs == {Credentials(s, t) : s \in Schemes, t \in Tokens}
  <2>1. Headers = {Missing, NotAscii} \cup {OneWord(u) : u \in Ascii \ {Blank}} \cup Pairs
    BY DEF Headers
  <2>2. h \in Pairs => \E s \in Schemes, t \in Tokens : h = Credentials(s, t)
    OBVIOUS
  <2> HIDE DEF Pairs
  <2>3. h \in Pairs
    BY <1>1, <1>2, <2>1, Zenon
  <2> QED
    BY <2>2, <2>3
<1>4. s = "bearer" /\ t = Text(w)
  BY <1>1, <1>3 DEF Credentials
<1>5. \A u : /\ Text(u).word = u /\ ~Text(u).padded
             /\ PaddedText(u).padded
  BY DEF Text, PaddedText, Unset
<1>6. w \in Ascii
  BY <1>4, <1>5
<1> QED
  BY <1>3, <1>4, <1>6 DEF BearerOf

(* A server that listens protects what it was asked to protect, whatever   *)
(* the other variables say: a token that cannot be used ends the start,    *)
(* and so do half of TLS and a limit that is no number of calls            *)
(* (auth.rs:12-32, config.rs:56-72, 183-191, main.rs:80).                  *)
THEOREM ProtectionIsKept == StartupSpec => []ProtectionIsNeverDropped
<1>1. StartupInv => ProtectionIsNeverDropped
  <2> SUFFICES ASSUME StartupInv, IsServing PROVE
        /\ IsSet("QUOTE_LEDGER_AUTH_TOKEN") =>
             \A h \in Headers : check_request(token, h) =>
               h = BearerOf(env["QUOTE_LEDGER_AUTH_TOKEN"].word)
        /\ IsSet("GRPC_TLS_CERT") \/ IsSet("GRPC_TLS_KEY") => tls
        /\ IsSet("GRPC_RATE_LIMIT_RPS") =>
             /\ config.grpc_rate_limit_rps = Numerals[env["GRPC_RATE_LIMIT_RPS"].word]
             /\ config.grpc_rate_limit_rps # NoLimit
    BY DEF ProtectionIsNeverDropped
  <2>1. Configured /\ HasToken /\ HasTls
    BY DEF IsServing, Configured, HasToken, HasTls
  <2>2. {"QUOTE_LEDGER_AUTH_TOKEN", "GRPC_TLS_CERT", "GRPC_TLS_KEY", "GRPC_RATE_LIMIT_RPS"}
          \subseteq ServiceKeys
    BY ListsAgree DEF KNOWN_ENV_KEYS
  <2>3. ASSUME IsSet("QUOTE_LEDGER_AUTH_TOKEN"), NEW h \in Headers, check_request(token, h)
        PROVE  h = BearerOf(env["QUOTE_LEDGER_AUTH_TOKEN"].word)
    <3> DEFINE v == env["QUOTE_LEDGER_AUTH_TOKEN"]
    <3>1. v \in Values /\ v # Unset
      BY <2>2, <2>3, ServiceVariables DEF IsSet
    <3>2. from_env_var(v).ok /\ token = from_env_var(v).value
      BY <2>1 DEF StartupInv
    <3> HIDE DEF v
    <3>3. v.kind # "not unicode" /\ token = v.word /\ v.word # Blank
      BY <3>1, <3>2, TokenAccepted
    <3>4. v.word \in Words
      BY <3>1, <3>3, KindsOfValues
    <3>5. h = BearerOf(v.word)
      BY <2>3, <3>3, <3>4, HeaderOfToken
    <3> QED
      BY <3>5 DEF v
  <2>4. IsSet("GRPC_TLS_CERT") \/ IsSet("GRPC_TLS_KEY") => tls
    <3>1. env["GRPC_TLS_CERT"] \in Values /\ env["GRPC_TLS_KEY"] \in Values
      BY <2>2, ServiceVariables
    <3>2. /\ IsSet("GRPC_TLS_CERT") => config.grpc_tls_cert # Nothing
          /\ IsSet("GRPC_TLS_KEY") => config.grpc_tls_key # Nothing
      BY <2>1, <3>1, TextSettings, PathAccepted, Zenon DEF IsSet
    <3>3. config.grpc_tls_cert = Nothing <=> config.grpc_tls_key = Nothing
      BY <2>1, ConfigIsValid, SMT DEF IsValid
    <3>4. tls = (config.grpc_tls_cert # Nothing /\ config.grpc_tls_key # Nothing)
      BY <2>1 DEF StartupInv
    <3> QED
      BY <3>2, <3>3, <3>4
  <2>5. ASSUME IsSet("GRPC_RATE_LIMIT_RPS")
        PROVE  /\ config.grpc_rate_limit_rps = Numerals[env["GRPC_RATE_LIMIT_RPS"].word]
               /\ config.grpc_rate_limit_rps # NoLimit
    <3>1. env["GRPC_RATE_LIMIT_RPS"] \in Values
      BY <2>2, ServiceVariables
    <3> QED
      BY <2>1, <2>5, <3>1, TextSettings, NonzeroAccepted, Zenon DEF IsSet
  <2> QED
    BY <2>3, <2>4, <2>5
<1> QED
  BY <1>1, StartupInvariant, PTL

(* STRICT_CONFIG lets no variable of the service's prefixes through that   *)
(* the service would ignore, and is in the way of none it reads: its list  *)
(* has the names that are read (config.rs:11-26, 88-108, 132-191,          *)
(* main.rs:54).                                                            *)
THEOREM TyposAreCaught == StartupSpec => []StrictCatchesTypos
<1>1. StartupInv => StrictCatchesTypos
  <2> SUFFICES ASSUME StartupInv PROVE StrictCatchesTypos
    OBVIOUS
  <2> DEFINE strict == env_bool(Var("strict_config"), FALSE).value
             ignored == {k \in Prefixed \ ServiceKeys : IsSet(k)}
  <2>1. ASSUME IsServing, strict, NEW k \in Prefixed \ ServiceKeys
        PROVE  ~IsSet(k)
    <3>1. "ok" \in StrictOutcomes
      BY <2>1 DEF IsServing, Configured, StartupInv
    <3>2. k \in Prefixed \ KNOWN_ENV_KEYS
      BY ListsAgree
    <3>3. k \in Variables /\ env[k] \in Values
      BY DEF Prefixed, StartupInv
    <3>4. env[k].kind # "text" /\ env[k].kind # "not unicode"
      BY <2>1, <3>1, <3>2, <3>3, PassedStrict, NamesRead
    <3> QED
      BY <3>3, <3>4, KindsOfValues DEF IsSet
  <2>2. ASSUME stage = "unknown variable"
        PROVE  ignored # {}
    <3>1. "unknown variable" \in StrictOutcomes
      BY <2>2 DEF StartupInv
    <3>2. PICK k \in Prefixed \ KNOWN_ENV_KEYS : env[k].kind = "text"
      BY <3>1 DEF StrictOutcomes
    <3>3. k \in Prefixed \ ServiceKeys /\ env[k] # Unset
      BY <3>2, ListsAgree DEF Unset
    <3> QED
      BY <3>3 DEF IsSet
  <2> QED
    BY <2>1, <2>2 DEF StrictCatchesTypos
<1> QED
  BY <1>1, StartupInvariant, PTL

(* No server listens on a value that could not be read, but for the two    *)
(* variables that fall back on a default (config.rs:110, 144, 149).        *)
THEOREM UnreadableEndsTheStart == StartupSpec => []UnreadableIsRefused
<1>1. StartupInv => UnreadableIsRefused
  <2> SUFFICES ASSUME StartupInv, IsServing,
                      NEW k \in ServiceKeys \ {"METRICS_ADDR", "QUOTE_LEDGER_DB"}
               PROVE  env[k].kind # "not unicode"
    BY DEF UnreadableIsRefused
  <2>1. Configured /\ HasToken
    BY DEF IsServing, Configured, HasToken
  <2>2. env[k] \in Values
    BY ServiceVariables
  <2>3. CASE k \in IntegerKeys
    <3>1. PICK d \in Nat : env_integer(env[k], d).ok
      BY <2>1, <2>3, IntegerSettings
    <3> QED
      BY <2>2, <3>1, IntegerAccepted
  <2>4. CASE k \in {"GRPC_TLS_CERT", "GRPC_TLS_KEY"}
    BY <2>1, <2>2, <2>4, TextSettings, PathAccepted, Zenon
  <2>5. CASE k = "GRPC_RATE_LIMIT_RPS"
    BY <2>1, <2>2, <2>5, TextSettings, NonzeroAccepted, Zenon
  <2>6. CASE k = "QUOTE_LEDGER_REFLECTION"
    BY <2>1, <2>2, <2>6, TextSettings, BoolAccepted, Zenon
  <2>7. CASE k = "GRPC_LISTEN_ADDR"
    <3>1. env[k].kind = "unset" \/ ParseAddress(env[k]).ok
      BY <2>1, <2>7, TextSettings, NamesRead DEF GrpcListen
    <3> QED
      BY <2>2, <3>1, AddressAccepted
  <2>8. CASE k = "QUOTE_LEDGER_AUTH_TOKEN"
    BY <2>1, <2>2, <2>8, TokenAccepted DEF StartupInv
  <2>9. CASE k = "STRICT_CONFIG"
    <3>1. "ok" \in StrictOutcomes
      BY <2>1 DEF StartupInv
    <3> QED
      BY <2>2, <2>9, <3>1, PassedStrict, BoolAccepted
  <2> QED
    BY <2>3, <2>4, <2>5, <2>6, <2>7, <2>8, <2>9, ListsAgree DEF KNOWN_ENV_KEYS, IntegerKeys
<1> QED
  BY <1>1, StartupInvariant, PTL

-----------------------------------------------------------------------------
(* Sums over finite sets.  A fold takes the elements in an order that is   *)
(* not known; the sum does not depend on it.                               *)

LEMMA InductionOnSubsets ==
  ASSUME NEW D, IsFiniteSet(D), NEW P,
         \A s \in SUBSET D : (\A t \in SUBSET s : t # s => t \in P) => s \in P
  PROVE  SUBSET D \subseteq P
<1> SUFFICES ASSUME NEW s0 \in SUBSET D, s0 \notin P PROVE FALSE
  OBVIOUS
<1> DEFINE R == StrictSubsetOrdering(D)
           T == {s \in SUBSET D : s \notin P}
<1>1. IsWellFoundedOn(R, FiniteSubsetsOf(D))
  BY FS_StrictSubsetOrderingWellFounded
<1>2. T \subseteq FiniteSubsetsOf(D) /\ T # {}
  BY FS_Subset DEF FiniteSubsetsOf
<1>3. PICK s \in T : \A u \in T : ~ (<<u, s>> \in R)
  <2> HIDE DEF T, R
  <2> QED
    BY <1>1, <1>2, WFMin
<1>4. \A t \in SUBSET s : t # s => t \in P
  <2> SUFFICES ASSUME NEW t \in SUBSET s, t # s, t \notin P PROVE FALSE
    OBVIOUS
  <2>1. t \in T
    OBVIOUS
  <2>2. <<t, s>> \in R
    BY DEF StrictSubsetOrdering
  <2> QED
    BY <1>3, <2>1, <2>2
<1> QED
  BY <1>3, <1>4

(* g gives every subset of D its sum. *)
Some(s) == CHOOSE x \in s : TRUE
SumsUp(g, f, D) ==
  g = [s \in SUBSET D |-> IF s = {} THEN 0 ELSE f[Some(s)] + g[s \ {Some(s)}]]

LEMMA SomeIsIn == ASSUME NEW s, s # {} PROVE Some(s) \in s
BY DEF Some

LEMMA SumOf ==
  ASSUME NEW D, NEW f, NEW g, SumsUp(g, f, D), NEW s \in SUBSET D
  PROVE  g[s] = IF s = {} THEN 0 ELSE f[Some(s)] + g[s \ {Some(s)}]
BY Zenon DEF SumsUp

LEMMA SumsAgree ==
  ASSUME NEW D, IsFiniteSet(D), NEW E \in SUBSET D, NEW f, NEW g, NEW h,
         SumsUp(g, f, D), SumsUp(h, f, E), NEW s \in SUBSET E
  PROVE  g[s] = h[s]
<1> DEFINE P == {t \in SUBSET E : g[t] = h[t]}
<1>1. ASSUME NEW t \in SUBSET E, \A u \in SUBSET t : u # t => u \in P PROVE t \in P
  <2>1. CASE t = {}
    BY <2>1, SumOf
  <2>2. CASE t # {}
    <3>1. Some(t) \in t
      BY <2>2, SomeIsIn
    <3>2. g[t \ {Some(t)}] = h[t \ {Some(t)}]
      BY <1>1, <3>1
    <3>3. t \in SUBSET D /\ t \in SUBSET E
      OBVIOUS
    <3>4. g[t] = f[Some(t)] + g[t \ {Some(t)}] /\ h[t] = f[Some(t)] + h[t \ {Some(t)}]
      BY <2>2, <3>3, SumOf
    <3> QED
      BY <3>2, <3>4
  <2> QED
    BY <2>1, <2>2
<1>2. IsFiniteSet(E)
  BY FS_Subset
<1>3. SUBSET E \subseteq P
  <2> HIDE DEF P
  <2> QED
    BY <1>1, <1>2, InductionOnSubsets
<1> QED
  BY <1>3

LEMMA SumsExist ==
  ASSUME NEW D, IsFiniteSet(D), NEW f
  PROVE  \E g : SumsUp(g, f, D)
<1> DEFINE P == {s \in SUBSET D : \E g : SumsUp(g, f, s)}
           sums(s) == CHOOSE g : SumsUp(g, f, s)
<1>1. ASSUME NEW s \in SUBSET D, \A t \in SUBSET s : t # s => t \in P PROVE s \in P
  <2> DEFINE g == [t \in SUBSET s |-> IF t = {} THEN 0
                                      ELSE f[Some(t)] + sums(t \ {Some(t)})[t \ {Some(t)}]]
  <2>1. ASSUME NEW u \in SUBSET s, u # s PROVE g[u] = sums(u)[u]
    <3>1. SumsUp(sums(u), f, u)
      BY <1>1, <2>1
    <3>2. CASE u = {}
      BY <3>1, <3>2, SumOf
    <3>3. CASE u # {}
      <4> DEFINE v == u \ {Some(u)}
      <4>1. Some(u) \in u /\ v \in SUBSET u /\ v # s /\ v \in SUBSET s
        BY <3>3, SomeIsIn
      <4>2. SumsUp(sums(v), f, v)
        BY <1>1, <4>1
      <4>3. IsFiniteSet(u)
        BY FS_Subset
      <4>4. sums(u)[v] = sums(v)[v]
        <5> HIDE DEF sums, v
        <5> QED
          BY <3>1, <4>1, <4>2, <4>3, SumsAgree
      <4>5. sums(u)[u] = f[Some(u)] + sums(u)[v]
        <5> HIDE DEF sums
        <5> QED
          BY <3>1, <3>3, SumOf
      <4>6. g[u] = f[Some(u)] + sums(v)[v]
        BY <3>3
      <4> QED
        BY <4>4, <4>5, <4>6
    <3> QED
      BY <3>2, <3>3
  <2>2. ASSUME NEW t \in SUBSET s, t # {}
        PROVE  g[t \ {Some(t)}] = sums(t \ {Some(t)})[t \ {Some(t)}]
    <3>1. Some(t) \in t
      BY <2>2, SomeIsIn
    <3>2. t \ {Some(t)} \in SUBSET s /\ t \ {Some(t)} # s
      BY <3>1
    <3> HIDE DEF g, sums
    <3> QED
      BY <2>1, <3>2
  <2>3. g = [t \in SUBSET s |-> IF t = {} THEN 0 ELSE f[Some(t)] + g[t \ {Some(t)}]]
    <3> DEFINE h == [t \in SUBSET s |-> IF t = {} THEN 0 ELSE f[Some(t)] + g[t \ {Some(t)}]]
    <3>1. ASSUME NEW t \in SUBSET s PROVE g[t] = h[t]
      <4>1. CASE t = {}
        BY <4>1
      <4>2. CASE t # {}
        <5>1. h[t] = f[Some(t)] + g[t \ {Some(t)}]
          <6> HIDE DEF g
          <6> QED
            BY <4>2
        <5>2. g[t] = f[Some(t)] + sums(t \ {Some(t)})[t \ {Some(t)}]
          BY <4>2
        <5>3. g[t \ {Some(t)}] = sums(t \ {Some(t)})[t \ {Some(t)}]
          BY <2>2, <4>2
        <5> HIDE DEF g, h, sums
        <5> QED
          BY <5>1, <5>2, <5>3
      <4> QED
        BY <4>1, <4>2
    <3>2. DOMAIN g = SUBSET s /\ DOMAIN h = SUBSET s
      OBVIOUS
    <3>3. \A F, G : /\ F = [t \in DOMAIN F |-> F[t]] /\ G = [t \in DOMAIN G |-> G[t]]
                    /\ DOMAIN F = DOMAIN G /\ \A t \in DOMAIN F : F[t] = G[t]
                    => F = G
      OBVIOUS
    <3>4. g = [t \in DOMAIN g |-> g[t]] /\ h = [t \in DOMAIN h |-> h[t]]
      OBVIOUS
    <3>5. g = h
      <4> HIDE DEF g, h
      <4> QED
        BY <3>1, <3>2, <3>3, <3>4, Zenon
    <3> QED
      BY <3>5
  <2>4. SumsUp(g, f, s)
    BY <2>3 DEF SumsUp
  <2> QED
    BY <2>4
<1>2. SUBSET D \subseteq P
  <2> HIDE DEF P
  <2> QED
    BY <1>1, InductionOnSubsets
<1> QED
  BY <1>2

SumOver(f, S) == FoldFunctionOnSet(+, 0, f, S)

LEMMA SumIsFound ==
  ASSUME NEW S, IsFiniteSet(S), NEW f
  PROVE  \E g : SumsUp(g, f, S) /\ SumOver(f, S) = g[S]
<1> DEFINE g == CHOOSE iter : iter = [s \in SUBSET S |->
                  IF s = {} THEN 0 ELSE f[CHOOSE x \in s : TRUE] + iter[s \ {CHOOSE x \in s : TRUE}]]
<1>1. SumOver(f, S) = g[S]
  BY DEF SumOver, FoldFunctionOnSet, MapThenFoldSet
<1>2. g = CHOOSE h : SumsUp(h, f, S)
  BY Zenon DEF SumsUp, Some
<1> HIDE DEF g
<1>3. SumsUp(g, f, S)
  BY <1>2, SumsExist
<1> QED
  BY <1>1, <1>3

LEMMA SumsAreNaturals ==
  ASSUME NEW S, IsFiniteSet(S), NEW f, \A x \in S : f[x] \in Nat, NEW g, SumsUp(g, f, S)
  PROVE  \A t \in SUBSET S : g[t] \in Nat
<1> DEFINE P == {t \in SUBSET S : g[t] \in Nat}
<1>1. ASSUME NEW t \in SUBSET S, \A u \in SUBSET t : u # t => u \in P PROVE t \in P
  <2>1. CASE t = {}
    <3>1. g[t] = 0
      BY <2>1, SumOf
    <3> QED
      BY <3>1
  <2>2. CASE t # {}
    <3>1. Some(t) \in t
      BY <2>2, SomeIsIn
    <3>2. g[t \ {Some(t)}] \in Nat
      BY <1>1, <3>1
    <3>3. g[t] = f[Some(t)] + g[t \ {Some(t)}]
      BY <2>2, SumOf
    <3>4. f[Some(t)] \in Nat
      BY <3>1
    <3>5. g[t] \in Nat
      <4> DEFINE a == f[Some(t)]
                 b == g[t \ {Some(t)}]
      <4>1. a \in Nat /\ b \in Nat /\ g[t] = a + b
        BY <3>2, <3>3, <3>4
      <4> HIDE DEF a, b
      <4> QED
        BY <4>1
    <3> QED
      BY <3>5
  <2> QED
    BY <2>1, <2>2
<1>2. SUBSET S \subseteq P
  <2> HIDE DEF P
  <2> QED
    BY <1>1, InductionOnSubsets
<1> QED
  BY <1>2

LEMMA SumsInAnyOrder ==
  ASSUME NEW S, IsFiniteSet(S), NEW f, \A x \in S : f[x] \in Nat, NEW g, SumsUp(g, f, S)
  PROVE  \A t \in SUBSET S : \A x \in t : g[t] = f[x] + g[t \ {x}]
<1> DEFINE P == {t \in SUBSET S : \A x \in t : g[t] = f[x] + g[t \ {x}]}
<1>1. ASSUME NEW t \in SUBSET S, \A u \in SUBSET t : u # t => u \in P, NEW x \in t
      PROVE  g[t] = f[x] + g[t \ {x}]
  <2> DEFINE c == Some(t)
  <2>1. c \in t /\ g[t] = f[c] + g[t \ {c}]
    BY SomeIsIn, SumOf
  <2> HIDE DEF c
  <2>2. CASE x = c
    BY <2>1, <2>2
  <2>3. CASE x # c
    <3>1. x \in t \ {c} /\ t \ {c} \in P
      BY <1>1, <2>1, <2>3
    <3>2. g[t \ {c}] = f[x] + g[(t \ {c}) \ {x}]
      BY <3>1
    <3>3. c \in t \ {x} /\ t \ {x} \in P
      BY <1>1, <2>1, <2>3
    <3>4. g[t \ {x}] = f[c] + g[(t \ {x}) \ {c}]
      BY <3>3
    <3>5. (t \ {c}) \ {x} = (t \ {x}) \ {c} /\ (t \ {x}) \ {c} \in SUBSET S
      OBVIOUS
    <3>6. f[c] \in Nat /\ f[x] \in Nat /\ g[(t \ {x}) \ {c}] \in Nat
      BY <2>1, <3>5, SumsAreNaturals
    <3> DEFINE a == f[c]
               b == f[x]
               rest == g[(t \ {x}) \ {c}]
    <3>7. a \in Nat /\ b \in Nat /\ rest \in Nat /\ g[t] = a + g[t \ {c}]
          /\ g[t \ {c}] = b + rest /\ g[t \ {x}] = a + rest
      BY <2>1, <3>2, <3>4, <3>5, <3>6, Zenon
    <3>8. a + (b + rest) = b + (a + rest)
      <4> HIDE DEF a, b, rest
      <4> QED
        BY <3>7
    <3> QED
      BY <3>7, <3>8, Zenon
  <2> QED
    BY <2>2, <2>3
<1>2. SUBSET S \subseteq P
  <2>1. ASSUME NEW t \in SUBSET S, \A u \in SUBSET t : u # t => u \in P PROVE t \in P
    BY <1>1, <2>1
  <2> HIDE DEF P
  <2> QED
    BY <2>1, InductionOnSubsets
<1> QED
  BY <1>2

(* What the proofs use of a sum. *)
LEMMA SumOfNothing == \A f : SumOver(f, {}) = 0
<1> SUFFICES ASSUME NEW f PROVE SumOver(f, {}) = 0
  OBVIOUS
<1>1. PICK g : SumsUp(g, f, {}) /\ SumOver(f, {}) = g[{}]
  BY SumIsFound, FS_EmptySet
<1> QED
  BY <1>1, SumOf

LEMMA SumIsNatural ==
  ASSUME NEW S, IsFiniteSet(S), NEW f, \A x \in S : f[x] \in Nat
  PROVE  SumOver(f, S) \in Nat
<1>1. PICK g : SumsUp(g, f, S) /\ SumOver(f, S) = g[S]
  BY SumIsFound
<1> QED
  BY <1>1, SumsAreNaturals

LEMMA SumWithout ==
  ASSUME NEW S, IsFiniteSet(S), NEW f, \A x \in S : f[x] \in Nat, NEW x \in S
  PROVE  SumOver(f, S) = f[x] + SumOver(f, S \ {x})
<1> DEFINE T == S \ {x}
<1>1. PICK g : SumsUp(g, f, S) /\ SumOver(f, S) = g[S]
  BY SumIsFound
<1>2. IsFiniteSet(T) /\ T \in SUBSET S
  BY FS_Subset
<1>3. PICK h : SumsUp(h, f, T) /\ SumOver(f, T) = h[T]
  BY <1>2, SumIsFound
<1>4. g[S] = f[x] + g[T]
  BY <1>1, SumsInAnyOrder
<1>5. g[T] = h[T]
  BY <1>1, <1>2, <1>3, SumsAgree
<1> QED
  BY <1>1, <1>3, <1>4, <1>5

LEMMA SumOfEqual ==
  ASSUME NEW S, IsFiniteSet(S), NEW f, NEW h, \A x \in S : f[x] = h[x]
  PROVE  SumOver(f, S) = SumOver(h, S)
<1>1. PICK g : SumsUp(g, f, S) /\ SumOver(f, S) = g[S]
  BY SumIsFound
<1>2. PICK k : SumsUp(k, h, S) /\ SumOver(h, S) = k[S]
  BY SumIsFound
<1> DEFINE P == {t \in SUBSET S : g[t] = k[t]}
<1>3. ASSUME NEW t \in SUBSET S, \A u \in SUBSET t : u # t => u \in P PROVE t \in P
  <2>1. CASE t = {}
    BY <1>1, <1>2, <2>1, SumOf
  <2>2. CASE t # {}
    <3>1. Some(t) \in t
      BY <2>2, SomeIsIn
    <3>2. g[t \ {Some(t)}] = k[t \ {Some(t)}]
      BY <1>3, <3>1
    <3>3. g[t] = f[Some(t)] + g[t \ {Some(t)}] /\ k[t] = h[Some(t)] + k[t \ {Some(t)}]
      BY <1>1, <1>2, <2>2, SumOf
    <3> QED
      BY <3>1, <3>2, <3>3
  <2> QED
    BY <2>1, <2>2
<1>4. SUBSET S \subseteq P
  <2> HIDE DEF P
  <2> QED
    BY <1>3, InductionOnSubsets
<1> QED
  BY <1>1, <1>2, <1>4

-----------------------------------------------------------------------------
(* The token bucket, for any rate, calls and time *)

(* The caps hold because of what is left: from any period on, the calls    *)
(* accepted and the tokens in the bucket together are within the burst and *)
(* the refills; and from some period on they are exactly that, which is    *)
(* the last one at whose beginning the bucket was full.                    *)
Capped(acc, n) == \A a, b \in 0 .. n : a <= b => SumOver(acc, a .. b) <= Rps + (b - a)
Within(acc, n, left) == \A a \in 0 .. n : SumOver(acc, a .. n) + left <= Rps + (n - a)
Exactly(acc, n, left) == \E a \in 0 .. n : SumOver(acc, a .. n) + left = Rps + (n - a)
BucketFacts(acc, n, left) ==
  /\ n \in 0 .. MaxTime /\ left \in 0 .. Rps /\ acc \in [0 .. MaxTime -> Nat]
  /\ \A t \in 0 .. MaxTime : t > n => acc[t] = 0
  /\ Within(acc, n, left) /\ Exactly(acc, n, left) /\ Capped(acc, n)

BucketInv == BucketFacts(accepted, now, bucket)

LEMMA BucketInvPrimed == BucketInv' <=> BucketFacts(accepted', now', bucket')
BY DEF BucketInv, BucketFacts, Within, Exactly, Capped, SumOver, FoldFunctionOnSet, MapThenFoldSet

LEMMA AcceptedIsASum == \A a, b : AcceptedIn(a, b) = SumOver(accepted, a .. b)
BY DEF AcceptedIn, SumOver

LEMMA PeriodsAreFinite ==
  ASSUME NEW a \in Nat, NEW b \in Int
  PROVE  IsFiniteSet(a .. b)
BY FS_Interval

LEMMA StretchIsNatural ==
  ASSUME NEW f \in [0 .. MaxTime -> Nat], NEW a \in Nat, NEW b \in Int, b <= MaxTime
  PROVE  SumOver(f, a .. b) \in Nat
<1>1. \A x \in a .. b : x \in 0 .. MaxTime
  BY MaxTimeAssumption
<1>2. \A x \in a .. b : f[x] \in Nat
  BY <1>1
<1> QED
  BY <1>2, PeriodsAreFinite, SumIsNatural, Zenon

LEMMA LastPeriod ==
  ASSUME NEW f \in [0 .. MaxTime -> Nat], NEW a \in Nat, NEW b \in 0 .. MaxTime, a <= b
  PROVE  SumOver(f, a .. b) = f[b] + SumOver(f, a .. b - 1)
<1>1. (a .. b) \ {b} = a .. b - 1 /\ b \in a .. b
  BY MaxTimeAssumption
<1>2. \A x \in a .. b : f[x] \in Nat
  BY MaxTimeAssumption
<1>3. IsFiniteSet(a .. b)
  BY PeriodsAreFinite, MaxTimeAssumption
<1>4. SumOver(f, a .. b) = f[b] + SumOver(f, (a .. b) \ {b})
  BY <1>1, <1>2, <1>3, SumWithout
<1> QED
  BY <1>1, <1>4

(* A call that is accepted is one more in every stretch that ends now. *)
LEMMA BucketAccept ==
  ASSUME NEW f, NEW n, NEW left, BucketFacts(f, n, left), left > 0
  PROVE  BucketFacts([f EXCEPT ![n] = @ + 1], n, left - 1)
<1> DEFINE g == [f EXCEPT ![n] = @ + 1]
<1>1. /\ n \in 0 .. MaxTime /\ left \in 0 .. Rps /\ f \in [0 .. MaxTime -> Nat]
      /\ n \in Nat /\ MaxTime \in Nat /\ Rps \in Nat
  BY MaxTimeAssumption, LimitsAssumption DEF BucketFacts
<1>2. /\ g \in [0 .. MaxTime -> Nat] /\ g[n] = f[n] + 1
      /\ \A t \in 0 .. MaxTime : t # n => g[t] = f[t]
  BY <1>1
<1> HIDE DEF g
<1>3. ASSUME NEW a \in 0 .. n, NEW b \in Int, b < n
      PROVE  SumOver(g, a .. b) = SumOver(f, a .. b)
  <2>1. \A x \in a .. b : g[x] = f[x]
    BY <1>1, <1>2, <1>3
  <2>2. a \in Nat
    BY <1>1
  <2>3. IsFiniteSet(a .. b)
    BY <2>2, PeriodsAreFinite
  <2> QED
    BY <2>1, <2>3, SumOfEqual, Zenon
<1>4. ASSUME NEW a \in 0 .. n
      PROVE  SumOver(g, a .. n) = SumOver(f, a .. n) + 1 /\ SumOver(f, a .. n) \in Nat
  <2>1. a \in Nat /\ a <= n /\ n \in Int /\ n <= MaxTime /\ n - 1 \in Int /\ n - 1 <= MaxTime /\ n - 1 < n
    BY <1>1
  <2>2. SumOver(g, a .. n) = g[n] + SumOver(g, a .. n - 1)
    BY <1>1, <1>2, <2>1, LastPeriod, Zenon
  <2>3. SumOver(f, a .. n) = f[n] + SumOver(f, a .. n - 1)
    BY <1>1, <2>1, LastPeriod, Zenon
  <2>4. SumOver(g, a .. n - 1) = SumOver(f, a .. n - 1)
    BY <1>3, <2>1, Zenon
  <2>5. SumOver(f, a .. n) \in Nat /\ SumOver(f, a .. n - 1) \in Nat
    BY <1>1, <2>1, StretchIsNatural, Zenon
  <2> DEFINE before == SumOver(f, a .. n - 1)
             last == f[n]
  <2>6. /\ before \in Nat /\ last \in Nat /\ SumOver(f, a .. n) = last + before
        /\ SumOver(g, a .. n) = (last + 1) + before
    BY <1>1, <1>2, <2>2, <2>3, <2>4, <2>5, Zenon
  <2>7. (last + 1) + before = (last + before) + 1
    <3> HIDE DEF before, last
    <3> QED
      BY <2>6
  <2> QED
    BY <2>5, <2>6, <2>7, Zenon
<1>5. Within(f, n, left) /\ Exactly(f, n, left) /\ Capped(f, n)
  BY DEF BucketFacts
<1>6. left - 1 \in 0 .. Rps /\ left - 1 \in Nat
  BY <1>1
<1>7. ASSUME NEW a \in 0 .. n
      PROVE  /\ SumOver(g, a .. n) + (left - 1) = SumOver(f, a .. n) + left
             /\ SumOver(g, a .. n) \in Nat
  <2> DEFINE old == SumOver(f, a .. n)
             new == SumOver(g, a .. n)
  <2>1. old \in Nat /\ new = old + 1
    BY <1>4
  <2>2. new + (left - 1) = old + left /\ new \in Nat
    <3> HIDE DEF old, new
    <3> QED
      BY <1>1, <2>1
  <2> QED
    BY <2>2
<1>8. Within(g, n, left - 1)
  BY <1>5, <1>7, Zenon DEF Within
<1>9. Exactly(g, n, left - 1)
  BY <1>5, <1>7, Zenon DEF Exactly
<1>10. Capped(g, n)
  <2> SUFFICES ASSUME NEW a \in 0 .. n, NEW b \in 0 .. n, a <= b
               PROVE  SumOver(g, a .. b) <= Rps + (b - a)
    BY Zenon DEF Capped
  <2>1. CASE b < n
    <3>1. SumOver(f, a .. b) <= Rps + (b - a)
      BY <1>5, Zenon DEF Capped
    <3>2. b \in Int
      BY <1>1
    <3> QED
      BY <1>3, <2>1, <3>1, <3>2, Zenon
  <2>2. CASE b = n
    <3> DEFINE new == SumOver(g, a .. n)
    <3>1. new + (left - 1) <= Rps + (n - a) /\ new \in Nat
      BY <1>7, <1>8, Zenon DEF Within
    <3>2. new <= Rps + (n - a)
      <4> HIDE DEF new
      <4> QED
        BY <1>1, <1>6, <3>1
    <3> QED
      BY <2>2, <3>2
  <2> QED
    BY <1>1, <2>1, <2>2
<1>11. \A t \in 0 .. MaxTime : t > n => g[t] = 0
  BY <1>1, <1>2 DEF BucketFacts
<1> QED
  BY <1>1, <1>2, <1>6, <1>8, <1>9, <1>10, <1>11, Zenon DEF BucketFacts, g

(* A period passes: the stretches that end now become one longer. *)
LEMMA BucketRefill ==
  ASSUME NEW f, NEW n, NEW left, BucketFacts(f, n, left), n < MaxTime
  PROVE  BucketFacts(f, n + 1, IF left < Rps THEN left + 1 ELSE left)
<1> DEFINE m == n + 1
           more == IF left < Rps THEN left + 1 ELSE left
<1>1. /\ n \in 0 .. MaxTime /\ left \in 0 .. Rps /\ f \in [0 .. MaxTime -> Nat]
      /\ n \in Nat /\ MaxTime \in Nat /\ Rps \in Nat
  BY MaxTimeAssumption, LimitsAssumption DEF BucketFacts
<1>2. m = n + 1 /\ m \in 0 .. MaxTime /\ m \in Nat /\ m - 1 = n /\ more \in 0 .. Rps
  BY <1>1
<1>3. (left < Rps /\ more = left + 1) \/ (left = Rps /\ more = left)
  BY <1>1
<1> HIDE DEF m, more
<1>4. f[m] = 0
  BY <1>1, <1>2 DEF BucketFacts
<1>5. ASSUME NEW a \in 0 .. n
      PROVE  SumOver(f, a .. m) = SumOver(f, a .. n) /\ SumOver(f, a .. n) \in Nat
  <2>1. a \in Nat /\ a <= m /\ n \in Int /\ n <= MaxTime
    BY <1>1, <1>2
  <2>2. SumOver(f, a .. m) = f[m] + SumOver(f, a .. m - 1)
    BY <1>1, <1>2, <2>1, LastPeriod, Zenon
  <2>3. SumOver(f, a .. n) \in Nat
    BY <1>1, <2>1, StretchIsNatural, Zenon
  <2> DEFINE old == SumOver(f, a .. n)
  <2>4. SumOver(f, a .. m) = 0 + old /\ old \in Nat
    BY <1>2, <1>4, <2>2, <2>3, Zenon
  <2>5. 0 + old = old
    <3> HIDE DEF old
    <3> QED
      BY <2>4
  <2> QED
    BY <2>4, <2>5, Zenon
<1>6. SumOver(f, m .. m) = 0
  <2>1. m <= m /\ m .. m - 1 = {}
    BY <1>2
  <2>2. SumOver(f, m .. m) = f[m] + SumOver(f, m .. m - 1)
    BY <1>1, <1>2, <2>1, LastPeriod, Zenon
  <2>3. SumOver(f, m .. m) = 0 + 0
    BY <1>4, <2>1, <2>2, SumOfNothing, Zenon
  <2> QED
    BY <2>3
<1>7. Within(f, n, left) /\ Exactly(f, n, left) /\ Capped(f, n)
  BY DEF BucketFacts
<1>8. \A a \in 0 .. m : a = m \/ a \in 0 .. n
  BY <1>1, <1>2
<1>9. Within(f, m, more)
  <2> SUFFICES ASSUME NEW a \in 0 .. m PROVE SumOver(f, a .. m) + more <= Rps + (m - a)
    BY Zenon DEF Within
  <2>1. CASE a = m
    <3>1. 0 + more <= Rps + (m - m)
      BY <1>1, <1>2
    <3> QED
      BY <1>6, <2>1, <3>1, Zenon
  <2>2. CASE a \in 0 .. n
    <3> DEFINE old == SumOver(f, a .. n)
    <3>1. old \in Nat /\ SumOver(f, a .. m) = old /\ old + left <= Rps + (n - a)
      BY <1>5, <1>7, <2>2, Zenon DEF Within
    <3>2. old + more <= Rps + (m - a)
      <4> HIDE DEF old
      <4> QED
        BY <1>1, <1>2, <1>3, <2>2, <3>1
    <3> QED
      BY <3>1, <3>2, Zenon
  <2> QED
    BY <1>8, <2>1, <2>2
<1>10. Exactly(f, m, more)
  <2>1. CASE left < Rps /\ more = left + 1
    <3>1. PICK a \in 0 .. n : SumOver(f, a .. n) + left = Rps + (n - a)
      BY <1>7, Zenon DEF Exactly
    <3> DEFINE old == SumOver(f, a .. n)
    <3>2. old \in Nat /\ SumOver(f, a .. m) = old /\ old + left = Rps + (n - a)
      BY <1>5, <3>1, Zenon
    <3>3. old + more = Rps + (m - a) /\ a \in 0 .. m
      <4> HIDE DEF old
      <4> QED
        BY <1>1, <1>2, <2>1, <3>2
    <3> QED
      BY <3>2, <3>3, Zenon DEF Exactly
  <2>2. CASE left = Rps /\ more = left
    <3>1. 0 + more = Rps + (m - m) /\ m \in 0 .. m
      BY <1>1, <1>2, <2>2
    <3> QED
      BY <1>6, <3>1, Zenon DEF Exactly
  <2> QED
    BY <1>3, <2>1, <2>2
<1>11. Capped(f, m)
  <2> SUFFICES ASSUME NEW a \in 0 .. m, NEW b \in 0 .. m, a <= b
               PROVE  SumOver(f, a .. b) <= Rps + (b - a)
    BY Zenon DEF Capped
  <2>1. CASE b \in 0 .. n
    <3>1. a \in 0 .. n
      BY <1>1, <1>2, <2>1
    <3> QED
      BY <1>7, <2>1, <3>1, Zenon DEF Capped
  <2>2. CASE b = m
    <3> DEFINE new == SumOver(f, a .. m)
    <3>1. new + more <= Rps + (m - a)
      BY <1>9, Zenon DEF Within
    <3>2. a \in Nat /\ m \in Int /\ m <= MaxTime
      BY <1>1, <1>2
    <3>3. new \in Nat
      BY <1>1, <3>2, StretchIsNatural, Zenon
    <3>4. new <= Rps + (m - a)
      <4> HIDE DEF new
      <4> QED
        BY <1>1, <1>2, <3>1, <3>2, <3>3
    <3> QED
      BY <2>2, <3>4
  <2> QED
    BY <1>8, <2>1, <2>2
<1>12. \A t \in 0 .. MaxTime : t > m => f[t] = 0
  BY <1>1, <1>2 DEF BucketFacts
<1>13. BucketFacts(f, m, more)
  BY <1>1, <1>2, <1>9, <1>10, <1>11, <1>12, Zenon DEF BucketFacts
<1> QED
  BY <1>13 DEF m, more

LEMMA BucketInvNext == BucketInv /\ [GateNext]_gateVars => BucketInv'
<1> SUFFICES ASSUME BucketInv, GateNext \/ UNCHANGED gateVars
             PROVE  BucketFacts(accepted', now', bucket')
  BY BucketInvPrimed
<1>1. /\ BucketFacts(accepted, now, bucket) /\ bucket \in Nat /\ now \in 0 .. MaxTime
      /\ accepted \in [0 .. MaxTime -> Nat]
  BY LimitsAssumption DEF BucketInv, BucketFacts
<1>2. ASSUME bucket' = bucket, now' = now, accepted' = accepted
      PROVE  BucketFacts(accepted', now', bucket')
  BY <1>1, <1>2
<1>3. ASSUME NEW c \in Connections, Admit(c) PROVE BucketFacts(accepted', now', bucket')
  <2> DEFINE verdict == Intercept(Head(queue[c]))
  <2>1. /\ bucket' = bucket - verdict.cost /\ now' = now
        /\ accepted' = [accepted EXCEPT ![now] = IF verdict.status = "Ok" THEN @ + verdict.cost ELSE @]
    BY <1>3 DEF Admit
  <2>2. \/ verdict.cost = 0
        \/ verdict.cost = 1 /\ verdict.status = "Ok" /\ bucket # 0
    BY DEF Intercept
  <2> HIDE DEF verdict
  <2>3. CASE verdict.cost = 0
    <3>1. bucket' = bucket /\ accepted' = accepted
      BY <1>1, <2>1, <2>3
    <3> QED
      BY <1>2, <2>1, <3>1
  <2>4. CASE verdict.cost = 1 /\ verdict.status = "Ok" /\ bucket # 0
    <3>1. bucket > 0 /\ bucket' = bucket - 1 /\ accepted' = [accepted EXCEPT ![now] = @ + 1]
      BY <1>1, <2>1, <2>4
    <3>2. BucketFacts([accepted EXCEPT ![now] = @ + 1], now, bucket - 1)
      BY <1>1, <3>1, BucketAccept, Zenon
    <3> QED
      BY <2>1, <3>1, <3>2, Zenon
  <2> QED
    BY <2>2, <2>3, <2>4
<1>4. CASE Refill
  BY <1>1, <1>4, BucketRefill DEF Refill
<1>5. ASSUME NEW r \in Rpcs,
             \/ \E c \in Connections, method \in Methods, header \in Presented :
                  Arrive(r, c, method, header)
             \/ Respond(r) \/ EndStream(r) \/ Reset(r)
      PROVE  BucketFacts(accepted', now', bucket')
  BY <1>2, <1>5 DEF Arrive, Respond, EndStream, Reset
<1>6. CASE UNCHANGED gateVars
  BY <1>2, <1>6 DEF gateVars
<1> QED
  BY <1>3, <1>4, <1>5, <1>6 DEF GateNext

LEMMA BucketInvariant == GateSpec => []BucketInv
<1>1. GateInit => BucketInv
  <2> SUFFICES ASSUME GateInit PROVE BucketInv
    OBVIOUS
  <2>1. now = 0 /\ bucket = Rps /\ accepted = [t \in 0 .. MaxTime |-> 0]
    BY DEF GateInit
  <2>2. Rps \in Nat /\ MaxTime \in Nat /\ 0 \in 0 .. MaxTime /\ 0 .. 0 = {0} /\ 0 .. 0 - 1 = {}
        /\ 0 \in Nat /\ 0 <= 0 /\ Rps \in 0 .. Rps
    BY MaxTimeAssumption, LimitsAssumption
  <2>3. accepted \in [0 .. MaxTime -> Nat] /\ accepted[0] = 0 /\ \A t \in 0 .. MaxTime : accepted[t] = 0
    BY <2>1, <2>2
  <2>4. SumOver(accepted, 0 .. 0) = accepted[0] + SumOver(accepted, 0 .. 0 - 1)
    BY <2>2, <2>3, LastPeriod, Zenon
  <2>5. SumOver(accepted, 0 .. 0) = 0
    <3>1. SumOver(accepted, 0 .. 0) = 0 + 0
      BY <2>2, <2>3, <2>4, SumOfNothing, Zenon
    <3> QED
      BY <3>1
  <2>6. 0 + Rps = Rps + (0 - 0) /\ 0 + Rps <= Rps + (0 - 0) /\ 0 <= Rps + (0 - 0)
    BY <2>2
  <2>7. \A a \in 0 .. 0 : a = 0
    BY <2>2
  <2>8. Within(accepted, 0, Rps) /\ Exactly(accepted, 0, Rps) /\ Capped(accepted, 0)
    <3>1. Within(accepted, 0, Rps)
      BY <2>5, <2>6, <2>7, Zenon DEF Within
    <3>2. Exactly(accepted, 0, Rps)
      BY <2>2, <2>5, <2>6, Zenon DEF Exactly
    <3>3. Capped(accepted, 0)
      BY <2>5, <2>6, <2>7, Zenon DEF Capped
    <3> QED
      BY <3>1, <3>2, <3>3
  <2> QED
    BY <2>1, <2>2, <2>3, <2>8, Zenon DEF BucketInv, BucketFacts
<1> QED
  BY <1>1, BucketInvNext, PTL DEF GateSpec

(* Whatever connections they come on, the calls of the ledger service that *)
(* are accepted in any stretch of time are at most the burst and what the  *)
(* bucket regained (grpc_interceptor.rs:15, 28).                           *)
THEOREM LoadIsCapped == GateSpec => []AcceptedAreCapped
<1>1. BucketInv => AcceptedAreCapped
  BY AcceptedIsASum, Zenon DEF BucketInv, BucketFacts, Capped, AcceptedAreCapped
<1> QED
  BY <1>1, BucketInvariant, PTL

(* A call is turned away for the limit only when accepted calls have used  *)
(* it up: one without the token takes nothing (grpc_interceptor.rs,        *)
(* tests/grpc_rate_limit.rs:79).                                           *)
THEOREM RefusedCallsAreFree == GateSpec => []OnlyAcceptedCallsSpend
<1>1. BucketInv => OnlyAcceptedCallsSpend
  <2> SUFFICES ASSUME BucketInv, bucket = 0
               PROVE  \E a \in 0 .. now : AcceptedIn(a, now) >= Rps + (now - a)
    BY DEF OnlyAcceptedCallsSpend
  <2>1. PICK a \in 0 .. now : SumOver(accepted, a .. now) + bucket = Rps + (now - a)
    BY Zenon DEF BucketInv, BucketFacts, Exactly
  <2>2. /\ now \in 0 .. MaxTime /\ accepted \in [0 .. MaxTime -> Nat]
        /\ a \in Nat /\ now \in Int /\ now <= MaxTime /\ Rps \in Nat
    BY MaxTimeAssumption, LimitsAssumption DEF BucketInv, BucketFacts
  <2> DEFINE total == SumOver(accepted, a .. now)
  <2>3. total \in Nat /\ AcceptedIn(a, now) = total /\ total + bucket = Rps + (now - a)
    BY <2>1, <2>2, StretchIsNatural, AcceptedIsASum, Zenon
  <2>4. total >= Rps + (now - a)
    <3> HIDE DEF total
    <3> QED
      BY <2>2, <2>3
  <2> QED
    BY <2>3, <2>4, Zenon
<1> QED
  BY <1>1, BucketInvariant, PTL
==============================================================================
