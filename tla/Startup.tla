------------------------------- MODULE Startup -------------------------------
(***************************************************************************)
(* How a process of the ledger service starts (src/src/main.rs): it reads  *)
(* its configuration from the environment (src/src/config.rs), binds the   *)
(* port of the metrics, opens the database, reads the token, reads the     *)
(* TLS files and listens.  Each step may end the process.                  *)
(***************************************************************************)
EXTENDS Auth, Naturals, SequencesExt

CONSTANTS
  Numerals,   (* the numbers among the words: a function to their values   *)
  Addresses,  (* the words that are socket addresses                       *)
  MaxU32, MaxU64,  (* the largest values of u32, and of u64 and usize      *)
  Strangers,  (* variables with a prefix of the service that it never reads *)
  Unrelated,  (* variables of other programs                               *)
  Environments, Arguments  (* the environments and first arguments of an   *)
              (* instance                                                  *)

LongestIdleTimeout == 3600000

ASSUME NumeralsAssumption ==
  /\ DOMAIN Numerals \subseteq Words
  /\ \A w \in DOMAIN Numerals : Numerals[w] \in Nat
ASSUME AddressesAssumption == Addresses \subseteq Words
ASSUME WidthsAssumption == MaxU32 \in Nat /\ MaxU64 \in Nat /\ LongestIdleTimeout < MaxU32
                            /\ MaxU32 < MaxU64

(* The names the settings, STRICT_CONFIG and the token are read under.     *)
ReadAs ==
  [strict_config           |-> "STRICT_CONFIG",
   grpc_listen             |-> "GRPC_LISTEN_ADDR",
   metrics_listen          |-> "METRICS_ADDR",
   db_path                 |-> "QUOTE_LEDGER_DB",
   append_idle_timeout     |-> "APPEND_IDLE_TIMEOUT_MS",
   append_max_commands     |-> "APPEND_MAX_COMMANDS",
   grpc_concurrency_limit  |-> "GRPC_CONCURRENCY_LIMIT",
   grpc_keepalive_interval |-> "GRPC_KEEPALIVE_INTERVAL_MS",
   grpc_keepalive_timeout  |-> "GRPC_KEEPALIVE_TIMEOUT_MS",
   reflection_enabled      |-> "QUOTE_LEDGER_REFLECTION",
   grpc_tls_cert           |-> "GRPC_TLS_CERT",
   grpc_tls_key            |-> "GRPC_TLS_KEY",
   grpc_rate_limit_rps     |-> "GRPC_RATE_LIMIT_RPS",
   auth_token              |-> "QUOTE_LEDGER_AUTH_TOKEN"]
ServiceKeys == {ReadAs[f] : f \in DOMAIN ReadAs}
Variables == ServiceKeys \cup Strangers \cup Unrelated

(* Those that begin with QUOTE_LEDGER_, APPEND_ or GRPC_. *)
Prefixed == Variables \ ({"METRICS_ADDR", "STRICT_CONFIG"} \cup Unrelated)

ASSUME VariablesAssumption == Strangers \cap (ServiceKeys \cup Unrelated) = {}
ASSUME InputsAssumption == Environments \subseteq [Variables -> Values] /\ Arguments \subseteq Values

(* The list that STRICT_CONFIG goes by, kept by hand beside the reads.     *)
KnownKeysWithoutToken ==
  {"APPEND_IDLE_TIMEOUT_MS", "APPEND_MAX_COMMANDS", "GRPC_CONCURRENCY_LIMIT",
   "GRPC_KEEPALIVE_INTERVAL_MS", "GRPC_KEEPALIVE_TIMEOUT_MS", "GRPC_LISTEN_ADDR",
   "GRPC_RATE_LIMIT_RPS", "GRPC_TLS_CERT", "GRPC_TLS_KEY", "METRICS_ADDR",
   "QUOTE_LEDGER_DB", "QUOTE_LEDGER_REFLECTION", "STRICT_CONFIG"}
KNOWN_ENV_KEYS ==
  {"APPEND_IDLE_TIMEOUT_MS", "APPEND_MAX_COMMANDS", "GRPC_CONCURRENCY_LIMIT",
   "GRPC_KEEPALIVE_INTERVAL_MS", "GRPC_KEEPALIVE_TIMEOUT_MS", "GRPC_LISTEN_ADDR",
   "GRPC_RATE_LIMIT_RPS", "GRPC_TLS_CERT", "GRPC_TLS_KEY", "METRICS_ADDR",
   "QUOTE_LEDGER_AUTH_TOKEN", "QUOTE_LEDGER_DB", "QUOTE_LEDGER_REFLECTION", "STRICT_CONFIG"}

VARIABLES
  env,      (* the environment of the process                              *)
  arg,      (* its first argument, as a variable would have it             *)
  stage,    (* what it does next, or how it ended                          *)
  config,   (* its ServiceConfig                                           *)
  token,    (* the token its interceptor expects                           *)
  tls,      (* whether it listens with TLS                                 *)
  db        (* the path of the database it has opened                      *)

startupVars == <<env, arg, stage, config, token, tls, db>>

Var(f) == env[ReadAs[f]]

NoConfig == <<>>
NoDatabase == Unset
Nothing == Blank

-----------------------------------------------------------------------------
(* Reading one variable *)

parse(v, max) ==
  IF v.word \in DOMAIN Numerals /\ Numerals[v.word] <= max THEN Ok(Numerals[v.word]) ELSE Err

(* env_u64, env_usize *)
env_integer(v, default) ==
  CASE v.kind = "unset" -> Ok(default)
    [] v.kind = "text" /\ ~v.padded -> parse(v, MaxU64)
    [] OTHER -> Err

BoolOrDefault(v, default) ==
  CASE v.kind = "text" /\ v.word \in {"1", "true", "yes", "on"} -> Ok(TRUE)
    [] v.kind = "text" /\ v.word \in {"0", "false", "no", "off"} -> Ok(FALSE)
    [] v.kind = "text" -> Err
    [] OTHER -> Ok(default)
env_bool(v, default) ==
  CASE v.kind = "unset" -> Ok(default)
    [] v.kind = "text" /\ v.word \in {"1", "true", "yes", "on"} -> Ok(TRUE)
    [] v.kind = "text" /\ v.word \in {"0", "false", "no", "off"} -> Ok(FALSE)
    [] OTHER -> Err

(* No limit is set; 0 is refused as one. *)
NoLimit == 0
env_opt_nonzero_u32(v) ==
  CASE v.kind = "unset" -> Ok(NoLimit)
    [] v.kind = "text" /\ parse(v, MaxU32).ok /\ parse(v, MaxU32).value # 0 -> parse(v, MaxU32)
    [] OTHER -> Err

env_opt_path(v) ==
  CASE v.kind = "unset" -> Ok(Nothing)
    [] v.kind = "text" /\ v.word # Blank -> Ok(v.word)
    [] OTHER -> Err

ParseAddress(v) == IF v.kind = "text" /\ ~v.padded /\ v.word \in Addresses THEN Ok(v.word) ELSE Err

(* std::env::var(..).unwrap_or_else: the default also stands for a value   *)
(* that is not Unicode.                                                    *)
UnwrapOr(v, default) == IF v.kind = "text" THEN v ELSE default

-----------------------------------------------------------------------------
(* config.rs *)

(* std::env::vars yields the variables in any order, and panics at a value *)
(* that is not Unicode.                                                    *)
StrictOutcomes ==
  LET strict   == env_bool(Var("strict_config"), FALSE)
      unknown  == {k \in Prefixed \ KNOWN_ENV_KEYS : env[k].kind = "text"}
      unreadable == {k \in Variables : env[k].kind = "not unicode"}
  IN  IF ~strict.ok THEN {"refused"}
      ELSE IF ~strict.value THEN {"ok"}
      ELSE (IF unknown # {} THEN {"unknown variable"} ELSE {})
             \cup (IF unreadable # {} THEN {"panicked"} ELSE {})
             \cup (IF unknown \cup unreadable = {} THEN {"ok"} ELSE {})

GrpcListen ==
  IF Var("grpc_listen").kind = "unset"
  THEN ParseAddress(IF arg.kind = "unset" THEN Text("127.0.0.1:50051") ELSE arg)
  ELSE ParseAddress(Var("grpc_listen"))

(* Each setting as it is read ... *)
Settings ==
  [grpc_listen    |-> GrpcListen,
   metrics_listen |-> ParseAddress(UnwrapOr(Var("metrics_listen"), Text("127.0.0.1:9090"))),
   db_path        |-> Ok(UnwrapOr(Var("db_path"), Text("quote_ledger.db"))),
   append_idle_timeout     |-> env_integer(Var("append_idle_timeout"), 10000),
   append_max_commands     |-> env_integer(Var("append_max_commands"), 512),
   grpc_concurrency_limit  |-> env_integer(Var("grpc_concurrency_limit"), 128),
   grpc_keepalive_interval |-> env_integer(Var("grpc_keepalive_interval"), 30000),
   grpc_keepalive_timeout  |-> env_integer(Var("grpc_keepalive_timeout"), 10000),
   reflection_enabled      |-> env_bool(Var("reflection_enabled"), TRUE),
   grpc_tls_cert           |-> env_opt_path(Var("grpc_tls_cert")),
   grpc_tls_key            |-> env_opt_path(Var("grpc_tls_key")),
   grpc_rate_limit_rps     |-> env_opt_nonzero_u32(Var("grpc_rate_limit_rps"))]

(* ... and the checks over them. *)
IsValid(s) ==
  /\ s.append_max_commands >= 1
  /\ s.append_idle_timeout \in 1 .. LongestIdleTimeout
  /\ s.grpc_concurrency_limit >= 1
  /\ s.grpc_keepalive_interval >= 1 /\ s.grpc_keepalive_timeout >= 1
  /\ s.grpc_keepalive_timeout < s.grpc_keepalive_interval
  /\ (s.grpc_tls_cert = Nothing <=> s.grpc_tls_key = Nothing)

from_env_and_args ==
  LET all == Settings
      read == [f \in DOMAIN all |-> all[f].value]
  IN  IF (\A f \in DOMAIN all : all[f].ok) /\ IsValid(read) THEN Ok(read) ELSE Err

-----------------------------------------------------------------------------
(* main *)

ReadConfig ==
  /\ stage = "config"
  /\ \E outcome \in StrictOutcomes :
       IF outcome = "ok" /\ from_env_and_args.ok
       THEN stage' = "metrics" /\ config' = from_env_and_args.value
       ELSE stage' = (IF outcome = "ok" THEN "refused" ELSE outcome) /\ UNCHANGED config
  /\ UNCHANGED <<env, arg, token, tls, db>>

BindMetrics ==
  /\ stage = "metrics"
  /\ stage' = "database"
  /\ UNCHANGED <<env, arg, config, token, tls, db>>

OpenDatabase ==
  /\ stage = "database"
  /\ stage' = "auth" /\ db' = config.db_path
  /\ UNCHANGED <<env, arg, config, token, tls>>

ReadToken ==
  /\ stage = "auth"
  /\ LET read == from_env_var(Var("auth_token"))
     IN  IF read.ok THEN stage' = "tls" /\ token' = read.value
                    ELSE stage' = "refused" /\ UNCHANGED token
  /\ UNCHANGED <<env, arg, config, tls, db>>

ReadTlsFiles ==
  /\ stage = "tls"
  /\ stage' = "listen"
  /\ tls' = (config.grpc_tls_cert # Nothing /\ config.grpc_tls_key # Nothing)
  /\ UNCHANGED <<env, arg, config, token, db>>

Listen ==
  /\ stage = "listen"
  /\ stage' = "serving"
  /\ UNCHANGED <<env, arg, config, token, tls, db>>

(* The port is taken, the database cannot be opened, a file not read. *)
Fail ==
  /\ stage \in {"metrics", "database", "tls", "listen"}
  /\ stage = "tls" => config.grpc_tls_cert # Nothing
  /\ stage' = "failed"
  /\ UNCHANGED <<env, arg, config, token, tls, db>>

-----------------------------------------------------------------------------
StartupInit ==
  /\ env \in Environments /\ arg \in Arguments
  /\ stage = "config" /\ config = NoConfig
  /\ token = NoToken /\ tls = FALSE /\ db = NoDatabase

StartupNext ==
  \/ ReadConfig \/ BindMetrics \/ OpenDatabase \/ ReadToken \/ ReadTlsFiles \/ Listen \/ Fail

StartupSpec == StartupInit /\ [][StartupNext]_startupVars

-----------------------------------------------------------------------------
(* Properties *)

IsServing == stage = "serving"
IsSet(k) == env[k] # Unset

(* A protection the operator asks for is never dropped: whatever           *)
(* QUOTE_LEDGER_AUTH_TOKEN is set to, a server that listens lets nothing   *)
(* through but that word as a bearer token; whichever of the TLS paths is  *)
(* set, it listens with TLS; and if GRPC_RATE_LIMIT_RPS is set, the limit  *)
(* it works with is that number (auth.rs:12-32, config.rs:56-72, 183-191,  *)
(* main.rs:80).                                                            *)
ProtectionIsNeverDropped ==
  IsServing =>
    /\ IsSet("QUOTE_LEDGER_AUTH_TOKEN") =>
         \A h \in Headers : check_request(token, h) =>
           h = BearerOf(env["QUOTE_LEDGER_AUTH_TOKEN"].word)
    /\ IsSet("GRPC_TLS_CERT") \/ IsSet("GRPC_TLS_KEY") => tls
    /\ IsSet("GRPC_RATE_LIMIT_RPS") =>
         /\ config.grpc_rate_limit_rps = Numerals[env["GRPC_RATE_LIMIT_RPS"].word]
         /\ config.grpc_rate_limit_rps # NoLimit

(* The list STRICT_CONFIG goes by agrees with the names the two files      *)
(* read, as far as it is asked: a strict server ignores no variable of its *)
(* prefixes that is set, and none that it would read is called unknown     *)
(* (config.rs:11-26, 88-108, 132-191, main.rs:54).                         *)
StrictCatchesTypos ==
  LET ignored == {k \in Prefixed \ ServiceKeys : IsSet(k)}
  IN  /\ IsServing /\ env_bool(Var("strict_config"), FALSE).value => ignored = {}
      /\ stage = "unknown variable" => ignored # {}

(* A server runs on what its variables say: it has a "Fully validated      *)
(* runtime configuration" (config.rs:110), so a value that cannot be read  *)
(* ends the start.  Two names are exceptions, for which the code takes a   *)
(* default (config.rs:144, 149).                                           *)
UnreadableIsRefused ==
  IsServing =>
    \A k \in ServiceKeys \ {"METRICS_ADDR", "QUOTE_LEDGER_DB"} : env[k].kind # "not unicode"
=============================================================================
