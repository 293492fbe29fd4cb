------------------------------ MODULE MCStartup ------------------------------
(* Environments in which up to MaxSet variables are set.                   *)
EXTENDS Startup

MCNumerals ==
  "0" :> 0 @@ "1" :> 1 @@ "10000" :> 10000 @@ "30000" :> 30000 @@ "3600000" :> 3600000
    @@ "3600001" :> 3600001 @@ "2^32" :> MaxU32 + 1 @@ "2^64" :> MaxU64 + 1
MCAddresses == {"127.0.0.1:50051", "127.0.0.1:9090", "0.0.0.0:443"}
MCAscii == {"", "true", "off", "secret", "/a/b", "quote_ledger.db"} \cup DOMAIN MCNumerals \cup MCAddresses
MCWords == MCAscii \cup {"utf8"}

(* What makes a difference for a variable, by its type. *)
Integers == {"0", "1", "10000", "30000", "3600000", "3600001", "2^64", ""}
WordsFor(k) ==
  CASE k \in {"GRPC_LISTEN_ADDR", "METRICS_ADDR"} -> {"0.0.0.0:443", "secret", ""}
    [] k \in {"QUOTE_LEDGER_REFLECTION", "STRICT_CONFIG"} -> {"true", "off", "secret", ""}
    [] k \in {"GRPC_TLS_CERT", "GRPC_TLS_KEY", "QUOTE_LEDGER_DB"} -> {"/a/b", ""}
    [] k = "QUOTE_LEDGER_AUTH_TOKEN" -> {"secret", "utf8", ""}
    [] k = "GRPC_RATE_LIMIT_RPS" -> {"0", "1", "2^32", "secret", ""}
    [] k \in Strangers \cup Unrelated -> {"secret"}
    [] OTHER -> Integers

ValuesFor(k) ==
  {Unset, NotUnicode} \cup {Text(w) : w \in WordsFor(k)} \cup {PaddedText(w) : w \in WordsFor(k)}

AllUnset == [k \in Variables |-> Unset]
OneSet == UNION {{[AllUnset EXCEPT ![k] = v] : v \in ValuesFor(k)} : k \in Variables}
TwoSet ==
  UNION {UNION {{[e EXCEPT ![k] = v] : v \in ValuesFor(k)} : k \in {x \in Variables : e[x] = Unset}} :
           e \in OneSet}

MCArguments == {Unset, Text("0.0.0.0:443"), Text("secret")}
=============================================================================
