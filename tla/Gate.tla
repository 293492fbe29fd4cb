--------------------------------- MODULE Gate ---------------------------------
(***************************************************************************)
(* What a call passes before its handler runs (src/src/main.rs,            *)
(* src/src/grpc_interceptor.rs, src/src/auth.rs):                          *)
(*                                                                         *)
(*   queued     it waits for one of the permits of its connection, of      *)
(*              which there are GRPC_CONCURRENCY_LIMIT                      *)
(*   handling   it has passed the interceptor, if its method has one: the  *)
(*              token first, then the token bucket all connections share   *)
(*   streaming  its handler has returned a stream, which goes on           *)
(*   done       it is over                                                 *)
(*                                                                         *)
(* The permit is held until the handler returns.  The handler of           *)
(* AppendCommands returns when the call is over, those of SubscribeQuote   *)
(* and of the reflection service return a stream at once.                  *)
(*                                                                         *)
(* Time is counted in the periods in which the bucket regains a token,     *)
(* Rps of which are a second.                                              *)
(***************************************************************************)
EXTENDS Auth, Integers, SequencesExt

CONSTANTS
  Rpcs,             (* calls                                               *)
  Connections,      (* HTTP/2 connections of clients                       *)
  ConcurrencyLimit, (* GRPC_CONCURRENCY_LIMIT                              *)
  Rps,              (* GRPC_RATE_LIMIT_RPS                                 *)
  Token,            (* the token the interceptor expects                   *)
  Presented,        (* the authorization metadata that clients send        *)
  MaxTime           (* bound: periods that pass                            *)

ASSUME LimitsAssumption == ConcurrencyLimit \in Nat \ {0} /\ Rps \in Nat \ {0}
ASSUME MaxTimeAssumption == MaxTime \in Nat

VARIABLES
  rpc,       (* rpc[r]: where call r is, and what it asks                  *)
  queue,     (* queue[c]: the calls of connection c that wait, in order    *)
  permits,   (* permits[c]: the free permits of connection c               *)
  bucket,    (* the tokens in the bucket                                   *)
  now,       (* the periods that have passed                               *)
  accepted   (* history: accepted[t]: the calls of the ledger service that *)
             (* passed the interceptor in period t                         *)

gateVars == <<rpc, queue, permits, bucket, now, accepted>>

LedgerMethods == {"AppendCommands", "SubscribeQuote"}
Methods == LedgerMethods \cup {"ServerReflectionInfo"}

NoConnection == "none"
NewRpc ==
  [pc |-> "new", conn |-> NoConnection, method |-> "none", header |-> Missing]

Over(r) == [rpc EXCEPT ![r] = [NewRpc EXCEPT !.pc = "done"]]

-----------------------------------------------------------------------------
Arrive(r, c, method, header) ==
  /\ rpc[r].pc = "new"
  /\ rpc' = [rpc EXCEPT ![r] = [NewRpc EXCEPT !.pc = "queued", !.conn = c, !.method = method,
                                              !.header = header]]
  /\ queue' = [queue EXCEPT ![c] = Append(@, r)]
  /\ UNCHANGED <<permits, bucket, now, accepted>>

(* LedgerGrpcInterceptor: what it answers, and what it takes. *)
LimiterFirst(r) ==
  IF rpc[r].method \notin LedgerMethods THEN [status |-> "Ok", cost |-> 0]
  ELSE IF bucket = 0 THEN [status |-> "RESOURCE_EXHAUSTED", cost |-> 0]
  ELSE IF ~check_request(Token, rpc[r].header) THEN [status |-> "UNAUTHENTICATED", cost |-> 1]
  ELSE [status |-> "Ok", cost |-> 1]
Intercept(r) ==
  IF rpc[r].method \notin LedgerMethods THEN [status |-> "Ok", cost |-> 0]
  ELSE IF ~check_request(Token, rpc[r].header) THEN [status |-> "UNAUTHENTICATED", cost |-> 0]
  ELSE IF bucket = 0 THEN [status |-> "RESOURCE_EXHAUSTED", cost |-> 0]
  ELSE [status |-> "Ok", cost |-> 1]

(* The first call that waits gets a permit and meets the interceptor; one  *)
(* that is refused gives the permit back.                                  *)
AdmitKeepsPermitOfRefused(c) ==
  /\ queue[c] # <<>> /\ permits[c] > 0
  /\ LET r == Head(queue[c])
         verdict == Intercept(r)
     IN  /\ rpc' = IF verdict.status = "Ok" THEN [rpc EXCEPT ![r].pc = "handling"]
                   ELSE Over(r)
         /\ permits' = [permits EXCEPT ![c] = @ - 1]
         /\ bucket' = bucket - verdict.cost
         /\ accepted' = [accepted EXCEPT ![now] = @ + verdict.cost]
  /\ queue' = [queue EXCEPT ![c] = Tail(@)]
  /\ UNCHANGED now
Admit(c) ==
  /\ queue[c] # <<>> /\ permits[c] > 0
  /\ LET r == Head(queue[c])
         verdict == Intercept(r)
         passes == verdict.status = "Ok"
     IN  /\ rpc' = IF passes THEN [rpc EXCEPT ![r].pc = "handling"] ELSE Over(r)
         /\ permits' = [permits EXCEPT ![c] = IF passes THEN @ - 1 ELSE @]
         /\ bucket' = bucket - verdict.cost
         /\ accepted' = [accepted EXCEPT ![now] = IF passes THEN @ + verdict.cost ELSE @]
  /\ queue' = [queue EXCEPT ![c] = Tail(@)]
  /\ UNCHANGED now

(* The handler returns, with an error or its answer, or with a stream. *)
Respond(r) ==
  /\ rpc[r].pc = "handling"
  /\ \/ rpc' = Over(r)
     \/ rpc[r].method # "AppendCommands" /\ rpc' = [rpc EXCEPT ![r].pc = "streaming"]
  /\ permits' = [permits EXCEPT ![rpc[r].conn] = @ + 1]
  /\ UNCHANGED <<queue, bucket, now, accepted>>

EndStream(r) ==
  /\ rpc[r].pc = "streaming"
  /\ rpc' = Over(r)
  /\ UNCHANGED <<queue, permits, bucket, now, accepted>>

(* The client resets the call, or its connection is lost: the future that  *)
(* waits or handles is dropped, and with it its place or its permit.       *)
Reset(r) ==
  /\ rpc' = Over(r)
  /\ \/ /\ rpc[r].pc = "queued"
        /\ \E place \in DOMAIN queue[rpc[r].conn] :
             /\ queue[rpc[r].conn][place] = r
             /\ queue' = [queue EXCEPT ![rpc[r].conn] = RemoveAt(@, place)]
        /\ UNCHANGED permits
     \/ /\ rpc[r].pc = "handling"
        /\ permits' = [permits EXCEPT ![rpc[r].conn] = @ + 1]
        /\ UNCHANGED queue
     \/ rpc[r].pc = "streaming" /\ UNCHANGED <<queue, permits>>
  /\ UNCHANGED <<bucket, now, accepted>>

RefillUnbounded ==
  /\ now < MaxTime
  /\ now' = now + 1
  /\ bucket' = bucket + 1
  /\ UNCHANGED <<rpc, queue, permits, accepted>>
Refill ==
  /\ now < MaxTime
  /\ now' = now + 1
  /\ bucket' = IF bucket < Rps THEN bucket + 1 ELSE bucket
  /\ UNCHANGED <<rpc, queue, permits, accepted>>

-----------------------------------------------------------------------------
GateInit ==
  /\ rpc = [r \in Rpcs |-> NewRpc]
  /\ queue = [c \in Connections |-> <<>>]
  /\ permits = [c \in Connections |-> ConcurrencyLimit]
  /\ bucket = Rps
  /\ now = 0
  /\ accepted = [t \in 0 .. MaxTime |-> 0]

GateNext ==
  \/ \E r \in Rpcs :
       \/ \E c \in Connections, method \in Methods, header \in Presented : Arrive(r, c, method, header)
       \/ Respond(r) \/ EndStream(r) \/ Reset(r)
  \/ \E c \in Connections : Admit(c)
  \/ Refill

GateSpec == GateInit /\ [][GateNext]_gateVars

(* The server admits, and handlers return: AppendCommands too, by its idle *)
(* timeout and its limit of commands (Ledger, CallsEnd).                   *)
FairGateSpec ==
  /\ GateSpec
  /\ \A c \in Connections : WF_gateVars(Admit(c))
  /\ \A r \in Rpcs : WF_gateVars(Respond(r))

-----------------------------------------------------------------------------
(* Properties *)

(* The calls accepted in the periods a .. b. *)
AcceptedIn(a, b) == FoldFunctionOnSet(+, 0, accepted, a .. b)

(* Whatever connections they come on, the calls of the ledger service that *)
(* are accepted in any stretch of time are at most the burst and what the  *)
(* bucket regained meanwhile: 2 * Rps - 1 in a second                      *)
(* (grpc_interceptor.rs:15, 28).                                           *)
AcceptedAreCapped ==
  \A a, b \in 0 .. now : a <= b => AcceptedIn(a, b) <= Rps + (b - a)

(* A call is turned away for the limit only if calls that were accepted    *)
(* have used it up: those without the token take nothing from it, however  *)
(* many they are (tests/grpc_rate_limit.rs:79).                            *)
OnlyAcceptedCallsSpend ==
  bucket = 0 => \E a \in 0 .. now : AcceptedIn(a, now) >= Rps + (now - a)

(* A call that waits for a permit gets it, whatever the calls before it    *)
(* do, unless the client gives up.                                         *)
QueuedCallIsServed == \A r \in Rpcs : rpc[r].pc = "queued" ~> rpc[r].pc # "queued"

=============================================================================
