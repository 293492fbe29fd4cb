------------------------------ MODULE AppendOne ------------------------------
(***************************************************************************)
(* The closure that LedgerInner::append_one runs on the database           *)
(* (src/src/ledger.rs): look the client's command up, replay the quote,    *)
(* decide on the command, and append its events.  It holds the             *)
(* connection's mutex from beginning to end, so it is one step.            *)
(*                                                                         *)
(* The command of a key that is already stored is judged again, on the     *)
(* state the quote had before that key's rows; the store then compares the *)
(* event it yields with the rows.                                          *)
(***************************************************************************)
EXTENDS EventStore, Quote

CONSTANT Requests  (* what clients send: [quote_id, client_command_id, command] *)

ASSUME PayloadsAssumption ==
  /\ QuoteEvents \subseteq Payloads
  /\ \A e \in QuoteEvents : <<e>> \in EventLists

(* The requests whose ids pass validate_identifier and whose command is    *)
(* present: those that append_one is called with.                          *)
ValidRequests ==
  {r \in Requests : /\ r.quote_id \in QuoteIds
                    /\ r.client_command_id \in CommandIds
                    /\ r.command \in Commands}

(* The rows a command is judged on. *)
AllRows(q, k) == events[q]
RowsBefore(q, k) ==
  IF IsKeyed(q, k) THEN Between(q, 0, idempotency_keys[q][k].first_seq - 1)
                   ELSE events[q]

(* The first error before the store is asked to append: a row that does    *)
(* not replay, or the domain's refusal; "Ok" when there is none.           *)
DomainError(q, k, command) ==
  LET before == Replay(RowsBefore(q, k))
  IN  IF before.error # "Ok" THEN before.error ELSE CommandError(before.quote, command)

ErrorOn(r) == DomainError(r.quote_id, r.client_command_id, r.command)

(* What the closure answers: that error, or the store's verdict.           *)
Answer(q, k, command, error) ==
  IF error = "Ok" THEN AppendVerdict(q, k, CommandToEvents(command)) ELSE error

Verdict(q, k, command) == Answer(q, k, command, DomainError(q, k, command))
AnswerTo(r, error) == Answer(r.quote_id, r.client_command_id, r.command, error)

Accepted(verdict) == verdict \in {"committed", "replayed"}

(* The closure as a step, with the error it finds. *)
RunAppend(r, error) ==
  \/ /\ error = "Ok"
     /\ AppendCommandEvents(r.quote_id, r.client_command_id, CommandToEvents(r.command))
  \/ /\ error # "Ok"
     /\ UNCHANGED storeVars

AppendNext == \E r \in ValidRequests : RunAppend(r, ErrorOn(r))

AppendSpec == StoreInit /\ [][AppendNext]_storeVars

-----------------------------------------------------------------------------
(* Properties *)

(* Every prefix of every stored log replays, and its totals fit an i64.  A *)
(* row that did not would refuse every later command of its quote and      *)
(* every subscription to it, for good: append_one and subscribe_quote both *)
(* replay the rows first, and rows are never removed.                      *)
EveryPrefixHasAView ==
  \A q \in QuoteIds : \A n \in 0 .. HeadSeq(q) :
    LET replay == Replay(Between(q, 0, n))
    IN  replay.error = "Ok" /\ TotalsFit(replay.quote)

(* A retry, at any later time and after any other commands of the quote,   *)
(* is answered with the rows its command committed (README.md:94).         *)
RetryReturnsTheCommit ==
  \A q \in QuoteIds : \A k \in DOMAIN idempotency_keys[q] : \A c \in Commands :
    CommandToEvents(c)[1] = events[q][idempotency_keys[q][k].first_seq]
      => Verdict(q, k, c) = "replayed"

(* A finalized quote is frozen: no row follows its QuoteFinalized row, so  *)
(* its totals never change again ("quote is finalized and cannot be        *)
(* modified", domain/error.rs).                                            *)
FinalizedIsFrozen ==
  [][\A q \in QuoteIds :
       (\E s \in DOMAIN events[q] : events[q][s].kind = "QuoteFinalized")
         => events'[q] = events[q]]_storeVars

(* A client command id that is used again with another command is refused, *)
(* whatever was committed since (ledger.rs:214, store.rs:116).             *)
ReusedIdIsRefused ==
  \A q \in QuoteIds : \A k \in DOMAIN idempotency_keys[q] : \A c \in Commands :
    CommandToEvents(c)[1] # events[q][idempotency_keys[q][k].first_seq]
      => ~Accepted(Verdict(q, k, c))
=============================================================================
