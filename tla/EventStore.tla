----------------------------- MODULE EventStore -----------------------------
(***************************************************************************)
(* The SQLite persistence of the ledger (src/src/store.rs): the table      *)
(* `events`, keyed by (quote_id, seq), and the table `idempotency_keys`,   *)
(* keyed by (quote_id, client_command_id).                                 *)
(*                                                                         *)
(* Both tables are partial functions of their key, so nothing here says    *)
(* that sequence numbers have no gaps: it is a property to check.  A call  *)
(* of the store runs under the connection's mutex, its writes in one       *)
(* IMMEDIATE transaction, so each call is one step.                        *)
(*                                                                         *)
(* The module knows nothing of what events mean: AppendOne adds the domain.*)
(***************************************************************************)
EXTENDS Integers, Sequences, FiniteSetsExt

CONSTANTS
  QuoteIds,    (* the valid quote ids                                      *)
  CommandIds,  (* the valid client command ids                             *)
  Payloads,    (* encoded events, as stored in events.payload              *)
  EventLists,  (* the lists append_command_events may be called with       *)
  MaxSeq       (* bound: no quote grows beyond this sequence number        *)

ASSUME EventListsAssumption == EventLists \subseteq Seq(Payloads)
ASSUME MaxSeqAssumption == MaxSeq \in Nat

VARIABLES
  events,           (* events[q]: sequence number -> payload               *)
  idempotency_keys  (* idempotency_keys[q]: command id -> [first_seq,      *)
                    (* last_seq], the rows the command committed           *)

storeVars == <<events, idempotency_keys>>

-----------------------------------------------------------------------------
(* Reading.  A result set ordered by seq is the table restricted to the    *)
(* sequence numbers it selects.                                            *)

(* The last sequence number of q, 0 when q has no rows. *)
LastSeq(rows) == Max({0} \cup DOMAIN rows)
HeadSeq(q) == LastSeq(events[q])

(* load_stored_events_between: seq > after AND seq <= upto. *)
Between(q, after, upto) ==
  [s \in {t \in DOMAIN events[q] : after < t /\ t <= upto} |-> events[q][s]]

(* load_events_in_seq_range: seq BETWEEN first AND last. *)
InRange(q, range) == Between(q, range.first_seq - 1, range.last_seq)

(* idempotency_lookup finds a row. *)
IsKeyed(q, k) == k \in DOMAIN idempotency_keys[q]

-----------------------------------------------------------------------------
(* Appending *)

(* The rows that hold the list evs when it is stored from first on. *)
Numbered(first, evs) == [s \in first .. first + Len(evs) - 1 |-> evs[s - first + 1]]

(* same_command_payloads: the rows the key committed are these events. *)
SameLength(q, k, evs) ==
  DOMAIN InRange(q, idempotency_keys[q][k])
    = DOMAIN Numbered(idempotency_keys[q][k].first_seq, evs)
SamePayloads(q, k, evs) ==
  InRange(q, idempotency_keys[q][k]) = Numbered(idempotency_keys[q][k].first_seq, evs)

(* SELECT COALESCE(MAX(seq), 0) + 1 ... WHERE quote_id = q *)
NextSeqOfAllQuotes(q) == Max({HeadSeq(r) : r \in QuoteIds \cup {q}}) + 1
NextSeq(q) == HeadSeq(q) + 1

(* The rows of `events` and the row of `idempotency_keys` a commit inserts. *)
NewRows(q, evs) == Numbered(NextSeq(q), evs)
RangeOffByOne(q, evs) ==
  [first_seq |-> NextSeq(q), last_seq |-> NextSeq(q) + Len(evs)]
RangeFromHead(q, evs) ==
  [first_seq |-> HeadSeq(q), last_seq |-> NextSeq(q) + Len(evs) - 1]
NewRange(q, evs) ==
  [first_seq |-> NextSeq(q), last_seq |-> NextSeq(q) + Len(evs) - 1]

(* What append_command_events answers: "committed" and "replayed" return   *)
(* rows; the others are errors and leave the tables as they are.  An       *)
(* INSERT that meets an existing primary key is a Sqlite error.            *)
VerdictWithoutLookup(q, k, evs) ==
  IF evs = <<>> THEN "EmptyAppend" ELSE "committed"
AppendVerdict(q, k, evs) ==
  CASE IsKeyed(q, k) /\ SamePayloads(q, k, evs)  -> "replayed"
    [] IsKeyed(q, k) /\ ~SamePayloads(q, k, evs) -> "IdempotencyConflict"
    [] ~IsKeyed(q, k) /\ evs = <<>>              -> "EmptyAppend"
    [] ~IsKeyed(q, k) /\ evs # <<>>
       /\ DOMAIN NewRows(q, evs) \cap DOMAIN events[q] # {} -> "Sqlite"
    [] OTHER                                     -> "committed"

(* The table with more rows, those already there unchanged. *)
Insert(table, rows) ==
  [x \in DOMAIN table \cup DOMAIN rows |-> IF x \in DOMAIN table THEN table[x] ELSE rows[x]]

KeyRow(q, k, evs) == [x \in {k} |-> NewRange(q, evs)]

(* The transaction: a row of `events` for each event, then the key's row. *)
CommitRestartsNumbering(q, k, evs) ==
  /\ events' = [events EXCEPT ![q] = Insert(Numbered(1, evs), @)]
  /\ idempotency_keys' = [idempotency_keys EXCEPT ![q] = Insert(@, KeyRow(q, k, evs))]
CommitNothing(q, k, evs) == UNCHANGED storeVars
CommitBatch(q, k, evs) ==
  /\ events' = [events EXCEPT ![q] = Insert(@, NewRows(q, evs))]
  /\ idempotency_keys' = [idempotency_keys EXCEPT ![q] = Insert(@, KeyRow(q, k, evs))]

(* append_command_events as a step.  The bound is on the rows it may add.  *)
AppendCommandEvents(q, k, evs) ==
  \/ /\ AppendVerdict(q, k, evs) = "committed"
     /\ HeadSeq(q) + Len(evs) <= MaxSeq
     /\ CommitBatch(q, k, evs)
  \/ /\ AppendVerdict(q, k, evs) # "committed"
     /\ UNCHANGED storeVars

(* The rows a call that succeeds returns, as of before the call: those the *)
(* key stands for, or those it inserts.                                    *)
ReturnedRows(q, k, evs) ==
  IF IsKeyed(q, k) THEN InRange(q, idempotency_keys[q][k]) ELSE NewRows(q, evs)

-----------------------------------------------------------------------------
StoreInit ==
  /\ events = [q \in QuoteIds |-> <<>>]
  /\ idempotency_keys = [q \in QuoteIds |-> <<>>]

StoreNext ==
  \E q \in QuoteIds, k \in CommandIds, evs \in EventLists : AppendCommandEvents(q, k, evs)

StoreSpec == StoreInit /\ [][StoreNext]_storeVars

-----------------------------------------------------------------------------
(* Properties *)

Seqs == Nat \ {0}

(* Rows have sequence numbers from 1 on and payloads; keys have ranges of  *)
(* sequence numbers: the columns' types (migrations/001_initial.sql).      *)
StoreTypeOK ==
  /\ DOMAIN events = QuoteIds /\ DOMAIN idempotency_keys = QuoteIds
  /\ \A q \in QuoteIds :
       /\ DOMAIN events[q] \subseteq Seqs
       /\ \A s \in DOMAIN events[q] : events[q][s] \in Payloads
       /\ DOMAIN idempotency_keys[q] \subseteq CommandIds
       /\ \A k \in DOMAIN idempotency_keys[q] :
            idempotency_keys[q][k] \in [first_seq : Seqs, last_seq : Seqs]

(* The sequence numbers of a quote are 1, 2, ... up to its head, whatever  *)
(* other quotes do: subscribers take a range of numbers for a range of     *)
(* rows (ledger.rs moves its watermark to the head, not to the last row).  *)
SeqsAreContiguous == \A q \in QuoteIds : DOMAIN events[q] = 1 .. HeadSeq(q)

(* The ranges of the idempotency keys divide the rows of their quote: each *)
(* row was committed by exactly one client command, and each key's range   *)
(* holds rows.  A retry is answered from its range, so an overlap or a     *)
(* hole would return another command's events, or none.                    *)
Covered(q, k) == idempotency_keys[q][k].first_seq .. idempotency_keys[q][k].last_seq
KeysPartitionTheLog ==
  \A q \in QuoteIds :
    /\ DOMAIN events[q] = UNION {Covered(q, k) : k \in DOMAIN idempotency_keys[q]}
    /\ \A k \in DOMAIN idempotency_keys[q] : Covered(q, k) # {}
    /\ \A j, k \in DOMAIN idempotency_keys[q] :
         j # k => Covered(q, j) \cap Covered(q, k) = {}

(* No step changes or removes a row, of either table ("append-only         *)
(* StoredEvent rows", store.rs:1).                                         *)
Extends(f, g) == DOMAIN g \subseteq DOMAIN f /\ \A x \in DOMAIN g : f[x] = g[x]
TablesOnlyGrow ==
  [][\A q \in QuoteIds : /\ Extends(events'[q], events[q])
                         /\ Extends(idempotency_keys'[q], idempotency_keys[q])]_storeVars

(* The tables implement a log per quote that each command extends by its   *)
(* whole batch, once: entry s is row s, with the key whose range holds s.  *)
KeyOf(q, s) == CHOOSE k \in DOMAIN idempotency_keys[q] : s \in Covered(q, k)
LogOf(q) == [s \in 1 .. HeadSeq(q) |-> [key |-> KeyOf(q, s), event |-> events[q][s]]]
Abstract == INSTANCE QuoteLog WITH log <- [q \in QuoteIds |-> LogOf(q)]
ImplementsQuoteLog == Abstract!Spec
=============================================================================
