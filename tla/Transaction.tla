----------------------------- MODULE Transaction -----------------------------
(***************************************************************************)
(* The closure of append_one (src/src/ledger.rs) with the transaction of   *)
(* append_command_events (src/src/store.rs), statement by statement, on a  *)
(* SQLite database in WAL mode (src/src/sqlite.rs).  AppendOne and         *)
(* EventStore take all of it for one step; here is why they may.           *)
(*                                                                         *)
(*   lock      the closure waits for the mutex of its connection           *)
(*   decide    it looks the command up and replays the quote               *)
(*   lookup    append_command_events looks the key up                      *)
(*   begin     BEGIN IMMEDIATE, which waits for the database's write lock  *)
(*   number    SELECT MAX(seq) + 1                                         *)
(*   insert    INSERT INTO events, once for each event                     *)
(*   key       INSERT INTO idempotency_keys                                *)
(*   commit    COMMIT                                                      *)
(*   return    the closure has its answer and gives the mutex back         *)
(*   done      the caller has it                                           *)
(*                                                                         *)
(* The service has one connection; Connections with several elements are   *)
(* several processes that have opened the same file.                       *)
(*                                                                         *)
(* The tables of EventStore are what is committed: what a statement        *)
(* outside a transaction reads.                                            *)
(***************************************************************************)
EXTENDS EventStore

CONSTANTS
  Writers,       (* closures                                               *)
  Connections,   (* connections to the database file                       *)
  ConnectionOf,  (* the connection of each closure                         *)
  Hazards        (* the faults an instance has                             *)

ASSUME ConnectionOfAssumption == ConnectionOf \in [Writers -> Connections]
ASSUME HazardsAssumption == Hazards \subseteq {"sqlite", "crash", "power"}

VARIABLES
  writer,   (* writer[w]: where closure w is, and what it holds            *)
  mutex,    (* mutex[c]: the closure that holds connection c, if any       *)
  txn,      (* the tables as the open write transaction sees them          *)
  wal       (* the committed tables: as of the last sync, and after each   *)
            (* commit since                                                *)

txnVars == <<storeVars, writer, mutex, txn, wal>>

Nobody == "nobody"
ASSUME NobodyAssumption == Nobody \notin Writers

NoTransaction == <<>>

Tables == [events |-> events, idempotency_keys |-> idempotency_keys]

(* decided: the last row the closure saw when it judged the command.       *)
NewWriter ==
  [pc |-> "lock", quote_id |-> "none", command_id |-> "none", evs |-> <<>>,
   decided |-> 0, first_seq |-> 0, seq_cursor |-> 0, answer |-> "none", rows |-> <<>>]

HoldsMutex(w) == mutex[ConnectionOf[w]] = w
InTransaction(w) == writer[w].pc \in {"number", "insert", "key", "commit"}

Answers(w, answer, rows) ==
  writer' = [writer EXCEPT ![w].pc = "return", ![w].answer = answer, ![w].rows = rows]

-----------------------------------------------------------------------------
(* Before the transaction *)

(* Any command may come with any id, and stands here for its events. *)
Lock(w) ==
  /\ writer[w].pc = "lock"
  /\ mutex[ConnectionOf[w]] = Nobody
  /\ mutex' = [mutex EXCEPT ![ConnectionOf[w]] = w]
  /\ \E q \in QuoteIds, k \in CommandIds, evs \in EventLists :
       writer' = [writer EXCEPT ![w] = [@ EXCEPT !.pc = "decide", !.quote_id = q,
                                                 !.command_id = k, !.evs = evs]]
  /\ UNCHANGED <<storeVars, txn, wal>>

(* The rows a command is judged on: those before its own, if it has some.  *)
DecideAndUnlock(w) ==
  /\ writer[w].pc = "decide"
  /\ writer' = [writer EXCEPT ![w].pc = "lookup", ![w].decided = HeadSeq(writer[w].quote_id)]
  /\ mutex' = [mutex EXCEPT ![ConnectionOf[w]] = Nobody]
  /\ UNCHANGED <<storeVars, txn, wal>>
Decide(w) ==
  LET q == writer[w].quote_id
      k == writer[w].command_id
  IN  /\ writer[w].pc = "decide"
      /\ writer' = [writer EXCEPT ![w].pc = "lookup",
                                  ![w].decided = IF IsKeyed(q, k)
                                                 THEN idempotency_keys[q][k].first_seq - 1
                                                 ELSE HeadSeq(q)]
      /\ UNCHANGED <<storeVars, mutex, txn, wal>>

DomainRefuses(w) ==
  /\ writer[w].pc = "decide"
  /\ Answers(w, "refused", <<>>)
  /\ UNCHANGED <<storeVars, mutex, txn, wal>>

(* A key that is found, or an empty list of events, is answered at once.   *)
Lookup(w) ==
  LET q == writer[w].quote_id
      k == writer[w].command_id
      verdict == AppendVerdict(q, k, writer[w].evs)
  IN  /\ writer[w].pc = "lookup"
      /\ IF IsKeyed(q, k) \/ writer[w].evs = <<>>
         THEN Answers(w, verdict, IF verdict = "replayed"
                                  THEN InRange(q, idempotency_keys[q][k]) ELSE <<>>)
         ELSE writer' = [writer EXCEPT ![w].pc = "begin"]
      /\ UNCHANGED <<storeVars, mutex, txn, wal>>

-----------------------------------------------------------------------------
(* The transaction *)

Begin(w) ==
  /\ writer[w].pc = "begin"
  /\ txn = NoTransaction
  /\ txn' = Tables
  /\ writer' = [writer EXCEPT ![w].pc = "number"]
  /\ UNCHANGED <<storeVars, mutex, wal>>

(* A read before the transaction, or its BEGIN, fails.                     *)
ReadFails(w) ==
  /\ "sqlite" \in Hazards
  /\ writer[w].pc \in {"decide", "lookup", "begin"}
  /\ Answers(w, "Sqlite", <<>>)
  /\ UNCHANGED <<storeVars, mutex, txn, wal>>

(* Another process has kept the write lock for longer than busy_timeout. *)
Busy(w) ==
  /\ writer[w].pc = "begin"
  /\ txn # NoTransaction
  /\ Answers(w, "Sqlite", <<>>)
  /\ UNCHANGED <<storeVars, mutex, txn, wal>>

Number(w) ==
  LET next_seq == LastSeq(txn.events[writer[w].quote_id]) + 1
  IN  /\ writer[w].pc = "number"
      /\ writer' = [writer EXCEPT ![w].pc = "insert", ![w].first_seq = next_seq,
                                  ![w].seq_cursor = next_seq]
      /\ UNCHANGED <<storeVars, mutex, txn, wal>>

InsertEventCommits(w) ==
  LET q == writer[w].quote_id
      s == writer[w].seq_cursor
      row == Numbered(writer[w].first_seq, writer[w].evs)[s]
  IN  /\ writer[w].pc = "insert"
      /\ s <= MaxSeq /\ s \notin DOMAIN txn.events[q]
      /\ events' = [events EXCEPT ![q] = Insert(@, [x \in {s} |-> row])]
      /\ txn' = [events |-> events', idempotency_keys |-> idempotency_keys]
      /\ wal' = Append(wal, txn')
      /\ writer' = [writer EXCEPT ![w].seq_cursor = s + 1,
                       ![w].pc = IF s + 1 = writer[w].first_seq + Len(writer[w].evs)
                                 THEN "key" ELSE "insert"]
      /\ UNCHANGED <<idempotency_keys, mutex>>
InsertEvent(w) ==
  LET q == writer[w].quote_id
      s == writer[w].seq_cursor
      row == Numbered(writer[w].first_seq, writer[w].evs)[s]
      isLast == s + 1 = writer[w].first_seq + Len(writer[w].evs)
  IN  /\ writer[w].pc = "insert"
      /\ s <= MaxSeq /\ s \notin DOMAIN txn.events[q]
      /\ txn' = [txn EXCEPT !.events[q] = Insert(@, [x \in {s} |-> row])]
      /\ writer' = [writer EXCEPT ![w].seq_cursor = s + 1,
                                  ![w].pc = IF isLast THEN "key" ELSE "insert"]
      /\ UNCHANGED <<storeVars, mutex, wal>>

InsertKey(w) ==
  LET q == writer[w].quote_id
      k == writer[w].command_id
      range == [first_seq |-> writer[w].first_seq, last_seq |-> writer[w].seq_cursor - 1]
  IN  /\ writer[w].pc = "key"
      /\ k \notin DOMAIN txn.idempotency_keys[q]
      /\ txn' = [txn EXCEPT !.idempotency_keys[q] = Insert(@, [x \in {k} |-> range])]
      /\ writer' = [writer EXCEPT ![w].pc = "commit"]
      /\ UNCHANGED <<storeVars, mutex, wal>>

Commit(w) ==
  /\ writer[w].pc = "commit"
  /\ events' = txn.events /\ idempotency_keys' = txn.idempotency_keys
  /\ wal' = Append(wal, txn)
  /\ txn' = NoTransaction
  /\ Answers(w, "committed", Numbered(writer[w].first_seq, writer[w].evs))
  /\ UNCHANGED mutex

(* A later statement fails, for SQLite's reasons or because the primary    *)
(* key is there; the transaction is dropped, which rolls it back.  (Or the *)
(* bound MaxSeq is met.)                                                   *)
KeyExists(w) ==
  \/ writer[w].pc = "insert" /\ writer[w].seq_cursor \in DOMAIN txn.events[writer[w].quote_id]
  \/ /\ writer[w].pc = "key"
     /\ writer[w].command_id \in DOMAIN txn.idempotency_keys[writer[w].quote_id]

FailureOfCommitUnseen(w) ==
  /\ InTransaction(w)
  /\ "sqlite" \in Hazards
  /\ txn' = NoTransaction
  /\ IF writer[w].pc = "commit"
     THEN Answers(w, "committed", Numbered(writer[w].first_seq, writer[w].evs))
     ELSE Answers(w, "Sqlite", <<>>)
  /\ UNCHANGED <<storeVars, mutex, wal>>
StatementFails(w) ==
  /\ InTransaction(w)
  /\ "sqlite" \in Hazards \/ KeyExists(w) \/ writer[w].seq_cursor > MaxSeq
  /\ txn' = NoTransaction
  /\ Answers(w, "Sqlite", <<>>)
  /\ UNCHANGED <<storeVars, mutex, wal>>

(* The mutex is given back, and the caller has the answer. *)
ReturnKeepsMutexOnError(w) ==
  /\ writer[w].pc = "return"
  /\ mutex' = IF writer[w].answer = "Sqlite" THEN mutex
              ELSE [mutex EXCEPT ![ConnectionOf[w]] = Nobody]
  /\ writer' = [writer EXCEPT ![w].pc = "done"]
  /\ UNCHANGED <<storeVars, txn, wal>>
Return(w) ==
  /\ writer[w].pc = "return"
  /\ mutex' = [mutex EXCEPT ![ConnectionOf[w]] = Nobody]
  /\ writer' = [writer EXCEPT ![w].pc = "done"]
  /\ UNCHANGED <<storeVars, txn, wal>>

-----------------------------------------------------------------------------
(* Faults, and SQLite's checkpoint *)

(* The process of connection c stops: its closures are gone, its           *)
(* transaction is rolled back.                                             *)
StopOf(conns) ==
  /\ writer' = [w \in Writers |->
                  IF ConnectionOf[w] \in conns /\ writer[w].pc \notin {"lock", "done"}
                  THEN [NewWriter EXCEPT !.pc = "done", !.answer = "lost"] ELSE writer[w]]
  /\ mutex' = [c \in Connections |-> IF c \in conns THEN Nobody ELSE mutex[c]]
  /\ txn' = IF \E w \in Writers : ConnectionOf[w] \in conns /\ InTransaction(w)
            THEN NoTransaction ELSE txn

Crash(c) ==
  /\ "crash" \in Hazards
  /\ StopOf({c})
  /\ UNCHANGED <<storeVars, wal>>

(* With synchronous = NORMAL the WAL is synced at checkpoints, not at      *)
(* commits.                                                                *)
Checkpoint ==
  /\ Len(wal) > 1
  /\ wal' = <<wal[Len(wal)]>>
  /\ UNCHANGED <<storeVars, writer, mutex, txn>>

(* A power loss keeps what was synced, and of the commits since a prefix.  *)
PowerLoss ==
  /\ "power" \in Hazards
  /\ StopOf(Connections)
  /\ \E n \in DOMAIN wal :
       /\ wal' = SubSeq(wal, 1, n)
       /\ events' = wal[n].events /\ idempotency_keys' = wal[n].idempotency_keys

-----------------------------------------------------------------------------
TxnInit ==
  /\ StoreInit
  /\ writer = [w \in Writers |-> NewWriter]
  /\ mutex = [c \in Connections |-> Nobody]
  /\ txn = NoTransaction
  /\ wal = <<Tables>>

WriterStep(w) ==
  \/ Lock(w) \/ Decide(w) \/ DomainRefuses(w) \/ Lookup(w) \/ Begin(w) \/ Busy(w)
  \/ Number(w) \/ InsertEvent(w) \/ InsertKey(w) \/ Commit(w)
  \/ ReadFails(w) \/ StatementFails(w) \/ Return(w)

TxnNext ==
  \/ \E w \in Writers : WriterStep(w)
  \/ \E c \in Connections : Crash(c)
  \/ Checkpoint \/ PowerLoss

TxnSpec == TxnInit /\ [][TxnNext]_txnVars

FairTxnSpec == TxnSpec /\ \A w \in Writers : WF_txnVars(WriterStep(w))
-----------------------------------------------------------------------------
(* Properties *)

WriterPCs == {"lock", "decide", "lookup", "begin", "number", "insert", "key", "commit",
              "return", "done"}

TxnTypeOK ==
  /\ StoreTypeOK
  /\ DOMAIN writer = Writers /\ DOMAIN mutex = Connections
  /\ \A w \in Writers : /\ writer[w].pc \in WriterPCs
                        /\ writer[w].pc \notin {"lock", "done"} => HoldsMutex(w)
  /\ txn = NoTransaction <=> \A w \in Writers : ~InTransaction(w)
  /\ wal[Len(wal)] = Tables

(* The statements, their failures and the crashes of the process, or of    *)
(* several, are steps of the store, or nothing: a command's rows and its   *)
(* key appear together, numbered on from the head, or not at all.          *)
ImplementsStore == StoreSpec

(* When a command's rows are numbered, the last row of its quote is still  *)
(* the last one the domain judged it on: a command cannot be accepted on   *)
(* one state and take effect on another (ledger.rs:214-242).  It takes the *)
(* mutex, held over both; the transaction begins after the decision.       *)
DecisionIsCurrent ==
  \A w \in Writers : writer[w].pc \in {"insert", "key", "commit"} =>
    writer[w].first_seq = writer[w].decided + 1

(* A caller that was given rows has been given those of its key, and they  *)
(* are stored, whatever happened to other closures since.                  *)
AnswersAreCommitted ==
  \A w \in Writers :
    LET q == writer[w].quote_id
        k == writer[w].command_id
    IN  writer[w].pc = "done" /\ writer[w].answer \in {"committed", "replayed"} =>
          /\ IsKeyed(q, k)
          /\ writer[w].rows = InRange(q, idempotency_keys[q][k])
          /\ writer[w].rows = Numbered(idempotency_keys[q][k].first_seq, writer[w].evs)

(* Every closure comes to its end, those that fail included: none keeps    *)
(* the mutex or the write lock from the others.                            *)
ClosuresReturn == \A w \in Writers : <>(writer[w].pc = "done")
=============================================================================
