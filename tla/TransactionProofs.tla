-------------------------- MODULE TransactionProofs --------------------------
(***************************************************************************)
(* Why AppendOne and EventStore may take a closure for one step, for any   *)
(* closures, quotes, ids and events.  Two things make it so.  The mutex of *)
(* the one connection keeps the decision and the transaction together; the *)
(* write lock and the two primary keys make the transaction by itself a    *)
(* step of the store, also when several processes share the file.          *)
(***************************************************************************)
EXTENDS Transaction, EventStoreProofs

WriterFields == DOMAIN NewWriter

LEMMA WriterFieldNames ==
  WriterFields = {"pc", "quote_id", "command_id", "evs", "decided", "first_seq", "seq_cursor",
                  "answer", "rows"}
  BY DEF WriterFields, NewWriter

Fields(wr) == wr = [f \in WriterFields |-> wr[f]]

WritersAreRecords ==
  /\ writer = [w \in Writers |-> writer[w]]
  /\ \A w \in Writers : Fields(writer[w])

(* The steps of a closure that hold the mutex. *)
Inside == {"decide", "lookup", "begin", "number", "insert", "key", "commit", "return"}

MutexHeld ==
  /\ mutex = [c \in Connections |-> mutex[c]]
  /\ \A w \in Writers : writer[w].pc \in Inside => HoldsMutex(w)

(* A step of a closure changes its own record, and takes the mutex of its  *)
(* connection when it is free or gives back what it has.                   *)
LEMMA WriterMoves ==
  ASSUME WritersAreRecords, NEW w \in Writers, WriterStep(w)
  PROVE  /\ WritersAreRecords'
         /\ \A v \in Writers \ {w} : writer'[v] = writer[v]
<1>1. /\ writer = [v \in Writers |-> writer[v]]
      /\ writer[w] = [f \in WriterFields |-> writer[w][f]]
      /\ \A v \in Writers : Fields(writer[v])
  BY DEF WritersAreRecords, Fields
<1>2. ASSUME NEW wr, Fields(wr), writer' = [writer EXCEPT ![w] = wr]
      PROVE  WritersAreRecords' /\ \A v \in Writers \ {w} : writer'[v] = writer[v]
  <2>1. writer' = [v \in Writers |-> IF v = w THEN wr ELSE writer[v]]
    BY <1>1, <1>2
  <2> QED
    BY <1>1, <1>2, <2>1 DEF WritersAreRecords
<1>3. \E wr : Fields(wr) /\ writer' = [writer EXCEPT ![w] = wr]
  <2>1. ASSUME NEW answer, NEW rows, Answers(w, answer, rows)
        PROVE  \E wr : Fields(wr) /\ writer' = [writer EXCEPT ![w] = wr]
    <3> DEFINE wr == [writer[w] EXCEPT !.pc = "return", !.answer = answer, !.rows = rows]
    <3>1. Fields(wr)
      BY <1>1, WriterFieldNames DEF Fields
    <3>2. writer' = [writer EXCEPT ![w] = wr]
      BY <1>1, <2>1, WriterFieldNames DEF Answers
    <3> QED
      BY <3>1, <3>2
  <2>2. CASE Lock(w)
    <3>1. PICK q \in QuoteIds, k \in CommandIds, evs \in EventLists :
            writer' = [writer EXCEPT ![w] = [writer[w] EXCEPT !.pc = "decide", !.quote_id = q,
                                                !.command_id = k, !.evs = evs]]
      BY <2>2 DEF Lock
    <3>2. Fields([writer[w] EXCEPT !.pc = "decide", !.quote_id = q, !.command_id = k, !.evs = evs])
      BY <1>1, WriterFieldNames DEF Fields
    <3> QED
      BY <3>1, <3>2
  <2>3. CASE Decide(w)
    <3> DEFINE n == IF IsKeyed(writer[w].quote_id, writer[w].command_id)
                    THEN idempotency_keys[writer[w].quote_id][writer[w].command_id].first_seq - 1
                    ELSE HeadSeq(writer[w].quote_id)
               wr == [writer[w] EXCEPT !.pc = "lookup", !.decided = n]
    <3>1. writer' = [writer EXCEPT ![w].pc = "lookup", ![w].decided = n]
      BY <2>3 DEF Decide
    <3> HIDE DEF n
    <3>2. Fields(wr) /\ writer' = [writer EXCEPT ![w] = wr]
      BY <1>1, <3>1, WriterFieldNames DEF Fields
    <3> QED
      BY <3>2
  <2>4. CASE Lookup(w) \/ Begin(w)
    <3> DEFINE pcs == {"begin", "number"}
    <3>1. CASE \E pc \in pcs : writer' = [writer EXCEPT ![w].pc = pc]
      <4>1. PICK pc : writer' = [writer EXCEPT ![w].pc = pc]
        BY <3>1
      <4>2. Fields([writer[w] EXCEPT !.pc = pc])
        BY <1>1, WriterFieldNames DEF Fields
      <4> QED
        BY <4>1, <4>2
    <3>2. CASE \E answer, rows : Answers(w, answer, rows)
      BY <2>1, <3>2
    <3> QED
      BY <2>4, <3>1, <3>2 DEF Lookup, Begin
  <2>5. CASE DomainRefuses(w) \/ Busy(w) \/ ReadFails(w) \/ Commit(w) \/ StatementFails(w)
    BY <2>1, <2>5 DEF DomainRefuses, Busy, ReadFails, Commit, StatementFails
  <2>6. CASE Number(w)
    <3> DEFINE n == LastSeq(txn.events[writer[w].quote_id]) + 1
               wr == [writer[w] EXCEPT !.pc = "insert", !.first_seq = n, !.seq_cursor = n]
    <3>1. writer' = [writer EXCEPT ![w].pc = "insert", ![w].first_seq = n, ![w].seq_cursor = n]
      BY <2>6 DEF Number
    <3> HIDE DEF n
    <3>2. Fields(wr) /\ writer' = [writer EXCEPT ![w] = wr]
      BY <1>1, <3>1, WriterFieldNames DEF Fields
    <3> QED
      BY <3>2
  <2>7. CASE InsertEvent(w)
    <3>1. PICK n, pc : writer' = [writer EXCEPT ![w].seq_cursor = n, ![w].pc = pc]
      BY <2>7 DEF InsertEvent
    <3>2. Fields([writer[w] EXCEPT !.seq_cursor = n, !.pc = pc])
      BY <1>1, WriterFieldNames DEF Fields
    <3> QED
      BY <1>1, <3>1, <3>2
  <2>8. CASE InsertKey(w) \/ Return(w)
    <3>1. PICK pc : writer' = [writer EXCEPT ![w].pc = pc]
      BY <2>8 DEF InsertKey, Return
    <3>2. Fields([writer[w] EXCEPT !.pc = pc])
      BY <1>1, WriterFieldNames DEF Fields
    <3> QED
      BY <3>1, <3>2
  <2> QED
    BY <2>2, <2>3, <2>4, <2>5, <2>6, <2>7, <2>8 DEF WriterStep
<1> QED
  BY <1>2, <1>3

LEMMA StopsAll ==
  ASSUME WritersAreRecords, NEW conns, StopOf(conns)
  PROVE  /\ WritersAreRecords'
         /\ \A w \in Writers : \/ writer'[w] = writer[w]
                               \/ ConnectionOf[w] \in conns /\ writer'[w].pc = "done"
         /\ \A w \in Writers : ConnectionOf[w] \in conns => writer'[w].pc \in {"lock", "done"}
<1>1. writer' = [w \in Writers |->
                  IF ConnectionOf[w] \in conns /\ writer[w].pc \notin {"lock", "done"}
                  THEN [NewWriter EXCEPT !.pc = "done", !.answer = "lost"] ELSE writer[w]]
  BY DEF StopOf
<1> DEFINE lost == [NewWriter EXCEPT !.pc = "done", !.answer = "lost"]
<1>2. Fields(lost) /\ lost.pc = "done"
  BY WriterFieldNames DEF Fields, NewWriter
<1> HIDE DEF lost
<1>3. \A w \in Writers : writer'[w] = lost \/ writer'[w] = writer[w]
  BY <1>1 DEF lost
<1>4. WritersAreRecords'
  BY <1>1, <1>2, <1>3 DEF WritersAreRecords
<1> QED
  BY <1>1, <1>2, <1>4 DEF lost

LEMMA StepKeepsMutex ==
  ASSUME WritersAreRecords, MutexHeld, NEW w \in Writers, WriterStep(w)
  PROVE  /\ MutexHeld'
         /\ mutex[ConnectionOf[w]] \in {w, Nobody}
<1>1. /\ WritersAreRecords' /\ \A v \in Writers \ {w} : writer'[v] = writer[v]
      /\ writer = [v \in Writers |-> writer[v]]
      /\ writer[w] = [f \in WriterFields |-> writer[w][f]]
      /\ \A v \in Writers : ConnectionOf[v] \in Connections
      /\ mutex = [c \in Connections |-> mutex[c]]
  BY WriterMoves, ConnectionOfAssumption DEF WritersAreRecords, Fields, MutexHeld
<1>2. CASE Lock(w)
  <2>1. mutex' = [mutex EXCEPT ![ConnectionOf[w]] = w] /\ mutex[ConnectionOf[w]] = Nobody
    BY <1>2 DEF Lock
  <2>2. \A v \in Writers : writer[v].pc \in Inside => ConnectionOf[v] # ConnectionOf[w]
    BY <2>1, NobodyAssumption DEF MutexHeld, HoldsMutex
  <2> QED
    BY <1>1, <2>1, <2>2 DEF MutexHeld, HoldsMutex
<1>3. CASE Return(w)
  <2>1. mutex' = [mutex EXCEPT ![ConnectionOf[w]] = Nobody] /\ mutex[ConnectionOf[w]] = w
    BY <1>3 DEF Return, MutexHeld, HoldsMutex, Inside
  <2>2. writer'[w].pc = "done"
    BY <1>1, <1>3, WriterFieldNames DEF Return
  <2>3. \A v \in Writers \ {w} : writer[v].pc \in Inside => ConnectionOf[v] # ConnectionOf[w]
    BY <2>1 DEF MutexHeld, HoldsMutex
  <2> QED
    BY <1>1, <2>1, <2>2, <2>3 DEF MutexHeld, HoldsMutex, Inside
<1>4. CASE ~Lock(w) /\ ~Return(w)
  <2>1. mutex' = mutex /\ writer[w].pc \in Inside
    BY <1>4 DEF WriterStep, Decide, DomainRefuses, Lookup, Begin, Busy, ReadFails, Number, InsertEvent,
       InsertKey, Commit, StatementFails, InTransaction, Inside
  <2> QED
    BY <1>1, <2>1 DEF MutexHeld, HoldsMutex
<1> QED
  BY <1>2, <1>3, <1>4

LEMMA StopKeepsMutex ==
  ASSUME WritersAreRecords, MutexHeld, NEW conns, StopOf(conns)
  PROVE  MutexHeld'
<1>1. mutex' = [c \in Connections |-> IF c \in conns THEN Nobody ELSE mutex[c]]
  BY DEF StopOf
<1>2. ASSUME NEW w \in Writers, writer'[w].pc \in Inside
      PROVE  mutex'[ConnectionOf[w]] = w
  <2>1. writer'[w] = writer[w] /\ ConnectionOf[w] \notin conns
    BY <1>2, StopsAll DEF Inside
  <2> QED
    BY <1>1, <1>2, <2>1, ConnectionOfAssumption DEF MutexHeld, HoldsMutex
<1> QED
  BY <1>1, <1>2 DEF MutexHeld, HoldsMutex

-----------------------------------------------------------------------------
(* One connection *)

(* What the closure decided on is what its transaction will number from.   *)
Judged(w) ==
  LET me == writer[w]
  IN  /\ me.pc = "lookup" => \/ IsKeyed(me.quote_id, me.command_id)
                             \/ me.decided = HeadSeq(me.quote_id)
      /\ me.pc \in {"begin", "number"} => me.decided = HeadSeq(me.quote_id)
      /\ me.pc = "number" => txn = Tables
      /\ me.pc \in {"insert", "key", "commit"} => me.first_seq = me.decided + 1

DecisionInv == WritersAreRecords /\ MutexHeld /\ \A w \in Writers : Judged(w)

(* A closure without the mutex has nothing to lose. *)
LEMMA OutsideIsJudged ==
  ASSUME NEW w \in Writers, writer'[w].pc \notin Inside
  PROVE  Judged(w)'
  BY DEF Judged, Inside

LEMMA StepKeepsDecision ==
  ASSUME NEW c, Connections = {c}, DecisionInv, NEW w \in Writers, WriterStep(w)
  PROVE  DecisionInv'
<1>1. WritersAreRecords /\ MutexHeld /\ Judged(w)
  BY DEF DecisionInv
<1>2. /\ WritersAreRecords' /\ MutexHeld' /\ mutex[ConnectionOf[w]] \in {w, Nobody}
      /\ \A v \in Writers \ {w} : writer'[v] = writer[v]
  BY <1>1, WriterMoves, StepKeepsMutex
<1>3. ASSUME NEW v \in Writers \ {w} PROVE Judged(v)'
  <2>1. ConnectionOf[v] = ConnectionOf[w]
    BY ConnectionOfAssumption
  <2>2. writer[v].pc \notin Inside
    BY <1>1, <1>2, <2>1, NobodyAssumption DEF MutexHeld, HoldsMutex
  <2> QED
    BY <1>2, <2>2, OutsideIsJudged
<1> DEFINE me == writer[w]
           you == writer'[w]
<1>4. /\ writer = [v \in Writers |-> writer[v]]
      /\ me = [f \in WriterFields |-> me[f]]
  BY <1>1 DEF WritersAreRecords, Fields
<1>5. ASSUME Lock(w) PROVE Judged(w)'
  <2>1. you.pc = "decide"
    BY <1>4, <1>5, WriterFieldNames DEF Lock
  <2> QED
    BY <2>1 DEF Judged
<1>6. ASSUME Decide(w) PROVE Judged(w)'
  <2>1. /\ UNCHANGED <<events, idempotency_keys>>
        /\ you.pc = "lookup" /\ you.quote_id = me.quote_id /\ you.command_id = me.command_id
        /\ ~IsKeyed(me.quote_id, me.command_id) => you.decided = HeadSeq(me.quote_id)
    BY <1>4, <1>6, WriterFieldNames DEF Decide, storeVars
  <2> QED
    BY <2>1 DEF Judged, IsKeyed, HeadSeq
<1>7. ASSUME Lookup(w) PROVE Judged(w)'
  <2>1. CASE IsKeyed(me.quote_id, me.command_id) \/ me.evs = <<>>
    <3>1. you.pc = "return"
      BY <1>4, <1>7, <2>1, WriterFieldNames DEF Lookup, Answers
    <3> QED
      BY <3>1 DEF Judged
  <2>2. CASE ~IsKeyed(me.quote_id, me.command_id) /\ me.evs # <<>>
    <3>1. /\ UNCHANGED <<events, idempotency_keys>>
          /\ you.pc = "begin" /\ you.quote_id = me.quote_id /\ you.decided = me.decided
          /\ me.pc = "lookup"
      BY <1>4, <1>7, <2>2, WriterFieldNames DEF Lookup, storeVars
    <3> QED
      BY <1>1, <2>2, <3>1 DEF Judged, HeadSeq
  <2> QED
    BY <2>1, <2>2
<1>8. ASSUME Begin(w) PROVE Judged(w)'
  <2>1. /\ UNCHANGED <<events, idempotency_keys>> /\ txn' = Tables /\ me.pc = "begin"
        /\ you.pc = "number" /\ you.quote_id = me.quote_id /\ you.decided = me.decided
    BY <1>4, <1>8, WriterFieldNames DEF Begin, storeVars
  <2> QED
    BY <1>1, <2>1 DEF Judged, HeadSeq, Tables
<1>9. ASSUME Number(w) PROVE Judged(w)'
  <2>1. /\ me.pc = "number" /\ you.pc = "insert" /\ you.decided = me.decided
        /\ you.first_seq = LastSeq(txn.events[me.quote_id]) + 1
    BY <1>4, <1>9, WriterFieldNames DEF Number
  <2>2. LastSeq(txn.events[me.quote_id]) = HeadSeq(me.quote_id)
    BY <1>1, <2>1 DEF Judged, Tables, HeadSeq
  <2> QED
    BY <1>1, <2>1, <2>2 DEF Judged
<1>10. ASSUME InsertEvent(w) \/ InsertKey(w) PROVE Judged(w)'
  <2>1. /\ me.pc \in {"insert", "key"} /\ you.pc \in {"insert", "key", "commit"}
        /\ you.decided = me.decided /\ you.first_seq = me.first_seq
    BY <1>4, <1>10, WriterFieldNames DEF InsertEvent, InsertKey
  <2> QED
    BY <1>1, <2>1 DEF Judged
<1>11. ASSUME DomainRefuses(w) \/ Busy(w) \/ ReadFails(w) \/ Commit(w) \/ StatementFails(w) \/ Return(w) PROVE Judged(w)'
  <2>1. you.pc \in {"return", "done"}
    BY <1>4, <1>11, WriterFieldNames
       DEF DomainRefuses, Busy, ReadFails, Commit, StatementFails, Return, Answers
  <2> QED
    BY <2>1 DEF Judged
<1>12. Judged(w)'
  BY <1>5, <1>6, <1>7, <1>8, <1>9, <1>10, <1>11 DEF WriterStep
<1> QED
  BY <1>2, <1>3, <1>12 DEF DecisionInv

LEMMA DecisionStep ==
  ASSUME NEW c, Connections = {c}, DecisionInv, [TxnNext]_txnVars
  PROVE  DecisionInv'
<1>1. CASE UNCHANGED txnVars
  BY <1>1 DEF txnVars, storeVars, DecisionInv, WritersAreRecords, MutexHeld, HoldsMutex, Judged,
     IsKeyed, HeadSeq, Tables
<1>2. ASSUME NEW w \in Writers, WriterStep(w) PROVE DecisionInv'
  BY <1>2, StepKeepsDecision
<1>3. CASE Checkpoint
  BY <1>3 DEF Checkpoint, storeVars, DecisionInv, WritersAreRecords, MutexHeld, HoldsMutex, Judged,
     IsKeyed, HeadSeq, Tables
<1>4. ASSUME StopOf(Connections) PROVE DecisionInv'
  <2>1. WritersAreRecords' /\ MutexHeld' /\ \A w \in Writers : writer'[w].pc \notin Inside
    BY <1>4, StopsAll, StopKeepsMutex, ConnectionOfAssumption DEF DecisionInv, Inside
  <2> QED
    BY <2>1, OutsideIsJudged DEF DecisionInv
<1>5. ASSUME NEW d \in Connections, Crash(d) PROVE DecisionInv'
  BY <1>4, <1>5 DEF Crash
<1>6. CASE PowerLoss
  BY <1>4, <1>6 DEF PowerLoss
<1> QED
  BY <1>1, <1>2, <1>3, <1>5, <1>6 DEF TxnNext

LEMMA RecordsInit == TxnInit => WritersAreRecords /\ MutexHeld /\ \A w \in Writers : writer[w].pc = "lock"
<1>1. Fields(NewWriter) /\ NewWriter.pc = "lock"
  BY WriterFieldNames DEF Fields, NewWriter
<1> QED
  BY <1>1 DEF TxnInit, WritersAreRecords, MutexHeld, Inside

(* On the one connection of the service, a command takes effect on the     *)
(* state it was judged on: its rows are numbered on from the last row the  *)
(* domain saw, whatever fails and whenever the process or the power does   *)
(* (ledger.rs:214-242).  With two processes on the file this fails.        *)
THEOREM DecisionsAreCurrent ==
  ASSUME NEW c, Connections = {c}
  PROVE  TxnSpec => []DecisionIsCurrent
<1>1. TxnInit => DecisionInv
  BY RecordsInit DEF DecisionInv, Judged
<1>2. DecisionInv /\ [TxnNext]_txnVars => DecisionInv'
  BY DecisionStep
<1>3. DecisionInv => DecisionIsCurrent
  BY DEF DecisionInv, DecisionIsCurrent, Judged
<1> QED
  BY <1>1, <1>2, <1>3, PTL DEF TxnSpec

-----------------------------------------------------------------------------
(* Any connections: a transaction is a step of the store *)

(* The rows that the closure wr has inserted. *)
Inserted(wr) == [s \in wr.first_seq .. wr.seq_cursor - 1 |-> Numbered(wr.first_seq, wr.evs)[s]]

KeyOfInserted(wr) ==
  [x \in {wr.command_id} |-> [first_seq |-> wr.first_seq, last_seq |-> wr.seq_cursor - 1]]

InTxn == {"number", "insert", "key", "commit"}

(* What the open transaction t of wr is to the committed tables ev, keys.  *)
Pending(wr, t, ev, keys) ==
  LET q == wr.quote_id
      rows == ev[q]
  IN  /\ wr.pc \in Inside \ {"return"} =>
           q \in QuoteIds /\ wr.command_id \in CommandIds /\ wr.evs \in EventLists
      /\ wr.pc \in InTxn \cup {"begin"} => wr.evs # <<>>
      /\ wr.pc \in InTxn => t = [events |-> t.events, idempotency_keys |-> t.idempotency_keys]
      /\ wr.pc = "number" => t.events = ev
      /\ wr.pc \in InTxn \ {"number"} =>
           /\ wr.first_seq = LastSeq(rows) + 1
           /\ wr.seq_cursor = wr.first_seq => t.events = ev
           /\ wr.seq_cursor # wr.first_seq =>
                /\ wr.seq_cursor - 1 <= MaxSeq
                /\ t.events = [ev EXCEPT ![q] = Insert(rows, Inserted(wr))]
      /\ wr.pc = "insert" =>
           wr.seq_cursor \in wr.first_seq .. wr.first_seq + Len(wr.evs) - 1
      /\ wr.pc \in {"key", "commit"} => wr.seq_cursor = wr.first_seq + Len(wr.evs)
      /\ wr.pc \in InTxn \ {"commit"} => t.idempotency_keys = keys
      /\ wr.pc = "commit" =>
           /\ wr.command_id \notin DOMAIN keys[q]
           /\ t.idempotency_keys = [keys EXCEPT ![q] = Insert(keys[q], KeyOfInserted(wr))]

OneTransaction == \A v, w \in Writers : InTransaction(v) /\ InTransaction(w) => v = w

TxnInv ==
  /\ WritersAreRecords /\ StoreInv /\ OneTransaction
  /\ \A w \in Writers : Pending(writer[w], txn, events, idempotency_keys)

(* The rows of a quote, and its head. *)
LEMMA RowsOfQuote ==
  ASSUME StoreInv, NEW q \in QuoteIds
  PROVE  HeadSeq(q) \in Nat /\ DOMAIN events[q] = 1 .. HeadSeq(q)
<1>1. PICK n \in Nat : DOMAIN events[q] = 1 .. n
  BY DEF StoreInv, GaplessRows
<1> QED
  BY <1>1, HeadOfRows DEF HeadSeq

LEMMA NotOpen == ASSUME NEW a, NEW b PROVE [events |-> a, idempotency_keys |-> b] # NoTransaction
<1>1. "events" \in DOMAIN [events |-> a, idempotency_keys |-> b]
  OBVIOUS
<1>2. DOMAIN NoTransaction = {}
  BY DEF NoTransaction
<1> QED
  BY <1>1, <1>2

(* A closure outside a transaction is as it was, whatever the tables do.   *)
LEMMA OutsideIsPending ==
  ASSUME NEW wr, NEW t, NEW ev, NEW keys, NEW u, NEW fv, NEW lv,
         Pending(wr, t, ev, keys), wr.pc \notin InTxn
  PROVE  Pending(wr, u, fv, lv)
  BY DEF Pending, InTxn

LEMMA OverIsPending ==
  ASSUME NEW wr, NEW t, NEW ev, NEW keys, wr.pc \in {"lock", "return", "done"}
  PROVE  Pending(wr, t, ev, keys)
  BY DEF Pending, Inside, InTxn

(* Inserting one row after those inserted. *)
Span(first, last, evs) == [x \in first .. last |-> Numbered(first, evs)[x]]
OneRow(first, s, evs) == [x \in {s} |-> Numbered(first, evs)[s]]

LEMMA InsertOne ==
  ASSUME NEW rows, NEW evs, NEW n \in Nat, DOMAIN rows = 1 .. n, NEW s \in Nat, n < s
  PROVE  /\ s = n + 1 => Insert(rows, OneRow(n + 1, s, evs)) = Insert(rows, Span(n + 1, s, evs))
         /\ Insert(Insert(rows, Span(n + 1, s - 1, evs)), OneRow(n + 1, s, evs))
              = Insert(rows, Span(n + 1, s, evs))
<1> DEFINE new == Numbered(n + 1, evs)
           one == [x \in {s} |-> new[s]]
           before == [x \in n + 1 .. s - 1 |-> new[x]]
           upto == [x \in n + 1 .. s |-> new[x]]
<1> HIDE DEF new
<1>1. /\ n + 1 .. s = (n + 1 .. s - 1) \cup {s}
      /\ s \notin n + 1 .. s - 1 /\ s \notin 1 .. n
      /\ (n + 1 .. s) \cap (1 .. n) = {}
  OBVIOUS
<1>2. s = n + 1 => one = upto
  BY <1>1
<1>3. Insert(Insert(rows, before), one) = Insert(rows, upto)
  BY <1>1 DEF Insert
<1> QED
  BY <1>2, <1>3 DEF new, Span, OneRow

-----------------------------------------------------------------------------
(* Each statement *)

(* A step of w that leaves the store alone. *)
LEMMA OthersPending ==
  ASSUME TxnInv, NEW w \in Writers, WriterStep(w), UNCHANGED storeVars,
         Pending(writer'[w], txn', events, idempotency_keys),
         txn' = txn \/ \A v \in Writers \ {w} : ~InTransaction(v),
         writer'[w].pc \in InTxn => \A v \in Writers \ {w} : ~InTransaction(v)
  PROVE  TxnInv' /\ [StoreNext]_storeVars
<1>1. /\ WritersAreRecords' /\ StoreInv'
      /\ \A v \in Writers \ {w} : writer'[v] = writer[v]
  BY WriterMoves, InvUnchanged DEF TxnInv
<1>2. OneTransaction'
  BY <1>1 DEF TxnInv, OneTransaction, InTransaction, InTxn
<1>3. ASSUME NEW v \in Writers PROVE Pending(writer'[v], txn', events, idempotency_keys)
  <2>1. CASE v = w
    BY <2>1
  <2>2. CASE v # w /\ txn' = txn
    BY <1>1, <2>2 DEF TxnInv
  <2>3. CASE v # w /\ ~InTransaction(v)
    BY <1>1, <2>3, OutsideIsPending DEF TxnInv, InTransaction, InTxn
  <2> QED
    BY <2>1, <2>2, <2>3
<1> QED
  BY <1>1, <1>2, <1>3 DEF TxnInv, storeVars

LEMMA BeforeTransaction ==
  ASSUME TxnInv, NEW w \in Writers, Lock(w) \/ Decide(w) \/ Lookup(w)
  PROVE  TxnInv' /\ [StoreNext]_storeVars
<1> DEFINE me == writer[w]
           you == writer'[w]
<1>1. /\ writer = [v \in Writers |-> writer[v]]
      /\ me = [f \in WriterFields |-> me[f]]
      /\ Pending(me, txn, events, idempotency_keys)
  BY DEF TxnInv, WritersAreRecords, Fields
<1>2. UNCHANGED storeVars /\ txn' = txn /\ WriterStep(w)
  BY DEF Lock, Decide, Lookup, WriterStep
<1>3. /\ you.pc \in {"decide", "lookup", "begin", "return"}
      /\ you.pc # "return" => /\ you.quote_id \in QuoteIds /\ you.command_id \in CommandIds
                              /\ you.evs \in EventLists
      /\ you.pc = "begin" => you.evs # <<>>
  <2>1. CASE Lock(w)
    BY <1>1, <2>1, WriterFieldNames DEF Lock
  <2>2. CASE Decide(w)
    <3>1. me.pc = "decide" /\ you.pc = "lookup" /\ you.quote_id = me.quote_id
          /\ you.command_id = me.command_id /\ you.evs = me.evs
      BY <1>1, <2>2, WriterFieldNames DEF Decide
    <3> QED
      BY <1>1, <3>1 DEF Pending, Inside
  <2>3. CASE Lookup(w) /\ (IsKeyed(me.quote_id, me.command_id) \/ me.evs = <<>>)
    <3>1. you.pc = "return"
      BY <1>1, <2>3, WriterFieldNames DEF Lookup, Answers
    <3> QED
      BY <3>1
  <2>4. CASE Lookup(w) /\ ~(IsKeyed(me.quote_id, me.command_id) \/ me.evs = <<>>)
    <3>1. me.pc = "lookup" /\ you.pc = "begin" /\ you.quote_id = me.quote_id
          /\ you.command_id = me.command_id /\ you.evs = me.evs
      BY <1>1, <2>4, WriterFieldNames DEF Lookup
    <3> QED
      BY <1>1, <2>4, <3>1 DEF Pending, Inside
  <2> QED
    BY <2>1, <2>2, <2>3, <2>4
<1>4. Pending(you, txn', events, idempotency_keys)
  BY <1>3 DEF Pending, InTxn, Inside
<1> QED
  BY <1>2, <1>3, <1>4, OthersPending DEF InTxn

LEMMA BeginIsPending ==
  ASSUME TxnInv, NEW w \in Writers, Begin(w)
  PROVE  TxnInv' /\ [StoreNext]_storeVars
<1> DEFINE me == writer[w]
           you == writer'[w]
<1>1. /\ writer = [v \in Writers |-> writer[v]]
      /\ me = [f \in WriterFields |-> me[f]]
      /\ Pending(me, txn, events, idempotency_keys)
  BY DEF TxnInv, WritersAreRecords, Fields
<1>2. /\ UNCHANGED storeVars /\ txn = NoTransaction /\ txn' = Tables /\ WriterStep(w)
      /\ me.pc = "begin" /\ you.pc = "number" /\ you.quote_id = me.quote_id
      /\ you.command_id = me.command_id /\ you.evs = me.evs
  BY <1>1, WriterFieldNames DEF Begin, WriterStep
<1>3. ASSUME NEW v \in Writers PROVE ~InTransaction(v)
  BY <1>2, NotOpen DEF TxnInv, Pending, InTransaction, InTxn
<1>4. Pending(you, Tables, events, idempotency_keys)
  BY <1>1, <1>2 DEF Pending, InTxn, Inside, Tables
<1> QED
  BY <1>2, <1>3, <1>4, OthersPending

(* What the transaction of w is, and that it is the only one. *)
LEMMA Transacting ==
  ASSUME TxnInv, NEW w \in Writers, writer[w].pc \in InTxn
  PROVE  /\ writer = [v \in Writers |-> writer[v]]
         /\ writer[w] = [f \in WriterFields |-> writer[w][f]]
         /\ Pending(writer[w], txn, events, idempotency_keys)
         /\ txn = [events |-> txn.events, idempotency_keys |-> txn.idempotency_keys]
         /\ writer[w].quote_id \in QuoteIds /\ writer[w].command_id \in CommandIds
         /\ writer[w].evs \in EventLists /\ writer[w].evs \in Seq(Payloads)
         /\ writer[w].evs # <<>> /\ Len(writer[w].evs) \in Nat \ {0}
         /\ \A v \in Writers \ {w} : ~InTransaction(v)
<1>1. /\ writer = [v \in Writers |-> writer[v]]
      /\ writer[w] = [f \in WriterFields |-> writer[w][f]]
      /\ Pending(writer[w], txn, events, idempotency_keys)
  BY DEF TxnInv, WritersAreRecords, Fields
<1>2. writer[w].evs \in EventLists /\ writer[w].evs # <<>>
  BY <1>1 DEF Pending, InTxn, Inside
<1>3. writer[w].evs \in Seq(Payloads)
  BY <1>2, EventListsAssumption
<1>4. Len(writer[w].evs) \in Nat \ {0}
  BY <1>2, <1>3
<1>5. \A v \in Writers \ {w} : ~InTransaction(v)
  BY DEF TxnInv, OneTransaction, InTransaction, InTxn
<1> QED
  BY <1>1, <1>2, <1>3, <1>4, <1>5 DEF Pending, InTxn, Inside

LEMMA NumberIsPending ==
  ASSUME TxnInv, NEW w \in Writers, Number(w)
  PROVE  TxnInv' /\ [StoreNext]_storeVars
<1> DEFINE me == writer[w]
           you == writer'[w]
           q == me.quote_id
<1>1. me.pc = "number" /\ me.pc \in InTxn
  BY DEF Number, InTxn
<1>2. /\ writer = [v \in Writers |-> writer[v]]
      /\ me = [f \in WriterFields |-> me[f]]
      /\ Pending(me, txn, events, idempotency_keys)
      /\ Len(me.evs) \in Nat \ {0} /\ q \in QuoteIds
      /\ \A v \in Writers \ {w} : ~InTransaction(v)
  BY <1>1, Transacting
<1>3. /\ UNCHANGED storeVars /\ txn' = txn /\ WriterStep(w)
      /\ you.pc = "insert" /\ you.quote_id = q
      /\ you.command_id = me.command_id /\ you.evs = me.evs
      /\ you.first_seq = LastSeq(txn.events[q]) + 1 /\ you.seq_cursor = you.first_seq
  BY <1>2, WriterFieldNames DEF Number, WriterStep
<1>4. txn.events = events /\ txn.idempotency_keys = idempotency_keys
  BY <1>1, <1>2 DEF Pending, InTxn
<1>5. you.first_seq = LastSeq(events[q]) + 1 /\ LastSeq(events[q]) \in Nat
  BY <1>2, <1>3, <1>4, RowsOfQuote DEF TxnInv, HeadSeq
<1>6. you.seq_cursor \in you.first_seq .. you.first_seq + Len(you.evs) - 1
  BY <1>2, <1>3, <1>5
<1>7. Pending(you, txn, events, idempotency_keys)
  BY <1>1, <1>2, <1>3, <1>4, <1>5, <1>6 DEF Pending, InTxn, Inside
<1> QED
  BY <1>2, <1>3, <1>7, OthersPending

LEMMA InsertEventIsPending ==
  ASSUME TxnInv, NEW w \in Writers, InsertEvent(w)
  PROVE  TxnInv' /\ [StoreNext]_storeVars
<1> DEFINE me == writer[w]
           you == writer'[w]
           q == me.quote_id
           n == LastSeq(events[q])
           s == me.seq_cursor
           one == OneRow(n + 1, s, me.evs)
<1>1. me.pc = "insert" /\ me.pc \in InTxn
  BY DEF InsertEvent, InTxn
<1>2. /\ writer = [v \in Writers |-> writer[v]]
      /\ me = [f \in WriterFields |-> me[f]]
      /\ Pending(me, txn, events, idempotency_keys)
      /\ txn = [events |-> txn.events, idempotency_keys |-> txn.idempotency_keys]
      /\ Len(me.evs) \in Nat \ {0} /\ q \in QuoteIds /\ me.evs \in Seq(Payloads)
      /\ \A v \in Writers \ {w} : ~InTransaction(v)
  BY <1>1, Transacting
<1>3. /\ me.first_seq = n + 1 /\ s \in me.first_seq .. me.first_seq + Len(me.evs) - 1
      /\ s = n + 1 => txn.events = events
      /\ s # n + 1 => txn.events = [events EXCEPT ![q] = Insert(events[q], Inserted(me))]
      /\ txn.idempotency_keys = idempotency_keys
  BY <1>1, <1>2 DEF Pending, InTxn
<1>4. n \in Nat /\ DOMAIN events[q] = 1 .. n /\ DOMAIN events = QuoteIds
  BY <1>2, RowsOfQuote DEF TxnInv, HeadSeq, StoreInv, StoreTypeOK
<1>5. s \in n + 1 .. n + Len(me.evs) /\ s \in Nat
  BY <1>2, <1>3, <1>4
<1>6. /\ UNCHANGED storeVars /\ WriterStep(w) /\ s <= MaxSeq
      /\ txn' = [txn EXCEPT !.events = [txn.events EXCEPT ![q] = Insert(txn.events[q], one)]]
      /\ you.quote_id = q /\ you.command_id = me.command_id /\ you.evs = me.evs
      /\ you.first_seq = n + 1 /\ you.seq_cursor = s + 1
      /\ you.pc = IF s + 1 = n + 1 + Len(me.evs) THEN "key" ELSE "insert"
  BY <1>2, <1>3, WriterFieldNames DEF InsertEvent, WriterStep, OneRow
<1>7. /\ s = n + 1 => Insert(events[q], one) = Insert(events[q], Span(n + 1, s, me.evs))
      /\ Insert(Insert(events[q], Span(n + 1, s - 1, me.evs)), one)
           = Insert(events[q], Span(n + 1, s, me.evs))
  <2>1. n < s
    BY <1>4, <1>5
  <2> HIDE DEF n, s
  <2> QED
    BY <1>4, <1>5, <2>1, InsertOne
<1>8. Inserted(me) = Span(n + 1, s - 1, me.evs) /\ Inserted(you) = Span(n + 1, s, me.evs)
  <2>1. s + 1 - 1 = s
    BY <1>5
  <2> QED
    BY <1>3, <1>6, <2>1 DEF Inserted, Span
<1> HIDE DEF one
<1>9. [txn.events EXCEPT ![q] = Insert(txn.events[q], one)]
        = [events EXCEPT ![q] = Insert(events[q], Inserted(you))]
  <2>1. CASE s = n + 1
    BY <1>3, <1>7, <1>8, <2>1
  <2>2. CASE s # n + 1
    <3> DEFINE old == Insert(events[q], Inserted(me))
    <3>1. txn.events = [events EXCEPT ![q] = old]
      BY <1>3, <2>2
    <3>2. Insert(old, one) = Insert(events[q], Inserted(you))
      BY <1>7, <1>8
    <3> HIDE DEF old
    <3>3. txn.events[q] = old
      BY <1>2, <1>4, <3>1
    <3> QED
      BY <1>4, <3>1, <3>2, <3>3
  <2> QED
    BY <2>1, <2>2
<1>10. /\ txn' = [events |-> txn'.events, idempotency_keys |-> txn'.idempotency_keys]
       /\ txn'.events = [events EXCEPT ![q] = Insert(events[q], Inserted(you))]
       /\ txn'.idempotency_keys = idempotency_keys
  BY <1>2, <1>3, <1>6, <1>9
<1>11. /\ you.pc = "insert" => you.seq_cursor \in you.first_seq .. you.first_seq + Len(you.evs) - 1
       /\ you.pc = "key" => you.seq_cursor = you.first_seq + Len(you.evs)
       /\ you.pc \in {"insert", "key"} /\ you.seq_cursor - 1 <= MaxSeq
       /\ you.seq_cursor # you.first_seq
  <2> DEFINE m == Len(me.evs)
  <2>1. /\ m \in Nat \ {0} /\ n \in Nat /\ s \in n + 1 .. n + m /\ s <= MaxSeq
        /\ Len(you.evs) = m /\ you.first_seq = n + 1 /\ you.seq_cursor = s + 1
        /\ you.pc = IF s + 1 = n + 1 + m THEN "key" ELSE "insert"
    BY <1>2, <1>4, <1>5, <1>6
  <2> HIDE DEF m, n, s, you
  <2> QED
    BY <2>1, MaxSeqAssumption
<1> DEFINE t == txn'
<1>12. Pending(you, t, events, idempotency_keys)
  <2> HIDE DEF t
  <2>1. /\ t = [events |-> t.events, idempotency_keys |-> t.idempotency_keys]
        /\ t.events = [events EXCEPT ![q] = Insert(events[q], Inserted(you))]
        /\ t.idempotency_keys = idempotency_keys
    BY <1>10 DEF t
  <2>2. /\ you.quote_id = q /\ you.first_seq = LastSeq(events[q]) + 1
        /\ you.command_id = me.command_id /\ you.evs = me.evs
    BY <1>6
  <2>3. q \in QuoteIds /\ you.command_id \in CommandIds /\ you.evs \in EventLists
        /\ you.evs # <<>>
    BY <1>1, <2>2, Transacting
  <2> HIDE DEF you, q, n
  <2> QED
    BY <1>11, <2>1, <2>2, <2>3 DEF Pending, InTxn, Inside
<1> QED
  BY <1>2, <1>6, <1>12, OthersPending

LEMMA InsertKeyIsPending ==
  ASSUME TxnInv, NEW w \in Writers, InsertKey(w)
  PROVE  TxnInv' /\ [StoreNext]_storeVars
<1> DEFINE me == writer[w]
           you == writer'[w]
           q == me.quote_id
           k == me.command_id
<1>1. me.pc = "key" /\ me.pc \in InTxn
  BY DEF InsertKey, InTxn
<1>2. /\ writer = [v \in Writers |-> writer[v]]
      /\ me = [f \in WriterFields |-> me[f]]
      /\ Pending(me, txn, events, idempotency_keys)
      /\ txn = [events |-> txn.events, idempotency_keys |-> txn.idempotency_keys]
      /\ \A v \in Writers \ {w} : ~InTransaction(v)
  BY <1>1, Transacting
<1>3. txn.idempotency_keys = idempotency_keys
  BY <1>1, <1>2 DEF Pending, InTxn
<1>4. /\ UNCHANGED storeVars /\ WriterStep(w) /\ k \notin DOMAIN idempotency_keys[q]
      /\ txn' = [txn EXCEPT !.idempotency_keys =
                   [txn.idempotency_keys EXCEPT ![q] = Insert(txn.idempotency_keys[q], KeyOfInserted(me))]]
      /\ you = [me EXCEPT !.pc = "commit"]
  BY <1>2, <1>3 DEF InsertKey, WriterStep, KeyOfInserted
<1>5. /\ you.pc = "commit" /\ you.quote_id = q /\ you.command_id = k /\ you.evs = me.evs
      /\ you.first_seq = me.first_seq /\ you.seq_cursor = me.seq_cursor
  BY <1>2, <1>4, WriterFieldNames
<1>6. Inserted(you) = Inserted(me) /\ KeyOfInserted(you) = KeyOfInserted(me)
  BY <1>5 DEF Inserted, KeyOfInserted
<1> DEFINE t == txn'
<1>7. /\ t = [events |-> t.events, idempotency_keys |-> t.idempotency_keys]
      /\ t.events = txn.events
      /\ t.idempotency_keys =
           [idempotency_keys EXCEPT ![q] = Insert(idempotency_keys[q], KeyOfInserted(you))]
  BY <1>2, <1>3, <1>4, <1>6
<1> HIDE DEF t
<1>8. Pending(you, t, events, idempotency_keys)
  BY <1>1, <1>2, <1>4, <1>5, <1>6, <1>7 DEF Pending, InTxn, Inside
<1> QED
  BY <1>2, <1>4, <1>8, OthersPending DEF t

(* The commit is the step of the store: rows and key appear together. *)
LEMMA CommitIsAppend ==
  ASSUME TxnInv, NEW w \in Writers, Commit(w)
  PROVE  /\ TxnInv' /\ StoreNext
         /\ CommitBatch(writer[w].quote_id, writer[w].command_id, writer[w].evs)
         /\ AppendVerdict(writer[w].quote_id, writer[w].command_id, writer[w].evs) = "committed"
<1> DEFINE me == writer[w]
           q == me.quote_id
           k == me.command_id
           evs == me.evs
           n == LastSeq(events[q])
<1>1. me.pc = "commit" /\ me.pc \in InTxn
  BY DEF Commit, InTxn
<1>2. /\ writer = [v \in Writers |-> writer[v]]
      /\ me = [f \in WriterFields |-> me[f]]
      /\ Pending(me, txn, events, idempotency_keys)
      /\ q \in QuoteIds /\ k \in CommandIds /\ evs \in EventLists /\ evs \in Seq(Payloads)
      /\ evs # <<>> /\ Len(evs) \in Nat \ {0}
      /\ \A v \in Writers \ {w} : ~InTransaction(v)
  BY <1>1, Transacting
<1>3. n \in Nat /\ DOMAIN events[q] = 1 .. n /\ n = HeadSeq(q)
  BY <1>2, RowsOfQuote DEF TxnInv, HeadSeq
<1>4. /\ me.first_seq = n + 1 /\ me.seq_cursor = n + 1 + Len(evs)
      /\ k \notin DOMAIN idempotency_keys[q]
      /\ me.seq_cursor # me.first_seq =>
           /\ me.seq_cursor - 1 <= MaxSeq
           /\ txn.events = [events EXCEPT ![q] = Insert(events[q], Inserted(me))]
      /\ txn.idempotency_keys =
           [idempotency_keys EXCEPT ![q] = Insert(idempotency_keys[q], KeyOfInserted(me))]
  BY <1>1, <1>2 DEF Pending, InTxn
<1>5. /\ me.seq_cursor # me.first_seq /\ n + Len(evs) <= MaxSeq
      /\ me.seq_cursor - 1 = (n + 1) + Len(evs) - 1
  <2> DEFINE m == Len(evs)
             first == me.first_seq
             cursor == me.seq_cursor
  <2>1. /\ m \in Nat \ {0} /\ n \in Nat /\ first = n + 1 /\ cursor = n + 1 + m
        /\ cursor # first => cursor - 1 <= MaxSeq
    BY <1>2, <1>3, <1>4
  <2> HIDE DEF m, n, first, cursor
  <2>2. cursor # first /\ n + m <= MaxSeq /\ cursor - 1 = (n + 1) + m - 1
    BY <2>1, MaxSeqAssumption
  <2> QED
    BY <2>2 DEF m, first, cursor
<1>6. Inserted(me) = NewRows(q, evs)
  BY <1>3, <1>4, <1>5 DEF Inserted, NewRows, NextSeq, Numbered
<1>7. KeyOfInserted(me) = KeyRow(q, k, evs)
  BY <1>3, <1>4 DEF KeyOfInserted, KeyRow, NewRange, NextSeq
<1>8. CommitBatch(q, k, evs)
  BY <1>4, <1>5, <1>6, <1>7 DEF Commit, CommitBatch
<1>9. AppendVerdict(q, k, evs) = "committed"
  <2>1. DOMAIN NewRows(q, evs) = n + 1 .. n + Len(evs)
    BY <1>2, <1>3, NumberedRows DEF NewRows, NextSeq
  <2>2. (n + 1 .. n + Len(evs)) \cap (1 .. n) = {}
    BY <1>2, <1>3
  <2> QED
    BY <1>2, <1>3, <1>4, <2>1, <2>2 DEF AppendVerdict, IsKeyed
<1>10. StoreNext
  BY <1>2, <1>3, <1>5, <1>8, <1>9 DEF StoreNext, AppendCommandEvents
<1>11. StoreInv'
  BY <1>10, InvNext DEF TxnInv
<1>12. /\ WritersAreRecords' /\ \A v \in Writers \ {w} : writer'[v] = writer[v]
  BY WriterMoves DEF TxnInv, WriterStep
<1>13. writer'[w].pc = "return"
  BY <1>2, WriterFieldNames DEF Commit, Answers
<1>14. ASSUME NEW v \in Writers
       PROVE  Pending(writer'[v], txn', events', idempotency_keys') /\ ~InTransaction(v)'
  <2>1. CASE v = w
    BY <1>13, <2>1, OverIsPending DEF InTransaction
  <2>2. CASE v # w
    BY <1>2, <1>12, <2>2, OutsideIsPending DEF TxnInv, InTransaction, InTxn
  <2> QED
    BY <2>1, <2>2
<1> QED
  BY <1>8, <1>9, <1>10, <1>11, <1>12, <1>14 DEF TxnInv, OneTransaction

LEMMA ClosureAnswers ==
  ASSUME TxnInv, NEW w \in Writers,
         DomainRefuses(w) \/ Busy(w) \/ ReadFails(w) \/ StatementFails(w) \/ Return(w)
  PROVE  TxnInv' /\ [StoreNext]_storeVars
<1>1. /\ writer = [v \in Writers |-> writer[v]]
      /\ writer[w] = [f \in WriterFields |-> writer[w][f]]
  BY DEF TxnInv, WritersAreRecords, Fields
<1>2. UNCHANGED storeVars /\ WriterStep(w)
  BY DEF DomainRefuses, Busy, ReadFails, StatementFails, Return, WriterStep
<1>3. writer'[w].pc \in {"return", "done"}
  BY <1>1, WriterFieldNames DEF DomainRefuses, Busy, ReadFails, StatementFails, Return, Answers
<1>4. Pending(writer'[w], txn', events, idempotency_keys)
  BY <1>3, OverIsPending
<1>5. txn' = txn \/ \A v \in Writers \ {w} : ~InTransaction(v)
  BY DEF TxnInv, OneTransaction, DomainRefuses, Busy, ReadFails, StatementFails, Return
<1> QED
  BY <1>2, <1>3, <1>4, <1>5, OthersPending DEF InTxn

LEMMA CrashIsPending ==
  ASSUME TxnInv, NEW c \in Connections, Crash(c)
  PROVE  TxnInv' /\ [StoreNext]_storeVars
<1>1. UNCHANGED storeVars /\ StopOf({c})
  BY DEF Crash
<1>2. WritersAreRecords' /\ StoreInv'
  BY <1>1, StopsAll, InvUnchanged DEF TxnInv
<1>3. ASSUME NEW v \in Writers
      PROVE  writer'[v] = writer[v] \/ writer'[v].pc = "done"
  BY <1>1, StopsAll DEF TxnInv
<1>4. OneTransaction'
  BY <1>3 DEF TxnInv, OneTransaction, InTransaction
<1>5. ASSUME NEW v \in Writers PROVE Pending(writer'[v], txn', events, idempotency_keys)
  <2>1. CASE writer'[v].pc \in {"lock", "done"}
    BY <2>1, OverIsPending
  <2>2. CASE writer'[v].pc \notin {"lock", "done"}
    <3>1. writer'[v] = writer[v] /\ ConnectionOf[v] # c
      BY <1>1, <1>3, <2>2, StopsAll DEF TxnInv
    <3>2. CASE txn' = txn
      BY <3>1, <3>2 DEF TxnInv
    <3>3. CASE txn' # txn
      <4>1. PICK u \in Writers : ConnectionOf[u] = c /\ InTransaction(u)
        BY <1>1, <3>3 DEF StopOf
      <4>2. ~InTransaction(v)
        BY <3>1, <4>1 DEF TxnInv, OneTransaction
      <4> QED
        BY <3>1, <4>2, OutsideIsPending DEF TxnInv, InTransaction, InTxn
    <3> QED
      BY <3>2, <3>3
  <2> QED
    BY <2>1, <2>2
<1> QED
  BY <1>1, <1>2, <1>4, <1>5 DEF TxnInv, storeVars

(* Every step but a loss of power is a step of the store, or nothing. *)
LEMMA StatementStep ==
  ASSUME TxnInv, [TxnNext]_txnVars, ~PowerLoss
  PROVE  TxnInv' /\ [StoreNext]_storeVars
<1>1. ASSUME UNCHANGED <<storeVars, writer, txn>> PROVE TxnInv' /\ [StoreNext]_storeVars
  <2>1. StoreInv'
    BY <1>1, InvUnchanged DEF TxnInv
  <2> QED
    BY <1>1, <2>1 DEF TxnInv, WritersAreRecords, OneTransaction, InTransaction, storeVars
<1>2. ASSUME NEW w \in Writers, WriterStep(w) PROVE TxnInv' /\ [StoreNext]_storeVars
  BY <1>2, BeforeTransaction, BeginIsPending, NumberIsPending, InsertEventIsPending,
     InsertKeyIsPending, CommitIsAppend, ClosureAnswers DEF WriterStep
<1>3. ASSUME NEW c \in Connections, Crash(c) PROVE TxnInv' /\ [StoreNext]_storeVars
  BY <1>3, CrashIsPending
<1> QED
  BY <1>1, <1>2, <1>3 DEF TxnNext, txnVars, Checkpoint

LEMMA TxnStep ==
  ASSUME "power" \notin Hazards, TxnInv, [TxnNext]_txnVars
  PROVE  TxnInv' /\ [StoreNext]_storeVars
  BY StatementStep DEF PowerLoss

(* Without a loss of power, the statements of any closures, of any         *)
(* processes on the file, with failures and crashes at each of them, are   *)
(* steps of the store: rows and key of a command appear together, numbered *)
(* on from the head, or not at all (store.rs:129-175).                      *)
THEOREM TransactionImplementsStore ==
  ASSUME "power" \notin Hazards
  PROVE  TxnSpec => ImplementsStore
<1>1. TxnInit => TxnInv
  BY RecordsInit, InvInit, OverIsPending DEF TxnInit, TxnInv, OneTransaction, InTransaction
<1>2. TxnInv /\ [TxnNext]_txnVars => TxnInv' /\ [StoreNext]_storeVars
  BY TxnStep
<1>3. TxnInit => StoreInit
  BY DEF TxnInit
<1> QED
  BY <1>1, <1>2, <1>3, PTL DEF TxnSpec, ImplementsStore, StoreSpec

-----------------------------------------------------------------------------
(* The answers *)

AnswerOK(wr, ev, keys) ==
  wr.pc \in {"return", "done"} /\ wr.answer \in {"committed", "replayed"} =>
    LET q == wr.quote_id
        range == keys[q][wr.command_id]
    IN  /\ q \in QuoteIds /\ wr.command_id \in DOMAIN keys[q]
        /\ wr.rows = [s \in {t \in DOMAIN ev[q] : range.first_seq - 1 < t /\ t <= range.last_seq}
                        |-> ev[q][s]]
        /\ wr.rows = Numbered(range.first_seq, wr.evs)

AnswersOK == \A w \in Writers : AnswerOK(writer[w], events, idempotency_keys)

(* The rows of a key are its rows after a commit too. *)
LEMMA KeyedRowsStay ==
  ASSUME StoreInv, [StoreNext]_storeVars, NEW q \in QuoteIds, NEW k \in DOMAIN idempotency_keys[q]
  PROVE  /\ k \in DOMAIN idempotency_keys'[q] /\ idempotency_keys'[q][k] = idempotency_keys[q][k]
         /\ LET range == idempotency_keys[q][k]
                InIt(rows) == {t \in DOMAIN rows : range.first_seq - 1 < t /\ t <= range.last_seq}
            IN  [s \in InIt(events'[q]) |-> events'[q][s]] = [s \in InIt(events[q]) |-> events[q][s]]
<1> DEFINE range == idempotency_keys[q][k]
           InIt(rows) == {t \in DOMAIN rows : range.first_seq - 1 < t /\ t <= range.last_seq}
<1>1. CASE UNCHANGED storeVars
  BY <1>1 DEF storeVars
<1>2. ASSUME NEW r \in QuoteIds, NEW j \in CommandIds, NEW evs \in EventLists,
             AppendVerdict(r, j, evs) = "committed", CommitBatch(r, j, evs)
      PROVE  /\ k \in DOMAIN idempotency_keys'[q] /\ idempotency_keys'[q][k] = range
             /\ [s \in InIt(events'[q]) |-> events'[q][s]] = [s \in InIt(events[q]) |-> events[q][s]]
  <2>1. PICK n \in Nat : DOMAIN events[r] = 1 .. n
    BY DEF StoreInv, GaplessRows
  <2>2. /\ Len(evs) \in Nat \ {0} /\ OthersKept(r) /\ RowsAdded(r, evs, n) /\ KeyAdded(r, j, evs, n)
    BY <1>2, <2>1, CommitTables DEF StoreInv
  <2>3. CASE r # q
    BY <2>2, <2>3 DEF OthersKept
  <2>4. CASE r = q
    <3>1. range.first_seq \in Seqs /\ range.last_seq \in Seqs
      BY DEF StoreInv, StoreTypeOK
    <3>2. range.last_seq <= n
      <4>1. Covered(q, k) # {} /\ Covered(q, k) \subseteq 1 .. n
        BY <2>1, <2>4 DEF StoreInv, KeysPartitionTheLog
      <4>2. range.last_seq \in Covered(q, k)
        BY <3>1, <4>1 DEF Covered, Seqs
      <4> QED
        BY <4>1, <4>2
    <3>3. /\ DOMAIN events'[q] = 1 .. n + Len(evs) /\ DOMAIN events[q] = 1 .. n
          /\ \A s \in 1 .. n : events'[q][s] = events[q][s]
      BY <2>1, <2>2, <2>4 DEF RowsAdded
    <3> HIDE DEF range
    <3>4. InIt(events'[q]) = InIt(events[q]) /\ InIt(events[q]) \subseteq 1 .. n
      BY <2>2, <3>1, <3>2, <3>3 DEF Seqs
    <3>5. [s \in InIt(events'[q]) |-> events'[q][s]] = [s \in InIt(events[q]) |-> events[q][s]]
      BY <3>3, <3>4
    <3> QED
      BY <2>2, <2>4, <3>5 DEF KeyAdded, range
  <2> QED
    BY <2>3, <2>4
<1> QED
  BY <1>1, <1>2, StepCases

LEMMA AnswerStays ==
  ASSUME StoreInv, [StoreNext]_storeVars, NEW wr, AnswerOK(wr, events, idempotency_keys)
  PROVE  AnswerOK(wr, events', idempotency_keys')
<1> SUFFICES ASSUME wr.pc \in {"return", "done"}, wr.answer \in {"committed", "replayed"}
             PROVE  AnswerOK(wr, events', idempotency_keys')
  BY DEF AnswerOK
<1>1. wr.quote_id \in QuoteIds /\ wr.command_id \in DOMAIN idempotency_keys[wr.quote_id]
  BY DEF AnswerOK
<1> QED
  BY <1>1, KeyedRowsStay DEF AnswerOK

(* The answer of a closure, when it gets it. *)
LEMMA AnswerIsOK ==
  ASSUME TxnInv, AnswersOK, NEW w \in Writers, WriterStep(w)
  PROVE  AnswerOK(writer'[w], events', idempotency_keys')
<1> DEFINE me == writer[w]
           you == writer'[w]
           q == me.quote_id
           k == me.command_id
<1>1. /\ writer = [v \in Writers |-> writer[v]]
      /\ me = [f \in WriterFields |-> me[f]]
      /\ Pending(me, txn, events, idempotency_keys) /\ AnswerOK(me, events, idempotency_keys)
  BY DEF TxnInv, WritersAreRecords, Fields, AnswersOK
<1>2. ASSUME you.pc \notin {"return", "done"} \/ you.answer \notin {"committed", "replayed"}
      PROVE  AnswerOK(you, events', idempotency_keys')
  BY <1>2 DEF AnswerOK
<1>3. CASE Lock(w) \/ Decide(w) \/ Begin(w) \/ Number(w) \/ InsertEvent(w) \/ InsertKey(w)
  <2>1. you.pc \in {"decide", "lookup", "begin", "number", "insert", "key", "commit"}
    BY <1>1, <1>3, WriterFieldNames DEF Lock, Decide, Begin, Number, InsertEvent, InsertKey
  <2> QED
    BY <1>2, <2>1
<1>4. CASE DomainRefuses(w) \/ Busy(w) \/ ReadFails(w) \/ StatementFails(w)
  <2>1. you.answer \in {"refused", "Sqlite"}
    BY <1>1, <1>4, WriterFieldNames DEF DomainRefuses, Busy, ReadFails, StatementFails, Answers
  <2> QED
    BY <1>2, <2>1
<1>5. CASE Return(w)
  <2>1. /\ UNCHANGED <<events, idempotency_keys>> /\ me.pc = "return"
        /\ you.answer = me.answer /\ you.quote_id = q /\ you.command_id = k
        /\ you.evs = me.evs /\ you.rows = me.rows
    BY <1>1, <1>5, WriterFieldNames DEF Return, storeVars
  <2> QED
    BY <1>1, <2>1 DEF AnswerOK
<1>6. CASE Lookup(w)
  <2>1. me.pc = "lookup" /\ UNCHANGED <<events, idempotency_keys>>
    BY <1>6 DEF Lookup, storeVars
  <2>2. q \in QuoteIds
    BY <1>1, <2>1 DEF Pending, Inside
  <2>3. CASE ~IsKeyed(q, k)
    <3>1. you.pc = "begin" \/ you.answer = "EmptyAppend"
      BY <1>1, <1>6, <2>3, WriterFieldNames DEF Lookup, Answers, AppendVerdict
    <3> QED
      BY <1>2, <3>1
  <2>4. CASE IsKeyed(q, k) /\ ~SamePayloads(q, k, me.evs)
    <3>1. you.answer = "IdempotencyConflict"
      BY <1>1, <1>6, <2>4, WriterFieldNames DEF Lookup, Answers, AppendVerdict
    <3> QED
      BY <1>2, <3>1
  <2>5. CASE IsKeyed(q, k) /\ SamePayloads(q, k, me.evs)
    <3>1. AppendVerdict(q, k, me.evs) = "replayed"
      BY <2>5 DEF AppendVerdict
    <3>2. Answers(w, "replayed", InRange(q, idempotency_keys[q][k]))
      BY <1>6, <2>5, <3>1 DEF Lookup
    <3>3. /\ you.rows = InRange(q, idempotency_keys[q][k])
          /\ you.quote_id = q /\ you.command_id = k /\ you.evs = me.evs
      BY <1>1, <3>2, WriterFieldNames DEF Answers
    <3> QED
      BY <2>1, <2>2, <2>5, <3>3 DEF AnswerOK, InRange, Between, IsKeyed, SamePayloads
  <2> QED
    BY <2>3, <2>4, <2>5
<1>7. CASE Commit(w)
  <2> DEFINE evs == me.evs
             n == HeadSeq(q)
             m == Len(evs)
  <2>1. me.pc = "commit" /\ me.pc \in InTxn
    BY <1>7 DEF Commit, InTxn
  <2>2. /\ q \in QuoteIds /\ k \in CommandIds /\ evs \in EventLists /\ evs \in Seq(Payloads)
        /\ m \in Nat \ {0}
    BY <2>1, Transacting
  <2>3. me.first_seq = n + 1 /\ n \in Nat /\ DOMAIN events[q] = 1 .. n
    BY <1>1, <2>1, <2>2, RowsOfQuote DEF TxnInv, Pending, InTxn, HeadSeq
  <2>4. CommitBatch(q, k, evs) /\ AppendVerdict(q, k, evs) = "committed"
    BY <1>7, CommitIsAppend
  <2>5. RowsAdded(q, evs, n) /\ KeyAdded(q, k, evs, n)
    BY <2>2, <2>3, <2>4, CommitTables DEF TxnInv, StoreInv
  <2>6. /\ you.rows = Numbered(n + 1, evs)
        /\ you.quote_id = q /\ you.command_id = k /\ you.evs = evs
    BY <1>1, <1>7, <2>3, WriterFieldNames DEF Commit, Answers
  <2>7. /\ DOMAIN Numbered(n + 1, evs) = n + 1 .. n + m
        /\ \A s \in n + 1 .. n + m : Numbered(n + 1, evs)[s] = evs[s - n]
    BY <2>2, <2>3, NumberedRows
  <2> DEFINE new == Numbered(n + 1, evs)
             inIt == {t \in DOMAIN events'[q] : (n + 1) - 1 < t /\ t <= n + m}
  <2>8. inIt = n + 1 .. n + m
    <3>1. DOMAIN events'[q] = 1 .. n + m
      BY <2>5 DEF RowsAdded
    <3> HIDE DEF n, m
    <3> QED
      BY <2>2, <2>3, <3>1
  <2>9. new = [s \in inIt |-> events'[q][s]]
    <3>1. new = [s \in n + 1 .. n + m |-> new[s]]
      BY <2>7 DEF Numbered
    <3>2. \A s \in n + 1 .. n + m : events'[q][s] = evs[s - n]
      BY <2>5 DEF RowsAdded
    <3>3. \A s \in inIt : events'[q][s] = new[s]
      BY <2>7, <2>8, <3>2
    <3> HIDE DEF n, m, inIt, new
    <3> QED
      BY <2>8, <3>1, <3>3
  <2>10. /\ k \in DOMAIN idempotency_keys'[q]
         /\ idempotency_keys'[q][k] = [first_seq |-> n + 1, last_seq |-> n + m]
    BY <2>5 DEF KeyAdded
  <2> QED
    BY <2>2, <2>6, <2>9, <2>10 DEF AnswerOK
<1> QED
  BY <1>3, <1>4, <1>5, <1>6, <1>7 DEF WriterStep

LEMMA AnswersStep ==
  ASSUME "power" \notin Hazards, TxnInv, AnswersOK, [TxnNext]_txnVars
  PROVE  AnswersOK'
<1>1. StoreInv /\ [StoreNext]_storeVars
  BY TxnStep DEF TxnInv
<1>2. ASSUME NEW v \in Writers, writer'[v] = writer[v]
      PROVE  AnswerOK(writer'[v], events', idempotency_keys')
  BY <1>1, <1>2, AnswerStays DEF AnswersOK
<1>3. CASE UNCHANGED txnVars \/ Checkpoint
  BY <1>2, <1>3 DEF AnswersOK, txnVars, Checkpoint
<1>4. ASSUME NEW w \in Writers, WriterStep(w) PROVE AnswersOK'
  BY <1>2, <1>4, WriterMoves, AnswerIsOK DEF AnswersOK, TxnInv
<1>5. ASSUME NEW c \in Connections, Crash(c) PROVE AnswersOK'
  <2>1. ASSUME NEW v \in Writers, writer'[v] # writer[v]
        PROVE  writer'[v].answer = "lost"
    <3>1. writer'[v] = [NewWriter EXCEPT !.pc = "done", !.answer = "lost"]
      BY <1>5, <2>1 DEF Crash, StopOf, TxnInv, WritersAreRecords
    <3> QED
      BY <3>1 DEF NewWriter
  <2>2. ASSUME NEW v \in Writers, writer'[v].answer = "lost"
        PROVE  AnswerOK(writer'[v], events', idempotency_keys')
    BY <2>2 DEF AnswerOK
  <2> QED
    BY <1>2, <2>1, <2>2 DEF AnswersOK
<1> QED
  BY <1>3, <1>4, <1>5 DEF TxnNext, PowerLoss

(* Without a loss of power, what a caller was given is stored under its    *)
(* key, whatever failed and whichever processes crashed since; a retry is  *)
(* given the same rows (store.rs:114-174, ledger.rs:214-242).              *)
THEOREM AnswersStay ==
  ASSUME "power" \notin Hazards
  PROVE  TxnSpec => []AnswersAreCommitted
<1>1. TxnInit => TxnInv /\ AnswersOK
  <2>1. TxnInit => TxnInv
    BY RecordsInit, InvInit, OverIsPending DEF TxnInit, TxnInv, OneTransaction, InTransaction
  <2> QED
    BY <2>1, RecordsInit DEF AnswersOK, AnswerOK
<1>2. TxnInv /\ AnswersOK /\ [TxnNext]_txnVars => (TxnInv /\ AnswersOK)'
  BY TxnStep, AnswersStep
<1>3. TxnInv /\ AnswersOK => AnswersAreCommitted
  BY DEF AnswersOK, AnswerOK, AnswersAreCommitted, IsKeyed, InRange, Between
<1> QED
  BY <1>1, <1>2, <1>3, PTL DEF TxnSpec
-----------------------------------------------------------------------------
(***************************************************************************)
(* Losses of power too.  What is left is one of the states that were       *)
(* committed since the last sync, so each of them has to be sound: it is   *)
(* not enough that the tables are.                                         *)
(***************************************************************************)

(* StoreInv of any tables. *)
Sound(t) ==
  LET ev == t.events
      keys == t.idempotency_keys
      Rows(q, k) == keys[q][k].first_seq .. keys[q][k].last_seq
  IN  /\ t = [events |-> ev, idempotency_keys |-> keys]
      /\ DOMAIN ev = QuoteIds /\ DOMAIN keys = QuoteIds
      /\ \A q \in QuoteIds :
           /\ DOMAIN ev[q] \subseteq Seqs
           /\ \A s \in DOMAIN ev[q] : ev[q][s] \in Payloads
           /\ DOMAIN keys[q] \subseteq CommandIds
           /\ \A k \in DOMAIN keys[q] : keys[q][k] \in [first_seq : Seqs, last_seq : Seqs]
           /\ \E n \in Nat : DOMAIN ev[q] = 1 .. n
           /\ DOMAIN ev[q] = UNION {Rows(q, k) : k \in DOMAIN keys[q]}
           /\ \A k \in DOMAIN keys[q] : Rows(q, k) # {}
           /\ \A j, k \in DOMAIN keys[q] : j # k => Rows(q, j) \cap Rows(q, k) = {}

WalOK ==
  /\ \E X : wal \in Seq(X)
  /\ Len(wal) # 0
  /\ \A i \in 1 .. Len(wal) : Sound(wal[i])
  /\ wal[Len(wal)] = Tables

(* An open transaction is some closure's. *)
IsOwned == txn # NoTransaction => \E w \in Writers : InTransaction(w)

PCsOK == \A w \in Writers : writer[w].pc \in WriterPCs

DurableInv == TxnInv /\ MutexHeld /\ PCsOK /\ IsOwned /\ WalOK

LEMMA TablesAreSound == StoreInv <=> Sound(Tables)
  BY DEF StoreInv, StoreTypeOK, GaplessRows, KeysPartitionTheLog, Covered, Sound, Tables

LEMMA TablesAreSoundNext == StoreInv' <=> Sound(Tables')
  BY DEF StoreInv, StoreTypeOK, GaplessRows, KeysPartitionTheLog, Covered, Sound, Tables

(* What is left of the log of commits. *)
LEMMA LogFacts ==
  ASSUME NEW X, NEW log \in Seq(X), Len(log) # 0
  PROVE  /\ Len(log) \in Nat \ {0}
         /\ \A e : /\ Append(log, e) \in Seq(X \cup {e})
                   /\ Len(Append(log, e)) = Len(log) + 1
                   /\ \A i \in 1 .. Len(log) : Append(log, e)[i] = log[i]
                   /\ Append(log, e)[Len(log) + 1] = e
         /\ \A n \in 1 .. Len(log) : /\ SubSeq(log, 1, n) \in Seq(X)
                                     /\ Len(SubSeq(log, 1, n)) = n
                                     /\ \A i \in 1 .. n : SubSeq(log, 1, n)[i] = log[i]
<1>1. Len(log) \in Nat \ {0}
  OBVIOUS
<1>2. ASSUME NEW e
      PROVE  /\ Append(log, e) \in Seq(X \cup {e})
             /\ Len(Append(log, e)) = Len(log) + 1
             /\ \A i \in 1 .. Len(log) : Append(log, e)[i] = log[i]
             /\ Append(log, e)[Len(log) + 1] = e
  <2>1. log \in Seq(X \cup {e})
    OBVIOUS
  <2> QED
    BY <2>1
<1>3. ASSUME NEW n \in 1 .. Len(log)
      PROVE  /\ SubSeq(log, 1, n) \in Seq(X)
             /\ Len(SubSeq(log, 1, n)) = n
             /\ \A i \in 1 .. n : SubSeq(log, 1, n)[i] = log[i]
  BY <1>1
<1> QED
  BY <1>1, <1>2, <1>3

LEMMA WalStays ==
  ASSUME WalOK, UNCHANGED <<storeVars, wal>>
  PROVE  WalOK'
  BY DEF WalOK, Tables, storeVars

LEMMA CommitKeepsWal ==
  ASSUME TxnInv, WalOK, NEW w \in Writers, Commit(w)
  PROVE  WalOK'
<1>1. writer[w].pc \in InTxn
  BY DEF Commit, InTxn
<1>2. txn = Tables'
  BY <1>1, Transacting DEF Commit, Tables
<1>3. Sound(Tables')
  BY CommitIsAppend, TablesAreSoundNext DEF TxnInv
<1>4. wal' = Append(wal, Tables')
  BY <1>2 DEF Commit
<1>5. PICK X : wal \in Seq(X)
  BY DEF WalOK
<1> DEFINE t == Tables'
<1> HIDE DEF t
<1>6. Len(wal) # 0 /\ wal' = Append(wal, t) /\ Sound(t) /\ \A i \in 1 .. Len(wal) : Sound(wal[i])
  BY <1>3, <1>4 DEF WalOK, t
<1>7. /\ Len(wal) \in Nat \ {0} /\ wal' \in Seq(X \cup {t}) /\ Len(wal') = Len(wal) + 1
      /\ \A i \in 1 .. Len(wal) : wal'[i] = wal[i]
      /\ wal'[Len(wal) + 1] = t
  BY <1>5, <1>6, LogFacts
<1>8. \A i \in 1 .. Len(wal') : Sound(wal'[i])
  <2> TAKE i \in 1 .. Len(wal')
  <2>1. i \in 1 .. Len(wal) \/ i = Len(wal) + 1
    BY <1>7
  <2> QED
    BY <1>6, <1>7, <2>1
<1>9. wal'[Len(wal')] = Tables' /\ Len(wal') # 0 /\ \E Y : wal' \in Seq(Y)
  BY <1>7 DEF t
<1> QED
  BY <1>8, <1>9 DEF WalOK

LEMMA CheckpointKeepsWal ==
  ASSUME WalOK, Checkpoint
  PROVE  WalOK'
<1> DEFINE t == wal[Len(wal)]
<1>1. wal' = <<t>> /\ Tables' = Tables
  BY DEF Checkpoint, Tables, storeVars
<1>2. Len(wal) \in Nat \ {0}
  BY LogFacts DEF WalOK
<1>3. Sound(t) /\ t = Tables
  BY <1>2 DEF WalOK
<1> HIDE DEF t
<1>4. wal' \in Seq({t}) /\ Len(wal') = 1 /\ wal'[1] = t
  BY <1>1
<1> QED
  BY <1>1, <1>3, <1>4 DEF WalOK

LEMMA PowerLossKeepsWal ==
  ASSUME WalOK, PowerLoss
  PROVE  WalOK' /\ StoreInv'
<1>1. PICK n \in DOMAIN wal :
        /\ wal' = SubSeq(wal, 1, n)
        /\ events' = wal[n].events /\ idempotency_keys' = wal[n].idempotency_keys
  BY DEF PowerLoss
<1>2. PICK X : wal \in Seq(X)
  BY DEF WalOK
<1>3. Len(wal) # 0 /\ n \in 1 .. Len(wal)
  BY <1>2 DEF WalOK
<1>4. /\ Len(wal) \in Nat \ {0} /\ wal' \in Seq(X) /\ Len(wal') = n
      /\ \A i \in 1 .. n : wal'[i] = wal[i]
  BY <1>1, <1>2, <1>3, LogFacts
<1>5. \A i \in 1 .. n : Sound(wal[i]) /\ Sound(wal'[i])
  BY <1>3, <1>4 DEF WalOK
<1>6. wal'[n] = wal[n] /\ Sound(wal[n])
  BY <1>3, <1>4, <1>5
<1>7. Tables' = wal[n]
  BY <1>1, <1>6 DEF Tables, Sound
<1>8. WalOK'
  BY <1>3, <1>4, <1>5, <1>6, <1>7 DEF WalOK
<1> QED
  BY <1>6, <1>7, <1>8, TablesAreSoundNext

(* A step of a closure goes from one of its stages to another, and opens   *)
(* or ends only its own transaction.                                       *)
LEMMA StepKeepsOwner ==
  ASSUME TxnInv, PCsOK, IsOwned, NEW w \in Writers, WriterStep(w)
  PROVE  PCsOK' /\ IsOwned'
<1> DEFINE you == writer'[w]
<1>1. /\ writer = [v \in Writers |-> writer[v]]
      /\ writer[w] = [f \in WriterFields |-> writer[w][f]]
      /\ \A v \in Writers \ {w} : writer'[v] = writer[v]
  BY WriterMoves DEF TxnInv, WritersAreRecords, Fields
<1>2. ASSUME you.pc \in WriterPCs PROVE PCsOK'
  BY <1>1, <1>2 DEF PCsOK
<1>3. CASE Lock(w) \/ Decide(w) \/ DomainRefuses(w) \/ Lookup(w) \/ Busy(w) \/ ReadFails(w) \/ Return(w)
  <2>1. you.pc \in {"decide", "lookup", "return", "begin", "done"}
    BY <1>1, <1>3, WriterFieldNames
    DEF Lock, Decide, DomainRefuses, Lookup, Busy, ReadFails, Return, Answers
  <2>2. txn' = txn /\ ~InTransaction(w)
    BY <1>3 DEF Lock, Decide, DomainRefuses, Lookup, Busy, ReadFails, Return, InTransaction
  <2>3. IsOwned'
    BY <1>1, <2>2 DEF IsOwned, InTransaction
  <2> QED
    BY <1>2, <2>1, <2>3 DEF WriterPCs
<1>4. CASE Begin(w) \/ Number(w) \/ InsertEvent(w) \/ InsertKey(w)
  <2>1. you.pc \in {"number", "insert", "key", "commit"}
    BY <1>1, <1>4, WriterFieldNames DEF Begin, Number, InsertEvent, InsertKey
  <2> QED
    BY <1>2, <2>1 DEF WriterPCs, IsOwned, InTransaction
<1>5. CASE Commit(w) \/ StatementFails(w)
  <2>1. you.pc = "return" /\ txn' = NoTransaction
    BY <1>1, <1>5, WriterFieldNames DEF Commit, StatementFails, Answers
  <2> QED
    BY <1>2, <2>1 DEF WriterPCs, IsOwned
<1> QED
  BY <1>3, <1>4, <1>5 DEF WriterStep

LEMMA StopKeepsOwner ==
  ASSUME WritersAreRecords, PCsOK, IsOwned, NEW conns, StopOf(conns)
  PROVE  PCsOK' /\ IsOwned'
<1>1. ASSUME NEW w \in Writers PROVE writer'[w] = writer[w] \/ writer'[w].pc = "done"
  BY StopsAll
<1>2. PCsOK'
  BY <1>1 DEF PCsOK, WriterPCs
<1>3. ASSUME txn' # NoTransaction PROVE \E w \in Writers : InTransaction(w)'
  <2>1. txn' = txn /\ ~ \E w \in Writers : ConnectionOf[w] \in conns /\ InTransaction(w)
    BY <1>3 DEF StopOf
  <2>2. PICK w \in Writers : InTransaction(w) /\ ConnectionOf[w] \notin conns
    BY <1>3, <2>1 DEF IsOwned
  <2>3. writer'[w] = writer[w]
    BY <2>2, StopsAll
  <2> QED
    BY <2>2, <2>3 DEF InTransaction
<1> QED
  BY <1>2, <1>3 DEF IsOwned

LEMMA DurableStep == DurableInv /\ [TxnNext]_txnVars => DurableInv'
<1> SUFFICES ASSUME DurableInv, [TxnNext]_txnVars PROVE DurableInv'
  OBVIOUS
<1>1. TxnInv /\ WritersAreRecords /\ MutexHeld /\ PCsOK /\ IsOwned /\ WalOK
  BY DEF DurableInv, TxnInv
<1>2. CASE UNCHANGED txnVars \/ Checkpoint
  <2>1. UNCHANGED <<storeVars, writer, mutex, txn>>
    BY <1>2 DEF txnVars, Checkpoint
  <2>2. TxnInv'
    <3>1. StoreInv'
      BY <1>1, <2>1, InvUnchanged DEF TxnInv
    <3> QED
      BY <1>1, <2>1, <3>1 DEF TxnInv, WritersAreRecords, OneTransaction, InTransaction, storeVars
  <2>3. WalOK'
    BY <1>1, <1>2, WalStays, CheckpointKeepsWal DEF txnVars
  <2>4. MutexHeld' /\ PCsOK' /\ IsOwned'
    BY <1>1, <2>1 DEF MutexHeld, HoldsMutex, PCsOK, IsOwned, InTransaction
  <2> QED
    BY <2>2, <2>3, <2>4 DEF DurableInv
<1>3. ASSUME NEW w \in Writers, WriterStep(w) PROVE DurableInv'
  <2>1. TxnInv'
    BY <1>1, <1>3, BeforeTransaction, BeginIsPending, NumberIsPending, InsertEventIsPending,
       InsertKeyIsPending, CommitIsAppend, ClosureAnswers DEF WriterStep
  <2>2. WalOK'
    <3>1. CASE Commit(w)
      BY <1>1, <3>1, CommitKeepsWal
    <3>2. CASE ~Commit(w)
      <4>1. UNCHANGED <<storeVars, wal>>
        BY <1>3, <3>2 DEF WriterStep, Lock, Decide, DomainRefuses, Lookup, Begin, Busy, ReadFails, Number,
           InsertEvent, InsertKey, StatementFails, Return
      <4> QED
        BY <1>1, <4>1, WalStays
    <3> QED
      BY <3>1, <3>2
  <2>3. MutexHeld' /\ PCsOK' /\ IsOwned'
    BY <1>1, <1>3, StepKeepsMutex, StepKeepsOwner
  <2> QED
    BY <2>1, <2>2, <2>3 DEF DurableInv
<1>4. ASSUME NEW c \in Connections, Crash(c) PROVE DurableInv'
  <2>1. StopOf({c}) /\ UNCHANGED <<storeVars, wal>>
    BY <1>4 DEF Crash
  <2> QED
    BY <1>1, <1>4, <2>1, CrashIsPending, WalStays, StopKeepsMutex, StopKeepsOwner DEF DurableInv
<1>5. CASE PowerLoss
  <2>1. StopOf(Connections)
    BY <1>5 DEF PowerLoss
  <2>2. /\ WritersAreRecords'
        /\ \A w \in Writers : writer'[w].pc \in {"lock", "done"}
    BY <1>1, <2>1, StopsAll, ConnectionOfAssumption
  <2>3. OneTransaction' /\ \A w \in Writers : Pending(writer'[w], txn', events', idempotency_keys')
    BY <2>2, OverIsPending DEF OneTransaction, InTransaction
  <2>4. WalOK' /\ StoreInv'
    BY <1>1, <1>5, PowerLossKeepsWal
  <2> QED
    BY <1>1, <2>1, <2>2, <2>3, <2>4, StopKeepsMutex, StopKeepsOwner DEF DurableInv, TxnInv
<1> QED
  BY <1>2, <1>3, <1>4, <1>5 DEF TxnNext

LEMMA DurableInit == TxnInit => DurableInv
<1> SUFFICES ASSUME TxnInit PROVE DurableInv
  OBVIOUS
<1>1. TxnInv /\ MutexHeld /\ \A w \in Writers : writer[w].pc = "lock"
  BY RecordsInit, InvInit, OverIsPending DEF TxnInit, TxnInv, OneTransaction, InTransaction
<1>2. PCsOK /\ IsOwned
  BY <1>1 DEF TxnInit, PCsOK, WriterPCs, IsOwned
<1>3. Sound(Tables)
  BY <1>1, TablesAreSound DEF TxnInv
<1> DEFINE t == Tables
<1>4. wal = <<t>> /\ Sound(t)
  BY <1>3 DEF TxnInit
<1> HIDE DEF t
<1>5. wal \in Seq({t}) /\ Len(wal) = 1 /\ wal[1] = t
  BY <1>4
<1>6. (\E X : wal \in Seq(X)) /\ Len(wal) # 0 /\ wal[Len(wal)] = t
  BY <1>5
<1>7. \A i \in 1 .. Len(wal) : Sound(wal[i])
  BY <1>4, <1>5
<1>8. WalOK
  BY <1>6, <1>7 DEF WalOK, t
<1> QED
  BY <1>1, <1>2, <1>8 DEF DurableInv

LEMMA DurableInvariant == TxnSpec => []DurableInv
  BY DurableInit, DurableStep, PTL DEF TxnSpec

(* Statements, their failures, crashes and losses of power leave no write  *)
(* transaction without a closure that has it open, no closure at work      *)
(* without the mutex of its connection, and the tables at the last commit  *)
(* of the write-ahead log (ledger.rs:177, store.rs:129, sqlite.rs:14).     *)
THEOREM TransactionsAreTyped == TxnSpec => []TxnTypeOK
<1>1. DurableInv => TxnTypeOK
  <2> SUFFICES ASSUME DurableInv PROVE TxnTypeOK
    OBVIOUS
  <2>1. TxnInv /\ MutexHeld /\ PCsOK /\ IsOwned /\ WalOK
    BY DEF DurableInv
  <2>2. StoreTypeOK /\ DOMAIN writer = Writers /\ DOMAIN mutex = Connections
    BY <2>1 DEF TxnInv, StoreInv, WritersAreRecords, MutexHeld
  <2>3. \A w \in Writers : /\ writer[w].pc \in WriterPCs
                           /\ writer[w].pc \notin {"lock", "done"} => HoldsMutex(w)
    BY <2>1 DEF PCsOK, WriterPCs, MutexHeld, Inside
  <2>4. ASSUME NEW w \in Writers, InTransaction(w) PROVE txn # NoTransaction
    <3>1. txn = [events |-> txn.events, idempotency_keys |-> txn.idempotency_keys]
      BY <2>1, <2>4, Transacting DEF InTransaction, InTxn
    <3> QED
      BY <3>1, NotOpen
  <2>5. txn = NoTransaction <=> \A w \in Writers : ~InTransaction(w)
    BY <2>1, <2>4 DEF IsOwned
  <2> QED
    BY <2>1, <2>2, <2>3, <2>5 DEF TxnTypeOK, WalOK
<1> QED
  BY <1>1, DurableInvariant, PTL

(* After a loss of power too, the rows that are left are numbered from 1   *)
(* without a gap, each belongs to the key of exactly one command, and each *)
(* key that is left has its rows: a commit is lost whole or not at all     *)
(* (sqlite.rs:14-15, store.rs:129-175).                                    *)
THEOREM KeysSurvivePowerLoss == TxnSpec => [](SeqsAreContiguous /\ KeysPartitionTheLog)
<1>1. DurableInv => SeqsAreContiguous /\ KeysPartitionTheLog
  <2>1. StoreInv => KeysPartitionTheLog
    BY DEF StoreInv
  <2> QED
    BY <2>1, GaplessMeans DEF DurableInv, TxnInv
<1> QED
  BY <1>1, DurableInvariant, PTL
=============================================================================
