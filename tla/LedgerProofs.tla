----------------------------- MODULE LedgerProofs -----------------------------
(***************************************************************************)
(* The ledger service, for any calls, subscriptions, quotes and commands,  *)
(* with dropped calls, failing statements and crashes.                     *)
(***************************************************************************)
EXTENDS Ledger, AppendOneProofs

-----------------------------------------------------------------------------
(* Rows that are stored for a quote, in a table ev of events: what a       *)
(* command committed, an interval of sequence numbers.                     *)
RowSets == UNION {[D -> Payloads] : D \in SUBSET Seqs}

StoredRows(ev, q) ==
  {rows \in RowSets : /\ \E a, b \in Seqs : a <= b /\ DOMAIN rows = a .. b
                      /\ Extends(ev[q], rows)}

(* A later table of events has the rows of an earlier one. *)
Grows(old, new) == \A q \in QuoteIds : /\ Extends(new[q], old[q])
                                       /\ LastSeq(old[q]) <= LastSeq(new[q])

LEMMA StoredStay ==
  ASSUME NEW old, NEW new, Grows(old, new), NEW q \in QuoteIds
  PROVE  StoredRows(old, q) \subseteq StoredRows(new, q)
  BY DEF Grows, StoredRows, Extends

(* The last of them is not above the head. *)
LEMMA LastOfStored ==
  ASSUME StoreInv, NEW q \in QuoteIds, NEW rows \in StoredRows(events, q)
  PROVE  LastSeq(rows) \in Seqs /\ LastSeq(rows) <= HeadSeq(q)
<1>1. PICK a \in Seqs, b \in Seqs : a <= b /\ DOMAIN rows = a .. b
  BY DEF StoredRows
<1>2. PICK n \in Nat : DOMAIN events[q] = 1 .. n
  BY DEF StoreInv, GaplessRows
<1>3. LastSeq(rows) = b
  <2> DEFINE S == {0} \cup DOMAIN rows
  <2>1. b \in S /\ \A y \in S : b >= y
    BY <1>1 DEF Seqs
  <2>2. \A x \in S : (\A y \in S : x >= y) => x = b
    BY <1>1 DEF Seqs
  <2> QED
    BY <2>1, <2>2 DEF LastSeq, Max
<1>4. b \in DOMAIN rows
  BY <1>1 DEF Seqs
<1>5. b \in 1 .. n
  BY <1>2, <1>4 DEF StoredRows, Extends
<1>6. HeadSeq(q) = n
  BY <1>2, HeadOfRows DEF HeadSeq
<1> QED
  BY <1>3, <1>5, <1>6

-----------------------------------------------------------------------------
(* The closure of append_one *)

(* A request that append_one is called with asks for an append of the      *)
(* store.                                                                  *)
LEMMA ValidAppend ==
  ASSUME NEW r \in ValidRequests
  PROVE  /\ r.quote_id \in QuoteIds /\ r.client_command_id \in CommandIds
         /\ CommandToEvents(r.command) \in EventLists
  BY PayloadsAssumption DEF ValidRequests, QuoteEvents, CommandToEvents

LEMMA RunAppendIsStoreStep ==
  ASSUME NEW r \in ValidRequests, NEW error, RunAppend(r, error)
  PROVE  [StoreNext]_storeVars
  BY ValidAppend DEF RunAppend, StoreNext

(* No step of the store takes anything away. *)
LEMMA StoreGrows ==
  ASSUME StoreInv, [StoreNext]_storeVars
  PROVE  Grows(events, events')
<1>1. CASE UNCHANGED storeVars
  <2>1. \A q \in QuoteIds : LastSeq(events[q]) \in Nat
    <3> TAKE q \in QuoteIds
    <3>1. PICK n \in Nat : DOMAIN events[q] = 1 .. n
      BY DEF StoreInv, GaplessRows
    <3> QED
      BY <3>1, HeadOfRows
  <2> QED
    BY <1>1, <2>1 DEF storeVars, Grows, Extends
<1>2. ASSUME NEW q \in QuoteIds, NEW k \in CommandIds, NEW evs \in EventLists,
             AppendVerdict(q, k, evs) = "committed", CommitBatch(q, k, evs)
      PROVE  Grows(events, events')
  <2>1. PICK n \in Nat : DOMAIN events[q] = 1 .. n
    BY DEF StoreInv, GaplessRows
  <2>2. /\ Len(evs) \in Nat \ {0} /\ OthersKept(q) /\ RowsAdded(q, evs, n)
    BY <1>2, <2>1, CommitTables DEF StoreInv
  <2>3. LastSeq(events[q]) = n /\ LastSeq(events'[q]) = n + Len(evs)
    <3>1. n + Len(evs) \in Nat /\ DOMAIN events'[q] = 1 .. n + Len(evs)
      BY <2>2 DEF RowsAdded
    <3> QED
      BY <2>1, <3>1, HeadOfRows
  <2>4. Extends(events'[q], events[q])
    BY <2>1, <2>2 DEF RowsAdded, Extends
  <2>5. ASSUME NEW r \in QuoteIds \ {q}
        PROVE  Extends(events'[r], events[r]) /\ LastSeq(events[r]) <= LastSeq(events'[r])
    <3>1. events'[r] = events[r]
      BY <2>2 DEF OthersKept
    <3>2. PICK j \in Nat : DOMAIN events[r] = 1 .. j
      BY DEF StoreInv, GaplessRows
    <3>3. LastSeq(events[r]) = j
      BY <3>2, HeadOfRows
    <3> QED
      BY <3>1, <3>3 DEF Extends
  <2> QED
    BY <2>2, <2>3, <2>4, <2>5 DEF Grows
<1> QED
  BY <1>1, <1>2, StepCases

(* The rows append_one returns are stored. *)
LEMMA AnswerIsStored ==
  ASSUME StoreInv, NEW r \in ValidRequests, RunAppend(r, "Ok"), Accepted(AnswerTo(r, "Ok"))
  PROVE  ReturnedRows(r.quote_id, r.client_command_id, CommandToEvents(r.command))
           \in StoredRows(events', r.quote_id)
<1> DEFINE q == r.quote_id
           k == r.client_command_id
           evs == CommandToEvents(r.command)
<1>1. q \in QuoteIds /\ k \in CommandIds /\ evs \in EventLists
  BY ValidAppend
<1>2. /\ AppendCommandEvents(q, k, evs)
      /\ AppendVerdict(q, k, evs) \in {"committed", "replayed"}
  BY DEF RunAppend, AnswerTo, Answer, Accepted
<1>3. PICK n \in Nat : DOMAIN events[q] = 1 .. n
  BY <1>1 DEF StoreInv, GaplessRows
<1> HIDE DEF q, k, evs
<1>4. CASE IsKeyed(q, k)
  <2> DEFINE range == idempotency_keys[q][k]
             rows == InRange(q, range)
  <2>1. range \in [first_seq : Seqs, last_seq : Seqs]
    BY <1>1, <1>4 DEF StoreInv, StoreTypeOK, IsKeyed
  <2>2. Covered(q, k) # {} /\ Covered(q, k) \subseteq DOMAIN events[q]
    BY <1>1, <1>4 DEF StoreInv, KeysPartitionTheLog, IsKeyed
  <2>3. range.first_seq <= range.last_seq
    BY <2>1, <2>2 DEF Covered, Seqs
  <2>4. DOMAIN rows = range.first_seq .. range.last_seq
    BY <1>3, <2>1, <2>2 DEF InRange, Between, Covered, Seqs
  <2>5. \A s \in DOMAIN rows : rows[s] = events[q][s] /\ s \in DOMAIN events[q]
    BY DEF InRange, Between
  <2>6. rows \in [DOMAIN rows -> Payloads]
    <3>1. rows = [s \in DOMAIN rows |-> rows[s]]
      BY DEF InRange, Between
    <3>2. \A s \in DOMAIN rows : rows[s] \in Payloads
      BY <1>1, <2>5 DEF StoreInv, StoreTypeOK
    <3> QED
      BY <3>1, <3>2
  <2>7. DOMAIN rows \subseteq Seqs
    BY <1>3, <2>5 DEF Seqs
  <2> HIDE DEF rows
  <2>8. rows \in RowSets
    BY <2>6, <2>7 DEF RowSets
  <2>9. rows \in StoredRows(events, q)
    <3>1. range.first_seq \in Seqs /\ range.last_seq \in Seqs
      BY <2>1
    <3>2. Extends(events[q], rows)
      BY <2>5 DEF Extends
    <3> QED
      BY <2>3, <2>4, <2>8, <3>1, <3>2 DEF StoredRows
  <2>10. Grows(events, events')
    BY RunAppendIsStoreStep, StoreGrows
  <2>11. rows \in StoredRows(events', q)
    BY <1>1, <2>9, <2>10, StoredStay
  <2> QED
    BY <1>4, <2>11 DEF ReturnedRows, rows, q, k, evs
<1>5. CASE ~IsKeyed(q, k)
  <2>1. AppendVerdict(q, k, evs) = "committed"
    BY <1>2, <1>5 DEF AppendVerdict
  <2>2. CommitBatch(q, k, evs)
    BY <1>2, <2>1 DEF AppendCommandEvents
  <2>3. Len(evs) \in Nat \ {0} /\ RowsAdded(q, evs, n)
    BY <1>1, <1>3, <2>1, <2>2, CommitTables DEF StoreInv
  <2>4. evs \in Seq(Payloads)
    BY <1>1, EventListsAssumption
  <2> DEFINE rows == NewRows(q, evs)
  <2>5. HeadSeq(q) = n
    BY <1>3, HeadOfRows DEF HeadSeq
  <2>6. rows = Numbered(n + 1, evs)
    BY <2>5 DEF NewRows, NextSeq
  <2>7. /\ DOMAIN rows = n + 1 .. n + Len(evs)
        /\ \A s \in n + 1 .. n + Len(evs) : rows[s] = evs[s - n] /\ rows[s] \in Payloads
    BY <2>4, <2>6, NumberedRows
  <2>8. rows = [s \in DOMAIN rows |-> rows[s]]
    BY DEF NewRows, Numbered
  <2> HIDE DEF rows
  <2>9. n + 1 \in Seqs /\ n + Len(evs) \in Seqs /\ n + 1 <= n + Len(evs) /\ DOMAIN rows \subseteq Seqs
    BY <2>3, <2>7 DEF Seqs
  <2>10. rows \in RowSets
    <3>1. rows \in [DOMAIN rows -> Payloads]
      BY <2>7, <2>8
    <3> QED
      BY <2>9, <3>1 DEF RowSets
  <2>11. Extends(events'[q], rows)
    BY <2>3, <2>7 DEF RowsAdded, Extends
  <2>12. rows \in StoredRows(events', q)
    BY <2>7, <2>9, <2>10, <2>11 DEF StoredRows
  <2> QED
    BY <1>5, <2>12 DEF ReturnedRows, rows, q, k, evs
<1> QED
  BY <1>4, <1>5

-----------------------------------------------------------------------------
(* The calls.  What holds of a call x when the events are ev: it is inside *)
(* append_one with a valid request for its quote, what it was given and    *)
(* what it acknowledges is stored, and it has not acknowledged more        *)
(* commands than it has taken.                                             *)
CallFields == DOMAIN NewCall

IsCall(x) == x = [f \in CallFields |-> x[f]]

HasCommitted(x, ev) ==
  /\ x.committed \in Seq(RowSets)
  /\ x.command_count \in 0 .. AppendMaxCommands
  /\ Len(x.committed) <= AppendMaxCommands
  /\ \A i \in DOMAIN x.committed :
       x.quote_id \in QuoteIds /\ x.committed[i] \in StoredRows(ev, x.quote_id)

CallOK(x, ev) ==
  /\ IsCall(x)
  /\ x.pc \in CallPCs
  /\ HasCommitted(x, ev)
  /\ x.pc \in {"db", "detached"} => x.request \in ValidRequests
  /\ x.pc = "recv" => /\ Len(x.committed) <= x.command_count
                      /\ x.quote_id # NoQuote => x.committed # <<>>
  /\ x.pc \in {"db", "publish"} => x.quote_id \in QuoteIds /\ Len(x.committed) < x.command_count
  /\ x.pc = "db" => x.request.quote_id = x.quote_id
  /\ x.pc = "publish" => x.stored \in StoredRows(ev, x.quote_id)
  /\ x.status = "OK" => x.pc = "done" /\ x.committed # <<>>

CallsOK ==
  /\ call = [c \in Calls |-> call[c]]
  /\ \A c \in Calls : CallOK(call[c], events)

LEMMA CallFieldNames ==
  CallFields = {"pc", "quote_id", "command_count", "request", "stored", "committed", "status"}
  BY DEF CallFields, NewCall

LEMMA EmptyCallsAreCalls == IsCall(NewCall) /\ \A status : IsCall(Ended(status))
<1>1. IsCall(NewCall)
  BY DEF IsCall, CallFields, NewCall
<1> QED
  BY <1>1 DEF IsCall, Ended

LEMMA CallStays ==
  ASSUME NEW x, NEW old, NEW new, CallOK(x, old), Grows(old, new)
  PROVE  CallOK(x, new)
<1>1. \A q \in QuoteIds : StoredRows(old, q) \subseteq StoredRows(new, q)
  BY StoredStay
<1>2. HasCommitted(x, new)
  BY <1>1 DEF CallOK, HasCommitted
<1>3. x.pc = "publish" => x.stored \in StoredRows(new, x.quote_id)
  BY <1>1 DEF CallOK
<1> QED
  BY <1>2, <1>3 DEF CallOK

(* A call that has begun or has ended holds nothing. *)
LEMMA EmptyCalls ==
  ASSUME NEW ev
  PROVE  /\ CallOK(NewCall, ev)
         /\ \A status : status # "OK" => CallOK(Ended(status), ev)
<1>1. <<>> \in Seq(RowSets) /\ Len(<<>>) = 0 /\ DOMAIN <<>> = {}
  OBVIOUS
<1>2. 0 \in 0 .. AppendMaxCommands /\ 0 <= AppendMaxCommands
  BY AppendMaxCommandsAssumption
<1>3. CallOK(NewCall, ev)
  <2>1. IsCall(NewCall)
    BY EmptyCallsAreCalls
  <2>2. HasCommitted(NewCall, ev)
    BY <1>1, <1>2 DEF HasCommitted, NewCall
  <2> QED
    BY <1>1, <2>1, <2>2 DEF CallOK, NewCall, CallPCs
<1>4. ASSUME NEW status, status # "OK" PROVE CallOK(Ended(status), ev)
  <2>1. /\ Ended(status).pc = "done" /\ Ended(status).quote_id = NoQuote
        /\ Ended(status).command_count = 0 /\ Ended(status).committed = <<>>
        /\ Ended(status).status = status
    BY DEF Ended, NewCall
  <2>2. IsCall(Ended(status))
    BY EmptyCallsAreCalls
  <2>3. HasCommitted(Ended(status), ev)
    BY <1>1, <1>2, <2>1 DEF HasCommitted
  <2> QED
    BY <1>4, <2>1, <2>2, <2>3 DEF CallOK, CallPCs
<1> QED
  BY <1>3, <1>4

(* A step that changes one call, and lets the events grow. *)
LEMMA OneCallChanges ==
  ASSUME CallsOK, Grows(events, events'), NEW c \in Calls,
         call' = [d \in Calls |-> call'[d]], \A d \in Calls \ {c} : call'[d] = call[d],
         CallOK(call'[c], events')
  PROVE  CallsOK'
<1>1. \A d \in Calls \ {c} : CallOK(call[d], events')
  BY CallStays DEF CallsOK
<1> QED
  BY <1>1 DEF CallsOK

LEMMA CallEnds ==
  ASSUME CallsOK, Grows(events, events'), NEW c \in Calls, NEW status, status # "OK",
         call' = [call EXCEPT ![c] = Ended(status)]
  PROVE  CallsOK'
<1>1. /\ call' = [d \in Calls |-> call'[d]] /\ call'[c] = Ended(status)
      /\ \A d \in Calls \ {c} : call'[d] = call[d]
  BY DEF CallsOK
<1>2. CallOK(call'[c], events')
  BY <1>1, EmptyCalls
<1> QED
  BY <1>1, <1>2, OneCallChanges

LEMMA ReceiveKeepsCalls ==
  ASSUME CallsOK, Grows(events, events'), NEW c \in Calls, NEW r \in Requests, Receive(c, r)
  PROVE  CallsOK'
<1> DEFINE x == call[c]
           y == call'[c]
<1>1. CallOK(x, events) /\ x.pc = "recv" /\ MessageError(c, r) = "Ok"
  BY DEF CallsOK, Receive
<1>2. /\ r \in ValidRequests /\ r.quote_id \in QuoteIds
      /\ x.quote_id \in {NoQuote, r.quote_id} /\ ~(x.command_count + 1 > AppendMaxCommands)
  BY <1>1 DEF MessageError, ValidRequests
<1>3. /\ call' = [d \in Calls |-> call'[d]]
      /\ \A d \in Calls \ {c} : call'[d] = call[d]
      /\ y = [x EXCEPT !.pc = "db", !.quote_id = r.quote_id,
                       !.command_count = x.command_count + 1, !.request = r]
  BY DEF CallsOK, Receive
<1>4. /\ IsCall(y)
      /\ y.pc = "db" /\ y.quote_id = r.quote_id /\ y.request = r
      /\ y.command_count = x.command_count + 1
      /\ y.committed = x.committed /\ y.status = x.status
  BY <1>1, <1>3, CallFieldNames DEF CallOK, IsCall
<1>5. x.command_count \in Nat /\ y.command_count \in 0 .. AppendMaxCommands
  BY <1>1, <1>2, <1>4, AppendMaxCommandsAssumption DEF CallOK, HasCommitted
<1>6. HasCommitted(y, events)
  BY <1>1, <1>2, <1>4, <1>5, NoQuoteAssumption DEF CallOK, HasCommitted
<1>7. Len(y.committed) < y.command_count
  BY <1>1, <1>4, <1>5 DEF CallOK, HasCommitted
<1>8. CallOK(y, events)
  BY <1>1, <1>2, <1>4, <1>6, <1>7 DEF CallOK, CallPCs
<1>9. CallOK(y, events')
  BY <1>8, CallStays
<1> QED
  BY <1>3, <1>9, OneCallChanges

LEMMA EndOfStreamKeepsCalls ==
  ASSUME CallsOK, Grows(events, events'), NEW c \in Calls, EndOfStream(c)
  PROVE  CallsOK'
<1> DEFINE x == call[c]
           y == call'[c]
<1>1. CallOK(x, events) /\ x.pc = "recv"
  BY DEF CallsOK, EndOfStream
<1>2. CASE x.quote_id = NoQuote
  <2>1. call' = [call EXCEPT ![c] = Ended("INVALID_ARGUMENT")]
    BY <1>2 DEF EndOfStream
  <2> QED
    BY <2>1, CallEnds
<1>3. CASE x.quote_id # NoQuote
  <2>1. /\ call' = [d \in Calls |-> call'[d]]
        /\ \A d \in Calls \ {c} : call'[d] = call[d]
        /\ y = [Ended("OK") EXCEPT !.quote_id = x.quote_id, !.committed = x.committed]
    BY <1>3 DEF CallsOK, EndOfStream
  <2>2. /\ IsCall(y)
        /\ y.pc = "done" /\ y.quote_id = x.quote_id /\ y.committed = x.committed
        /\ y.command_count = 0 /\ y.status = "OK"
    <3>1. IsCall(Ended("OK")) /\ Ended("OK").pc = "done" /\ Ended("OK").command_count = 0
          /\ Ended("OK").status = "OK"
      BY EmptyCallsAreCalls DEF Ended, NewCall
    <3> QED
      BY <2>1, <3>1, CallFieldNames DEF IsCall
  <2>3. HasCommitted(y, events) /\ y.committed # <<>>
    BY <1>1, <1>3, <2>2, AppendMaxCommandsAssumption DEF CallOK, HasCommitted
  <2>4. CallOK(y, events)
    BY <2>2, <2>3 DEF CallOK, CallPCs
  <2>5. CallOK(y, events')
    BY <2>4, CallStays
  <2> QED
    BY <2>1, <2>5, OneCallChanges
<1> QED
  BY <1>2, <1>3

LEMMA RefusalHasAStatus == \A error : error # "Ok" => StatusOf(error) # "OK"
  BY DEF StatusOf

LEMMA RunClosureKeepsCalls ==
  ASSUME StoreInv, CallsOK, NEW c \in Calls, RunClosure(c)
  PROVE  [StoreNext]_storeVars /\ CallsOK'
<1> DEFINE x == call[c]
           y == call'[c]
           r == x.request
<1>1. CallOK(x, events) /\ x.pc = "db" /\ r \in ValidRequests
  BY DEF CallsOK, CallOK, RunClosure
<1>2. PICK error : RunAppend(r, error) /\ Resume(c, r, error)
  BY DEF RunClosure
<1>3. [StoreNext]_storeVars
  BY <1>1, <1>2, RunAppendIsStoreStep
<1>4. Grows(events, events')
  BY <1>3, StoreGrows
<1>5. CASE error = "Ok" /\ Accepted(AnswerTo(r, error))
  <2> DEFINE rows == ReturnedRows(r.quote_id, r.client_command_id, CommandToEvents(r.command))
  <2>1. rows \in StoredRows(events', r.quote_id)
    BY <1>1, <1>2, <1>5, AnswerIsStored
  <2>2. /\ call' = [d \in Calls |-> call'[d]]
        /\ \A d \in Calls \ {c} : call'[d] = call[d]
        /\ y = [x EXCEPT !.pc = "publish", !.stored = rows]
    BY <1>2, <1>5 DEF CallsOK, Resume
  <2>3. /\ IsCall(y)
        /\ y.pc = "publish" /\ y.stored = rows /\ y.quote_id = x.quote_id
        /\ y.command_count = x.command_count
        /\ y.committed = x.committed /\ y.status = x.status
    <3> HIDE DEF rows
    <3> QED
      BY <1>1, <2>2, CallFieldNames DEF CallOK, IsCall
  <2>4. CallOK(x, events')
    BY <1>1, <1>4, CallStays
  <2>5. HasCommitted(y, events')
    BY <2>3, <2>4 DEF CallOK, HasCommitted
  <2>6. CallOK(y, events')
    <3> HIDE DEF rows
    <3> QED
      BY <1>1, <2>1, <2>3, <2>4, <2>5 DEF CallOK, CallPCs
  <2>7. CallsOK'
    BY <1>4, <2>2, <2>6, OneCallChanges
  <2> QED
    BY <1>3, <2>7
<1>6. CASE ~(error = "Ok" /\ Accepted(AnswerTo(r, error)))
  <2>1. AnswerTo(r, error) # "Ok"
    BY <1>6 DEF AnswerTo, Answer, Accepted, AppendVerdict
  <2>2. StatusOf(AnswerTo(r, error)) # "OK"
    BY <2>1, RefusalHasAStatus
  <2>3. call' = [call EXCEPT ![c] = Ended(StatusOf(AnswerTo(r, error)))]
    BY <1>2, <1>6 DEF Resume
  <2>4. CallsOK'
    BY <1>4, <2>2, <2>3, CallEnds
  <2> QED
    BY <1>3, <2>4
<1> QED
  BY <1>5, <1>6

LEMMA PublishKeepsCalls ==
  ASSUME CallsOK, Grows(events, events'), NEW c \in Calls, Publish(c)
  PROVE  CallsOK'
<1> DEFINE x == call[c]
           y == call'[c]
<1>1. CallOK(x, events) /\ x.pc = "publish"
  BY DEF CallsOK, Publish
<1>2. CallOK(x, events')
  BY <1>1, CallStays
<1>3. /\ call' = [d \in Calls |-> call'[d]]
      /\ \A d \in Calls \ {c} : call'[d] = call[d]
      /\ y = [x EXCEPT !.pc = "recv", !.request = NoRequest, !.stored = <<>>,
                       !.committed = Append(x.committed, x.stored)]
  BY DEF CallsOK, Publish
<1>4. /\ IsCall(y)
      /\ y.pc = "recv" /\ y.quote_id = x.quote_id /\ y.command_count = x.command_count
      /\ y.committed = Append(x.committed, x.stored) /\ y.status = x.status
  BY <1>1, <1>3, CallFieldNames DEF CallOK, IsCall
<1>5. x.quote_id \in QuoteIds /\ x.stored \in StoredRows(events', x.quote_id)
  BY <1>1, <1>2 DEF CallOK
<1>6. x.stored \in RowSets
  BY <1>5 DEF StoredRows
<1>7. x.committed \in Seq(RowSets) /\ x.command_count \in 0 .. AppendMaxCommands
  BY <1>1 DEF CallOK, HasCommitted
<1>8. /\ y.committed \in Seq(RowSets)
      /\ Len(y.committed) = Len(x.committed) + 1
      /\ \A i \in DOMAIN y.committed :
           \/ i \in DOMAIN x.committed /\ y.committed[i] = x.committed[i]
           \/ y.committed[i] = x.stored
  BY <1>4, <1>6, <1>7
<1>9. Len(y.committed) <= y.command_count /\ Len(y.committed) <= AppendMaxCommands
  BY <1>1, <1>4, <1>7, <1>8, AppendMaxCommandsAssumption DEF CallOK
<1>10. \A i \in DOMAIN y.committed : y.committed[i] \in StoredRows(events', y.quote_id)
  <2>1. \A i \in DOMAIN x.committed : x.committed[i] \in StoredRows(events', x.quote_id)
    BY <1>2 DEF CallOK, HasCommitted
  <2> QED
    BY <1>4, <1>5, <1>8, <2>1
<1>11. HasCommitted(y, events')
  BY <1>4, <1>5, <1>7, <1>8, <1>9, <1>10 DEF HasCommitted
<1>12. y.committed # <<>>
  BY <1>7, <1>8
<1>13. CallOK(y, events')
  BY <1>1, <1>4, <1>9, <1>11, <1>12 DEF CallOK, CallPCs
<1> QED
  BY <1>3, <1>13, OneCallChanges

LEMMA CancelKeepsCalls ==
  ASSUME CallsOK, Grows(events, events'), NEW c \in Calls, Cancel(c)
  PROVE  CallsOK'
<1> DEFINE x == call[c]
           y == call'[c]
<1>1. CallOK(x, events)
  BY DEF CallsOK
<1>2. CASE x.pc # "db"
  <2>1. call' = [call EXCEPT ![c] = Ended("CANCELLED")]
    BY <1>2 DEF Cancel
  <2> QED
    BY <2>1, CallEnds
<1>3. CASE x.pc = "db"
  <2>1. /\ call' = [d \in Calls |-> call'[d]]
        /\ \A d \in Calls \ {c} : call'[d] = call[d]
        /\ y = [Ended("CANCELLED") EXCEPT !.pc = "detached", !.request = x.request]
    BY <1>3 DEF CallsOK, Cancel
  <2>2. CallOK(Ended("CANCELLED"), events')
    BY EmptyCalls
  <2>3. /\ IsCall(y)
        /\ y.pc = "detached" /\ y.request = x.request
        /\ y.quote_id = Ended("CANCELLED").quote_id
        /\ y.command_count = Ended("CANCELLED").command_count
        /\ y.committed = Ended("CANCELLED").committed
        /\ y.status = "CANCELLED"
    <3>1. IsCall(Ended("CANCELLED")) /\ Ended("CANCELLED").status = "CANCELLED"
      BY EmptyCallsAreCalls DEF Ended, NewCall
    <3> QED
      BY <2>1, <3>1, CallFieldNames DEF IsCall
  <2>4. HasCommitted(y, events') /\ x.request \in ValidRequests
    BY <1>1, <1>3, <2>2, <2>3 DEF CallOK, HasCommitted
  <2>5. CallOK(y, events')
    BY <2>3, <2>4 DEF CallOK, CallPCs
  <2> QED
    BY <2>1, <2>5, OneCallChanges
<1> QED
  BY <1>2, <1>3

LEMMA RunDetachedKeepsCalls ==
  ASSUME StoreInv, CallsOK, NEW c \in Calls, RunDetached(c)
  PROVE  [StoreNext]_storeVars /\ CallsOK'
<1>1. call[c].request \in ValidRequests
  BY DEF CallsOK, CallOK, RunDetached
<1>2. [StoreNext]_storeVars
  BY <1>1, RunAppendIsStoreStep DEF RunDetached
<1>3. Grows(events, events')
  BY <1>2, StoreGrows
<1>4. call' = [call EXCEPT ![c] = Ended("CANCELLED")]
  BY DEF RunDetached
<1>5. CallsOK'
  BY <1>3, <1>4, CallEnds
<1> QED
  BY <1>2, <1>5

LEMMA ProcessStopsKeepsCalls ==
  ASSUME CallsOK, Grows(events, events'), ProcessStops
  PROVE  CallsOK'
<1>1. call' = [c \in Calls |-> IF call[c] = NewCall \/ call[c].pc = "done" THEN call[c]
                               ELSE Ended("UNAVAILABLE")]
  BY DEF ProcessStops
<1>2. \A c \in Calls : CallOK(call[c], events')
  BY CallStays DEF CallsOK
<1>3. CallOK(Ended("UNAVAILABLE"), events')
  BY EmptyCalls
<1> QED
  BY <1>1, <1>2, <1>3 DEF CallsOK

-----------------------------------------------------------------------------
(* Every step of the service is a step of the store, or leaves the tables  *)
(* alone.                                                                  *)
LEMMA UnchangedStoreGrows ==
  StoreInv /\ UNCHANGED storeVars => [StoreNext]_storeVars /\ Grows(events, events')
  BY StoreGrows

LEMMA CallActionsStep ==
  ASSUME StoreInv, CallsOK, NEW c \in Calls, CallActions(c)
  PROVE  [StoreNext]_storeVars /\ CallsOK'
<1>1. ASSUME NEW r \in Requests, Receive(c, r)
      PROVE  [StoreNext]_storeVars /\ CallsOK'
  BY <1>1, UnchangedStoreGrows, ReceiveKeepsCalls DEF Receive
<1>2. ASSUME NEW r \in Requests, Refuse(c, r)
      PROVE  [StoreNext]_storeVars /\ CallsOK'
  <2>1. MessageError(c, r) # "OK"
    BY DEF MessageError
  <2> QED
    BY <1>2, <2>1, UnchangedStoreGrows, CallEnds DEF Refuse
<1>3. CASE EndOfStream(c)
  BY <1>3, UnchangedStoreGrows, EndOfStreamKeepsCalls DEF EndOfStream
<1>4. CASE IdleTimeout(c)
  BY <1>4, UnchangedStoreGrows, CallEnds DEF IdleTimeout
<1>5. CASE RunClosure(c)
  BY <1>5, RunClosureKeepsCalls
<1>6. CASE SqliteError(c)
  <2>1. StatusOf("Sqlite") # "OK"
    BY RefusalHasAStatus
  <2> QED
    BY <1>6, <2>1, UnchangedStoreGrows, CallEnds DEF SqliteError
<1>7. CASE Publish(c)
  BY <1>7, UnchangedStoreGrows, PublishKeepsCalls DEF Publish
<1>8. CASE Cancel(c)
  BY <1>8, UnchangedStoreGrows, CancelKeepsCalls DEF Cancel
<1>9. CASE RunDetached(c)
  BY <1>9, RunDetachedKeepsCalls
<1> QED
  BY <1>1, <1>2, <1>3, <1>4, <1>5, <1>6, <1>7, <1>8, <1>9 DEF CallActions, CallStep, CallInput

LEMMA SubActionsStep ==
  ASSUME NEW s \in Subscriptions, SubActions(s)
  PROVE  UNCHANGED <<storeVars, callVars>>
<1>1. CASE PumpStep(s)
  BY <1>1 DEF SubActions, PumpStep, ReadInit, RejectInit, Reject, Register, SendCatchUp,
              SendSnapshot, Send, CheckHead, Wake, ReadTail, SendTail, SendError, Abandon
<1>2. CASE SubInput(s)
  BY <1>2 DEF SubActions, SubInput, Subscribe, ReadInitFails, Reject, ReadTailFails, Disconnect
<1>3. CASE ClientReceives(s)
  BY <1>3 DEF SubActions, ClientReceives
<1> QED
  BY <1>1, <1>2, <1>3 DEF SubActions

LEMMA LedgerStep ==
  StoreInv /\ CallsOK /\ [Next]_vars => [StoreNext]_storeVars /\ CallsOK'
<1> SUFFICES ASSUME StoreInv, CallsOK, Next \/ UNCHANGED vars
             PROVE  [StoreNext]_storeVars /\ CallsOK'
  OBVIOUS
<1>1. ASSUME UNCHANGED <<storeVars, callVars>>
      PROVE  [StoreNext]_storeVars /\ CallsOK'
  BY <1>1 DEF storeVars, callVars, CallsOK
<1>2. ASSUME NEW c \in Calls, CallActions(c)
      PROVE  [StoreNext]_storeVars /\ CallsOK'
  BY <1>2, CallActionsStep
<1>3. ASSUME NEW s \in Subscriptions, SubActions(s)
      PROVE  [StoreNext]_storeVars /\ CallsOK'
  BY <1>1, <1>3, SubActionsStep
<1>4. CASE Crash
  BY <1>4, UnchangedStoreGrows, ProcessStopsKeepsCalls DEF Crash, ProcessStops
<1> QED
  BY <1>1, <1>2, <1>3, <1>4 DEF Next, vars

LEMMA LedgerInit == Init => StoreInit /\ CallsOK
  BY EmptyCalls DEF Init, CallInit, CallsOK

LEMMA LedgerInvariant == Spec => StoreSpec /\ [](StoreInv /\ CallsOK)
<1>1. Init => StoreInit /\ StoreInv /\ CallsOK
  BY LedgerInit, InvInit
<1>2. StoreInv /\ CallsOK /\ [Next]_vars => [StoreNext]_storeVars /\ StoreInv' /\ CallsOK'
  BY LedgerStep, InvNext
<1> QED
  BY <1>1, <1>2, PTL DEF Spec, StoreSpec

(* The service, with its concurrent calls, dropped calls, failing          *)
(* statements and crashes, is a log per quote to which each client command *)
(* adds its events at most once: nothing but the closure of append_one     *)
(* writes the tables (ledger.rs:169-242).                                  *)
THEOREM LedgerImplementsQuoteLog == Spec => ImplementsQuoteLog
  BY LedgerInvariant, StoreImplementsQuoteLog, PTL

(* The tables change by what append_one does with a request it is called   *)
(* with: by closures, awaited or detached, and by nothing else.            *)
LEMMA LedgerAppends == CallsOK /\ [Next]_vars => [AppendNext]_storeVars
<1> SUFFICES ASSUME CallsOK, Next, ~(UNCHANGED storeVars)
             PROVE  AppendNext
  BY DEF vars
<1>1. ASSUME NEW c \in Calls, CallActions(c)
      PROVE  /\ call[c].request \in ValidRequests
             /\ RunAppend(call[c].request, ErrorOn(call[c].request))
  <2>1. CASE RunClosure(c)
    BY <2>1 DEF RunClosure, CallsOK, CallOK
  <2>2. CASE RunDetached(c)
    BY <2>2 DEF RunDetached, CallsOK, CallOK
  <2>3. CASE ~RunClosure(c) /\ ~RunDetached(c)
    BY <1>1, <2>3 DEF CallActions, CallStep, CallInput, Receive, Refuse, EndOfStream,
                      IdleTimeout, SqliteError, Publish, Cancel
  <2> QED
    BY <2>1, <2>2, <2>3
<1>2. ASSUME NEW s \in Subscriptions, SubActions(s) PROVE FALSE
  BY <1>2, SubActionsStep
<1>3. ~Crash
  BY DEF Crash, ProcessStops
<1> QED
  BY <1>1, <1>2, <1>3 DEF Next, AppendNext

(* The service writes its tables only as append_one on the whole database  *)
(* does, one request after another, whatever its calls overlap, lose or    *)
(* leave behind: the closure holds the connection's mutex from its lookup  *)
(* to its commit (ledger.rs:211-242).                                      *)
THEOREM LedgerImplementsAppendOne == Spec => AppendSpec
<1>1. Init => StoreInit
  BY DEF Init
<1> QED
  BY <1>1, LedgerAppends, LedgerInvariant, PTL DEF Spec, AppendSpec

(* So what append_one promises holds of the running service, at every      *)
(* moment of its concurrent calls and after every crash: what is stored    *)
(* replays and has totals, a retry would be answered with its commit, a    *)
(* reused id refused, and a finalized quote stays as it is.                *)
THEOREM ServiceKeepsTheDomain ==
  Spec => /\ []EveryPrefixHasAView
          /\ []RetryReturnsTheCommit
          /\ []ReusedIdIsRefused
          /\ FinalizedIsFrozen
  BY LedgerImplementsAppendOne, LogsAlwaysHaveAView, RetriesAreAnswered, ReusedIdsAreRefused,
     FinalizedStaysFrozen, PTL

LEMMA CallsOKMeans == CallsOK => AcknowledgedIsStored
<1> SUFFICES ASSUME CallsOK, NEW c \in Calls
             PROVE  /\ Len(call[c].committed) <= AppendMaxCommands
                    /\ call[c].status = "OK" =>
                         /\ call[c].committed # <<>>
                         /\ \A i \in DOMAIN call[c].committed :
                              /\ call[c].committed[i] # <<>>
                              /\ Extends(events[call[c].quote_id], call[c].committed[i])
  BY DEF AcknowledgedIsStored
<1>1. CallOK(call[c], events)
  BY DEF CallsOK
<1>2. ASSUME NEW q \in QuoteIds, NEW rows \in StoredRows(events, q)
      PROVE  rows # <<>> /\ Extends(events[q], rows)
  <2>1. PICK a \in Seqs, b \in Seqs : a <= b /\ DOMAIN rows = a .. b
    BY DEF StoredRows
  <2>2. a \in DOMAIN rows
    BY <2>1 DEF Seqs
  <2> QED
    BY <2>2 DEF StoredRows
<1> QED
  BY <1>1, <1>2 DEF CallOK, HasCommitted

(* What a call acknowledges stays stored under the numbers it was          *)
(* acknowledged with, also after a crash: the rows a closure returns are   *)
(* those of its key, and no later step takes rows away (ledger.rs:215-246).*)
THEOREM AcknowledgedStays == Spec => []AcknowledgedIsStored
  BY CallsOKMeans, LedgerInvariant, PTL

-----------------------------------------------------------------------------
(***************************************************************************)
(* The heads that the service announces and that its pumps work with, for  *)
(* any calls, subscriptions, quotes and commands.                          *)
(***************************************************************************)

(* What holds of a pump p when the events are ev: the heads it holds are   *)
(* stored, and it holds none before it is called.                          *)
PumpFields == DOMAIN NewPump

Heads(p) == {p.watermark, p.upto, p.last_seq}

PumpOK(p, ev) ==
  /\ p = [f \in PumpFields |-> p[f]]
  /\ Heads(p) \subseteq Nat
  /\ p.pc = "idle" => Heads(p) = {0}
  /\ p.pc \notin {"idle", "ended"} => p.quote_id \in QuoteIds
  /\ p.quote_id \in QuoteIds => \A head \in Heads(p) : head <= LastSeq(ev[p.quote_id])

PumpsOK ==
  /\ pump = [s \in Subscriptions |-> pump[s]]
  /\ \A s \in Subscriptions : PumpOK(pump[s], events)

BusOK ==
  /\ bus = [q \in QuoteIds |-> bus[q]]
  /\ \A q \in QuoteIds : bus[q] \in Int /\ bus[q] <= HeadSeq(q)

LEMMA PumpFieldNames ==
  PumpFields = {"pc", "quote_id", "after", "last_seq", "view", "chunk", "watermark", "upto",
                "attempt"}
  BY DEF PumpFields, NewPump

LEMMA HeadIsNat == StoreInv => \A q \in QuoteIds : HeadSeq(q) \in Nat
<1> SUFFICES ASSUME StoreInv, NEW q \in QuoteIds PROVE HeadSeq(q) \in Nat
  OBVIOUS
<1>1. PICK n \in Nat : DOMAIN events[q] = 1 .. n
  BY DEF StoreInv, GaplessRows
<1> QED
  BY <1>1, HeadOfRows DEF HeadSeq

(* The heads stay stored. *)
LEMMA HeadsStay ==
  ASSUME StoreInv, StoreInv', Grows(events, events')
  PROVE  \A q \in QuoteIds : /\ HeadSeq(q) \in Nat /\ HeadSeq(q)' \in Nat
                             /\ HeadSeq(q) <= HeadSeq(q)'
<1>1. \A q \in QuoteIds : HeadSeq(q) \in Nat
  BY HeadIsNat
<1>2. ASSUME NEW q \in QuoteIds PROVE HeadSeq(q)' \in Nat
  <2>1. PICK n \in Nat : DOMAIN events'[q] = 1 .. n
    BY DEF StoreInv, GaplessRows
  <2> QED
    BY <2>1, HeadOfRows DEF HeadSeq
<1> QED
  BY <1>1, <1>2 DEF Grows, HeadSeq

LEMMA PumpStays ==
  ASSUME StoreInv, StoreInv', Grows(events, events'), NEW p, PumpOK(p, events)
  PROVE  PumpOK(p, events')
<1>1. \A q \in QuoteIds : /\ LastSeq(events[q]) \in Nat /\ LastSeq(events'[q]) \in Nat
                          /\ LastSeq(events[q]) <= LastSeq(events'[q])
  BY HeadsStay DEF HeadSeq
<1>2. ASSUME p.quote_id \in QuoteIds, NEW head \in Heads(p)
      PROVE  head <= LastSeq(events'[p.quote_id])
  BY <1>1, <1>2 DEF PumpOK
<1> QED
  BY <1>2 DEF PumpOK

LEMMA PumpsStay ==
  ASSUME StoreInv, StoreInv', PumpsOK, Grows(events, events'), UNCHANGED pump
  PROVE  PumpsOK'
  BY PumpStays DEF PumpsOK

LEMMA BusStays ==
  ASSUME StoreInv, StoreInv', BusOK, Grows(events, events'), UNCHANGED bus
  PROVE  BusOK'
<1>1. ASSUME NEW q \in QuoteIds PROVE bus'[q] \in Int /\ bus'[q] <= HeadSeq(q)'
  BY HeadsStay DEF BusOK
<1> QED
  BY <1>1 DEF BusOK

(* A pump that has returned, or was not called yet, holds nothing. *)
LEMMA EmptyPumps ==
  ASSUME StoreInv
  PROVE  /\ PumpOK(NewPump, events)
         /\ \A q : PumpOK([NewPump EXCEPT !.pc = "ended", !.quote_id = q], events)
<1>1. \A q \in QuoteIds : 0 <= LastSeq(events[q])
  BY HeadIsNat DEF HeadSeq
<1>2. PumpOK(NewPump, events)
  BY <1>1 DEF PumpOK, Heads, PumpFields, NewPump
<1>3. ASSUME NEW q PROVE PumpOK([NewPump EXCEPT !.pc = "ended", !.quote_id = q], events)
  <2> DEFINE p == [NewPump EXCEPT !.pc = "ended", !.quote_id = q]
  <2>1. /\ p = [f \in PumpFields |-> p[f]] /\ p.pc = "ended" /\ p.quote_id = q
        /\ p.watermark = 0 /\ p.upto = 0 /\ p.last_seq = 0
    <3>1. NewPump = [f \in PumpFields |-> NewPump[f]] /\ NewPump.watermark = 0
          /\ NewPump.upto = 0 /\ NewPump.last_seq = 0
      BY DEF PumpFields, NewPump
    <3> QED
      BY <3>1, PumpFieldNames
  <2> HIDE DEF p
  <2>2. PumpOK(p, events)
    BY <1>1, <2>1 DEF PumpOK, Heads
  <2> QED
    BY <2>2 DEF p
<1> QED
  BY <1>2, <1>3

(* A step that changes one pump, and not the tables. *)
LEMMA OnePumpChanges ==
  ASSUME PumpsOK, UNCHANGED events, NEW s \in Subscriptions,
         pump' = [t \in Subscriptions |-> pump'[t]],
         \A t \in Subscriptions \ {s} : pump'[t] = pump[t],
         PumpOK(pump'[s], events)
  PROVE  PumpsOK'
  BY DEF PumpsOK

LEMMA PumpReturns ==
  ASSUME StoreInv, PumpsOK, UNCHANGED events, NEW s \in Subscriptions, Return(s)
  PROVE  PumpsOK' /\ UNCHANGED bus
<1>1. /\ pump' = [t \in Subscriptions |-> pump'[t]]
      /\ \A t \in Subscriptions \ {s} : pump'[t] = pump[t]
      /\ pump'[s] = [NewPump EXCEPT !.pc = "ended", !.quote_id = pump[s].quote_id]
  BY DEF PumpsOK, Return
<1>2. PumpOK(pump'[s], events)
  BY <1>1, EmptyPumps
<1>3. UNCHANGED bus
  BY DEF Return, DropReceiver
<1> QED
  BY <1>1, <1>2, <1>3, OnePumpChanges

(* The heads a pump may hold: what its quote has. *)
LEMMA PumpMoves ==
  ASSUME StoreInv, PumpsOK, UNCHANGED events, NEW s \in Subscriptions,
         pump' = [t \in Subscriptions |-> pump'[t]],
         \A t \in Subscriptions \ {s} : pump'[t] = pump[t],
         pump'[s] = [f \in PumpFields |-> pump'[s][f]],
         pump'[s].pc # "idle", pump'[s].quote_id \in QuoteIds,
         \A head \in Heads(pump'[s]) : head \in Nat /\ head <= HeadSeq(pump'[s].quote_id)
  PROVE  PumpsOK'
<1>1. PumpOK(pump'[s], events)
  BY DEF PumpOK, HeadSeq
<1> QED
  BY <1>1, OnePumpChanges

(* Following a head of the bus, or another that is stored. *)
LEMMA FollowKeepsPumps ==
  ASSUME StoreInv, PumpsOK, UNCHANGED events, NEW s \in Subscriptions,
         pump[s].pc \notin {"idle", "ended"},
         NEW head \in Int, head <= HeadSeq(pump[s].quote_id), Follow(s, head)
  PROVE  PumpsOK'
<1> DEFINE p == pump[s]
           n == pump'[s]
<1>1. PumpOK(p, events) /\ p.quote_id \in QuoteIds
  BY DEF PumpsOK, PumpOK
<1>2. /\ pump' = [t \in Subscriptions |-> pump'[t]]
      /\ \A t \in Subscriptions \ {s} : pump'[t] = pump[t]
      /\ n = IF head > p.watermark THEN [p EXCEPT !.pc = "load", !.upto = head]
                                   ELSE [p EXCEPT !.pc = "wait"]
  BY DEF PumpsOK, Follow
<1>3. /\ n = [f \in PumpFields |-> n[f]] /\ n.pc \in {"load", "wait"}
      /\ n.quote_id = p.quote_id /\ n.watermark = p.watermark /\ n.last_seq = p.last_seq
      /\ n.upto = p.upto \/ (n.upto = head /\ head > p.watermark)
  BY <1>1, <1>2, PumpFieldNames DEF PumpOK
<1>4. \A h \in Heads(p) : h \in Nat /\ h <= HeadSeq(p.quote_id)
  BY <1>1 DEF PumpOK, HeadSeq
<1>5. \A h \in Heads(n) : h \in Nat /\ h <= HeadSeq(n.quote_id)
  BY <1>3, <1>4 DEF Heads
<1> QED
  BY <1>1, <1>2, <1>3, <1>5, PumpMoves

(* The other steps of a pump that goes on: its heads are among those it    *)
(* had, none, and the head of its quote.                                   *)
LEMMA PumpGoesOn ==
  ASSUME StoreInv, PumpsOK, UNCHANGED events, NEW s \in Subscriptions,
         pump[s].pc \notin {"idle", "ended"},
         NEW n, pump' = [pump EXCEPT ![s] = n],
         n = [f \in PumpFields |-> n[f]], n.pc # "idle", n.quote_id = pump[s].quote_id,
         Heads(n) \subseteq Heads(pump[s]) \cup {0, HeadSeq(pump[s].quote_id)}
  PROVE  PumpsOK'
<1>1. PumpOK(pump[s], events) /\ pump[s].quote_id \in QuoteIds
  BY DEF PumpsOK, PumpOK
<1>2. /\ pump' = [t \in Subscriptions |-> pump'[t]] /\ pump'[s] = n
      /\ \A t \in Subscriptions \ {s} : pump'[t] = pump[t]
  BY DEF PumpsOK
<1>3. HeadSeq(pump[s].quote_id) \in Nat
  BY <1>1, HeadIsNat
<1>4. \A h \in Heads(pump[s]) : h \in Nat /\ h <= HeadSeq(pump[s].quote_id)
  BY <1>1 DEF PumpOK, HeadSeq
<1>5. \A h \in Heads(n) : h \in Nat /\ h <= HeadSeq(n.quote_id)
  BY <1>3, <1>4
<1> QED
  BY <1>1, <1>2, <1>5, PumpMoves

LEMMA PumpStepKeepsHeads ==
  ASSUME StoreInv, PumpsOK, BusOK, NEW s \in Subscriptions, PumpStep(s)
  PROVE  PumpsOK' /\ BusOK'
<1> DEFINE p == pump[s]
           q == p.quote_id
<1>1. PumpOK(p, events) /\ p = [f \in PumpFields |-> p[f]]
  BY DEF PumpsOK, PumpOK
<1>2. p.pc \notin {"idle", "ended"} => q \in QuoteIds
  BY <1>1 DEF PumpOK
<1>3. ASSUME UNCHANGED events, UNCHANGED bus PROVE BusOK'
  BY <1>3 DEF BusOK, HeadSeq
<1>4. pump = [t \in Subscriptions |-> pump[t]]
  BY DEF PumpsOK
<1>5. CASE ReadInit(s)
  <2> DEFINE n == [p EXCEPT !.pc = "register", !.last_seq = HeadSeq(q),
                            !.view = ViewOf(Replay(events[q]).quote),
                            !.chunk = Between(q, p.after, HeadSeq(q))]
  <2>1. pump' = [pump EXCEPT ![s] = n]
    BY <1>4, <1>5 DEF ReadInit
  <2>2. /\ n = [f \in PumpFields |-> n[f]] /\ n.pc = "register" /\ n.quote_id = q
        /\ Heads(n) \subseteq Heads(p) \cup {0, HeadSeq(q)}
    BY <1>1, PumpFieldNames DEF Heads
  <2>3. UNCHANGED <<events, bus>> /\ p.pc = "init"
    BY <1>5 DEF ReadInit, storeVars, busVars
  <2> HIDE DEF n
  <2> QED
    BY <1>3, <2>1, <2>2, <2>3, PumpGoesOn
<1>6. CASE RejectInit(s)
  BY <1>3, <1>6, PumpReturns DEF RejectInit, Reject, storeVars
<1>7. CASE Register(s)
  <2> DEFINE n == [p EXCEPT !.pc = IF p.chunk = <<>> THEN "snapshot" ELSE "tail"]
  <2>1. pump' = [pump EXCEPT ![s] = n]
    BY <1>4, <1>7 DEF Register
  <2>2. /\ n = [f \in PumpFields |-> n[f]] /\ n.pc # "idle" /\ n.quote_id = q
        /\ Heads(n) \subseteq Heads(p) \cup {0, HeadSeq(q)}
    BY <1>1, PumpFieldNames DEF Heads
  <2>3. UNCHANGED events /\ p.pc = "register"
    BY <1>7 DEF Register, storeVars
  <2>4. PumpsOK'
    <3> HIDE DEF n
    <3> QED
      BY <2>1, <2>2, <2>3, PumpGoesOn
  <2>5. bus' = [bus EXCEPT ![q] = p.last_seq]
    BY <1>7 DEF Register, RegisterReceiver
  <2>6. p.last_seq \in Nat /\ p.last_seq <= HeadSeq(q) /\ q \in QuoteIds
    BY <1>1, <1>2, <2>3 DEF PumpOK, Heads, HeadSeq
  <2>7. BusOK'
    BY <2>3, <2>5, <2>6 DEF BusOK, HeadSeq
  <2> QED
    BY <2>4, <2>7
<1>8. CASE SendCatchUp(s)
  <2> DEFINE n == [p EXCEPT !.pc = "snapshot", !.chunk = <<>>]
  <2>1. pump' = [pump EXCEPT ![s] = n]
    BY <1>4, <1>8 DEF SendCatchUp
  <2>2. /\ n = [f \in PumpFields |-> n[f]] /\ n.pc # "idle" /\ n.quote_id = q
        /\ Heads(n) \subseteq Heads(p) \cup {0, HeadSeq(q)}
    BY <1>1, PumpFieldNames DEF Heads
  <2>3. UNCHANGED <<events, bus>> /\ p.pc = "tail"
    BY <1>8 DEF SendCatchUp, Send, storeVars, busVars
  <2> HIDE DEF n
  <2> QED
    BY <1>3, <2>1, <2>2, <2>3, PumpGoesOn
<1>9. CASE SendSnapshot(s)
  <2> DEFINE n == [p EXCEPT !.pc = "check", !.watermark = p.last_seq, !.view = NoView]
  <2>1. pump' = [pump EXCEPT ![s] = n]
    BY <1>4, <1>9 DEF SendSnapshot
  <2>2. /\ n = [f \in PumpFields |-> n[f]] /\ n.pc # "idle" /\ n.quote_id = q
        /\ Heads(n) \subseteq Heads(p) \cup {0, HeadSeq(q)}
    BY <1>1, PumpFieldNames DEF Heads
  <2>3. UNCHANGED <<events, bus>> /\ p.pc = "snapshot"
    BY <1>9 DEF SendSnapshot, Send, storeVars, busVars
  <2> HIDE DEF n
  <2> QED
    BY <1>3, <2>1, <2>2, <2>3, PumpGoesOn
<1>10. CASE CheckHead(s) \/ Wake(s)
  <2>1. UNCHANGED <<events, bus>> /\ p.pc \in {"check", "wait"} /\ Follow(s, bus[q])
    BY <1>10 DEF CheckHead, Wake, TakeChange, storeVars, busVars
  <2>2. bus[q] \in Int /\ bus[q] <= HeadSeq(q)
    BY <1>2, <2>1 DEF BusOK
  <2> QED
    BY <1>3, <2>1, <2>2, FollowKeepsPumps
<1>11. CASE ReadTail(s)
  <2> DEFINE rows == Between(q, p.watermark, p.upto)
             n == IF rows = <<>>
                  THEN [p EXCEPT !.pc = "wait", !.watermark = p.upto, !.upto = 0, !.attempt = 0]
                  ELSE [p EXCEPT !.pc = "push", !.chunk = rows, !.attempt = 0]
  <2>1. pump' = [pump EXCEPT ![s] = n]
    BY <1>4, <1>11 DEF ReadTail
  <2>2. /\ n = [f \in PumpFields |-> n[f]] /\ n.pc # "idle" /\ n.quote_id = q
        /\ Heads(n) \subseteq Heads(p) \cup {0, HeadSeq(q)}
    <3> HIDE DEF rows
    <3> QED
      BY <1>1, PumpFieldNames DEF Heads
  <2>3. UNCHANGED <<events, bus>> /\ p.pc = "load"
    BY <1>11 DEF ReadTail, storeVars, busVars
  <2> HIDE DEF n
  <2> QED
    BY <1>3, <2>1, <2>2, <2>3, PumpGoesOn
<1>12. CASE SendTail(s)
  <2> DEFINE n == [p EXCEPT !.pc = "wait", !.watermark = p.upto, !.upto = 0, !.chunk = <<>>]
  <2>1. pump' = [pump EXCEPT ![s] = n]
    BY <1>4, <1>12 DEF SendTail
  <2>2. /\ n = [f \in PumpFields |-> n[f]] /\ n.pc # "idle" /\ n.quote_id = q
        /\ Heads(n) \subseteq Heads(p) \cup {0, HeadSeq(q)}
    BY <1>1, PumpFieldNames DEF Heads
  <2>3. UNCHANGED <<events, bus>> /\ p.pc = "push"
    BY <1>12 DEF SendTail, Send, storeVars, busVars
  <2> HIDE DEF n
  <2> QED
    BY <1>3, <2>1, <2>2, <2>3, PumpGoesOn
<1>13. CASE SendError(s) \/ Abandon(s)
  BY <1>3, <1>13, PumpReturns DEF SendError, Send, Abandon, storeVars
<1> QED
  BY <1>5, <1>6, <1>7, <1>8, <1>9, <1>10, <1>11, <1>12, <1>13 DEF PumpStep

LEMMA SubInputKeepsHeads ==
  ASSUME StoreInv, PumpsOK, BusOK, NEW s \in Subscriptions, SubInput(s)
  PROVE  PumpsOK' /\ BusOK'
<1> DEFINE p == pump[s]
           q == p.quote_id
<1>1. PumpOK(p, events) /\ p = [f \in PumpFields |-> p[f]]
  BY DEF PumpsOK, PumpOK
<1>2. pump = [t \in Subscriptions |-> pump[t]]
  BY DEF PumpsOK
<1>3. ASSUME UNCHANGED events, UNCHANGED bus PROVE BusOK'
  BY <1>3 DEF BusOK, HeadSeq
<1>4. ASSUME NEW r \in QuoteIds, NEW after \in AfterSeqs, Subscribe(s, r, after)
      PROVE  PumpsOK' /\ BusOK'
  <2> DEFINE n == pump'[s]
  <2>1. /\ pump' = [t \in Subscriptions |-> pump'[t]]
        /\ \A t \in Subscriptions \ {s} : pump'[t] = pump[t]
        /\ n = [p EXCEPT !.pc = "init", !.quote_id = r, !.after = after]
    BY <1>2, <1>4 DEF Subscribe
  <2>2. /\ n = [f \in PumpFields |-> n[f]] /\ n.pc # "idle" /\ n.quote_id = r
        /\ Heads(n) = Heads(p)
    BY <1>1, <2>1, PumpFieldNames DEF Heads
  <2>3. UNCHANGED <<events, bus>> /\ Heads(p) = {0}
    BY <1>1, <1>4 DEF Subscribe, storeVars, busVars, PumpOK
  <2>4. \A head \in Heads(n) : head \in Nat /\ head <= HeadSeq(n.quote_id)
    BY <2>2, <2>3, HeadIsNat
  <2> QED
    BY <1>3, <2>1, <2>2, <2>3, <2>4, PumpMoves
<1>5. CASE ReadInitFails(s)
  BY <1>3, <1>5, PumpReturns DEF ReadInitFails, Reject, storeVars
<1>6. CASE ReadTailFails(s)
  <2> DEFINE n == IF p.attempt + 1 < MaxAttempts
                  THEN [p EXCEPT !.attempt = p.attempt + 1]
                  ELSE [p EXCEPT !.pc = "fail", !.upto = 0, !.attempt = 0]
  <2>1. p.pc = "load"
    BY <1>6 DEF ReadTailFails
  <2>2. pump' = [pump EXCEPT ![s] = n]
    BY <1>6 DEF ReadTailFails
  <2>3. /\ n = [f \in PumpFields |-> n[f]] /\ n.pc # "idle" /\ n.quote_id = q
        /\ Heads(n) \subseteq Heads(p) \cup {0, HeadSeq(q)}
    BY <1>1, <2>1, PumpFieldNames DEF Heads
  <2>4. UNCHANGED <<events, bus>>
    BY <1>6 DEF ReadTailFails, storeVars, busVars
  <2> HIDE DEF n
  <2> QED
    BY <1>3, <2>1, <2>2, <2>3, <2>4, PumpGoesOn
<1>7. CASE Disconnect(s)
  <2>1. UNCHANGED events
    BY <1>7 DEF Disconnect, storeVars
  <2>2. CASE Return(s)
    BY <1>3, <2>1, <2>2, PumpReturns
  <2>3. CASE UNCHANGED <<pump, busVars>>
    BY <1>3, <2>1, <2>3 DEF PumpsOK, busVars
  <2> QED
    BY <1>7, <2>2, <2>3 DEF Disconnect
<1> QED
  BY <1>4, <1>5, <1>6, <1>7 DEF SubInput

(* A call announces the last row that its command was given. *)
LEMMA CallActionsKeepHeads ==
  ASSUME StoreInv, StoreInv', CallsOK, PumpsOK, BusOK, Grows(events, events'),
         NEW c \in Calls, CallActions(c)
  PROVE  PumpsOK' /\ BusOK'
<1>1. PumpsOK'
  BY PumpsStay DEF CallActions, subVars
<1>2. CASE Publish(c)
  <2> DEFINE q == call[c].quote_id
             head == LastSeq(call[c].stored)
  <2>1. q \in QuoteIds /\ call[c].stored \in StoredRows(events, q)
    BY <1>2 DEF CallsOK, CallOK, Publish
  <2>2. head \in Nat /\ head <= HeadSeq(q)
    BY <2>1, LastOfStored DEF Seqs
  <2>3. bus' = [bus EXCEPT ![q] = head] /\ UNCHANGED events
    BY <1>2 DEF Publish, PublishHead, storeVars
  <2> HIDE DEF head
  <2>4. BusOK'
    BY <2>1, <2>2, <2>3 DEF BusOK, HeadSeq
  <2> QED
    BY <1>1, <2>4
<1>3. CASE ~Publish(c)
  <2>1. UNCHANGED bus
    BY <1>3 DEF CallActions, CallStep, CallInput, Receive, Refuse, EndOfStream, SqliteError,
                Cancel, RunClosure, RunDetached, IdleTimeout, busVars
  <2> QED
    BY <1>1, <2>1, BusStays
<1> QED
  BY <1>2, <1>3

LEMMA ProcessStopsKeepsHeads ==
  ASSUME StoreInv, PumpsOK, BusOK, ProcessStops
  PROVE  PumpsOK' /\ BusOK'
<1>1. UNCHANGED events /\ bus' = [q \in QuoteIds |-> NoSender]
  BY DEF ProcessStops, storeVars
<1>2. pump' = [s \in Subscriptions |->
                 IF pump[s].pc = "idle" THEN NewPump
                 ELSE [NewPump EXCEPT !.pc = "ended", !.quote_id = pump[s].quote_id]]
  BY DEF ProcessStops
<1>3. PumpsOK'
  BY <1>1, <1>2, EmptyPumps DEF PumpsOK
<1>4. ASSUME NEW q \in QuoteIds PROVE bus'[q] \in Int /\ bus'[q] <= HeadSeq(q)'
  BY <1>1, HeadIsNat DEF NoSender, HeadSeq
<1> QED
  BY <1>1, <1>3, <1>4 DEF BusOK

DeliveryInv == StoreInv /\ CallsOK /\ PumpsOK /\ BusOK

LEMMA DeliveryStep == DeliveryInv /\ [Next]_vars => DeliveryInv'
<1> SUFFICES ASSUME DeliveryInv, [Next]_vars PROVE DeliveryInv'
  OBVIOUS
<1>1. StoreInv /\ CallsOK /\ PumpsOK /\ BusOK
  BY DEF DeliveryInv
<1>2. [StoreNext]_storeVars /\ CallsOK'
  BY <1>1, LedgerStep
<1>3. StoreInv' /\ Grows(events, events')
  BY <1>1, <1>2, InvNext, StoreGrows
<1>4. PumpsOK' /\ BusOK'
  <2>1. ASSUME NEW c \in Calls, CallActions(c) PROVE PumpsOK' /\ BusOK'
    BY <1>1, <1>3, <2>1, CallActionsKeepHeads
  <2>2. ASSUME NEW s \in Subscriptions, SubActions(s) PROVE PumpsOK' /\ BusOK'
    <3>1. CASE PumpStep(s)
      BY <1>1, <3>1, PumpStepKeepsHeads
    <3>2. CASE SubInput(s)
      BY <1>1, <3>2, SubInputKeepsHeads
    <3>3. CASE ClientReceives(s)
      BY <1>1, <3>3 DEF ClientReceives, storeVars, busVars, PumpsOK, BusOK, HeadSeq
    <3> QED
      BY <2>2, <3>1, <3>2, <3>3 DEF SubActions
  <2>3. CASE Crash
    BY <1>1, <2>3, ProcessStopsKeepsHeads DEF Crash
  <2>4. CASE UNCHANGED vars
    BY <1>1, <2>4 DEF vars, storeVars, busVars, subVars, PumpsOK, BusOK, HeadSeq
  <2> QED
    BY <2>1, <2>2, <2>3, <2>4 DEF Next
<1> QED
  BY <1>2, <1>3, <1>4 DEF DeliveryInv

LEMMA DeliveryInit == Init => DeliveryInv
<1> SUFFICES ASSUME Init PROVE DeliveryInv
  OBVIOUS
<1>1. StoreInv /\ CallsOK
  BY LedgerInit, InvInit
<1>2. BusOK
  BY <1>1, HeadIsNat DEF Init, BusInit, BusOK, NoSender
<1>3. PumpsOK
  BY <1>1, EmptyPumps DEF Init, SubInit, PumpsOK
<1> QED
  BY <1>1, <1>2, <1>3 DEF DeliveryInv

LEMMA DeliveryInvMeans == DeliveryInv => AnnouncedIsStored
  BY DEF DeliveryInv, BusOK, PumpsOK, PumpOK, Heads, AnnouncedIsStored, HeadSeq

(* No head is announced, and none is the goal or the watermark of a pump,  *)
(* before its rows are committed: append_one publishes after its closure   *)
(* (ledger.rs:247), subscribe_quote what it read (ledger.rs:435).          *)
THEOREM AnnouncedHeadsAreStored == Spec => []AnnouncedIsStored
  BY DeliveryInvMeans, DeliveryInit, DeliveryStep, PTL DEF Spec
=============================================================================
