--------------------------- MODULE EventStoreProofs ---------------------------
(***************************************************************************)
(* The event store, for any quotes, command ids, payloads and lists of     *)
(* events: its tables keep their types, sequence numbers have no gaps, the *)
(* idempotency keys divide the log, and nothing stored is ever changed.    *)
(*                                                                         *)
(* Of these only the first is inductive by itself.  The others are proved  *)
(* together, from the inductive invariant StoreInv.                        *)
(***************************************************************************)
EXTENDS EventStore, SequenceTheorems, TLAPS

(* The rows of each quote are numbered 1 to n for some n, and the ranges   *)
(* of the keys partition them.                                             *)
GaplessRows == \A q \in QuoteIds : \E n \in Nat : DOMAIN events[q] = 1 .. n

StoreInv == StoreTypeOK /\ GaplessRows /\ KeysPartitionTheLog

-----------------------------------------------------------------------------
(* Lemmas about the operators *)

(* The head of the rows 1 to n is n: COALESCE(MAX(seq), 0). *)
LEMMA HeadOfRows ==
  ASSUME NEW rows, NEW n \in Nat, DOMAIN rows = 1 .. n
  PROVE  LastSeq(rows) = n
<1> DEFINE S == {0} \cup DOMAIN rows
<1>1. n \in S /\ \A y \in S : n >= y
  OBVIOUS
<1>2. \A x \in S : (\A y \in S : x >= y) => x = n
  OBVIOUS
<1> QED
  BY <1>1, <1>2 DEF LastSeq, Max

(* The rows a list of events becomes. *)
LEMMA NumberedRows ==
  ASSUME NEW n \in Nat, NEW evs \in Seq(Payloads)
  PROVE  /\ DOMAIN Numbered(n + 1, evs) = n + 1 .. n + Len(evs)
         /\ \A s \in n + 1 .. n + Len(evs) : /\ Numbered(n + 1, evs)[s] = evs[s - n]
                                             /\ Numbered(n + 1, evs)[s] \in Payloads
<1>1. Len(evs) \in Nat /\ evs \in [1 .. Len(evs) -> Payloads]
  OBVIOUS
<1>2. (n + 1) + Len(evs) - 1 = n + Len(evs)
  BY <1>1
<1>3. Numbered(n + 1, evs) = [s \in n + 1 .. n + Len(evs) |-> evs[s - (n + 1) + 1]]
  BY <1>2 DEF Numbered
<1>4. ASSUME NEW s \in n + 1 .. n + Len(evs)
      PROVE  s - (n + 1) + 1 = s - n /\ s - n \in 1 .. Len(evs)
  BY <1>1
<1> QED
  BY <1>1, <1>3, <1>4

(* A commit is for a command id without a key, and stores at least one     *)
(* event.                                                                  *)
LEMMA CommitIsFresh ==
  ASSUME NEW q, NEW k, NEW evs, AppendVerdict(q, k, evs) = "committed"
  PROVE  k \notin DOMAIN idempotency_keys[q] /\ evs # <<>>
  BY DEF AppendVerdict, IsKeyed

(* What a commit of evs under k does to the tables when q has n rows. *)
OthersKept(q) ==
  \A r \in QuoteIds \ {q} : events'[r] = events[r] /\ idempotency_keys'[r] = idempotency_keys[r]

RowsAdded(q, evs, n) ==
  /\ DOMAIN events'[q] = 1 .. n + Len(evs)
  /\ \A s \in 1 .. n : events'[q][s] = events[q][s]
  /\ \A s \in n + 1 .. n + Len(evs) : events'[q][s] = evs[s - n] /\ events'[q][s] \in Payloads

KeyAdded(q, k, evs, n) ==
  /\ k \notin DOMAIN idempotency_keys[q]
  /\ DOMAIN idempotency_keys'[q] = DOMAIN idempotency_keys[q] \cup {k}
  /\ \A j \in DOMAIN idempotency_keys[q] : idempotency_keys'[q][j] = idempotency_keys[q][j]
  /\ idempotency_keys'[q][k] = [first_seq |-> n + 1, last_seq |-> n + Len(evs)]

(* The tables after a commit of m events to a quote with n rows. *)
LEMMA CommitTables ==
  ASSUME StoreTypeOK,
         NEW q \in QuoteIds, NEW k \in CommandIds, NEW evs \in EventLists,
         NEW n \in Nat, DOMAIN events[q] = 1 .. n,
         AppendVerdict(q, k, evs) = "committed", CommitBatch(q, k, evs)
  PROVE  /\ Len(evs) \in Nat \ {0}
         /\ DOMAIN events' = QuoteIds /\ DOMAIN idempotency_keys' = QuoteIds
         /\ OthersKept(q)
         /\ RowsAdded(q, evs, n)
         /\ KeyAdded(q, k, evs, n)
<1> DEFINE m == Len(evs)
           new == Numbered(n + 1, evs)
<1>1. evs \in Seq(Payloads)
  BY EventListsAssumption
<1>2. k \notin DOMAIN idempotency_keys[q] /\ evs # <<>>
  BY CommitIsFresh
<1>3. m \in Nat \ {0}
  BY <1>1, <1>2
<1>4. HeadSeq(q) = n
  BY HeadOfRows DEF HeadSeq
<1>5. NewRows(q, evs) = new
  BY <1>4 DEF NewRows, NextSeq
<1>6. /\ DOMAIN new = n + 1 .. n + m
      /\ \A s \in n + 1 .. n + m : new[s] = evs[s - n] /\ new[s] \in Payloads
  BY <1>1, NumberedRows
<1>7. events' = [events EXCEPT ![q] = Insert(events[q], new)]
  BY <1>5 DEF CommitBatch
<1>8. idempotency_keys' =
        [idempotency_keys EXCEPT ![q] = Insert(idempotency_keys[q], KeyRow(q, k, evs))]
  BY DEF CommitBatch
<1>9. DOMAIN events = QuoteIds /\ DOMAIN idempotency_keys = QuoteIds
  BY DEF StoreTypeOK
<1>10. events'[q] = Insert(events[q], new)
  BY <1>7, <1>9
<1>11. (1 .. n) \cup (n + 1 .. n + m) = 1 .. n + m /\ (1 .. n) \cap (n + 1 .. n + m) = {}
  BY <1>3
<1>12. /\ DOMAIN events'[q] = 1 .. n + m
       /\ \A s \in 1 .. n : events'[q][s] = events[q][s]
       /\ \A s \in n + 1 .. n + m : events'[q][s] = new[s]
  BY <1>6, <1>10, <1>11 DEF Insert
<1>13. idempotency_keys'[q] = Insert(idempotency_keys[q], KeyRow(q, k, evs))
  BY <1>8, <1>9
<1>14. NewRange(q, evs) = [first_seq |-> n + 1, last_seq |-> n + m]
  BY <1>3, <1>4 DEF NewRange, NextSeq
<1>15. /\ DOMAIN idempotency_keys'[q] = DOMAIN idempotency_keys[q] \cup {k}
       /\ \A j \in DOMAIN idempotency_keys[q] : idempotency_keys'[q][j] = idempotency_keys[q][j]
       /\ idempotency_keys'[q][k] = NewRange(q, evs)
  BY <1>2, <1>13 DEF Insert, KeyRow
<1>16. /\ DOMAIN events' = QuoteIds /\ DOMAIN idempotency_keys' = QuoteIds
       /\ \A r \in QuoteIds \ {q} : /\ events'[r] = events[r]
                                   /\ idempotency_keys'[r] = idempotency_keys[r]
  BY <1>7, <1>8, <1>9
<1> QED
  BY <1>2, <1>3, <1>6, <1>12, <1>14, <1>15, <1>16 DEF OthersKept, RowsAdded, KeyAdded

-----------------------------------------------------------------------------
(* The inductive invariant *)

LEMMA InvInit == StoreInit => StoreInv
<1> SUFFICES ASSUME StoreInit PROVE StoreInv
  OBVIOUS
<1>1. \A q \in QuoteIds : DOMAIN events[q] = {} /\ DOMAIN idempotency_keys[q] = {}
  BY DEF StoreInit
<1>2. StoreTypeOK
  BY <1>1 DEF StoreInit, StoreTypeOK
<1>3. GaplessRows
  <2>1. 0 \in Nat /\ 1 .. 0 = {}
    OBVIOUS
  <2> QED
    BY <1>1, <2>1 DEF GaplessRows
<1>4. KeysPartitionTheLog
  BY <1>1 DEF KeysPartitionTheLog
<1> QED
  BY <1>2, <1>3, <1>4 DEF StoreInv

(* A commit preserves the invariant: its rows follow those of the quote,   *)
(* and the range of its key is exactly the new rows.                       *)
LEMMA InvCommit ==
  ASSUME StoreInv,
         NEW q \in QuoteIds, NEW k \in CommandIds, NEW evs \in EventLists,
         AppendVerdict(q, k, evs) = "committed", CommitBatch(q, k, evs)
  PROVE  StoreInv'
<1>1. PICK n \in Nat : DOMAIN events[q] = 1 .. n
  BY DEF StoreInv, GaplessRows
<1> DEFINE m == Len(evs)
<1>2. StoreTypeOK
  BY DEF StoreInv
<1>3. /\ m \in Nat \ {0}
      /\ DOMAIN events' = QuoteIds /\ DOMAIN idempotency_keys' = QuoteIds
      /\ OthersKept(q) /\ RowsAdded(q, evs, n) /\ KeyAdded(q, k, evs, n)
  BY <1>1, <1>2, CommitTables
<1>4. \A s \in 1 .. n + m : events'[q][s] \in Payloads
  <2> SUFFICES ASSUME NEW s \in 1 .. n + m PROVE events'[q][s] \in Payloads
    OBVIOUS
  <2>1. CASE s \in 1 .. n
    BY <1>1, <1>2, <1>3, <2>1 DEF RowsAdded, StoreTypeOK
  <2>2. CASE s \in n + 1 .. n + m
    BY <1>3, <2>2 DEF RowsAdded
  <2> QED
    BY <1>3, <2>1, <2>2
<1>5. (1 .. n) \cup (n + 1 .. n + m) = 1 .. n + m /\ (1 .. n) \cap (n + 1 .. n + m) = {}
  BY <1>3
<1>6. StoreTypeOK'
  <2> SUFFICES ASSUME NEW r \in QuoteIds
               PROVE  /\ DOMAIN events'[r] \subseteq Seqs
                      /\ \A s \in DOMAIN events'[r] : events'[r][s] \in Payloads
                      /\ DOMAIN idempotency_keys'[r] \subseteq CommandIds
                      /\ \A j \in DOMAIN idempotency_keys'[r] :
                           idempotency_keys'[r][j] \in [first_seq : Seqs, last_seq : Seqs]
    BY <1>3 DEF StoreTypeOK
  <2>1. CASE r # q
    BY <1>2, <1>3, <2>1 DEF StoreTypeOK, OthersKept
  <2>2. CASE r = q
    <3>1. 1 .. n + m \subseteq Seqs /\ n + 1 \in Seqs /\ n + m \in Seqs
      BY <1>3 DEF Seqs
    <3>2. \A j \in DOMAIN idempotency_keys'[q] :
            idempotency_keys'[q][j] \in [first_seq : Seqs, last_seq : Seqs]
      BY <1>2, <1>3, <3>1 DEF StoreTypeOK, KeyAdded
    <3> QED
      BY <1>2, <1>3, <1>4, <2>2, <3>1, <3>2 DEF StoreTypeOK, RowsAdded, KeyAdded
  <2> QED
    BY <2>1, <2>2
<1>7. GaplessRows'
  <2> SUFFICES ASSUME NEW r \in QuoteIds
               PROVE  \E l \in Nat : DOMAIN events'[r] = 1 .. l
    BY DEF GaplessRows
  <2>1. CASE r # q
    BY <1>3, <2>1 DEF StoreInv, GaplessRows, OthersKept
  <2>2. CASE r = q
    <3>1. n + m \in Nat
      BY <1>3
    <3> QED
      BY <1>3, <2>2, <3>1 DEF RowsAdded
  <2> QED
    BY <2>1, <2>2
<1>8. KeysPartitionTheLog'
  <2> DEFINE Keys == DOMAIN idempotency_keys[q]
  <2>1. /\ \A j \in Keys : Covered(q, j)' = Covered(q, j)
        /\ Covered(q, k)' = n + 1 .. n + m
    BY <1>3 DEF Covered, KeyAdded
  <2>2. /\ 1 .. n = UNION {Covered(q, j) : j \in Keys}
        /\ \A j \in Keys : Covered(q, j) # {}
        /\ \A i, j \in Keys : i # j => Covered(q, i) \cap Covered(q, j) = {}
    BY <1>1 DEF StoreInv, KeysPartitionTheLog
  <2>3. UNION {Covered(q, j)' : j \in Keys \cup {k}}
          = (UNION {Covered(q, j) : j \in Keys}) \cup (n + 1 .. n + m)
    BY <2>1
  <2>4. \A j \in Keys \cup {k} : Covered(q, j)' # {}
    <3>1. n + 1 \in n + 1 .. n + m
      BY <1>3
    <3> QED
      BY <2>1, <2>2, <3>1
  <2>5. \A j \in Keys : Covered(q, j) \cap (n + 1 .. n + m) = {}
    <3>1. \A j \in Keys : Covered(q, j) \subseteq 1 .. n
      BY <2>2
    <3> QED
      BY <1>5, <3>1
  <2>6. \A i, j \in Keys \cup {k} : i # j => Covered(q, i)' \cap Covered(q, j)' = {}
    BY <2>1, <2>2, <2>5
  <2>7. DOMAIN idempotency_keys'[q] = Keys \cup {k} /\ DOMAIN events'[q] = 1 .. n + m
    BY <1>3 DEF KeyAdded, RowsAdded
  <2>8. \A r \in QuoteIds \ {q} :
          /\ DOMAIN events'[r] = UNION {Covered(r, j)' : j \in DOMAIN idempotency_keys'[r]}
          /\ \A j \in DOMAIN idempotency_keys'[r] : Covered(r, j)' # {}
          /\ \A i, j \in DOMAIN idempotency_keys'[r] :
               i # j => Covered(r, i)' \cap Covered(r, j)' = {}
    BY <1>3 DEF StoreInv, KeysPartitionTheLog, Covered, OthersKept
  <2> QED
    <3>1. /\ DOMAIN events'[q] = UNION {Covered(q, j)' : j \in DOMAIN idempotency_keys'[q]}
          /\ \A j \in DOMAIN idempotency_keys'[q] : Covered(q, j)' # {}
          /\ \A i, j \in DOMAIN idempotency_keys'[q] :
               i # j => Covered(q, i)' \cap Covered(q, j)' = {}
      BY <1>5, <2>2, <2>3, <2>4, <2>6, <2>7
    <3> QED
      BY <2>8, <3>1 DEF KeysPartitionTheLog
<1> QED
  BY <1>6, <1>7, <1>8 DEF StoreInv

LEMMA InvUnchanged == StoreInv /\ UNCHANGED storeVars => StoreInv'
  BY DEF StoreInv, StoreTypeOK, GaplessRows, KeysPartitionTheLog, Covered, storeVars

(* A step of the store is a commit, or changes nothing. *)
LEMMA StepCases ==
  ASSUME StoreNext \/ UNCHANGED storeVars
  PROVE  \/ \E q \in QuoteIds, k \in CommandIds, evs \in EventLists :
              AppendVerdict(q, k, evs) = "committed" /\ CommitBatch(q, k, evs)
         \/ UNCHANGED storeVars
  BY DEF StoreNext, AppendCommandEvents

LEMMA InvNext == StoreInv /\ [StoreNext]_storeVars => StoreInv'
<1> SUFFICES ASSUME StoreInv, StoreNext \/ UNCHANGED storeVars PROVE StoreInv'
  OBVIOUS
<1>1. CASE UNCHANGED storeVars
  BY <1>1, InvUnchanged
<1>2. ASSUME NEW q \in QuoteIds, NEW k \in CommandIds, NEW evs \in EventLists,
             AppendVerdict(q, k, evs) = "committed", CommitBatch(q, k, evs)
      PROVE  StoreInv'
  BY <1>2, InvCommit
<1> QED
  BY <1>1, <1>2, StepCases

LEMMA StoreInvariant == StoreSpec => []StoreInv
<1>1. StoreInit => StoreInv
  BY InvInit
<1>2. StoreInv /\ [StoreNext]_storeVars => StoreInv'
  BY InvNext
<1> QED
  BY <1>1, <1>2, PTL DEF StoreSpec

-----------------------------------------------------------------------------
(* Theorems *)

(* The tables always hold what their columns are for. *)
THEOREM StoreTypeCorrect == StoreSpec => []StoreTypeOK
<1>1. StoreInv => StoreTypeOK
  BY DEF StoreInv
<1> QED
  BY <1>1, StoreInvariant, PTL

LEMMA GaplessMeans == StoreInv => SeqsAreContiguous
<1> SUFFICES ASSUME StoreInv, NEW q \in QuoteIds
             PROVE  DOMAIN events[q] = 1 .. HeadSeq(q)
  BY DEF SeqsAreContiguous
<1>1. PICK n \in Nat : DOMAIN events[q] = 1 .. n
  BY DEF StoreInv, GaplessRows
<1>2. HeadSeq(q) = n
  BY <1>1, HeadOfRows DEF HeadSeq
<1> QED
  BY <1>1, <1>2

(* Sequence numbers are 1, 2, ... without a gap (COALESCE(MAX(seq), 0) + 1 *)
(* for the first event of each command, store.rs:131-158).                 *)
THEOREM SequenceNumbersAreContiguous == StoreSpec => []SeqsAreContiguous
  BY GaplessMeans, StoreInvariant, PTL

(* Each row was committed by exactly one client command (store.rs:114-172).*)
THEOREM KeysAlwaysPartition == StoreSpec => []KeysPartitionTheLog
<1>1. StoreInv => KeysPartitionTheLog
  BY DEF StoreInv
<1> QED
  BY <1>1, StoreInvariant, PTL

(* The store is append-only: no step changes or removes a row of either    *)
(* table (store.rs:146-170 only inserts).                                  *)
THEOREM AppendOnly == StoreSpec => TablesOnlyGrow
<1> DEFINE Grow == \A q \in QuoteIds : /\ Extends(events'[q], events[q])
                                       /\ Extends(idempotency_keys'[q], idempotency_keys[q])
<1>1. StoreInv /\ [StoreNext]_storeVars => [Grow]_storeVars
  <2> SUFFICES ASSUME StoreInv, StoreNext \/ UNCHANGED storeVars PROVE Grow \/ UNCHANGED storeVars
    OBVIOUS
  <2>1. ASSUME NEW q \in QuoteIds, NEW k \in CommandIds, NEW evs \in EventLists,
               AppendVerdict(q, k, evs) = "committed", CommitBatch(q, k, evs)
        PROVE  Grow
    <3>1. PICK n \in Nat : DOMAIN events[q] = 1 .. n
      BY DEF StoreInv, GaplessRows
    <3>2. StoreTypeOK
      BY DEF StoreInv
    <3>3. /\ Len(evs) \in Nat \ {0}
          /\ OthersKept(q) /\ RowsAdded(q, evs, n) /\ KeyAdded(q, k, evs, n)
      BY <2>1, <3>1, <3>2, CommitTables
    <3>4. 1 .. n \subseteq 1 .. n + Len(evs)
      BY <3>3
    <3>5. Extends(events'[q], events[q]) /\ Extends(idempotency_keys'[q], idempotency_keys[q])
      BY <3>1, <3>3, <3>4 DEF Extends, RowsAdded, KeyAdded
    <3> QED
      BY <3>3, <3>5 DEF Extends, OthersKept
  <2> QED
    BY <2>1, StepCases
<1> QED
  BY <1>1, StoreInvariant, PTL DEF StoreSpec, TablesOnlyGrow

-----------------------------------------------------------------------------
(***************************************************************************)
(* The event store implements the exactly-once log QuoteLog: read through  *)
(* LogOf, its two tables are one log per quote, to which each client       *)
(* command adds its batch at most once.                                    *)
(*                                                                         *)
(* The argument is the invariant StoreInv: since the ranges of the keys    *)
(* partition the rows, every row has one key (OneKey), the rows a commit   *)
(* keeps keep theirs, and the rows it adds have its own.                   *)
(***************************************************************************)

(* A function on 1 .. n + m that agrees with old and then with more is     *)
(* their concatenation.                                                    *)
LEMMA ConcatIs ==
  ASSUME NEW E, NEW n \in Nat, NEW m \in Nat,
         NEW old \in [1 .. n -> E], NEW more \in [1 .. m -> E], NEW all \in [1 .. n + m -> E],
         \A i \in 1 .. n : all[i] = old[i],
         \A i \in n + 1 .. n + m : all[i] = more[i - n]
  PROVE  all = old \o more
<1>1. /\ old \in Seq(E) /\ Len(old) = n
      /\ more \in Seq(E) /\ Len(more) = m
      /\ all \in Seq(E) /\ Len(all) = n + m
  BY SeqDef
<1>2. /\ old \o more \in Seq(E) /\ Len(old \o more) = n + m
      /\ \A i \in 1 .. n + m : (old \o more)[i] = IF i <= n THEN old[i] ELSE more[i - n]
  BY <1>1, ConcatProperties
<1>3. ASSUME NEW i \in 1 .. n + m PROVE all[i] = (old \o more)[i]
  <2>1. CASE i <= n
    <3>1. i \in 1 .. n
      BY <2>1
    <3> QED
      BY <1>2, <2>1, <3>1
  <2>2. CASE ~(i <= n)
    <3>1. i \in n + 1 .. n + m
      BY <2>2
    <3>2. all[i] = more[i - n]
      BY <3>1
    <3> QED
      BY <1>2, <2>2, <3>2
  <2> QED
    BY <2>1, <2>2
<1> QED
  BY <1>1, <1>2, <1>3, SeqEqual

(* The key of a row is the one whose range holds it. *)
LEMMA OneKey ==
  ASSUME KeysPartitionTheLog, NEW q \in QuoteIds,
         NEW k \in DOMAIN idempotency_keys[q], NEW s \in Covered(q, k)
  PROVE  KeyOf(q, s) = k
<1>1. \A i \in DOMAIN idempotency_keys[q] : s \in Covered(q, i) => i = k
  BY DEF KeysPartitionTheLog
<1> QED
  BY <1>1 DEF KeyOf

(* Every row has a key. *)
LEMMA RowsAreKeyed ==
  ASSUME KeysPartitionTheLog, NEW q \in QuoteIds, NEW s \in DOMAIN events[q]
  PROVE  KeyOf(q, s) \in DOMAIN idempotency_keys[q] /\ s \in Covered(q, KeyOf(q, s))
<1>1. PICK k \in DOMAIN idempotency_keys[q] : s \in Covered(q, k)
  BY DEF KeysPartitionTheLog
<1>2. KeyOf(q, s) = k
  BY <1>1, OneKey
<1> QED
  BY <1>1, <1>2

-----------------------------------------------------------------------------
(* The initial tables are the empty logs. *)
LEMMA RefinesInit == StoreInit => Abstract!Init
<1> SUFFICES ASSUME StoreInit PROVE Abstract!Init
  OBVIOUS
<1>1. ASSUME NEW q \in QuoteIds PROVE LogOf(q) = <<>>
  <2>1. DOMAIN events[q] = 1 .. 0
    BY DEF StoreInit
  <2>2. HeadSeq(q) = 0
    BY <2>1, HeadOfRows DEF HeadSeq
  <2> QED
    BY <2>2 DEF LogOf
<1> QED
  BY <1>1 DEF Abstract!Init

(* A commit is a command taking effect: the log of its quote grows by its  *)
(* batch, the other logs stay.                                             *)
LEMMA RefinesCommit ==
  ASSUME StoreInv,
         NEW q \in QuoteIds, NEW k \in CommandIds, NEW evs \in EventLists,
         AppendVerdict(q, k, evs) = "committed", CommitBatch(q, k, evs)
  PROVE  Abstract!Apply(q, k, evs)
<1>1. PICK n \in Nat : DOMAIN events[q] = 1 .. n
  BY DEF StoreInv, GaplessRows
<1> DEFINE m == Len(evs)
           Keys == DOMAIN idempotency_keys[q]
           E == [key : CommandIds, event : Payloads]
<1>2. StoreTypeOK /\ KeysPartitionTheLog
  BY DEF StoreInv
<1>3. /\ m \in Nat \ {0}
      /\ OthersKept(q) /\ RowsAdded(q, evs, n) /\ KeyAdded(q, k, evs, n)
  BY <1>1, <1>2, CommitTables
<1>4. k \notin Keys /\ evs # <<>>
  BY CommitIsFresh
<1>5. HeadSeq(q) = n
  BY <1>1, HeadOfRows DEF HeadSeq
<1>6. HeadSeq(q)' = n + m
  <2>1. n + m \in Nat /\ DOMAIN events'[q] = 1 .. n + m
    BY <1>3 DEF RowsAdded
  <2> QED
    BY <2>1, HeadOfRows DEF HeadSeq
<1>7. k \notin Abstract!Applied(q)
  <2>1. \A s \in 1 .. n : KeyOf(q, s) \in Keys
    BY <1>1, <1>2, RowsAreKeyed
  <2>2. \A s \in DOMAIN LogOf(q) : LogOf(q)[s].key \in Keys
    BY <1>5, <2>1 DEF LogOf
  <2> QED
    BY <1>4, <2>2 DEF Abstract!Applied
<1>8. ASSUME NEW r \in QuoteIds \ {q} PROVE LogOf(r)' = LogOf(r)
  BY <1>3 DEF OthersKept, LogOf, HeadSeq, KeyOf, Covered
<1>9. /\ DOMAIN idempotency_keys'[q] = Keys \cup {k}
      /\ \A j \in Keys : Covered(q, j)' = Covered(q, j)
      /\ Covered(q, k)' = n + 1 .. n + m
  BY <1>3 DEF Covered, KeyAdded
<1>10. \A j \in Keys : Covered(q, j) \subseteq 1 .. n
  BY <1>1, <1>2 DEF KeysPartitionTheLog
<1>11. ASSUME NEW s \in 1 .. n PROVE KeyOf(q, s)' = KeyOf(q, s)
  <2>1. s \notin Covered(q, k)'
    BY <1>9
  <2>2. \A j \in Keys \cup {k} : s \in Covered(q, j)' <=> j \in Keys /\ s \in Covered(q, j)
    BY <1>4, <1>9, <2>1
  <2>3. KeyOf(q, s) \in Keys /\ s \in Covered(q, KeyOf(q, s))
    BY <1>1, <1>2, RowsAreKeyed
  <2>4. \A j \in Keys : s \in Covered(q, j) => j = KeyOf(q, s)
    BY <1>2, OneKey
  <2>5. \A j \in DOMAIN idempotency_keys'[q] : s \in Covered(q, j)' <=> j = KeyOf(q, s)
    BY <1>9, <2>2, <2>3, <2>4
  <2> QED
    BY <1>9, <2>3, <2>5 DEF KeyOf
<1>12. ASSUME NEW s \in n + 1 .. n + m PROVE KeyOf(q, s)' = k
  <2>1. s \notin 1 .. n
    OBVIOUS
  <2>2. \A j \in Keys \cup {k} : s \in Covered(q, j)' <=> j = k
    BY <1>4, <1>9, <1>10, <2>1
  <2> QED
    BY <1>9, <2>2 DEF KeyOf
<1>13. LogOf(q)' = LogOf(q) \o Abstract!Batch(k, evs)
  <2> DEFINE batch == Abstract!Batch(k, evs)
  <2>1. /\ LogOf(q) = [s \in 1 .. n |-> [key |-> KeyOf(q, s), event |-> events[q][s]]]
        /\ LogOf(q)' = [s \in 1 .. n + m |-> [key |-> KeyOf(q, s)', event |-> events'[q][s]]]
    BY <1>5, <1>6 DEF LogOf
  <2>2. LogOf(q) \in [1 .. n -> E]
    <3>1. \A s \in 1 .. n : KeyOf(q, s) \in CommandIds /\ events[q][s] \in Payloads
      BY <1>1, <1>2, RowsAreKeyed DEF StoreTypeOK
    <3> QED
      BY <2>1, <3>1
  <2>3. evs \in [1 .. m -> Payloads]
    BY EventListsAssumption
  <2>4. batch = [i \in 1 .. m |-> [key |-> k, event |-> evs[i]]] /\ batch \in [1 .. m -> E]
    BY <2>3 DEF Abstract!Batch
  <2>5. ASSUME NEW s \in 1 .. n PROVE LogOf(q)'[s] = LogOf(q)[s]
    <3>1. s \in 1 .. n + m
      BY <1>3
    <3>2. KeyOf(q, s)' = KeyOf(q, s) /\ events'[q][s] = events[q][s]
      BY <1>3, <1>11 DEF RowsAdded
    <3> QED
      BY <2>1, <3>1, <3>2
  <2>6. ASSUME NEW s \in n + 1 .. n + m PROVE LogOf(q)'[s] = batch[s - n]
    <3>1. s \in 1 .. n + m /\ s - n \in 1 .. m
      BY <1>3
    <3>2. KeyOf(q, s)' = k /\ events'[q][s] = evs[s - n]
      BY <1>3, <1>12 DEF RowsAdded
    <3> QED
      BY <2>1, <2>4, <3>1, <3>2
  <2> HIDE DEF batch, E
  <2>7. ASSUME NEW s \in 1 .. n + m PROVE LogOf(q)'[s] \in E
    <3>1. CASE s \in 1 .. n
      BY <2>2, <2>5, <3>1
    <3>2. CASE s \in n + 1 .. n + m
      <4>1. s - n \in 1 .. m
        BY <1>3, <3>2
      <4> QED
        BY <2>4, <2>6, <3>2, <4>1
    <3> QED
      BY <1>3, <3>1, <3>2
  <2> DEFINE before == LogOf(q)
             after == LogOf(q)'
  <2>8. after \in [1 .. n + m -> E]
    BY <2>1, <2>7
  <2>9. before \in [1 .. n -> E] /\ batch \in [1 .. m -> E] /\ m \in Nat
    BY <1>3, <2>2, <2>4
  <2>10. \A s \in 1 .. n : after[s] = before[s]
    BY <2>5
  <2>11. \A s \in n + 1 .. n + m : after[s] = batch[s - n]
    BY <2>6
  <2> HIDE DEF before, after, m
  <2>12. after = before \o batch
    BY <2>8, <2>9, <2>10, <2>11, ConcatIs, SMTT(30)
  <2> QED
    BY <2>12 DEF before, after, batch
<1> QED
  BY <1>2, <1>4, <1>7, <1>8, <1>13 DEF Abstract!Apply

LEMMA RefinesNext ==
  StoreInv /\ [StoreNext]_storeVars
    => [Abstract!Next]_[q \in QuoteIds |-> LogOf(q)]
<1> SUFFICES ASSUME StoreInv, StoreNext \/ UNCHANGED storeVars
             PROVE  Abstract!Next \/ UNCHANGED [q \in QuoteIds |-> LogOf(q)]
  OBVIOUS
<1>1. CASE UNCHANGED storeVars
  BY <1>1 DEF storeVars, LogOf, HeadSeq, KeyOf, Covered
<1>2. ASSUME NEW q \in QuoteIds, NEW k \in CommandIds, NEW evs \in EventLists,
             AppendVerdict(q, k, evs) = "committed", CommitBatch(q, k, evs)
      PROVE  Abstract!Next
  BY <1>2, RefinesCommit DEF Abstract!Next
<1> QED
  BY <1>1, <1>2, StepCases

(* The store is a log per quote to which every client command adds its     *)
(* events once, all together: append_command_events looks the key up, and  *)
(* inserts the rows and the key in one transaction (store.rs:108-174).     *)
THEOREM StoreImplementsQuoteLog == StoreSpec => ImplementsQuoteLog
<1>1. StoreInit => Abstract!Init
  BY RefinesInit
<1>2. StoreInv /\ [StoreNext]_storeVars
        => [Abstract!Next]_[q \in QuoteIds |-> LogOf(q)]
  BY RefinesNext
<1> QED
  BY <1>1, <1>2, StoreInvariant, PTL DEF StoreSpec, ImplementsQuoteLog, Abstract!Spec
=============================================================================
