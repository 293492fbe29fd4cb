--------------------------- MODULE AppendOneProofs ---------------------------
(***************************************************************************)
(* append_one on the whole database, for any commands, ids and bound of    *)
(* the money: a stored log always replays and always has a view, a         *)
(* finalized quote stays as it is, a retry is answered with its commit and *)
(* a reused id is refused.                                                 *)
(*                                                                         *)
(* The closure judges a command on Replay, a recursive function, so the    *)
(* proofs begin with what that function is: Replay of n + 1 rows is one    *)
(* step on from Replay of the first n.  After that no induction over rows  *)
(* is left: the inductive invariant says of each row what the step that    *)
(* stored it knew.                                                         *)
(***************************************************************************)
EXTENDS AppendOne, EventStoreProofs, FiniteSetTheorems

-----------------------------------------------------------------------------
(* Induction.  The library's induction theorems are about an operator; the *)
(* two that follow are about a set, and come from the strict subset        *)
(* ordering of finite sets being well founded.                             *)

LEMMA LeastElement ==
  ASSUME NEW S, S \subseteq Nat, S # {}
  PROVE  \E x \in S : \A y \in S : x <= y
<1> DEFINE R == StrictSubsetOrdering(Nat)
           T == {1 .. n : n \in S}
<1>1. IsWellFoundedOn(R, FiniteSubsetsOf(Nat))
  BY FS_StrictSubsetOrderingWellFounded
<1>2. T \subseteq FiniteSubsetsOf(Nat) /\ T # {}
  <2>1. ASSUME NEW n \in S PROVE 1 .. n \in FiniteSubsetsOf(Nat)
    <3>1. n \in Int /\ 1 \in Int
      OBVIOUS
    <3>2. IsFiniteSet(1 .. n)
      BY <3>1, FS_Interval
    <3>3. 1 .. n \in SUBSET Nat
      BY <3>1
    <3> QED
      BY <3>2, <3>3 DEF FiniteSubsetsOf
  <2> QED
    BY <2>1
<1>3. PICK t \in T : \A u \in T : ~ (<<u, t>> \in R)
  <2> HIDE DEF T, R
  <2> QED
    BY <1>1, <1>2, WFMin
<1>4. PICK x \in S : t = 1 .. x
  OBVIOUS
<1>5. ASSUME NEW y \in S, y < x PROVE FALSE
  <2>1. 1 .. y \in T /\ 1 .. y \subseteq Nat /\ t \subseteq Nat
    BY <1>4
  <2>2. 1 .. y \subseteq t /\ x \in t /\ x \notin 1 .. y
    BY <1>4, <1>5
  <2> QED
    BY <1>3, <2>1, <2>2 DEF StrictSubsetOrdering
<1> QED
  BY <1>5

LEMMA InductionOnNat ==
  ASSUME NEW S, 0 \in S, \A n \in Nat : n \in S => n + 1 \in S
  PROVE  Nat \subseteq S
<1> SUFFICES ASSUME NEW n \in Nat, n \notin S PROVE FALSE
  OBVIOUS
<1> DEFINE T == {i \in Nat : i \notin S}
<1>1. PICK x \in T : \A y \in T : x <= y
  BY LeastElement
<1>2. x # 0 /\ x - 1 \in Nat /\ x - 1 \in S
  BY <1>1
<1>3. x - 1 + 1 = x
  BY <1>1
<1> QED
  BY <1>1, <1>2, <1>3

-----------------------------------------------------------------------------
(* What Replay computes *)

AtStart == [error |-> "Ok", quote |-> Default]

(* One row after another replay. *)
Stepped(before, row) ==
  LET error == ReduceError(before.quote, row)
  IN  IF before.error # "Ok" THEN before
      ELSE IF error # "Ok" THEN [before EXCEPT !.error = error]
      ELSE [before EXCEPT !.quote = Reduced(@, row)]

(* f[s] is the replay of the rows 1 to s, for every s up to n. *)
Replays(f, rows, n) ==
  f = [s \in 0 .. n |-> IF s = 0 THEN AtStart ELSE Stepped(f[s - 1], rows[s])]

(* The recursive function After of Replay exists. *)
LEMMA ReplayExists ==
  ASSUME NEW rows, NEW n \in Nat
  PROVE  \E f : Replays(f, rows, n)
<1> DEFINE T == {m \in Nat : \E f : Replays(f, rows, m)}
<1>1. 0 \in T
  <2> DEFINE f == [s \in 0 .. 0 |-> AtStart]
  <2>1. f = [s \in 0 .. 0 |-> IF s = 0 THEN AtStart ELSE Stepped(f[s - 1], rows[s])]
    OBVIOUS
  <2>2. Replays(f, rows, 0)
    BY <2>1 DEF Replays
  <2> QED
    BY <2>2
<1>2. ASSUME NEW m \in Nat, m \in T PROVE m + 1 \in T
  <2>1. PICK f : Replays(f, rows, m)
    BY <1>2
  <2> DEFINE g == [s \in 0 .. m + 1 |-> IF s = 0 THEN AtStart ELSE Stepped(f[s - 1], rows[s])]
  <2>2. ASSUME NEW s \in 0 .. m PROVE g[s] = f[s]
    BY <2>1 DEF Replays
  <2>3. g = [s \in 0 .. m + 1 |-> IF s = 0 THEN AtStart ELSE Stepped(g[s - 1], rows[s])]
    <3>1. ASSUME NEW s \in 0 .. m + 1, s # 0 PROVE g[s - 1] = f[s - 1]
      BY <2>2, <3>1
    <3> QED
      BY <3>1
  <2>4. Replays(g, rows, m + 1)
    BY <2>3 DEF Replays
  <2> QED
    BY <2>4
<1>3. Nat \subseteq T
  <2> HIDE DEF T
  <2> QED
    BY <1>1, <1>2, InductionOnNat
<1> QED
  BY <1>3

(* Two such functions agree wherever their rows do. *)
LEMMA ReplaysAgree ==
  ASSUME NEW f, NEW rows, NEW n \in Nat, Replays(f, rows, n),
         NEW g, NEW old, NEW m \in 0 .. n, Replays(g, old, m),
         \A s \in 1 .. m : old[s] = rows[s]
  PROVE  f[m] = g[m]
<1> DEFINE T == {i \in Nat : i <= m => f[i] = g[i]}
<1>1. 0 \in T
  BY DEF Replays
<1>2. ASSUME NEW i \in Nat, i \in T PROVE i + 1 \in T
  <2> SUFFICES ASSUME i + 1 <= m PROVE f[i + 1] = g[i + 1]
    OBVIOUS
  <2>1. f[i] = g[i] /\ i + 1 \in 1 .. m /\ i + 1 \in 0 .. n /\ i + 1 # 0 /\ (i + 1) - 1 = i
    BY <1>2
  <2>2. f[i + 1] = Stepped(f[i], rows[i + 1])
    BY <2>1 DEF Replays
  <2>3. g[i + 1] = Stepped(g[i], old[i + 1])
    BY <2>1 DEF Replays
  <2> QED
    BY <2>1, <2>2, <2>3
<1>3. Nat \subseteq T
  <2> HIDE DEF T
  <2> QED
    BY <1>1, <1>2, InductionOnNat
<1> QED
  BY <1>3

(* Replay is the value of that function at the last row. *)
LEMMA ReplayIs ==
  ASSUME NEW rows, NEW n \in Nat, DOMAIN rows = 1 .. n
  PROVE  \E f : Replays(f, rows, n) /\ Replay(rows) = f[n]
<1> DEFINE after == CHOOSE f : Replays(f, rows, n)
<1>1. Max({0} \cup DOMAIN rows) = n
  BY HeadOfRows DEF LastSeq
<1>2. Replays(after, rows, n)
  BY ReplayExists
<1>3. Replay(rows) = after[n]
  <2>1. ASSUME NEW f
        PROVE  [s \in 0 .. n |->
                  IF s = 0 THEN [error |-> "Ok", quote |-> Default]
                  ELSE LET before == f[s - 1]
                           error  == ReduceError(before.quote, rows[s])
                       IN  IF s \notin DOMAIN rows \/ before.error # "Ok" THEN before
                           ELSE IF error # "Ok" THEN [before EXCEPT !.error = error]
                           ELSE [before EXCEPT !.quote = Reduced(@, rows[s])]]
               = [s \in 0 .. n |-> IF s = 0 THEN AtStart ELSE Stepped(f[s - 1], rows[s])]
    BY DEF AtStart, Stepped
  <2> QED
    BY <1>1, <2>1 DEF Replay, Replays
<1> QED
  BY <1>2, <1>3

(* No rows replay to the default quote. *)
LEMMA ReplayOfNone ==
  ASSUME NEW rows, DOMAIN rows = {}
  PROVE  Replay(rows) = AtStart
<1>1. DOMAIN rows = 1 .. 0
  OBVIOUS
<1>2. PICK f : Replays(f, rows, 0) /\ Replay(rows) = f[0]
  BY <1>1, ReplayIs
<1> QED
  BY <1>2 DEF Replays

(* n + 1 rows replay to one step on from what the first n replay to. *)
LEMMA ReplayOfMore ==
  ASSUME NEW rows, NEW old, NEW n \in Nat,
         DOMAIN rows = 1 .. n + 1, DOMAIN old = 1 .. n,
         \A s \in 1 .. n : old[s] = rows[s]
  PROVE  Replay(rows) = Stepped(Replay(old), rows[n + 1])
<1>1. PICK f : Replays(f, rows, n + 1) /\ Replay(rows) = f[n + 1]
  BY ReplayIs
<1>2. PICK g : Replays(g, old, n) /\ Replay(old) = g[n]
  BY ReplayIs
<1>3. f[n] = g[n]
  BY <1>1, <1>2, ReplaysAgree
<1>4. f[n + 1] = Stepped(f[n], rows[n + 1])
  <2>1. n + 1 \in 0 .. n + 1 /\ n + 1 # 0 /\ (n + 1) - 1 = n
    OBVIOUS
  <2> QED
    BY <1>1, <2>1 DEF Replays
<1> QED
  BY <1>1, <1>2, <1>3, <1>4

(* Rows that agree replay to the same. *)
LEMMA ReplayOfSame ==
  ASSUME NEW rows, NEW old, NEW n \in Nat,
         DOMAIN rows = 1 .. n, DOMAIN old = 1 .. n,
         \A s \in 1 .. n : old[s] = rows[s]
  PROVE  Replay(rows) = Replay(old)
<1>1. PICK f : Replays(f, rows, n) /\ Replay(rows) = f[n]
  BY ReplayIs
<1>2. PICK g : Replays(g, old, n) /\ Replay(old) = g[n]
  BY ReplayIs
<1>3. n \in 0 .. n
  OBVIOUS
<1> QED
  BY <1>1, <1>2, <1>3, ReplaysAgree

(* A quote without lines costs nothing. *)
LEMMA SubtotalOfNone == Subtotal(<<>>) = 0
<1> DEFINE upto == CHOOSE u : u = [i \in 0 .. 0 |->
                                  IF i = 0 THEN 0 ELSE u[i - 1] + LineTotal(<<>>[i])]
<1>1. \E u : u = [i \in 0 .. 0 |-> IF i = 0 THEN 0 ELSE u[i - 1] + LineTotal(<<>>[i])]
  <2> DEFINE z == [i \in 0 .. 0 |-> 0]
  <2>1. z = [i \in 0 .. 0 |-> IF i = 0 THEN 0 ELSE z[i - 1] + LineTotal(<<>>[i])]
    OBVIOUS
  <2> QED
    BY <2>1
<1>2. upto = [i \in 0 .. 0 |-> IF i = 0 THEN 0 ELSE upto[i - 1] + LineTotal(<<>>[i])]
  BY <1>1
<1>3. upto[0] = 0
  <2> HIDE DEF upto
  <2> QED
    BY <1>2
<1>4. Len(<<>>) = 0
  OBVIOUS
<1> QED
  BY <1>3, <1>4 DEF Subtotal

LEMMA TotalsOfNone ==
  ASSUME NEW quote, quote.lines = <<>>
  PROVE  TotalsFit(quote)
<1>1. Subtotal(quote.lines) = 0
  BY SubtotalOfNone
<1>2. Tax(quote) = 0
  <2>1. TaxRateBps(quote) \in {0, 800}
    BY DEF TaxRateBps
  <2>2. 0 * TaxRateBps(quote) = 0
    BY <2>1
  <2> QED
    BY <1>1, <2>2 DEF Tax, DividedBy
<1>3. Total(quote) = 0
  BY <1>1, <1>2 DEF Total
<1>4. FitsI64(0)
  BY MaxI64Assumption DEF FitsI64, I64
<1>5. DOMAIN quote.lines = {}
  OBVIOUS
<1> QED
  BY <1>1, <1>2, <1>3, <1>4, <1>5 DEF TotalsFit

-----------------------------------------------------------------------------
(* The inductive invariant *)

ReplayAt(q, n) == Replay(Between(q, 0, n))

Lines == [line_id : Strings, sku : Strings, quantity : I64, unit_minor : I64]
QuoteStates ==
  [currency_code : Strings \cup {NoString}, jurisdiction_id : Strings \cup {NoString},
   finalized : BOOLEAN, lines : Seq(Lines)]

(* The first n rows of q replay, to a quote whose totals fit, and which is *)
(* finalized as soon as one of the rows is a QuoteFinalized.               *)
GoodPrefix(q, n) ==
  /\ ReplayAt(q, n) \in [error : {"Ok"}, quote : QuoteStates]
  /\ TotalsFit(ReplayAt(q, n).quote)
  /\ ReplayAt(q, n).quote.finalized => IsCreated(ReplayAt(q, n).quote)
  /\ \A s \in 1 .. n :
       events[q][s].kind = "QuoteFinalized" => ReplayAt(q, n).quote.finalized

(* Row s is the event of a command that the rows before it accept. *)
AcceptedRow(q, s) ==
  \E c \in Commands : /\ events[q][s] = EventOf(c)
                      /\ CommandError(ReplayAt(q, s - 1).quote, c) = "Ok"

OneRowPerKey(q) ==
  \A k \in DOMAIN idempotency_keys[q] :
    idempotency_keys[q][k].first_seq = idempotency_keys[q][k].last_seq

DomainInv ==
  \A q \in QuoteIds : /\ \A n \in 0 .. HeadSeq(q) : GoodPrefix(q, n)
                      /\ \A s \in DOMAIN events[q] : AcceptedRow(q, s)
                      /\ OneRowPerKey(q)

-----------------------------------------------------------------------------
(* What commands and events have in common *)

LEMMA EventsOfCommands ==
  ASSUME NEW c \in Commands
  PROVE  /\ c.kind \in {"CreateQuote", "AddLineItem", "FinalizeQuote"}
         /\ c.kind = "CreateQuote" =>
              /\ EventOf(c) = [kind |-> "QuoteCreated", currency_code |-> c.currency_code,
                               jurisdiction_id |-> c.jurisdiction_id]
              /\ c.currency_code \in Strings /\ c.jurisdiction_id \in Strings
         /\ c.kind = "AddLineItem" =>
              /\ EventOf(c) = [kind |-> "LineItemAdded", line_id |-> c.line_id, sku |-> c.sku,
                               quantity |-> c.quantity, unit_minor |-> c.unit_minor]
              /\ Line(c) \in Lines /\ Line(EventOf(c)) = Line(c)
         /\ c.kind = "FinalizeQuote" => EventOf(c) = [kind |-> "QuoteFinalized"]
<1>1. c \in CreateQuote \cup AddLineItem \cup FinalizeQuote
  BY CommandsAssumption
<1>2. CASE c \in CreateQuote
  BY <1>2 DEF CreateQuote, EventOf
<1>3. CASE c \in AddLineItem
  <2>1. /\ c.kind = "AddLineItem" /\ c.line_id \in Strings /\ c.sku \in Strings
        /\ c.quantity \in I64 /\ c.unit_minor \in I64
    BY <1>3 DEF AddLineItem
  <2>2. EventOf(c) = [kind |-> "LineItemAdded", line_id |-> c.line_id, sku |-> c.sku,
                      quantity |-> c.quantity, unit_minor |-> c.unit_minor]
    BY <1>3 DEF AddLineItem, EventOf
  <2> QED
    BY <2>1, <2>2 DEF Line, Lines
<1>4. CASE c \in FinalizeQuote
  BY <1>4 DEF FinalizeQuote, EventOf
<1> QED
  BY <1>1, <1>2, <1>3, <1>4

(* Two commands with the same event are the same command. *)
LEMMA EventsDistinguish ==
  ASSUME NEW c \in Commands, NEW d \in Commands, EventOf(c) = EventOf(d)
  PROVE  c = d
<1>1. c \in CreateQuote \cup AddLineItem \cup FinalizeQuote
  BY CommandsAssumption
<1>2. d \in CreateQuote \cup AddLineItem \cup FinalizeQuote
  BY CommandsAssumption
<1>3. EventOf(c).kind = EventOf(d).kind
  OBVIOUS
<1>4. c.kind = d.kind
  BY <1>3, EventsOfCommands
<1>5. CASE c.kind = "CreateQuote"
  <2>1. c \in CreateQuote /\ d \in CreateQuote
    BY <1>1, <1>2, <1>4, <1>5 DEF CreateQuote, AddLineItem, FinalizeQuote
  <2>2. c.currency_code = d.currency_code /\ c.jurisdiction_id = d.jurisdiction_id
    BY <1>4, <1>5, EventsOfCommands
  <2> QED
    BY <1>4, <2>1, <2>2 DEF CreateQuote
<1>6. CASE c.kind = "AddLineItem"
  <2>1. c \in AddLineItem /\ d \in AddLineItem
    BY <1>1, <1>2, <1>4, <1>6 DEF CreateQuote, AddLineItem, FinalizeQuote
  <2>2. /\ c.line_id = d.line_id /\ c.sku = d.sku
        /\ c.quantity = d.quantity /\ c.unit_minor = d.unit_minor
    BY <1>4, <1>6, EventsOfCommands
  <2> QED
    BY <1>4, <2>1, <2>2 DEF AddLineItem
<1>7. CASE c.kind = "FinalizeQuote"
  <2>1. c \in FinalizeQuote /\ d \in FinalizeQuote
    BY <1>1, <1>2, <1>4, <1>7 DEF CreateQuote, AddLineItem, FinalizeQuote
  <2>2. c = [kind |-> c.kind] /\ d = [kind |-> d.kind]
    BY <2>1 DEF FinalizeQuote
  <2> QED
    BY <1>4, <2>2
<1> QED
  BY <1>5, <1>6, <1>7, EventsOfCommands

(* An accepted command's event reduces, on the quote that accepted it, to  *)
(* a quote whose totals fit; only a quote that is not finalized accepts.   *)
LEMMA AcceptedReduces ==
  ASSUME NEW quote \in QuoteStates, TotalsFit(quote), quote.finalized => IsCreated(quote),
         NEW c \in Commands, CommandError(quote, c) = "Ok"
  PROVE  LET next == Reduced(quote, EventOf(c))
         IN  /\ ReduceError(quote, EventOf(c)) = "Ok"
             /\ next \in QuoteStates
             /\ TotalsFit(next)
             /\ next.finalized => IsCreated(next)
             /\ ~quote.finalized
             /\ EventOf(c).kind = "QuoteFinalized" => next.finalized
<1> DEFINE next == Reduced(quote, EventOf(c))
<1>1. quote = [currency_code |-> quote.currency_code,
               jurisdiction_id |-> quote.jurisdiction_id,
               finalized |-> quote.finalized, lines |-> quote.lines]
  BY DEF QuoteStates
<1>2. /\ quote.currency_code \in Strings \cup {NoString}
      /\ quote.jurisdiction_id \in Strings \cup {NoString}
      /\ quote.finalized \in BOOLEAN /\ quote.lines \in Seq(Lines)
  BY DEF QuoteStates
<1>3. CASE c.kind = "CreateQuote"
  <2>1. ~IsCreated(quote)
    BY <1>3 DEF CommandError, CreateError
  <2>2. next = [currency_code |-> c.currency_code, jurisdiction_id |-> c.jurisdiction_id,
                finalized |-> FALSE, lines |-> <<>>]
    <3> DEFINE e == EventOf(c)
    <3>1. /\ e.kind = "QuoteCreated" /\ e.currency_code = c.currency_code
          /\ e.jurisdiction_id = c.jurisdiction_id
      BY <1>3, EventsOfCommands
    <3>2. quote.finalized = FALSE
      BY <1>2, <2>1
    <3> HIDE DEF e
    <3>3. Reduced(quote, e) = [quote EXCEPT !.currency_code = e.currency_code,
                                            !.jurisdiction_id = e.jurisdiction_id,
                                            !.lines = <<>>]
      BY <3>1 DEF Reduced
    <3> QED
      BY <1>1, <3>1, <3>2, <3>3 DEF e
  <2>3. TotalsFit(next)
    BY <2>2, TotalsOfNone
  <2>4. next \in QuoteStates
    BY <1>3, <2>2, EventsOfCommands DEF QuoteStates
  <2>5. ReduceError(quote, EventOf(c)) = "Ok" /\ EventOf(c).kind # "QuoteFinalized"
    BY <1>3, <2>1, EventsOfCommands DEF ReduceError
  <2> QED
    BY <2>1, <2>2, <2>3, <2>4, <2>5
<1>4. CASE c.kind = "AddLineItem"
  <2>1. IsCreated(quote) /\ ~quote.finalized /\ AddLineError(quote, c) = "Ok"
    BY <1>4 DEF CommandError
  <2>2. ~HasLine(quote, c.line_id) /\ ~Overflows(quote, c)
    BY <2>1 DEF AddLineError
  <2>3. next = WithLine(quote, c)
    BY <1>4, EventsOfCommands DEF Reduced, WithLine
  <2>4. next = [quote EXCEPT !.lines = Append(quote.lines, Line(c))]
    BY <2>3 DEF WithLine
  <2>5. next = [currency_code |-> quote.currency_code,
                jurisdiction_id |-> quote.jurisdiction_id,
                finalized |-> quote.finalized, lines |-> Append(quote.lines, Line(c))]
    BY <1>1, <2>4
  <2>6. Append(quote.lines, Line(c)) \in Seq(Lines)
    BY <1>2, <1>4, EventsOfCommands
  <2>7. next \in QuoteStates
    BY <1>2, <2>5, <2>6 DEF QuoteStates
  <2>8. TotalsFit(next)
    BY <2>2, <2>3 DEF Overflows
  <2>9. ReduceError(quote, EventOf(c)) = "Ok" /\ EventOf(c).kind # "QuoteFinalized"
    BY <1>4, <2>1, <2>2, EventsOfCommands DEF ReduceError
  <2> QED
    BY <2>1, <2>5, <2>7, <2>8, <2>9 DEF IsCreated
<1>5. CASE c.kind = "FinalizeQuote"
  <2>1. IsCreated(quote) /\ ~quote.finalized
    BY <1>5 DEF CommandError
  <2>2. next = [quote EXCEPT !.finalized = TRUE]
    BY <1>5, EventsOfCommands DEF Reduced
  <2>3. next = [currency_code |-> quote.currency_code,
                jurisdiction_id |-> quote.jurisdiction_id,
                finalized |-> TRUE, lines |-> quote.lines]
    BY <1>1, <2>2
  <2>4. next \in QuoteStates
    BY <1>2, <2>3 DEF QuoteStates
  <2>5. TotalsFit(next)
    <3>1. Subtotal(next.lines) = Subtotal(quote.lines) /\ Tax(next) = Tax(quote)
          /\ Total(next) = Total(quote)
      BY <2>3 DEF Tax, Total, TaxRateBps
    <3> QED
      BY <2>3, <3>1 DEF TotalsFit
  <2>6. ReduceError(quote, EventOf(c)) = "Ok"
    BY <1>5, <2>1, EventsOfCommands DEF ReduceError
  <2> QED
    BY <2>1, <2>3, <2>4, <2>5, <2>6 DEF IsCreated
<1> QED
  BY <1>3, <1>4, <1>5, EventsOfCommands

-----------------------------------------------------------------------------
(* Every step keeps the invariant *)

LEMMA DomainInit == StoreInit => DomainInv
<1> SUFFICES ASSUME StoreInit, NEW q \in QuoteIds
             PROVE  /\ \A n \in 0 .. HeadSeq(q) : GoodPrefix(q, n)
                    /\ \A s \in DOMAIN events[q] : AcceptedRow(q, s)
                    /\ OneRowPerKey(q)
  BY DEF DomainInv
<1>1. DOMAIN events[q] = {} /\ DOMAIN idempotency_keys[q] = {}
  BY DEF StoreInit
<1>2. HeadSeq(q) = 0
  <2>1. DOMAIN events[q] = 1 .. 0
    BY <1>1
  <2> QED
    BY <2>1, HeadOfRows DEF HeadSeq
<1>3. GoodPrefix(q, 0)
  <2>1. DOMAIN Between(q, 0, 0) = {}
    BY <1>1 DEF Between
  <2>2. ReplayAt(q, 0) = AtStart
    BY <2>1, ReplayOfNone DEF ReplayAt
  <2>3. Default \in QuoteStates
    BY DEF Default, QuoteStates
  <2>4. TotalsFit(Default)
    BY TotalsOfNone DEF Default
  <2>5. ~Default.finalized
    BY DEF Default
  <2> QED
    BY <2>2, <2>3, <2>4, <2>5 DEF GoodPrefix, AtStart
<1>4. OneRowPerKey(q)
  BY <1>1 DEF OneRowPerKey
<1> QED
  BY <1>1, <1>2, <1>3, <1>4

(* The domain's verdict depends on all rows of the quote when the key is   *)
(* new, and on those before the key's row when it is not.                  *)
LEMMA DomainErrorOfNew ==
  ASSUME NEW q \in QuoteIds, NEW k, NEW c, NEW n \in Nat, DOMAIN events[q] = 1 .. n,
         k \notin DOMAIN idempotency_keys[q], ReplayAt(q, n).error = "Ok"
  PROVE  DomainError(q, k, c) = CommandError(ReplayAt(q, n).quote, c)
<1>1. /\ DOMAIN Between(q, 0, n) = 1 .. n
      /\ \A s \in 1 .. n : Between(q, 0, n)[s] = events[q][s]
  BY DEF Between
<1>2. Replay(events[q]) = ReplayAt(q, n)
  BY <1>1, ReplayOfSame DEF ReplayAt
<1> QED
  BY <1>2 DEF DomainError, RowsBefore, IsKeyed

(* A step that writes commits the event of a command that the quote, as it *)
(* is, accepts.                                                            *)
LEMMA AppendCases ==
  ASSUME StoreInv, DomainInv, AppendNext \/ UNCHANGED storeVars
  PROVE  \/ \E q \in QuoteIds, k \in CommandIds, c \in Commands, n \in Nat :
              /\ DOMAIN events[q] = 1 .. n
              /\ CommandError(ReplayAt(q, n).quote, c) = "Ok"
              /\ OthersKept(q)
              /\ RowsAdded(q, <<EventOf(c)>>, n)
              /\ KeyAdded(q, k, <<EventOf(c)>>, n)
         \/ UNCHANGED storeVars
<1> SUFFICES ASSUME AppendNext, ~(UNCHANGED storeVars)
             PROVE  \E q \in QuoteIds, k \in CommandIds, c \in Commands, n \in Nat :
                       /\ DOMAIN events[q] = 1 .. n
                       /\ CommandError(ReplayAt(q, n).quote, c) = "Ok"
                       /\ OthersKept(q)
                       /\ RowsAdded(q, <<EventOf(c)>>, n)
                       /\ KeyAdded(q, k, <<EventOf(c)>>, n)
  OBVIOUS
<1>1. PICK r \in ValidRequests : RunAppend(r, ErrorOn(r))
  BY DEF AppendNext
<1> DEFINE q == r.quote_id
           k == r.client_command_id
           c == r.command
<1>2. q \in QuoteIds /\ k \in CommandIds /\ c \in Commands
  BY DEF ValidRequests
<1>3. /\ ErrorOn(r) = "Ok"
      /\ AppendVerdict(q, k, CommandToEvents(c)) = "committed"
      /\ CommitBatch(q, k, CommandToEvents(c))
  BY <1>1 DEF RunAppend, AppendCommandEvents
<1>4. <<EventOf(c)>> \in EventLists
  BY <1>2, PayloadsAssumption DEF QuoteEvents
<1>5. StoreTypeOK
  BY DEF StoreInv
<1>6. PICK n \in Nat : DOMAIN events[q] = 1 .. n
  BY <1>2 DEF StoreInv, GaplessRows
<1>7. OthersKept(q) /\ RowsAdded(q, <<EventOf(c)>>, n) /\ KeyAdded(q, k, <<EventOf(c)>>, n)
  BY <1>2, <1>3, <1>4, <1>5, <1>6, CommitTables DEF CommandToEvents
<1>8. HeadSeq(q) = n
  BY <1>6, HeadOfRows DEF HeadSeq
<1>9. ReplayAt(q, n).error = "Ok"
  BY <1>2, <1>8 DEF DomainInv, GoodPrefix
<1>10. CommandError(ReplayAt(q, n).quote, c) = "Ok"
  BY <1>2, <1>3, <1>6, <1>7, <1>9, DomainErrorOfNew DEF ErrorOn, KeyAdded
<1> QED
  BY <1>2, <1>6, <1>7, <1>10

(* What a commit does to the replays of its quote. *)
LEMMA CommitReplays ==
  ASSUME NEW q \in QuoteIds, NEW c \in Commands, NEW n \in Nat,
         DOMAIN events[q] = 1 .. n, RowsAdded(q, <<EventOf(c)>>, n)
  PROVE  /\ DOMAIN events'[q] = 1 .. n + 1
         /\ events'[q][n + 1] = EventOf(c)
         /\ \A i \in 0 .. n : ReplayAt(q, i)' = ReplayAt(q, i)
         /\ ReplayAt(q, n + 1)' = Stepped(ReplayAt(q, n), EventOf(c))
<1>1. /\ DOMAIN events'[q] = 1 .. n + 1
      /\ \A s \in 1 .. n : events'[q][s] = events[q][s]
      /\ events'[q][n + 1] = EventOf(c)
  BY DEF RowsAdded
<1>2. ASSUME NEW i \in 0 .. n PROVE Between(q, 0, i)' = Between(q, 0, i)
  <2>1. {t \in DOMAIN events[q] : 0 < t /\ t <= i} = 1 .. i
    OBVIOUS
  <2>2. {t \in DOMAIN events'[q] : 0 < t /\ t <= i} = 1 .. i
    BY <1>1
  <2>3. \A s \in 1 .. i : events'[q][s] = events[q][s]
    BY <1>1
  <2> QED
    BY <2>1, <2>2, <2>3 DEF Between
<1>3. \A i \in 0 .. n : ReplayAt(q, i)' = ReplayAt(q, i)
  BY <1>2 DEF ReplayAt
<1> DEFINE rows == [s \in {t \in DOMAIN events'[q] : 0 < t /\ t <= n + 1} |-> events'[q][s]]
           old  == Between(q, 0, n)
<1>4. /\ DOMAIN rows = 1 .. n + 1 /\ DOMAIN old = 1 .. n
      /\ \A s \in 1 .. n : old[s] = rows[s]
      /\ rows[n + 1] = EventOf(c)
  BY <1>1 DEF Between
<1>5. Replay(rows) = Stepped(Replay(old), rows[n + 1])
  <2> HIDE DEF rows, old
  <2> QED
    BY <1>4, ReplayOfMore
<1>6. ReplayAt(q, n + 1)' = Replay(rows)
  BY DEF ReplayAt, Between
<1> QED
  BY <1>1, <1>3, <1>4, <1>5, <1>6 DEF ReplayAt

LEMMA DomainUnchanged == DomainInv /\ UNCHANGED storeVars => DomainInv'
  BY DEF DomainInv, GoodPrefix, AcceptedRow, OneRowPerKey, ReplayAt, Between, HeadSeq, storeVars

LEMMA DomainCommit ==
  ASSUME DomainInv,
         NEW q \in QuoteIds, NEW k \in CommandIds, NEW c \in Commands, NEW n \in Nat,
         DOMAIN events[q] = 1 .. n,
         CommandError(ReplayAt(q, n).quote, c) = "Ok",
         OthersKept(q), RowsAdded(q, <<EventOf(c)>>, n), KeyAdded(q, k, <<EventOf(c)>>, n)
  PROVE  DomainInv'
<1> DEFINE before == ReplayAt(q, n)
           next   == Reduced(before.quote, EventOf(c))
<1>1. /\ DOMAIN events'[q] = 1 .. n + 1
      /\ \A s \in 1 .. n : events'[q][s] = events[q][s]
      /\ events'[q][n + 1] = EventOf(c)
      /\ \A i \in 0 .. n : ReplayAt(q, i)' = ReplayAt(q, i)
      /\ ReplayAt(q, n + 1)' = Stepped(before, EventOf(c))
  <2>1. \A s \in 1 .. n : events'[q][s] = events[q][s]
    BY DEF RowsAdded
  <2> QED
    BY <2>1, CommitReplays
<1>2. HeadSeq(q) = n /\ HeadSeq(q)' = n + 1
  BY <1>1, HeadOfRows DEF HeadSeq
<1>3. \A i \in 0 .. n : GoodPrefix(q, i)
  BY <1>2 DEF DomainInv
<1>4. \A i \in 0 .. n : GoodPrefix(q, i)'
  <2> SUFFICES ASSUME NEW i \in 0 .. n PROVE GoodPrefix(q, i)'
    OBVIOUS
  <2>1. GoodPrefix(q, i) /\ ReplayAt(q, i)' = ReplayAt(q, i)
    BY <1>1, <1>3
  <2>2. \A s \in 1 .. i : events'[q][s] = events[q][s]
    BY <1>1
  <2> QED
    BY <2>1, <2>2 DEF GoodPrefix
<1>5. /\ before \in [error : {"Ok"}, quote : QuoteStates]
      /\ TotalsFit(before.quote)
      /\ before.quote.finalized => IsCreated(before.quote)
      /\ \A s \in 1 .. n : events[q][s].kind = "QuoteFinalized" => before.quote.finalized
  BY <1>3 DEF GoodPrefix
<1>6. /\ before.quote \in QuoteStates /\ before.error = "Ok"
      /\ CommandError(before.quote, c) = "Ok"
  BY <1>5
<1>7. /\ ReduceError(before.quote, EventOf(c)) = "Ok"
      /\ next \in QuoteStates
      /\ TotalsFit(next)
      /\ next.finalized => IsCreated(next)
      /\ ~before.quote.finalized
      /\ EventOf(c).kind = "QuoteFinalized" => next.finalized
  <2> HIDE DEF before
  <2> QED
    BY <1>5, <1>6, AcceptedReduces
<1>8. ReplayAt(q, n + 1)' = [error |-> "Ok", quote |-> next]
  <2>1. Stepped(before, EventOf(c)) = [before EXCEPT !.quote = next]
    <3> HIDE DEF before
    <3> QED
      BY <1>6, <1>7 DEF Stepped
  <2>2. before = [error |-> "Ok", quote |-> before.quote]
    <3> HIDE DEF before
    <3> QED
      BY <1>5
  <2> HIDE DEF before, next
  <2> QED
    BY <1>1, <2>1, <2>2
<1>9. GoodPrefix(q, n + 1)'
  <2>1. \A s \in 1 .. n + 1 : events'[q][s].kind = "QuoteFinalized" => next.finalized
    <3> SUFFICES ASSUME NEW s \in 1 .. n + 1, events'[q][s].kind = "QuoteFinalized"
                 PROVE  next.finalized
      OBVIOUS
    <3>1. s \notin 1 .. n
      BY <1>1, <1>5, <1>7
    <3> QED
      BY <1>1, <1>7, <3>1
  <2> HIDE DEF next
  <2> QED
    BY <1>7, <1>8, <2>1 DEF GoodPrefix
<1>10. \A s \in 1 .. n + 1 : AcceptedRow(q, s)'
  <2> SUFFICES ASSUME NEW s \in 1 .. n + 1 PROVE AcceptedRow(q, s)'
    OBVIOUS
  <2>1. ReplayAt(q, s - 1)' = ReplayAt(q, s - 1)
    BY <1>1
  <2>2. CASE s = n + 1
    BY <1>1, <2>1, <2>2 DEF AcceptedRow
  <2>3. CASE s \in 1 .. n
    <3>1. AcceptedRow(q, s) /\ events'[q][s] = events[q][s]
      BY <1>1, <2>3 DEF DomainInv
    <3> QED
      BY <2>1, <3>1 DEF AcceptedRow
  <2> QED
    BY <2>2, <2>3
<1>11. OneRowPerKey(q)'
  <2>1. OneRowPerKey(q)
    BY DEF DomainInv
  <2>2. Len(<<EventOf(c)>>) = 1
    OBVIOUS
  <2> QED
    BY <2>1, <2>2 DEF OneRowPerKey, KeyAdded
<1>12. ASSUME NEW r \in QuoteIds, r # q
       PROVE  /\ \A i \in 0 .. HeadSeq(r)' : GoodPrefix(r, i)'
              /\ \A s \in DOMAIN events'[r] : AcceptedRow(r, s)'
              /\ OneRowPerKey(r)'
  <2>1. events'[r] = events[r] /\ idempotency_keys'[r] = idempotency_keys[r]
    BY <1>12 DEF OthersKept
  <2>2. \A i : ReplayAt(r, i)' = ReplayAt(r, i)
    BY <2>1 DEF ReplayAt, Between
  <2>3. HeadSeq(r)' = HeadSeq(r)
    BY <2>1 DEF HeadSeq
  <2> QED
    BY <2>1, <2>2, <2>3 DEF DomainInv, GoodPrefix, AcceptedRow, OneRowPerKey
<1>13. \A i \in 0 .. HeadSeq(q)' : GoodPrefix(q, i)'
  <2> SUFFICES ASSUME NEW i \in 0 .. n + 1 PROVE GoodPrefix(q, i)'
    BY <1>2
  <2>1. i \in 0 .. n \/ i = n + 1
    OBVIOUS
  <2> QED
    BY <1>4, <1>9, <2>1
<1>14. \A s \in DOMAIN events'[q] : AcceptedRow(q, s)'
  BY <1>1, <1>10
<1> QED
  BY <1>11, <1>12, <1>13, <1>14 DEF DomainInv

LEMMA DomainNext == StoreInv /\ DomainInv /\ [AppendNext]_storeVars => DomainInv'
<1> SUFFICES ASSUME StoreInv, DomainInv, AppendNext \/ UNCHANGED storeVars PROVE DomainInv'
  OBVIOUS
<1> QED
  BY AppendCases, DomainCommit, DomainUnchanged

(* What append_one does to the tables is a step of the store. *)
LEMMA AppendIsStoreStep == [AppendNext]_storeVars => [StoreNext]_storeVars
<1> SUFFICES ASSUME NEW r \in ValidRequests, RunAppend(r, ErrorOn(r)), ~(UNCHANGED storeVars)
             PROVE  StoreNext
  BY DEF AppendNext
<1>1. /\ r.quote_id \in QuoteIds /\ r.client_command_id \in CommandIds
      /\ r.command \in Commands
  BY DEF ValidRequests
<1>2. CommandToEvents(r.command) \in EventLists
  BY <1>1, PayloadsAssumption DEF QuoteEvents, CommandToEvents
<1>3. AppendCommandEvents(r.quote_id, r.client_command_id, CommandToEvents(r.command))
  BY DEF RunAppend
<1> QED
  BY <1>1, <1>2, <1>3 DEF StoreNext

LEMMA AppendInvariant == AppendSpec => [](StoreInv /\ DomainInv)
<1>1. StoreInit => StoreInv /\ DomainInv
  BY InvInit, DomainInit
<1>2. StoreInv /\ DomainInv /\ [AppendNext]_storeVars => StoreInv' /\ DomainInv'
  BY InvNext, DomainNext, AppendIsStoreStep
<1> QED
  BY <1>1, <1>2, PTL DEF AppendSpec

-----------------------------------------------------------------------------
(* Theorems *)

(* append_one does to the tables what the store allows, so the store's     *)
(* theorems (EventStoreProofs) are about append_one too.                   *)
THEOREM AppendOneImplementsStore == AppendSpec => StoreSpec
  BY AppendIsStoreStep, PTL DEF AppendSpec, StoreSpec

(* Whatever commands are sent, every prefix of every log replays without   *)
(* an error and its totals fit an i64, so append_one and subscribe_quote   *)
(* never refuse a quote for what it has stored (ledger.rs:224, 237,        *)
(* domain/model.rs).                                                       *)
THEOREM LogsAlwaysHaveAView == AppendSpec => []EveryPrefixHasAView
<1>1. DomainInv => EveryPrefixHasAView
  BY DEF DomainInv, GoodPrefix, ReplayAt, EveryPrefixHasAView
<1> QED
  BY <1>1, AppendInvariant, PTL

(* A finalized quote gets no further row. *)
THEOREM FinalizedStaysFrozen == AppendSpec => FinalizedIsFrozen
<1> DEFINE Frozen ==
      \A q \in QuoteIds :
        (\E s \in DOMAIN events[q] : events[q][s].kind = "QuoteFinalized")
          => events'[q] = events[q]
<1>1. StoreInv /\ DomainInv /\ [AppendNext]_storeVars => [Frozen]_storeVars
  <2> SUFFICES ASSUME StoreInv, DomainInv, AppendNext \/ UNCHANGED storeVars,
                      ~(UNCHANGED storeVars)
               PROVE  Frozen
    OBVIOUS
  <2>1. PICK q \in QuoteIds, k \in CommandIds, c \in Commands, n \in Nat :
          /\ DOMAIN events[q] = 1 .. n
          /\ CommandError(ReplayAt(q, n).quote, c) = "Ok"
          /\ OthersKept(q)
    BY AppendCases
  <2>2. HeadSeq(q) = n
    BY <2>1, HeadOfRows DEF HeadSeq
  <2>3. GoodPrefix(q, n)
    BY <2>2 DEF DomainInv
  <2> DEFINE quote == ReplayAt(q, n).quote
  <2>4. /\ quote \in QuoteStates /\ TotalsFit(quote)
        /\ quote.finalized => IsCreated(quote)
        /\ \A s \in 1 .. n : events[q][s].kind = "QuoteFinalized" => quote.finalized
        /\ CommandError(quote, c) = "Ok"
    BY <2>1, <2>3 DEF GoodPrefix
  <2>5. ~quote.finalized
    <3> HIDE DEF quote
    <3> QED
      BY <2>4, AcceptedReduces
  <2>6. ~ \E s \in DOMAIN events[q] : events[q][s].kind = "QuoteFinalized"
    BY <2>1, <2>4, <2>5
  <2> QED
    BY <2>1, <2>6 DEF OthersKept
<1> QED
  BY <1>1, AppendInvariant, PTL DEF AppendSpec, FinalizedIsFrozen

(* The row that a key stands for, and what its command is judged on when   *)
(* it comes again.                                                         *)
LEMMA RowOfKey ==
  ASSUME StoreInv, DomainInv, NEW q \in QuoteIds, NEW k \in DOMAIN idempotency_keys[q]
  PROVE  LET s == idempotency_keys[q][k].first_seq
         IN  /\ s \in DOMAIN events[q] /\ s \in Nat \ {0}
             /\ idempotency_keys[q][k].last_seq = s
             /\ RowsBefore(q, k) = Between(q, 0, s - 1)
             /\ ReplayAt(q, s - 1).error = "Ok"
             /\ \A c \in Commands :
                  SamePayloads(q, k, CommandToEvents(c)) <=> EventOf(c) = events[q][s]
<1> DEFINE s == idempotency_keys[q][k].first_seq
<1>1. PICK n \in Nat : DOMAIN events[q] = 1 .. n
  BY DEF StoreInv, GaplessRows
<1>2. idempotency_keys[q][k] \in [first_seq : Seqs, last_seq : Seqs]
  BY DEF StoreInv, StoreTypeOK
<1>3. idempotency_keys[q][k].last_seq = s
  BY DEF DomainInv, OneRowPerKey
<1>4. s \in Nat \ {0}
  BY <1>2 DEF Seqs
<1>5. s \in DOMAIN events[q]
  <2>1. Covered(q, k) = s .. s
    BY <1>3 DEF Covered
  <2>2. s \in Covered(q, k)
    BY <1>4, <2>1
  <2> QED
    BY <2>2 DEF StoreInv, KeysPartitionTheLog
<1>6. HeadSeq(q) = n
  BY <1>1, HeadOfRows DEF HeadSeq
<1>7. s - 1 \in 0 .. n
  BY <1>1, <1>4, <1>5
<1>8. ReplayAt(q, s - 1).error = "Ok"
  BY <1>6, <1>7 DEF DomainInv, GoodPrefix
<1>9. RowsBefore(q, k) = Between(q, 0, s - 1)
  BY DEF RowsBefore, IsKeyed
<1>10. ASSUME NEW c \in Commands
       PROVE  SamePayloads(q, k, CommandToEvents(c)) <=> EventOf(c) = events[q][s]
  <2> DEFINE stored == InRange(q, idempotency_keys[q][k])
             sent   == Numbered(s, <<EventOf(c)>>)
  <2>1. stored = [t \in {s} |-> events[q][t]]
    <3>1. {t \in DOMAIN events[q] : s - 1 < t /\ t <= s} = {s}
      BY <1>1, <1>4, <1>5
    <3> QED
      BY <1>3, <3>1 DEF InRange, Between
  <2>2. sent = [t \in {s} |-> EventOf(c)]
    <3>1. s .. s + Len(<<EventOf(c)>>) - 1 = {s}
      BY <1>4
    <3>2. <<EventOf(c)>>[s - s + 1] = EventOf(c)
      BY <1>4
    <3> HIDE DEF s
    <3> QED
      BY <3>1, <3>2 DEF Numbered
  <2>3. stored = sent <=> EventOf(c) = events[q][s]
    <3>1. stored[s] = events[q][s] /\ sent[s] = EventOf(c)
      BY <2>1, <2>2
    <3> HIDE DEF stored, sent, s
    <3> QED
      BY <2>1, <2>2, <3>1
  <2> QED
    BY <2>3 DEF SamePayloads, CommandToEvents
<1> QED
  BY <1>3, <1>4, <1>5, <1>8, <1>9, <1>10

(* A retry is answered with the rows its command committed, however long   *)
(* after and whatever else was committed since (ledger.rs:215-234).        *)
THEOREM RetriesAreAnswered == AppendSpec => []RetryReturnsTheCommit
<1>1. StoreInv /\ DomainInv => RetryReturnsTheCommit
  <2> SUFFICES ASSUME StoreInv, DomainInv,
                      NEW q \in QuoteIds, NEW k \in DOMAIN idempotency_keys[q],
                      NEW c \in Commands,
                      EventOf(c) = events[q][idempotency_keys[q][k].first_seq]
               PROVE  Verdict(q, k, c) = "replayed"
    BY DEF RetryReturnsTheCommit, CommandToEvents
  <2> DEFINE s == idempotency_keys[q][k].first_seq
  <2>1. /\ s \in DOMAIN events[q]
        /\ RowsBefore(q, k) = Between(q, 0, s - 1)
        /\ ReplayAt(q, s - 1).error = "Ok"
        /\ SamePayloads(q, k, CommandToEvents(c))
    BY RowOfKey
  <2>2. PICK d \in Commands : /\ events[q][s] = EventOf(d)
                              /\ CommandError(ReplayAt(q, s - 1).quote, d) = "Ok"
    BY <2>1 DEF DomainInv, AcceptedRow
  <2>3. d = c
    BY <2>2, EventsDistinguish
  <2>4. DomainError(q, k, c) = "Ok"
    BY <2>1, <2>2, <2>3 DEF DomainError, ReplayAt
  <2> QED
    BY <2>1, <2>4 DEF Verdict, Answer, AppendVerdict, IsKeyed
<1> QED
  BY <1>1, AppendInvariant, PTL

(* A client command id that is used again for another command is refused,  *)
(* by the domain or by the store (ledger.rs:215-234, store.rs:114-121).    *)
THEOREM ReusedIdsAreRefused == AppendSpec => []ReusedIdIsRefused
<1>1. StoreInv /\ DomainInv => ReusedIdIsRefused
  <2> SUFFICES ASSUME StoreInv, DomainInv,
                      NEW q \in QuoteIds, NEW k \in DOMAIN idempotency_keys[q],
                      NEW c \in Commands,
                      EventOf(c) # events[q][idempotency_keys[q][k].first_seq]
               PROVE  Verdict(q, k, c) \notin {"committed", "replayed"}
    BY DEF ReusedIdIsRefused, CommandToEvents, Accepted
  <2>1. /\ RowsBefore(q, k) = Between(q, 0, idempotency_keys[q][k].first_seq - 1)
        /\ ReplayAt(q, idempotency_keys[q][k].first_seq - 1).error = "Ok"
        /\ ~SamePayloads(q, k, CommandToEvents(c))
    BY RowOfKey
  <2> DEFINE quote == ReplayAt(q, idempotency_keys[q][k].first_seq - 1).quote
  <2>2. DomainError(q, k, c) = CommandError(quote, c)
    BY <2>1 DEF DomainError, ReplayAt
  <2>3. CommandError(quote, c) \notin {"committed", "replayed"}
    <3> HIDE DEF quote
    <3> QED
      BY DEF CommandError, CreateError, AddLineError, FinalizeError
  <2>4. AppendVerdict(q, k, CommandToEvents(c)) = "IdempotencyConflict"
    BY <2>1 DEF AppendVerdict, IsKeyed
  <2> QED
    BY <2>2, <2>3, <2>4 DEF Verdict, Answer
<1> QED
  BY <1>1, AppendInvariant, PTL
==============================================================================
