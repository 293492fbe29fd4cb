-------------------------------- MODULE Quote --------------------------------
(***************************************************************************)
(* The quote domain (src/src/domain/model.rs) and its conversions          *)
(* (src/src/mapping.rs): commands, events, the state a log of events folds *)
(* to, the totals, and the gRPC status of each error.                      *)
(*                                                                         *)
(* Strings are abstract values: the code asks of a string whether it is    *)
(* blank, whether it names a US jurisdiction, and whether it equals        *)
(* another.  `sku` stands for the sku and the description of a line, two   *)
(* fields the code treats alike.  Money is bounded by MaxI64, a small      *)
(* number in the instances, as i64 bounds it in the code.                  *)
(***************************************************************************)
EXTENDS Integers, Sequences, FiniteSetsExt

CONSTANTS
  Strings,          (* field values                                        *)
  Blanks,           (* those that are empty after trim()                   *)
  USJurisdictions,  (* "US" and the strings that start with "US-"          *)
  Empty,            (* the empty string                                    *)
  NoString,         (* Option::None of a string field                      *)
  MaxI64,           (* i64::MAX                                            *)
  Commands          (* the commands clients send                           *)

I64 == -MaxI64 - 1 .. MaxI64

CreateQuote == [kind : {"CreateQuote"}, currency_code : Strings, jurisdiction_id : Strings]
AddLineItem == [kind : {"AddLineItem"}, line_id : Strings, sku : Strings,
                quantity : I64, unit_minor : I64]
FinalizeQuote == [kind : {"FinalizeQuote"}]

ASSUME StringsAssumption ==
  /\ Empty \in Blanks
  /\ Blanks \subseteq Strings
  /\ USJurisdictions \subseteq Strings \ Blanks
  /\ NoString \notin Strings
ASSUME MaxI64Assumption == MaxI64 \in Nat \ {0}
ASSUME CommandsAssumption == Commands \subseteq CreateQuote \cup AddLineItem \cup FinalizeQuote

-----------------------------------------------------------------------------
(* Quote state *)

Default == [currency_code |-> NoString, jurisdiction_id |-> NoString,
            finalized |-> FALSE, lines |-> <<>>]

IsCreated(quote) == quote.currency_code # NoString

HasLine(quote, line_id) == \E i \in DOMAIN quote.lines : quote.lines[i].line_id = line_id

Line(item) == [line_id |-> item.line_id, sku |-> item.sku,
               quantity |-> item.quantity, unit_minor |-> item.unit_minor]

WithLine(quote, item) == [quote EXCEPT !.lines = Append(@, Line(item))]

-----------------------------------------------------------------------------
(* Totals.  The code computes them in i128, where nothing overflows, and   *)
(* then requires that each fits an i64.                                    *)

FitsI64(n) == n \in I64

LineTotal(line) == line.quantity * line.unit_minor

Subtotal(lines) ==
  LET upto[i \in 0 .. Len(lines)] == IF i = 0 THEN 0 ELSE upto[i - 1] + LineTotal(lines[i])
  IN  upto[Len(lines)]

TaxRateBps(quote) == IF quote.jurisdiction_id \in USJurisdictions THEN 800 ELSE 0

(* i128 division truncates toward zero. *)
DividedBy(n, d) == IF n >= 0 THEN n \div d ELSE -((-n) \div d)

Tax(quote) == DividedBy(Subtotal(quote.lines) * TaxRateBps(quote), 10000)

Total(quote) == Subtotal(quote.lines) + Tax(quote)

(* subtotal_minor, tax_minor, total_minor and every line_total_minor are Ok. *)
TotalsFit(quote) ==
  /\ \A i \in DOMAIN quote.lines : FitsI64(LineTotal(quote.lines[i]))
  /\ FitsI64(Subtotal(quote.lines))
  /\ FitsI64(Tax(quote))
  /\ FitsI64(Total(quote))

-----------------------------------------------------------------------------
(* Events, and the reducer *)

EventOf(command) ==
  [command EXCEPT !.kind = CASE @ = "CreateQuote"   -> "QuoteCreated"
                             [] @ = "AddLineItem"   -> "LineItemAdded"
                             [] @ = "FinalizeQuote" -> "QuoteFinalized"]

QuoteEvents == {EventOf(c) : c \in Commands}

ReduceError(quote, event) ==
  IF event.kind = "QuoteCreated"
  THEN IF IsCreated(quote) THEN "QuoteAlreadyCreated" ELSE "Ok"
  ELSE IF ~IsCreated(quote) THEN "QuoteNotCreated"
  ELSE IF quote.finalized THEN "QuoteAlreadyFinalized"
  ELSE IF event.kind = "LineItemAdded" /\ HasLine(quote, event.line_id) THEN "DuplicateLineId"
  ELSE "Ok"

ReducedWithoutFinalizing(quote, event) ==
  CASE event.kind = "QuoteCreated" ->
         [quote EXCEPT !.currency_code = event.currency_code,
                       !.jurisdiction_id = event.jurisdiction_id, !.lines = <<>>]
    [] event.kind = "LineItemAdded"  -> WithLine(quote, event)
    [] event.kind = "QuoteFinalized" -> quote
Reduced(quote, event) ==
  CASE event.kind = "QuoteCreated" ->
         [quote EXCEPT !.currency_code = event.currency_code,
                       !.jurisdiction_id = event.jurisdiction_id, !.lines = <<>>]
    [] event.kind = "LineItemAdded"  -> WithLine(quote, event)
    [] event.kind = "QuoteFinalized" -> [quote EXCEPT !.finalized = TRUE]

(* replay_stored_to_state: the rows, a function of their sequence numbers, *)
(* reduced in the order of these; the first error ends the replay.         *)
Replay(rows) ==
  LET last == Max({0} \cup DOMAIN rows)
      After[s \in 0 .. last] ==
        IF s = 0 THEN [error |-> "Ok", quote |-> Default]
        ELSE LET before == After[s - 1]
                 error  == ReduceError(before.quote, rows[s])
             IN  IF s \notin DOMAIN rows \/ before.error # "Ok" THEN before
                 ELSE IF error # "Ok" THEN [before EXCEPT !.error = error]
                 ELSE [before EXCEPT !.quote = Reduced(@, rows[s])]
  IN  After[last]

-----------------------------------------------------------------------------
(* Commands *)

(* The quote with the new line has a total, with its tax, that fits. *)
OverflowsBeforeTax(quote, command) ==
  ~FitsI64(Subtotal(WithLine(quote, command).lines))
Overflows(quote, command) == ~TotalsFit(WithLine(quote, command))

(* The checks command_to_events makes before it emits the command's event. *)
CreateError(quote, command) ==
  IF IsCreated(quote) THEN "DuplicateCreateQuote"
  ELSE IF command.currency_code \in Blanks \/ command.jurisdiction_id \in Blanks
  THEN "InvalidField"
  ELSE "Ok"

AddLineError(quote, command) ==
  IF command.line_id \in Blanks \/ command.sku \in Blanks THEN "InvalidField"
  ELSE IF command.quantity <= 0 THEN "InvalidQuantity"
  ELSE IF command.unit_minor < 0 THEN "InvalidUnitMinor"
  ELSE IF HasLine(quote, command.line_id) THEN "DuplicateLineId"
  ELSE IF Overflows(quote, command) THEN "IntegerOverflow"
  ELSE "Ok"

FinalizeError(quote) ==
  IF quote.lines = <<>> THEN "CannotFinalizeWithoutLines" ELSE "Ok"

CommandError(quote, command) ==
  IF command.kind = "CreateQuote" THEN CreateError(quote, command)
  ELSE IF ~IsCreated(quote) THEN "QuoteNotCreated"
  ELSE IF quote.finalized THEN "QuoteAlreadyFinalized"
  ELSE IF command.kind = "AddLineItem" THEN AddLineError(quote, command)
  ELSE FinalizeError(quote)

(* The events of an accepted command. *)
CommandToEvents(command) == <<EventOf(command)>>

-----------------------------------------------------------------------------
(* quote_state_to_view, for a quote whose totals fit. *)

OrEmpty(string) == IF string = NoString THEN Empty ELSE string

ViewOf(quote) ==
  [currency_code   |-> OrEmpty(quote.currency_code),
   jurisdiction_id |-> OrEmpty(quote.jurisdiction_id),
   finalized       |-> quote.finalized,
   subtotal_minor  |-> Subtotal(quote.lines),
   tax_minor       |-> Tax(quote),
   total_minor     |-> Total(quote),
   line_items      |-> quote.lines]

(* domain_error_to_status and store_error_to_status; the last is Sqlite.   *)
StatusOf(error) ==
  CASE error = "Ok" -> "OK"
    [] error \in {"QuoteAlreadyCreated", "DuplicateCreateQuote", "QuoteNotCreated",
                  "QuoteAlreadyFinalized", "CannotFinalizeWithoutLines",
                  "IdempotencyConflict"} -> "FAILED_PRECONDITION"
    [] error \in {"InvalidField", "InvalidQuantity", "InvalidUnitMinor", "DuplicateLineId",
                  "InvalidAfterSeq", "EmptyAppend"} -> "INVALID_ARGUMENT"
    [] error = "IntegerOverflow" -> "OUT_OF_RANGE"
    [] error = "Corrupt" -> "DATA_LOSS"
    [] OTHER -> "INTERNAL"
=============================================================================
