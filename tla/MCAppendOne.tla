----------------------------- MODULE MCAppendOne -----------------------------
(* Commands chosen to meet every check of the domain on logs of five rows: *)
(* two jurisdictions, lines whose totals add up to the bound with and      *)
(* without the tax, a line beyond it, and invalid fields.                  *)
EXTENDS AppendOne

CONSTANTS us, elsewhere, l1, l2, blank

Create(jurisdiction) ==
  [kind |-> "CreateQuote", currency_code |-> l1, jurisdiction_id |-> jurisdiction]
Add(line, quantity, unit) ==
  [kind |-> "AddLineItem", line_id |-> line, sku |-> l1,
   quantity |-> quantity, unit_minor |-> unit]
Finalize == [kind |-> "FinalizeQuote"]

MCStrings == {us, elsewhere, l1, l2, blank}
MCCommands ==
  {Create(us), Create(elsewhere), Create(blank), Finalize,
   Add(l1, 2, 25), Add(l2, 1, 45), Add(l2, 2, 25), Add(l2, 3, 50), Add(l1, 0, 1),
   Add(l2, 1, 0), Add(l1, 1, -1), Add(blank, 1, 1)}
MCPayloads == {EventOf(c) : c \in MCCommands}
MCEventLists == {<<p>> : p \in MCPayloads}
MCRequests ==
  [quote_id : QuoteIds, client_command_id : CommandIds, command : MCCommands]
=============================================================================
