------------------------------- MODULE MCLedger -------------------------------
(* One quote and a short life: it is created, gets a line, and is          *)
(* finalized.  Requests are retried with the id they first had; one reuses *)
(* an id for another command.                                              *)
EXTENDS Ledger

CONSTANTS us, l1, blank, qa, qb, k1, k2, k3

Create == [kind |-> "CreateQuote", currency_code |-> l1, jurisdiction_id |-> us]
Add == [kind |-> "AddLineItem", line_id |-> l1, sku |-> l1, quantity |-> 2, unit_minor |-> 20]
Finalize == [kind |-> "FinalizeQuote"]

Request(q, k, command) == [quote_id |-> q, client_command_id |-> k, command |-> command]

MCStrings == {us, l1, blank}
MCCommands == {Create, Add, Finalize}
MCPayloads == {EventOf(c) : c \in MCCommands}
MCEventLists == {<<p>> : p \in MCPayloads}

One == {Request(qa, k1, Create)}
Two == {Request(qa, k1, Create), Request(qa, k2, Add)}
Three == Two \cup {Request(qa, k3, Finalize)}
Reuse == Two \cup {Request(qa, k1, Finalize)}
OneOrNone == One \cup {Request(qa, k1, blank)}
=============================================================================
