------------------------------ MODULE QuoteLog ------------------------------
(***************************************************************************)
(* What the event store promises, without its tables: every quote has one  *)
(* log; a command adds its events to the end of it, all of them together;  *)
(* and it does so at most once for each client command id.                 *)
(*                                                                         *)
(* EventStore implements this specification (see QuoteLogImpl there).      *)
(***************************************************************************)
EXTENDS Integers, Sequences

CONSTANTS
  QuoteIds,    (* quotes                                                   *)
  CommandIds,  (* the client_command_ids clients choose                    *)
  EventLists   (* the lists of events one command may ask to append        *)

VARIABLE log   (* log[q]: sequence of entries [key, event]                 *)

(* The commands that have taken effect on quote q. *)
Applied(q) == {log[q][i].key : i \in DOMAIN log[q]}

(* The entries a command with id k adds for the events evs. *)
Batch(k, evs) == [i \in DOMAIN evs |-> [key |-> k, event |-> evs[i]]]

Init == log = [q \in QuoteIds |-> <<>>]

(* A command takes effect: its batch is added, and its id is new. *)
Apply(q, k, evs) ==
  /\ evs # <<>>
  /\ k \notin Applied(q)
  /\ log' = [log EXCEPT ![q] = @ \o Batch(k, evs)]

Next == \E q \in QuoteIds, k \in CommandIds, evs \in EventLists : Apply(q, k, evs)

Spec == Init /\ [][Next]_log
=============================================================================
