--------------------------------- MODULE Bus ---------------------------------
(***************************************************************************)
(* The subscription bus of LedgerInner (src/src/ledger.rs): for each quote *)
(* a tokio watch channel that holds the head last announced.  A watch      *)
(* channel keeps one value, not a queue: send_replace overwrites it and    *)
(* marks it changed for every receiver, whether or not it is greater or    *)
(* even different; changed() waits for the mark and takes it.              *)
(*                                                                         *)
(* The map is guarded by a mutex held for one operation at a time, so each *)
(* operation is one step.  Senders are never removed from the map.         *)
(***************************************************************************)
EXTENDS EventStore

CONSTANT Subscriptions  (* SubscribeQuote calls; each has one receiver      *)

NoSender == -1   (* the quote has no entry in the map                      *)
NoReceiver == [quote |-> "none", changed |-> FALSE]

VARIABLES
  bus,       (* bus[q]: the value of q's watch channel, or NoSender        *)
  rx_watch   (* rx_watch[s]: what subscription s listens to, and whether   *)
             (* its value is marked changed                                *)

busVars == <<bus, rx_watch>>

(* send_replace on the channel of q *)
Marked(q) ==
  [s \in Subscriptions |->
     IF rx_watch[s].quote = q THEN [rx_watch[s] EXCEPT !.changed = TRUE] ELSE rx_watch[s]]

(* publish_head: create the channel if need be, and send the head. *)
PublishNext(q, head) ==
  /\ bus' = [bus EXCEPT ![q] = head + 1]
  /\ rx_watch' = Marked(q)
PublishHead(q, head) ==
  /\ bus' = [bus EXCEPT ![q] = head]
  /\ rx_watch' = Marked(q)

(* subscribe: send the head the subscriber read, then take a receiver,     *)
(* for which the current value counts as seen.                             *)
RegisterReceiver(s, q, head) ==
  /\ bus' = [bus EXCEPT ![q] = head]
  /\ rx_watch' = [Marked(q) EXCEPT ![s] = [quote |-> q, changed |-> FALSE]]

(* changed().await returns, and the value is read: bus[q]. *)
TakeChange(s) ==
  /\ rx_watch[s].changed
  /\ rx_watch' = [rx_watch EXCEPT ![s].changed = FALSE]
  /\ UNCHANGED bus

DropReceiver(s) ==
  /\ rx_watch' = [rx_watch EXCEPT ![s] = NoReceiver]
  /\ UNCHANGED bus

BusInit ==
  /\ bus = [q \in QuoteIds |-> NoSender]
  /\ rx_watch = [s \in Subscriptions |-> NoReceiver]
=============================================================================
