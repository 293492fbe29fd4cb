---------------------------- MODULE SubscribeQuote ----------------------------
(***************************************************************************)
(* The SubscribeQuote calls of the ledger service (src/src/ledger.rs), each *)
(* a handler that reads the quote and registers with the bus, then a       *)
(* spawned task (the pump) that fills a bounded channel the client reads:  *)
(*                                                                         *)
(*   idle      not called yet                                              *)
(*   init      the handler waits for the database                          *)
(*   register  ... for the lock of the bus                                 *)
(*   tail      the pump sends the catch-up tail, if there is one           *)
(*   snapshot  ... the snapshot                                            *)
(*   check     ... and compares the head of the bus with its watermark     *)
(*   load      it reads the rows above its watermark, with retries         *)
(*   push      it sends them                                               *)
(*   wait      it waits for the head to change                             *)
(*   fail      it sends its error                                          *)
(*   ended     the handler or the pump has returned                        *)
(*                                                                         *)
(* The client's side is in `client`: the rows it has received and the last *)
(* sequence number it has processed, with which it would reconnect.        *)
(***************************************************************************)
EXTENDS AppendOne, Bus

CONSTANTS
  AfterSeqs,     (* the after_seq values clients subscribe with            *)
  ChannelCap,    (* capacity of the mpsc channel (32)                      *)
  MaxAttempts,   (* SUBSCRIBE_DB_MAX_ATTEMPTS (8)                          *)
  ReadFaults     (* TRUE: reads of the database may fail                   *)

ASSUME AfterSeqsAssumption == AfterSeqs \subseteq Nat
ASSUME ChannelCapAssumption == ChannelCap \in Nat \ {0}
ASSUME MaxAttemptsAssumption == MaxAttempts \in Nat \ {0}
ASSUME ReadFaultsAssumption == ReadFaults \in BOOLEAN

VARIABLES
  pump,     (* pump[s]: the handler and the pump of subscription s         *)
  channel,  (* channel[s]: updates sent and not yet received               *)
  client    (* client[s]: the client's side                                *)

subVars == <<pump, channel, client>>

NoView == <<>>

(* upto is the head the pump is catching up with (head_now, head). *)
NewPump ==
  [pc |-> "idle", quote_id |-> "none", after |-> 0, last_seq |-> 0, view |-> NoView,
   chunk |-> <<>>, watermark |-> 0, upto |-> 0, attempt |-> 0]

NewClient ==
  [connected |-> FALSE, status |-> "none", after_seq |-> 0, cursor |-> 0, received |-> <<>>,
   snapshot |-> [last_seq |-> 0, view |-> NoView]]

(* Updates (QuoteUpdate), and the error that ends a stream *)
QuoteTail(from, rows) == [kind |-> "tail", from_seq_exclusive |-> from,
                          to_seq_inclusive |-> LastSeq(rows), events |-> rows]
QuoteSnapshot(last_seq, view) == [kind |-> "snapshot", last_seq |-> last_seq, view |-> view]
Failure(status) == [kind |-> "error", status |-> status]

-----------------------------------------------------------------------------
(* The handler *)

(* The call arrives with a valid quote id. *)
Subscribe(s, q, after) ==
  /\ pump[s].pc = "idle"
  /\ pump' = [pump EXCEPT ![s].pc = "init", ![s].quote_id = q, ![s].after = after]
  /\ client' = [client EXCEPT ![s].connected = TRUE,
                              ![s].after_seq = after, ![s].cursor = after]
  /\ UNCHANGED <<channel, storeVars, busVars>>

(* Handler or pump return: their locals are dropped, the receiver too. *)
Return(s) ==
  /\ pump' = [pump EXCEPT ![s] = [NewPump EXCEPT !.pc = "ended", !.quote_id = pump[s].quote_id]]
  /\ DropReceiver(s)

Reject(s, status) ==
  /\ Return(s)
  /\ client' = [client EXCEPT ![s].connected = FALSE, ![s].status = status]
  /\ UNCHANGED <<channel, storeVars>>

InitError(s) ==
  LET rows   == events[pump[s].quote_id]
      replay == Replay(rows)
  IN  IF pump[s].after > LastSeq(rows) THEN "InvalidAfterSeq"
      ELSE IF replay.error # "Ok" THEN replay.error
      ELSE IF ~TotalsFit(replay.quote) THEN "IntegerOverflow"
      ELSE "Ok"

(* The first read: the last sequence number, the view, and the rows above  *)
(* after_seq, under one lock of the connection.                            *)
ReadInit(s) ==
  LET q == pump[s].quote_id
  IN  /\ pump[s].pc = "init"
      /\ InitError(s) = "Ok"
      /\ pump' = [pump EXCEPT ![s].pc = "register", ![s].last_seq = HeadSeq(q),
                              ![s].view = ViewOf(Replay(events[q]).quote),
                              ![s].chunk = Between(q, pump[s].after, HeadSeq(q))]
      /\ UNCHANGED <<channel, client, storeVars, busVars>>

RejectInit(s) ==
  /\ pump[s].pc = "init"
  /\ InitError(s) # "Ok"
  /\ Reject(s, StatusOf(InitError(s)))

ReadInitFails(s) ==
  /\ ReadFaults
  /\ pump[s].pc = "init"
  /\ Reject(s, StatusOf("Sqlite"))

(* The handler announces the head it read, listens, and spawns the pump. *)
Register(s) ==
  /\ pump[s].pc = "register"
  /\ RegisterReceiver(s, pump[s].quote_id, pump[s].last_seq)
  /\ pump' = [pump EXCEPT ![s].pc = IF pump[s].chunk = <<>> THEN "snapshot" ELSE "tail"]
  /\ UNCHANGED <<channel, client, storeVars>>

-----------------------------------------------------------------------------
(* The pump.  Its sends wait for room in the channel, and fail when the    *)
(* client is gone.                                                         *)

SendUnbounded(s, update) ==
  /\ client[s].connected
  /\ channel' = [channel EXCEPT ![s] = Append(@, update)]
  /\ UNCHANGED <<client, storeVars>>
Send(s, update) ==
  /\ client[s].connected
  /\ Len(channel[s]) < ChannelCap
  /\ channel' = [channel EXCEPT ![s] = Append(@, update)]
  /\ UNCHANGED <<client, storeVars>>

SendCatchUp(s) ==
  /\ pump[s].pc = "tail"
  /\ Send(s, QuoteTail(pump[s].after, pump[s].chunk))
  /\ pump' = [pump EXCEPT ![s].pc = "snapshot", ![s].chunk = <<>>]
  /\ UNCHANGED busVars

SendSnapshotOfHead(s) ==
  /\ pump[s].pc = "snapshot"
  /\ Send(s, QuoteSnapshot(bus[pump[s].quote_id], pump[s].view))
  /\ pump' = [pump EXCEPT ![s].pc = "check", ![s].watermark = bus[pump[s].quote_id],
                          ![s].view = NoView]
  /\ UNCHANGED busVars
SendSnapshot(s) ==
  /\ pump[s].pc = "snapshot"
  /\ Send(s, QuoteSnapshot(pump[s].last_seq, pump[s].view))
  /\ pump' = [pump EXCEPT ![s].pc = "check", ![s].watermark = pump[s].last_seq,
                          ![s].view = NoView]
  /\ UNCHANGED busVars

(* Where the pump goes with the head it has read from the bus. *)
FollowOffByOne(s, head) ==
  pump' = [pump EXCEPT ![s] = IF head > @.watermark + 1
                              THEN [@ EXCEPT !.pc = "load", !.upto = head]
                              ELSE [@ EXCEPT !.pc = "wait"]]
Follow(s, head) ==
  pump' = [pump EXCEPT ![s] = IF head > @.watermark
                              THEN [@ EXCEPT !.pc = "load", !.upto = head]
                              ELSE [@ EXCEPT !.pc = "wait"]]

(* The head is read without taking the change mark. *)
CheckHead(s) ==
  /\ pump[s].pc = "check"
  /\ Follow(s, bus[pump[s].quote_id])
  /\ UNCHANGED <<channel, client, storeVars, busVars>>

Wake(s) ==
  /\ pump[s].pc = "wait"
  /\ TakeChange(s)
  /\ Follow(s, bus[pump[s].quote_id])
  /\ UNCHANGED <<channel, client, storeVars>>

(* subscribe_load_between.  A result without rows is not sent. *)
ReadTail(s) ==
  LET p == pump[s]
      rows == Between(p.quote_id, p.watermark, p.upto)
  IN  /\ p.pc = "load"
      /\ pump' = [pump EXCEPT ![s] =
                    IF rows = <<>>
                    THEN [@ EXCEPT !.pc = "wait", !.watermark = p.upto, !.upto = 0, !.attempt = 0]
                    ELSE [@ EXCEPT !.pc = "push", !.chunk = rows, !.attempt = 0]]
      /\ UNCHANGED <<channel, client, storeVars, busVars>>

SkipOnFailure(s) ==
  /\ ReadFaults
  /\ pump[s].pc = "load"
  /\ pump' = [pump EXCEPT ![s] =
                [@ EXCEPT !.pc = "wait", !.watermark = pump[s].upto, !.upto = 0]]
  /\ UNCHANGED <<channel, client, storeVars, busVars>>
ReadTailFails(s) ==
  /\ ReadFaults
  /\ pump[s].pc = "load"
  /\ pump' = [pump EXCEPT ![s] =
                IF @.attempt + 1 < MaxAttempts
                THEN [@ EXCEPT !.attempt = pump[s].attempt + 1]
                ELSE [@ EXCEPT !.pc = "fail", !.upto = 0, !.attempt = 0]]
  /\ UNCHANGED <<channel, client, storeVars, busVars>>

SendWithoutAdvancing(s) ==
  /\ pump[s].pc = "push"
  /\ Send(s, QuoteTail(pump[s].watermark, pump[s].chunk))
  /\ pump' = [pump EXCEPT ![s] = [@ EXCEPT !.pc = "wait", !.upto = 0, !.chunk = <<>>]]
  /\ UNCHANGED busVars
SendTail(s) ==
  /\ pump[s].pc = "push"
  /\ Send(s, QuoteTail(pump[s].watermark, pump[s].chunk))
  /\ pump' = [pump EXCEPT ![s] =
                [@ EXCEPT !.pc = "wait", !.watermark = pump[s].upto, !.upto = 0, !.chunk = <<>>]]
  /\ UNCHANGED busVars

SendError(s) ==
  /\ pump[s].pc = "fail"
  /\ Send(s, Failure(StatusOf("Sqlite")))
  /\ Return(s)

(* A send finds the client gone. *)
AbandonBeforeTails(s) ==
  /\ pump[s].pc \in {"tail", "snapshot", "fail"}
  /\ ~client[s].connected
  /\ Return(s)
  /\ UNCHANGED <<channel, client, storeVars>>
Abandon(s) ==
  /\ pump[s].pc \in {"tail", "snapshot", "push", "fail"}
  /\ ~client[s].connected
  /\ Return(s)
  /\ UNCHANGED <<channel, client, storeVars>>

-----------------------------------------------------------------------------
(* The client *)

(* The client processes the next update. *)
ClientReceives(s) ==
  LET update == Head(channel[s])
  IN  /\ client[s].connected
      /\ channel[s] # <<>>
      /\ channel' = [channel EXCEPT ![s] = Tail(@)]
      /\ client' = [client EXCEPT ![s] =
           CASE update.kind = "tail" ->
                  [@ EXCEPT !.received = Insert(client[s].received, update.events),
                            !.cursor = update.to_seq_inclusive]
             [] update.kind = "snapshot" ->
                  [@ EXCEPT !.cursor = update.last_seq,
                            !.snapshot = [last_seq |-> update.last_seq, view |-> update.view]]
             [] update.kind = "error" ->
                  [@ EXCEPT !.connected = FALSE, !.status = update.status]]
      /\ UNCHANGED <<pump, storeVars, busVars>>

(* The client goes away.  A handler is dropped at its await; a pump learns *)
(* of it when it next sends.                                               *)
Disconnect(s) ==
  /\ client[s].connected
  /\ client' = [client EXCEPT ![s].connected = FALSE, ![s].status = "CANCELLED"]
  /\ channel' = [channel EXCEPT ![s] = <<>>]
  /\ IF pump[s].pc \in {"init", "register"} THEN Return(s) ELSE UNCHANGED <<pump, busVars>>
  /\ UNCHANGED storeVars

-----------------------------------------------------------------------------
SubInit ==
  /\ pump = [s \in Subscriptions |-> NewPump]
  /\ channel = [s \in Subscriptions |-> <<>>]
  /\ client = [s \in Subscriptions |-> NewClient]

(* What the service does by itself. *)
PumpStep(s) ==
  \/ ReadInit(s) \/ RejectInit(s) \/ Register(s)
  \/ SendCatchUp(s) \/ SendSnapshot(s) \/ CheckHead(s) \/ Wake(s)
  \/ ReadTail(s) \/ SendTail(s) \/ SendError(s) \/ Abandon(s)

(* What faults and the client do, besides reading. *)
SubInput(s) ==
  \/ \E q \in QuoteIds, after \in AfterSeqs : Subscribe(s, q, after)
  \/ ReadInitFails(s) \/ ReadTailFails(s) \/ Disconnect(s)
=============================================================================
