-------------------------------- MODULE Ledger --------------------------------
(***************************************************************************)
(* The ledger service: AppendCommands and SubscribeQuote calls that run    *)
(* concurrently over one database and one subscription bus                 *)
(* (LedgerInner, src/src/ledger.rs), and crashes of the process.           *)
(***************************************************************************)
EXTENDS AppendCommands, SubscribeQuote

vars == <<storeVars, busVars, callVars, subVars>>

Init == StoreInit /\ BusInit /\ CallInit /\ SubInit

(* The process stops: the tables are all that is left.  Calls that have    *)
(* not sent a message, and subscriptions that have not been made, may come *)
(* to another process.                                                     *)
ProcessStops ==
  /\ call' = [c \in Calls |-> IF call[c] = NewCall \/ call[c].pc = "done" THEN call[c]
                              ELSE Ended("UNAVAILABLE")]
  /\ in_flight_appends' = 0
  /\ bus' = [q \in QuoteIds |-> NoSender]
  /\ rx_watch' = [s \in Subscriptions |-> NoReceiver]
  /\ pump' = [s \in Subscriptions |->
                IF pump[s].pc = "idle" THEN NewPump
                ELSE [NewPump EXCEPT !.pc = "ended", !.quote_id = pump[s].quote_id]]
  /\ channel' = [s \in Subscriptions |-> <<>>]
  /\ client' = [s \in Subscriptions |-> IF client[s].connected
                                        THEN [client[s] EXCEPT !.connected = FALSE,
                                                               !.status = "UNAVAILABLE"]
                                        ELSE client[s]]
  /\ UNCHANGED storeVars

Crash == "crash" \in Faults /\ ProcessStops

CallActions(c) == (CallStep(c) \/ CallInput(c)) /\ UNCHANGED subVars

SubActions(s) == (PumpStep(s) \/ SubInput(s) \/ ClientReceives(s)) /\ UNCHANGED callVars

Next ==
  \/ \E c \in Calls : CallActions(c)
  \/ \E s \in Subscriptions : SubActions(s)
  \/ Crash

(* Fairness: blocking closures run, tasks that can run are polled, timers  *)
(* fire, and a connected client goes on reading its stream.                *)
Fairness ==
  /\ \A c \in Calls : WF_vars(CallStep(c) /\ UNCHANGED subVars)
  /\ \A s \in Subscriptions : /\ WF_vars(PumpStep(s) /\ UNCHANGED callVars)
                              /\ WF_vars(ClientReceives(s) /\ UNCHANGED callVars)

Spec == Init /\ [][Next]_vars
FairSpec == Spec /\ Fairness

-----------------------------------------------------------------------------
(* Properties *)

CallPCs == {"recv", "db", "publish", "detached", "done"}
PumpPCs == {"idle", "init", "register", "tail", "snapshot", "check", "load", "push",
            "wait", "fail", "ended"}

TypeOK ==
  /\ StoreTypeOK
  /\ bus \in [QuoteIds -> Nat \cup {NoSender}]
  /\ in_flight_appends \in Nat
  /\ DOMAIN call = Calls /\ DOMAIN pump = Subscriptions
  /\ \A c \in Calls : /\ call[c].pc \in CallPCs
                      /\ call[c].command_count \in 0 .. AppendMaxCommands
  /\ \A s \in Subscriptions : /\ pump[s].pc \in PumpPCs
                              /\ pump[s].watermark \in Nat /\ pump[s].upto \in Nat
                              /\ pump[s].attempt \in 0 .. MaxAttempts - 1
                              /\ Len(channel[s]) <= ChannelCap
                              /\ rx_watch[s].quote \in QuoteIds \cup {NoReceiver.quote}

(* The counter the shutdown waits on is the number of calls inside         *)
(* append_one, however each of them leaves it.                             *)
InFlightCountsAppends ==
  in_flight_appends = Cardinality({c \in Calls : InAppendOne(c)})

(* Every head on the bus, and every head a pump works with, is stored: the *)
(* pump moves its watermark to the head it was told without looking at     *)
(* what it read (ledger.rs:483, 497, 525, 543), so a head announced ahead  *)
(* of its commit would be skipped for good.                                *)
AnnouncedIsStored ==
  /\ \A q \in QuoteIds : bus[q] <= HeadSeq(q)
  /\ \A s \in Subscriptions : pump[s].quote_id \in QuoteIds =>
       /\ pump[s].watermark <= HeadSeq(pump[s].quote_id)
       /\ pump[s].upto <= HeadSeq(pump[s].quote_id)

(* Whatever a client has received is the log from its after_seq up to the  *)
(* number it has processed, without a gap, and the next update it will see *)
(* goes on from there, without a repetition: it can reconnect with that    *)
(* number (README.md:101).                                                 *)
DeliveryIsGapless ==
  \A s \in Subscriptions : pump[s].quote_id \in QuoteIds =>
    LET q == pump[s].quote_id
        p == client[s].cursor
    IN  /\ client[s].received = [n \in client[s].after_seq + 1 .. p |-> events[q][n]]
        /\ channel[s] # <<>> =>
             LET next == Head(channel[s])
             IN  /\ next.kind = "tail" => /\ next.from_seq_exclusive = p
                                          /\ DOMAIN next.events = p + 1 .. next.to_seq_inclusive
                 /\ next.kind = "snapshot" => next.last_seq = p

(* The snapshot a client has been given is the state of the quote at the   *)
(* sequence number it names, and the client has the events up to there.    *)
SnapshotIsTheFold ==
  \A s \in Subscriptions :
    LET got == client[s].snapshot
    IN  got.view # NoView =>
          /\ got.last_seq <= client[s].cursor
          /\ got.view = ViewOf(Replay(Between(pump[s].quote_id, 0, got.last_seq)).quote)

(* What a call has acknowledged is in the tables, under the sequence       *)
(* numbers it was acknowledged with, also after a crash; and no call       *)
(* acknowledges more commands than it was allowed to carry.                *)
AcknowledgedIsStored ==
  \A c \in Calls :
    /\ Len(call[c].committed) <= AppendMaxCommands
    /\ call[c].status = "OK" =>
         /\ call[c].committed # <<>>
         /\ \A i \in DOMAIN call[c].committed :
              /\ call[c].committed[i] # <<>>
              /\ Extends(events[call[c].quote_id], call[c].committed[i])

-----------------------------------------------------------------------------
(* Liveness *)

Listens(s, q) == client[s].connected /\ rx_watch[s].quote = q

(* A head that has been announced reaches every connected subscriber,      *)
(* unless a lower one is announced over it: a pump does not go to sleep on *)
(* a head it has not sent, nor lose one to a greater, and a client whose   *)
(* stream cannot go on is told (ledger.rs:478-544).                        *)
AnnouncedHeadIsDelivered ==
  \A s \in Subscriptions, q \in QuoteIds, n \in 1 .. MaxSeq :
    (Listens(s, q) /\ bus[q] = n)
      ~> (client[s].cursor >= n \/ bus[q] < n \/ ~client[s].connected)

(* A pump whose client has gone away learns of it from its next send: once *)
(* a head above its watermark is announced, it ends, and with it its       *)
(* receiver, unless a lower head is announced over that one.  On a quote   *)
(* that is not written again nothing makes it end (ledger.rs:508).         *)
DepartedPumpEnds ==
  \A s \in Subscriptions, q \in QuoteIds, n \in 1 .. MaxSeq :
    (~client[s].connected /\ rx_watch[s].quote = q /\ bus[q] = n /\ pump[s].watermark < n)
      ~> (rx_watch[s] = NoReceiver \/ bus[q] < n)

(* Every call comes to an end: a client that is silent meets the idle      *)
(* timeout, and one that is not meets the limit of commands.               *)
CallsEnd == \A c \in Calls : <>(call[c].pc = "done")

(* A subscriber is sent every commit: "then tails for live commits"        *)
(* (README.md:101).                                                        *)
LiveCommitsAreDelivered ==
  \A s \in Subscriptions, q \in QuoteIds, n \in 1 .. MaxSeq :
    (Listens(s, q) /\ HeadSeq(q) >= n)
      ~> (client[s].cursor >= n \/ ~client[s].connected)
=============================================================================
