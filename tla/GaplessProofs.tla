---------------------------- MODULE GaplessProofs ----------------------------
(***************************************************************************)
(* What the clients of SubscribeQuote receive, for any calls,              *)
(* subscriptions, quotes and commands.  The argument follows a row on its  *)
(* way: what a pump holds is a segment of the log; the updates in a        *)
(* channel are segments that join one another, the first of them at the    *)
(* client's cursor, and the last at what the pump has sent.                *)
(***************************************************************************)
EXTENDS LedgerProofs

(* The rows a + 1 .. b of a log r, all of them stored. *)
Segment(r, a, b) == a \in Nat /\ b \in Nat /\ a <= b /\ a + 1 .. b \subseteq DOMAIN r

RowsOf(r, a, b) == [n \in a + 1 .. b |-> r[n]]

(* An update: where it starts, and where it takes the client.              *)
Start(u) == IF u.kind = "tail" THEN u.from_seq_exclusive ELSE u.last_seq
End(u)   == IF u.kind = "tail" THEN u.to_seq_inclusive ELSE u.last_seq

UpdateOK(u, r) ==
  /\ u.kind \in {"tail", "snapshot", "error"}
  /\ u.kind = "tail" =>
       /\ Segment(r, u.from_seq_exclusive, u.to_seq_inclusive)
       /\ u.events = RowsOf(r, u.from_seq_exclusive, u.to_seq_inclusive)

(* A channel ch of a client at cursor. *)
Chain(ch, cursor, r) ==
  /\ \E X : ch \in Seq(X)
  /\ \A i \in 1 .. Len(ch) : UpdateOK(ch[i], r)
  /\ \A i \in 1 .. Len(ch) : i < Len(ch) => ch[i].kind # "error"
  /\ \A i \in 1 .. Len(ch) :
       ch[i].kind # "error" => Start(ch[i]) = IF i = 1 THEN cursor ELSE End(ch[i - 1])

(* What has been sent on it, when no error ends it. *)
Sent(ch, cursor) == IF Len(ch) = 0 THEN cursor ELSE End(ch[Len(ch)])

IsOpen(ch) == Len(ch) > 0 => ch[Len(ch)].kind # "error"

LEMMA EmptyChain ==
  ASSUME NEW cursor, NEW r
  PROVE  Chain(<<>>, cursor, r) /\ Sent(<<>>, cursor) = cursor /\ IsOpen(<<>>)
<1>1. <<>> \in Seq({}) /\ Len(<<>>) = 0
  OBVIOUS
<1> QED
  BY <1>1 DEF Chain, Sent, IsOpen

LEMMA EmptyIs == ASSUME NEW X, NEW sq \in Seq(X) PROVE sq = <<>> <=> Len(sq) = 0
  OBVIOUS

LEMMA AppendFacts ==
  ASSUME NEW X, NEW sq \in Seq(X), NEW e
  PROVE  /\ Append(sq, e) \in Seq(X \cup {e})
         /\ Len(sq) \in Nat /\ Len(Append(sq, e)) = Len(sq) + 1
         /\ \A i \in 1 .. Len(sq) : Append(sq, e)[i] = sq[i]
         /\ Append(sq, e)[Len(sq) + 1] = e
<1>1. sq \in Seq(X \cup {e})
  OBVIOUS
<1> QED
  BY <1>1

LEMMA TailFacts ==
  ASSUME NEW X, NEW sq \in Seq(X), Len(sq) # 0
  PROVE  /\ Tail(sq) \in Seq(X) /\ Len(sq) \in Nat \ {0} /\ Len(Tail(sq)) = Len(sq) - 1
         /\ \A i \in 1 .. Len(sq) - 1 : Tail(sq)[i] = sq[i + 1]
         /\ Head(sq) = sq[1]
<1>1. sq # <<>>
  OBVIOUS
<1> QED
  BY <1>1

(* A pump sends the update that goes on from there, or an error. *)
LEMMA ChainAppend ==
  ASSUME NEW ch, NEW cursor, NEW r, Chain(ch, cursor, r), IsOpen(ch),
         NEW u, UpdateOK(u, r), u.kind # "error" => Start(u) = Sent(ch, cursor)
  PROVE  /\ Chain(Append(ch, u), cursor, r)
         /\ u.kind # "error" => IsOpen(Append(ch, u)) /\ Sent(Append(ch, u), cursor) = End(u)
<1> DEFINE after == Append(ch, u)
           n == Len(ch)
<1>1. PICK X : ch \in Seq(X)
  BY DEF Chain
<1>2. /\ after \in Seq(X \cup {u}) /\ n \in Nat /\ Len(after) = n + 1
      /\ \A i \in 1 .. n : after[i] = ch[i]
      /\ after[n + 1] = u
  BY <1>1, AppendFacts
<1> HIDE DEF after, n
<1>3. \A i \in 1 .. n + 1 : UpdateOK(after[i], r)
  <2> TAKE i \in 1 .. n + 1
  <2> QED
    BY <1>2 DEF Chain, n
<1>4. \A i \in 1 .. n : ch[i].kind # "error"
  BY <1>2 DEF Chain, IsOpen, n
<1>5. \A i \in 1 .. n + 1 : i < n + 1 => after[i].kind # "error"
  BY <1>2, <1>4
<1>6. ASSUME NEW i \in 1 .. n + 1, after[i].kind # "error"
      PROVE  Start(after[i]) = IF i = 1 THEN cursor ELSE End(after[i - 1])
  <2>1. CASE i = n + 1
    <3>1. Start(u) = IF n = 0 THEN cursor ELSE End(ch[n])
      BY <1>2, <1>6, <2>1 DEF Sent, n
    <3>2. i - 1 = n /\ (n # 0 => n \in 1 .. n)
      BY <1>2, <2>1
    <3> QED
      BY <1>2, <2>1, <3>1, <3>2
  <2>2. CASE i \in 1 .. n
    <3>1. Start(ch[i]) = IF i = 1 THEN cursor ELSE End(ch[i - 1])
      BY <1>4, <2>2 DEF Chain, n
    <3>2. i # 1 => i - 1 \in 1 .. n
      BY <1>2, <2>2
    <3> QED
      BY <1>2, <2>2, <3>1, <3>2
  <2> QED
    BY <1>2, <2>1, <2>2
<1>7. Chain(after, cursor, r)
  BY <1>2, <1>3, <1>5, <1>6 DEF Chain
<1>8. u.kind # "error" => IsOpen(after) /\ Sent(after, cursor) = End(u)
  BY <1>2 DEF IsOpen, Sent
<1> QED
  BY <1>7, <1>8 DEF after

(* The client takes the first update. *)
LEMMA ChainTail ==
  ASSUME NEW ch, NEW cursor, NEW r, Chain(ch, cursor, r), Len(ch) # 0
  PROVE  /\ UpdateOK(Head(ch), r)
         /\ Head(ch).kind # "error" =>
              /\ Start(Head(ch)) = cursor
              /\ Chain(Tail(ch), End(Head(ch)), r)
              /\ Sent(Tail(ch), End(Head(ch))) = Sent(ch, cursor)
              /\ IsOpen(ch) => IsOpen(Tail(ch))
         /\ Head(ch).kind = "error" => Tail(ch) = <<>> /\ ~IsOpen(ch)
<1> DEFINE t == Tail(ch)
           u == Head(ch)
           n == Len(ch)
<1>1. PICK X : ch \in Seq(X)
  BY DEF Chain
<1>2. /\ t \in Seq(X) /\ n \in Nat \ {0} /\ Len(t) = n - 1
      /\ \A i \in 1 .. n - 1 : t[i] = ch[i + 1]
      /\ u = ch[1]
  BY <1>1, TailFacts
<1>3. 1 \in 1 .. n /\ \A i \in 1 .. n - 1 : i + 1 \in 1 .. n
  BY <1>2
<1> HIDE DEF t, u, n
<1>4. t = <<>> <=> n = 1
  <2>1. t = <<>> <=> Len(t) = 0
    BY <1>2, EmptyIs
  <2> QED
    BY <1>2, <2>1
<1>5. UpdateOK(u, r) /\ (u.kind # "error" => Start(u) = cursor)
  <2>1. \A i \in 1 .. n : UpdateOK(ch[i], r) /\
          (ch[i].kind # "error" => Start(ch[i]) = IF i = 1 THEN cursor ELSE End(ch[i - 1]))
    BY DEF Chain, n
  <2> QED
    BY <1>2, <1>3, <2>1
<1>6. ASSUME u.kind = "error" PROVE t = <<>> /\ ~IsOpen(ch)
  <2>1. n = 1
    BY <1>2, <1>3, <1>6 DEF Chain, n
  <2> QED
    BY <1>2, <1>4, <1>6, <2>1 DEF IsOpen, n
<1>7. ASSUME u.kind # "error"
      PROVE  /\ Chain(t, End(u), r) /\ Sent(t, End(u)) = Sent(ch, cursor)
             /\ IsOpen(ch) => IsOpen(t)
  <2>1. \A i \in 1 .. n - 1 : UpdateOK(t[i], r)
    BY <1>2, <1>3 DEF Chain, n
  <2>2. \A i \in 1 .. n - 1 : i < n - 1 => t[i].kind # "error"
    <3> TAKE i \in 1 .. n - 1
    <3>1. i < n - 1 => i + 1 < n
      BY <1>2
    <3> QED
      BY <1>2, <1>3, <3>1 DEF Chain, n
  <2>3. ASSUME NEW i \in 1 .. n - 1, t[i].kind # "error"
        PROVE  Start(t[i]) = IF i = 1 THEN End(u) ELSE End(t[i - 1])
    <3>1. i + 1 \in 1 .. n /\ i + 1 # 1 /\ (i + 1) - 1 = i
      BY <1>2
    <3>2. Start(ch[i + 1]) = End(ch[i])
      BY <1>2, <2>3, <3>1 DEF Chain, n
    <3>3. CASE i = 1
      BY <1>2, <3>2, <3>3
    <3>4. CASE i # 1
      <4>1. i - 1 \in 1 .. n - 1 /\ (i - 1) + 1 = i
        BY <1>2, <3>4
      <4> QED
        BY <1>2, <3>2, <3>4, <4>1
    <3> QED
      BY <3>3, <3>4
  <2>4. Chain(t, End(u), r)
    BY <1>2, <2>1, <2>2, <2>3 DEF Chain
  <2>5. CASE n = 1
    BY <1>2, <2>4, <2>5 DEF Sent, IsOpen, n
  <2>6. CASE n # 1
    <3>1. n - 1 \in 1 .. n - 1 /\ (n - 1) + 1 = n /\ n - 1 # 0
      BY <1>2, <2>6
    <3>2. t[n - 1] = ch[n]
      BY <1>2, <3>1
    <3> QED
      BY <1>2, <2>4, <3>1, <3>2 DEF Sent, IsOpen, n
  <2> QED
    BY <2>5, <2>6
<1> QED
  BY <1>5, <1>6, <1>7 DEF t, u

-----------------------------------------------------------------------------
(* Segments *)

LEMMA EmptyRows ==
  ASSUME NEW r, NEW a \in Nat
  PROVE  Segment(r, a, a) /\ RowsOf(r, a, a) = <<>>
  BY DEF Segment, RowsOf

LEMMA SomeRows ==
  ASSUME NEW r, NEW a, NEW b, Segment(r, a, b), a < b
  PROVE  RowsOf(r, a, b) # <<>> /\ LastSeq(RowsOf(r, a, b)) = b
<1> DEFINE rows == RowsOf(r, a, b)
           S == {0} \cup DOMAIN rows
<1>1. a \in Nat /\ b \in Nat /\ DOMAIN rows = a + 1 .. b
  BY DEF Segment, RowsOf
<1>2. b \in DOMAIN rows
  BY <1>1
<1> HIDE DEF rows
<1>3. b \in S /\ \A y \in S : b >= y
  BY <1>1, <1>2
<1>4. \A x \in S : (\A y \in S : x >= y) => x = b
  BY <1>1, <1>3
<1>5. LastSeq(rows) = b
  BY <1>3, <1>4 DEF LastSeq, Max
<1> QED
  BY <1>2, <1>5 DEF rows

LEMMA RowsStay ==
  ASSUME NEW old, NEW new, Extends(new, old), NEW a, NEW b, Segment(old, a, b)
  PROVE  Segment(new, a, b) /\ RowsOf(new, a, b) = RowsOf(old, a, b)
  BY DEF Extends, Segment, RowsOf

LEMMA RowsJoin ==
  ASSUME NEW r, NEW a, NEW b, NEW c, Segment(r, a, b), Segment(r, b, c)
  PROVE  Segment(r, a, c) /\ Insert(RowsOf(r, a, b), RowsOf(r, b, c)) = RowsOf(r, a, c)
<1>1. a \in Nat /\ b \in Nat /\ c \in Nat /\ a <= b /\ b <= c
  BY DEF Segment
<1>2. a + 1 .. c = (a + 1 .. b) \cup (b + 1 .. c)
  BY <1>1
<1> QED
  BY <1>1, <1>2 DEF Segment, RowsOf, Insert

(* What the pump reads between two heads of its quote is that segment. *)
LEMMA BetweenIsSegment ==
  ASSUME StoreInv, NEW q \in QuoteIds, NEW a \in Nat, NEW b \in Nat, a <= b, b <= HeadSeq(q)
  PROVE  Segment(events[q], a, b) /\ Between(q, a, b) = RowsOf(events[q], a, b)
<1>1. PICK n \in Nat : DOMAIN events[q] = 1 .. n
  BY DEF StoreInv, GaplessRows
<1>2. HeadSeq(q) = n
  BY <1>1, HeadOfRows DEF HeadSeq
<1>3. {t \in DOMAIN events[q] : a < t /\ t <= b} = a + 1 .. b
  BY <1>1, <1>2
<1> QED
  BY <1>1, <1>2, <1>3 DEF Segment, RowsOf, Between

-----------------------------------------------------------------------------
(* A pump p, its client cl and the channel ch between them, when the       *)
(* events are ev.                                                          *)
Running == {"init", "register", "tail", "snapshot", "check", "load", "push", "wait", "fail"}

(* What p has sent. *)
Reached(p) ==
  IF p.pc \in {"init", "register", "tail"} THEN p.after
  ELSE IF p.pc = "snapshot" THEN p.last_seq ELSE p.watermark

(* What it is going to send. *)
Holds(p, r) ==
  /\ p.pc = "init" => p.after \in Nat
  /\ p.pc \in {"register", "tail"} => /\ Segment(r, p.after, p.last_seq)
                                      /\ p.chunk = RowsOf(r, p.after, p.last_seq)
  /\ p.pc = "tail" => p.after < p.last_seq
  /\ p.pc \in {"load", "push"} => Segment(r, p.watermark, p.upto) /\ p.watermark < p.upto
  /\ p.pc = "push" => p.chunk = RowsOf(r, p.watermark, p.upto)

Received(cl, r) ==
  /\ Segment(r, cl.after_seq, cl.cursor)
  /\ cl.received = RowsOf(r, cl.after_seq, cl.cursor)

ClientFields == DOMAIN NewClient

Flows(p, cl, ch, r) ==
  /\ Received(cl, r)
  /\ Chain(ch, cl.cursor, r)
  /\ Holds(p, r)
  /\ cl.connected /\ p.pc \in Running => IsOpen(ch) /\ Sent(ch, cl.cursor) = Reached(p)

StreamOK(p, cl, ch, ev) ==
  /\ cl = [f \in ClientFields |-> cl[f]]
  /\ p.pc = "idle" => cl = NewClient /\ ch = <<>>
  /\ p.pc # "idle" => p.quote_id \in QuoteIds
  /\ p.quote_id \in QuoteIds => Flows(p, cl, ch, ev[p.quote_id])

StreamsOK ==
  /\ client = [s \in Subscriptions |-> client[s]]
  /\ channel = [s \in Subscriptions |-> channel[s]]
  /\ \A s \in Subscriptions : StreamOK(pump[s], client[s], channel[s], events)

LEMMA ClientFieldNames ==
  ClientFields = {"connected", "status", "after_seq", "cursor", "received", "snapshot"}
  BY DEF ClientFields, NewClient

LEMMA NewClientIs == /\ NewClient = [f \in ClientFields |-> NewClient[f]]
                     /\ NewClient.connected = FALSE /\ NewClient.after_seq = 0
                     /\ NewClient.cursor = 0 /\ NewClient.received = <<>>
  BY DEF ClientFields, NewClient

LEMMA ChainStays ==
  ASSUME NEW ch, NEW cursor, NEW old, NEW new, Extends(new, old), Chain(ch, cursor, old)
  PROVE  Chain(ch, cursor, new)
<1>1. ASSUME NEW u, UpdateOK(u, old) PROVE UpdateOK(u, new)
  BY <1>1, RowsStay DEF UpdateOK
<1> QED
  BY <1>1 DEF Chain

LEMMA StreamStays ==
  ASSUME NEW p, NEW cl, NEW ch, NEW old, NEW new, Grows(old, new), StreamOK(p, cl, ch, old)
  PROVE  StreamOK(p, cl, ch, new)
<1>1. ASSUME p.quote_id \in QuoteIds
      PROVE  Flows(p, cl, ch, new[p.quote_id])
  <2> DEFINE r == old[p.quote_id]
             t == new[p.quote_id]
  <2>1. Extends(t, r) /\ Flows(p, cl, ch, r)
    BY <1>1 DEF Grows, StreamOK
  <2> HIDE DEF r, t
  <2>2. Received(cl, t)
    BY <2>1, RowsStay DEF Flows, Received
  <2>3. Chain(ch, cl.cursor, t)
    BY <2>1, ChainStays DEF Flows
  <2>4. Holds(p, t)
    BY <2>1, RowsStay DEF Flows, Holds
  <2>5. Flows(p, cl, ch, t)
    BY <2>1, <2>2, <2>3, <2>4 DEF Flows
  <2> QED
    BY <2>5 DEF t
<1> QED
  BY <1>1 DEF StreamOK

(* The pump does something without sending. *)
LEMMA PumpOnly ==
  ASSUME NEW p, NEW n, NEW cl, NEW ch, NEW ev, StreamOK(p, cl, ch, ev),
         p.pc \in Running, n.pc \in Running, n.quote_id = p.quote_id,
         Holds(n, ev[p.quote_id]), Reached(n) = Reached(p)
  PROVE  StreamOK(n, cl, ch, ev)
<1>1. p.pc # "idle" /\ n.pc # "idle"
  BY DEF Running
<1> QED
  BY <1>1 DEF StreamOK, Flows

(* It sends, and goes on. *)
LEMMA PumpSends ==
  ASSUME NEW p, NEW n, NEW cl, NEW ch, NEW ev, StreamOK(p, cl, ch, ev),
         p.quote_id \in QuoteIds, p.pc \in Running, cl.connected,
         n.pc \in Running, n.quote_id = p.quote_id, Holds(n, ev[p.quote_id]),
         NEW u, UpdateOK(u, ev[p.quote_id]), u.kind # "error",
         Start(u) = Reached(p), End(u) = Reached(n)
  PROVE  StreamOK(n, cl, Append(ch, u), ev)
<1> DEFINE r == ev[p.quote_id]
<1>1. n.pc # "idle"
  BY DEF Running
<1>2. Flows(p, cl, ch, r)
  BY DEF StreamOK
<1>3. /\ Chain(Append(ch, u), cl.cursor, r)
      /\ IsOpen(Append(ch, u)) /\ Sent(Append(ch, u), cl.cursor) = End(u)
  BY <1>2, ChainAppend DEF Flows
<1>4. Flows(n, cl, Append(ch, u), r)
  BY <1>2, <1>3 DEF Flows
<1> QED
  BY <1>1, <1>4 DEF StreamOK

(* The pump has returned: nothing more is sent. *)
LEMMA PumpEnds ==
  ASSUME NEW p, NEW n, NEW cl, NEW dl, NEW ch, NEW dh, NEW ev, StreamOK(p, cl, ch, ev),
         p.pc # "idle",
         n = [NewPump EXCEPT !.pc = "ended", !.quote_id = p.quote_id],
         dl = [f \in ClientFields |-> dl[f]],
         dl.after_seq = cl.after_seq, dl.cursor = cl.cursor, dl.received = cl.received,
         p.quote_id \in QuoteIds => Chain(dh, cl.cursor, ev[p.quote_id])
  PROVE  StreamOK(n, dl, dh, ev)
<1>1. n.pc = "ended" /\ n.quote_id = p.quote_id
  BY DEF NewPump
<1> HIDE DEF NewPump
<1>2. \A r : Holds(n, r)
  BY <1>1 DEF Holds
<1> QED
  BY <1>1, <1>2 DEF StreamOK, Flows, Received, Running

(* The client is gone: the channel too. *)
LEMMA ClientGone ==
  ASSUME NEW p, NEW cl, NEW dl, NEW ch, NEW ev, StreamOK(p, cl, ch, ev), p.pc # "idle",
         dl = [f \in ClientFields |-> dl[f]], dl.connected = FALSE,
         dl.after_seq = cl.after_seq, dl.cursor = cl.cursor, dl.received = cl.received
  PROVE  StreamOK(p, dl, <<>>, ev)
<1>1. \A r : Chain(<<>>, dl.cursor, r)
  BY EmptyChain
<1> QED
  BY <1>1 DEF StreamOK, Flows, Received

LEMMA OneStreamChanges ==
  ASSUME StreamsOK, UNCHANGED events, NEW s \in Subscriptions,
         client' = [t \in Subscriptions |-> client'[t]],
         channel' = [t \in Subscriptions |-> channel'[t]],
         \A t \in Subscriptions \ {s} : /\ pump'[t] = pump[t] /\ client'[t] = client[t]
                                        /\ channel'[t] = channel[t],
         StreamOK(pump'[s], client'[s], channel'[s], events)
  PROVE  StreamsOK'
<1> SUFFICES ASSUME NEW t \in Subscriptions
             PROVE  StreamOK(pump'[t], client'[t], channel'[t], events')
  BY DEF StreamsOK
<1>1. CASE t = s
  BY <1>1
<1>2. CASE t # s
  BY <1>2 DEF StreamsOK
<1> QED
  BY <1>1, <1>2

-----------------------------------------------------------------------------
(* The steps of a subscription *)

(* The handler or the pump returns, and the client's side stays.           *)
LEMMA ReturnKeepsStreams ==
  ASSUME StreamsOK, PumpsOK, UNCHANGED events, NEW s \in Subscriptions, Return(s),
         pump[s].pc # "idle",
         client' = [t \in Subscriptions |-> client'[t]],
         channel' = [t \in Subscriptions |-> channel'[t]],
         \A t \in Subscriptions \ {s} : client'[t] = client[t] /\ channel'[t] = channel[t],
         client'[s] = [f \in ClientFields |-> client'[s][f]],
         client'[s].after_seq = client[s].after_seq,
         client'[s].cursor = client[s].cursor, client'[s].received = client[s].received,
         pump[s].quote_id \in QuoteIds =>
           Chain(channel'[s], client[s].cursor, events[pump[s].quote_id])
  PROVE  StreamsOK'
<1>1. /\ \A t \in Subscriptions \ {s} : pump'[t] = pump[t]
      /\ pump'[s] = [NewPump EXCEPT !.pc = "ended", !.quote_id = pump[s].quote_id]
  BY DEF PumpsOK, Return
<1>2. StreamOK(pump[s], client[s], channel[s], events)
  BY DEF StreamsOK
<1>3. StreamOK(pump'[s], client'[s], channel'[s], events)
  BY <1>1, <1>2, PumpEnds
<1> QED
  BY <1>1, <1>3, OneStreamChanges

(* The same, of a pump whose client's side does not change at all.         *)
LEMMA AbandonKeepsStreams ==
  ASSUME StreamsOK, PumpsOK, NEW s \in Subscriptions, Abandon(s)
  PROVE  StreamsOK'
<1>1. UNCHANGED <<events, client, channel>> /\ Return(s) /\ pump[s].pc # "idle"
  BY DEF Abandon, storeVars
<1>2. StreamOK(pump[s], client[s], channel[s], events)
  BY DEF StreamsOK
<1>3. client = [t \in Subscriptions |-> client[t]] /\ channel = [t \in Subscriptions |-> channel[t]]
  BY DEF StreamsOK
<1>4. client[s] = [f \in ClientFields |-> client[s][f]]
  BY <1>2 DEF StreamOK
<1>5. pump[s].quote_id \in QuoteIds =>
        Chain(channel[s], client[s].cursor, events[pump[s].quote_id])
  BY <1>2 DEF StreamOK, Flows
<1> QED
  BY <1>1, <1>3, <1>4, <1>5, ReturnKeepsStreams

LEMMA RejectKeepsStreams ==
  ASSUME StreamsOK, PumpsOK, NEW s \in Subscriptions, pump[s].pc # "idle",
         NEW status, Reject(s, status)
  PROVE  StreamsOK'
<1> DEFINE cl == client[s]
           dl == client'[s]
<1>1. UNCHANGED <<events, channel>> /\ Return(s)
  BY DEF Reject, storeVars
<1>2. StreamOK(pump[s], cl, channel[s], events)
  BY DEF StreamsOK
<1>3. /\ client' = [t \in Subscriptions |-> client'[t]]
      /\ channel = [t \in Subscriptions |-> channel[t]]
      /\ \A t \in Subscriptions \ {s} : client'[t] = client[t]
      /\ dl = [cl EXCEPT !.connected = FALSE, !.status = status]
  BY DEF StreamsOK, Reject
<1>4. /\ dl = [f \in ClientFields |-> dl[f]]
      /\ dl.after_seq = cl.after_seq /\ dl.cursor = cl.cursor /\ dl.received = cl.received
  BY <1>2, <1>3, ClientFieldNames DEF StreamOK
<1>5. pump[s].quote_id \in QuoteIds =>
        Chain(channel[s], cl.cursor, events[pump[s].quote_id])
  BY <1>2 DEF StreamOK, Flows
<1> QED
  BY <1>1, <1>3, <1>4, <1>5, ReturnKeepsStreams

LEMMA SendErrorKeepsStreams ==
  ASSUME StreamsOK, PumpsOK, NEW s \in Subscriptions, SendError(s)
  PROVE  StreamsOK'
<1> DEFINE cl == client[s]
           r == events[pump[s].quote_id]
           u == Failure(StatusOf("Sqlite"))
<1>1. /\ UNCHANGED <<events, client>> /\ Return(s) /\ pump[s].pc = "fail" /\ cl.connected
      /\ channel' = [channel EXCEPT ![s] = Append(channel[s], u)]
  BY DEF SendError, Send, storeVars
<1>2. StreamOK(pump[s], cl, channel[s], events)
  BY DEF StreamsOK
<1>3. /\ client = [t \in Subscriptions |-> client[t]]
      /\ channel' = [t \in Subscriptions |-> channel'[t]]
      /\ \A t \in Subscriptions \ {s} : channel'[t] = channel[t]
      /\ channel'[s] = Append(channel[s], u)
  BY <1>1 DEF StreamsOK
<1>4. cl = [f \in ClientFields |-> cl[f]]
  BY <1>2 DEF StreamOK
<1>5. UpdateOK(u, r) /\ u.kind = "error"
  BY DEF Failure, UpdateOK
<1> HIDE DEF u
<1>6. ASSUME pump[s].quote_id \in QuoteIds PROVE Chain(channel'[s], cl.cursor, r)
  <2>1. Chain(channel[s], cl.cursor, r) /\ IsOpen(channel[s])
    BY <1>1, <1>2, <1>6 DEF StreamOK, Flows, Running
  <2> QED
    BY <1>3, <1>5, <2>1, ChainAppend
<1> QED
  BY <1>1, <1>3, <1>4, <1>6, ReturnKeepsStreams

(* The pump goes on to n without sending. *)
LEMMA PumpOnlyKeepsStreams ==
  ASSUME StreamsOK, PumpsOK, UNCHANGED <<events, client, channel>>, NEW s \in Subscriptions,
         pump[s].pc \in Running,
         NEW n, pump' = [pump EXCEPT ![s] = n], n.pc \in Running,
         n.quote_id = pump[s].quote_id, Holds(n, events[pump[s].quote_id]),
         Reached(n) = Reached(pump[s])
  PROVE  StreamsOK'
<1>1. pump'[s] = n /\ \A t \in Subscriptions \ {s} : pump'[t] = pump[t]
  BY DEF PumpsOK
<1>2. StreamOK(pump[s], client[s], channel[s], events)
  BY DEF StreamsOK
<1>3. StreamOK(n, client[s], channel[s], events)
  BY <1>2, PumpOnly
<1>4. client = [t \in Subscriptions |-> client[t]] /\ channel = [t \in Subscriptions |-> channel[t]]
  BY DEF StreamsOK
<1> QED
  BY <1>1, <1>3, <1>4, OneStreamChanges

(* It sends u, and goes on to n. *)
LEMMA SendKeepsStreams ==
  ASSUME StreamsOK, PumpsOK, NEW s \in Subscriptions, pump[s].pc \in Running,
         NEW u, Send(s, u), UpdateOK(u, events[pump[s].quote_id]), u.kind # "error",
         Start(u) = Reached(pump[s]),
         NEW n, pump' = [pump EXCEPT ![s] = n], n.pc \in Running,
         n.quote_id = pump[s].quote_id, Holds(n, events[pump[s].quote_id]),
         Reached(n) = End(u)
  PROVE  StreamsOK'
<1>1. pump'[s] = n /\ \A t \in Subscriptions \ {s} : pump'[t] = pump[t]
  BY DEF PumpsOK
<1>2. /\ client[s].connected /\ UNCHANGED <<events, client>>
      /\ channel' = [channel EXCEPT ![s] = Append(channel[s], u)]
  BY DEF Send, storeVars
<1>3. /\ client = [t \in Subscriptions |-> client[t]]
      /\ channel' = [t \in Subscriptions |-> channel'[t]]
      /\ \A t \in Subscriptions \ {s} : channel'[t] = channel[t]
      /\ channel'[s] = Append(channel[s], u)
  BY <1>2 DEF StreamsOK
<1>4. StreamOK(pump[s], client[s], channel[s], events)
  BY DEF StreamsOK
<1>5. pump[s].quote_id \in QuoteIds
  BY DEF PumpsOK, PumpOK, Running
<1>6. StreamOK(n, client[s], Append(channel[s], u), events)
  BY <1>2, <1>4, <1>5, PumpSends
<1> QED
  BY <1>1, <1>2, <1>3, <1>6, OneStreamChanges

(* A tail of the segment a .. b. *)
LEMMA TailIsUpdate ==
  ASSUME NEW r, NEW a, NEW b, Segment(r, a, b), a < b
  PROVE  LET u == QuoteTail(a, RowsOf(r, a, b))
         IN  UpdateOK(u, r) /\ u.kind = "tail" /\ Start(u) = a /\ End(u) = b
<1> DEFINE rows == RowsOf(r, a, b)
           u == QuoteTail(a, rows)
<1>1. LastSeq(rows) = b
  BY SomeRows
<1>2. rows = RowsOf(r, a, b)
  OBVIOUS
<1> HIDE DEF rows
<1>3. /\ u.kind = "tail" /\ u.from_seq_exclusive = a /\ u.to_seq_inclusive = b
      /\ u.events = rows
  BY <1>1 DEF QuoteTail
<1> HIDE DEF u
<1>4. UpdateOK(u, r) /\ u.kind = "tail" /\ Start(u) = a /\ End(u) = b
  BY <1>2, <1>3 DEF UpdateOK, Start, End
<1> QED
  BY <1>4 DEF u, rows

GaplessInv == DeliveryInv /\ StreamsOK

(* What the steps of a pump start from. *)
LEMMA PumpHas ==
  ASSUME GaplessInv, NEW s \in Subscriptions, pump[s].pc \in Running
  PROVE  /\ StoreInv /\ PumpsOK /\ BusOK /\ StreamsOK
         /\ pump = [t \in Subscriptions |-> pump[t]]
         /\ pump[s] = [f \in PumpFields |-> pump[s][f]]
         /\ pump[s].quote_id \in QuoteIds
         /\ Heads(pump[s]) \subseteq Nat
         /\ \A head \in Heads(pump[s]) : head <= HeadSeq(pump[s].quote_id)
         /\ Holds(pump[s], events[pump[s].quote_id])
<1>1. StoreInv /\ PumpsOK /\ BusOK /\ StreamsOK
  BY DEF GaplessInv, DeliveryInv
<1>2. PumpOK(pump[s], events) /\ pump = [t \in Subscriptions |-> pump[t]]
  BY <1>1 DEF PumpsOK
<1>3. pump[s].quote_id \in QuoteIds
  BY <1>2 DEF PumpOK, Running
<1>4. StreamOK(pump[s], client[s], channel[s], events)
  BY <1>1 DEF StreamsOK
<1>5. Holds(pump[s], events[pump[s].quote_id])
  BY <1>3, <1>4 DEF StreamOK, Flows
<1> QED
  BY <1>1, <1>2, <1>3, <1>5 DEF PumpOK, HeadSeq

LEMMA ReadInitKeepsStreams ==
  ASSUME GaplessInv, NEW s \in Subscriptions, ReadInit(s)
  PROVE  StreamsOK'
<1> DEFINE p == pump[s]
           q == p.quote_id
           r == events[q]
           view == ViewOf(Replay(events[q]).quote)
           rows == Between(q, p.after, HeadSeq(q))
           n == [p EXCEPT !.pc = "register", !.last_seq = HeadSeq(q), !.view = view,
                          !.chunk = rows]
<1>1. /\ p.pc = "init" /\ UNCHANGED <<events, client, channel>>
      /\ pump' = [pump EXCEPT ![s] = n] /\ InitError(s) = "Ok"
  BY DEF ReadInit, storeVars
<1>2. p.pc \in Running
  BY <1>1 DEF Running
<1>3. /\ StreamsOK /\ PumpsOK /\ StoreInv /\ q \in QuoteIds /\ p.after \in Nat
      /\ p = [f \in PumpFields |-> p[f]]
  BY <1>1, <1>2, PumpHas DEF Holds
<1>4. HeadSeq(q) \in Nat /\ p.after <= HeadSeq(q)
  <2>1. ~(p.after > LastSeq(events[q]))
    BY <1>1 DEF InitError
  <2> QED
    BY <1>3, <2>1, HeadIsNat DEF HeadSeq
<1>5. Segment(r, p.after, HeadSeq(q)) /\ rows = RowsOf(r, p.after, HeadSeq(q))
  BY <1>3, <1>4, BetweenIsSegment
<1> HIDE DEF rows, view
<1>6. /\ n.pc = "register" /\ n.quote_id = q /\ n.after = p.after
      /\ n.last_seq = HeadSeq(q) /\ n.chunk = rows
  BY <1>3, PumpFieldNames
<1> HIDE DEF n
<1>7. Holds(n, r) /\ Reached(n) = Reached(p) /\ n.pc \in Running
  BY <1>1, <1>5, <1>6 DEF Holds, Reached, Running
<1> QED
  BY <1>1, <1>2, <1>3, <1>6, <1>7, PumpOnlyKeepsStreams

LEMMA RegisterKeepsStreams ==
  ASSUME GaplessInv, NEW s \in Subscriptions, Register(s)
  PROVE  StreamsOK'
<1> DEFINE p == pump[s]
           q == p.quote_id
           r == events[q]
           next == IF p.chunk = <<>> THEN "snapshot" ELSE "tail"
           n == [p EXCEPT !.pc = next]
<1>1. /\ p.pc = "register" /\ UNCHANGED <<events, client, channel>>
      /\ pump' = [pump EXCEPT ![s] = n]
  BY DEF Register, storeVars
<1>2. p.pc \in Running
  BY <1>1 DEF Running
<1>3. /\ StreamsOK /\ PumpsOK
      /\ Segment(r, p.after, p.last_seq) /\ p.chunk = RowsOf(r, p.after, p.last_seq)
      /\ p = [f \in PumpFields |-> p[f]]
  BY <1>1, <1>2, PumpHas DEF Holds
<1>4. /\ n.pc = next /\ n.quote_id = q /\ n.after = p.after
      /\ n.last_seq = p.last_seq /\ n.chunk = p.chunk
  <2> HIDE DEF next
  <2> QED
    BY <1>3, PumpFieldNames
<1> HIDE DEF n
<1>5. p.chunk = <<>> <=> p.after = p.last_seq
  <2>1. p.after \in Nat /\ p.last_seq \in Nat /\ p.after <= p.last_seq
    BY <1>3 DEF Segment
  <2>2. CASE p.after = p.last_seq
    BY <1>3, <2>1, <2>2, EmptyRows
  <2>3. CASE p.after < p.last_seq
    BY <1>3, <2>1, <2>3, SomeRows
  <2> QED
    BY <2>1, <2>2, <2>3
<1>6. p.after # p.last_seq => p.after < p.last_seq
  BY <1>3 DEF Segment
<1>7. Holds(n, r) /\ Reached(n) = Reached(p) /\ n.pc \in Running
  BY <1>1, <1>3, <1>4, <1>5, <1>6 DEF Holds, Reached, Running
<1> QED
  BY <1>1, <1>2, <1>3, <1>4, <1>7, PumpOnlyKeepsStreams

LEMMA SendCatchUpKeepsStreams ==
  ASSUME GaplessInv, NEW s \in Subscriptions, SendCatchUp(s)
  PROVE  StreamsOK'
<1> DEFINE p == pump[s]
           r == events[p.quote_id]
           u == QuoteTail(p.after, p.chunk)
           n == [p EXCEPT !.pc = "snapshot", !.chunk = <<>>]
<1>1. p.pc = "tail" /\ Send(s, u) /\ pump' = [pump EXCEPT ![s] = n]
  BY DEF SendCatchUp
<1>2. p.pc \in Running
  BY <1>1 DEF Running
<1>3. /\ StreamsOK /\ PumpsOK
      /\ Segment(r, p.after, p.last_seq) /\ p.chunk = RowsOf(r, p.after, p.last_seq)
      /\ p.after < p.last_seq /\ p = [f \in PumpFields |-> p[f]]
  BY <1>1, <1>2, PumpHas DEF Holds
<1>4. UpdateOK(u, r) /\ u.kind = "tail" /\ Start(u) = p.after /\ End(u) = p.last_seq
  BY <1>3, TailIsUpdate
<1>5. n.pc = "snapshot" /\ n.quote_id = p.quote_id /\ n.last_seq = p.last_seq
  BY <1>3, PumpFieldNames
<1> HIDE DEF n, u
<1>6. Holds(n, r) /\ Reached(n) = End(u) /\ Start(u) = Reached(p) /\ n.pc \in Running
  BY <1>1, <1>4, <1>5 DEF Holds, Reached, Running
<1> QED
  BY <1>1, <1>2, <1>3, <1>4, <1>5, <1>6, SendKeepsStreams

LEMMA SendSnapshotKeepsStreams ==
  ASSUME GaplessInv, NEW s \in Subscriptions, SendSnapshot(s)
  PROVE  StreamsOK'
<1> DEFINE p == pump[s]
           r == events[p.quote_id]
           u == QuoteSnapshot(p.last_seq, p.view)
           n == [p EXCEPT !.pc = "check", !.watermark = p.last_seq, !.view = NoView]
<1>1. p.pc = "snapshot" /\ Send(s, u) /\ pump' = [pump EXCEPT ![s] = n]
  BY DEF SendSnapshot
<1>2. p.pc \in Running
  BY <1>1 DEF Running
<1>3. StreamsOK /\ PumpsOK /\ p = [f \in PumpFields |-> p[f]]
  BY <1>2, PumpHas
<1>4. UpdateOK(u, r) /\ u.kind = "snapshot" /\ Start(u) = p.last_seq /\ End(u) = p.last_seq
  BY DEF QuoteSnapshot, UpdateOK, Start, End
<1>5. n.pc = "check" /\ n.quote_id = p.quote_id /\ n.watermark = p.last_seq
  BY <1>3, PumpFieldNames
<1> HIDE DEF n, u
<1>6. Holds(n, r) /\ Reached(n) = End(u) /\ Start(u) = Reached(p) /\ n.pc \in Running
  BY <1>1, <1>4, <1>5 DEF Holds, Reached, Running
<1> QED
  BY <1>1, <1>2, <1>3, <1>4, <1>5, <1>6, SendKeepsStreams

LEMMA FollowKeepsStreams ==
  ASSUME GaplessInv, NEW s \in Subscriptions, pump[s].pc \in {"check", "wait"},
         Follow(s, bus[pump[s].quote_id]), UNCHANGED <<events, client, channel>>
  PROVE  StreamsOK'
<1> DEFINE p == pump[s]
           q == p.quote_id
           r == events[q]
           head == bus[q]
           n == IF head > p.watermark THEN [p EXCEPT !.pc = "load", !.upto = head]
                                      ELSE [p EXCEPT !.pc = "wait"]
<1>1. p.pc \in Running
  BY DEF Running
<1>2. /\ StreamsOK /\ PumpsOK /\ StoreInv /\ BusOK /\ q \in QuoteIds
      /\ pump = [t \in Subscriptions |-> pump[t]]
      /\ p = [f \in PumpFields |-> p[f]] /\ p.watermark \in Nat
  BY <1>1, PumpHas DEF Heads
<1>3. pump' = [pump EXCEPT ![s] = n]
  BY DEF Follow
<1>4. head \in Int /\ head <= HeadSeq(q)
  BY <1>2 DEF BusOK
<1>5. /\ n.quote_id = q /\ n.watermark = p.watermark
      /\ \/ n.pc = "wait"
         \/ n.pc = "load" /\ n.upto = head /\ head > p.watermark
  BY <1>2, PumpFieldNames
<1>6. head > p.watermark => Segment(r, p.watermark, head)
  BY <1>2, <1>4, BetweenIsSegment
<1> HIDE DEF n
<1>7. Holds(n, r) /\ Reached(n) = Reached(p) /\ n.pc \in Running
  BY <1>2, <1>4, <1>5, <1>6 DEF Holds, Reached, Running
<1> QED
  BY <1>1, <1>2, <1>3, <1>5, <1>7, PumpOnlyKeepsStreams

LEMMA ReadTailKeepsStreams ==
  ASSUME GaplessInv, NEW s \in Subscriptions, ReadTail(s)
  PROVE  StreamsOK'
<1> DEFINE p == pump[s]
           q == p.quote_id
           r == events[q]
           rows == Between(q, p.watermark, p.upto)
           n == [p EXCEPT !.pc = "push", !.chunk = rows, !.attempt = 0]
<1>1. p.pc = "load" /\ UNCHANGED <<events, client, channel>>
  BY DEF ReadTail, storeVars
<1>2. p.pc \in Running
  BY <1>1 DEF Running
<1>3. /\ StreamsOK /\ PumpsOK /\ StoreInv /\ q \in QuoteIds
      /\ p = [f \in PumpFields |-> p[f]] /\ p.upto <= HeadSeq(q)
      /\ Segment(r, p.watermark, p.upto) /\ p.watermark < p.upto
  BY <1>1, <1>2, PumpHas DEF Holds, Heads
<1>4. rows = RowsOf(r, p.watermark, p.upto)
  BY <1>3, BetweenIsSegment DEF Segment
<1>5. rows # <<>>
  BY <1>3, <1>4, SomeRows
<1>6. pump' = [pump EXCEPT ![s] = n]
  BY <1>5 DEF ReadTail
<1> HIDE DEF rows
<1>7. /\ n.pc = "push" /\ n.quote_id = q /\ n.watermark = p.watermark /\ n.upto = p.upto
      /\ n.chunk = rows
  BY <1>3, PumpFieldNames
<1> HIDE DEF n
<1>8. Holds(n, r) /\ Reached(n) = Reached(p) /\ n.pc \in Running
  BY <1>1, <1>3, <1>4, <1>7 DEF Holds, Reached, Running
<1> QED
  BY <1>1, <1>2, <1>3, <1>6, <1>7, <1>8, PumpOnlyKeepsStreams

LEMMA ReadTailFailsKeepsStreams ==
  ASSUME GaplessInv, NEW s \in Subscriptions, ReadTailFails(s)
  PROVE  StreamsOK'
<1> DEFINE p == pump[s]
           r == events[p.quote_id]
           n == IF p.attempt + 1 < MaxAttempts
                THEN [p EXCEPT !.attempt = p.attempt + 1]
                ELSE [p EXCEPT !.pc = "fail", !.upto = 0, !.attempt = 0]
<1>1. /\ p.pc = "load" /\ UNCHANGED <<events, client, channel>>
      /\ pump' = [pump EXCEPT ![s] = n]
  BY DEF ReadTailFails, storeVars
<1>2. p.pc \in Running
  BY <1>1 DEF Running
<1>3. /\ StreamsOK /\ PumpsOK /\ p = [f \in PumpFields |-> p[f]]
      /\ Segment(r, p.watermark, p.upto) /\ p.watermark < p.upto
  BY <1>1, <1>2, PumpHas DEF Holds
<1>4. /\ n.quote_id = p.quote_id /\ n.watermark = p.watermark
      /\ n.pc = "fail" \/ (n.pc = "load" /\ n.upto = p.upto)
  BY <1>1, <1>3, PumpFieldNames
<1> HIDE DEF n
<1>5. Holds(n, r) /\ Reached(n) = Reached(p) /\ n.pc \in Running
  BY <1>1, <1>3, <1>4 DEF Holds, Reached, Running
<1> QED
  BY <1>1, <1>2, <1>3, <1>4, <1>5, PumpOnlyKeepsStreams

LEMMA SendTailKeepsStreams ==
  ASSUME GaplessInv, NEW s \in Subscriptions, SendTail(s)
  PROVE  StreamsOK'
<1> DEFINE p == pump[s]
           r == events[p.quote_id]
           u == QuoteTail(p.watermark, p.chunk)
           n == [p EXCEPT !.pc = "wait", !.watermark = p.upto, !.upto = 0, !.chunk = <<>>]
<1>1. p.pc = "push" /\ Send(s, u) /\ pump' = [pump EXCEPT ![s] = n]
  BY DEF SendTail
<1>2. p.pc \in Running
  BY <1>1 DEF Running
<1>3. /\ StreamsOK /\ PumpsOK /\ p = [f \in PumpFields |-> p[f]]
      /\ Segment(r, p.watermark, p.upto) /\ p.watermark < p.upto
      /\ p.chunk = RowsOf(r, p.watermark, p.upto)
  BY <1>1, <1>2, PumpHas DEF Holds
<1>4. UpdateOK(u, r) /\ u.kind = "tail" /\ Start(u) = p.watermark /\ End(u) = p.upto
  BY <1>3, TailIsUpdate
<1>5. n.pc = "wait" /\ n.quote_id = p.quote_id /\ n.watermark = p.upto
  BY <1>3, PumpFieldNames
<1> HIDE DEF n, u
<1>6. Holds(n, r) /\ Reached(n) = End(u) /\ Start(u) = Reached(p) /\ n.pc \in Running
  BY <1>1, <1>4, <1>5 DEF Holds, Reached, Running
<1> QED
  BY <1>1, <1>2, <1>3, <1>4, <1>5, <1>6, SendKeepsStreams

LEMMA PumpStepKeepsStreams ==
  ASSUME GaplessInv, NEW s \in Subscriptions, PumpStep(s)
  PROVE  StreamsOK'
<1>1. StreamsOK /\ PumpsOK
  BY DEF GaplessInv, DeliveryInv
<1>2. CASE ReadInit(s)
  BY <1>2, ReadInitKeepsStreams
<1>3. CASE RejectInit(s)
  BY <1>1, <1>3, RejectKeepsStreams DEF RejectInit
<1>4. CASE Register(s)
  BY <1>4, RegisterKeepsStreams
<1>5. CASE SendCatchUp(s)
  BY <1>5, SendCatchUpKeepsStreams
<1>6. CASE SendSnapshot(s)
  BY <1>6, SendSnapshotKeepsStreams
<1>7. CASE CheckHead(s) \/ Wake(s)
  BY <1>7, FollowKeepsStreams DEF CheckHead, Wake, storeVars
<1>8. CASE ReadTail(s)
  BY <1>8, ReadTailKeepsStreams
<1>9. CASE SendTail(s)
  BY <1>9, SendTailKeepsStreams
<1>10. CASE SendError(s)
  BY <1>1, <1>10, SendErrorKeepsStreams
<1>11. CASE Abandon(s)
  BY <1>1, <1>11, AbandonKeepsStreams
<1> QED
  BY <1>2, <1>3, <1>4, <1>5, <1>6, <1>7, <1>8, <1>9, <1>10, <1>11 DEF PumpStep

(* The client takes its next update: its rows join those it has. *)
LEMMA ClientReceivesKeepsStreams ==
  ASSUME GaplessInv, NEW s \in Subscriptions, ClientReceives(s)
  PROVE  StreamsOK'
<1> DEFINE p == pump[s]
           cl == client[s]
           dl == client'[s]
           ch == channel[s]
           u == Head(ch)
           r == events[p.quote_id]
<1>1. /\ StreamsOK /\ StreamOK(p, cl, ch, events)
      /\ client = [t \in Subscriptions |-> client[t]]
      /\ channel = [t \in Subscriptions |-> channel[t]]
  BY DEF GaplessInv, StreamsOK
<1>2. /\ UNCHANGED <<events, pump>> /\ cl.connected /\ ch # <<>>
      /\ channel' = [channel EXCEPT ![s] = Tail(ch)]
  BY DEF ClientReceives, storeVars
<1> DEFINE next == CASE u.kind = "tail" ->
                          [cl EXCEPT !.received = Insert(cl.received, u.events),
                                     !.cursor = u.to_seq_inclusive]
                     [] u.kind = "snapshot" ->
                          [cl EXCEPT !.cursor = u.last_seq,
                                     !.snapshot = [last_seq |-> u.last_seq, view |-> u.view]]
                     [] u.kind = "error" ->
                          [cl EXCEPT !.connected = FALSE, !.status = u.status]
<1>3. client' = [client EXCEPT ![s] = next]
  BY DEF ClientReceives
<1>4. cl = [f \in ClientFields |-> cl[f]] /\ p.pc # "idle"
  BY <1>1, <1>2 DEF StreamOK
<1> HIDE DEF next
<1>5. /\ channel' = [t \in Subscriptions |-> channel'[t]]
      /\ client' = [t \in Subscriptions |-> client'[t]]
      /\ \A t \in Subscriptions \ {s} : client'[t] = client[t] /\ channel'[t] = channel[t]
      /\ channel'[s] = Tail(ch) /\ dl = next
  BY <1>1, <1>2, <1>3
<1> HIDE DEF u, dl
<1>6. ASSUME p.quote_id \in QuoteIds
      PROVE  dl = [f \in ClientFields |-> dl[f]] /\ Flows(p, dl, Tail(ch), r)
  <2>1. Flows(p, cl, ch, r)
    BY <1>1, <1>6 DEF StreamOK
  <2>2. PICK X : ch \in Seq(X)
    BY <2>1 DEF Flows, Chain
  <2>3. Len(ch) # 0
    BY <1>2, <2>2, EmptyIs
  <2>4. Chain(ch, cl.cursor, r)
    BY <2>1 DEF Flows
  <2>5. /\ UpdateOK(u, r)
        /\ u.kind # "error" => /\ Start(u) = cl.cursor
                               /\ Chain(Tail(ch), End(u), r)
                               /\ Sent(Tail(ch), End(u)) = Sent(ch, cl.cursor)
                               /\ IsOpen(ch) => IsOpen(Tail(ch))
        /\ u.kind = "error" => Tail(ch) = <<>> /\ ~IsOpen(ch)
    BY <2>3, <2>4, ChainTail DEF u
  <2>6. CASE u.kind = "tail"
    <3> DEFINE rows == Insert(cl.received, u.events)
    <3>1. dl = [cl EXCEPT !.received = rows, !.cursor = u.to_seq_inclusive]
      BY <1>5, <2>6 DEF next
    <3>2. /\ Segment(r, cl.after_seq, End(u)) /\ rows = RowsOf(r, cl.after_seq, End(u))
      <4>1. /\ Segment(r, cl.after_seq, cl.cursor)
            /\ cl.received = RowsOf(r, cl.after_seq, cl.cursor)
        BY <2>1 DEF Flows, Received
      <4>2. Segment(r, cl.cursor, End(u)) /\ u.events = RowsOf(r, cl.cursor, End(u))
        BY <2>5, <2>6 DEF UpdateOK, Start, End
      <4> QED
        BY <4>1, <4>2, RowsJoin
    <3> HIDE DEF rows
    <3>3. /\ dl = [f \in ClientFields |-> dl[f]]
          /\ dl.connected = cl.connected /\ dl.after_seq = cl.after_seq
          /\ dl.cursor = End(u) /\ dl.received = rows
      BY <1>4, <2>6, <3>1, ClientFieldNames DEF End
    <3> QED
      BY <2>1, <2>5, <2>6, <3>2, <3>3 DEF Flows, Received
  <2>7. CASE u.kind = "snapshot"
    <3> DEFINE snapshot == [last_seq |-> u.last_seq, view |-> u.view]
    <3>1. dl = [cl EXCEPT !.cursor = u.last_seq, !.snapshot = snapshot]
      BY <1>5, <2>7 DEF next
    <3> HIDE DEF snapshot
    <3>2. /\ dl = [f \in ClientFields |-> dl[f]]
          /\ dl.connected = cl.connected /\ dl.after_seq = cl.after_seq
          /\ dl.cursor = End(u) /\ dl.received = cl.received
      BY <1>4, <2>7, <3>1, ClientFieldNames DEF End
    <3>3. End(u) = cl.cursor
      BY <2>5, <2>7 DEF Start, End
    <3> QED
      BY <2>1, <2>5, <2>7, <3>2, <3>3 DEF Flows, Received
  <2>8. CASE u.kind = "error"
    <3>1. dl = [cl EXCEPT !.connected = FALSE, !.status = u.status]
      BY <1>5, <2>8 DEF next
    <3>2. /\ dl = [f \in ClientFields |-> dl[f]]
          /\ dl.connected = FALSE /\ dl.after_seq = cl.after_seq
          /\ dl.cursor = cl.cursor /\ dl.received = cl.received
      BY <1>4, <3>1, ClientFieldNames
    <3>3. Chain(Tail(ch), dl.cursor, r)
      BY <2>5, <2>8, EmptyChain
    <3> QED
      BY <2>1, <3>2, <3>3 DEF Flows, Received
  <2> QED
    BY <2>5, <2>6, <2>7, <2>8 DEF UpdateOK
<1>7. p.quote_id \in QuoteIds
  BY <1>1, <1>4 DEF StreamOK
<1>8. StreamOK(p, dl, Tail(ch), events)
  BY <1>4, <1>6, <1>7 DEF StreamOK
<1> QED
  BY <1>1, <1>2, <1>5, <1>8, OneStreamChanges DEF dl

LEMMA SubscribeKeepsStreams ==
  ASSUME GaplessInv, NEW s \in Subscriptions, NEW q \in QuoteIds, NEW after \in AfterSeqs,
         Subscribe(s, q, after)
  PROVE  StreamsOK'
<1> DEFINE p == pump[s]
           n == pump'[s]
           cl == client[s]
           dl == client'[s]
           r == events[q]
<1>1. StreamsOK /\ PumpsOK /\ StreamOK(p, cl, channel[s], events) /\ PumpOK(p, events)
  BY DEF GaplessInv, DeliveryInv, StreamsOK, PumpsOK
<1>2. p.pc = "idle" /\ UNCHANGED <<events, channel>> /\ after \in Nat
  BY AfterSeqsAssumption DEF Subscribe, storeVars
<1>3. cl = NewClient /\ channel[s] = <<>> /\ p = [f \in PumpFields |-> p[f]]
  BY <1>1, <1>2 DEF StreamOK, PumpOK
<1>4. /\ client' = [t \in Subscriptions |-> client'[t]]
      /\ channel' = [t \in Subscriptions |-> channel'[t]]
      /\ \A t \in Subscriptions \ {s} : /\ pump'[t] = pump[t] /\ client'[t] = client[t]
                                        /\ channel'[t] = channel[t]
      /\ channel'[s] = <<>>
      /\ n = [p EXCEPT !.pc = "init", !.quote_id = q, !.after = after]
      /\ dl = [cl EXCEPT !.connected = TRUE, !.after_seq = after, !.cursor = after]
  BY <1>1, <1>2, <1>3 DEF StreamsOK, PumpsOK, Subscribe
<1>5. n.pc = "init" /\ n.quote_id = q /\ n.after = after
  BY <1>3, <1>4, PumpFieldNames
<1>6. /\ dl = [f \in ClientFields |-> dl[f]]
      /\ dl.after_seq = after /\ dl.cursor = after /\ dl.received = <<>>
  BY <1>3, <1>4, NewClientIs, ClientFieldNames
<1> HIDE DEF n, dl
<1>7. Received(dl, r)
  BY <1>2, <1>6, EmptyRows DEF Received
<1>8. Chain(<<>>, dl.cursor, r) /\ Sent(<<>>, dl.cursor) = dl.cursor /\ IsOpen(<<>>)
  BY EmptyChain
<1>9. Flows(n, dl, <<>>, r)
  BY <1>2, <1>5, <1>6, <1>7, <1>8 DEF Flows, Holds, Reached
<1>10. StreamOK(n, dl, <<>>, events)
  BY <1>5, <1>6, <1>9 DEF StreamOK
<1> QED
  BY <1>1, <1>2, <1>4, <1>10, OneStreamChanges DEF n, dl

LEMMA DisconnectKeepsStreams ==
  ASSUME GaplessInv, NEW s \in Subscriptions, Disconnect(s)
  PROVE  StreamsOK'
<1> DEFINE p == pump[s]
           cl == client[s]
           dl == client'[s]
<1>1. StreamsOK /\ PumpsOK /\ StreamOK(p, cl, channel[s], events)
  BY DEF GaplessInv, DeliveryInv, StreamsOK
<1>2. UNCHANGED events /\ p.pc # "idle"
  <2>1. UNCHANGED events /\ cl.connected
    BY DEF Disconnect, storeVars
  <2> QED
    BY <1>1, <2>1, NewClientIs DEF StreamOK
<1>3. /\ client' = [t \in Subscriptions |-> client'[t]]
      /\ channel' = [t \in Subscriptions |-> channel'[t]]
      /\ \A t \in Subscriptions \ {s} : client'[t] = client[t] /\ channel'[t] = channel[t]
      /\ channel'[s] = <<>>
      /\ dl = [cl EXCEPT !.connected = FALSE, !.status = "CANCELLED"]
  BY <1>1 DEF StreamsOK, Disconnect
<1>4. /\ dl = [f \in ClientFields |-> dl[f]] /\ dl.connected = FALSE
      /\ dl.after_seq = cl.after_seq /\ dl.cursor = cl.cursor /\ dl.received = cl.received
  BY <1>1, <1>3, ClientFieldNames DEF StreamOK
<1> HIDE DEF dl
<1>5. CASE Return(s)
  <2>1. Chain(channel'[s], cl.cursor, events[p.quote_id])
    BY <1>3, EmptyChain
  <2> QED
    BY <1>1, <1>2, <1>3, <1>4, <1>5, <2>1, ReturnKeepsStreams DEF dl
<1>6. CASE UNCHANGED pump
  <2>1. StreamOK(p, dl, <<>>, events)
    BY <1>1, <1>2, <1>4, ClientGone
  <2> QED
    BY <1>1, <1>2, <1>3, <1>6, <2>1, OneStreamChanges DEF dl
<1> QED
  BY <1>5, <1>6 DEF Disconnect

LEMMA SubInputKeepsStreams ==
  ASSUME GaplessInv, NEW s \in Subscriptions, SubInput(s)
  PROVE  StreamsOK'
<1>1. StreamsOK /\ PumpsOK
  BY DEF GaplessInv, DeliveryInv
<1>2. ASSUME NEW q \in QuoteIds, NEW after \in AfterSeqs, Subscribe(s, q, after)
      PROVE  StreamsOK'
  BY <1>2, SubscribeKeepsStreams
<1>3. CASE ReadInitFails(s)
  BY <1>1, <1>3, RejectKeepsStreams DEF ReadInitFails
<1>4. CASE ReadTailFails(s)
  BY <1>4, ReadTailFailsKeepsStreams
<1>5. CASE Disconnect(s)
  BY <1>5, DisconnectKeepsStreams
<1> QED
  BY <1>2, <1>3, <1>4, <1>5 DEF SubInput

LEMMA ProcessStopsKeepsStreams ==
  ASSUME GaplessInv, ProcessStops
  PROVE  StreamsOK'
<1>1. /\ UNCHANGED events /\ channel' = [s \in Subscriptions |-> <<>>]
      /\ client' = [s \in Subscriptions |->
                      IF client[s].connected
                      THEN [client[s] EXCEPT !.connected = FALSE, !.status = "UNAVAILABLE"]
                      ELSE client[s]]
      /\ pump' = [s \in Subscriptions |->
                    IF pump[s].pc = "idle" THEN NewPump
                    ELSE [NewPump EXCEPT !.pc = "ended", !.quote_id = pump[s].quote_id]]
  BY DEF ProcessStops, storeVars
<1>2. ASSUME NEW s \in Subscriptions
      PROVE  StreamOK(pump'[s], client'[s], channel'[s], events)
  <2> DEFINE p == pump[s]
             cl == client[s]
             dl == client'[s]
  <2>1. StreamOK(p, cl, channel[s], events)
    BY DEF GaplessInv, StreamsOK
  <2>2. channel'[s] = <<>>
    BY <1>1
  <2>3. CASE p.pc = "idle"
    <3>1. dl = NewClient
      BY <1>1, <2>1, <2>3, NewClientIs DEF StreamOK
    <3>2. pump'[s] = NewPump /\ NewPump.pc = "idle" /\ NewPump.quote_id \notin QuoteIds
      BY <1>1, <2>3, NoQuoteAssumption DEF NewPump, NoQuote
    <3> QED
      BY <2>2, <3>1, <3>2, NewClientIs DEF StreamOK
  <2>4. CASE p.pc # "idle"
    <3>1. pump'[s] = [NewPump EXCEPT !.pc = "ended", !.quote_id = p.quote_id]
      BY <1>1, <2>4
    <3>2. dl = IF cl.connected
               THEN [cl EXCEPT !.connected = FALSE, !.status = "UNAVAILABLE"] ELSE cl
      BY <1>1
    <3>3. /\ dl = [f \in ClientFields |-> dl[f]]
          /\ dl.after_seq = cl.after_seq /\ dl.cursor = cl.cursor
          /\ dl.received = cl.received
      BY <2>1, <3>2, ClientFieldNames DEF StreamOK
    <3> DEFINE n == pump'[s]
    <3>4. n = [NewPump EXCEPT !.pc = "ended", !.quote_id = p.quote_id]
      BY <3>1
    <3>5. \A r : Chain(<<>>, cl.cursor, r)
      BY EmptyChain
    <3> HIDE DEF dl, n, p, cl
    <3>6. StreamOK(n, dl, <<>>, events)
      BY <2>1, <2>4, <3>3, <3>4, <3>5, PumpEnds
    <3> QED
      BY <2>2, <3>6 DEF dl, n
  <2> QED
    BY <2>3, <2>4
<1> QED
  BY <1>1, <1>2 DEF StreamsOK

LEMMA GaplessStep == GaplessInv /\ [Next]_vars => GaplessInv'
<1> SUFFICES ASSUME GaplessInv, [Next]_vars PROVE GaplessInv'
  OBVIOUS
<1>1. DeliveryInv /\ StoreInv /\ CallsOK /\ StreamsOK
  BY DEF GaplessInv, DeliveryInv
<1>2. DeliveryInv'
  BY <1>1, DeliveryStep
<1>3. ASSUME UNCHANGED subVars PROVE StreamsOK'
  <2>1. Grows(events, events')
    BY <1>1, LedgerStep, StoreGrows
  <2> QED
    BY <1>1, <1>3, <2>1, StreamStays DEF StreamsOK, subVars
<1>4. ASSUME NEW s \in Subscriptions, SubActions(s) PROVE StreamsOK'
  <2>1. CASE PumpStep(s)
    BY <2>1, PumpStepKeepsStreams
  <2>2. CASE SubInput(s)
    BY <2>2, SubInputKeepsStreams
  <2>3. CASE ClientReceives(s)
    BY <2>3, ClientReceivesKeepsStreams
  <2> QED
    BY <1>4, <2>1, <2>2, <2>3 DEF SubActions
<1>5. ASSUME Crash PROVE StreamsOK'
  BY <1>5, ProcessStopsKeepsStreams DEF Crash
<1>6. StreamsOK'
  BY <1>3, <1>4, <1>5 DEF Next, CallActions, vars
<1> QED
  BY <1>2, <1>6 DEF GaplessInv

LEMMA GaplessInit == Init => GaplessInv
<1> SUFFICES ASSUME Init PROVE StreamsOK
  BY DeliveryInit DEF GaplessInv
<1>1. /\ pump = [s \in Subscriptions |-> NewPump]
      /\ channel = [s \in Subscriptions |-> <<>>]
      /\ client = [s \in Subscriptions |-> NewClient]
  BY DEF Init, SubInit
<1>2. NewPump.pc = "idle" /\ NewPump.quote_id \notin QuoteIds
  BY NoQuoteAssumption DEF NewPump, NoQuote
<1>3. StreamOK(NewPump, NewClient, <<>>, events)
  BY <1>2, NewClientIs DEF StreamOK
<1> QED
  BY <1>1, <1>3 DEF StreamsOK

LEMMA GaplessInvMeans == GaplessInv => DeliveryIsGapless
<1> SUFFICES ASSUME GaplessInv, NEW s \in Subscriptions, pump[s].quote_id \in QuoteIds
             PROVE  LET q == pump[s].quote_id
                        p == client[s].cursor
                    IN  /\ client[s].received
                             = [n \in client[s].after_seq + 1 .. p |-> events[q][n]]
                        /\ channel[s] # <<>> =>
                             LET next == Head(channel[s])
                             IN  /\ next.kind = "tail" =>
                                      /\ next.from_seq_exclusive = p
                                      /\ DOMAIN next.events = p + 1 .. next.to_seq_inclusive
                                 /\ next.kind = "snapshot" => next.last_seq = p
  BY DEF DeliveryIsGapless
<1> DEFINE ch == channel[s]
           cl == client[s]
           r == events[pump[s].quote_id]
           next == Head(ch)
<1>1. Flows(pump[s], cl, ch, r)
  BY DEF GaplessInv, StreamsOK, StreamOK
<1>2. cl.received = [n \in cl.after_seq + 1 .. cl.cursor |-> r[n]]
  BY <1>1 DEF Flows, Received, RowsOf
<1>3. ASSUME ch # <<>>
      PROVE  /\ UpdateOK(next, r)
             /\ next.kind # "error" => Start(next) = cl.cursor
  <2>1. PICK X : ch \in Seq(X)
    BY <1>1 DEF Flows, Chain
  <2>2. Len(ch) # 0
    BY <1>3, <2>1, EmptyIs
  <2>3. Chain(ch, cl.cursor, r)
    BY <1>1 DEF Flows
  <2> QED
    BY <2>2, <2>3, ChainTail
<1> HIDE DEF next
<1>4. ASSUME ch # <<>>
      PROVE  /\ next.kind = "tail" =>
                  /\ next.from_seq_exclusive = cl.cursor
                  /\ DOMAIN next.events = cl.cursor + 1 .. next.to_seq_inclusive
             /\ next.kind = "snapshot" => next.last_seq = cl.cursor
  BY <1>3, <1>4 DEF UpdateOK, Start, RowsOf
<1> QED
  BY <1>2, <1>4 DEF next

(* A client of SubscribeQuote receives the log, from its after_seq on,     *)
(* without a gap or a repetition, with whatever commits, failed reads,     *)
(* full channels and crashes happen meanwhile: the catch-up tail goes to   *)
(* the head of the snapshot, and each live tail from the watermark to the  *)
(* head it was read for (ledger.rs:443-545).                               *)
THEOREM DeliveryHasNoGaps == Spec => []DeliveryIsGapless
  BY GaplessInvMeans, GaplessInit, GaplessStep, PTL DEF Spec

-----------------------------------------------------------------------------
(***************************************************************************)
(* The snapshots that clients of SubscribeQuote are given, for any calls,  *)
(* subscriptions, quotes and commands.  What Replay computes plays no      *)
(* part: a snapshot was computed from rows 1 .. n of the log, n is the     *)
(* number that goes with it, and those rows are never changed.             *)
(***************************************************************************)

Fold(r, n) == ViewOf(Replay(RowsOf(r, 0, n)).quote)

IsSnapshot(n, view, r) == Segment(r, 0, n) /\ view = Fold(r, n)

(* A pump that holds a view has not sent it yet. *)
HoldsView == {"register", "tail", "snapshot"}

ViewHeld(p, r) == p.pc \in HoldsView => IsSnapshot(p.last_seq, p.view, r)

ViewsSent(ch, r) ==
  \A i \in 1 .. Len(ch) : ch[i].kind = "snapshot" => IsSnapshot(ch[i].last_seq, ch[i].view, r)

ViewReceived(cl, r) ==
  cl.snapshot.view # NoView => /\ IsSnapshot(cl.snapshot.last_seq, cl.snapshot.view, r)
                               /\ cl.snapshot.last_seq <= cl.cursor

Views(p, cl, ch, r) == ViewHeld(p, r) /\ ViewsSent(ch, r) /\ ViewReceived(cl, r)

ViewsOK ==
  \A s \in Subscriptions :
    pump[s].quote_id \in QuoteIds => Views(pump[s], client[s], channel[s], events[pump[s].quote_id])

(* The rows of a quote are a function, so that they are all that is in the *)
(* segment up to the head.                                                 *)
RowsAreFunctions == \A q \in QuoteIds : events[q] = [n \in DOMAIN events[q] |-> events[q][n]]

LEMMA RowsStayFunctions ==
  ASSUME StoreInv, RowsAreFunctions, [StoreNext]_storeVars
  PROVE  RowsAreFunctions'
<1>1. CASE UNCHANGED storeVars
  BY <1>1 DEF storeVars, RowsAreFunctions
<1>2. ASSUME NEW q \in QuoteIds, NEW k \in CommandIds, NEW evs \in EventLists,
             CommitBatch(q, k, evs)
      PROVE  RowsAreFunctions'
  <2> DEFINE rows == NewRows(q, evs)
  <2>1. DOMAIN events = QuoteIds /\ events' = [events EXCEPT ![q] = Insert(events[q], rows)]
    BY <1>2 DEF StoreInv, StoreTypeOK, CommitBatch
  <2> HIDE DEF rows
  <2>2. events'[q] = Insert(events[q], rows) /\ \A t \in QuoteIds \ {q} : events'[t] = events[t]
    BY <2>1
  <2>3. events'[q] = [n \in DOMAIN events'[q] |-> events'[q][n]]
    BY <2>2 DEF Insert
  <2> QED
    BY <2>2, <2>3 DEF RowsAreFunctions
<1> QED
  BY <1>1, <1>2, StepCases

LEMMA WholeLogIsSegment ==
  ASSUME StoreInv, RowsAreFunctions, NEW q \in QuoteIds
  PROVE  Segment(events[q], 0, HeadSeq(q)) /\ RowsOf(events[q], 0, HeadSeq(q)) = events[q]
<1>1. PICK n \in Nat : DOMAIN events[q] = 1 .. n
  BY DEF StoreInv, GaplessRows
<1>2. HeadSeq(q) = n /\ 0 + 1 .. n = 1 .. n
  BY <1>1, HeadOfRows DEF HeadSeq
<1>3. events[q] = [i \in DOMAIN events[q] |-> events[q][i]]
  BY DEF RowsAreFunctions
<1> QED
  BY <1>1, <1>2, <1>3 DEF Segment, RowsOf

(* Commits leave snapshots what they are. *)
LEMMA SnapshotStays ==
  ASSUME NEW old, NEW new, Extends(new, old), NEW n, NEW view, IsSnapshot(n, view, old)
  PROVE  IsSnapshot(n, view, new)
  BY RowsStay DEF IsSnapshot, Fold

LEMMA ViewsStay ==
  ASSUME NEW p, NEW cl, NEW ch, NEW old, NEW new, Extends(new, old), Views(p, cl, ch, old)
  PROVE  Views(p, cl, ch, new)
  BY SnapshotStays DEF Views, ViewHeld, ViewsSent, ViewReceived

-----------------------------------------------------------------------------
(* The steps of a subscription s *)

LEMMA OneViewChanges ==
  ASSUME ViewsOK, UNCHANGED events, NEW s \in Subscriptions,
         \A t \in Subscriptions \ {s} : /\ pump'[t] = pump[t] /\ client'[t] = client[t]
                                        /\ channel'[t] = channel[t],
         pump'[s].quote_id \in QuoteIds =>
           Views(pump'[s], client'[s], channel'[s], events[pump'[s].quote_id])
  PROVE  ViewsOK'
<1> SUFFICES ASSUME NEW t \in Subscriptions, pump'[t].quote_id \in QuoteIds
             PROVE  Views(pump'[t], client'[t], channel'[t], events'[pump'[t].quote_id])
  BY DEF ViewsOK
<1>1. CASE t = s
  BY <1>1
<1>2. CASE t # s
  BY <1>2 DEF ViewsOK
<1> QED
  BY <1>1, <1>2

(* A step that neither reads a view nor hands one on.                      *)
KeepsView(p, n) == n.pc \in HoldsView => /\ p.pc \in HoldsView
                                         /\ n.last_seq = p.last_seq /\ n.view = p.view

LEMMA NoViewMoves ==
  ASSUME ViewsOK, UNCHANGED events, NEW s \in Subscriptions,
         \A t \in Subscriptions \ {s} : /\ pump'[t] = pump[t] /\ client'[t] = client[t]
                                        /\ channel'[t] = channel[t],
         pump'[s].quote_id = pump[s].quote_id, KeepsView(pump[s], pump'[s]),
         channel'[s] \in {channel[s], <<>>},
         client'[s].snapshot = client[s].snapshot, client'[s].cursor = client[s].cursor
  PROVE  ViewsOK'
<1>1. ASSUME pump[s].quote_id \in QuoteIds
      PROVE  Views(pump'[s], client'[s], channel'[s], events[pump[s].quote_id])
  <2> DEFINE r == events[pump[s].quote_id]
  <2>1. Views(pump[s], client[s], channel[s], r)
    BY <1>1 DEF ViewsOK
  <2> HIDE DEF r
  <2>2. ViewHeld(pump'[s], r) /\ ViewReceived(client'[s], r)
    BY <2>1 DEF Views, ViewHeld, ViewReceived, KeepsView
  <2>3. Len(<<>>) = 0
    OBVIOUS
  <2>4. ViewsSent(channel'[s], r)
    BY <2>1, <2>3 DEF Views, ViewsSent
  <2>5. Views(pump'[s], client'[s], channel'[s], r)
    BY <2>2, <2>4 DEF Views
  <2> QED
    BY <2>5 DEF r
<1> QED
  BY <1>1, OneViewChanges

(* What every step of a pump starts from. *)
SnapshotInv == GaplessInv /\ RowsAreFunctions /\ ViewsOK

LEMMA SubscriptionHas ==
  ASSUME SnapshotInv, NEW s \in Subscriptions
  PROVE  /\ GaplessInv /\ ViewsOK
         /\ pump = [t \in Subscriptions |-> pump[t]]
         /\ client = [t \in Subscriptions |-> client[t]]
         /\ channel = [t \in Subscriptions |-> channel[t]]
         /\ pump[s] = [f \in PumpFields |-> pump[s][f]]
         /\ client[s] = [f \in ClientFields |-> client[s][f]]
         /\ pump[s].pc # "idle" /\ pump[s].quote_id \in QuoteIds =>
              /\ Flows(pump[s], client[s], channel[s], events[pump[s].quote_id])
              /\ \E X : channel[s] \in Seq(X)
<1>1. GaplessInv /\ ViewsOK /\ StreamsOK /\ PumpsOK
  BY DEF SnapshotInv, GaplessInv, DeliveryInv
<1>2. StreamOK(pump[s], client[s], channel[s], events) /\ PumpOK(pump[s], events)
  BY <1>1 DEF StreamsOK, PumpsOK
<1> QED
  BY <1>1, <1>2 DEF StreamsOK, PumpsOK, StreamOK, PumpOK, Flows, Chain

(* The handler reads the head and the view of the rows up to it, under one *)
(* lock.                                                                   *)
LEMMA ReadInitKeepsViews ==
  ASSUME SnapshotInv, NEW s \in Subscriptions, ReadInit(s)
  PROVE  ViewsOK'
<1> DEFINE p == pump[s]
           q == p.quote_id
           r == events[q]
           view == ViewOf(Replay(r).quote)
           rows == Between(q, p.after, HeadSeq(q))
           n == [p EXCEPT !.pc = "register", !.last_seq = HeadSeq(q), !.view = view,
                          !.chunk = rows]
<1>1. /\ p.pc = "init" /\ UNCHANGED <<events, client, channel>>
      /\ pump' = [pump EXCEPT ![s] = n]
  BY DEF ReadInit, storeVars
<1>2. /\ ViewsOK /\ pump = [t \in Subscriptions |-> pump[t]]
      /\ p = [f \in PumpFields |-> p[f]]
  BY SubscriptionHas
<1>3. q \in QuoteIds /\ StoreInv /\ RowsAreFunctions
  <2>1. GaplessInv /\ p.pc \in Running
    BY <1>1 DEF SnapshotInv, Running
  <2> QED
    BY <2>1, PumpHas DEF SnapshotInv
<1>4. IsSnapshot(HeadSeq(q), view, r)
  BY <1>3, WholeLogIsSegment DEF IsSnapshot, Fold
<1> HIDE DEF view, rows
<1>5. n.quote_id = q /\ n.last_seq = HeadSeq(q) /\ n.view = view
  BY <1>2, PumpFieldNames
<1> HIDE DEF n
<1>6. pump'[s] = n /\ \A t \in Subscriptions \ {s} : pump'[t] = pump[t]
  BY <1>1, <1>2
<1>7. Views(p, client[s], channel[s], r)
  BY <1>2, <1>3 DEF ViewsOK
<1>8. Views(n, client[s], channel[s], r)
  BY <1>4, <1>5, <1>7 DEF Views, ViewHeld
<1> QED
  BY <1>1, <1>2, <1>5, <1>6, <1>8, OneViewChanges

(* Steps that change the pump alone, and not what it holds.                *)
LEMMA SilentPump ==
  ASSUME SnapshotInv, NEW s \in Subscriptions, UNCHANGED <<events, client, channel>>,
         NEW n, pump' = [pump EXCEPT ![s] = n],
         n.quote_id = pump[s].quote_id, KeepsView(pump[s], n)
  PROVE  ViewsOK'
<1>1. ViewsOK /\ pump = [t \in Subscriptions |-> pump[t]]
  BY SubscriptionHas
<1>2. pump'[s] = n /\ \A t \in Subscriptions \ {s} : pump'[t] = pump[t]
  BY <1>1
<1>3. KeepsView(pump[s], pump'[s])
  BY <1>2
<1> QED
  BY <1>1, <1>2, <1>3, NoViewMoves

LEMMA SilentStepsKeepViews ==
  ASSUME SnapshotInv, NEW s \in Subscriptions,
         Register(s) \/ CheckHead(s) \/ Wake(s) \/ ReadTail(s) \/ ReadTailFails(s)
  PROVE  ViewsOK'
<1> DEFINE p == pump[s]
<1>1. p = [f \in PumpFields |-> p[f]]
  BY SubscriptionHas
<1>2. CASE Register(s)
  <2> DEFINE next == IF p.chunk = <<>> THEN "snapshot" ELSE "tail"
             n == [p EXCEPT !.pc = next]
  <2>1. /\ UNCHANGED <<events, client, channel>> /\ pump' = [pump EXCEPT ![s] = n]
        /\ p.pc = "register"
    BY <1>2 DEF Register, storeVars
  <2> HIDE DEF next
  <2>2. n.quote_id = p.quote_id /\ n.last_seq = p.last_seq /\ n.view = p.view
    BY <1>1, PumpFieldNames
  <2> HIDE DEF n
  <2>3. KeepsView(p, n)
    BY <2>1, <2>2 DEF KeepsView, HoldsView
  <2> QED
    BY <2>1, <2>2, <2>3, SilentPump
<1>3. CASE CheckHead(s) \/ Wake(s)
  <2> DEFINE head == bus[p.quote_id]
             n == IF head > p.watermark THEN [p EXCEPT !.pc = "load", !.upto = head]
                                        ELSE [p EXCEPT !.pc = "wait"]
  <2>1. UNCHANGED <<events, client, channel>> /\ pump' = [pump EXCEPT ![s] = n]
    BY <1>3 DEF CheckHead, Wake, Follow, storeVars
  <2> HIDE DEF head
  <2>2. n.quote_id = p.quote_id /\ n.pc \in {"load", "wait"}
    BY <1>1, PumpFieldNames
  <2> HIDE DEF n
  <2>3. KeepsView(p, n)
    BY <2>2 DEF KeepsView, HoldsView
  <2> QED
    BY <2>1, <2>2, <2>3, SilentPump
<1>4. CASE ReadTail(s)
  <2> DEFINE rows == Between(p.quote_id, p.watermark, p.upto)
             n == IF rows = <<>>
                  THEN [p EXCEPT !.pc = "wait", !.watermark = p.upto, !.upto = 0, !.attempt = 0]
                  ELSE [p EXCEPT !.pc = "push", !.chunk = rows, !.attempt = 0]
  <2>1. UNCHANGED <<events, client, channel>> /\ pump' = [pump EXCEPT ![s] = n]
    BY <1>4 DEF ReadTail, storeVars
  <2> HIDE DEF rows
  <2>2. n.quote_id = p.quote_id /\ n.pc \in {"push", "wait"}
    BY <1>1, PumpFieldNames
  <2> HIDE DEF n
  <2>3. KeepsView(p, n)
    BY <2>2 DEF KeepsView, HoldsView
  <2> QED
    BY <2>1, <2>2, <2>3, SilentPump
<1>5. CASE ReadTailFails(s)
  <2> DEFINE n == IF p.attempt + 1 < MaxAttempts
                  THEN [p EXCEPT !.attempt = p.attempt + 1]
                  ELSE [p EXCEPT !.pc = "fail", !.upto = 0, !.attempt = 0]
  <2>1. /\ UNCHANGED <<events, client, channel>> /\ pump' = [pump EXCEPT ![s] = n]
        /\ p.pc = "load"
    BY <1>5 DEF ReadTailFails, storeVars
  <2>2. n.quote_id = p.quote_id /\ n.pc \in {"load", "fail"}
    BY <1>1, <2>1, PumpFieldNames
  <2> HIDE DEF n
  <2>3. KeepsView(p, n)
    BY <2>2 DEF KeepsView, HoldsView
  <2> QED
    BY <2>1, <2>2, <2>3, SilentPump
<1> QED
  BY <1>2, <1>3, <1>4, <1>5

(* The pump sends u and goes on to n. *)
LEMMA SendKeepsViews ==
  ASSUME SnapshotInv, NEW s \in Subscriptions, NEW u, Send(s, u), pump[s].pc # "idle",
         NEW n, pump' = [pump EXCEPT ![s] = n],
         n.quote_id = pump[s].quote_id, KeepsView(pump[s], n),
         pump[s].quote_id \in QuoteIds /\ u.kind = "snapshot" =>
           IsSnapshot(u.last_seq, u.view, events[pump[s].quote_id])
  PROVE  ViewsOK'
<1> DEFINE p == pump[s]
           ch == channel[s]
           r == events[p.quote_id]
<1>1. UNCHANGED <<events, client>> /\ channel' = [channel EXCEPT ![s] = Append(ch, u)]
  BY DEF Send, storeVars
<1>2. /\ ViewsOK /\ pump = [t \in Subscriptions |-> pump[t]]
      /\ channel = [t \in Subscriptions |-> channel[t]]
  BY SubscriptionHas
<1>3. /\ pump'[s] = n /\ channel'[s] = Append(ch, u)
      /\ \A t \in Subscriptions \ {s} : pump'[t] = pump[t] /\ channel'[t] = channel[t]
  BY <1>1, <1>2
<1>4. ASSUME p.quote_id \in QuoteIds
      PROVE  Views(n, client[s], Append(ch, u), r)
  <2>1. Views(p, client[s], ch, r)
    BY <1>2, <1>4 DEF ViewsOK
  <2>2. PICK X : ch \in Seq(X)
    BY <1>4, SubscriptionHas
  <2>3. /\ Len(ch) \in Nat /\ Len(Append(ch, u)) = Len(ch) + 1
        /\ \A i \in 1 .. Len(ch) : Append(ch, u)[i] = ch[i]
        /\ Append(ch, u)[Len(ch) + 1] = u
    BY <2>2, AppendFacts
  <2>4. \A i \in 1 .. Len(ch) + 1 : i \in 1 .. Len(ch) \/ i = Len(ch) + 1
    BY <2>3
  <2>5. u.kind = "snapshot" => IsSnapshot(u.last_seq, u.view, r)
    BY <1>4
  <2> HIDE DEF r, ch
  <2>6. ViewsSent(Append(ch, u), r)
    BY <2>1, <2>3, <2>4, <2>5 DEF Views, ViewsSent
  <2>7. ViewHeld(n, r)
    BY <2>1 DEF Views, ViewHeld, KeepsView
  <2> QED
    BY <2>1, <2>6, <2>7 DEF Views
<1> QED
  BY <1>1, <1>2, <1>3, <1>4, OneViewChanges

LEMMA SendsKeepViews ==
  ASSUME SnapshotInv, NEW s \in Subscriptions,
         SendCatchUp(s) \/ SendSnapshot(s) \/ SendTail(s) \/ SendError(s)
  PROVE  ViewsOK'
<1> DEFINE p == pump[s]
           r == events[p.quote_id]
<1>1. p = [f \in PumpFields |-> p[f]]
  BY SubscriptionHas
<1>2. CASE SendCatchUp(s)
  <2> DEFINE u == QuoteTail(p.after, p.chunk)
             n == [p EXCEPT !.pc = "snapshot", !.chunk = <<>>]
  <2>1. p.pc = "tail" /\ Send(s, u) /\ pump' = [pump EXCEPT ![s] = n]
    BY <1>2 DEF SendCatchUp
  <2>2. u.kind = "tail"
    BY DEF QuoteTail
  <2>3. n.quote_id = p.quote_id /\ n.last_seq = p.last_seq /\ n.view = p.view
    BY <1>1, PumpFieldNames
  <2> HIDE DEF n, u
  <2>4. KeepsView(p, n)
    BY <2>1, <2>3 DEF KeepsView, HoldsView
  <2> QED
    BY <2>1, <2>2, <2>3, <2>4, SendKeepsViews
<1>3. CASE SendSnapshot(s)
  <2> DEFINE u == QuoteSnapshot(p.last_seq, p.view)
             n == [p EXCEPT !.pc = "check", !.watermark = p.last_seq, !.view = NoView]
  <2>1. p.pc = "snapshot" /\ Send(s, u) /\ pump' = [pump EXCEPT ![s] = n]
    BY <1>3 DEF SendSnapshot
  <2>2. u.kind = "snapshot" /\ u.last_seq = p.last_seq /\ u.view = p.view
    BY DEF QuoteSnapshot
  <2>3. n.quote_id = p.quote_id /\ n.pc = "check"
    BY <1>1, PumpFieldNames
  <2> HIDE DEF n, u
  <2>4. KeepsView(p, n)
    BY <2>3 DEF KeepsView, HoldsView
  <2>5. p.quote_id \in QuoteIds => IsSnapshot(u.last_seq, u.view, r)
    BY <2>1, <2>2 DEF SnapshotInv, ViewsOK, Views, ViewHeld, HoldsView
  <2> QED
    BY <2>1, <2>3, <2>4, <2>5, SendKeepsViews
<1>4. CASE SendTail(s)
  <2> DEFINE u == QuoteTail(p.watermark, p.chunk)
             n == [p EXCEPT !.pc = "wait", !.watermark = p.upto, !.upto = 0, !.chunk = <<>>]
  <2>1. p.pc = "push" /\ Send(s, u) /\ pump' = [pump EXCEPT ![s] = n]
    BY <1>4 DEF SendTail
  <2>2. u.kind = "tail"
    BY DEF QuoteTail
  <2>3. n.quote_id = p.quote_id /\ n.pc = "wait"
    BY <1>1, PumpFieldNames
  <2> HIDE DEF n, u
  <2>4. KeepsView(p, n)
    BY <2>3 DEF KeepsView, HoldsView
  <2> QED
    BY <2>1, <2>2, <2>3, <2>4, SendKeepsViews
<1>5. CASE SendError(s)
  <2> DEFINE u == Failure(StatusOf("Sqlite"))
             n == [NewPump EXCEPT !.pc = "ended", !.quote_id = p.quote_id]
  <2>1. p.pc = "fail" /\ Send(s, u) /\ pump' = [pump EXCEPT ![s] = n]
    BY <1>5 DEF SendError, Return
  <2>2. u.kind = "error"
    BY DEF Failure
  <2>3. n.quote_id = p.quote_id /\ n.pc = "ended"
    BY DEF NewPump
  <2> HIDE DEF n, u
  <2>4. KeepsView(p, n)
    BY <2>3 DEF KeepsView, HoldsView
  <2> QED
    BY <2>1, <2>2, <2>3, <2>4, SendKeepsViews
<1> QED
  BY <1>2, <1>3, <1>4, <1>5

(* The handler or the pump returns, or the client leaves. *)
LEMMA EndsKeepViews ==
  ASSUME SnapshotInv, NEW s \in Subscriptions,
         RejectInit(s) \/ ReadInitFails(s) \/ Abandon(s) \/ Disconnect(s)
  PROVE  ViewsOK'
<1> DEFINE p == pump[s]
           cl == client[s]
           dl == client'[s]
<1>1. /\ ViewsOK /\ pump = [t \in Subscriptions |-> pump[t]]
      /\ client = [t \in Subscriptions |-> client[t]]
      /\ channel = [t \in Subscriptions |-> channel[t]]
      /\ cl = [f \in ClientFields |-> cl[f]]
  BY SubscriptionHas
<1>2. UNCHANGED events
  BY DEF RejectInit, ReadInitFails, Reject, Abandon, Disconnect, storeVars
<1>3. ASSUME Return(s) \/ UNCHANGED pump
      PROVE  /\ pump'[s].quote_id = p.quote_id /\ KeepsView(p, pump'[s])
             /\ \A t \in Subscriptions \ {s} : pump'[t] = pump[t]
  <2> DEFINE n == [NewPump EXCEPT !.pc = "ended", !.quote_id = p.quote_id]
  <2>1. CASE Return(s)
    <3>1. pump' = [pump EXCEPT ![s] = n]
      BY <2>1 DEF Return
    <3>2. n.pc = "ended" /\ n.quote_id = p.quote_id
      BY DEF NewPump
    <3> HIDE DEF n
    <3>3. pump'[s] = n /\ \A t \in Subscriptions \ {s} : pump'[t] = pump[t]
      BY <1>1, <3>1
    <3> QED
      BY <3>2, <3>3 DEF KeepsView, HoldsView
  <2>2. CASE UNCHANGED pump
    BY <2>2 DEF KeepsView
  <2> QED
    BY <1>3, <2>1, <2>2
<1>4. Return(s) \/ UNCHANGED pump
  BY DEF RejectInit, ReadInitFails, Reject, Abandon, Disconnect
<1>5. /\ channel'[s] \in {channel[s], <<>>}
      /\ \A t \in Subscriptions \ {s} : channel'[t] = channel[t]
  BY <1>1 DEF RejectInit, ReadInitFails, Reject, Abandon, Disconnect
<1>6. /\ dl.snapshot = cl.snapshot /\ dl.cursor = cl.cursor
      /\ \A t \in Subscriptions \ {s} : client'[t] = client[t]
  <2>1. ASSUME NEW status,
               client' = [client EXCEPT ![s].connected = FALSE, ![s].status = status]
        PROVE  /\ dl.snapshot = cl.snapshot /\ dl.cursor = cl.cursor
               /\ \A t \in Subscriptions \ {s} : client'[t] = client[t]
    <3>1. /\ dl = [cl EXCEPT !.connected = FALSE, !.status = status]
          /\ \A t \in Subscriptions \ {s} : client'[t] = client[t]
      BY <1>1, <2>1
    <3> QED
      BY <1>1, <3>1, ClientFieldNames
  <2>2. CASE RejectInit(s) \/ ReadInitFails(s)
    BY <2>1, <2>2 DEF RejectInit, ReadInitFails, Reject
  <2>3. CASE Disconnect(s)
    BY <2>1, <2>3 DEF Disconnect
  <2>4. CASE Abandon(s)
    BY <2>4 DEF Abandon
  <2> QED
    BY <2>2, <2>3, <2>4
<1> QED
  BY <1>1, <1>2, <1>3, <1>4, <1>5, <1>6, NoViewMoves

(* A subscription begins without a view. *)
LEMMA NoViewYet ==
  ASSUME NEW p, NEW cl, NEW r, p.pc \notin HoldsView, cl.snapshot = NewClient.snapshot
  PROVE  Views(p, cl, <<>>, r)
<1>1. NewClient.snapshot.view = NoView /\ Len(<<>>) = 0
  BY DEF NewClient
<1> QED
  BY <1>1 DEF Views, ViewHeld, ViewsSent, ViewReceived

LEMMA SubscribeKeepsViews ==
  ASSUME SnapshotInv, NEW s \in Subscriptions, NEW q \in QuoteIds, NEW after \in AfterSeqs,
         Subscribe(s, q, after)
  PROVE  ViewsOK'
<1> DEFINE p == pump[s]
           n == pump'[s]
           cl == client[s]
           dl == client'[s]
<1>1. /\ ViewsOK /\ pump = [t \in Subscriptions |-> pump[t]]
      /\ client = [t \in Subscriptions |-> client[t]]
      /\ p = [f \in PumpFields |-> p[f]] /\ cl = [f \in ClientFields |-> cl[f]]
  BY SubscriptionHas
<1>2. p.pc = "idle" /\ UNCHANGED <<events, channel>>
  BY DEF Subscribe, storeVars
<1>3. cl = NewClient /\ channel[s] = <<>>
  BY <1>2 DEF SnapshotInv, GaplessInv, StreamsOK, StreamOK
<1>4. /\ \A t \in Subscriptions \ {s} : pump'[t] = pump[t] /\ client'[t] = client[t]
      /\ n = [p EXCEPT !.pc = "init", !.quote_id = q, !.after = after]
      /\ dl = [cl EXCEPT !.connected = TRUE, !.after_seq = after, !.cursor = after]
  BY <1>1 DEF Subscribe
<1>5. n.pc = "init" /\ dl.snapshot = cl.snapshot
  BY <1>1, <1>4, PumpFieldNames, ClientFieldNames
<1> HIDE DEF n, dl
<1>6. \A r : Views(n, dl, <<>>, r)
  BY <1>3, <1>5, NoViewYet DEF HoldsView
<1>7. channel'[s] = <<>> /\ \A t \in Subscriptions \ {s} : channel'[t] = channel[t]
  BY <1>2, <1>3
<1>8. Views(n, dl, channel'[s], events[n.quote_id])
  BY <1>6, <1>7
<1> QED
  BY <1>1, <1>2, <1>4, <1>7, <1>8, OneViewChanges DEF n, dl

(* The client takes its next update: its cursor does not go back, and      *)
(* stands at a snapshot when it receives one.                              *)
LEMMA ClientReceivesKeepsViews ==
  ASSUME SnapshotInv, NEW s \in Subscriptions, ClientReceives(s)
  PROVE  ViewsOK'
<1> DEFINE p == pump[s]
           cl == client[s]
           dl == client'[s]
           ch == channel[s]
           u == Head(ch)
           r == events[p.quote_id]
           next == CASE u.kind = "tail" ->
                          [cl EXCEPT !.received = Insert(cl.received, u.events),
                                     !.cursor = u.to_seq_inclusive]
                     [] u.kind = "snapshot" ->
                          [cl EXCEPT !.cursor = u.last_seq,
                                     !.snapshot = [last_seq |-> u.last_seq, view |-> u.view]]
                     [] u.kind = "error" ->
                          [cl EXCEPT !.connected = FALSE, !.status = u.status]
<1>1. /\ ViewsOK /\ StreamsOK /\ client = [t \in Subscriptions |-> client[t]]
      /\ channel = [t \in Subscriptions |-> channel[t]]
      /\ cl = [f \in ClientFields |-> cl[f]]
  BY SubscriptionHas DEF SnapshotInv, GaplessInv
<1>2. /\ UNCHANGED <<events, pump>> /\ cl.connected /\ ch # <<>>
      /\ channel' = [channel EXCEPT ![s] = Tail(ch)] /\ client' = [client EXCEPT ![s] = next]
  BY DEF ClientReceives, storeVars
<1>3. p.pc # "idle"
  BY <1>1, <1>2, NewClientIs DEF StreamsOK, StreamOK
<1> HIDE DEF next
<1>4. /\ \A t \in Subscriptions \ {s} : client'[t] = client[t] /\ channel'[t] = channel[t]
      /\ channel'[s] = Tail(ch) /\ dl = next
  BY <1>1, <1>2
<1> HIDE DEF u, dl
<1>5. ASSUME p.quote_id \in QuoteIds PROVE Views(p, dl, Tail(ch), r)
  <2>1. Views(p, cl, ch, r)
    BY <1>1, <1>5 DEF ViewsOK
  <2>2. Flows(p, cl, ch, r) /\ \E X : ch \in Seq(X)
    BY <1>3, <1>5, SubscriptionHas
  <2>3. PICK X : ch \in Seq(X)
    BY <2>2
  <2>4. Len(ch) # 0
    BY <1>2, <2>3, EmptyIs
  <2>5. /\ Len(ch) \in Nat \ {0} /\ Len(Tail(ch)) = Len(ch) - 1
        /\ \A i \in 1 .. Len(ch) - 1 : Tail(ch)[i] = ch[i + 1]
        /\ u = ch[1]
    BY <2>3, <2>4, TailFacts DEF u
  <2>6. ViewsSent(Tail(ch), r)
    <3>1. \A i \in 1 .. Len(ch) - 1 : i + 1 \in 1 .. Len(ch)
      BY <2>5
    <3> QED
      BY <2>1, <2>5, <3>1 DEF Views, ViewsSent
  <2>7. u.kind = "snapshot" => IsSnapshot(u.last_seq, u.view, r)
    <3>1. 1 \in 1 .. Len(ch)
      BY <2>5
    <3> QED
      BY <2>1, <2>5, <3>1 DEF Views, ViewsSent
  <2>8. UpdateOK(u, r) /\ (u.kind # "error" => Start(u) = cl.cursor)
    <3>1. Chain(ch, cl.cursor, r)
      BY <2>2 DEF Flows
    <3> QED
      BY <2>4, <3>1, ChainTail DEF u
  <2>9. ViewReceived(dl, r)
    <3>1. CASE u.kind = "tail"
      <4> DEFINE rows == Insert(cl.received, u.events)
      <4>1. dl = [cl EXCEPT !.received = rows, !.cursor = u.to_seq_inclusive]
        BY <1>4, <3>1 DEF next
      <4> HIDE DEF rows
      <4>2. dl.snapshot = cl.snapshot /\ dl.cursor = u.to_seq_inclusive
        BY <1>1, <4>1, ClientFieldNames
      <4>3. cl.cursor \in Nat /\ u.to_seq_inclusive \in Nat /\ cl.cursor <= u.to_seq_inclusive
        BY <2>8, <3>1 DEF UpdateOK, Start, Segment
      <4>4. ViewReceived(cl, r)
        BY <2>1 DEF Views
      <4> QED
        BY <4>2, <4>3, <4>4 DEF ViewReceived, IsSnapshot, Segment
    <3>2. CASE u.kind = "snapshot"
      <4> DEFINE snapshot == [last_seq |-> u.last_seq, view |-> u.view]
      <4>1. dl = [cl EXCEPT !.cursor = u.last_seq, !.snapshot = snapshot]
        BY <1>4, <3>2 DEF next
      <4>2. snapshot.last_seq = u.last_seq /\ snapshot.view = u.view
        OBVIOUS
      <4> HIDE DEF snapshot
      <4>3. dl.snapshot = snapshot /\ dl.cursor = u.last_seq
        BY <1>1, <4>1, ClientFieldNames
      <4>4. u.last_seq \in Nat
        BY <2>7, <3>2 DEF IsSnapshot, Segment
      <4> QED
        BY <2>7, <3>2, <4>2, <4>3, <4>4 DEF ViewReceived
    <3>3. CASE u.kind = "error"
      <4>1. dl = [cl EXCEPT !.connected = FALSE, !.status = u.status]
        BY <1>4, <3>3 DEF next
      <4>2. dl.snapshot = cl.snapshot /\ dl.cursor = cl.cursor
        BY <1>1, <4>1, ClientFieldNames
      <4> QED
        BY <2>1, <4>2 DEF Views, ViewReceived
    <3> QED
      BY <2>8, <3>1, <3>2, <3>3 DEF UpdateOK
  <2> QED
    BY <2>1, <2>6, <2>9 DEF Views
<1> QED
  BY <1>1, <1>2, <1>4, <1>5, OneViewChanges DEF dl

(* Clients keep their snapshots when the process stops. *)
LEMMA ProcessStopsKeepsViews ==
  ASSUME SnapshotInv, ProcessStops
  PROVE  ViewsOK'
<1>1. /\ UNCHANGED events /\ channel' = [s \in Subscriptions |-> <<>>]
      /\ client' = [s \in Subscriptions |->
                      IF client[s].connected
                      THEN [client[s] EXCEPT !.connected = FALSE, !.status = "UNAVAILABLE"]
                      ELSE client[s]]
      /\ pump' = [s \in Subscriptions |->
                    IF pump[s].pc = "idle" THEN NewPump
                    ELSE [NewPump EXCEPT !.pc = "ended", !.quote_id = pump[s].quote_id]]
  BY DEF ProcessStops, storeVars
<1> SUFFICES ASSUME NEW s \in Subscriptions, pump'[s].quote_id \in QuoteIds
             PROVE  Views(pump'[s], client'[s], channel'[s], events[pump'[s].quote_id])
  BY <1>1 DEF ViewsOK
<1> DEFINE p == pump[s]
           n == pump'[s]
           cl == client[s]
           dl == client'[s]
<1>2. channel'[s] = <<>>
  BY <1>1
<1>3. ViewsOK /\ cl = [f \in ClientFields |-> cl[f]]
  BY SubscriptionHas
<1>4. p.pc # "idle" /\ n.pc = "ended" /\ n.quote_id = p.quote_id
  <2>1. NewPump.quote_id \notin QuoteIds
    BY NoQuoteAssumption DEF NewPump, NoQuote
  <2>2. p.pc # "idle"
    BY <1>1, <2>1
  <2>3. n = [NewPump EXCEPT !.pc = "ended", !.quote_id = p.quote_id]
    BY <1>1, <2>2
  <2> QED
    BY <2>2, <2>3 DEF NewPump
<1>5. dl.snapshot = cl.snapshot /\ dl.cursor = cl.cursor
  <2>1. dl = IF cl.connected
             THEN [cl EXCEPT !.connected = FALSE, !.status = "UNAVAILABLE"] ELSE cl
    BY <1>1
  <2> QED
    BY <1>3, <2>1, ClientFieldNames
<1> HIDE DEF n, dl, cl
<1> DEFINE r == events[p.quote_id]
<1>6. ViewReceived(cl, r)
  BY <1>3, <1>4 DEF ViewsOK, Views, cl, n
<1> HIDE DEF r
<1>7. ViewReceived(dl, r)
  BY <1>5, <1>6 DEF ViewReceived
<1>8. ViewHeld(n, r) /\ Len(<<>>) = 0
  BY <1>4 DEF ViewHeld, HoldsView
<1>9. Views(n, dl, <<>>, r)
  BY <1>7, <1>8 DEF Views, ViewsSent
<1> QED
  BY <1>2, <1>4, <1>9 DEF n, dl, r

-----------------------------------------------------------------------------

LEMMA SnapshotStep == SnapshotInv /\ [Next]_vars => SnapshotInv'
<1> SUFFICES ASSUME SnapshotInv, [Next]_vars PROVE SnapshotInv'
  OBVIOUS
<1>1. GaplessInv /\ StoreInv /\ CallsOK /\ RowsAreFunctions /\ ViewsOK
  BY DEF SnapshotInv, GaplessInv, DeliveryInv
<1>2. GaplessInv'
  BY <1>1, GaplessStep
<1>3. [StoreNext]_storeVars
  BY <1>1, LedgerStep
<1>4. RowsAreFunctions'
  BY <1>1, <1>3, RowsStayFunctions
<1>5. ASSUME UNCHANGED subVars PROVE ViewsOK'
  <2>1. Grows(events, events')
    BY <1>1, <1>3, StoreGrows
  <2>2. UNCHANGED <<pump, client, channel>>
    BY <1>5 DEF subVars
  <2>3. ASSUME NEW s \in Subscriptions, pump[s].quote_id \in QuoteIds
        PROVE  Views(pump[s], client[s], channel[s], events'[pump[s].quote_id])
    <3>1. Views(pump[s], client[s], channel[s], events[pump[s].quote_id])
      BY <1>1, <2>3 DEF ViewsOK
    <3>2. Extends(events'[pump[s].quote_id], events[pump[s].quote_id])
      BY <2>1, <2>3 DEF Grows
    <3> QED
      BY <3>1, <3>2, ViewsStay
  <2> QED
    BY <2>2, <2>3 DEF ViewsOK
<1>6. ASSUME NEW s \in Subscriptions, SubActions(s) PROVE ViewsOK'
  <2>1. CASE PumpStep(s)
    BY <2>1, ReadInitKeepsViews, SilentStepsKeepViews, SendsKeepViews, EndsKeepViews DEF PumpStep
  <2>2. CASE SubInput(s)
    BY <2>2, SubscribeKeepsViews, SilentStepsKeepViews, EndsKeepViews DEF SubInput
  <2>3. CASE ClientReceives(s)
    BY <2>3, ClientReceivesKeepsViews
  <2> QED
    BY <1>6, <2>1, <2>2, <2>3 DEF SubActions
<1>7. ASSUME Crash PROVE ViewsOK'
  BY <1>7, ProcessStopsKeepsViews DEF Crash
<1>8. ViewsOK'
  BY <1>5, <1>6, <1>7 DEF Next, CallActions, vars
<1> QED
  BY <1>2, <1>4, <1>8 DEF SnapshotInv

LEMMA SnapshotInit == Init => SnapshotInv
<1> SUFFICES ASSUME Init PROVE SnapshotInv
  OBVIOUS
<1>1. GaplessInv
  BY GaplessInit
<1>2. RowsAreFunctions
  <2>1. \A q \in QuoteIds : events[q] = <<>>
    BY DEF Init, StoreInit
  <2>2. <<>> = [n \in DOMAIN <<>> |-> <<>>[n]]
    OBVIOUS
  <2> QED
    BY <2>1, <2>2 DEF RowsAreFunctions
<1>3. ViewsOK
  <2>1. \A s \in Subscriptions : pump[s] = NewPump
    BY DEF Init, SubInit
  <2>2. NewPump.quote_id \notin QuoteIds
    BY NoQuoteAssumption DEF NewPump, NoQuote
  <2> QED
    BY <2>1, <2>2 DEF ViewsOK
<1> QED
  BY <1>1, <1>2, <1>3 DEF SnapshotInv

LEMMA SnapshotInvMeans == SnapshotInv => SnapshotIsTheFold
<1> SUFFICES ASSUME SnapshotInv, NEW s \in Subscriptions,
                    client[s].snapshot.view # NoView
             PROVE  LET got == client[s].snapshot
                    IN  /\ got.last_seq <= client[s].cursor
                        /\ got.view = ViewOf(Replay(Between(pump[s].quote_id, 0, got.last_seq)).quote)
  BY DEF SnapshotIsTheFold
<1> DEFINE got == client[s].snapshot
           q == pump[s].quote_id
           r == events[q]
<1>1. q \in QuoteIds
  <2>1. StreamOK(pump[s], client[s], channel[s], events)
    BY DEF SnapshotInv, GaplessInv, StreamsOK
  <2>2. NewClient.snapshot.view = NoView
    BY DEF NewClient
  <2> QED
    BY <2>1, <2>2 DEF StreamOK
<1>2. /\ IsSnapshot(got.last_seq, got.view, r) /\ got.last_seq <= client[s].cursor
  BY <1>1 DEF SnapshotInv, ViewsOK, Views, ViewReceived
<1>3. StoreInv
  BY DEF SnapshotInv, GaplessInv, DeliveryInv
<1>4. PICK n \in Nat : DOMAIN r = 1 .. n
  BY <1>1, <1>3 DEF StoreInv, GaplessRows
<1>5. got.last_seq \in Nat /\ got.last_seq <= n
  BY <1>2, <1>4 DEF IsSnapshot, Segment
<1>6. HeadSeq(q) = n
  BY <1>4, HeadOfRows DEF HeadSeq
<1>7. Between(q, 0, got.last_seq) = RowsOf(r, 0, got.last_seq)
  <2> HIDE DEF got, q
  <2>1. 0 \in Nat /\ 0 <= got.last_seq
    BY <1>5
  <2> QED
    BY <1>1, <1>3, <1>5, <1>6, <2>1, BetweenIsSegment
<1> QED
  BY <1>2, <1>7 DEF IsSnapshot, Fold

(* The snapshot a client of SubscribeQuote has been given is the fold of   *)
(* the events up to the sequence number it names, and the client has those *)
(* events or asked for none of them, whatever was committed between the    *)
(* read of the view and its delivery (ledger.rs:376-457).                  *)
THEOREM SnapshotsAreFolds == Spec => []SnapshotIsTheFold
  BY SnapshotInvMeans, SnapshotInit, SnapshotStep, PTL DEF Spec
=============================================================================
