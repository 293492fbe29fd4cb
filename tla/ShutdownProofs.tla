---------------------------- MODULE ShutdownProofs ----------------------------
(***************************************************************************)
(* The counter of the appends in flight, the drain that waits on it, and   *)
(* the types of the service and of its process, for any calls,             *)
(* subscriptions, quotes and commands.                                     *)
(***************************************************************************)
EXTENDS Shutdown, GaplessProofs, FiniteSetTheorems

Appends == {c \in Calls : InAppendOne(c)}

CountOK == in_flight_appends = Cardinality(Appends)

One(x) == IF x.pc \in {"db", "publish"} THEN 1 ELSE 0

(* What a step of call c does to it: it ends, it goes on with the command  *)
(* it has, or it takes the next.                                           *)
Moves(c, x, y) ==
  /\ call' = [d \in Calls |-> call'[d]] /\ call'[c] = y
  /\ \A d \in Calls \ {c} : call'[d] = call[d]
  /\ \/ y.pc \in {"done", "detached"}
     \/ /\ x.pc \in {"db", "publish"} /\ y.pc \in {"recv", "publish"}
        /\ y.command_count = x.command_count
     \/ x.pc = "recv" /\ y.pc = "db" /\ y.command_count = x.command_count + 1

LEMMA OneIs ==
  \A x : /\ x.pc \in {"db", "publish"} => One(x) = 1
         /\ x.pc \notin {"db", "publish"} => One(x) = 0
  BY DEF One

LEMMA EndMoves ==
  ASSUME CallsOK, NEW c \in Calls, NEW status, call' = [call EXCEPT ![c] = Ended(status)]
  PROVE  Moves(c, call[c], call'[c]) /\ One(call'[c]) = 0
<1>1. Ended(status).pc = "done"
  BY DEF Ended, NewCall
<1>2. /\ call' = [d \in Calls |-> call'[d]] /\ call'[c] = Ended(status)
      /\ \A d \in Calls \ {c} : call'[d] = call[d]
  BY DEF CallsOK
<1> QED
  BY <1>1, <1>2 DEF Moves, One

(* The guard of the counter is made on the way into append_one, and        *)
(* dropped on each way out of it.                                          *)
LEMMA CallMoves ==
  ASSUME CallsOK, in_flight_appends \in Int, NEW c \in Calls, CallActions(c)
  PROVE  /\ Moves(c, call[c], call'[c])
         /\ in_flight_appends' = in_flight_appends + One(call'[c]) - One(call[c])
<1> DEFINE x == call[c]
           y == call'[c]
           Goal == /\ Moves(c, x, y)
                   /\ in_flight_appends' = in_flight_appends + One(y) - One(x)
<1>1. call = [d \in Calls |-> call[d]] /\ IsCall(x)
  BY DEF CallsOK, CallOK
<1>2. ASSUME NEW r \in Requests, Receive(c, r) PROVE Goal
  <2>1. /\ call' = [d \in Calls |-> call'[d]]
        /\ \A d \in Calls \ {c} : call'[d] = call[d]
        /\ y = [x EXCEPT !.pc = "db", !.quote_id = r.quote_id,
                         !.command_count = x.command_count + 1, !.request = r]
    BY <1>1, <1>2 DEF Receive
  <2>2. y.pc = "db" /\ y.command_count = x.command_count + 1
    BY <1>1, <2>1, CallFieldNames DEF IsCall
  <2>3. x.pc = "recv"
    BY <1>2 DEF Receive
  <2>4. in_flight_appends' = in_flight_appends + 1
    BY <1>2 DEF Receive
  <2> QED
    <3>1. One(x) = 0 /\ One(y) = 1
      BY <2>2, <2>3, OneIs
    <3> QED
      BY <2>1, <2>2, <2>3, <2>4, <3>1 DEF Moves
<1>3. ASSUME NEW r \in Requests, Refuse(c, r) PROVE Goal
  <2>1. Moves(c, x, y) /\ One(y) = 0 /\ One(x) = 0
    BY <1>3, EndMoves, OneIs DEF Refuse
  <2> QED
    BY <1>3, <2>1 DEF Refuse
<1>4. CASE EndOfStream(c)
  <2>1. /\ call' = [d \in Calls |-> call'[d]]
        /\ \A d \in Calls \ {c} : call'[d] = call[d]
        /\ y = IF x.quote_id = NoQuote THEN Ended("INVALID_ARGUMENT")
               ELSE [Ended("OK") EXCEPT !.quote_id = x.quote_id, !.committed = x.committed]
    BY <1>1, <1>4 DEF EndOfStream
  <2>2. \A status : IsCall(Ended(status)) /\ Ended(status).pc = "done"
    BY EmptyCallsAreCalls DEF Ended, NewCall
  <2>3. y.pc = "done"
    BY <2>1, <2>2, CallFieldNames DEF IsCall
  <2> QED
    BY <1>4, <2>1, <2>3 DEF EndOfStream, Moves, One
<1>5. CASE IdleTimeout(c)
  <2>1. Moves(c, x, y) /\ One(y) = 0 /\ One(x) = 0
    BY <1>5, EndMoves, OneIs DEF IdleTimeout
  <2> QED
    BY <1>5, <2>1 DEF IdleTimeout
<1>6. CASE RunClosure(c)
  <2> DEFINE r == x.request
  <2>1. PICK error : Resume(c, r, error)
    BY <1>6 DEF RunClosure
  <2>2. CASE error = "Ok" /\ Accepted(AnswerTo(r, error))
    <3> DEFINE rows == ReturnedRows(r.quote_id, r.client_command_id,
                                    CommandToEvents(r.command))
    <3>1. /\ call' = [d \in Calls |-> call'[d]]
          /\ \A d \in Calls \ {c} : call'[d] = call[d]
          /\ y = [x EXCEPT !.pc = "publish", !.stored = rows]
          /\ UNCHANGED in_flight_appends
      BY <1>1, <2>1, <2>2 DEF Resume
    <3>2. y.pc = "publish" /\ y.command_count = x.command_count
      <4> HIDE DEF rows
      <4> QED
        BY <1>1, <3>1, CallFieldNames DEF IsCall
    <3> QED
      BY <1>6, <3>1, <3>2 DEF RunClosure, Moves, One
  <2>3. CASE ~(error = "Ok" /\ Accepted(AnswerTo(r, error)))
    <3>1. /\ call' = [call EXCEPT ![c] = Ended(StatusOf(AnswerTo(r, error)))]
          /\ in_flight_appends' = in_flight_appends - 1
      BY <2>1, <2>3 DEF Resume
    <3>2. Moves(c, x, y) /\ One(y) = 0
      BY <3>1, EndMoves
    <3> QED
      BY <1>6, <3>1, <3>2 DEF RunClosure, One
  <2> QED
    BY <2>2, <2>3
<1>7. CASE SqliteError(c)
  <2>1. Moves(c, x, y) /\ One(y) = 0
    BY <1>7, EndMoves DEF SqliteError
  <2> QED
    BY <1>7, <2>1 DEF SqliteError, One
<1>8. CASE Publish(c)
  <2>1. /\ call' = [d \in Calls |-> call'[d]]
        /\ \A d \in Calls \ {c} : call'[d] = call[d]
        /\ y = [x EXCEPT !.pc = "recv", !.request = NoRequest, !.stored = <<>>,
                         !.committed = Append(x.committed, x.stored)]
    BY <1>1, <1>8 DEF Publish
  <2>2. y.pc = "recv" /\ y.command_count = x.command_count
    BY <1>1, <2>1, CallFieldNames DEF IsCall
  <2>3. x.pc = "publish"
    BY <1>8 DEF Publish
  <2>4. in_flight_appends' = in_flight_appends - 1
    BY <1>8 DEF Publish
  <2> QED
    <3>1. One(x) = 1 /\ One(y) = 0
      BY <2>2, <2>3, OneIs
    <3> QED
      BY <2>1, <2>2, <2>3, <2>4, <3>1 DEF Moves
<1>9. CASE Cancel(c)
  <2>1. /\ call' = [d \in Calls |-> call'[d]]
        /\ \A d \in Calls \ {c} : call'[d] = call[d]
        /\ y = IF x.pc = "db"
               THEN [Ended("CANCELLED") EXCEPT !.pc = "detached", !.request = x.request]
               ELSE Ended("CANCELLED")
    BY <1>1, <1>9 DEF Cancel
  <2>2. IsCall(Ended("CANCELLED")) /\ Ended("CANCELLED").pc = "done"
    BY EmptyCallsAreCalls DEF Ended, NewCall
  <2>3. y.pc \in {"done", "detached"}
    BY <2>1, <2>2, CallFieldNames DEF IsCall
  <2> QED
    BY <1>9, <2>1, <2>3 DEF Cancel, InAppendOne, Moves, One
<1>10. CASE RunDetached(c)
  <2>1. Moves(c, x, y) /\ One(y) = 0
    BY <1>10, EndMoves DEF RunDetached
  <2> QED
    BY <1>10, <2>1 DEF RunDetached, One
<1> QED
  BY <1>2, <1>3, <1>4, <1>5, <1>6, <1>7, <1>8, <1>9, <1>10
  DEF CallActions, CallStep, CallInput

LEMMA CountIsInt == CountOK => in_flight_appends \in Int
<1>1. IsFiniteSet(Appends)
  BY CallsAssumption, FS_Subset DEF Appends
<1> QED
  BY <1>1, FS_CardinalityType DEF CountOK

LEMMA CountFollows ==
  ASSUME CountOK, NEW c \in Calls, Moves(c, call[c], call'[c]),
         in_flight_appends' = in_flight_appends + One(call'[c]) - One(call[c])
  PROVE  CountOK'
<1> DEFINE x == call[c]
           y == call'[c]
           S == Appends
           T == Appends'
<1>1. IsFiniteSet(S) /\ Cardinality(S) \in Nat
  BY CallsAssumption, FS_Subset, FS_CardinalityType DEF Appends
<1>2. c \in S <=> x.pc \in {"db", "publish"}
  BY DEF Appends, InAppendOne
<1>3. c \in T <=> y.pc \in {"db", "publish"}
  BY DEF Appends, InAppendOne
<1>4. S \ {c} = T \ {c}
  BY DEF Appends, InAppendOne, Moves
<1>5. in_flight_appends = Cardinality(S)
  BY DEF CountOK
<1> HIDE DEF S, T
<1>6. CASE c \in S /\ c \in T
  <2>1. S = T
    BY <1>4, <1>6
  <2>2. One(x) = 1 /\ One(y) = 1
    BY <1>2, <1>3, <1>6, OneIs
  <2>3. in_flight_appends' = Cardinality(T)
    BY <1>1, <1>5, <2>1, <2>2
  <2> QED
    BY <2>3 DEF CountOK, T
<1>7. CASE c \in S /\ c \notin T
  <2>1. T = S \ {c}
    BY <1>4, <1>7
  <2>2. Cardinality(T) = Cardinality(S) - 1
    BY <1>1, <1>7, <2>1, FS_RemoveElement
  <2>3. One(x) = 1 /\ One(y) = 0
    BY <1>2, <1>3, <1>7, OneIs
  <2>4. in_flight_appends' = Cardinality(T)
    BY <1>1, <1>5, <2>2, <2>3
  <2> QED
    BY <2>4 DEF CountOK, T
<1>8. CASE c \notin S /\ c \in T
  <2>1. T = S \cup {c}
    BY <1>4, <1>8
  <2>2. Cardinality(T) = Cardinality(S) + 1
    BY <1>1, <1>8, <2>1, FS_AddElement
  <2>3. One(x) = 0 /\ One(y) = 1
    BY <1>2, <1>3, <1>8, OneIs
  <2>4. in_flight_appends' = Cardinality(T)
    BY <1>1, <1>5, <2>2, <2>3
  <2> QED
    BY <2>4 DEF CountOK, T
<1>9. CASE c \notin S /\ c \notin T
  <2>1. S = T
    BY <1>4, <1>9
  <2>2. One(x) = 0 /\ One(y) = 0
    BY <1>2, <1>3, <1>9, OneIs
  <2>3. in_flight_appends' = Cardinality(T)
    BY <1>1, <1>5, <2>1, <2>2
  <2> QED
    BY <2>3 DEF CountOK, T
<1> QED
  BY <1>6, <1>7, <1>8, <1>9

-----------------------------------------------------------------------------
(* The appends Ctrl+C found.  Such an append, a pair of its call and the   *)
(* number of its command, is still inside append_one, or over for good:    *)
(* its call has ended, or has taken a later command.                       *)
Known(a, x) ==
  /\ a[2] \in Nat \ {0}
  /\ x.pc \in {"done", "detached"} \/ (x.command_count \in Nat /\ a[2] <= x.command_count)

Over(a, x) == x.pc \notin {"db", "publish"} \/ a[2] < x.command_count

AwaitedOK ==
  /\ phase \in Phases /\ expired \in BOOLEAN
  /\ phase = "serving" => awaited = {} /\ ~expired
  /\ \A a \in awaited : a[1] \in Calls /\ Known(a, call[a[1]])
  /\ phase \in {"graceful", "closed", "returned", "exited"} /\ ~expired =>
       \A a \in awaited : Over(a, call[a[1]])

LEMMA AwaitedFollow ==
  ASSUME AwaitedOK, NEW c \in Calls, Moves(c, call[c], call'[c]),
         call[c].pc \notin {"done", "detached"} \/ call'[c].pc \in {"done", "detached"},
         UNCHANGED <<phase, expired, awaited>>
  PROVE  AwaitedOK'
<1> DEFINE x == call[c]
           y == call'[c]
<1>2. ASSUME NEW a \in awaited PROVE Known(a, call'[a[1]])
  <2>1. Known(a, call[a[1]]) /\ a[1] \in Calls
    BY DEF AwaitedOK
  <2>2. CASE a[1] # c
    BY <2>1, <2>2 DEF Moves
  <2>3. CASE a[1] = c
    BY <2>1, <2>3 DEF Moves, Known
  <2> QED
    BY <2>2, <2>3
<1>3. ASSUME NEW a \in awaited, Over(a, call[a[1]]) PROVE Over(a, call'[a[1]])
  <2>1. Known(a, call[a[1]]) /\ a[1] \in Calls
    BY DEF AwaitedOK
  <2>2. CASE a[1] # c
    BY <1>3, <2>1, <2>2 DEF Moves
  <2>3. CASE a[1] = c
    BY <1>3, <2>1, <2>3 DEF Moves, Known, Over
  <2> QED
    BY <2>2, <2>3
<1> QED
  BY <1>2, <1>3 DEF AwaitedOK

ShutdownInv == StoreInv /\ CallsOK /\ CountOK /\ AwaitedOK

LEMMA ServeCallStep ==
  ASSUME ShutdownInv, NEW c \in Calls, ServeCall(c)
  PROVE  ShutdownInv'
<1>1. StoreInv /\ CallsOK /\ CountOK /\ AwaitedOK /\ CallActions(c) /\ UNCHANGED shutdownVars
  BY DEF ShutdownInv, ServeCall
<1>2. StoreInv' /\ CallsOK'
  BY <1>1, CallActionsStep, InvNext
<1>3. /\ Moves(c, call[c], call'[c])
      /\ in_flight_appends' = in_flight_appends + One(call'[c]) - One(call[c])
  BY <1>1, CallMoves, CountIsInt
<1>4. CountOK'
  BY <1>1, <1>3, CountFollows
<1>5. call[c].pc \notin {"done", "detached"} \/ call'[c].pc \in {"done", "detached"}
  <2>1. CASE call[c].pc \in {"done", "detached"}
    BY <1>3, <2>1 DEF Moves
  <2> QED
    BY <2>1
<1>6. AwaitedOK'
  BY <1>1, <1>3, <1>5, AwaitedFollow DEF shutdownVars
<1> QED
  BY <1>2, <1>4, <1>6 DEF ShutdownInv

(* Steps that leave the calls and the tables alone. *)
LEMMA OthersStep ==
  ASSUME StoreInv, CallsOK, CountOK, UNCHANGED <<storeVars, callVars>>
  PROVE  StoreInv' /\ CallsOK' /\ CountOK'
<1>1. StoreInv'
  BY InvUnchanged
<1> QED
  BY <1>1 DEF storeVars, callVars, CallsOK, CountOK, Appends, InAppendOne

LEMMA PollStep ==
  ASSUME CallsOK, CountOK, AwaitedOK, Poll
  PROVE  AwaitedOK'
<1>1. /\ phase' = "graceful" /\ UNCHANGED <<call, expired, awaited>>
      /\ in_flight_appends = 0 \/ expired
  BY DEF Poll, vars, callVars
<1>2. ASSUME ~expired, NEW a \in awaited PROVE Over(a, call[a[1]])
  <2>1. IsFiniteSet(Appends)
    BY CallsAssumption, FS_Subset DEF Appends
  <2>2. Appends = {}
    BY <1>1, <1>2, <2>1, FS_EmptySet DEF CountOK
  <2>3. a[1] \in Calls
    BY DEF AwaitedOK
  <2> QED
    BY <2>2, <2>3 DEF Appends, InAppendOne, Over
<1> QED
  BY <1>1, <1>2 DEF AwaitedOK, Phases

(* No call is inside append_one when the process has stopped. *)
LEMMA StoppedCalls ==
  ASSUME ProcessStops
  PROVE  \A c \in Calls : call'[c].pc \notin {"db", "publish"}
<1>1. /\ call' = [c \in Calls |-> IF call[c] = NewCall \/ call[c].pc = "done" THEN call[c]
                                  ELSE Ended("UNAVAILABLE")]
  BY DEF ProcessStops
<1>2. Ended("UNAVAILABLE").pc = "done" /\ NewCall.pc = "recv"
  BY DEF Ended, NewCall
<1> QED
  BY <1>1, <1>2

LEMMA CountStops == ASSUME ProcessStops PROVE CountOK'
<1>1. in_flight_appends' = 0
  BY DEF ProcessStops
<1>2. Appends' = {}
  BY StoppedCalls DEF Appends, InAppendOne
<1> QED
  BY <1>1, <1>2, FS_EmptySet DEF CountOK

(* main returns: the closures of Q, which had not begun, are dropped. *)
Dropped(Q) ==
  /\ Q \subseteq Detached
  /\ call' = [c \in Calls |-> IF c \in Q THEN Ended("CANCELLED") ELSE call[c]]
  /\ UNCHANGED <<storeVars, busVars, subVars, in_flight_appends>>

LEMMA MainReturnsDrops == MainReturns => \E Q : Dropped(Q)
  BY DEF MainReturns, Dropped

LEMMA DroppedCalls ==
  ASSUME StoreInv, CallsOK, NEW Q, Dropped(Q)
  PROVE  /\ StoreInv' /\ CallsOK'
         /\ \A c \in Calls : \/ call'[c] = call[c]
                             \/ call[c].pc = "detached" /\ call'[c].pc = "done"
<1>1. /\ Q \subseteq Detached /\ UNCHANGED storeVars
      /\ call' = [c \in Calls |-> IF c \in Q THEN Ended("CANCELLED") ELSE call[c]]
  BY DEF Dropped
<1>2. Ended("CANCELLED").pc = "done" /\ CallOK(Ended("CANCELLED"), events)
  BY EmptyCalls DEF Ended, NewCall
<1>3. StoreInv' /\ UNCHANGED events
  BY <1>1, InvUnchanged DEF storeVars
<1>4. \A c \in Calls : call'[c] = call[c] \/ call'[c] = Ended("CANCELLED")
  BY <1>1
<1>5. CallsOK'
  <2>1. \A c \in Calls : CallOK(call'[c], events)
    BY <1>2, <1>4 DEF CallsOK
  <2>2. call' = [c \in Calls |-> call'[c]]
    BY <1>1
  <2> QED
    BY <1>3, <2>1, <2>2 DEF CallsOK
<1>6. \A c \in Calls : \/ call'[c] = call[c]
                       \/ call[c].pc = "detached" /\ call'[c].pc = "done"
  BY <1>1, <1>2 DEF Detached
<1> QED
  BY <1>3, <1>5, <1>6

LEMMA DroppedCount ==
  ASSUME StoreInv, CallsOK, CountOK, NEW Q, Dropped(Q)
  PROVE  CountOK'
<1>1. Appends' = Appends
  BY DroppedCalls DEF Appends, InAppendOne
<1> QED
  BY <1>1 DEF CountOK, Dropped

(* What is on its way to the subscribers does not change. *)
LEMMA DroppedKeepsStreams ==
  ASSUME GaplessInv, NEW Q, Dropped(Q)
  PROVE  GaplessInv'
<1>1. StoreInv /\ CallsOK /\ PumpsOK /\ BusOK /\ StreamsOK
  BY DEF GaplessInv, DeliveryInv
<1>2. StoreInv' /\ CallsOK'
  BY <1>1, DroppedCalls
<1>3. UNCHANGED <<events, bus, pump, channel, client>>
  BY DEF Dropped, storeVars, busVars, subVars
<1>4. PumpsOK' /\ BusOK' /\ StreamsOK'
  BY <1>1, <1>3 DEF PumpsOK, BusOK, StreamsOK, HeadSeq
<1> QED
  BY <1>2, <1>4 DEF GaplessInv, DeliveryInv

LEMMA MainReturnsStep ==
  ASSUME ShutdownInv, MainReturns
  PROVE  ShutdownInv'
<1>1. /\ StoreInv /\ CallsOK /\ CountOK /\ AwaitedOK
      /\ phase = "closed" /\ phase' = "returned" /\ UNCHANGED <<expired, awaited>>
  BY DEF ShutdownInv, MainReturns
<1>2. /\ StoreInv' /\ CallsOK' /\ CountOK'
      /\ \A c \in Calls : \/ call'[c] = call[c]
                          \/ call[c].pc = "detached" /\ call'[c].pc = "done"
  BY <1>1, MainReturnsDrops, DroppedCalls, DroppedCount
<1>3. ASSUME NEW a \in awaited
      PROVE  a[1] \in Calls /\ Known(a, call'[a[1]])
  <2>1. a[1] \in Calls /\ Known(a, call[a[1]])
    BY <1>1 DEF AwaitedOK
  <2> QED
    BY <1>2, <2>1 DEF Known
<1>4. ASSUME ~expired, NEW a \in awaited PROVE Over(a, call'[a[1]])
  <2>1. a[1] \in Calls /\ Over(a, call[a[1]])
    BY <1>1, <1>4 DEF AwaitedOK
  <2> QED
    BY <1>2, <2>1 DEF Over
<1>5. AwaitedOK'
  BY <1>1, <1>3, <1>4 DEF AwaitedOK, Phases
<1> QED
  BY <1>2, <1>5 DEF ShutdownInv

LEMMA ExitStep ==
  ASSUME ShutdownInv, Exit
  PROVE  ShutdownInv'
<1>1. /\ StoreInv /\ CallsOK /\ CountOK /\ AwaitedOK /\ ProcessStops
      /\ phase = "returned" /\ phase' = "exited" /\ UNCHANGED <<expired, awaited>>
  BY DEF ShutdownInv, Exit
<1>2. UNCHANGED storeVars
  BY <1>1 DEF ProcessStops
<1>3. StoreInv' /\ CallsOK'
  BY <1>1, <1>2, InvUnchanged, UnchangedStoreGrows, ProcessStopsKeepsCalls
<1>4. /\ call' = [c \in Calls |-> IF call[c] = NewCall \/ call[c].pc = "done" THEN call[c]
                                  ELSE Ended("UNAVAILABLE")]
      /\ in_flight_appends' = 0
  BY <1>1 DEF ProcessStops
<1>5. /\ Ended("UNAVAILABLE").pc = "done" /\ NewCall.pc = "recv" /\ NewCall.command_count = 0
  BY DEF Ended, NewCall
<1>6. \A c \in Calls : call'[c].pc \notin {"db", "publish"}
  BY <1>1, StoppedCalls
<1>7. CountOK'
  BY <1>1, CountStops
<1>8. ASSUME NEW a \in awaited PROVE a[1] \in Calls /\ Known(a, call'[a[1]])
  <2>1. a[1] \in Calls /\ Known(a, call[a[1]])
    BY <1>1 DEF AwaitedOK
  <2>2. call[a[1]] # NewCall
    BY <1>5, <2>1 DEF Known
  <2>3. call'[a[1]].pc = "done"
    BY <1>4, <1>5, <2>1, <2>2
  <2> QED
    BY <2>1, <2>3 DEF Known
<1>9. \A a \in awaited : Over(a, call'[a[1]])
  BY <1>6, <1>8 DEF Over
<1>10. AwaitedOK'
  BY <1>1, <1>8, <1>9 DEF AwaitedOK, Phases
<1> QED
  BY <1>3, <1>7, <1>10 DEF ShutdownInv

LEMMA ShutdownStep == ShutdownInv /\ [ShutdownNext]_processVars => ShutdownInv'
<1> SUFFICES ASSUME ShutdownInv, [ShutdownNext]_processVars PROVE ShutdownInv'
  OBVIOUS
<1>1. StoreInv /\ CallsOK /\ CountOK /\ AwaitedOK
  BY DEF ShutdownInv
<1>2. ASSUME UNCHANGED <<storeVars, callVars>>, AwaitedOK' PROVE ShutdownInv'
  BY <1>1, <1>2, OthersStep DEF ShutdownInv
<1>3. ASSUME NEW c \in Calls, OpenCall(c) PROVE ShutdownInv'
  BY <1>1, <1>2, <1>3 DEF OpenCall, vars, callVars, AwaitedOK
<1>4. ASSUME NEW c \in Calls, ServeCall(c) PROVE ShutdownInv'
  BY <1>4, ServeCallStep
<1>5. ASSUME NEW s \in Subscriptions, ServeSubscription(s) PROVE ShutdownInv'
  <2>1. UNCHANGED <<storeVars, callVars>> /\ UNCHANGED <<phase, expired, awaited>>
    BY <1>5, SubActionsStep DEF ServeSubscription
  <2> QED
    BY <1>1, <1>2, <2>1 DEF callVars, AwaitedOK
<1>6. CASE CtrlC
  <2>1. UNCHANGED <<vars, expired>> /\ phase' = "draining" /\ awaited' = InFlight
    BY <1>6 DEF CtrlC
  <2>2. ASSUME NEW a \in InFlight PROVE a[1] \in Calls /\ Known(a, call[a[1]])
    <3>1. PICK c \in Calls : a = <<c, call[c].command_count>> /\ call[c].pc \in {"db", "publish"}
      BY DEF InFlight, InAppendOne
    <3>2. call[c].command_count \in Nat \ {0}
      BY <1>1, <3>1 DEF CallsOK, CallOK, HasCommitted
    <3> QED
      BY <3>1, <3>2 DEF Known
  <2>3. AwaitedOK'
    BY <1>1, <2>1, <2>2 DEF vars, callVars, AwaitedOK, Phases
  <2> QED
    BY <1>2, <2>1, <2>3 DEF vars
<1>7. CASE NoSignalHandler
  <2>1. UNCHANGED <<vars, expired, awaited>> /\ phase = "serving" /\ phase' = "graceful"
    BY <1>7 DEF NoSignalHandler
  <2>2. AwaitedOK'
    BY <1>1, <2>1 DEF AwaitedOK, Phases
  <2> QED
    BY <1>2, <2>1, <2>2 DEF vars
<1>8. CASE TimePasses
  <2>1. UNCHANGED <<vars, phase, awaited>> /\ phase = "draining" /\ expired' = TRUE
    BY <1>8 DEF TimePasses
  <2>2. AwaitedOK'
    BY <1>1, <2>1 DEF vars, callVars, AwaitedOK
  <2> QED
    BY <1>2, <2>1, <2>2 DEF vars
<1>9. CASE Poll
  BY <1>1, <1>2, <1>9, PollStep DEF Poll, vars
<1>10. CASE GoAway
  <2>1. UNCHANGED <<vars, expired, awaited>> /\ phase = "graceful" /\ phase' = "closed"
    BY <1>10 DEF GoAway
  <2>2. AwaitedOK'
    BY <1>1, <2>1 DEF vars, callVars, AwaitedOK, Phases
  <2> QED
    BY <1>2, <2>1, <2>2 DEF vars
<1>11. CASE MainReturns
  BY <1>11, MainReturnsStep
<1>12. CASE Exit
  BY <1>12, ExitStep
<1>13. ASSUME NEW s \in Subscriptions, ReadReturns(s) PROVE ShutdownInv'
  BY <1>1, <1>2, <1>13 DEF ReadReturns, vars, callVars, AwaitedOK
<1>14. CASE UNCHANGED processVars
  BY <1>1, <1>2, <1>14 DEF processVars, shutdownVars, vars, callVars, AwaitedOK
<1> QED
  BY <1>3, <1>4, <1>5, <1>6, <1>7, <1>8, <1>9, <1>10, <1>11, <1>12, <1>13, <1>14
  DEF ShutdownNext

LEMMA ShutdownBegins == ShutdownInit => ShutdownInv
<1> SUFFICES ASSUME ShutdownInit PROVE ShutdownInv
  OBVIOUS
<1>1. Init /\ StoreInv /\ CallsOK
  BY LedgerInit, InvInit DEF ShutdownInit
<1>2. Appends = {} /\ in_flight_appends = 0
  BY <1>1 DEF Init, CallInit, NewCall, Appends, InAppendOne
<1>3. CountOK
  BY <1>2, FS_EmptySet DEF CountOK
<1> QED
  BY <1>1, <1>3 DEF ShutdownInit, ShutdownInv, AwaitedOK, Phases

LEMMA ShutdownInvariant == ShutdownSpec => []ShutdownInv
  BY ShutdownBegins, ShutdownStep, PTL DEF ShutdownSpec

(* The counter that shutdown_signal polls is the number of calls inside    *)
(* append_one, whichever way each of them leaves it: the guard is dropped  *)
(* with the future of a cancelled call too (ledger.rs:201, main.rs:139).   *)
THEOREM CounterCountsAppends == ShutdownSpec => []InFlightCountsAppends
<1>1. ShutdownInv => InFlightCountsAppends
  BY DEF ShutdownInv, CountOK, Appends, InFlightCountsAppends
<1> QED
  BY <1>1, ShutdownInvariant, PTL

(* Before the deadline the server does not begin to shut down while an     *)
(* append that Ctrl+C found is inside append_one: the counter is 0 at the  *)
(* poll that ends the drain, and a command once left is not entered again  *)
(* (main.rs:134-148).                                                      *)
THEOREM DrainWaitsForAppends == ShutdownSpec => []DrainAwaitsAppends
<1>1. ShutdownInv => DrainAwaitsAppends
  <2> SUFFICES ASSUME ShutdownInv, phase \in {"graceful", "closed", "returned", "exited"}, ~expired,
                      NEW a \in awaited, a \in InFlight
               PROVE  FALSE
    BY DEF DrainAwaitsAppends
  <2>1. PICK c \in Calls : a = <<c, call[c].command_count>> /\ call[c].pc \in {"db", "publish"}
    BY DEF InFlight, InAppendOne
  <2>2. Known(a, call[c]) /\ Over(a, call[c])
    BY <2>1 DEF ShutdownInv, AwaitedOK
  <2> QED
    BY <2>1, <2>2 DEF Known, Over
<1> QED
  BY <1>1, ShutdownInvariant, PTL
-----------------------------------------------------------------------------
(***************************************************************************)
(* Types and sizes: what the pumps, the bus and the channels may hold.     *)
(* That a channel is a sequence is part of GaplessInv, and that the        *)
(* counter is a number follows from CountOK.                               *)
(***************************************************************************)

PumpsSized ==
  \A s \in Subscriptions : /\ pump[s].pc \in PumpPCs
                           /\ pump[s].attempt \in 0 .. MaxAttempts - 1

WatchOK(w) == /\ w = [f \in {"quote", "changed"} |-> w[f]]
              /\ w.quote \in QuoteIds \cup {NoReceiver.quote}

WatchesOK ==
  /\ rx_watch = [s \in Subscriptions |-> rx_watch[s]]
  /\ \A s \in Subscriptions : WatchOK(rx_watch[s])

ChannelsFit == \A s \in Subscriptions : Len(channel[s]) <= ChannelCap

BusTyped == \A q \in QuoteIds : bus[q] \in Nat \cup {NoSender}

SizesOK == PumpsSized /\ WatchesOK /\ ChannelsFit /\ BusTyped

(* What tells a channel that it is one. *)
LEMMA ChannelsAreSequences ==
  ASSUME GaplessInv, NEW s \in Subscriptions
  PROVE  \E X : channel[s] \in Seq(X)
<1>1. StreamOK(pump[s], client[s], channel[s], events)
  BY DEF GaplessInv, StreamsOK
<1>2. CASE pump[s].pc = "idle"
  <2>1. channel[s] = <<>> /\ <<>> \in Seq({})
    BY <1>1, <1>2 DEF StreamOK
  <2> QED
    BY <2>1
<1>3. CASE pump[s].pc # "idle"
  BY <1>1, <1>3 DEF StreamOK, Flows, Chain
<1> QED
  BY <1>2, <1>3

LEMMA NoReceiverIs == WatchOK(NoReceiver)
  BY DEF WatchOK, NoReceiver

LEMMA MarkedIs ==
  ASSUME WatchesOK, NEW q, NEW t \in Subscriptions
  PROVE  WatchOK(Marked(q)[t])
<1>1. WatchOK(rx_watch[t])
  BY DEF WatchesOK
<1>2. \/ Marked(q)[t] = rx_watch[t]
      \/ Marked(q)[t] = [rx_watch[t] EXCEPT !.changed = TRUE]
  BY DEF Marked
<1> QED
  BY <1>1, <1>2 DEF WatchOK

LEMMA ReturnKeepsWatches ==
  ASSUME WatchesOK, NEW s \in Subscriptions, Return(s)
  PROVE  WatchesOK' /\ UNCHANGED bus
<1>1. rx_watch' = [rx_watch EXCEPT ![s] = NoReceiver] /\ UNCHANGED bus
  BY DEF Return, DropReceiver
<1> QED
  BY <1>1, NoReceiverIs DEF WatchesOK

(* The steps of a pump *)
LEMMA PumpStepKeepsWatches ==
  ASSUME WatchesOK, BusTyped, PumpsOK, NEW s \in Subscriptions,
         SubActions(s)
  PROVE  WatchesOK' /\ BusTyped'
<1> DEFINE q == pump[s].quote_id
<1>1. PumpOK(pump[s], events)
  BY DEF PumpsOK
<1>2. ASSUME Return(s) PROVE WatchesOK' /\ BusTyped'
  BY <1>2, ReturnKeepsWatches DEF BusTyped
<1>3. ASSUME UNCHANGED busVars PROVE WatchesOK' /\ BusTyped'
  BY <1>3 DEF busVars, WatchesOK, BusTyped
<1>4. CASE Register(s)
  <2>1. q \in QuoteIds /\ pump[s].last_seq \in Nat
    BY <1>1, <1>4 DEF Register, PumpOK, Heads
  <2>2. /\ bus' = [bus EXCEPT ![q] = pump[s].last_seq]
        /\ rx_watch' = [Marked(q) EXCEPT ![s] = [quote |-> q, changed |-> FALSE]]
    BY <1>4 DEF Register, RegisterReceiver
  <2>3. WatchOK([quote |-> q, changed |-> FALSE])
    BY <2>1 DEF WatchOK
  <2>4. Marked(q) = [t \in Subscriptions |-> Marked(q)[t]]
    BY DEF Marked
  <2>5. \A t \in Subscriptions : \/ rx_watch'[t] = [quote |-> q, changed |-> FALSE]
                                 \/ rx_watch'[t] = Marked(q)[t]
    BY <2>2, <2>4
  <2>6. rx_watch' = [t \in Subscriptions |-> rx_watch'[t]]
    BY <2>2, <2>4
  <2>7. WatchesOK'
    <3>1. \A t \in Subscriptions : WatchOK(rx_watch'[t])
      BY <2>3, <2>5, MarkedIs
    <3> QED
      BY <2>6, <3>1 DEF WatchesOK
  <2>8. BusTyped'
    BY <2>1, <2>2 DEF BusTyped
  <2> QED
    BY <2>7, <2>8
<1>5. CASE Wake(s)
  <2>1. rx_watch' = [rx_watch EXCEPT ![s].changed = FALSE] /\ UNCHANGED bus
    BY <1>5 DEF Wake, TakeChange
  <2>2. WatchOK(rx_watch[s])
    BY DEF WatchesOK
  <2>3. WatchOK(rx_watch'[s])
    BY <2>1, <2>2 DEF WatchesOK, WatchOK
  <2>4. /\ rx_watch' = [t \in Subscriptions |-> rx_watch'[t]]
        /\ \A t \in Subscriptions \ {s} : rx_watch'[t] = rx_watch[t]
    BY <2>1 DEF WatchesOK
  <2> QED
    BY <2>1, <2>3, <2>4 DEF WatchesOK, BusTyped
<1> QED
  BY <1>2, <1>3, <1>4, <1>5
  DEF SubActions, PumpStep, SubInput, ReadInit, RejectInit, Reject, SendCatchUp, SendSnapshot,
      CheckHead, ReadTail, SendTail, SendError, Abandon, Subscribe, ReadInitFails,
      ReadTailFails, Disconnect, ClientReceives

LEMMA SubActionsKeepChannels ==
  ASSUME GaplessInv, ChannelsFit, NEW s \in Subscriptions, SubActions(s)
  PROVE  ChannelsFit'
<1> DEFINE ch == channel[s]
<1>1. PICK X : ch \in Seq(X)
  BY ChannelsAreSequences
<1>2. channel = [t \in Subscriptions |-> channel[t]]
  BY DEF GaplessInv, StreamsOK
<1>3. ASSUME NEW more, channel' = [channel EXCEPT ![s] = more], Len(more) <= ChannelCap
      PROVE  ChannelsFit'
  BY <1>2, <1>3 DEF ChannelsFit
<1>4. ASSUME NEW update, Send(s, update) PROVE ChannelsFit'
  <2>1. channel' = [channel EXCEPT ![s] = Append(ch, update)] /\ Len(ch) < ChannelCap
    BY <1>4 DEF Send
  <2>2. Len(Append(ch, update)) <= ChannelCap
    BY <1>1, <2>1, AppendFacts, ChannelCapAssumption
  <2> QED
    BY <1>3, <2>1, <2>2
<1>5. CASE ClientReceives(s)
  <2>1. channel' = [channel EXCEPT ![s] = Tail(ch)] /\ Len(ch) # 0 /\ Len(ch) <= ChannelCap
    BY <1>1, <1>5, EmptyIs DEF ClientReceives, ChannelsFit
  <2>2. Len(Tail(ch)) <= ChannelCap
    BY <1>1, <2>1, TailFacts, ChannelCapAssumption
  <2> QED
    BY <1>3, <2>1, <2>2
<1>6. CASE Disconnect(s)
  <2>1. Len(<<>>) <= ChannelCap
    BY ChannelCapAssumption
  <2> QED
    BY <1>3, <1>6, <2>1 DEF Disconnect
<1>7. ASSUME UNCHANGED channel PROVE ChannelsFit'
  BY <1>7 DEF ChannelsFit
<1> QED
  BY <1>4, <1>5, <1>6, <1>7
  DEF SubActions, PumpStep, SubInput, ReadInit, RejectInit, Reject, Register, SendCatchUp,
      SendSnapshot, CheckHead, Wake, ReadTail, SendTail, SendError, Abandon, Subscribe,
      ReadInitFails, ReadTailFails

LEMMA SubActionsKeepPumps ==
  ASSUME PumpsOK, PumpsSized, NEW s \in Subscriptions, SubActions(s)
  PROVE  PumpsSized'
<1> DEFINE p == pump[s]
           Fits(n) == n.pc \in PumpPCs /\ n.attempt \in 0 .. MaxAttempts - 1
<1>1. p = [f \in PumpFields |-> p[f]] /\ Fits(p) /\ 0 \in 0 .. MaxAttempts - 1
  BY MaxAttemptsAssumption DEF PumpsOK, PumpOK, PumpsSized
<1>2. ASSUME NEW n, pump' = [pump EXCEPT ![s] = n], Fits(n) PROVE PumpsSized'
  BY <1>2 DEF PumpsOK, PumpsSized
<1>3. ASSUME UNCHANGED pump PROVE PumpsSized'
  BY <1>3 DEF PumpsSized
<1>4. pump = [t \in Subscriptions |-> pump[t]]
  BY DEF PumpsOK
<1>5. ASSUME Return(s) PROVE PumpsSized'
  <2> DEFINE n == [NewPump EXCEPT !.pc = "ended", !.quote_id = p.quote_id]
  <2>1. pump' = [pump EXCEPT ![s] = n]
    BY <1>5 DEF Return
  <2>2. n.pc = "ended" /\ n.attempt = 0
    BY DEF NewPump
  <2> HIDE DEF n
  <2> QED
    BY <1>1, <1>2, <2>1, <2>2 DEF PumpPCs
<1>6. ASSUME NEW r \in QuoteIds, NEW after, Subscribe(s, r, after) PROVE PumpsSized'
  <2> DEFINE n == [p EXCEPT !.pc = "init", !.quote_id = r, !.after = after]
  <2>1. pump' = [pump EXCEPT ![s] = n]
    BY <1>4, <1>6 DEF Subscribe
  <2>2. n.pc = "init" /\ n.attempt = p.attempt
    BY <1>1, PumpFieldNames
  <2> HIDE DEF n
  <2> QED
    BY <1>1, <1>2, <2>1, <2>2 DEF PumpPCs
<1>7. CASE ReadInit(s)
  <2> DEFINE q == p.quote_id
             n == [p EXCEPT !.pc = "register", !.last_seq = HeadSeq(q),
                            !.view = ViewOf(Replay(events[q]).quote),
                            !.chunk = Between(q, p.after, HeadSeq(q))]
  <2>1. pump' = [pump EXCEPT ![s] = n]
    BY <1>4, <1>7 DEF ReadInit
  <2>2. n.pc = "register" /\ n.attempt = p.attempt
    BY <1>1, PumpFieldNames
  <2> HIDE DEF n
  <2> QED
    BY <1>1, <1>2, <2>1, <2>2 DEF PumpPCs
<1>8. CASE Register(s)
  <2> DEFINE n == [p EXCEPT !.pc = IF p.chunk = <<>> THEN "snapshot" ELSE "tail"]
  <2>1. pump' = [pump EXCEPT ![s] = n]
    BY <1>4, <1>8 DEF Register
  <2>2. n.pc \in {"snapshot", "tail"} /\ n.attempt = p.attempt
    BY <1>1, PumpFieldNames
  <2> HIDE DEF n
  <2> QED
    BY <1>1, <1>2, <2>1, <2>2 DEF PumpPCs
<1>9. CASE SendCatchUp(s)
  <2> DEFINE n == [p EXCEPT !.pc = "snapshot", !.chunk = <<>>]
  <2>1. pump' = [pump EXCEPT ![s] = n]
    BY <1>4, <1>9 DEF SendCatchUp
  <2>2. n.pc = "snapshot" /\ n.attempt = p.attempt
    BY <1>1, PumpFieldNames
  <2> HIDE DEF n
  <2> QED
    BY <1>1, <1>2, <2>1, <2>2 DEF PumpPCs
<1>10. CASE SendSnapshot(s)
  <2> DEFINE n == [p EXCEPT !.pc = "check", !.watermark = p.last_seq, !.view = NoView]
  <2>1. pump' = [pump EXCEPT ![s] = n]
    BY <1>4, <1>10 DEF SendSnapshot
  <2>2. n.pc = "check" /\ n.attempt = p.attempt
    BY <1>1, PumpFieldNames
  <2> HIDE DEF n
  <2> QED
    BY <1>1, <1>2, <2>1, <2>2 DEF PumpPCs
<1>11. ASSUME NEW head, Follow(s, head) PROVE PumpsSized'
  <2> DEFINE n == IF head > p.watermark THEN [p EXCEPT !.pc = "load", !.upto = head]
                                        ELSE [p EXCEPT !.pc = "wait"]
  <2>1. pump' = [pump EXCEPT ![s] = n]
    BY <1>11 DEF Follow
  <2>2. n.pc \in {"load", "wait"} /\ n.attempt = p.attempt
    BY <1>1, PumpFieldNames
  <2> HIDE DEF n
  <2> QED
    BY <1>1, <1>2, <2>1, <2>2 DEF PumpPCs
<1>12. CASE ReadTail(s)
  <2> DEFINE rows == Between(p.quote_id, p.watermark, p.upto)
             n == IF rows = <<>>
                  THEN [p EXCEPT !.pc = "wait", !.watermark = p.upto, !.upto = 0, !.attempt = 0]
                  ELSE [p EXCEPT !.pc = "push", !.chunk = rows, !.attempt = 0]
  <2>1. pump' = [pump EXCEPT ![s] = n]
    BY <1>4, <1>12 DEF ReadTail
  <2>2. n.pc \in {"push", "wait"} /\ n.attempt = 0
    <3> HIDE DEF rows
    <3> QED
      BY <1>1, PumpFieldNames
  <2> HIDE DEF n
  <2> QED
    BY <1>1, <1>2, <2>1, <2>2 DEF PumpPCs
<1>13. CASE ReadTailFails(s)
  <2> DEFINE n == IF p.attempt + 1 < MaxAttempts
                  THEN [p EXCEPT !.attempt = p.attempt + 1]
                  ELSE [p EXCEPT !.pc = "fail", !.upto = 0, !.attempt = 0]
  <2>1. pump' = [pump EXCEPT ![s] = n] /\ p.pc = "load"
    BY <1>13 DEF ReadTailFails
  <2>2. n.pc \in {"load", "fail"} /\ n.attempt \in 0 .. MaxAttempts - 1
    BY <1>1, <2>1, PumpFieldNames, MaxAttemptsAssumption
  <2> HIDE DEF n
  <2> QED
    BY <1>2, <2>1, <2>2 DEF PumpPCs
<1>14. CASE SendTail(s)
  <2> DEFINE n == [p EXCEPT !.pc = "wait", !.watermark = p.upto, !.upto = 0, !.chunk = <<>>]
  <2>1. pump' = [pump EXCEPT ![s] = n]
    BY <1>4, <1>14 DEF SendTail
  <2>2. n.pc = "wait" /\ n.attempt = p.attempt
    BY <1>1, PumpFieldNames
  <2> HIDE DEF n
  <2> QED
    BY <1>1, <1>2, <2>1, <2>2 DEF PumpPCs
<1>15. CASE PumpStep(s)
  BY <1>5, <1>7, <1>8, <1>9, <1>10, <1>11, <1>12, <1>14, <1>15
  DEF PumpStep, RejectInit, Reject, CheckHead, Wake, SendError, Abandon
<1>16. CASE SubInput(s)
  BY <1>3, <1>5, <1>6, <1>13, <1>16 DEF SubInput, ReadInitFails, Reject, Disconnect
<1> QED
  BY <1>3, <1>15, <1>16 DEF SubActions, ClientReceives

LEMMA SubActionsKeepSizes ==
  ASSUME GaplessInv, SizesOK, NEW s \in Subscriptions, SubActions(s)
  PROVE  SizesOK'
<1>1. PumpsOK
  BY DEF GaplessInv, DeliveryInv
<1> QED
  BY <1>1, PumpStepKeepsWatches, SubActionsKeepChannels, SubActionsKeepPumps DEF SizesOK

LEMMA CallActionsKeepSizes ==
  ASSUME GaplessInv, SizesOK, NEW c \in Calls, CallActions(c)
  PROVE  SizesOK'
<1>1. StoreInv /\ CallsOK
  BY DEF GaplessInv, DeliveryInv
<1>2. PumpsSized' /\ ChannelsFit'
  BY DEF CallActions, subVars, SizesOK, PumpsSized, ChannelsFit
<1>3. CASE Publish(c)
  <2> DEFINE q == call[c].quote_id
             head == LastSeq(call[c].stored)
  <2>1. q \in QuoteIds /\ call[c].stored \in StoredRows(events, q)
    BY <1>1, <1>3 DEF CallsOK, CallOK, Publish
  <2>2. head \in Nat
    BY <1>1, <2>1, LastOfStored DEF Seqs
  <2>3. bus' = [bus EXCEPT ![q] = head] /\ rx_watch' = Marked(q)
    BY <1>3 DEF Publish, PublishHead
  <2> HIDE DEF head
  <2>4. BusTyped'
    BY <2>1, <2>2, <2>3 DEF BusTyped, SizesOK
  <2>5. WatchesOK'
    <3>1. rx_watch' = [t \in Subscriptions |-> rx_watch'[t]]
      BY <2>3 DEF Marked
    <3>2. \A t \in Subscriptions : WatchOK(rx_watch'[t])
      BY <2>3, MarkedIs DEF SizesOK
    <3> QED
      BY <3>1, <3>2 DEF WatchesOK
  <2> QED
    BY <1>2, <2>4, <2>5 DEF SizesOK
<1>4. CASE ~Publish(c)
  <2>1. UNCHANGED busVars
    BY <1>4 DEF CallActions, CallStep, CallInput, Receive, Refuse, EndOfStream, SqliteError,
                Cancel, RunClosure, RunDetached, IdleTimeout
  <2>2. WatchesOK' /\ BusTyped'
    BY <2>1 DEF busVars, SizesOK, WatchesOK, BusTyped
  <2> QED
    BY <1>2, <2>2 DEF SizesOK
<1> QED
  BY <1>3, <1>4

LEMMA ProcessStopsKeepsSizes ==
  ASSUME ProcessStops
  PROVE  SizesOK'
<1>1. PumpsSized'
  <2>1. pump' = [s \in Subscriptions |->
                   IF pump[s].pc = "idle" THEN NewPump
                   ELSE [NewPump EXCEPT !.pc = "ended", !.quote_id = pump[s].quote_id]]
    BY DEF ProcessStops
  <2>2. \A s \in Subscriptions : pump'[s].pc \in {"idle", "ended"} /\ pump'[s].attempt = 0
    BY <2>1 DEF NewPump
  <2>3. 0 \in 0 .. MaxAttempts - 1
    BY MaxAttemptsAssumption
  <2> QED
    BY <2>2, <2>3 DEF PumpsSized, PumpPCs
<1>2. WatchesOK' /\ BusTyped'
  <2>1. /\ rx_watch' = [s \in Subscriptions |-> NoReceiver]
        /\ bus' = [q \in QuoteIds |-> NoSender]
    BY DEF ProcessStops
  <2> QED
    BY <2>1, NoReceiverIs DEF WatchesOK, BusTyped
<1>3. ChannelsFit'
  <2>1. \A s \in Subscriptions : channel'[s] = <<>>
    BY DEF ProcessStops
  <2>2. Len(<<>>) <= ChannelCap
    BY ChannelCapAssumption
  <2> QED
    BY <2>1, <2>2 DEF ChannelsFit
<1> QED
  BY <1>1, <1>2, <1>3 DEF SizesOK

LEMMA SizesInit == Init => SizesOK
<1> SUFFICES ASSUME Init PROVE SizesOK
  OBVIOUS
<1>1. /\ pump = [s \in Subscriptions |-> NewPump]
      /\ channel = [s \in Subscriptions |-> <<>>]
      /\ bus = [q \in QuoteIds |-> NoSender]
      /\ rx_watch = [s \in Subscriptions |-> NoReceiver]
  BY DEF Init, SubInit, BusInit
<1>2. NewPump.pc = "idle" /\ NewPump.attempt = 0 /\ 0 \in 0 .. MaxAttempts - 1
  BY MaxAttemptsAssumption DEF NewPump
<1>3. Len(<<>>) <= ChannelCap
  BY ChannelCapAssumption
<1>4. PumpsSized
  BY <1>1, <1>2 DEF PumpsSized, PumpPCs
<1>5. WatchesOK /\ BusTyped /\ ChannelsFit
  BY <1>1, <1>3, NoReceiverIs DEF WatchesOK, BusTyped, ChannelsFit
<1> QED
  BY <1>4, <1>5 DEF SizesOK

TypeInv == GaplessInv /\ CountOK /\ SizesOK

LEMMA TypeInvIsTypeOK == TypeInv => TypeOK
<1> SUFFICES ASSUME TypeInv PROVE TypeOK
  OBVIOUS
<1>1. StoreInv /\ CallsOK /\ PumpsOK /\ BusOK /\ CountOK /\ SizesOK
  BY DEF TypeInv, GaplessInv, DeliveryInv
<1>2. StoreTypeOK
  BY <1>1 DEF StoreInv
<1>3. bus \in [QuoteIds -> Nat \cup {NoSender}]
  BY <1>1 DEF BusOK, SizesOK, BusTyped
<1>4. in_flight_appends \in Nat
  <2>1. IsFiniteSet(Appends)
    BY CallsAssumption, FS_Subset DEF Appends
  <2> QED
    BY <1>1, <2>1, FS_CardinalityType DEF CountOK
<1>5. DOMAIN call = Calls /\ DOMAIN pump = Subscriptions
  BY <1>1 DEF CallsOK, PumpsOK
<1>6. \A c \in Calls : call[c].pc \in CallPCs /\ call[c].command_count \in 0 .. AppendMaxCommands
  BY <1>1 DEF CallsOK, CallOK, HasCommitted
<1>7. \A s \in Subscriptions : pump[s].watermark \in Nat /\ pump[s].upto \in Nat
  BY <1>1 DEF PumpsOK, PumpOK, Heads
<1>8. \A s \in Subscriptions : /\ pump[s].pc \in PumpPCs
                               /\ pump[s].attempt \in 0 .. MaxAttempts - 1
                               /\ Len(channel[s]) <= ChannelCap
                               /\ rx_watch[s].quote \in QuoteIds \cup {NoReceiver.quote}
  BY <1>1 DEF SizesOK, PumpsSized, ChannelsFit, WatchesOK, WatchOK
<1> QED
  BY <1>2, <1>3, <1>4, <1>5, <1>6, <1>7, <1>8 DEF TypeOK

LEMMA TypeInvInit == Init => TypeInv
<1> SUFFICES ASSUME Init PROVE TypeInv
  OBVIOUS
<1>1. Appends = {} /\ in_flight_appends = 0
  BY DEF Init, CallInit, NewCall, Appends, InAppendOne
<1>2. CountOK
  BY <1>1, FS_EmptySet DEF CountOK
<1> QED
  BY <1>2, GaplessInit, SizesInit DEF TypeInv

(* The process stops, with or without a crash. *)
LEMMA ProcessStopsKeepsTypes ==
  ASSUME TypeInv, ProcessStops
  PROVE  TypeInv'
<1>1. StoreInv /\ CallsOK /\ PumpsOK /\ BusOK /\ StreamsOK /\ GaplessInv
  BY DEF TypeInv, GaplessInv, DeliveryInv
<1>2. StoreInv' /\ CallsOK'
  BY <1>1, InvUnchanged, UnchangedStoreGrows, ProcessStopsKeepsCalls DEF ProcessStops
<1>3. PumpsOK' /\ BusOK'
  BY <1>1, ProcessStopsKeepsHeads
<1>4. StreamsOK'
  BY <1>1, ProcessStopsKeepsStreams
<1>5. GaplessInv'
  BY <1>2, <1>3, <1>4 DEF GaplessInv, DeliveryInv
<1>6. CountOK'
  BY CountStops
<1> QED
  BY <1>5, <1>6, ProcessStopsKeepsSizes DEF TypeInv

LEMMA TypeInvStep == TypeInv /\ [Next]_vars => TypeInv'
<1> SUFFICES ASSUME TypeInv, [Next]_vars PROVE TypeInv'
  OBVIOUS
<1>1. GaplessInv /\ CountOK /\ SizesOK /\ CallsOK
  BY DEF TypeInv, GaplessInv, DeliveryInv
<1>2. GaplessInv'
  BY <1>1, GaplessStep
<1>3. ASSUME NEW c \in Calls, CallActions(c) PROVE TypeInv'
  <2>1. /\ Moves(c, call[c], call'[c])
        /\ in_flight_appends' = in_flight_appends + One(call'[c]) - One(call[c])
    BY <1>1, <1>3, CallMoves, CountIsInt
  <2>2. CountOK'
    BY <1>1, <2>1, CountFollows
  <2> QED
    BY <1>1, <1>2, <1>3, <2>2, CallActionsKeepSizes DEF TypeInv
<1>4. ASSUME UNCHANGED callVars PROVE CountOK'
  BY <1>1, <1>4 DEF callVars, CountOK, Appends, InAppendOne
<1>5. ASSUME NEW s \in Subscriptions, SubActions(s) PROVE TypeInv'
  BY <1>1, <1>2, <1>4, <1>5, SubActionsKeepSizes DEF SubActions, TypeInv
<1>6. CASE Crash
  BY <1>6, ProcessStopsKeepsTypes DEF Crash
<1>7. CASE UNCHANGED vars
  <2>1. SizesOK'
    BY <1>1, <1>7 DEF vars, busVars, subVars, SizesOK, PumpsSized, WatchesOK, ChannelsFit, BusTyped
  <2> QED
    BY <1>2, <1>4, <1>7, <2>1 DEF vars, TypeInv
<1> QED
  BY <1>3, <1>5, <1>6, <1>7 DEF Next

(* The types of the service: a call carries no more than its limit of      *)
(* commands, a channel no more updates than its capacity, a pump makes no  *)
(* more attempts than it is allowed, and the counter never goes below zero *)
(* (ledger.rs:318, 439, 47, 201).                                          *)
THEOREM ServiceIsTyped == Spec => []TypeOK
  BY TypeInvInit, TypeInvStep, TypeInvIsTypeOK, PTL DEF Spec

(* ... and with the shutdown of the process. *)
ShutdownTypeInv ==
  /\ TypeInv
  /\ phase \in Phases /\ expired \in BOOLEAN
  /\ opened \subseteq Calls /\ reads \subseteq Subscriptions
  /\ awaited \subseteq Calls \X (0 .. AppendMaxCommands)

LEMMA DroppedKeepsTypes ==
  ASSUME TypeInv, NEW Q, Dropped(Q)
  PROVE  TypeInv'
<1>1. StoreInv /\ CallsOK /\ CountOK /\ GaplessInv /\ SizesOK
  BY DEF TypeInv, GaplessInv, DeliveryInv
<1>2. GaplessInv' /\ CountOK'
  BY <1>1, DroppedKeepsStreams, DroppedCount
<1>3. UNCHANGED <<bus, rx_watch, pump, channel>>
  BY DEF Dropped, busVars, subVars
<1>4. SizesOK'
  BY <1>1, <1>3 DEF SizesOK, PumpsSized, WatchesOK, ChannelsFit, BusTyped
<1> QED
  BY <1>2, <1>4 DEF TypeInv

LEMMA ShutdownTypeStep == ShutdownTypeInv /\ [ShutdownNext]_processVars => ShutdownTypeInv'
<1> SUFFICES ASSUME ShutdownTypeInv, [ShutdownNext]_processVars PROVE ShutdownTypeInv'
  OBVIOUS
<1>1. TypeInv /\ CallsOK
  BY DEF ShutdownTypeInv, TypeInv, GaplessInv, DeliveryInv
<1>2. ASSUME UNCHANGED vars PROVE TypeInv'
  BY <1>1, <1>2, TypeInvStep
<1>3. ASSUME NEW c \in Calls, OpenCall(c) PROVE ShutdownTypeInv'
  BY <1>2, <1>3 DEF OpenCall, ShutdownTypeInv
<1>4. ASSUME NEW c \in Calls, ServeCall(c) PROVE ShutdownTypeInv'
  <2>1. TypeInv'
    BY <1>1, <1>4, TypeInvStep DEF ServeCall, Next
  <2> QED
    BY <1>4, <2>1 DEF ServeCall, shutdownVars, ShutdownTypeInv
<1>5. ASSUME NEW s \in Subscriptions, ServeSubscription(s) PROVE ShutdownTypeInv'
  <2>1. TypeInv'
    BY <1>1, <1>5, TypeInvStep DEF ServeSubscription, Next
  <2>2. reads' \subseteq Subscriptions
    BY <1>5 DEF ServeSubscription, ShutdownTypeInv
  <2> QED
    BY <1>5, <2>1, <2>2 DEF ServeSubscription, ShutdownTypeInv
<1>6. CASE CtrlC
  <2>1. InFlight \subseteq Calls \X (0 .. AppendMaxCommands)
    BY <1>1 DEF InFlight, CallsOK, CallOK, HasCommitted
  <2> QED
    BY <1>2, <1>6, <2>1 DEF CtrlC, ShutdownTypeInv, Phases
<1>7. CASE NoSignalHandler \/ TimePasses \/ Poll \/ GoAway
  BY <1>2, <1>7 DEF NoSignalHandler, TimePasses, Poll, GoAway, ShutdownTypeInv, Phases
<1>8. CASE Exit
  BY <1>1, <1>8, ProcessStopsKeepsTypes DEF Exit, ShutdownTypeInv, Phases
<1>9. CASE MainReturns
  <2>1. TypeInv'
    BY <1>1, <1>9, MainReturnsDrops, DroppedKeepsTypes
  <2> QED
    BY <1>9, <2>1 DEF MainReturns, Loading, ShutdownTypeInv, Phases
<1>10. ASSUME NEW s \in Subscriptions, ReadReturns(s) PROVE ShutdownTypeInv'
  BY <1>2, <1>10 DEF ReadReturns, ShutdownTypeInv
<1>11. CASE UNCHANGED processVars
  BY <1>2, <1>11 DEF processVars, shutdownVars, ShutdownTypeInv
<1> QED
  BY <1>3, <1>4, <1>5, <1>6, <1>7, <1>8, <1>9, <1>10, <1>11 DEF ShutdownNext

(* A process on its way to its end has the same types, and the commands it *)
(* awaits are of calls it has, within their limit (main.rs:127).           *)
THEOREM ProcessIsTyped == ShutdownSpec => []ShutdownTypeOK
<1>1. ShutdownInit => ShutdownTypeInv
  BY TypeInvInit DEF ShutdownInit, ShutdownTypeInv, Phases
<1>2. ShutdownTypeInv => ShutdownTypeOK
  BY TypeInvIsTypeOK DEF ShutdownTypeInv, ShutdownTypeOK
<1> QED
  BY <1>1, <1>2, ShutdownTypeStep, PTL DEF ShutdownSpec

-----------------------------------------------------------------------------
(***************************************************************************)
(* The process from its start to its exit is the service of Ledger, but    *)
(* for two steps: main returns, which drops closures that have not begun,  *)
(* and a stop that need not be a crash.  What the service promises holds   *)
(* through Ctrl+C, the drain, the graceful shutdown and the exit.          *)
(***************************************************************************)

LEMMA ProcessSteps ==
  [ShutdownNext]_processVars => [Next]_vars \/ ProcessStops \/ \E Q : Dropped(Q)
<1>1. ASSUME NEW c \in Calls, ServeCall(c) PROVE [Next]_vars
  BY <1>1 DEF ServeCall, Next
<1>2. ASSUME NEW s \in Subscriptions, ServeSubscription(s) PROVE [Next]_vars
  BY <1>2 DEF ServeSubscription, Next
<1>3. CASE Exit
  BY <1>3 DEF Exit
<1>4. ASSUME NEW c \in Calls, OpenCall(c) PROVE UNCHANGED vars
  BY <1>4 DEF OpenCall
<1>5. CASE CtrlC \/ NoSignalHandler \/ TimePasses \/ Poll \/ GoAway
  BY <1>5 DEF CtrlC, NoSignalHandler, TimePasses, Poll, GoAway
<1>6. ASSUME NEW s \in Subscriptions, ReadReturns(s) PROVE UNCHANGED vars
  BY <1>6 DEF ReadReturns
<1>7. CASE UNCHANGED processVars
  BY <1>7 DEF processVars
<1> QED
  BY <1>1, <1>2, <1>3, <1>4, <1>5, <1>6, <1>7, MainReturnsDrops DEF ShutdownNext

LEMMA ProcessStopsKeepsSnapshots ==
  ASSUME SnapshotInv, ProcessStops
  PROVE  SnapshotInv'
<1>1. StoreInv /\ CallsOK /\ PumpsOK /\ BusOK /\ StreamsOK /\ RowsAreFunctions
  BY DEF SnapshotInv, GaplessInv, DeliveryInv
<1>2. UNCHANGED storeVars
  BY DEF ProcessStops
<1>3. StoreInv' /\ CallsOK'
  BY <1>1, <1>2, InvUnchanged, UnchangedStoreGrows, ProcessStopsKeepsCalls
<1>4. PumpsOK' /\ BusOK' /\ StreamsOK'
  <2>1. GaplessInv
    BY DEF SnapshotInv
  <2>2. PumpsOK' /\ BusOK'
    BY <1>1, ProcessStopsKeepsHeads
  <2> QED
    BY <2>1, <2>2, ProcessStopsKeepsStreams
<1>5. RowsAreFunctions'
  BY <1>1, <1>2, RowsStayFunctions
<1> QED
  BY <1>3, <1>4, <1>5, ProcessStopsKeepsViews DEF SnapshotInv, GaplessInv, DeliveryInv

LEMMA DroppedKeepsSnapshots ==
  ASSUME SnapshotInv, NEW Q, Dropped(Q)
  PROVE  SnapshotInv'
<1>1. GaplessInv'
  BY DroppedKeepsStreams DEF SnapshotInv
<1>2. UNCHANGED <<events, pump, channel, client>>
  BY DEF Dropped, storeVars, subVars
<1> QED
  BY <1>1, <1>2 DEF SnapshotInv, RowsAreFunctions, ViewsOK

LEMMA ProcessStep ==
  SnapshotInv /\ [ShutdownNext]_processVars => SnapshotInv' /\ [AppendNext]_storeVars
<1> SUFFICES ASSUME SnapshotInv, [Next]_vars \/ ProcessStops \/ \E Q : Dropped(Q)
             PROVE  SnapshotInv' /\ [AppendNext]_storeVars
  BY ProcessSteps
<1>1. CASE [Next]_vars
  BY <1>1, SnapshotStep, LedgerAppends DEF SnapshotInv, GaplessInv, DeliveryInv
<1>2. CASE ProcessStops
  BY <1>2, ProcessStopsKeepsSnapshots DEF ProcessStops
<1>3. ASSUME NEW Q, Dropped(Q) PROVE SnapshotInv' /\ [AppendNext]_storeVars
  BY <1>3, DroppedKeepsSnapshots DEF Dropped
<1> QED
  BY <1>1, <1>2, <1>3

(* What clients were told stays true to the end of the process: rows they  *)
(* were acknowledged are stored, and what a subscriber has been sent is    *)
(* the log without a gap, with a snapshot that is the fold of it, also     *)
(* when the exit cuts its stream (main.rs:97-104, 134-148).                *)
THEOREM ShutdownKeepsItsWord ==
  ShutdownSpec => [](/\ AcknowledgedIsStored
                     /\ AnnouncedIsStored
                     /\ DeliveryIsGapless
                     /\ SnapshotIsTheFold)
<1>1. ShutdownInit => SnapshotInv
  BY SnapshotInit DEF ShutdownInit
<1>2. SnapshotInv => /\ AcknowledgedIsStored
                     /\ AnnouncedIsStored
                     /\ DeliveryIsGapless
                     /\ SnapshotIsTheFold
  BY CallsOKMeans, DeliveryInvMeans, GaplessInvMeans, SnapshotInvMeans
     DEF SnapshotInv, GaplessInv, DeliveryInv
<1> QED
  BY <1>1, <1>2, ProcessStep, PTL DEF ShutdownSpec

(* No step of the shutdown writes the tables except as append_one does:    *)
(* the runtime drops the closures that have not begun, and one that has    *)
(* runs, after main has returned too (main.rs:19, ledger.rs:177-180;       *)
(* Transaction has its statements).                                        *)
THEOREM ShutdownImplementsAppendOne == ShutdownSpec => AppendSpec
<1>1. ShutdownInit => StoreInit /\ SnapshotInv
  BY SnapshotInit DEF ShutdownInit, Init
<1> QED
  BY <1>1, ProcessStep, PTL DEF ShutdownSpec, AppendSpec
=============================================================================
