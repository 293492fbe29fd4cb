---------------------------- MODULE AppendCommands ----------------------------
(***************************************************************************)
(* The AppendCommands calls of the ledger service (src/src/ledger.rs):     *)
(* client streams that run concurrently, each handling its messages one    *)
(* after the other.  For each message a call goes through                  *)
(*                                                                         *)
(*   recv     waiting for a message, with the idle timeout running         *)
(*   db       append_one: the closure waits for the connection's mutex on  *)
(*            a blocking thread                                            *)
(*   publish  the closure has run; the call waits for the lock of the bus  *)
(*                                                                         *)
(* and ends in `done`.  A client that goes away drops the call's future at *)
(* whichever await it is; a closure that was submitted runs nevertheless   *)
(* (detached).                                                             *)
(***************************************************************************)
EXTENDS AppendOne, Bus

CONSTANTS
  Calls,             (* AppendCommands calls                               *)
  AppendMaxCommands, (* append_max_commands of ReliabilityLimits           *)
  Faults             (* the faults of the environment an instance has      *)

ASSUME CallsAssumption == IsFiniteSet(Calls)
ASSUME AppendMaxCommandsAssumption == AppendMaxCommands \in Nat \ {0}
ASSUME FaultsAssumption == Faults \subseteq {"cancel", "sqlite", "crash", "signal"}

VARIABLES
  call,              (* call[c]: where the call is, and what it holds      *)
  in_flight_appends  (* the calls inside append_one                        *)

callVars == <<call, in_flight_appends>>

NoQuote == "none"
ASSUME NoQuoteAssumption == NoQuote \notin QuoteIds
NoRequest == <<>>

NewCall ==
  [pc |-> "recv", quote_id |-> NoQuote, command_count |-> 0, request |-> NoRequest,
   stored |-> <<>>, committed |-> <<>>, status |-> "none"]

(* The call ends with an error status: its locals are dropped. *)
Ended(status) == [NewCall EXCEPT !.pc = "done", !.status = status]

(* The guard of in_flight_appends is alive. *)
InAppendOne(c) == call[c].pc \in {"db", "publish"}

-----------------------------------------------------------------------------
(* A message arrives.  A command is not in Commands when it is missing, or *)
(* has no kind.                                                            *)
MessageError(c, r) ==
  IF call[c].command_count + 1 > AppendMaxCommands THEN "RESOURCE_EXHAUSTED"
  ELSE IF \/ r.client_command_id \notin CommandIds
          \/ r.quote_id \notin QuoteIds
          \/ call[c].quote_id \notin {NoQuote, r.quote_id}
          \/ r.command \notin Commands
  THEN "INVALID_ARGUMENT" ELSE "Ok"

Receive(c, r) ==
  /\ call[c].pc = "recv"
  /\ MessageError(c, r) = "Ok"
  /\ call' = [call EXCEPT ![c].pc = "db", ![c].quote_id = r.quote_id,
                          ![c].command_count = @ + 1, ![c].request = r]
  /\ in_flight_appends' = in_flight_appends + 1
  /\ UNCHANGED <<storeVars, busVars>>

Refuse(c, r) ==
  /\ call[c].pc = "recv"
  /\ MessageError(c, r) # "Ok"
  /\ call' = [call EXCEPT ![c] = Ended(MessageError(c, r))]
  /\ UNCHANGED <<in_flight_appends, storeVars, busVars>>

(* The client closes its side of the stream: the call answers with all it  *)
(* committed, or refuses an empty stream.                                  *)
EndOfStream(c) ==
  /\ call[c].pc = "recv"
  /\ call' = [call EXCEPT ![c] =
                IF @.quote_id = NoQuote THEN Ended("INVALID_ARGUMENT")
                ELSE [Ended("OK") EXCEPT !.quote_id = call[c].quote_id,
                                         !.committed = call[c].committed]]
  /\ UNCHANGED <<in_flight_appends, storeVars, busVars>>

IdleTimeoutOfFirst(c) ==
  /\ call[c].pc = "recv"
  /\ call[c].quote_id = NoQuote
  /\ call' = [call EXCEPT ![c] = Ended("DEADLINE_EXCEEDED")]
  /\ UNCHANGED <<in_flight_appends, storeVars, busVars>>
IdleTimeout(c) ==
  /\ call[c].pc = "recv"
  /\ call' = [call EXCEPT ![c] = Ended("DEADLINE_EXCEEDED")]
  /\ UNCHANGED <<in_flight_appends, storeVars, busVars>>

-----------------------------------------------------------------------------
(* append_one *)

(* The closure's answer resumes the call: rows, or an error. *)
Resume(c, r, error) ==
  IF error = "Ok" /\ Accepted(AnswerTo(r, error))
  THEN /\ call' = [call EXCEPT
                     ![c].pc = "publish",
                     ![c].stored = ReturnedRows(r.quote_id, r.client_command_id,
                                                CommandToEvents(r.command))]
       /\ UNCHANGED in_flight_appends
  ELSE /\ call' = [call EXCEPT ![c] = Ended(StatusOf(AnswerTo(r, error)))]
       /\ in_flight_appends' = in_flight_appends - 1

(* The closure runs. *)
RunClosure(c) ==
  /\ call[c].pc = "db"
  /\ \E error \in {ErrorOn(call[c].request)} :
       /\ RunAppend(call[c].request, error)
       /\ Resume(c, call[c].request, error)
  /\ UNCHANGED busVars

(* SQLite fails a statement or the commit: the transaction rolls back. *)
SqliteError(c) ==
  /\ "sqlite" \in Faults
  /\ call[c].pc = "db"
  /\ call' = [call EXCEPT ![c] = Ended(StatusOf("Sqlite"))]
  /\ in_flight_appends' = in_flight_appends - 1
  /\ UNCHANGED <<storeVars, busVars>>

(* publish_head of the last row returned, and the call takes its next      *)
(* message.                                                                *)
Publish(c) ==
  /\ call[c].pc = "publish"
  /\ PublishHead(call[c].quote_id, LastSeq(call[c].stored))
  /\ call' = [call EXCEPT ![c].pc = "recv", ![c].request = NoRequest, ![c].stored = <<>>,
                          ![c].committed = Append(@, call[c].stored)]
  /\ in_flight_appends' = in_flight_appends - 1
  /\ UNCHANGED storeVars

-----------------------------------------------------------------------------
(* The client goes away: a transport error when the call waits for a       *)
(* message, a dropped future when it waits for anything else.  The guard   *)
(* of in_flight_appends is dropped with the future; the closure is not.    *)
CancelKeepsCount(c) ==
  /\ "cancel" \in Faults
  /\ call[c].pc \in {"recv", "db", "publish"}
  /\ call' = [call EXCEPT ![c] =
                IF @.pc = "db"
                THEN [Ended("CANCELLED") EXCEPT !.pc = "detached", !.request = call[c].request]
                ELSE Ended("CANCELLED")]
  /\ UNCHANGED <<in_flight_appends, storeVars, busVars>>
CancelAlwaysUncounts(c) ==
  /\ "cancel" \in Faults
  /\ call[c].pc \in {"recv", "db", "publish"}
  /\ call' = [call EXCEPT ![c] =
                IF @.pc = "db"
                THEN [Ended("CANCELLED") EXCEPT !.pc = "detached", !.request = call[c].request]
                ELSE Ended("CANCELLED")]
  /\ in_flight_appends' = in_flight_appends - 1
  /\ UNCHANGED <<storeVars, busVars>>
Cancel(c) ==
  /\ "cancel" \in Faults
  /\ call[c].pc \in {"recv", "db", "publish"}
  /\ call' = [call EXCEPT ![c] =
                IF @.pc = "db"
                THEN [Ended("CANCELLED") EXCEPT !.pc = "detached", !.request = call[c].request]
                ELSE Ended("CANCELLED")]
  /\ in_flight_appends' = in_flight_appends - (IF InAppendOne(c) THEN 1 ELSE 0)
  /\ UNCHANGED <<storeVars, busVars>>

(* The closure of a dropped call, which SQLite may fail too: nobody sees   *)
(* its answer.                                                             *)
RunDetached(c) ==
  /\ call[c].pc = "detached"
  /\ \/ \E error \in {ErrorOn(call[c].request)} : RunAppend(call[c].request, error)
     \/ "sqlite" \in Faults /\ UNCHANGED storeVars
  /\ call' = [call EXCEPT ![c] = Ended("CANCELLED")]
  /\ UNCHANGED <<in_flight_appends, busVars>>

-----------------------------------------------------------------------------
CallInit ==
  /\ call = [c \in Calls |-> NewCall]
  /\ in_flight_appends = 0

(* What the service does by itself, and what the client and faults do. *)
CallStep(c) == RunClosure(c) \/ Publish(c) \/ RunDetached(c) \/ IdleTimeout(c)

CallInput(c) ==
  \/ \E r \in Requests : Receive(c, r) \/ Refuse(c, r)
  \/ EndOfStream(c) \/ SqliteError(c) \/ Cancel(c)
=============================================================================
