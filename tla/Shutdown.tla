------------------------------- MODULE Shutdown -------------------------------
(***************************************************************************)
(* How the process of the ledger service stops (src/src/main.rs): Ctrl+C,  *)
(* shutdown_signal with its drain of the appends in flight, and the        *)
(* graceful shutdown of the tonic server that follows.  Phases:            *)
(*                                                                         *)
(*   serving   the server accepts calls                                    *)
(*   draining  Ctrl+C came; shutdown_signal polls in_flight_appends, the   *)
(*             server accepts calls as before                              *)
(*   graceful  shutdown_signal has returned; the server accepts no         *)
(*             connections and asks those it has to go away                *)
(*   closed    ... and they have: no call begins any more                  *)
(*   returned  serve_with_shutdown has returned, main too, and             *)
(*             #[tokio::main] drops the runtime                            *)
(*   exited    the runtime is gone, and the process                        *)
(*                                                                         *)
(* tonic waits for every stream of every connection before it returns; it  *)
(* cuts none.  The runtime drops its tasks and the closures that wait for  *)
(* a blocking thread, but waits, without limit, for those that have begun. *)
(***************************************************************************)
EXTENDS Ledger

VARIABLES
  phase,    (* one of the above                                            *)
  expired,  (* DRAIN_TIMEOUT has passed since Ctrl+C                       *)
  opened,   (* the AppendCommands calls that have begun                    *)
  reads,    (* the subscriptions that are gone, but for the closure of a   *)
            (* read that nobody awaits                                     *)
  awaited   (* history: the appends in flight when Ctrl+C came, each as    *)
            (* its call and the number of its command                      *)

shutdownVars == <<phase, expired, opened, reads, awaited>>
processVars == <<vars, shutdownVars>>

Phases == {"serving", "draining", "graceful", "closed", "returned", "exited"}

AcceptsCalls == phase \in {"serving", "draining", "graceful"}

TasksRun == phase \notin {"returned", "exited"}

InFlight == {<<c, call[c].command_count>> : c \in {d \in Calls : InAppendOne(d)}}

-----------------------------------------------------------------------------
(* Calls and subscriptions *)

OpenCall(c) ==
  /\ AcceptsCalls
  /\ c \notin opened
  /\ opened' = opened \cup {c}
  /\ UNCHANGED <<vars, phase, expired, reads, awaited>>

ServeCall(c) == c \in opened /\ CallActions(c) /\ UNCHANGED shutdownVars

(* A handler that is dropped while it reads leaves the closure behind. *)
ServeSubscription(s) ==
  /\ TasksRun
  /\ pump[s].pc = "idle" => AcceptsCalls
  /\ SubActions(s)
  /\ reads' = IF pump[s].pc = "init" /\ client'[s].status = "CANCELLED"
              THEN reads \cup {s} ELSE reads
  /\ UNCHANGED <<phase, expired, opened, awaited>>

ReadReturns(s) ==
  /\ s \in reads
  /\ reads' = reads \ {s}
  /\ UNCHANGED <<vars, phase, expired, opened, awaited>>

-----------------------------------------------------------------------------
(* shutdown_signal *)

CtrlC ==
  /\ phase = "serving"
  /\ phase' = "draining"
  /\ awaited' = InFlight
  /\ UNCHANGED <<vars, expired, opened, reads>>

(* The handler of Ctrl+C cannot be installed: the server, which has only   *)
(* just begun, shuts down.                                                 *)
NoSignalHandler ==
  /\ "signal" \in Faults
  /\ phase = "serving" /\ opened = {} /\ \A s \in Subscriptions : pump[s].pc = "idle"
  /\ phase' = "graceful"
  /\ UNCHANGED <<vars, expired, opened, reads, awaited>>

TimePasses ==
  /\ phase = "draining"
  /\ ~expired
  /\ expired' = TRUE
  /\ UNCHANGED <<vars, phase, opened, reads, awaited>>

(* A poll that ends the drain; any other sleeps and polls again. *)
PollOneShort ==
  /\ phase = "draining"
  /\ in_flight_appends <= 1 \/ expired
  /\ phase' = "graceful"
  /\ UNCHANGED <<vars, expired, opened, reads, awaited>>
PollWithoutDeadline ==
  /\ phase = "draining"
  /\ in_flight_appends = 0
  /\ phase' = "graceful"
  /\ UNCHANGED <<vars, expired, opened, reads, awaited>>
Poll ==
  /\ phase = "draining"
  /\ in_flight_appends = 0 \/ expired
  /\ phase' = "graceful"
  /\ UNCHANGED <<vars, expired, opened, reads, awaited>>

-----------------------------------------------------------------------------
(* The server *)

GoAway ==
  /\ phase = "graceful"
  /\ phase' = "closed"
  /\ UNCHANGED <<vars, expired, opened, reads, awaited>>

(* Every stream is over: the call has answered or its client is gone.  The *)
(* tasks are dropped where they are, pumps without a client among them.    *)
(* Of the closures nobody awaits any more, those that have begun go on.    *)
Detached == {c \in Calls : call[c].pc = "detached"}
Loading == {s \in Subscriptions : pump[s].pc = "load"}

MainReturns ==
  /\ phase = "closed"
  /\ \A c \in opened : call[c].pc \in {"done", "detached"}
  /\ \A s \in Subscriptions : ~client[s].connected
  /\ phase' = "returned"
  /\ \E queued \in SUBSET Detached :
       call' = [c \in Calls |-> IF c \in queued THEN Ended("CANCELLED") ELSE call[c]]
  /\ reads' \in SUBSET (reads \cup Loading)
  /\ UNCHANGED <<storeVars, busVars, subVars, in_flight_appends, expired, opened, awaited>>

Exit ==
  /\ phase = "returned"
  /\ Detached = {} /\ reads = {}
  /\ ProcessStops
  /\ phase' = "exited"
  /\ UNCHANGED <<expired, opened, reads, awaited>>

-----------------------------------------------------------------------------
ShutdownInit ==
  /\ Init
  /\ phase = "serving" /\ expired = FALSE
  /\ opened = {} /\ reads = {} /\ awaited = {}

ShutdownNext ==
  \/ \E c \in Calls : OpenCall(c) \/ ServeCall(c)
  \/ \E s \in Subscriptions : ServeSubscription(s) \/ ReadReturns(s)
  \/ CtrlC \/ NoSignalHandler \/ TimePasses \/ Poll \/ GoAway \/ MainReturns \/ Exit

(* Timers fire, and tasks that can run are polled: those of                *)
(* shutdown_signal, of the server and of the calls.  Nothing is assumed of *)
(* the closures, which wait for a mutex, a write lock and a disk, nor of   *)
(* the subscriptions and of any client.                                    *)
ShutdownFairness ==
  /\ WF_processVars(TimePasses) /\ WF_processVars(Poll)
  /\ WF_processVars(GoAway) /\ WF_processVars(MainReturns) /\ WF_processVars(Exit)
  /\ \A c \in Calls :
       WF_processVars(/\ c \in opened
                      /\ Publish(c) \/ IdleTimeout(c)
                      /\ UNCHANGED <<subVars, shutdownVars>>)

ShutdownSpec == ShutdownInit /\ [][ShutdownNext]_processVars /\ ShutdownFairness

-----------------------------------------------------------------------------
(* Properties *)

ShutdownTypeOK ==
  /\ TypeOK
  /\ phase \in Phases /\ expired \in BOOLEAN
  /\ opened \subseteq Calls /\ reads \subseteq Subscriptions
  /\ awaited \subseteq Calls \X (0 .. AppendMaxCommands)

(* Before the thirty seconds are over, the server does not begin to shut   *)
(* down while an append runs that Ctrl+C found running (README.md:83); it  *)
(* may while a later one runs, of a stream that has gone on.               *)
DrainAwaitsAppends ==
  phase \in {"graceful", "closed", "returned", "exited"} /\ ~expired => awaited \cap InFlight = {}

(* The drain comes to its end by the deadline, whatever the appends do,    *)
(* those that never get the database included (main.rs:139).               *)
DrainIsBounded == phase = "draining" ~> phase # "draining"

=============================================================================
