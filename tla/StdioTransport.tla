---------------------------- MODULE StdioTransport ----------------------------
(***************************************************************************)
(* The connector's end of a session:                                       *)
(* src/prow/connector/transport_stdio.py, with the parts of runner.py that *)
(* decide when the process ends.                                           *)
(*                                                                         *)
(* The locks of the class are never held across an await, so acquiring one *)
(* does not suspend: an operation takes its slot, registers its future and *)
(* writes its frame in one step, and it removes the future and gives the   *)
(* slot back in another.                                                   *)
(***************************************************************************)
EXTENDS ProtocolWire

CONSTANTS
  Calls,       \* kinds of acknowledged operations the connector calls
  MaxInFlight  \* MAX_ACKNOWLEDGED_IN_FLIGHT

ASSUME CallsAssumption ==
  /\ Calls \subseteq {"emit", "set-state", "get-state", "cancel"}
  /\ MaxInFlight \in Nat \ {0}

VARIABLES
  op,         \* per operation: idle, or the await it is at: drain, log, answer
  future,     \* per operation: its future
  pending,    \* keys of _pending
  inFlight,   \* _in_flight_ack
  dispatch,   \* the dispatch loop: reading, at the drain of a reply, or ended
  cancelled,  \* _cancelled_event is set
  runner      \* the runner: inside setup() or fetch(), or waiting for the event

stdioVars == <<op, future, pending, inFlight, dispatch, cancelled, runner>>

StdioTypeOK ==
  /\ op \in [Ops -> {"idle", "log", "drain", "answer"}]
  /\ future \in [Ops -> {"none", "open", "result", "exception"}]
  /\ pending \subseteq Ops
  /\ inFlight \in Int
  /\ dispatch \in {"reading", "health", "shutdown", "ended"}
  /\ cancelled \in BOOLEAN
  /\ runner \in {"work", "wait"}

StdioInit ==
  /\ op = [o \in Ops |-> "idle"]
  /\ future = [o \in Ops |-> "none"]
  /\ pending = {}
  /\ inFlight = 0
  /\ dispatch = "reading"
  /\ cancelled = FALSE
  /\ runner = "work"

-----------------------------------------------------------------------------
(* Operations.                                                             *)

\* emit(), set_state(), get_state(), cancel_operation() up to the first await.  Over
\* the limit they raise TooManyInFlightError, and on a frame that cannot be encoded
\* they undo the registration: neither leaves a trace.
StartOperation(o, kind, size) ==
  /\ alive /\ op[o] = "idle" /\ ~OnWire(o)
  /\ inFlight < MaxInFlight
  /\ Encodable(size)
  /\ inFlight' = inFlight + 1
  /\ pending' = pending \cup {o}
  /\ future' = [future EXCEPT ![o] = "open"]
  /\ up' = Append(up, Request(kind, o, size))
  /\ op' = [op EXCEPT ![o] = "drain"]
  /\ handled' = [handled EXCEPT ![o] = "due"]
  /\ UNCHANGED <<down, alive, dispatch, cancelled, runner>>

\* log() and metric(): no slot, no future, no answer.
StartLog(o) ==
  /\ alive /\ op[o] = "idle"
  /\ up' = Append(up, Request("log", NoId, 1))
  /\ op' = [op EXCEPT ![o] = "log"]
  /\ UNCHANGED <<down, alive, handled, future, pending, inFlight, dispatch, cancelled, runner>>

\* drain() returns; a log call ends here.
OperationDrained(o) ==
  /\ alive /\ op[o] \in {"drain", "log"} /\ ~Paused(up)
  /\ op' = [op EXCEPT ![o] = IF @ = "log" THEN "idle" ELSE "answer"]
  /\ UNCHANGED <<wireVars, future, pending, inFlight, dispatch, cancelled, runner>>

\* The finally block of every acknowledged operation.
Leave(o) ==
  /\ pending' = pending \ {o}
  /\ inFlight' = inFlight - 1
  /\ op' = [op EXCEPT ![o] = "idle"]
  /\ future' = [future EXCEPT ![o] = "none"]
  /\ UNCHANGED <<wireVars, dispatch, cancelled, runner>>

OperationReturns(o) ==
  /\ alive /\ op[o] = "answer" /\ future[o] \in {"result", "exception"}
  /\ Leave(o)

\* Faulty variant: a cancelled operation does not give its slot back.
OperationCancelledKeepsSlot(o) ==
  /\ alive /\ op[o] \in {"drain", "answer"}
  /\ pending' = pending \ {o}
  /\ op' = [op EXCEPT ![o] = "idle"]
  /\ future' = [future EXCEPT ![o] = "none"]
  /\ UNCHANGED <<wireVars, inFlight, dispatch, cancelled, runner>>

\* The connector cancels the task of an operation, for instance by its own timeout.
OperationCancelled(o) ==
  /\ alive /\ op[o] \in {"drain", "answer"}
  /\ Leave(o)

-----------------------------------------------------------------------------
(* The dispatch loop.                                                      *)

ConnectorReads == alive /\ dispatch = "reading" /\ down # <<>>

\* Faulty variant: an answer goes to some operation that waits.
ConnectorTakesAckUnmatched ==
  /\ ConnectorReads /\ Readable(Head(down)) /\ Head(down).ack
  /\ \E o \in pending :
       pending' = pending \ {o} /\ future' = [future EXCEPT ![o] = "result"]
  /\ down' = Tail(down)
  /\ UNCHANGED <<up, alive, handled, op, inFlight, dispatch, cancelled, runner>>

\* _resolve_envelope_async: an answer nobody waits for is dropped.
ConnectorTakesAck ==
  /\ ConnectorReads /\ Readable(Head(down)) /\ Head(down).ack
  /\ LET o == Head(down).id
     IN  /\ pending' = pending \ {o}
         /\ future' = IF o \in pending THEN [future EXCEPT ![o] = "result"] ELSE future
  /\ down' = Tail(down)
  /\ UNCHANGED <<up, alive, handled, op, inFlight, dispatch, cancelled, runner>>

\* Faulty variant: the event is set before the shutdown-ack is written, and the process
\* leaves in between.
ConnectorRepliesLate ==
  /\ ConnectorReads /\ Readable(Head(down)) /\ Head(down).kind = "shutdown"
  /\ cancelled' = TRUE
  /\ dispatch' = "shutdown"
  /\ down' = Tail(down)
  /\ UNCHANGED <<up, alive, handled, op, future, pending, inFlight, runner>>

\* _reply_health_probe and _reply_shutdown_request up to the drain.
ConnectorReplies ==
  /\ ConnectorReads /\ Readable(Head(down)) /\ ~Head(down).ack
  /\ LET f == Head(down)
     IN  /\ up' = Append(up, Ack(f.kind, f.id, 1))
         /\ dispatch' = f.kind
         /\ handled' = [handled EXCEPT ![f.id] = "once"]
  /\ down' = Tail(down)
  /\ UNCHANGED <<alive, op, future, pending, inFlight, cancelled, runner>>

\* Faulty variant: the event is never set.
ReplyDrainedUnset ==
  /\ alive /\ dispatch \in {"health", "shutdown"} /\ ~Paused(up)
  /\ dispatch' = "reading"
  /\ UNCHANGED <<wireVars, op, future, pending, inFlight, cancelled, runner>>

\* The event is set behind the drain, so that the ack is out before teardown.
ReplyDrained ==
  /\ alive /\ dispatch \in {"health", "shutdown"} /\ ~Paused(up)
  /\ cancelled' = (cancelled \/ dispatch = "shutdown")
  /\ dispatch' = "reading"
  /\ UNCHANGED <<wireVars, op, future, pending, inFlight, runner>>

FailAllPending ==
  /\ future' = [o \in Ops |-> IF o \in pending THEN "exception" ELSE future[o]]
  /\ pending' = {}
  /\ inFlight' = 0

\* The loop ends on a line it cannot read.  _dispatch_started stays set, so no later
\* operation starts a new one.
ConnectorOverrun ==
  /\ ConnectorReads /\ ~Readable(Head(down))
  /\ FailAllPending
  /\ dispatch' = "ended"
  /\ UNCHANGED <<wireVars, op, cancelled, runner>>

-----------------------------------------------------------------------------
(* The end of the process.                                                 *)

\* The process is gone, and with it its tasks and what its writer had not sent.
ProcessEnds ==
  /\ alive' = FALSE
  /\ up' \in Survivors(up)
  /\ down' = <<>>
  /\ op' = [o \in Ops |-> "idle"]
  /\ future' = [o \in Ops |-> "none"]
  /\ pending' = {}
  /\ inFlight' = 0
  /\ dispatch' = "ended"
  /\ UNCHANGED <<handled, cancelled, runner>>

\* setup() or fetch() raises, or fetch() of an import connector returns, with
\* whatever tasks outstanding.
WorkEnds == alive /\ runner = "work" /\ ProcessEnds

\* setup() returns in a connector without fetch(): it lives on its own tasks.
SetupReturns ==
  /\ alive /\ runner = "work"
  /\ runner' = "wait"
  /\ UNCHANGED <<wireVars, op, future, pending, inFlight, dispatch, cancelled>>

\* The event is set: teardown and exit.
CancelledEnds == alive /\ runner = "wait" /\ cancelled /\ ProcessEnds
=============================================================================
