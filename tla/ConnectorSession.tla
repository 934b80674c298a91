--------------------------- MODULE ConnectorSession ---------------------------
(***************************************************************************)
(* One protocol session between the runtime and a connector subprocess,    *)
(* from the agreed hello to the end of the process: both transports over   *)
(* their pipes, the health loop of supervisor.py that probes the session,  *)
(* and the shutdown of process.py that ends it.                            *)
(***************************************************************************)
EXTENDS StdioTransport, RuntimeTransport, FiniteSets

ASSUME OpsAssumption == IsFiniteSet(Ops)

VARIABLE misses   \* the health loop's consecutive misses

vars == <<wireVars, stdioVars, runtimeVars, misses>>

SessionTypeOK ==
  /\ WireTypeOK /\ StdioTypeOK /\ RuntimeTypeOK
  /\ misses \in 0 .. 1

Init == WireInit /\ StdioInit /\ RuntimeInit /\ misses = 0

-----------------------------------------------------------------------------
(* The health loop: one probe at a time, until a shutdown begins or the    *)
(* end of the session has been noticed.                                    *)

Kill == IF alive THEN ProcessEnds ELSE UNCHANGED <<wireVars, stdioVars>>

Stopping == \E s \in Stops : handled[s] # "none"

ProbeStarts(r) ==
  /\ ~Stopping /\ (alive \/ loop \notin {"closed", "fatal"})
  /\ \A q \in Probes : request[q] = "idle"
  /\ StartRequest(r, "health")
  /\ UNCHANGED <<stdioVars, misses>>

ProbeSucceeds(r) ==
  /\ Succeeded(r)
  /\ LeaveRequest(r, "idle")
  /\ misses' = 0
  /\ UNCHANGED <<wireVars, stdioVars, loop, serving>>

\* Faulty variants: a miss that leaves no trace, and misses that never add up to a kill.
ProbeMissedUncounted(r) ==
  /\ TimedOut(r) \/ Broken(r)
  /\ LeaveRequest(r, "idle")
  /\ UNCHANGED <<wireVars, stdioVars, loop, serving, misses>>

ProbeMissedUnbounded(r) ==
  /\ TimedOut(r) \/ Broken(r)
  /\ LeaveRequest(r, "idle")
  /\ misses' = misses + 1
  /\ UNCHANGED <<wireVars, stdioVars, loop, serving>>

ProbeMissed(r) ==
  /\ TimedOut(r) \/ Broken(r)
  /\ misses = 0
  /\ LeaveRequest(r, "idle")
  /\ misses' = 1
  /\ UNCHANGED <<wireVars, stdioVars, loop, serving>>

\* The second miss in a row kills the process.
ProbeKills(r) ==
  /\ TimedOut(r) \/ Broken(r)
  /\ misses = 1
  /\ LeaveRequest(r, "idle")
  /\ misses' = 0
  /\ Kill
  /\ UNCHANGED <<loop, serving>>

-----------------------------------------------------------------------------
(* ConnectorProcess.request_shutdown, once per request id, and the kill    *)
(* with which ConnectorInstance.request_shutdown answers its exceptions.   *)

StopStarts(s) ==
  /\ handled[s] = "none"
  /\ StartRequest(s, "shutdown")
  /\ UNCHANGED <<stdioVars, misses>>

StopAnswered(s) ==
  /\ Succeeded(s)
  /\ LeaveRequest(s, "idle")
  /\ UNCHANGED <<wireVars, stdioVars, loop, serving, misses>>

\* The transport has failed: the process is killed.
StopBroken(s) ==
  /\ Broken(s)
  /\ LeaveRequest(s, "idle")
  /\ Kill
  /\ UNCHANGED <<loop, serving, misses>>

StopTimesOut(s) ==
  /\ TimedOut(s)
  /\ LeaveRequest(s, "term")
  /\ UNCHANGED <<wireVars, stdioVars, loop, serving, misses>>

\* SIGTERM, or SIGKILL ten seconds later, ends the process.
Terminated(s) ==
  /\ request[s] = "term"
  /\ request' = [request EXCEPT ![s] = "idle"]
  /\ Kill
  /\ UNCHANGED <<loop, serving, answer, asked, misses>>

-----------------------------------------------------------------------------
(* The composition.                                                        *)

\* An id stays in use while the runtime handles its frame.
NewOperation(o) ==
  /\ serving.id # o
  /\ \/ \E k \in Calls, n \in Sizes : StartOperation(o, k, n) /\ (k \in {"emit", "set-state"} \/ n = 1)
     \/ StartLog(o)

OperationStep(o) == NewOperation(o) \/ OperationDrained(o) \/ OperationReturns(o) \/ OperationCancelled(o)

ConnectorLoopStep == ConnectorTakesAck \/ ConnectorReplies \/ ReplyDrained \/ ConnectorOverrun

RunnerStep == WorkEnds \/ SetupReturns \/ CancelledEnds

ConnectorStep == (\E o \in Ops : OperationStep(o)) \/ ConnectorLoopStep \/ RunnerStep

HandlerStep == (\E n \in Sizes : HandlerReturns(n)) \/ HandlerRaises

LoopStep ==
  \/ LoopTakesAck \/ LoopTakesLog \/ LoopCallsHandler \/ HandlerStep
  \/ AckDrained \/ LoopRejects \/ LoopCloses

RuntimeStep == LoopStep \/ \E r \in Requests : RequestDrained(r)

HealthStep(r) == ProbeStarts(r) \/ ProbeSucceeds(r) \/ ProbeMissed(r) \/ ProbeKills(r)

StopStep(s) ==
  StopStarts(s) \/ StopAnswered(s) \/ StopBroken(s) \/ StopTimesOut(s) \/ Terminated(s)

\* A step of one side leaves the tasks of the other where they are.
InConnector(A) == A /\ UNCHANGED <<runtimeVars, misses>>
InRuntime(A)   == A /\ UNCHANGED <<stdioVars, misses>>

Next ==
  \/ InConnector(ConnectorStep)
  \/ InRuntime(RuntimeStep)
  \/ \E r \in Probes : HealthStep(r)
  \/ \E s \in Stops : StopStep(s)

Spec == Init /\ [][Next]_vars

\* Every task goes on when it can: the database answers, timeouts expire, the health
\* loop comes round.  Of connector code only the return from an await is assumed.  A
\* drain that has been woken returns even if the pipe has filled up again meanwhile,
\* hence strong fairness.
SessionFairness ==
  /\ \A o \in Ops : SF_vars(InConnector(OperationDrained(o))) /\ WF_vars(InConnector(OperationReturns(o)))
  /\ WF_vars(InConnector(ConnectorLoopStep)) /\ SF_vars(InConnector(ReplyDrained))
  /\ WF_vars(InRuntime(LoopStep))
  /\ \A r \in Requests : WF_vars(InRuntime(RequestDrained(r)))
  /\ WF_vars(\E r \in Probes : ProbeStarts(r))
  /\ \A r \in Probes : WF_vars(ProbeSucceeds(r) \/ ProbeMissed(r) \/ ProbeKills(r))
  /\ \A s \in Stops : WF_vars(StopAnswered(s) \/ StopBroken(s) \/ StopTimesOut(s) \/ Terminated(s))

\* A connector that has been told to stop leaves.
ConnectorLeaves == WF_vars(InConnector(cancelled /\ (WorkEnds \/ CancelledEnds)))

FairSpec == Spec /\ SessionFairness /\ ConnectorLeaves

-----------------------------------------------------------------------------
(* Properties.                                                             *)

Active == {o \in Ops : op[o] \in {"drain", "answer"}}

\* Until the connector's dispatch loop ends, the counter is exactly the number of
\* operations between their acquire and their release, however they end.
InFlightExact == dispatch # "ended" => inFlight = Cardinality(Active) /\ inFlight <= MaxInFlight

\* At every moment, also after the loop has ended, _pending holds exactly the futures
\* somebody waits for: an answer finds its operation, and no entry survives it.
PendingIsAwaited ==
  /\ pending = {o \in Ops : future[o] = "open"}
  /\ Active = {o \in Ops : future[o] # "none"}

\* The same on the runtime's side: a probe that timed out has taken its future along.
AskedIsAwaited ==
  /\ asked = {r \in Requests : answer[r] = "open"}
  /\ {r \in Requests : request[r] \in {"drain", "answer"}} = {r \in Requests : answer[r] # "none"}

\* Neither side of a session ever leaks a future or loses one that is awaited.
FuturesAwaited == PendingIsAwaited /\ AskedIsAwaited

\* In both directions a request is handled at most once, and a result means that this
\* very request was handled, whatever timed out, was cancelled or failed before.
Caller(at, outcome) ==
  IF at \in {"idle", "log", "term"} THEN "idle"
  ELSE IF outcome = "open" THEN "waiting" ELSE outcome

Contract == INSTANCE RequestReply WITH
  caller <- [i \in Ids |-> IF i \in Ops THEN Caller(op[i], future[i]) ELSE Caller(request[i], answer[i])],
  work <- handled

KeepsContract == Contract!Spec

\* A connector that leaves because it was told to has answered a shutdown, and its answer
\* is delivered: while the runtime still waits for it, it is there to be read.
AckOutlivesConnector ==
  ~alive /\ cancelled =>
    \E s \in Stops : /\ handled[s] = "once"
                     /\ answer[s] = "open" => \E f \in ToSet(up) : f.ack /\ f.id = s

\* Every operation of a connector ends: by its answer, an error, or the health loop,
\* which kills a connector whose session is lost.
OperationsEnd == \A o \in Ops : op[o] # "idle" ~> op[o] = "idle"

\* Every probe ends, so the health loop comes round to the other connectors.
ProbesEnd == \A r \in Probes : request[r] # "idle" ~> request[r] = "idle"

\* A shutdown ends the process, with its cooperation or without, unless nobody reads
\* any more what the connector has to write before it can go.
StopsEnd == \A s \in Stops : request[s] # "idle" ~> ~alive \/ (loop = "fatal" /\ Paused(up))

-----------------------------------------------------------------------------
(* What documents say and the code does not keep.                          *)

\* "The v1 maximum is 64 in-flight acknowledged operations per connector instance."
\* _fail_all_pending() resets the counter under operations that have not released.
AtMostMaxInFlight == Cardinality(Active) <= MaxInFlight

\* "v1 has a soft limit of 1 MiB per JSON line": the runtime gives a session up only over
\* a longer line, an unfinished one or an unknown kind.  The streams are opened with
\* asyncio's default limit of 64 KiB.
OnlyLongLinesReject ==
  [][loop = "reading" /\ loop' = "fatal" =>
       Head(up).size > FrameLimit \/ Head(up).kind \in {"torn", "cancel"}]_vars
=============================================================================
