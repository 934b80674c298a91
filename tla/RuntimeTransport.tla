--------------------------- MODULE RuntimeTransport ---------------------------
(***************************************************************************)
(* The runtime's end of a session:                                         *)
(* src/prow/connector/runtime_transport.py.  One dispatch loop reads the   *)
(* connector's frames and awaits the database handler of each before it    *)
(* reads the next; requests of the health loop and of shutdown are written *)
(* by their own tasks into the same pipe.                                  *)
(***************************************************************************)
EXTENDS ProtocolWire

VARIABLES
  loop,      \* the dispatch loop: reading, handling, writing, or how it ended
  serving,   \* the frame whose handler runs
  request,   \* per request: idle, or the await it is at: drain, answer, term
  answer,    \* per request: its future
  asked      \* keys of _pending_runtime

runtimeVars == <<loop, serving, request, answer, asked>>

NoFrame == Request("log", NoId, 1)

RuntimeTypeOK ==
  /\ loop \in {"reading", "handling", "writing", "closed", "fatal"}
  /\ serving \in Frame
  /\ request \in [Requests -> {"idle", "drain", "answer", "term"}]
  /\ answer \in [Requests -> {"none", "open", "result", "exception"}]
  /\ asked \subseteq Requests

RuntimeInit ==
  /\ loop = "reading"
  /\ serving = NoFrame
  /\ request = [r \in Requests |-> "idle"]
  /\ answer = [r \in Requests |-> "none"]
  /\ asked = {}

-----------------------------------------------------------------------------
(* The dispatch loop.                                                      *)

LoopReads == loop = "reading" /\ up # <<>>

\* _resolve_runtime_ack: the answer to a request that has timed out is dropped.
LoopTakesAck ==
  /\ LoopReads /\ Readable(Head(up)) /\ Head(up).ack
  /\ LET r == Head(up).id
     IN  /\ asked' = asked \ {r}
         /\ answer' = IF r \in asked THEN [answer EXCEPT ![r] = "result"] ELSE answer
  /\ up' = Tail(up)
  /\ UNCHANGED <<down, alive, handled, loop, serving, request>>

\* The log and metric forwarders are synchronous and catch everything.
LoopTakesLog ==
  /\ LoopReads /\ Readable(Head(up)) /\ Head(up).kind = "log"
  /\ up' = Tail(up)
  /\ UNCHANGED <<down, alive, handled, runtimeVars>>

Handled == {"emit", "set-state", "get-state"}

\* A handler is called; it awaits the database.
LoopCallsHandler ==
  /\ LoopReads /\ Readable(Head(up)) /\ ~Head(up).ack /\ Head(up).kind \in Handled
  /\ loop' = "handling"
  /\ serving' = Head(up)
  /\ up' = Tail(up)
  /\ UNCHANGED <<down, alive, handled, request, answer, asked>>

\* The handler returns and the ack is written.  Only get-state answers with data.
HandlerReturns(size) ==
  /\ loop = "handling"
  /\ Encodable(size) /\ (serving.kind = "get-state" \/ size = 1)
  /\ handled' = [handled EXCEPT ![serving.id] = "once"]
  /\ down' = Written(down, Ack(serving.kind, serving.id, size))
  /\ loop' = "writing"
  /\ serving' = NoFrame
  /\ UNCHANGED <<up, alive, request, answer, asked>>

\* The drain of the ack returns, whether or not anybody reads.
AckDrained ==
  /\ loop = "writing" /\ ~Paused(down)
  /\ loop' = "reading"
  /\ UNCHANGED <<wireVars, serving, request, answer, asked>>

\* _fail_runtime_pending
LoopEnds(how) ==
  /\ loop' = how
  /\ serving' = NoFrame
  /\ answer' = [r \in Requests |-> IF r \in asked THEN "exception" ELSE answer[r]]
  /\ asked' = {}

\* A handler raises, or its ack exceeds the limit of encode(): the loop ends, and the
\* connector gets no answer.
HandlerRaises ==
  /\ loop = "handling"
  /\ handled' = [handled EXCEPT ![serving.id] = "failed"]
  /\ LoopEnds("fatal")
  /\ UNCHANGED <<up, down, alive, request>>

\* A line that cannot be read, or a kind that a connector may not send.
LoopRejects ==
  /\ LoopReads
  /\ ~Readable(Head(up)) \/ (Head(up).kind = "cancel" /\ ~Head(up).ack)
  /\ LoopEnds("fatal")
  /\ UNCHANGED <<wireVars, request>>

\* End of stream behind the last frame, or a broken pipe under the ack.
LoopCloses ==
  /\ ~alive
  /\ (loop = "reading" /\ up = <<>>) \/ loop = "writing"
  /\ LoopEnds("closed")
  /\ UNCHANGED <<wireVars, request>>

-----------------------------------------------------------------------------
(* Requests.                                                               *)

\* request_health() and request_shutdown() up to the drain.
StartRequest(r, kind) ==
  /\ request[r] = "idle" /\ ~OnWire(r)
  /\ asked' = asked \cup {r}
  /\ answer' = [answer EXCEPT ![r] = "open"]
  /\ down' = Written(down, Request(kind, r, 1))
  /\ request' = [request EXCEPT ![r] = "drain"]
  /\ handled' = [handled EXCEPT ![r] = "due"]
  /\ UNCHANGED <<up, alive, loop, serving>>

\* The drain is outside of wait_for(): no timeout covers it.
RequestDrained(r) ==
  /\ request[r] = "drain" /\ ~Paused(down)
  /\ request' = [request EXCEPT ![r] = "answer"]
  /\ UNCHANGED <<wireVars, loop, serving, answer, asked>>

\* Faulty variant: the future of a timed-out request stays in _pending_runtime.
LeaveRequestKeepsFuture(r, w) ==
  /\ request' = [request EXCEPT ![r] = w]
  /\ answer' = [answer EXCEPT ![r] = "none"]
  /\ asked' = asked

\* The finally block of a request, which is then at await point w.
LeaveRequest(r, w) ==
  /\ request' = [request EXCEPT ![r] = w]
  /\ answer' = [answer EXCEPT ![r] = "none"]
  /\ asked' = asked \ {r}

Succeeded(r) == request[r] = "answer" /\ answer[r] = "result"
\* Faulty variant: a request waits without a timeout.
NeverTimesOut(r) == FALSE
TimedOut(r)  == request[r] = "answer" /\ answer[r] = "open"
\* The future has failed, or the drain reports that the process is gone.
Broken(r) ==
  \/ request[r] = "answer" /\ answer[r] = "exception"
  \/ request[r] = "drain" /\ ~alive
=============================================================================
