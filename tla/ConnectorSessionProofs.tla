------------------------ MODULE ConnectorSessionProofs ------------------------
(***************************************************************************)
(* Proofs about ConnectorSession, for every finite set of operations,      *)
(* every set of requests, every size and limit of frames and pipes, and    *)
(* every MaxInFlight.  What Load and Paused compute plays a part for the   *)
(* answer to a shutdown only: the other invariants hold whenever a drain   *)
(* returns.                                                                *)
(***************************************************************************)
EXTENDS ConnectorSession, FiniteSetTheorems, TLAPS

-----------------------------------------------------------------------------
(* Pipes.                                                                  *)

\* No two requests on the pipe carry the same id.
OneFrame(pipe) ==
  \A m, n \in 1 .. Len(pipe) :
    m # n /\ ~pipe[m].ack /\ ~pipe[n].ack /\ pipe[m].id # NoId => pipe[m].id # pipe[n].id

\* A torn line is a frame of its own kind, without an id.
LEMMA TornIsFrame == Torn \in Frame /\ ~Torn.ack /\ Torn.id = NoId
BY DEF Torn, Request, Frame, Kinds

\* Writing a frame.
LEMMA AppendFrame ==
  ASSUME NEW s \in Seq(Frame), NEW e \in Frame
  PROVE  /\ Append(s, e) \in Seq(Frame)
         /\ ToSet(Append(s, e)) = ToSet(s) \cup {e}
         /\ OneFrame(s) /\ (e.ack \/ e.id = NoId \/ \A f \in ToSet(s) : f.id # e.id)
              => OneFrame(Append(s, e))
<1>1. /\ Append(s, e) \in Seq(Frame)
      /\ Len(Append(s, e)) = Len(s) + 1
      /\ \A n \in 1 .. Len(s) : Append(s, e)[n] = s[n]
      /\ Append(s, e)[Len(s) + 1] = e
      /\ Len(s) \in Nat
  OBVIOUS
<1>2. ToSet(Append(s, e)) = ToSet(s) \cup {e}
  <2>1. DOMAIN s = 1 .. Len(s) /\ DOMAIN Append(s, e) = 1 .. Len(s) + 1
    BY <1>1
  <2>2. ToSet(Append(s, e)) \subseteq ToSet(s) \cup {e}
    BY <1>1, <2>1 DEF ToSet
  <2>3. ToSet(s) \cup {e} \subseteq ToSet(Append(s, e))
    BY <1>1, <2>1 DEF ToSet
  <2> QED BY <2>2, <2>3
<1>3. ASSUME OneFrame(s), e.ack \/ e.id = NoId \/ \A f \in ToSet(s) : f.id # e.id
      PROVE  OneFrame(Append(s, e))
  <2>1. \A n \in 1 .. Len(s) : s[n] \in ToSet(s)
    BY <1>1 DEF ToSet
  <2> QED BY <1>1, <1>3, <2>1 DEF OneFrame
<1> QED BY <1>1, <1>2, <1>3

\* Reading a frame.
LEMMA TakeFrame ==
  ASSUME NEW s \in Seq(Frame), s # <<>>
  PROVE  /\ Head(s) \in Frame /\ Head(s) \in ToSet(s)
         /\ Tail(s) \in Seq(Frame) /\ ToSet(Tail(s)) \subseteq ToSet(s)
         /\ OneFrame(s) => OneFrame(Tail(s))
         /\ OneFrame(s) /\ ~Head(s).ack /\ Head(s).id # NoId
              => \A f \in ToSet(Tail(s)) : ~f.ack => f.id # Head(s).id
<1>1. /\ Len(s) \in Nat \ {0} /\ Head(s) = s[1] /\ s[1] \in Frame
      /\ Tail(s) \in Seq(Frame) /\ Len(Tail(s)) = Len(s) - 1
      /\ \A n \in 1 .. Len(s) - 1 : Tail(s)[n] = s[n + 1]
      /\ DOMAIN s = 1 .. Len(s) /\ DOMAIN Tail(s) = 1 .. Len(s) - 1
  OBVIOUS
<1>2. Head(s) \in ToSet(s)
  BY <1>1 DEF ToSet
<1>3. \A f \in ToSet(Tail(s)) : \E n \in 1 .. Len(s) : n # 1 /\ f = s[n]
  BY <1>1 DEF ToSet
<1>4. ToSet(Tail(s)) \subseteq ToSet(s)
  BY <1>1, <1>3 DEF ToSet
<1>5. ASSUME OneFrame(s) PROVE OneFrame(Tail(s))
  BY <1>1, <1>5 DEF OneFrame
<1>6. ASSUME OneFrame(s), ~Head(s).ack, Head(s).id # NoId
      PROVE  \A f \in ToSet(Tail(s)) : ~f.ack => f.id # Head(s).id
  BY <1>1, <1>3, <1>6 DEF OneFrame
<1> QED BY <1>1, <1>2, <1>4, <1>5, <1>6

\* What is left of a pipe whose writer has ended.
LEMMA SurvivingFrames ==
  ASSUME NEW s \in Seq(Frame), NEW r \in Survivors(s)
  PROVE  /\ r \in Seq(Frame) /\ ToSet(r) \subseteq ToSet(s) \cup {Torn}
         /\ OneFrame(s) => OneFrame(r)
<1>1. PICK n \in 0 .. Len(s) : r = SubSeq(s, 1, n) \/ r = Append(SubSeq(s, 1, n), Torn)
  BY DEF Survivors, Sent
<1> DEFINE sent == SubSeq(s, 1, n)
<1>2. /\ sent \in Seq(Frame) /\ Len(sent) = n /\ n <= Len(s)
      /\ \A m \in 1 .. n : sent[m] = s[m]
      /\ DOMAIN sent = 1 .. n /\ DOMAIN s = 1 .. Len(s) /\ Len(s) \in Nat
  OBVIOUS
<1>3. ToSet(sent) \subseteq ToSet(s)
  <2> HIDE DEF sent
  <2> QED BY <1>2 DEF ToSet
<1>4. OneFrame(s) => OneFrame(sent)
  <2> HIDE DEF sent
  <2> QED BY <1>2 DEF OneFrame
<1>5. CASE r = sent
  BY <1>2, <1>3, <1>4, <1>5
<1>6. CASE r = Append(sent, Torn)
  <2> HIDE DEF sent
  <2> QED BY <1>2, <1>3, <1>4, <1>6, TornIsFrame, AppendFrame
<1> QED BY <1>1, <1>5, <1>6

-----------------------------------------------------------------------------
(* The inductive invariant.                                                *)

\* A frame to the runtime is an answer to a request that has been handled, a request
\* that has not, or nobody's.
UpFrame(f) ==
  IF f.ack THEN f.id \in Requests /\ handled[f.id] = "once"
  ELSE \/ f.id = NoId /\ f.kind \in {"log", "torn"}
       \/ f.id \in Ops /\ handled[f.id] = "due"

\* The same on the way to the connector.
DownFrame(f) ==
  IF f.ack THEN f.id \in Ops /\ handled[f.id] = "once"
  ELSE f.id \in Requests /\ f.kind \in {"health", "shutdown"} /\ handled[f.id] = "due"

\* The frame whose handler runs is a request of its own.
ServingIsDue ==
  loop = "handling" =>
    /\ serving.id \in Ops /\ handled[serving.id] = "due"
    /\ \A f \in ToSet(up) : ~f.ack => f.id # serving.id

Frames ==
  /\ \A f \in ToSet(up) : UpFrame(f)
  /\ \A f \in ToSet(down) : DownFrame(f)
  /\ OneFrame(up) /\ OneFrame(down)
  /\ ServingIsDue

Books == PendingIsAwaited /\ AskedIsAwaited

IInv == SessionTypeOK /\ Books /\ InFlightExact /\ Frames

-----------------------------------------------------------------------------
(* Types.                                                                  *)

USE DEF WireTypeOK, StdioTypeOK, RuntimeTypeOK, SessionTypeOK

\* Every frame the two sides write is a frame.
LEMMA FramesTyped ==
  ASSUME NEW k \in Kinds, NEW i \in Ids \cup {NoId}, NEW n \in Nat
  PROVE  Request(k, i, n) \in Frame /\ Ack(k, i, n) \in Frame
BY DEF Request, Ack, Frame

\* The end of the connector process keeps the types.
LEMMA EndType ==
  ASSUME SessionTypeOK, ProcessEnds
  PROVE  WireTypeOK' /\ StdioTypeOK'
<1>1. up' \in Seq(Frame)
  BY SurvivingFrames DEF ProcessEnds
<1>2. down' \in Seq(Frame)
  BY DEF ProcessEnds
<1>3. WireTypeOK'
  BY <1>1, <1>2 DEF ProcessEnds
<1>4. StdioTypeOK'
  BY DEF ProcessEnds
<1> QED BY <1>3, <1>4

\* Operations of the connector.
LEMMA OperationType ==
  ASSUME SessionTypeOK, NEW o \in Ops, OperationStep(o)
  PROVE  WireTypeOK' /\ StdioTypeOK'
<1>1. ASSUME NEW k \in Calls, NEW n \in Sizes, StartOperation(o, k, n)
      PROVE  WireTypeOK' /\ StdioTypeOK'
  <2>1. Request(k, o, n) \in Frame
    BY FramesTyped, CallsAssumption, SizesAssumption DEF Kinds, Ids
  <2>2. up' \in Seq(Frame)
    BY <1>1, <2>1, AppendFrame DEF StartOperation
  <2> QED BY <1>1, <2>2 DEF StartOperation, Ids
<1>2. CASE StartLog(o)
  <2>1. Request("log", NoId, 1) \in Frame
    BY FramesTyped DEF Kinds
  <2>2. up' \in Seq(Frame)
    BY <1>2, <2>1, AppendFrame DEF StartLog
  <2> QED BY <1>2, <2>2 DEF StartLog
<1>3. CASE OperationDrained(o)
  BY <1>3 DEF OperationDrained, wireVars
<1>4. CASE OperationReturns(o) \/ OperationCancelled(o)
  <2>1. Leave(o)
    BY <1>4 DEF OperationReturns, OperationCancelled
  <2>2. WireTypeOK'
    BY <2>1 DEF Leave, wireVars
  <2>3. StdioTypeOK'
    BY <2>1 DEF Leave
  <2> QED BY <2>2, <2>3
<1> QED BY <1>1, <1>2, <1>3, <1>4 DEF OperationStep, NewOperation

\* The connector's dispatch loop and its runner.
LEMMA ConnectorLoopType ==
  ASSUME SessionTypeOK, Frames, ConnectorLoopStep \/ RunnerStep
  PROVE  WireTypeOK' /\ StdioTypeOK'
<1>1. CASE ConnectorTakesAck
  <2>1. down' \in Seq(Frame)
    BY <1>1, TakeFrame DEF ConnectorTakesAck, ConnectorReads
  <2> QED BY <1>1, <2>1 DEF ConnectorTakesAck
<1>2. CASE ConnectorReplies
  <2> DEFINE f == Head(down)
  <2>1. /\ f \in Frame /\ ~f.ack /\ f.id \in Requests /\ f.kind \in {"health", "shutdown"}
        /\ down' \in Seq(Frame)
    BY <1>2, TakeFrame DEF ConnectorReplies, ConnectorReads, Frames, DownFrame
  <2>2. Ack(f.kind, f.id, 1) \in Frame
    BY <2>1, FramesTyped DEF Kinds, Ids
  <2>3. up' \in Seq(Frame)
    BY <1>2, <2>2, AppendFrame DEF ConnectorReplies
  <2> QED BY <1>2, <2>1, <2>3 DEF ConnectorReplies
<1>3. CASE ReplyDrained
  BY <1>3 DEF ReplyDrained, wireVars
<1>4. CASE ConnectorOverrun
  BY <1>4 DEF ConnectorOverrun, FailAllPending, wireVars
<1>5. CASE WorkEnds \/ CancelledEnds
  BY <1>5, EndType DEF WorkEnds, CancelledEnds
<1>6. CASE SetupReturns
  BY <1>6 DEF SetupReturns, wireVars
<1> QED BY <1>1, <1>2, <1>3, <1>4, <1>5, <1>6 DEF ConnectorLoopStep, RunnerStep

\* A write to the connector keeps the pipe a sequence of frames.
LEMMA WriteDown ==
  ASSUME SessionTypeOK, NEW f \in Frame
  PROVE  /\ Written(down, f) \in Seq(Frame)
         /\ ToSet(Written(down, f)) \subseteq ToSet(down) \cup {f}
         /\ OneFrame(down) /\ (f.ack \/ \A g \in ToSet(down) : g.id # f.id)
              => OneFrame(Written(down, f))
BY AppendFrame DEF Written

\* The runtime's dispatch loop.
LEMMA LoopType ==
  ASSUME SessionTypeOK, Frames, LoopStep
  PROVE  WireTypeOK' /\ RuntimeTypeOK'
<1>0. NoFrame \in Frame
  BY FramesTyped DEF NoFrame, Kinds
<1>1. CASE LoopTakesAck \/ LoopTakesLog \/ LoopCallsHandler
  <2>1. Head(up) \in Frame /\ up' \in Seq(Frame)
    BY <1>1, TakeFrame DEF LoopTakesAck, LoopTakesLog, LoopCallsHandler, LoopReads
  <2> QED BY <1>1, <2>1 DEF LoopTakesAck, LoopTakesLog, LoopCallsHandler, runtimeVars
<1>2. ASSUME NEW n \in Sizes, HandlerReturns(n)
      PROVE  WireTypeOK' /\ RuntimeTypeOK'
  <2>1. serving.kind \in Kinds /\ serving.id \in Ids
    BY <1>2 DEF HandlerReturns, Frames, ServingIsDue, Frame, Ids
  <2>2. Ack(serving.kind, serving.id, n) \in Frame
    BY <2>1, FramesTyped, SizesAssumption
  <2>3. down' \in Seq(Frame)
    BY <1>2, <2>2, WriteDown DEF HandlerReturns
  <2> QED BY <1>0, <1>2, <2>3 DEF HandlerReturns
<1>3. CASE HandlerRaises
  BY <1>0, <1>3 DEF HandlerRaises, LoopEnds
<1>4. CASE AckDrained
  BY <1>4 DEF AckDrained, wireVars
<1>5. CASE LoopRejects \/ LoopCloses
  BY <1>0, <1>5 DEF LoopRejects, LoopCloses, LoopEnds, wireVars
<1> QED BY <1>1, <1>2, <1>3, <1>4, <1>5 DEF LoopStep, HandlerStep

\* A kill keeps the types, whether or not the process is still there.
LEMMA KillType ==
  ASSUME SessionTypeOK, Kill
  PROVE  WireTypeOK' /\ StdioTypeOK'
<1>1. CASE alive
  BY <1>1, EndType DEF Kill
<1>2. CASE ~alive
  BY <1>2 DEF Kill, wireVars, stdioVars
<1> QED BY <1>1, <1>2

\* A new request of the runtime keeps the types.
LEMMA StartRequestType ==
  ASSUME SessionTypeOK, NEW r \in Requests, NEW k \in {"health", "shutdown"}, StartRequest(r, k)
  PROVE  WireTypeOK' /\ RuntimeTypeOK'
<1>1. Request(k, r, 1) \in Frame
  BY FramesTyped DEF Kinds, Ids
<1>2. down' \in Seq(Frame)
  BY <1>1, WriteDown DEF StartRequest
<1> QED BY <1>2 DEF StartRequest, Ids

\* Probes and stops.
LEMMA HealthType ==
  ASSUME SessionTypeOK, NEW r \in Probes, HealthStep(r)
  PROVE  SessionTypeOK'
<1> r \in Requests
  BY DEF Requests
<1>1. CASE ProbeStarts(r)
  BY <1>1, StartRequestType DEF ProbeStarts, stdioVars
<1>2. CASE ProbeSucceeds(r) \/ ProbeMissed(r)
  <2>1. LeaveRequest(r, "idle") /\ UNCHANGED <<wireVars, stdioVars, loop, serving>> /\ misses' \in 0 .. 1
    BY <1>2 DEF ProbeSucceeds, ProbeMissed
  <2>2. WireTypeOK' /\ StdioTypeOK'
    BY <2>1 DEF wireVars, stdioVars
  <2> QED BY <2>1, <2>2 DEF LeaveRequest
<1>3. CASE ProbeKills(r)
  BY <1>3, KillType DEF ProbeKills, LeaveRequest
<1> QED BY <1>1, <1>2, <1>3 DEF HealthStep

\* A step of a shutdown keeps the types.
LEMMA StopType ==
  ASSUME SessionTypeOK, NEW r \in Stops, StopStep(r)
  PROVE  SessionTypeOK'
<1> r \in Requests
  BY DEF Requests
<1>1. CASE StopStarts(r)
  BY <1>1, StartRequestType DEF StopStarts, stdioVars
<1>2. CASE StopAnswered(r) \/ StopTimesOut(r)
  <2>1. /\ LeaveRequest(r, "idle") \/ LeaveRequest(r, "term")
        /\ UNCHANGED <<wireVars, stdioVars, loop, serving, misses>>
    BY <1>2 DEF StopAnswered, StopTimesOut
  <2>2. WireTypeOK' /\ StdioTypeOK'
    BY <2>1 DEF wireVars, stdioVars
  <2>3. RuntimeTypeOK'
    BY <2>1 DEF LeaveRequest
  <2> QED BY <2>1, <2>2, <2>3
<1>3. CASE StopBroken(r)
  BY <1>3, KillType DEF StopBroken, LeaveRequest
<1>4. CASE Terminated(r)
  BY <1>4, KillType DEF Terminated
<1> QED BY <1>1, <1>2, <1>3, <1>4 DEF StopStep

\* Every step keeps the types.
LEMMA TypeKept ==
  ASSUME SessionTypeOK, Frames, [Next]_vars
  PROVE  SessionTypeOK'
<1>1. CASE InConnector(ConnectorStep)
  <2>1. WireTypeOK' /\ StdioTypeOK'
    BY <1>1, OperationType, ConnectorLoopType DEF InConnector, ConnectorStep
  <2> QED BY <1>1, <2>1 DEF InConnector, runtimeVars
<1>2. CASE InRuntime(RuntimeStep)
  <2>1. WireTypeOK' /\ RuntimeTypeOK'
    <3>1. CASE LoopStep
      BY <3>1, LoopType
    <3>2. ASSUME NEW r \in Requests, RequestDrained(r)
          PROVE  WireTypeOK' /\ RuntimeTypeOK'
      BY <3>2 DEF RequestDrained, wireVars
    <3> QED BY <1>2, <3>1, <3>2 DEF InRuntime, RuntimeStep
  <2> QED BY <1>2, <2>1 DEF InRuntime, stdioVars
<1>3. CASE \E r \in Probes : HealthStep(r)
  BY <1>3, HealthType
<1>4. CASE \E r \in Stops : StopStep(r)
  BY <1>4, StopType
<1>5. CASE UNCHANGED vars
  BY <1>5 DEF vars, wireVars, stdioVars, runtimeVars
<1> QED BY <1>1, <1>2, <1>3, <1>4, <1>5 DEF Next

-----------------------------------------------------------------------------
(* Futures.                                                                *)

\* The connector's half of Books and the counter depend on its own tasks only.
OperationBooks == PendingIsAwaited /\ InFlightExact

\* When the process ends, its operations end with it, and nothing is pending.
LEMMA EndBooks ==
  ASSUME SessionTypeOK, ProcessEnds
  PROVE  OperationBooks'
BY DEF ProcessEnds, OperationBooks, PendingIsAwaited, InFlightExact, Active

\* An operation that leaves takes its future and its slot along.
LEMMA LeaveBooks ==
  ASSUME SessionTypeOK, OperationBooks, NEW o \in Ops, op[o] \in {"drain", "answer"}, Leave(o)
  PROVE  OperationBooks'
<1>1. /\ o \in Active /\ Active' = Active \ {o}
      /\ \A q \in Ops : op'[q] = IF q = o THEN "idle" ELSE op[q]
      /\ \A q \in Ops : future'[q] = IF q = o THEN "none" ELSE future[q]
  BY DEF Leave, Active
<1>2. PendingIsAwaited'
  BY <1>1 DEF Leave, OperationBooks, PendingIsAwaited
<1>3. IsFiniteSet(Active) /\ Cardinality(Active) \in Nat
  BY OpsAssumption, FS_Subset, FS_CardinalityType DEF Active
<1>4. Cardinality(Active') = Cardinality(Active) - 1
  BY <1>1, <1>3, FS_RemoveElement
<1>5. InFlightExact'
  BY <1>3, <1>4, CallsAssumption DEF Leave, OperationBooks, InFlightExact
<1> QED BY <1>2, <1>5 DEF OperationBooks

\* Every step of an operation keeps the futures and the counter exact.
LEMMA OperationBooksKept ==
  ASSUME SessionTypeOK, OperationBooks, NEW o \in Ops, OperationStep(o)
  PROVE  OperationBooks'
<1>1. ASSUME NEW k \in Calls, NEW n \in Sizes, StartOperation(o, k, n)
      PROVE  OperationBooks'
  <2>1. /\ o \notin Active /\ Active' = Active \cup {o}
        /\ \A q \in Ops : future'[q] = IF q = o THEN "open" ELSE future[q]
    BY <1>1 DEF StartOperation, Active
  <2>2. PendingIsAwaited'
    BY <1>1, <2>1 DEF StartOperation, OperationBooks, PendingIsAwaited
  <2>3. IsFiniteSet(Active) /\ Cardinality(Active) \in Nat
    BY OpsAssumption, FS_Subset, FS_CardinalityType DEF Active
  <2>4. Cardinality(Active') = Cardinality(Active) + 1
    BY <2>1, <2>3, FS_AddElement
  <2>5. InFlightExact'
    BY <1>1, <2>3, <2>4, CallsAssumption DEF StartOperation, OperationBooks, InFlightExact
  <2> QED BY <2>2, <2>5 DEF OperationBooks
<1>2. ASSUME Active' = Active, UNCHANGED <<future, pending, inFlight, dispatch>>
      PROVE  OperationBooks'
  BY <1>2 DEF OperationBooks, PendingIsAwaited, InFlightExact
<1>3. CASE StartLog(o)
  <2>1. Active' = Active
    BY <1>3 DEF StartLog, Active
  <2> QED BY <1>2, <1>3, <2>1 DEF StartLog
<1>4. CASE OperationDrained(o)
  <2>1. Active' = Active
    BY <1>4 DEF OperationDrained, Active
  <2> QED BY <1>2, <1>4, <2>1 DEF OperationDrained
<1>5. CASE OperationReturns(o) \/ OperationCancelled(o)
  BY <1>5, LeaveBooks DEF OperationReturns, OperationCancelled
<1> QED BY <1>1, <1>3, <1>4, <1>5 DEF OperationStep, NewOperation

\* So does the connector's dispatch loop: it resolves futures, but removes none.
LEMMA ConnectorLoopBooks ==
  ASSUME SessionTypeOK, OperationBooks, ConnectorLoopStep \/ RunnerStep
  PROVE  OperationBooks'
<1>1. CASE ConnectorTakesAck
  <2>1. /\ \A q \in Ops : future'[q] = IF q = Head(down).id /\ q \in pending THEN "result" ELSE future[q]
        /\ pending' = pending \ {Head(down).id}
        /\ UNCHANGED <<op, inFlight, dispatch>>
    BY <1>1 DEF ConnectorTakesAck
  <2> QED BY <2>1 DEF OperationBooks, PendingIsAwaited, InFlightExact, Active
<1>2. CASE ConnectorReplies
  <2>1. dispatch # "ended" /\ UNCHANGED <<op, future, pending, inFlight>>
    BY <1>2 DEF ConnectorReplies, ConnectorReads
  <2> QED BY <2>1 DEF OperationBooks, PendingIsAwaited, InFlightExact, Active
<1>3. CASE ReplyDrained
  BY <1>3 DEF ReplyDrained, OperationBooks, PendingIsAwaited, InFlightExact, Active
<1>4. CASE ConnectorOverrun
  <2>1. /\ \A q \in Ops : future'[q] = IF q \in pending THEN "exception" ELSE future[q]
        /\ pending' = {} /\ op' = op /\ dispatch' = "ended"
    BY <1>4 DEF ConnectorOverrun, FailAllPending
  <2> QED BY <2>1 DEF OperationBooks, PendingIsAwaited, InFlightExact, Active
<1>5. CASE WorkEnds \/ CancelledEnds
  BY <1>5, EndBooks DEF WorkEnds, CancelledEnds
<1>6. CASE SetupReturns
  BY <1>6 DEF SetupReturns, OperationBooks, PendingIsAwaited, InFlightExact, Active
<1> QED BY <1>1, <1>2, <1>3, <1>4, <1>5, <1>6 DEF ConnectorLoopStep, RunnerStep

\* The runtime's half of Books.
LEMMA LoopBooks ==
  ASSUME SessionTypeOK, AskedIsAwaited, LoopStep
  PROVE  AskedIsAwaited'
<1>1. CASE LoopTakesAck
  <2>1. /\ \A q \in Requests : answer'[q] = IF q = Head(up).id /\ q \in asked THEN "result" ELSE answer[q]
        /\ asked' = asked \ {Head(up).id} /\ request' = request
    BY <1>1 DEF LoopTakesAck
  <2> QED BY <2>1 DEF AskedIsAwaited
<1>2. ASSUME UNCHANGED <<request, answer, asked>>
      PROVE  AskedIsAwaited'
  BY <1>2 DEF AskedIsAwaited
<1>3. CASE LoopTakesLog \/ LoopCallsHandler \/ AckDrained \/ \E n \in Sizes : HandlerReturns(n)
  BY <1>2, <1>3 DEF LoopTakesLog, LoopCallsHandler, AckDrained, HandlerReturns, runtimeVars
<1>4. CASE HandlerRaises \/ LoopRejects \/ LoopCloses
  <2>1. /\ \A q \in Requests : answer'[q] = IF q \in asked THEN "exception" ELSE answer[q]
        /\ asked' = {} /\ request' = request
    BY <1>4 DEF HandlerRaises, LoopRejects, LoopCloses, LoopEnds
  <2> QED BY <2>1 DEF AskedIsAwaited
<1> QED BY <1>1, <1>3, <1>4 DEF LoopStep, HandlerStep

\* A request that leaves takes its future along.
LEMMA LeaveRequestBooks ==
  ASSUME SessionTypeOK, AskedIsAwaited, NEW r \in Requests, NEW w \in {"idle", "term"},
         LeaveRequest(r, w)
  PROVE  AskedIsAwaited'
<1>1. /\ \A q \in Requests : answer'[q] = IF q = r THEN "none" ELSE answer[q]
      /\ \A q \in Requests : request'[q] = IF q = r THEN w ELSE request[q]
      /\ asked' = asked \ {r}
  BY DEF LeaveRequest
<1> QED BY <1>1 DEF AskedIsAwaited

\* A new request of the runtime comes with an open future.
LEMMA StartRequestBooks ==
  ASSUME SessionTypeOK, AskedIsAwaited, NEW r \in Requests, NEW k, StartRequest(r, k)
  PROVE  AskedIsAwaited'
<1>1. /\ \A q \in Requests : answer'[q] = IF q = r THEN "open" ELSE answer[q]
      /\ \A q \in Requests : request'[q] = IF q = r THEN "drain" ELSE request[q]
      /\ asked' = asked \cup {r}
  BY DEF StartRequest
<1> QED BY <1>1 DEF AskedIsAwaited

\* Every step of a probe or a shutdown keeps the runtime's futures exact.
LEMMA RequestBooks ==
  ASSUME SessionTypeOK, AskedIsAwaited, NEW r \in Requests,
         (r \in Probes /\ HealthStep(r)) \/ (r \in Stops /\ StopStep(r))
  PROVE  AskedIsAwaited'
<1>1. CASE ProbeStarts(r) \/ StopStarts(r)
  BY <1>1, StartRequestBooks DEF ProbeStarts, StopStarts
<1>2. CASE \/ ProbeSucceeds(r) \/ ProbeMissed(r) \/ ProbeKills(r)
           \/ StopAnswered(r) \/ StopBroken(r) \/ StopTimesOut(r)
  BY <1>2, LeaveRequestBooks
     DEF ProbeSucceeds, ProbeMissed, ProbeKills, StopAnswered, StopBroken, StopTimesOut
<1>3. CASE Terminated(r)
  <2>1. /\ \A q \in Requests : request'[q] = IF q = r THEN "idle" ELSE request[q]
        /\ request[r] = "term" /\ UNCHANGED <<answer, asked>>
    BY <1>3 DEF Terminated
  <2> QED BY <2>1 DEF AskedIsAwaited
<1> QED BY <1>1, <1>2, <1>3 DEF HealthStep, StopStep

\* A kill keeps both sides' books.
LEMMA KillBooks ==
  ASSUME SessionTypeOK, OperationBooks, Kill
  PROVE  OperationBooks'
<1>1. CASE alive
  BY <1>1, EndBooks DEF Kill
<1>2. CASE ~alive
  BY <1>2 DEF Kill, stdioVars, OperationBooks, PendingIsAwaited, InFlightExact, Active
<1> QED BY <1>1, <1>2

\* A probe or a stop leaves the connector's tasks alone, or ends its process.
LEMMA RequestsLeaveOperations ==
  ASSUME (\E r \in Probes : HealthStep(r)) \/ (\E r \in Stops : StopStep(r))
  PROVE  UNCHANGED stdioVars \/ Kill
BY DEF HealthStep, StopStep, ProbeStarts, ProbeSucceeds, ProbeMissed, ProbeKills,
       StopStarts, StopAnswered, StopBroken, StopTimesOut, Terminated

\* Every step keeps the futures of both sides, and the counter, exact.
LEMMA BooksKept ==
  ASSUME SessionTypeOK, Books, InFlightExact, [Next]_vars
  PROVE  Books' /\ InFlightExact'
<1> USE DEF Books
<1>1. ASSUME UNCHANGED stdioVars PROVE OperationBooks'
  BY <1>1 DEF stdioVars, OperationBooks, PendingIsAwaited, InFlightExact, Active
<1>2. ASSUME UNCHANGED runtimeVars PROVE AskedIsAwaited'
  BY <1>2 DEF runtimeVars, AskedIsAwaited
<1>3. CASE InConnector(ConnectorStep)
  <2>1. OperationBooks'
    BY <1>3, OperationBooksKept, ConnectorLoopBooks DEF InConnector, ConnectorStep, OperationBooks
  <2> QED BY <1>2, <1>3, <2>1 DEF InConnector, OperationBooks
<1>4. CASE InRuntime(RuntimeStep)
  <2>1. AskedIsAwaited'
    <3>1. CASE LoopStep
      BY <3>1, LoopBooks
    <3>2. ASSUME NEW r \in Requests, RequestDrained(r)
          PROVE  AskedIsAwaited'
      <4>1. /\ \A q \in Requests : request'[q] = IF q = r THEN "answer" ELSE request[q]
            /\ request[r] = "drain" /\ UNCHANGED <<answer, asked>>
        BY <3>2 DEF RequestDrained
      <4> QED BY <4>1 DEF AskedIsAwaited
    <3> QED BY <1>4, <3>1, <3>2 DEF InRuntime, RuntimeStep
  <2> QED BY <1>1, <1>4, <2>1 DEF InRuntime, OperationBooks
<1>5. CASE (\E r \in Probes : HealthStep(r)) \/ (\E r \in Stops : StopStep(r))
  <2>1. AskedIsAwaited'
    BY <1>5, RequestBooks DEF Requests
  <2>2. OperationBooks'
    BY <1>1, <1>5, RequestsLeaveOperations, KillBooks DEF OperationBooks
  <2> QED BY <2>1, <2>2 DEF OperationBooks
<1>6. CASE UNCHANGED vars
  BY <1>1, <1>2, <1>6 DEF vars, OperationBooks
<1> QED BY <1>3, <1>4, <1>5, <1>6 DEF Next

-----------------------------------------------------------------------------
(* Frames.                                                                 *)

\* A step that handles nothing, and writes nothing that waits to be handled.
LEMMA FramesDwindle ==
  ASSUME Frames, OneFrame(up'), OneFrame(down'), handled' = handled,
         \A f \in ToSet(up') : f \in ToSet(up) \/ (~f.ack /\ f.id = NoId /\ f.kind \in {"log", "torn"}),
         ToSet(down') \subseteq ToSet(down),
         loop' = "handling" => loop = "handling" /\ serving' = serving
  PROVE  Frames'
<1>1. \A f \in ToSet(up') : UpFrame(f)'
  BY DEF Frames, UpFrame
<1>2. \A f \in ToSet(down') : DownFrame(f)'
  BY DEF Frames, DownFrame
<1>3. ServingIsDue'
  BY IdsAssumption DEF Frames, ServingIsDue, Ids
<1> QED BY <1>1, <1>2, <1>3 DEF Frames

\* What the frames stand for outlives a step that leaves the wire alone.
LEMMA FramesUnread ==
  ASSUME Frames, UNCHANGED wireVars, loop' = "handling" => loop = "handling" /\ serving' = serving
  PROVE  Frames'
BY FramesDwindle DEF Frames, wireVars

\* The frames that survive the end of the process still stand for what they did.
LEMMA EndFrames ==
  ASSUME SessionTypeOK, Frames, ProcessEnds, UNCHANGED <<loop, serving>>
  PROVE  Frames'
<1>1. \A f \in ToSet(up') : f \in ToSet(up) \/ f = Torn
  BY SurvivingFrames DEF ProcessEnds
<1>2. OneFrame(up')
  BY SurvivingFrames DEF ProcessEnds, Frames
<1>3. down' = <<>> /\ ToSet(down') = {} /\ OneFrame(down')
  BY DEF ProcessEnds, ToSet, OneFrame
<1>4. Torn.kind = "torn"
  BY DEF Torn, Request
<1> QED BY <1>1, <1>2, <1>3, <1>4, TornIsFrame, FramesDwindle DEF ProcessEnds

\* So do those that survive a kill.
LEMMA KillFrames ==
  ASSUME SessionTypeOK, Frames, Kill, UNCHANGED <<loop, serving>>
  PROVE  Frames'
<1>1. CASE alive
  BY <1>1, EndFrames DEF Kill
<1>2. CASE ~alive
  BY <1>2, FramesUnread DEF Kill
<1> QED BY <1>1, <1>2

\* An operation writes a request only for an id that no frame carries.
LEMMA OperationFrames ==
  ASSUME SessionTypeOK, Frames, NEW o \in Ops, OperationStep(o), UNCHANGED <<loop, serving>>
  PROVE  Frames'
<1>1. ASSUME NEW k \in Calls, NEW n \in Sizes, StartOperation(o, k, n), serving.id # o
      PROVE  Frames'
  <2> DEFINE f == Request(k, o, n)
  <2>1. f \in Frame /\ ~f.ack /\ f.id = o
    BY FramesTyped, CallsAssumption, SizesAssumption DEF Kinds, Ids, Request
  <2>2. /\ ~OnWire(o) /\ up' = Append(up, f) /\ down' = down
        /\ \A i \in Ids : handled'[i] = IF i = o THEN "due" ELSE handled[i]
    BY <1>1 DEF StartOperation
  <2>3. \A g \in ToSet(up) \cup ToSet(down) : g.id # o
    BY <2>2 DEF OnWire
  <2> HIDE DEF f
  <2>4. ToSet(up') = ToSet(up) \cup {f} /\ OneFrame(up')
    BY <2>1, <2>2, <2>3, AppendFrame DEF Frames
  <2>5. \A g \in ToSet(up') : UpFrame(g)'
    BY <2>1, <2>2, <2>3, <2>4 DEF Frames, UpFrame, Ids
  <2>6. \A g \in ToSet(down') : DownFrame(g)'
    BY <2>2, <2>3 DEF Frames, DownFrame, Ids
  <2>7. ServingIsDue'
    BY <1>1, <2>1, <2>2, <2>4 DEF Frames, ServingIsDue, Ids
  <2> QED BY <2>2, <2>4, <2>5, <2>6, <2>7 DEF Frames
<1>2. CASE StartLog(o)
  <2> DEFINE f == Request("log", NoId, 1)
  <2>1. f \in Frame /\ ~f.ack /\ f.id = NoId /\ f.kind = "log"
    BY FramesTyped DEF Kinds, Request
  <2>2. up' = Append(up, f) /\ down' = down /\ handled' = handled
    BY <1>2 DEF StartLog
  <2> HIDE DEF f
  <2>3. ToSet(up') = ToSet(up) \cup {f} /\ OneFrame(up')
    BY <2>1, <2>2, AppendFrame DEF Frames
  <2> QED BY <2>1, <2>2, <2>3, FramesDwindle DEF Frames
<1>3. CASE OperationDrained(o) \/ OperationReturns(o) \/ OperationCancelled(o)
  BY <1>3, FramesUnread DEF OperationDrained, OperationReturns, OperationCancelled, Leave
<1> QED BY <1>1, <1>2, <1>3 DEF OperationStep, NewOperation

\* The connector answers only requests that it has handled.
LEMMA ConnectorLoopFrames ==
  ASSUME SessionTypeOK, Frames, ConnectorLoopStep \/ RunnerStep, UNCHANGED <<loop, serving>>
  PROVE  Frames'
<1>1. CASE ConnectorTakesAck
  <2>1. ToSet(down') \subseteq ToSet(down) /\ OneFrame(down') /\ UNCHANGED <<up, handled>>
    BY <1>1, TakeFrame DEF ConnectorTakesAck, ConnectorReads, Frames
  <2> QED BY <2>1, FramesDwindle DEF Frames
<1>2. CASE ConnectorReplies
  <2> DEFINE f == Head(down)  a == Ack(f.kind, f.id, 1)
  <2>1. /\ f \in Frame /\ ~f.ack /\ f.id \in Requests /\ f.kind \in {"health", "shutdown"}
        /\ f.id # NoId
    BY <1>2, TakeFrame, IdsAssumption
       DEF ConnectorReplies, ConnectorReads, Frames, DownFrame, Ids
  <2>2. a \in Frame /\ a.ack /\ a.id = f.id
    BY <2>1, FramesTyped DEF Kinds, Ids, Ack
  <2>3. /\ up' = Append(up, a) /\ down' = Tail(down) /\ down # <<>>
        /\ \A i \in Ids : handled'[i] = IF i = f.id THEN "once" ELSE handled[i]
    BY <1>2 DEF ConnectorReplies, ConnectorReads
  <2>4. /\ ToSet(down') \subseteq ToSet(down) /\ OneFrame(down')
        /\ \A g \in ToSet(down') : ~g.ack => g.id # f.id
    BY <2>1, <2>3, TakeFrame DEF Frames
  <2> HIDE DEF f, a
  <2>5. ToSet(up') = ToSet(up) \cup {a} /\ OneFrame(up')
    BY <2>2, <2>3, AppendFrame DEF Frames
  <2>6. \A g \in ToSet(up') : UpFrame(g)'
    BY <2>1, <2>2, <2>3, <2>5, IdsAssumption DEF Frames, UpFrame, Ids
  <2>7. \A g \in ToSet(down') : DownFrame(g)'
    BY <2>1, <2>3, <2>4, IdsAssumption DEF Frames, DownFrame, Ids
  <2>8. ServingIsDue'
    BY <2>1, <2>2, <2>3, <2>5, IdsAssumption DEF Frames, ServingIsDue, Ids
  <2> QED BY <2>4, <2>5, <2>6, <2>7, <2>8 DEF Frames
<1>3. CASE ReplyDrained \/ ConnectorOverrun \/ SetupReturns
  BY <1>3, FramesUnread DEF ReplyDrained, ConnectorOverrun, SetupReturns
<1>4. CASE WorkEnds \/ CancelledEnds
  BY <1>4, EndFrames DEF WorkEnds, CancelledEnds
<1> QED BY <1>1, <1>2, <1>3, <1>4 DEF ConnectorLoopStep, RunnerStep

\* A handler ends, one way or the other: its request is no longer due.
LEMMA HandlerEndFrames ==
  ASSUME SessionTypeOK, Frames, loop = "handling", loop' # "handling",
         NEW w \in {"once", "failed"}, up' = up,
         handled' = [handled EXCEPT ![serving.id] = w],
         \/ down' = down
         \/ w = "once" /\ \E f \in Frame : f.ack /\ f.id = serving.id /\ down' = Written(down, f)
  PROVE  Frames'
<1>1. /\ serving.id \in Ops /\ handled[serving.id] = "due"
      /\ \A f \in ToSet(up) : ~f.ack => f.id # serving.id
      /\ \A i \in Ids : handled'[i] = IF i = serving.id THEN w ELSE handled[i]
  BY DEF Frames, ServingIsDue
<1>2. \A f \in ToSet(up') : UpFrame(f)'
  BY <1>1, IdsAssumption DEF Frames, UpFrame, Ids
<1>3. \A f \in ToSet(down) : DownFrame(f)'
  BY <1>1, IdsAssumption DEF Frames, DownFrame, Ids
<1>4. (\A f \in ToSet(down') : DownFrame(f)') /\ OneFrame(down')
  <2>1. CASE down' = down
    BY <1>3, <2>1 DEF Frames
  <2>2. ASSUME w = "once", NEW f \in Frame, f.ack, f.id = serving.id, down' = Written(down, f)
        PROVE  (\A g \in ToSet(down') : DownFrame(g)') /\ OneFrame(down')
    <3>1. ToSet(down') \subseteq ToSet(down) \cup {f} /\ OneFrame(down')
      BY <2>2, WriteDown DEF Frames
    <3>2. DownFrame(f)'
      BY <1>1, <2>2 DEF DownFrame, Ids
    <3> QED BY <1>3, <3>1, <3>2
  <2> QED BY <2>1, <2>2
<1>5. ServingIsDue'
  BY DEF ServingIsDue
<1> QED BY <1>2, <1>4, <1>5 DEF Frames

\* The runtime answers only requests that it has handled, from the frame it serves.
LEMMA LoopFrames ==
  ASSUME SessionTypeOK, Frames, LoopStep
  PROVE  Frames'
<1>1. CASE LoopTakesAck \/ LoopTakesLog
  <2>1. ToSet(up') \subseteq ToSet(up) /\ OneFrame(up') /\ UNCHANGED <<down, handled>> /\ loop' = "reading"
    BY <1>1, TakeFrame DEF LoopTakesAck, LoopTakesLog, LoopReads, runtimeVars, Frames
  <2> QED BY <2>1, FramesDwindle DEF Frames
<1>2. CASE LoopCallsHandler
  <2> DEFINE f == Head(up)
  <2>1. f \in ToSet(up) /\ ~f.ack /\ f.kind \in Handled /\ serving' = f
    BY <1>2, TakeFrame DEF LoopCallsHandler, LoopReads
  <2>2. f.id \in Ops /\ handled[f.id] = "due" /\ f.id # NoId
    BY <2>1, IdsAssumption DEF Frames, UpFrame, Handled, Ids
  <2>3. /\ ToSet(up') \subseteq ToSet(up) /\ OneFrame(up')
        /\ \A g \in ToSet(up') : ~g.ack => g.id # f.id
    BY <1>2, <2>1, <2>2, TakeFrame DEF LoopCallsHandler, LoopReads, Frames
  <2> HIDE DEF f
  <2>4. UNCHANGED <<down, handled>>
    BY <1>2 DEF LoopCallsHandler
  <2>5. ServingIsDue'
    BY <2>1, <2>2, <2>3, <2>4 DEF ServingIsDue
  <2>6. \A g \in ToSet(up') : UpFrame(g)'
    BY <2>3, <2>4 DEF Frames, UpFrame
  <2>7. \A g \in ToSet(down') : DownFrame(g)'
    BY <2>4 DEF Frames, DownFrame
  <2> QED BY <2>3, <2>4, <2>5, <2>6, <2>7 DEF Frames
<1>3. ASSUME NEW n \in Sizes, HandlerReturns(n)
      PROVE  Frames'
  <2> DEFINE a == Ack(serving.kind, serving.id, n)
  <2>1. serving.kind \in Kinds /\ serving.id \in Ids
    BY <1>3 DEF HandlerReturns, Frames, ServingIsDue, Frame, Ids
  <2>2. a \in Frame /\ a.ack /\ a.id = serving.id
    BY <2>1, FramesTyped, SizesAssumption DEF Ack
  <2> HIDE DEF a
  <2> QED BY <1>3, <2>2, HandlerEndFrames DEF HandlerReturns, a
<1>4. CASE HandlerRaises
  BY <1>4, HandlerEndFrames DEF HandlerRaises, LoopEnds
<1>5. CASE AckDrained \/ LoopRejects \/ LoopCloses
  BY <1>5, FramesUnread DEF AckDrained, LoopRejects, LoopCloses, LoopEnds
<1> QED BY <1>1, <1>2, <1>3, <1>4, <1>5 DEF LoopStep, HandlerStep

\* The runtime's own requests carry fresh ids too.
LEMMA StartRequestFrames ==
  ASSUME SessionTypeOK, Frames, NEW r \in Requests, NEW k \in {"health", "shutdown"}, StartRequest(r, k)
  PROVE  Frames'
<1> DEFINE f == Request(k, r, 1)
<1>1. f \in Frame /\ ~f.ack /\ f.id = r /\ f.kind = k
  BY FramesTyped DEF Kinds, Ids, Request
<1>2. /\ ~OnWire(r) /\ down' = Written(down, f) /\ UNCHANGED <<up, loop, serving>>
      /\ \A i \in Ids : handled'[i] = IF i = r THEN "due" ELSE handled[i]
  BY DEF StartRequest
<1>3. \A g \in ToSet(up) \cup ToSet(down) : g.id # r
  BY <1>2 DEF OnWire
<1> HIDE DEF f
<1>4. ToSet(down') \subseteq ToSet(down) \cup {f} /\ OneFrame(down')
  BY <1>1, <1>2, <1>3, WriteDown DEF Frames
<1>5. \A g \in ToSet(up') : UpFrame(g)'
  BY <1>2, <1>3 DEF Frames, UpFrame, Ids
<1>6. \A g \in ToSet(down') : DownFrame(g)'
  BY <1>1, <1>2, <1>3, <1>4 DEF Frames, DownFrame, Ids
<1>7. ServingIsDue'
  BY <1>2, IdsAssumption DEF Frames, ServingIsDue, Ids
<1> QED BY <1>2, <1>4, <1>5, <1>6, <1>7 DEF Frames

\* Every step keeps the frames on the wire honest.
LEMMA FramesKept ==
  ASSUME SessionTypeOK, Frames, [Next]_vars
  PROVE  Frames'
<1>1. CASE InConnector(ConnectorStep)
  BY <1>1, OperationFrames, ConnectorLoopFrames DEF InConnector, ConnectorStep, runtimeVars
<1>2. CASE InRuntime(RuntimeStep)
  <2>1. ASSUME NEW r \in Requests, RequestDrained(r)
        PROVE  Frames'
    BY <2>1, FramesUnread DEF RequestDrained
  <2> QED BY <1>2, <2>1, LoopFrames DEF InRuntime, RuntimeStep
<1>3. ASSUME NEW r \in Probes, HealthStep(r) PROVE Frames'
  <2>1. CASE ProbeStarts(r)
    BY <2>1, StartRequestFrames DEF ProbeStarts, Requests
  <2>2. CASE ProbeSucceeds(r) \/ ProbeMissed(r)
    BY <2>2, FramesUnread DEF ProbeSucceeds, ProbeMissed
  <2>3. CASE ProbeKills(r)
    BY <2>3, KillFrames DEF ProbeKills
  <2> QED BY <1>3, <2>1, <2>2, <2>3 DEF HealthStep
<1>4. ASSUME NEW r \in Stops, StopStep(r) PROVE Frames'
  <2>1. CASE StopStarts(r)
    BY <2>1, StartRequestFrames DEF StopStarts, Requests
  <2>2. CASE StopAnswered(r) \/ StopTimesOut(r)
    BY <2>2, FramesUnread DEF StopAnswered, StopTimesOut
  <2>3. CASE StopBroken(r) \/ Terminated(r)
    BY <2>3, KillFrames DEF StopBroken, Terminated
  <2> QED BY <1>4, <2>1, <2>2, <2>3 DEF StopStep
<1>5. CASE UNCHANGED vars
  BY <1>5, FramesUnread DEF vars, runtimeVars
<1> QED BY <1>1, <1>2, <1>3, <1>4, <1>5 DEF Next

-----------------------------------------------------------------------------
(* The contract.                                                           *)

CallerOf(i) == IF i \in Ops THEN Caller(op[i], future[i]) ELSE Caller(request[i], answer[i])

\* What one step of the contract may do to the request with id i.
Honoured(i) ==
  \/ CallerOf(i) = "idle" /\ CallerOf(i)' = "waiting" /\ handled'[i] = "due"
  \/ handled[i] = "due" /\ handled'[i] \in {"once", "failed"} /\ CallerOf(i)' = CallerOf(i)
  \/ CallerOf(i) = "waiting" /\ handled[i] = "once" /\ CallerOf(i)' = "result" /\ handled'[i] = handled[i]
  \/ CallerOf(i) = "waiting" /\ CallerOf(i)' = "exception" /\ handled'[i] = handled[i]
  \/ CallerOf(i)' \in {"idle", CallerOf(i)} /\ handled'[i] = handled[i]

\* A step that honours every id is a step of the contract.
LEMMA ContractById ==
  ASSUME SessionTypeOK, SessionTypeOK', \A i \in Ids : Honoured(i)
  PROVE  Contract!Next
<1>1. DOMAIN handled' = Ids
  OBVIOUS
<1> QED BY <1>1
     DEF Contract!Next, Contract!Ask, Contract!Work, Contract!Reply, Contract!Fail,
         Contract!End, Contract!Rest, Honoured, CallerOf

\* The future with which somebody waits for the answer to i.
FutureOf(i) == IF i \in Ops THEN future[i] ELSE answer[i]

\* What a caller sees of its future.
Seen(f) == IF f = "none" THEN "idle" ELSE IF f = "open" THEN "waiting" ELSE f

\* What the contract sees of a caller is what its future shows.
LEMMA CallerSees ==
  ASSUME NEW at \in {"idle", "log", "term", "drain", "answer"}, NEW f,
         at \in {"drain", "answer"} <=> f # "none"
  PROVE  Caller(at, f) = Seen(f)
BY DEF Caller, Seen

\* What a step does to the futures, it does to the callers.
LEMMA HonouredByFuture ==
  ASSUME SessionTypeOK, Books, SessionTypeOK', Books', NEW i \in Ids,
         \/ FutureOf(i) = "none" /\ FutureOf(i)' = "open" /\ handled'[i] = "due"
         \/ handled[i] = "due" /\ handled'[i] \in {"once", "failed"} /\ FutureOf(i)' = FutureOf(i)
         \/ /\ FutureOf(i) = "open" /\ handled'[i] = handled[i]
            /\ (handled[i] = "once" /\ FutureOf(i)' = "result") \/ FutureOf(i)' = "exception"
         \/ FutureOf(i)' \in {"none", FutureOf(i)} /\ handled'[i] = handled[i]
  PROVE  Honoured(i)
<1>1. CASE i \in Ops
  <2>1. /\ op[i] \in {"drain", "answer"} <=> future[i] # "none"
        /\ op'[i] \in {"drain", "answer"} <=> future'[i] # "none"
    BY <1>1 DEF Books, PendingIsAwaited, Active
  <2>2. CallerOf(i) = Seen(future[i]) /\ CallerOf(i)' = Seen(future'[i])
    BY <1>1, <2>1, CallerSees DEF CallerOf
  <2> QED BY <1>1, <2>2 DEF Honoured, FutureOf, Seen
<1>2. CASE i \notin Ops
  <2>1. i \in Requests
    BY <1>2 DEF Ids
  <2>2. /\ request[i] \in {"drain", "answer"} <=> answer[i] # "none"
        /\ request'[i] \in {"drain", "answer"} <=> answer'[i] # "none"
    BY <2>1 DEF Books, AskedIsAwaited
  <2>3. {request[i], request'[i]} \subseteq {"idle", "drain", "answer", "term"}
    BY <2>1
  <2>4. Caller(request[i], answer[i]) = Seen(answer[i])
    BY <2>2, <2>3, CallerSees
  <2>5. Caller(request'[i], answer'[i]) = Seen(answer'[i])
    BY <2>2, <2>3, CallerSees
  <2> QED BY <1>2, <2>4, <2>5 DEF Honoured, FutureOf, Seen, CallerOf
<1> QED BY <1>1, <1>2

\* How a step treats the futures of the operations, and those of the requests.
OperationHonoured(o) ==
  \/ future[o] = "none" /\ future'[o] = "open" /\ handled'[o] = "due"
  \/ handled[o] = "due" /\ handled'[o] \in {"once", "failed"} /\ future'[o] = future[o]
  \/ /\ future[o] = "open" /\ handled'[o] = handled[o]
     /\ (handled[o] = "once" /\ future'[o] = "result") \/ future'[o] = "exception"
  \/ future'[o] \in {"none", future[o]} /\ handled'[o] = handled[o]

RequestHonoured(r) ==
  \/ answer[r] = "none" /\ answer'[r] = "open" /\ handled'[r] = "due"
  \/ handled[r] = "due" /\ handled'[r] \in {"once", "failed"} /\ answer'[r] = answer[r]
  \/ /\ answer[r] = "open" /\ handled'[r] = handled[r]
     /\ (handled[r] = "once" /\ answer'[r] = "result") \/ answer'[r] = "exception"
  \/ answer'[r] \in {"none", answer[r]} /\ handled'[r] = handled[r]

AllHonoured == (\A o \in Ops : OperationHonoured(o)) /\ (\A r \in Requests : RequestHonoured(r))

\* Honoured steps of the session are steps of the contract, or none.
LEMMA ContractStep ==
  ASSUME SessionTypeOK, Books, SessionTypeOK', Books', AllHonoured
  PROVE  Contract!Next
<1>1. ASSUME NEW i \in Ids PROVE Honoured(i)
  <2>1. CASE i \in Ops
    <3>1. OperationHonoured(i)
      BY <2>1 DEF AllHonoured
    <3> QED BY <2>1, <3>1, HonouredByFuture DEF OperationHonoured, FutureOf
  <2>2. CASE i \notin Ops
    <3>1. RequestHonoured(i)
      BY <2>2 DEF AllHonoured, Ids
    <3> QED BY <2>2, <3>1, HonouredByFuture DEF RequestHonoured, FutureOf
  <2> QED BY <2>1, <2>2
<1> QED BY <1>1, ContractById

\* A step that handles no request and gives no result.
LEMMA NothingHandled ==
  ASSUME SessionTypeOK, handled' = handled,
         \A o \in Ops : future'[o] \in {"none", future[o]},
         \A r \in Requests : answer'[r] \in {"none", answer[r]}
  PROVE  AllHonoured
BY DEF AllHonoured, OperationHonoured, RequestHonoured

\* A kill handles nothing and resolves nothing: it only takes futures away.
LEMMA KillHonoured ==
  ASSUME SessionTypeOK, Kill
  PROVE  handled' = handled /\ \A o \in Ops : future'[o] \in {"none", future[o]}
<1>1. CASE alive
  BY <1>1 DEF Kill, ProcessEnds
<1>2. CASE ~alive
  BY <1>2 DEF Kill, wireVars, stdioVars
<1> QED BY <1>1, <1>2

\* Every step of the connector's side honours every id.
LEMMA ConnectorHonours ==
  ASSUME SessionTypeOK, Books, Frames, InConnector(ConnectorStep)
  PROVE  AllHonoured
<1>1. UNCHANGED answer
  BY DEF InConnector, runtimeVars
<1>2. ASSUME handled' = handled, \A o \in Ops : future'[o] \in {"none", future[o]}
      PROVE  AllHonoured
  BY <1>1, <1>2, NothingHandled
<1>3. ASSUME NEW o \in Ops, OperationStep(o)
      PROVE  AllHonoured
  <2>1. ASSUME NEW k \in Calls, NEW n \in Sizes, StartOperation(o, k, n)
        PROVE  AllHonoured
    <3>1. /\ future[o] = "none"
          /\ \A q \in Ops : future'[q] = IF q = o THEN "open" ELSE future[q]
          /\ \A i \in Ids : handled'[i] = IF i = o THEN "due" ELSE handled[i]
      BY <2>1 DEF StartOperation, Books, PendingIsAwaited, Active
    <3> QED BY <1>1, <3>1, IdsAssumption DEF AllHonoured, OperationHonoured, RequestHonoured, Ids
  <2>2. CASE StartLog(o) \/ OperationDrained(o)
    BY <1>2, <2>2 DEF StartLog, OperationDrained, wireVars
  <2>3. CASE OperationReturns(o) \/ OperationCancelled(o)
    <3>1. handled' = handled /\ \A q \in Ops : future'[q] = IF q = o THEN "none" ELSE future[q]
      BY <2>3 DEF OperationReturns, OperationCancelled, Leave, wireVars
    <3> QED BY <1>2, <3>1
  <2> QED BY <1>3, <2>1, <2>2, <2>3 DEF OperationStep, NewOperation
<1>4. CASE ConnectorTakesAck
  <2> DEFINE i == Head(down).id
  <2>1. i \in Ops /\ handled[i] = "once"
    BY <1>4, TakeFrame DEF ConnectorTakesAck, ConnectorReads, Frames, DownFrame
  <2>2. /\ handled' = handled
        /\ \A q \in Ops : future'[q] = IF q = i /\ q \in pending THEN "result" ELSE future[q]
    BY <1>4 DEF ConnectorTakesAck
  <2>3. \A q \in Ops : q \in pending => future[q] = "open"
    BY DEF Books, PendingIsAwaited
  <2> HIDE DEF i
  <2> QED BY <1>1, <2>1, <2>2, <2>3 DEF AllHonoured, OperationHonoured, RequestHonoured
<1>5. CASE ConnectorReplies
  <2> DEFINE i == Head(down).id
  <2>1. i \in Requests /\ handled[i] = "due"
    BY <1>5, TakeFrame DEF ConnectorReplies, ConnectorReads, Frames, DownFrame
  <2>2. /\ future' = future
        /\ \A q \in Ids : handled'[q] = IF q = i THEN "once" ELSE handled[q]
    BY <1>5 DEF ConnectorReplies
  <2> HIDE DEF i
  <2> QED BY <1>1, <2>1, <2>2, IdsAssumption DEF AllHonoured, OperationHonoured, RequestHonoured, Ids
<1>6. CASE ReplyDrained \/ SetupReturns
  BY <1>2, <1>6 DEF ReplyDrained, SetupReturns, wireVars
<1>7. CASE ConnectorOverrun
  <2>1. /\ handled' = handled
        /\ \A q \in Ops : future'[q] = IF q \in pending THEN "exception" ELSE future[q]
        /\ \A q \in Ops : q \in pending => future[q] = "open"
    BY <1>7 DEF ConnectorOverrun, FailAllPending, wireVars, Books, PendingIsAwaited
  <2> QED BY <1>1, <2>1 DEF AllHonoured, OperationHonoured, RequestHonoured
<1>8. CASE WorkEnds \/ CancelledEnds
  BY <1>2, <1>8 DEF WorkEnds, CancelledEnds, ProcessEnds
<1> QED BY <1>3, <1>4, <1>5, <1>6, <1>7, <1>8
    DEF InConnector, ConnectorStep, ConnectorLoopStep, RunnerStep

\* Every step of the runtime's dispatch loop honours every id.
LEMMA RuntimeHonours ==
  ASSUME SessionTypeOK, Books, Frames, InRuntime(RuntimeStep)
  PROVE  AllHonoured
<1>1. UNCHANGED future
  BY DEF InRuntime, stdioVars
<1>2. CASE LoopTakesAck
  <2> DEFINE i == Head(up).id
  <2>1. i \in Requests /\ handled[i] = "once"
    BY <1>2, TakeFrame DEF LoopTakesAck, LoopReads, Frames, UpFrame
  <2>2. /\ handled' = handled
        /\ \A q \in Requests : answer'[q] = IF q = i /\ q \in asked THEN "result" ELSE answer[q]
    BY <1>2 DEF LoopTakesAck
  <2>3. \A q \in Requests : q \in asked => answer[q] = "open"
    BY DEF Books, AskedIsAwaited
  <2> HIDE DEF i
  <2> QED BY <1>1, <2>1, <2>2, <2>3 DEF AllHonoured, OperationHonoured, RequestHonoured
<1>3. CASE LoopTakesLog \/ LoopCallsHandler \/ AckDrained
  BY <1>1, <1>3, NothingHandled DEF LoopTakesLog, LoopCallsHandler, AckDrained, runtimeVars, wireVars
<1>4. ASSUME loop = "handling", NEW w \in {"once", "failed"},
             handled' = [handled EXCEPT ![serving.id] = w],
             \A r \in Requests : answer'[r] = answer[r] \/ (answer[r] = "open" /\ answer'[r] = "exception")
      PROVE  AllHonoured
  <2>1. /\ serving.id \in Ops /\ handled[serving.id] = "due"
        /\ \A i \in Ids : handled'[i] = IF i = serving.id THEN w ELSE handled[i]
    BY <1>4 DEF Frames, ServingIsDue
  <2> QED BY <1>1, <1>4, <2>1, IdsAssumption DEF AllHonoured, OperationHonoured, RequestHonoured, Ids
<1>5. ASSUME NEW n \in Sizes, HandlerReturns(n) PROVE AllHonoured
  BY <1>4, <1>5 DEF HandlerReturns
<1>6. ASSUME NEW how, LoopEnds(how)
      PROVE  \A r \in Requests : answer'[r] = answer[r] \/ (answer[r] = "open" /\ answer'[r] = "exception")
  BY <1>6 DEF LoopEnds, Books, AskedIsAwaited
<1>7. CASE HandlerRaises
  BY <1>4, <1>6, <1>7 DEF HandlerRaises
<1>8. CASE LoopRejects \/ LoopCloses
  BY <1>1, <1>6, <1>8 DEF LoopRejects, LoopCloses, wireVars, AllHonoured, OperationHonoured, RequestHonoured
<1>9. ASSUME NEW r \in Requests, RequestDrained(r) PROVE AllHonoured
  BY <1>1, <1>9, NothingHandled DEF RequestDrained, wireVars
<1> QED BY <1>2, <1>3, <1>5, <1>7, <1>8, <1>9 DEF InRuntime, RuntimeStep, LoopStep, HandlerStep

\* Every step of a probe or a shutdown honours every id.
LEMMA RequestsHonour ==
  ASSUME SessionTypeOK, Books, Frames,
         (\E r \in Probes : HealthStep(r)) \/ (\E r \in Stops : StopStep(r))
  PROVE  AllHonoured
<1>1. ASSUME NEW r \in Requests, NEW k, StartRequest(r, k), UNCHANGED stdioVars, request[r] = "idle"
      PROVE  AllHonoured
  <2>1. /\ answer[r] = "none" /\ UNCHANGED future
        /\ \A q \in Requests : answer'[q] = IF q = r THEN "open" ELSE answer[q]
        /\ \A i \in Ids : handled'[i] = IF i = r THEN "due" ELSE handled[i]
    BY <1>1 DEF StartRequest, stdioVars, Books, AskedIsAwaited
  <2> QED BY <2>1, IdsAssumption DEF AllHonoured, OperationHonoured, RequestHonoured, Ids
<1>2. ASSUME NEW r \in Requests, NEW w, LeaveRequest(r, w) \/ UNCHANGED answer,
             UNCHANGED <<wireVars, stdioVars>> \/ Kill
      PROVE  AllHonoured
  <2>1. \A q \in Requests : answer'[q] \in {"none", answer[q]}
    BY <1>2 DEF LeaveRequest
  <2>2. handled' = handled /\ \A o \in Ops : future'[o] \in {"none", future[o]}
    BY <1>2, KillHonoured DEF wireVars, stdioVars
  <2> QED BY <2>1, <2>2, NothingHandled
<1>3. ASSUME NEW r \in Probes, HealthStep(r) PROVE AllHonoured
  <2> r \in Requests
    BY DEF Requests
  <2>1. CASE ProbeStarts(r)
    BY <1>1, <2>1 DEF ProbeStarts, StartRequest
  <2>2. CASE ProbeSucceeds(r) \/ ProbeMissed(r) \/ ProbeKills(r)
    BY <1>2, <2>2 DEF ProbeSucceeds, ProbeMissed, ProbeKills
  <2> QED BY <1>3, <2>1, <2>2 DEF HealthStep
<1>4. ASSUME NEW r \in Stops, StopStep(r) PROVE AllHonoured
  <2> r \in Requests
    BY DEF Requests
  <2>1. CASE StopStarts(r)
    BY <1>1, <2>1 DEF StopStarts, StartRequest
  <2>2. CASE StopAnswered(r) \/ StopBroken(r) \/ StopTimesOut(r) \/ Terminated(r)
    BY <1>2, <2>2 DEF StopAnswered, StopBroken, StopTimesOut, Terminated
  <2> QED BY <1>4, <2>1, <2>2 DEF StopStep
<1> QED BY <1>3, <1>4

-----------------------------------------------------------------------------
(* How much is on a pipe.                                                  *)

\* A pipe holds finitely many units.
LEMMA LoadIsNat ==
  ASSUME NEW s \in Seq(Frame)
  PROVE  IsFiniteSet(Units(s)) /\ Load(s) \in Nat
<1>1. DOMAIN s = 1 .. Len(s) /\ Len(s) \in Nat /\ \A i \in 1 .. Len(s) : s[i] \in Frame
  OBVIOUS
<1>2. IsFiniteSet(1 .. Len(s))
  BY <1>1, FS_Interval
<1> DEFINE part == [i \in 1 .. Len(s) |-> {i} \X (1 .. s[i].size)]
           Parts == {part[i] : i \in 1 .. Len(s)}
<1>3. IsFiniteSet(Parts)
  <2>1. part \in Surjection(1 .. Len(s), Parts)
    BY DEF Surjection
  <2> QED BY <1>2, <2>1, FS_Surjection
<1>4. ASSUME NEW T \in Parts PROVE IsFiniteSet(T)
  <2>1. PICK i \in 1 .. Len(s) : T = {i} \X (1 .. s[i].size)
    OBVIOUS
  <2>2. PICK n \in Int : n = s[i].size
    <3>1. s[i] \in Frame
      BY <1>1
    <3> QED BY <3>1 DEF Frame
  <2>3. IsFiniteSet(1 .. s[i].size)
    <3>1. IsFiniteSet(1 .. n)
      BY FS_Interval
    <3> QED BY <2>2, <3>1
  <2> QED BY <2>1, <2>3, FS_Singleton, FS_Product
<1>5. Units(s) = UNION Parts
  BY <1>1 DEF Units
<1>6. IsFiniteSet(Units(s))
  <2> HIDE DEF Parts
  <2> QED BY <1>3, <1>4, <1>5, FS_UNION
<1> QED BY <1>6, FS_CardinalityType DEF Load

\* What the first frames of a pipe weigh.
LEMMA UnitsOfPrefix ==
  ASSUME NEW s \in Seq(Frame), NEW n \in 0 .. Len(s)
  PROVE  /\ SubSeq(s, 1, n) \in Seq(Frame) /\ Len(SubSeq(s, 1, n)) = n
         /\ \A i \in 1 .. n : SubSeq(s, 1, n)[i] = s[i]
         /\ Units(SubSeq(s, 1, n)) = {u \in (1 .. n) \X Nat : u[2] \in 1 .. s[u[1]].size}
<1> DEFINE p == SubSeq(s, 1, n)
<1>1. /\ p \in Seq(Frame) /\ Len(p) = n /\ DOMAIN p = 1 .. n
      /\ \A i \in 1 .. n : p[i] = s[i]
  OBVIOUS
<1> HIDE DEF p
<1>2. Units(p) = UNION {{i} \X (1 .. s[i].size) : i \in 1 .. n}
  BY <1>1 DEF Units
<1>3. \A i \in 1 .. n : s[i].size \in Nat /\ 1 .. s[i].size \subseteq Nat
  <2>1. \A i \in 1 .. n : s[i] \in Frame
    OBVIOUS
  <2> QED BY <2>1 DEF Frame
<1>4. UNION {{i} \X (1 .. s[i].size) : i \in 1 .. n} = {u \in (1 .. n) \X Nat : u[2] \in 1 .. s[u[1]].size}
  BY <1>3
<1> QED BY <1>1, <1>2, <1>4 DEF p

\* More frames weigh no less.
LEMMA LoadGrows ==
  ASSUME NEW s \in Seq(Frame), NEW n \in 0 .. Len(s), NEW m \in 0 .. n
  PROVE  Load(SubSeq(s, 1, m)) <= Load(SubSeq(s, 1, n))
<1>1. m \in 0 .. Len(s) /\ 1 .. m \subseteq 1 .. n
  OBVIOUS
<1>2. Units(SubSeq(s, 1, m)) \subseteq Units(SubSeq(s, 1, n))
  BY <1>1, UnitsOfPrefix
<1>3. IsFiniteSet(Units(SubSeq(s, 1, n)))
  BY UnitsOfPrefix, LoadIsNat
<1> QED BY <1>2, <1>3, FS_Subset DEF Load

\* What is behind the head weighs no more without it.
LEMMA LoadOfTail ==
  ASSUME NEW s \in Seq(Frame), NEW i \in 2 .. Len(s)
  PROVE  Load(SubSeq(Tail(s), 1, i - 1)) <= Load(SubSeq(s, 1, i))
<1>1. /\ s # <<>> /\ Tail(s) \in Seq(Frame) /\ Len(Tail(s)) = Len(s) - 1
      /\ \A k \in 1 .. Len(s) - 1 : Tail(s)[k] = s[k + 1]
  OBVIOUS
<1>2. i - 1 \in 0 .. Len(Tail(s)) /\ i \in 0 .. Len(s)
  BY <1>1
<1> DEFINE A == Units(SubSeq(Tail(s), 1, i - 1))
           B == Units(SubSeq(s, 1, i))
<1>3. A = {u \in (1 .. i - 1) \X Nat : u[2] \in 1 .. Tail(s)[u[1]].size}
  BY <1>1, <1>2, UnitsOfPrefix
<1>4. B = {u \in (1 .. i) \X Nat : u[2] \in 1 .. s[u[1]].size}
  BY <1>2, UnitsOfPrefix
<1>5. IsFiniteSet(B)
  BY <1>2, UnitsOfPrefix, LoadIsNat
<1> DEFINE behind == [u \in A |-> <<u[1] + 1, u[2]>>]
<1>6. ASSUME NEW u \in A PROVE behind[u] \in B
  <2>1. u[1] \in 1 .. i - 1 /\ u[2] \in Nat /\ u[2] \in 1 .. Tail(s)[u[1]].size
    BY <1>3
  <2>2. u[1] + 1 \in 1 .. i /\ Tail(s)[u[1]] = s[u[1] + 1]
    BY <1>1, <2>1
  <2>3. behind[u] = <<u[1] + 1, u[2]>>
    OBVIOUS
  <2> HIDE DEF behind
  <2> QED BY <1>4, <2>1, <2>2, <2>3
<1>7. ASSUME NEW u \in A, NEW v \in A, behind[u] = behind[v] PROVE u = v
  <2>1. u \in (1 .. i - 1) \X Nat /\ v \in (1 .. i - 1) \X Nat
    BY <1>3
  <2>2. u[1] + 1 = v[1] + 1 /\ u[2] = v[2]
    BY <1>7
  <2>3. u[1] = v[1]
    BY <2>1, <2>2
  <2> QED BY <2>1, <2>2, <2>3
<1>8. behind \in [A -> B]
  BY <1>6
<1>9. behind \in Injection(A, B)
  <2> HIDE DEF A, B, behind
  <2> QED BY <1>7, <1>8 DEF Injection, IsInjective
<1> HIDE DEF A, B, behind
<1>10. Cardinality(A) <= Cardinality(B)
  BY <1>5, <1>9, FS_Injection
<1> QED BY <1>10 DEF Load, A, B

-----------------------------------------------------------------------------
(* The answer to a shutdown.                                               *)

\* The answer to r is on the pipe, no further back than behind the given amount of data.
AckOn(pipe, r) == \E i \in 1 .. Len(pipe) : pipe[i].ack /\ pipe[i].id = r
AckWithin(pipe, r, room) ==
  \E i \in 1 .. Len(pipe) : pipe[i].ack /\ pipe[i].id = r /\ Load(SubSeq(pipe, 1, i)) <= room

\* Only stops ask for a shutdown, and no answer looks like a log frame.
KindsFit ==
  /\ \A f \in ToSet(down) : ~f.ack /\ f.kind = "shutdown" => f.id \in Stops
  /\ \A f \in ToSet(up) : f.ack => f.kind # "log"

\* No answer gets lost while the connector lives.
AnswersOnWire ==
  alive => \A r \in Requests : handled[r] = "once" /\ answer[r] = "open" => AckOn(up, r)

\* The loop that awaits the drain of shutdown-ack has handled a shutdown.
ShutdownHandled == dispatch = "shutdown" => \E s \in Stops : handled[s] = "once"

\* The cancelled event is set when the drain of some shutdown-ack has returned: what the
\* runtime has not yet read of that answer is within reach of the buffers.
AckWithinReach ==
  alive /\ cancelled =>
    \E s \in Stops : /\ handled[s] = "once"
                     /\ answer[s] = "open" => AckWithin(up, s, PipeRoom + HighWater)

\* If the writer keeps no data back, that answer outlives the connector.
AckSurvives ==
  HighWater = 0 /\ ~alive /\ cancelled =>
    \E s \in Stops : handled[s] = "once" /\ (answer[s] = "open" => AckOn(up, s))

AckInv == KindsFit /\ AnswersOnWire /\ ShutdownHandled /\ AckWithinReach /\ AckSurvives

\* A frame written behind an answer leaves it where it is.
LEMMA AckBeforeWrite ==
  ASSUME NEW s \in Seq(Frame), NEW e \in Frame, NEW r, NEW room
  PROVE  /\ AckOn(s, r) => AckOn(Append(s, e), r)
         /\ AckWithin(s, r, room) => AckWithin(Append(s, e), r, room)
<1>1. /\ Append(s, e) \in Seq(Frame) /\ Len(Append(s, e)) = Len(s) + 1 /\ Len(s) \in Nat
      /\ \A i \in 1 .. Len(s) : Append(s, e)[i] = s[i]
  OBVIOUS
<1>2. ASSUME NEW i \in 1 .. Len(s) PROVE SubSeq(Append(s, e), 1, i) = SubSeq(s, 1, i)
  OBVIOUS
<1>3. ASSUME NEW i \in 1 .. Len(s) PROVE i \in 1 .. Len(Append(s, e))
  BY <1>1
<1> QED BY <1>1, <1>2, <1>3 DEF AckOn, AckWithin

\* Another frame read in front of an answer brings it nearer.
LEMMA AckBehindRead ==
  ASSUME NEW s \in Seq(Frame), s # <<>>, NEW r, ~(Head(s).ack /\ Head(s).id = r), NEW room \in Nat
  PROVE  /\ AckOn(s, r) => AckOn(Tail(s), r)
         /\ AckWithin(s, r, room) => AckWithin(Tail(s), r, room)
<1>1. /\ Tail(s) \in Seq(Frame) /\ Len(Tail(s)) = Len(s) - 1 /\ Len(s) \in Nat
      /\ \A k \in 1 .. Len(s) - 1 : Tail(s)[k] = s[k + 1]
      /\ Head(s) = s[1]
  OBVIOUS
<1>2. ASSUME NEW i \in 1 .. Len(s), s[i].ack /\ s[i].id = r
      PROVE  i \in 2 .. Len(s) /\ i - 1 \in 1 .. Len(Tail(s)) /\ Tail(s)[i - 1] = s[i]
  <2>1. i # 1
    BY <1>1, <1>2
  <2>2. i \in 2 .. Len(s) /\ i - 1 \in 1 .. Len(s) - 1 /\ (i - 1) + 1 = i
    BY <1>1, <2>1
  <2> QED BY <1>1, <2>2
<1>3. ASSUME NEW i \in 2 .. Len(s), Load(SubSeq(s, 1, i)) <= room
      PROVE  Load(SubSeq(Tail(s), 1, i - 1)) <= room
  <2>1. Load(SubSeq(Tail(s), 1, i - 1)) <= Load(SubSeq(s, 1, i))
    BY LoadOfTail
  <2>2. i \in 0 .. Len(s) /\ i - 1 \in 0 .. Len(Tail(s))
    BY <1>1
  <2>3. Load(SubSeq(Tail(s), 1, i - 1)) \in Nat /\ Load(SubSeq(s, 1, i)) \in Nat
    BY <1>1, <2>2, UnitsOfPrefix, LoadIsNat
  <2> QED BY <1>3, <2>1, <2>3
<1>4. AckOn(s, r) => AckOn(Tail(s), r)
  BY <1>2 DEF AckOn
<1>5. AckWithin(s, r, room) => AckWithin(Tail(s), r, room)
  BY <1>2, <1>3 DEF AckWithin
<1> QED BY <1>4, <1>5

\* When drain() returns, all that has been written is within reach.
LEMMA DrainedAck ==
  ASSUME NEW s \in Seq(Frame), NEW r, AckOn(s, r), ~Paused(s)
  PROVE  AckWithin(s, r, PipeRoom + HighWater)
<1>1. PICK i \in 1 .. Len(s) : s[i].ack /\ s[i].id = r
  BY DEF AckOn
<1>2. SubSeq(s, 1, Len(s)) = s /\ Len(s) \in 0 .. Len(s) /\ i \in 0 .. Len(s) /\ Len(s) \in Nat
  OBVIOUS
<1>3. Load(SubSeq(s, 1, i)) <= Load(s)
  BY <1>2, LoadGrows
<1>4. Load(SubSeq(s, 1, i)) \in Nat /\ Load(s) \in Nat
  BY <1>2, UnitsOfPrefix, LoadIsNat
<1>5. Load(s) <= PipeRoom + HighWater
  BY <1>4, SizesAssumption DEF Paused
<1>6. Load(SubSeq(s, 1, i)) <= PipeRoom + HighWater
  BY <1>3, <1>4, <1>5, SizesAssumption
<1> QED BY <1>1, <1>6 DEF AckWithin

\* What the buffers behind the writer's process hold, its end cannot take back.
LEMMA SentAck ==
  ASSUME NEW s \in Seq(Frame), NEW r, AckWithin(s, r, PipeRoom), NEW left \in Survivors(s)
  PROVE  AckOn(left, r)
<1>1. PICK i \in 1 .. Len(s) : s[i].ack /\ s[i].id = r /\ Load(SubSeq(s, 1, i)) <= PipeRoom
  BY DEF AckWithin
<1>2. PICK n \in Sent(s) : left = SubSeq(s, 1, n) \/ left = Append(SubSeq(s, 1, n), Torn)
  BY DEF Survivors
<1>3. n \in 0 .. Len(s) /\ \A m \in n + 1 .. Len(s) : Load(SubSeq(s, 1, m)) > PipeRoom
  BY <1>2 DEF Sent
<1>4. i <= n
  <2>1. i \notin n + 1 .. Len(s)
    <3>1. i \in 0 .. Len(s)
      OBVIOUS
    <3>2. Load(SubSeq(s, 1, i)) \in Nat
      BY <3>1, UnitsOfPrefix, LoadIsNat
    <3> QED BY <1>1, <1>3, <3>2, SizesAssumption
  <2> QED BY <1>3, <2>1
<1>5. /\ SubSeq(s, 1, n) \in Seq(Frame) /\ Len(SubSeq(s, 1, n)) = n
      /\ \A k \in 1 .. n : SubSeq(s, 1, n)[k] = s[k]
  BY <1>3, UnitsOfPrefix
<1>6. i \in 1 .. n
  BY <1>3, <1>4
<1>7. AckOn(SubSeq(s, 1, n), r)
  BY <1>1, <1>5, <1>6 DEF AckOn
<1> QED BY <1>2, <1>5, <1>7, TornIsFrame, AckBeforeWrite

\* A step that answers nothing, and after which every answer that is still awaited is where
\* it was or nearer.
Delivers ==
  /\ UNCHANGED alive /\ (cancelled' => cancelled) /\ (dispatch' = "shutdown" => dispatch = "shutdown")
  /\ KindsFit'
  /\ \A s \in Stops : handled[s] = "once" => handled'[s] = "once"
  /\ \A r \in Requests : answer'[r] = "open" /\ handled'[r] = "once" =>
       /\ answer[r] = "open" /\ handled[r] = "once"
       /\ AckOn(up, r) => AckOn(up', r)
       /\ AckWithin(up, r, PipeRoom + HighWater) => AckWithin(up', r, PipeRoom + HighWater)

\* Such a step loses no answer.
LEMMA DeliversKeeps ==
  ASSUME AckInv, Delivers
  PROVE  AckInv'
<1> USE DEF AckInv, Delivers
<1>1. AnswersOnWire'
  BY DEF AnswersOnWire
<1>2. ShutdownHandled'
  BY DEF ShutdownHandled
<1>3. \A s \in Stops : s \in Requests
  BY DEF Requests
<1>4. AckWithinReach'
  BY <1>3 DEF AckWithinReach
<1>5. AckSurvives'
  BY <1>3 DEF AckSurvives
<1> QED BY <1>1, <1>2, <1>4, <1>5

\* A step that leaves the pipes and the histories alone, and opens no future.
LEMMA WireUnread ==
  ASSUME AckInv, UNCHANGED wireVars, cancelled' => cancelled,
         dispatch' = "shutdown" => dispatch = "shutdown",
         \A r \in Requests : answer'[r] = "open" => answer[r] = "open"
  PROVE  AckInv'
<1>1. Delivers
  BY DEF Delivers, AckInv, KindsFit, wireVars
<1> QED BY <1>1, DeliversKeeps

\* An operation writes behind the answers.
LEMMA OperationAck ==
  ASSUME IInv, AckInv, NEW o \in Ops, OperationStep(o), UNCHANGED runtimeVars
  PROVE  AckInv'
<1>1. ASSUME NEW f \in Frame, ~f.ack, up' = Append(up, f), UNCHANGED <<down, alive, dispatch, cancelled>>,
             \A r \in Requests : handled'[r] = handled[r]
      PROVE  AckInv'
  <2>1. ToSet(up') = ToSet(up) \cup {f} /\ up \in Seq(Frame)
    BY <1>1, AppendFrame DEF IInv
  <2>2. KindsFit'
    BY <1>1, <2>1 DEF AckInv, KindsFit
  <2>3. Delivers
    BY <1>1, <2>1, <2>2, AckBeforeWrite DEF Delivers, Requests, runtimeVars
  <2> QED BY <2>3, DeliversKeeps
<1>2. ASSUME NEW k \in Calls, NEW n \in Sizes, StartOperation(o, k, n) PROVE AckInv'
  <2>1. Request(k, o, n) \in Frame /\ ~Request(k, o, n).ack
    BY FramesTyped, CallsAssumption, SizesAssumption DEF Kinds, Ids, Request
  <2>2. \A r \in Requests : handled'[r] = handled[r]
    BY <1>2, IdsAssumption DEF StartOperation, Ids, IInv
  <2> QED BY <1>1, <1>2, <2>1, <2>2 DEF StartOperation
<1>3. CASE StartLog(o)
  <2>1. Request("log", NoId, 1) \in Frame /\ ~Request("log", NoId, 1).ack
    BY FramesTyped DEF Kinds, Request
  <2> QED BY <1>1, <1>3, <2>1 DEF StartLog
<1>4. CASE OperationDrained(o) \/ OperationReturns(o) \/ OperationCancelled(o)
  BY <1>4, WireUnread DEF OperationDrained, OperationReturns, OperationCancelled, Leave, runtimeVars
<1> QED BY <1>2, <1>3, <1>4 DEF OperationStep, NewOperation

\* A process that ends has sent the answer to the shutdown that made it leave.
LEMMA EndAck ==
  ASSUME IInv, AckInv, alive, ProcessEnds, \A r \in Requests : answer'[r] = "open" => answer[r] = "open"
  PROVE  AckInv'
<1>1. /\ ~alive' /\ up' \in Survivors(up) /\ down' = <<>> /\ dispatch' = "ended"
      /\ UNCHANGED <<handled, cancelled>> /\ up \in Seq(Frame)
  BY DEF ProcessEnds, IInv
<1>2. KindsFit'
  <2>1. ToSet(up') \subseteq ToSet(up) \cup {Torn}
    BY <1>1, SurvivingFrames
  <2>2. ToSet(down') = {}
    BY <1>1 DEF ToSet
  <2> QED BY <2>1, <2>2, TornIsFrame DEF AckInv, KindsFit
<1>3. AckSurvives'
  <2> SUFFICES ASSUME HighWater = 0, cancelled
               PROVE  \E s \in Stops : handled[s] = "once" /\ (answer'[s] = "open" => AckOn(up', s))
    BY <1>1 DEF AckSurvives
  <2>1. PICK s \in Stops : /\ handled[s] = "once"
                           /\ answer[s] = "open" => AckWithin(up, s, PipeRoom + HighWater)
    BY DEF AckInv, AckWithinReach
  <2>2. PipeRoom + HighWater = PipeRoom
    BY SizesAssumption
  <2>3. answer'[s] = "open" => AckOn(up', s)
    BY <1>1, <2>1, <2>2, SentAck DEF Requests
  <2> QED BY <2>1, <2>3
<1> QED BY <1>1, <1>2, <1>3 DEF AckInv, AnswersOnWire, ShutdownHandled, AckWithinReach

\* The connector's dispatch loop answers a shutdown, drains, and only then sets the event.
LEMMA ConnectorLoopAck ==
  ASSUME IInv, AckInv, ConnectorLoopStep \/ RunnerStep, UNCHANGED runtimeVars
  PROVE  AckInv'
<1>0. UNCHANGED answer /\ up \in Seq(Frame) /\ down \in Seq(Frame)
  BY DEF runtimeVars, IInv
<1>1. CASE ConnectorTakesAck
  <2>1. ToSet(down') \subseteq ToSet(down)
    BY <1>0, <1>1, TakeFrame DEF ConnectorTakesAck, ConnectorReads
  <2>2. UNCHANGED <<up, alive, handled, dispatch, cancelled>>
    BY <1>1 DEF ConnectorTakesAck
  <2>3. KindsFit'
    BY <2>1, <2>2 DEF AckInv, KindsFit
  <2>4. Delivers
    BY <1>0, <2>2, <2>3 DEF Delivers
  <2> QED BY <2>4, DeliversKeeps
<1>2. CASE ConnectorReplies
  <2> DEFINE f == Head(down)
             a == Ack(f.kind, f.id, 1)
  <2>1. /\ f \in ToSet(down) /\ ~f.ack /\ ToSet(down') \subseteq ToSet(down)
        /\ f.id \in Requests /\ f.kind \in {"health", "shutdown"}
    BY <1>0, <1>2, TakeFrame DEF ConnectorReplies, ConnectorReads, IInv, Frames, DownFrame
  <2>2. f.kind = "shutdown" => f.id \in Stops
    BY <2>1 DEF AckInv, KindsFit
  <2>3. /\ up' = Append(up, a) /\ dispatch' = f.kind /\ UNCHANGED <<alive, cancelled>>
        /\ alive
        /\ handled' = [handled EXCEPT ![f.id] = "once"]
    BY <1>2 DEF ConnectorReplies, ConnectorReads
  <2>4. a \in Frame /\ a.ack /\ a.id = f.id /\ a.kind = f.kind
    BY <2>1, FramesTyped DEF Kinds, Ids, Ack
  <2>5. \A i \in Ids : handled'[i] = IF i = f.id THEN "once" ELSE handled[i]
    BY <2>3 DEF IInv
  <2>6. f.id \in Ids /\ Requests \subseteq Ids /\ Stops \subseteq Requests
    BY <2>1 DEF Ids, Requests
  <2> HIDE DEF f, a
  <2>7. ToSet(up') = ToSet(up) \cup {a}
    BY <1>0, <2>3, <2>4, AppendFrame
  <2>8. KindsFit'
    BY <2>1, <2>4, <2>7 DEF AckInv, KindsFit
  <2>9. AckOn(up', f.id)
    <3>1. Len(up') \in 1 .. Len(up') /\ up'[Len(up')] = a
      BY <1>0, <2>3, <2>4
    <3> QED BY <2>4, <3>1 DEF AckOn
  <2>10. AnswersOnWire'
    BY <1>0, <2>3, <2>4, <2>5, <2>6, <2>9, AckBeforeWrite DEF AckInv, AnswersOnWire
  <2>11. ShutdownHandled'
    BY <2>2, <2>3, <2>5, <2>6 DEF ShutdownHandled
  <2>12. AckWithinReach'
    BY <1>0, <2>3, <2>4, <2>5, <2>6, AckBeforeWrite DEF AckInv, AckWithinReach
  <2>13. AckSurvives'
    BY <2>3 DEF AckSurvives
  <2> QED BY <2>8, <2>10, <2>11, <2>12, <2>13 DEF AckInv
<1>3. CASE ReplyDrained
  <2>1. /\ alive /\ ~Paused(up) /\ UNCHANGED wireVars
        /\ dispatch' = "reading" /\ (cancelled' => cancelled \/ dispatch = "shutdown")
    BY <1>3 DEF ReplyDrained
  <2>2. CASE cancelled' => cancelled
    BY <1>0, <2>1, <2>2, WireUnread
  <2>3. CASE dispatch = "shutdown"
    <3>1. PICK s \in Stops : handled[s] = "once"
      BY <2>3 DEF AckInv, ShutdownHandled
    <3>2. answer[s] = "open" => AckWithin(up, s, PipeRoom + HighWater)
      BY <1>0, <2>1, <3>1, DrainedAck DEF AckInv, AnswersOnWire, Requests
    <3>3. AckWithinReach'
      BY <1>0, <2>1, <3>1, <3>2 DEF AckWithinReach, wireVars
    <3>4. KindsFit' /\ AnswersOnWire' /\ ShutdownHandled' /\ AckSurvives'
      BY <1>0, <2>1 DEF AckInv, KindsFit, AnswersOnWire, ShutdownHandled, AckSurvives, wireVars
    <3> QED BY <3>3, <3>4 DEF AckInv
  <2> QED BY <2>1, <2>2, <2>3
<1>4. CASE ConnectorOverrun \/ SetupReturns
  BY <1>0, <1>4, WireUnread DEF ConnectorOverrun, SetupReturns
<1>5. CASE WorkEnds \/ CancelledEnds
  BY <1>0, <1>5, EndAck DEF WorkEnds, CancelledEnds
<1> QED BY <1>1, <1>2, <1>3, <1>4, <1>5 DEF ConnectorLoopStep, RunnerStep

\* The runtime's dispatch loop takes an answer from the pipe only for its caller.
LEMMA LoopAck ==
  ASSUME IInv, AckInv, LoopStep, UNCHANGED stdioVars
  PROVE  AckInv'
<1>0. UNCHANGED <<dispatch, cancelled>> /\ up \in Seq(Frame) /\ PipeRoom + HighWater \in Nat
  BY SizesAssumption DEF stdioVars, IInv
<1>1. CASE LoopTakesAck \/ LoopTakesLog \/ LoopCallsHandler
  <2>1. /\ up # <<>> /\ up' = Tail(up) /\ UNCHANGED <<down, alive, handled>>
    BY <1>1 DEF LoopTakesAck, LoopTakesLog, LoopCallsHandler, LoopReads
  <2>2. Head(up) \in ToSet(up) /\ ToSet(up') \subseteq ToSet(up)
    BY <1>0, <2>1, TakeFrame
  <2>3. KindsFit'
    BY <2>1, <2>2 DEF AckInv, KindsFit
  <2>4. \A r \in Requests : answer'[r] = "open" => answer[r] = "open" /\ ~(Head(up).ack /\ Head(up).id = r)
    <3>1. CASE LoopTakesAck
      <4>1. \A r \in Requests : answer'[r] = IF r = Head(up).id /\ r \in asked THEN "result" ELSE answer[r]
        BY <3>1 DEF LoopTakesAck, IInv
      <4> QED BY <4>1 DEF IInv, Books, AskedIsAwaited
    <3>2. CASE LoopTakesLog \/ LoopCallsHandler
      <4>1. UNCHANGED answer /\ ~Head(up).ack
        BY <2>2, <3>2 DEF LoopTakesLog, LoopCallsHandler, runtimeVars, AckInv, KindsFit
      <4> QED BY <4>1
    <3> QED BY <1>1, <3>1, <3>2
  <2>5. Delivers
    BY <1>0, <2>1, <2>3, <2>4, AckBehindRead DEF Delivers
  <2> QED BY <2>5, DeliversKeeps
<1>2. ASSUME HandlerRaises \/ \E n \in Sizes : HandlerReturns(n)
      PROVE  AckInv'
  <2>1. /\ UNCHANGED <<up, alive>>
        /\ \A r \in Requests : handled'[r] = handled[r] /\ (answer'[r] = "open" => answer[r] = "open")
    <3>1. serving.id \in Ops
      BY <1>2 DEF HandlerRaises, HandlerReturns, IInv, Frames, ServingIsDue
    <3>2. \E w : handled' = [handled EXCEPT ![serving.id] = w]
      BY <1>2 DEF HandlerRaises, HandlerReturns
    <3>3. \A r \in Requests : handled'[r] = handled[r]
      BY <3>1, <3>2, IdsAssumption DEF IInv, Ids
    <3> QED BY <1>2, <3>3 DEF HandlerRaises, HandlerReturns, LoopEnds
  <2>2. \A f \in ToSet(down') : f \in ToSet(down) \/ f.ack
    <3>1. CASE HandlerRaises
      BY <3>1 DEF HandlerRaises
    <3>2. ASSUME NEW n \in Sizes, HandlerReturns(n) PROVE \A f \in ToSet(down') : f \in ToSet(down) \/ f.ack
      <4> DEFINE a == Ack(serving.kind, serving.id, n)
      <4>1. serving.kind \in Kinds /\ serving.id \in Ids
        BY <3>2 DEF HandlerReturns, IInv, Frames, ServingIsDue, Frame, Ids
      <4>2. a \in Frame /\ a.ack
        BY <4>1, FramesTyped, SizesAssumption DEF Ack
      <4>3. down' = Written(down, a)
        BY <3>2 DEF HandlerReturns
      <4> HIDE DEF a
      <4> QED BY <4>2, <4>3, WriteDown DEF IInv
    <3> QED BY <1>2, <3>1, <3>2
  <2>3. KindsFit'
    BY <2>1, <2>2 DEF AckInv, KindsFit
  <2>4. Delivers
    BY <1>0, <2>1, <2>3 DEF Delivers, Requests
  <2> QED BY <2>4, DeliversKeeps
<1>3. CASE AckDrained
  BY <1>0, <1>3, WireUnread DEF AckDrained
<1>4. CASE LoopRejects \/ LoopCloses
  <2>1. \A r \in Requests : answer'[r] = "open" => answer[r] = "open"
    BY <1>4 DEF LoopRejects, LoopCloses, LoopEnds
  <2> QED BY <1>0, <1>4, <2>1, WireUnread DEF LoopRejects, LoopCloses
<1> QED BY <1>1, <1>2, <1>3, <1>4 DEF LoopStep, HandlerStep

\* A new request of the runtime has no answer yet, and a shutdown is asked for once per id.
LEMMA StartRequestAck ==
  ASSUME IInv, AckInv, NEW r \in Requests, NEW k \in {"health", "shutdown"}, StartRequest(r, k),
         r \in Stops => handled[r] = "none" /\ k = "shutdown", r \notin Stops => k = "health",
         UNCHANGED stdioVars
  PROVE  AckInv'
<1>1. /\ UNCHANGED <<up, alive, dispatch, cancelled>>
      /\ \A q \in Requests : /\ handled'[q] = IF q = r THEN "due" ELSE handled[q]
                             /\ q # r => answer'[q] = answer[q]
  BY DEF StartRequest, stdioVars, IInv, Ids
<1>2. Request(k, r, 1) \in Frame /\ Request(k, r, 1).id = r /\ Request(k, r, 1).kind = k
  BY FramesTyped DEF Kinds, Ids, Request
<1>3. ToSet(down') \subseteq ToSet(down) \cup {Request(k, r, 1)}
  BY <1>2, WriteDown DEF StartRequest, IInv
<1>4. KindsFit'
  BY <1>1, <1>2, <1>3 DEF AckInv, KindsFit
<1>5. Delivers
  BY <1>1, <1>4 DEF Delivers, Requests
<1> QED BY <1>5, DeliversKeeps

\* A kill takes no answer away from the pipe that the buffers hold.
LEMMA KillAck ==
  ASSUME IInv, AckInv, Kill, \A r \in Requests : answer'[r] = "open" => answer[r] = "open"
  PROVE  AckInv'
<1>1. CASE alive
  BY <1>1, EndAck DEF Kill
<1>2. CASE ~alive
  BY <1>2, WireUnread DEF Kill, stdioVars
<1> QED BY <1>1, <1>2

\* No step of a probe or a shutdown loses an answer.
LEMMA RequestsAck ==
  ASSUME IInv, AckInv, (\E r \in Probes : HealthStep(r)) \/ (\E r \in Stops : StopStep(r))
  PROVE  AckInv'
<1>1. ASSUME NEW r \in Requests, NEW w, LeaveRequest(r, w)
      PROVE  \A q \in Requests : answer'[q] = "open" => answer[q] = "open"
  BY <1>1 DEF LeaveRequest, IInv
<1>2. ASSUME NEW r \in Probes, HealthStep(r) PROVE AckInv'
  <2>1. r \in Requests /\ r \notin Stops
    BY IdsAssumption DEF Requests
  <2>2. CASE ProbeStarts(r)
    BY <2>1, <2>2, StartRequestAck DEF ProbeStarts
  <2>3. CASE ProbeSucceeds(r) \/ ProbeMissed(r)
    BY <1>1, <2>1, <2>3, WireUnread DEF ProbeSucceeds, ProbeMissed, stdioVars
  <2>4. CASE ProbeKills(r)
    BY <1>1, <2>1, <2>4, KillAck DEF ProbeKills
  <2> QED BY <1>2, <2>2, <2>3, <2>4 DEF HealthStep
<1>3. ASSUME NEW r \in Stops, StopStep(r) PROVE AckInv'
  <2>1. r \in Requests
    BY DEF Requests
  <2>2. CASE StopStarts(r)
    BY <2>1, <2>2, StartRequestAck DEF StopStarts
  <2>3. CASE StopAnswered(r) \/ StopTimesOut(r)
    BY <1>1, <2>1, <2>3, WireUnread DEF StopAnswered, StopTimesOut, stdioVars
  <2>4. CASE StopBroken(r)
    BY <1>1, <2>1, <2>4, KillAck DEF StopBroken
  <2>5. CASE Terminated(r)
    BY <2>5, KillAck DEF Terminated
  <2> QED BY <1>3, <2>2, <2>3, <2>4, <2>5 DEF StopStep
<1> QED BY <1>2, <1>3

\* No step of a session loses an answer that is awaited, but for the end of the connector.
LEMMA AckStep == IInv /\ AckInv /\ [Next]_vars => AckInv'
<1> SUFFICES ASSUME IInv, AckInv, [Next]_vars PROVE AckInv'
  OBVIOUS
<1>1. CASE InConnector(ConnectorStep)
  BY <1>1, OperationAck, ConnectorLoopAck DEF InConnector, ConnectorStep
<1>2. CASE InRuntime(RuntimeStep)
  <2>1. ASSUME NEW r \in Requests, RequestDrained(r), UNCHANGED stdioVars PROVE AckInv'
    BY <2>1, WireUnread DEF RequestDrained, stdioVars
  <2> QED BY <1>2, <2>1, LoopAck DEF InRuntime, RuntimeStep
<1>3. CASE UNCHANGED vars
  BY <1>3, WireUnread DEF vars, stdioVars, runtimeVars
<1> QED BY <1>1, <1>2, <1>3, RequestsAck DEF Next

-----------------------------------------------------------------------------
(* The theorems.                                                           *)

\* The session starts with one log frame on the wire, and nothing asked.
LEMMA InitInv ==
  ASSUME Init
  PROVE  IInv
<1> USE DEF Init, WireInit, StdioInit, RuntimeInit
<1>1. Request("log", NoId, 1) \in Frame /\ NoFrame \in Frame
  BY FramesTyped DEF Kinds, NoFrame
<1>2. SessionTypeOK
  <2>1. WireTypeOK
    BY <1>1
  <2>2. StdioTypeOK
    <3>1. /\ op \in [Ops -> {"idle", "log", "drain", "answer"}]
          /\ future \in [Ops -> {"none", "open", "result", "exception"}]
      OBVIOUS
    <3>2. inFlight \in Int
      OBVIOUS
    <3>3. pending \subseteq Ops
      OBVIOUS
    <3>4. dispatch = "reading" /\ runner = "work"
      OBVIOUS
    <3>5. cancelled \in BOOLEAN
      OBVIOUS
    <3> QED BY <3>1, <3>2, <3>3, <3>4, <3>5
  <2>3. RuntimeTypeOK
    BY <1>1
  <2> QED BY <2>1, <2>2, <2>3
<1>3. Books
  BY DEF Books, PendingIsAwaited, AskedIsAwaited, Active
<1>4. InFlightExact
  <2>1. Active = {}
    BY DEF Active
  <2> QED BY <2>1, FS_EmptySet, CallsAssumption DEF InFlightExact
<1>5. Frames
  <2>1. /\ \A f \in ToSet(up) : ~f.ack /\ f.id = NoId /\ f.kind = "log"
        /\ OneFrame(up)
    BY DEF ToSet, OneFrame, Request
  <2>2. ToSet(down) = {} /\ OneFrame(down)
    BY DEF ToSet, OneFrame
  <2> QED BY <2>1, <2>2 DEF Frames, UpFrame, ServingIsDue
<1> QED BY <1>2, <1>3, <1>4, <1>5 DEF IInv

\* The inductive invariant holds in every session, whatever the limits of the pipes and
\* whichever side ends first.
THEOREM SessionInvariance == Spec => []IInv
<1>1. Init => IInv
  BY InitInv
<1>2. IInv /\ [Next]_vars => IInv'
  BY TypeKept, BooksKept, FramesKept DEF IInv
<1> QED BY <1>1, <1>2, PTL DEF Spec

\* Every variable of a session keeps its type (transport_stdio.py, runtime_transport.py).
THEOREM SessionTypeCorrect == Spec => []SessionTypeOK
<1>1. IInv => SessionTypeOK
  BY DEF IInv
<1> QED BY <1>1, SessionInvariance, PTL

\* The counter of _acquire_in_flight_slot() and _release_in_flight_slot() is exact, and
\* under the limit, until the connector's dispatch loop ends.
THEOREM CounterIsExact == Spec => []InFlightExact
<1>1. IInv => InFlightExact
  BY DEF IInv
<1> QED BY <1>1, SessionInvariance, PTL

\* Both maps of pending futures (_pending of transport_stdio.py, _pending_runtime of
\* runtime_transport.py) hold exactly the futures somebody awaits, whatever arrives late.
THEOREM FuturesAreAwaited == Spec => []FuturesAwaited
<1>1. IInv => FuturesAwaited
  BY DEF IInv, Books, FuturesAwaited
<1> QED BY <1>1, SessionInvariance, PTL

\* The two transports, over their pipes and with every failure of either side, implement
\* the contract of RequestReply: each request is handled at most once, and a result
\* reaches only the caller of the request that was handled.
THEOREM ImplementsContract == Spec => KeepsContract
<1>1. Init => Contract!Init
  <2> SUFFICES ASSUME Init PROVE Contract!Init
    OBVIOUS
  <2>1. handled = [i \in Ids |-> "none"]
    BY DEF Init, WireInit
  <2>2. ASSUME NEW i \in Ids
        PROVE  (IF i \in Ops THEN Caller(op[i], future[i]) ELSE Caller(request[i], answer[i])) = "idle"
    BY <2>2 DEF Init, StdioInit, RuntimeInit, Caller, Ids
  <2> QED BY <2>1, <2>2 DEF Contract!Init
<1>2. ASSUME IInv, IInv', Next
      PROVE  Contract!Next
  BY <1>2, ConnectorHonours, RuntimeHonours, RequestsHonour, ContractStep DEF IInv, Next
<1>3. ASSUME UNCHANGED vars
      PROVE  UNCHANGED <<[i \in Ids |-> IF i \in Ops THEN Caller(op[i], future[i])
                                        ELSE Caller(request[i], answer[i])], handled>>
  BY <1>3 DEF vars, wireVars, stdioVars, runtimeVars
<1> QED BY <1>1, <1>2, <1>3, SessionInvariance, PTL DEF Spec, KeepsContract, Contract!Spec

\* A session starts with nothing asked and nothing answered.
LEMMA InitAck == Init => AckInv
<1> SUFFICES ASSUME Init PROVE AckInv
  OBVIOUS
<1>1. ~cancelled /\ dispatch = "reading" /\ \A r \in Requests : handled[r] = "none"
  BY DEF Init, WireInit, StdioInit, Ids
<1>2. KindsFit
  <2>1. \A f \in ToSet(up) : ~f.ack
    BY DEF Init, WireInit, Request, ToSet
  <2>2. ToSet(down) = {}
    BY DEF Init, WireInit, ToSet
  <2> QED BY <2>1, <2>2 DEF KindsFit
<1> QED BY <1>1, <1>2 DEF AckInv, AnswersOnWire, ShutdownHandled, AckWithinReach, AckSurvives

\* While the connector lives no answer to the runtime gets lost, and the cancelled event means
\* that at most PipeRoom + HighWater units, all that a returned drain() leaves unread, lie
\* between the runtime and the shutdown-ack (transport_stdio.py, _reply_shutdown_request()).
THEOREM AnswersReachTheRuntime == Spec => [](AnswersOnWire /\ AckWithinReach)
<1>1. AckInv => AnswersOnWire /\ AckWithinReach
  BY DEF AckInv
<1> QED BY <1>1, InitAck, AckStep, SessionInvariance, PTL DEF Spec

\* Where the writer keeps no data back from the pipe, the shutdown-ack outlives a connector
\* that leaves because of it.
THEOREM AckIsDelivered ==
  ASSUME HighWater = 0
  PROVE  Spec => []AckOutlivesConnector
<1>1. ASSUME IInv, AckInv PROVE AckOutlivesConnector
  <2>1. ASSUME NEW s \in Stops, AckOn(up, s) PROVE \E f \in ToSet(up) : f.ack /\ f.id = s
    <3>1. PICK i \in 1 .. Len(up) : up[i].ack /\ up[i].id = s
      BY <2>1 DEF AckOn
    <3>2. up[i] \in ToSet(up)
      BY <1>1 DEF ToSet, IInv
    <3> QED BY <3>1, <3>2
  <2> QED BY <1>1, <2>1 DEF AckInv, AckSurvives, AckOutlivesConnector
<1> QED BY <1>1, InitAck, AckStep, SessionInvariance, PTL DEF Spec
=============================================================================
