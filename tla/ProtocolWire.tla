----------------------------- MODULE ProtocolWire -----------------------------
(***************************************************************************)
(* The two pipes of a connector subprocess and the frames on them:         *)
(* src/prow/connector/protocol/framing.py and codec.py.                    *)
(*                                                                         *)
(* A pipe is a FIFO of frames.  It stands for everything between the two   *)
(* event loops: the writer's buffer in its process, the kernel's buffer    *)
(* and the reader's StreamReader.  write() never blocks; drain() waits     *)
(* while the writer's own buffer is over its high-water mark, that is,     *)
(* while the pipe holds more than PipeRoom + HighWater.                    *)
(***************************************************************************)
EXTENDS Integers, Sequences, SequencesExt, FiniteSets

CONSTANTS
  Ops,          \* ids of the connector's operations
  Probes,       \* ids of health requests
  Stops,        \* ids of shutdown requests
  NoId,         \* a frame that nobody answers
  Sizes,        \* sizes of the frames the two sides may want to write
  StreamLimit,  \* limit of an asyncio StreamReader: longest line readuntil() returns
  FrameLimit,   \* MAX_MESSAGE_BYTES: longest line encode() returns
  PipeRoom,     \* what the kernel and the reader buffer
  HighWater     \* what the writer buffers before drain() waits

Requests == Probes \cup Stops      \* the runtime's requests
Ids == Ops \cup Requests

ASSUME IdsAssumption ==
  /\ Ops \cap Requests = {} /\ Probes \cap Stops = {} /\ NoId \notin Ids
ASSUME SizesAssumption ==
  /\ Sizes \subseteq Nat \ {0} /\ 1 \in Sizes
  /\ {StreamLimit, FrameLimit} \subseteq Nat \ {0}
  /\ {PipeRoom, HighWater} \subseteq Nat

VARIABLES
  up,       \* connector stdout: frames on their way to the runtime
  down,     \* connector stdin: frames on their way to the connector
  alive,    \* the connector process, and so its end of both pipes, exists
  handled   \* history: how often the other side has handled the request with an id

wireVars == <<up, down, alive, handled>>

Kinds == {"emit", "set-state", "get-state", "cancel", "log", "health", "shutdown", "torn"}

Frame == [kind : Kinds, ack : BOOLEAN, id : Ids \cup {NoId}, size : Nat]

Request(k, i, s) == [kind |-> k, ack |-> FALSE, id |-> i, size |-> s]
Ack(k, i, s)     == [kind |-> k, ack |-> TRUE, id |-> i, size |-> s]

\* A line without its end: what a reader finds behind the last complete frame when
\* the writer's process ends with a frame half written.
Torn == Request("torn", NoId, 1)

WireTypeOK ==
  /\ up \in Seq(Frame) /\ down \in Seq(Frame)
  /\ alive \in BOOLEAN
  /\ handled \in [Ids -> {"none", "due", "once", "failed"}]

\* The runner announces itself before it runs connector code.
WireInit ==
  /\ up = <<Request("log", NoId, 1)>> /\ down = <<>>
  /\ alive = TRUE
  /\ handled = [i \in Ids |-> "none"]

\* The units of data on a pipe, each with the place of its frame, and how many there are.
Units(pipe) == UNION {{i} \X (1 .. pipe[i].size) : i \in DOMAIN pipe}
Load(pipe) == Cardinality(Units(pipe))

\* drain() waits
Paused(pipe) == Load(pipe) > PipeRoom + HighWater

\* encode() raises MessageTooLargeError on a longer frame
Encodable(size) == size <= FrameLimit

\* readuntil() returns the frame; otherwise, and at end of stream inside a frame, the
\* reading loop gets an error.
Readable(f) == f.size <= StreamLimit /\ f # Torn

\* The number of frames that have left the writer's process: as many as the buffers
\* behind it hold.
Sent(pipe) == {n \in 0 .. Len(pipe) :
  /\ Load(SubSeq(pipe, 1, n)) <= PipeRoom
  /\ \A m \in n + 1 .. Len(pipe) : Load(SubSeq(pipe, 1, m)) > PipeRoom}

\* What the runtime can still read after the connector process has ended: its own
\* buffer is lost, the frame at its head possibly in the middle.
Survivors(pipe) == UNION {
  LET sent == SubSeq(pipe, 1, n)
  IN  IF n = Len(pipe) THEN {sent} ELSE {sent, Append(sent, Torn)} : n \in Sent(pipe)}

\* A write into the pipe of a process that is gone reaches nobody.
Written(pipe, f) == IF alive THEN Append(pipe, f) ELSE pipe

\* Ids are unique in the code.  Here an id is used again once no frame carries it.
OnWire(i) == \E f \in ToSet(up) \cup ToSet(down) : f.id = i
=============================================================================
