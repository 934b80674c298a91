--------------------------- MODULE DevReloadProofs ---------------------------
(***************************************************************************)
(* Proofs about DevReload, for any number of saves, broken versions and    *)
(* exceptions: what a careful developer may rely on.                       *)
(***************************************************************************)
EXTENDS DevReload, SequenceTheorems, TLAPS

-----------------------------------------------------------------------------
(* Connectors and fetches.                                                 *)

Connector == [version : Nat, life : {"setup", "ready"}, torn : Nat]
Fetch == [conn : Nat, status : {"running", "cancelling", "done", "raised"}]

\* teardown() counts, and changes nothing else.
LEMMA TearsStep ==
  ASSUME conns \in Seq(Connector), conn \in DOMAIN conns, TearsDown
  PROVE  /\ conns' \in Seq(Connector) /\ DOMAIN conns' = DOMAIN conns
         /\ \A c \in DOMAIN conns : /\ conns'[c].version = conns[c].version
                                    /\ conns'[c].life = conns[c].life
                                    /\ c # conn => conns'[c].torn = conns[c].torn
         /\ conns'[conn].torn = conns[conn].torn + 1
<1>1. DOMAIN conns = 1 .. Len(conns) /\ conns[conn] \in Connector
  BY LenProperties, ElementOfSeq
<1> DEFINE r == [conns[conn] EXCEPT !.torn = @ + 1]
<1>2. /\ r \in Connector /\ r.version = conns[conn].version /\ r.life = conns[conn].life
      /\ r.torn = conns[conn].torn + 1
  <2> DEFINE n == conns[conn].torn + 1
  <2>1. n \in Nat
    BY <1>1 DEF Connector
  <2>2. r = [conns[conn] EXCEPT !.torn = n]
    OBVIOUS
  <2> HIDE DEF n, r
  <2>3. /\ r \in Connector /\ r.version = conns[conn].version /\ r.life = conns[conn].life
        /\ r.torn = n
    BY <1>1, <2>1, <2>2 DEF Connector
  <2> QED BY <2>3 DEF n
<1>3. conns' = [conns EXCEPT ![conn] = r]
  BY DEF TearsDown
<1> HIDE DEF r
<1>4. /\ conns' \in Seq(Connector) /\ Len(conns') = Len(conns)
      /\ \A c \in 1 .. Len(conns) : conns'[c] = IF c = conn THEN r ELSE conns[c]
  BY <1>1, <1>2, <1>3, ExceptSeq
<1>5. DOMAIN conns' = 1 .. Len(conns')
  BY <1>4, LenProperties
<1> QED BY <1>1, <1>2, <1>4, <1>5

\* setup() that returns makes the connector ready, and changes nothing else.
LEMMA ReadyStep ==
  ASSUME conns \in Seq(Connector), NEW c \in DOMAIN conns, Ready(c)
  PROVE  /\ conns' \in Seq(Connector) /\ DOMAIN conns' = DOMAIN conns
         /\ \A d \in DOMAIN conns : /\ conns'[d].version = conns[d].version
                                    /\ conns'[d].torn = conns[d].torn
                                    /\ d # c => conns'[d].life = conns[d].life
         /\ conns'[c].life = "ready"
<1>1. DOMAIN conns = 1 .. Len(conns) /\ conns[c] \in Connector
  BY LenProperties, ElementOfSeq
<1> DEFINE r == [conns[c] EXCEPT !.life = "ready"]
<1>2. /\ r \in Connector /\ r.version = conns[c].version /\ r.life = "ready"
      /\ r.torn = conns[c].torn
  BY <1>1 DEF Connector
<1>3. conns' = [conns EXCEPT ![c] = r]
  BY DEF Ready
<1> HIDE DEF r
<1>4. /\ conns' \in Seq(Connector) /\ Len(conns') = Len(conns)
      /\ \A d \in 1 .. Len(conns) : conns'[d] = IF d = c THEN r ELSE conns[d]
  BY <1>1, <1>2, <1>3, ExceptSeq
<1>5. DOMAIN conns' = 1 .. Len(conns')
  BY <1>4, LenProperties
<1> QED BY <1>1, <1>2, <1>4, <1>5

\* A mounted connector is new.
LEMMA MountStep ==
  ASSUME conns \in Seq(Connector), NEW version \in Nat, Mounts(version)
  PROVE  /\ conns' \in Seq(Connector) /\ DOMAIN conns' = DOMAIN conns \cup {conn'}
         /\ conn' \notin DOMAIN conns /\ conn' \in Nat \ {0} /\ transport' = conn'
         /\ conn' = Len(conns) + 1 /\ loaded' = version
         /\ \A c \in DOMAIN conns : conns'[c] = conns[c]
         /\ conns'[conn'].version = version /\ conns'[conn'].torn = 0
<1> DEFINE r == [version |-> version, life |-> "setup", torn |-> 0]
<1>1. r \in Connector /\ r.version = version /\ r.torn = 0
  BY DEF Connector
<1>2. DOMAIN conns = 1 .. Len(conns) /\ Len(conns) \in Nat
  BY LenProperties
<1>3. conns' = Append(conns, r) /\ conn' = Len(conns) + 1 /\ transport' = conn' /\ loaded' = version
  BY DEF Mounts
<1> HIDE DEF r
<1>4. /\ conns' \in Seq(Connector) /\ Len(conns') = Len(conns) + 1
      /\ \A c \in 1 .. Len(conns) : conns'[c] = conns[c]
      /\ conns'[Len(conns) + 1] = r
  BY <1>1, <1>3, AppendProperties
<1>5. DOMAIN conns' = 1 .. Len(conns')
  BY <1>4, LenProperties
<1> QED BY <1>1, <1>2, <1>3, <1>4, <1>5

\* A fetch that is started is new, and runs on the mounted connector.
LEMMA StartsStep ==
  ASSUME fetches \in Seq(Fetch), conn \in Nat, StartsFetch
  PROVE  /\ fetches' \in Seq(Fetch) /\ DOMAIN fetches' = DOMAIN fetches \cup {task'}
         /\ task' \notin DOMAIN fetches /\ task' \in Nat \ {0}
         /\ \A t \in DOMAIN fetches : fetches'[t] = fetches[t]
         /\ fetches'[task'].conn = conn /\ fetches'[task'].status = "running"
<1> DEFINE r == [conn |-> conn, status |-> "running"]
<1>1. r \in Fetch /\ r.conn = conn /\ r.status = "running"
  BY DEF Fetch
<1>2. DOMAIN fetches = 1 .. Len(fetches) /\ Len(fetches) \in Nat
  BY LenProperties
<1>3. fetches' = Append(fetches, r) /\ task' = Len(fetches) + 1
  BY DEF StartsFetch
<1> HIDE DEF r
<1>4. /\ fetches' \in Seq(Fetch) /\ Len(fetches') = Len(fetches) + 1
      /\ \A t \in 1 .. Len(fetches) : fetches'[t] = fetches[t]
      /\ fetches'[Len(fetches) + 1] = r
  BY <1>1, <1>3, AppendProperties
<1>5. DOMAIN fetches' = 1 .. Len(fetches')
  BY <1>4, LenProperties
<1> QED BY <1>1, <1>2, <1>3, <1>4, <1>5

\* A fetch keeps its connector whatever becomes of it.
LEMMA MarkStep ==
  ASSUME fetches \in Seq(Fetch), NEW t \in DOMAIN fetches,
         NEW status \in {"running", "cancelling", "done", "raised"},
         fetches' = [fetches EXCEPT ![t].status = status]
  PROVE  /\ fetches' \in Seq(Fetch) /\ DOMAIN fetches' = DOMAIN fetches
         /\ \A u \in DOMAIN fetches : /\ fetches'[u].conn = fetches[u].conn
                                      /\ u # t => fetches'[u].status = fetches[u].status
         /\ fetches'[t].status = status
<1>1. DOMAIN fetches = 1 .. Len(fetches) /\ fetches[t] \in Fetch
  BY LenProperties, ElementOfSeq
<1> DEFINE r == [fetches[t] EXCEPT !.status = status]
<1>2. r \in Fetch /\ r.conn = fetches[t].conn /\ r.status = status
  BY <1>1 DEF Fetch
<1>3. fetches' = [fetches EXCEPT ![t] = r]
  OBVIOUS
<1> HIDE DEF r
<1>4. /\ fetches' \in Seq(Fetch) /\ Len(fetches') = Len(fetches)
      /\ \A u \in 1 .. Len(fetches) : fetches'[u] = IF u = t THEN r ELSE fetches[u]
  BY <1>1, <1>2, <1>3, ExceptSeq
<1>5. DOMAIN fetches' = 1 .. Len(fetches')
  BY <1>4, LenProperties
<1> QED BY <1>1, <1>2, <1>4, <1>5

-----------------------------------------------------------------------------
(* Types.                                                                  *)

Phases == {"none", "cooperate", "cancelling", "teardown", "setup", "failing"}
Runs == {"new", "setup", "join", "idle", "cleanup", "ended"}
Mains == {"waiting", "interrupted", "cancelling", "teardown", "stopping", "exit"}
Watch == [pushed : Nat, paths : BOOLEAN, live : BOOLEAN, lost : Nat, emits : Nat]
ReloadRecord == [pc : Phases, conn : Nat, task : Nat, seen : Nat]

TasksTyped ==
  /\ mode \in [watch : BOOLEAN, careful : BOOLEAN]
  /\ disk \in 0 .. MaxSaves /\ answered \in 0 .. disk /\ loaded \in 0 .. disk
  /\ run \in Runs /\ main \in Mains
  /\ watch \in Watch /\ waiting \in Nat /\ faults \in Nat

ConnectorsTyped ==
  /\ conns \in Seq(Connector)
  /\ \A c \in DOMAIN conns : conns[c].version \in 0 .. disk \ Broken
  /\ conn \in {0} \cup DOMAIN conns /\ transport \in {0} \cup DOMAIN conns
  /\ cancelled \subseteq DOMAIN conns
  /\ run = "setup" => 1 \in DOMAIN conns

FetchesTyped ==
  /\ fetches \in Seq(Fetch)
  /\ \A t \in DOMAIN fetches : fetches[t].conn \in DOMAIN conns
  /\ task \in {0} \cup DOMAIN fetches /\ awaited \in {0} \cup DOMAIN fetches

ReloadTyped ==
  /\ reload \in ReloadRecord /\ reload.seen \in 0 .. disk
  /\ reload.pc = "setup" => reload.conn \in DOMAIN conns
  /\ reload.pc \in {"cooperate", "cancelling"} => reload.task \in DOMAIN fetches

TypeInv == TasksTyped /\ ConnectorsTyped /\ FetchesTyped /\ ReloadTyped

\* Connectors and fetches are numbered from 1.
LEMMA Numbers ==
  ASSUME TypeInv
  PROVE  /\ DOMAIN conns = 1 .. Len(conns) /\ Len(conns) \in Nat
         /\ DOMAIN fetches = 1 .. Len(fetches) /\ Len(fetches) \in Nat
         /\ conn \in Nat /\ task \in Nat /\ disk \in Nat
         /\ 0 \notin DOMAIN conns /\ 0 \notin DOMAIN fetches
         /\ \A c \in DOMAIN conns : conns[c] \in Connector
         /\ \A t \in DOMAIN fetches : fetches[t] \in Fetch
<1>1. /\ DOMAIN conns = 1 .. Len(conns) /\ Len(conns) \in Nat
      /\ DOMAIN fetches = 1 .. Len(fetches) /\ Len(fetches) \in Nat
  BY LenProperties DEF TypeInv, ConnectorsTyped, FetchesTyped
<1>2. /\ \A c \in DOMAIN conns : conns[c] \in Connector
      /\ \A t \in DOMAIN fetches : fetches[t] \in Fetch
  BY <1>1, ElementOfSeq DEF TypeInv, ConnectorsTyped, FetchesTyped
<1>3. conn \in Nat /\ task \in Nat /\ disk \in Nat
  BY <1>1, DevAssumption DEF TypeInv, ConnectorsTyped, FetchesTyped, TasksTyped
<1> QED BY <1>1, <1>2, <1>3

\* TypeInv is more than the type invariant of the runs.
LEMMA TypesImply ==
  ASSUME TypeInv
  PROVE  DevTypeOK
<1>1. /\ \A c \in DOMAIN conns : conns[c] \in Connector
      /\ \A t \in DOMAIN fetches : fetches[t] \in Fetch
  BY Numbers
<1> QED BY <1>1 DEF TypeInv, TasksTyped, ConnectorsTyped, FetchesTyped, ReloadTyped, DevTypeOK,
           Connector, Fetch, ReloadRecord, Phases, Runs, Mains

\* Before the first step every variable has its type.
LEMMA TypeInit == Init => TypeInv
<1> SUFFICES ASSUME Init PROVE TypeInv
  OBVIOUS
<1>1. <<>> \in Seq(Connector) /\ <<>> \in Seq(Fetch) /\ DOMAIN <<>> = {}
  OBVIOUS
<1>2. disk \in 0 .. MaxSaves /\ answered \in 0 .. disk /\ loaded \in 0 .. disk
  BY DevAssumption DEF Init
<1>3. TasksTyped
  BY <1>2 DEF Init, TasksTyped, Watch, Runs, Mains
<1>4. ConnectorsTyped /\ FetchesTyped
  BY <1>1 DEF Init, ConnectorsTyped, FetchesTyped
<1>5. ReloadTyped
  BY <1>2 DEF Init, ReloadTyped, ReloadRecord, NoReload, Phases
<1> QED BY <1>3, <1>4, <1>5 DEF TypeInv

\* Connectors are made of the version on disk, set up and torn down, and never forgotten.
ConnectorsGo ==
  /\ conns' \in Seq(Connector) /\ DOMAIN conns \subseteq DOMAIN conns'
  /\ \A c \in DOMAIN conns' : IF c \in DOMAIN conns THEN conns'[c].version = conns[c].version
                              ELSE conns'[c].version \in {disk} \ Broken

FetchesGo ==
  /\ fetches' \in Seq(Fetch) /\ DOMAIN fetches \subseteq DOMAIN fetches'
  /\ \A t \in DOMAIN fetches' : IF t \in DOMAIN fetches THEN fetches'[t].conn = fetches[t].conn
                                ELSE fetches'[t].conn \in DOMAIN conns

\* What a step may do to connectors and fetches without disturbing the types.
LEMMA TypesGo ==
  ASSUME TypeInv, TasksTyped', disk \in 0 .. disk', ConnectorsGo, FetchesGo,
         conn' \in {0} \cup DOMAIN conns', transport' \in {0} \cup DOMAIN conns',
         cancelled' \subseteq DOMAIN conns',
         task' \in {0} \cup DOMAIN fetches', awaited' \in {0} \cup DOMAIN fetches',
         run' = "setup" => run = "setup" \/ 1 \in DOMAIN conns',
         reload' \in ReloadRecord, reload'.seen \in 0 .. disk',
         reload'.pc = "setup" => reload'.conn \in DOMAIN conns',
         reload'.pc \in {"cooperate", "cancelling"} => reload'.task \in DOMAIN fetches'
  PROVE  TypeInv'
<1>1. ConnectorsTyped'
  <2>1. disk \in Nat /\ disk' \in Nat /\ disk <= disk'
    BY Numbers, DevAssumption DEF TasksTyped
  <2>2. \A c \in DOMAIN conns' : conns'[c].version \in 0 .. disk' \ Broken
    <3> SUFFICES ASSUME NEW c \in DOMAIN conns'
                 PROVE  conns'[c].version \in 0 .. disk' \ Broken
      OBVIOUS
    <3>1. CASE c \in DOMAIN conns
      <4>1. conns'[c].version \in 0 .. disk \ Broken
        BY <3>1 DEF ConnectorsGo, TypeInv, ConnectorsTyped
      <4> QED BY <2>1, <4>1
    <3>2. CASE c \notin DOMAIN conns
      BY <2>1, <3>2 DEF ConnectorsGo
    <3> QED BY <3>1, <3>2
  <2> QED BY <2>2 DEF ConnectorsGo, TypeInv, ConnectorsTyped
<1>2. FetchesTyped'
  BY DEF ConnectorsGo, FetchesGo, TypeInv, FetchesTyped
<1>3. ReloadTyped'
  BY DEF ReloadTyped
<1> QED BY <1>1, <1>2, <1>3 DEF TypeInv

\* Connectors may stay as they are, be torn down, become ready, or be mounted.
LEMMA ConnectorsMove ==
  ASSUME TypeInv
  PROVE  /\ UNCHANGED conns => ConnectorsGo
         /\ conn # 0 /\ TearsDown => ConnectorsGo
         /\ \A c \in DOMAIN conns : Ready(c) => ConnectorsGo
         /\ Mounts(disk) /\ disk \notin Broken =>
              ConnectorsGo /\ conn' \in DOMAIN conns' /\ transport' = conn' /\ conn' = Len(conns) + 1
<1>0. disk \in Nat /\ conns \in Seq(Connector)
  BY Numbers DEF TypeInv, ConnectorsTyped
<1>1. UNCHANGED conns => ConnectorsGo
  BY <1>0 DEF ConnectorsGo
<1>2. ASSUME conn # 0, TearsDown PROVE ConnectorsGo
  <2>1. conn \in DOMAIN conns
    BY <1>2 DEF TypeInv, ConnectorsTyped
  <2> QED BY <1>0, <1>2, <2>1, TearsStep DEF ConnectorsGo
<1>3. ASSUME NEW c \in DOMAIN conns, Ready(c) PROVE ConnectorsGo
  BY <1>0, <1>3, ReadyStep DEF ConnectorsGo
<1>4. ASSUME Mounts(disk), disk \notin Broken
      PROVE  ConnectorsGo /\ conn' \in DOMAIN conns' /\ transport' = conn' /\ conn' = Len(conns) + 1
  <2>1. /\ conns' \in Seq(Connector) /\ DOMAIN conns' = DOMAIN conns \cup {conn'}
        /\ transport' = conn' /\ conn' = Len(conns) + 1
        /\ \A c \in DOMAIN conns : conns'[c] = conns[c]
        /\ conns'[conn'].version = disk
    BY <1>0, <1>4, MountStep
  <2> QED BY <1>4, <2>1 DEF ConnectorsGo
<1> QED BY <1>1, <1>2, <1>3, <1>4

\* Fetches may stay as they are, be started, or be marked.
LEMMA FetchesMove ==
  ASSUME TypeInv
  PROVE  /\ UNCHANGED fetches => FetchesGo
         /\ conn # 0 /\ StartsFetch => FetchesGo /\ task' \in DOMAIN fetches'
         /\ \A t \in DOMAIN fetches : \A status \in {"running", "cancelling", "done", "raised"} :
              fetches' = [fetches EXCEPT ![t].status = status] =>
                FetchesGo /\ DOMAIN fetches' = DOMAIN fetches
<1>0. conn \in Nat /\ fetches \in Seq(Fetch)
  BY Numbers DEF TypeInv, FetchesTyped
<1>1. UNCHANGED fetches => FetchesGo
  BY <1>0 DEF FetchesGo
<1>2. ASSUME conn # 0, StartsFetch PROVE FetchesGo /\ task' \in DOMAIN fetches'
  <2>1. conn \in DOMAIN conns
    BY <1>2 DEF TypeInv, ConnectorsTyped
  <2>2. /\ fetches' \in Seq(Fetch) /\ DOMAIN fetches' = DOMAIN fetches \cup {task'}
        /\ \A t \in DOMAIN fetches : fetches'[t] = fetches[t]
        /\ fetches'[task'].conn = conn
    BY <1>0, <1>2, StartsStep
  <2> QED BY <2>1, <2>2 DEF FetchesGo
<1>3. ASSUME NEW t \in DOMAIN fetches, NEW status \in {"running", "cancelling", "done", "raised"},
             fetches' = [fetches EXCEPT ![t].status = status]
      PROVE  FetchesGo /\ DOMAIN fetches' = DOMAIN fetches
  BY <1>0, <1>3, MarkStep DEF FetchesGo
<1> QED BY <1>1, <1>2, <1>3

\* How a part of trigger_reload can end: with no connector left to tear down, in the
\* await of a teardown, or with the connector on disk mounted.
Ended(r) ==
  /\ conn = 0 /\ reload' = NoReload /\ answered' = r.seen /\ transport' = 0
  /\ UNCHANGED <<conns, conn>> /\ loaded' \in {loaded, disk}

Torn(r) ==
  /\ conn # 0 /\ TearsDown /\ loaded' \in {loaded, disk}
  /\ UNCHANGED <<conn, transport, answered>>
  /\ \E pc \in {"teardown", "failing"} : reload' = [r EXCEPT !.pc = pc]

Mounted(r) ==
  /\ disk \notin Broken /\ Mounts(disk) /\ UNCHANGED answered
  /\ reload' = [r EXCEPT !.pc = "setup", !.conn = Len(conns) + 1]

\* There are no other ways.
LEMMA Outcomes ==
  ASSUME NEW r
  PROVE  /\ Fails(r) /\ UNCHANGED loaded => Ended(r) \/ Torn(r)
         /\ Imports(r) => Ended(r) \/ Torn(r) \/ Mounted(r)
         /\ TeardownOrImport(r) => Ended(r) \/ Torn(r) \/ (conn = 0 /\ Mounted(r))
<1>1. Fails(r) /\ loaded' \in {loaded, disk} => Ended(r) \/ Torn(r)
  BY DEF Fails, Ended, Torn
<1>2. Imports(r) => Ended(r) \/ Torn(r) \/ Mounted(r)
  BY <1>1 DEF Imports, Mounted
<1>3. TeardownOrImport(r) => Ended(r) \/ Torn(r) \/ (conn = 0 /\ Mounted(r))
  BY <1>2 DEF TeardownOrImport, Torn
<1> QED BY <1>1, <1>2, <1>3

\* However a part of trigger_reload ends, the types are kept.
LEMMA ReloadTypes ==
  ASSUME TypeInv, NEW r \in ReloadRecord, r.seen \in 0 .. disk,
         Ended(r) \/ Torn(r) \/ Mounted(r),
         UNCHANGED <<mode, disk, watch, run, main, awaited, fetches, task>>,
         waiting' \in Nat, faults' \in Nat, cancelled' \subseteq DOMAIN conns
  PROVE  TypeInv'
<1>0. /\ disk \in Nat /\ Len(conns) \in Nat /\ loaded \in 0 .. disk /\ answered \in 0 .. disk
      /\ conns \in Seq(Connector) /\ fetches \in Seq(Fetch)
  BY Numbers DEF TypeInv, TasksTyped, ConnectorsTyped, FetchesTyped
<1>1. FetchesGo
  BY FetchesMove
<1>2. /\ ConnectorsGo /\ conn' \in {0} \cup DOMAIN conns' /\ transport' \in {0} \cup DOMAIN conns'
      /\ reload' \in ReloadRecord /\ reload'.seen \in 0 .. disk
      /\ reload'.pc = "setup" => reload'.conn \in DOMAIN conns'
      /\ reload'.pc \notin {"cooperate", "cancelling"}
      /\ loaded' \in {loaded, disk} /\ answered' \in 0 .. disk
  <2>1. CASE Ended(r)
    BY <1>0, <2>1, ConnectorsMove
       DEF Ended, NoReload, ReloadRecord, Phases, TypeInv, ConnectorsTyped
  <2>2. CASE Torn(r)
    <3>1. PICK pc \in {"teardown", "failing"} : reload' = [r EXCEPT !.pc = pc]
      BY <2>2 DEF Torn
    <3>2. /\ reload' \in ReloadRecord /\ reload'.seen = r.seen /\ reload'.pc = pc
      BY <3>1 DEF ReloadRecord, Phases
    <3>3. ConnectorsGo
      BY <2>2, ConnectorsMove DEF Torn
    <3>4. /\ conn' = conn /\ transport' = transport /\ answered' = answered
          /\ loaded' \in {loaded, disk}
      BY <2>2 DEF Torn
    <3>5. conn \in {0} \cup DOMAIN conns /\ transport \in {0} \cup DOMAIN conns
      BY DEF TypeInv, ConnectorsTyped
    <3> QED BY <1>0, <3>2, <3>3, <3>4, <3>5 DEF ConnectorsGo
  <2>3. CASE Mounted(r)
    <3>1. /\ reload' \in ReloadRecord /\ reload'.seen = r.seen /\ reload'.pc = "setup"
          /\ reload'.conn = Len(conns) + 1
      <4>1. PICK n \in Nat : n = Len(conns) + 1
        BY <1>0
      <4>2. reload' = [r EXCEPT !.pc = "setup", !.conn = n]
        BY <2>3, <4>1 DEF Mounted
      <4>3. reload' \in ReloadRecord /\ reload'.seen = r.seen /\ reload'.pc = "setup" /\ reload'.conn = n
        BY <4>2 DEF ReloadRecord, Phases
      <4> QED BY <4>1, <4>3
    <3>2. ConnectorsGo /\ conn' \in DOMAIN conns' /\ transport' = conn' /\ conn' = Len(conns) + 1
      BY <2>3, ConnectorsMove DEF Mounted
    <3>3. answered' = answered /\ loaded' = disk
      BY <2>3 DEF Mounted, Mounts
    <3> QED BY <1>0, <3>1, <3>2, <3>3
  <2> QED BY <2>1, <2>2, <2>3
<1>3. TasksTyped'
  BY <1>0, <1>2 DEF TypeInv, TasksTyped
<1>4. /\ cancelled' \subseteq DOMAIN conns' /\ disk \in 0 .. disk' /\ disk' = disk
      /\ task' \in {0} \cup DOMAIN fetches' /\ awaited' \in {0} \cup DOMAIN fetches'
      /\ run' = "setup" => run = "setup"
  BY <1>0, <1>2 DEF ConnectorsGo, TypeInv, FetchesTyped
<1> QED BY <1>1, <1>2, <1>3, <1>4, TypesGo

-----------------------------------------------------------------------------
(* Every step keeps the types.                                             *)

\* ctx.cancelled is only ever set on a connector that exists.
LEMMA CancelledTyped ==
  ASSUME TypeInv, cancelled' = IF transport = 0 THEN cancelled ELSE cancelled \cup {transport}
  PROVE  cancelled' \subseteq DOMAIN conns
BY DEF TypeInv, ConnectorsTyped

\* The fault counter counts.
LEMMA FaultTyped ==
  ASSUME TypeInv, UNCHANGED faults \/ Fault
  PROVE  faults' \in Nat
BY DEF TypeInv, TasksTyped, Fault

\* trigger_reload keeps the types.
LEMMA ReloadKeepsTypes ==
  ASSUME TypeInv, Reload
  PROVE  TypeInv'
<1>0. /\ reload \in ReloadRecord /\ reload.seen \in 0 .. disk /\ waiting \in Nat
      /\ faults \in Nat /\ cancelled \subseteq DOMAIN conns /\ fetches \in Seq(Fetch)
      /\ disk \in Nat /\ task \in Nat
  BY Numbers DEF TypeInv, TasksTyped, ConnectorsTyped, FetchesTyped, ReloadTyped
<1>1. CASE ReloadBegins
  <2> DEFINE r == [NoReload EXCEPT !.pc = "cooperate", !.task = task, !.seen = disk]
  <2>1. /\ waiting' = waiting - 1 /\ waiting > 0
        /\ cancelled' = IF transport = 0 THEN cancelled ELSE cancelled \cup {transport}
        /\ IF Running(task) THEN reload' = r /\ UNCHANGED <<conns, conn, transport, answered, loaded>>
                            ELSE TeardownOrImport(r)
        /\ UNCHANGED <<awaited, mode, disk, watch, run, main, faults, fetches, task>>
    BY <1>1 DEF ReloadBegins
  <2>2. /\ r \in ReloadRecord /\ r.seen \in 0 .. disk /\ r.task = task /\ r.pc = "cooperate"
    <3>1. NoReload \in ReloadRecord
      BY DEF NoReload, ReloadRecord, Phases
    <3>2. r \in ReloadRecord /\ r.seen = disk /\ r.task = task /\ r.pc = "cooperate"
      BY <1>0, <3>1 DEF ReloadRecord, Phases
    <3> QED BY <1>0, <3>2
  <2>3. cancelled' \subseteq DOMAIN conns /\ waiting' \in Nat /\ faults' \in Nat
    BY <1>0, <2>1, CancelledTyped
  <2> HIDE DEF r
  <2>4. CASE Running(task)
    <3>1. /\ reload' = r /\ UNCHANGED <<conns, conn, transport, answered, loaded>>
      BY <2>1, <2>4
    <3>2. TasksTyped'
      BY <2>1, <2>3, <3>1 DEF TypeInv, TasksTyped
    <3>3. task # 0
      BY <2>4 DEF Running
    <3>4. ReloadTyped'
      BY <2>1, <2>2, <3>1, <3>3 DEF TypeInv, ReloadTyped, FetchesTyped
    <3>5. ConnectorsTyped' /\ FetchesTyped'
      BY <2>1, <2>3, <3>1 DEF TypeInv, ConnectorsTyped, FetchesTyped
    <3> QED BY <3>2, <3>4, <3>5 DEF TypeInv
  <2>5. CASE ~Running(task)
    <3>1. Ended(r) \/ Torn(r) \/ Mounted(r)
      BY <2>1, <2>5, Outcomes
    <3> QED BY <2>1, <2>2, <2>3, <3>1, ReloadTypes
  <2> QED BY <2>4, <2>5
<1>2. CASE FetchGone
  <2>1. CASE reload.pc = "cancelling" /\ Running(task)
    <3>1. /\ Cancels(task) /\ reload' = [reload EXCEPT !.task = task]
          /\ UNCHANGED <<conns, conn, transport, answered, loaded>>
          /\ UNCHANGED <<mode, disk, watch, waiting, run, main, awaited, faults, cancelled, task>>
      BY <1>2, <2>1 DEF FetchGone
    <3>2. task \in DOMAIN fetches
      BY <2>1 DEF Running, TypeInv, FetchesTyped
    <3>3. FetchesGo /\ DOMAIN fetches' = DOMAIN fetches
      BY <3>1, <3>2, FetchesMove DEF Cancels
    <3>4. ConnectorsGo
      BY <3>1, ConnectorsMove
    <3>5. /\ reload' \in ReloadRecord /\ reload'.seen = reload.seen /\ reload'.pc = reload.pc
          /\ reload'.task = task
      BY <1>0, <3>1 DEF ReloadRecord
    <3>6. TasksTyped'
      BY <3>1 DEF TypeInv, TasksTyped
    <3>7. FetchesTyped' /\ ConnectorsTyped'
      BY <3>1, <3>3 DEF FetchesGo, TypeInv, FetchesTyped, ConnectorsTyped
    <3>8. ReloadTyped'
      BY <1>0, <2>1, <3>1, <3>2, <3>3, <3>5 DEF ReloadTyped
    <3> QED BY <3>6, <3>7, <3>8 DEF TypeInv
  <2>2. CASE ~(reload.pc = "cancelling" /\ Running(task))
    <3>1. TeardownOrImport(reload) /\ UNCHANGED fetches
          /\ UNCHANGED <<mode, disk, watch, waiting, run, main, awaited, faults, cancelled, task>>
      BY <1>2, <2>2 DEF FetchGone
    <3>2. Ended(reload) \/ Torn(reload) \/ Mounted(reload)
      BY <3>1, Outcomes
    <3> QED BY <1>0, <3>1, <3>2, ReloadTypes
  <2> QED BY <2>1, <2>2
<1>3. CASE FetchFailsReload \/ TeardownRaises \/ ReloadSetUpFails
  <2>1. /\ Fails(reload)
        /\ UNCHANGED faults \/ Fault
        /\ UNCHANGED <<awaited, mode, disk, watch, waiting, run, main, cancelled, fetches, task, loaded>>
    BY <1>3 DEF FetchFailsReload, TeardownRaises, ReloadSetUpFails
  <2>2. Ended(reload) \/ Torn(reload) \/ Mounted(reload)
    BY <2>1, Outcomes
  <2>3. faults' \in Nat
    BY <2>1, FaultTyped
  <2> QED BY <1>0, <2>1, <2>2, <2>3, ReloadTypes
<1>4. CASE TornDown
  <2>1. /\ Imports(reload)
        /\ UNCHANGED <<awaited, mode, disk, watch, waiting, run, main, faults, cancelled, fetches, task>>
    BY <1>4 DEF TornDown
  <2>2. Ended(reload) \/ Torn(reload) \/ Mounted(reload)
    BY <2>1, Outcomes
  <2> QED BY <1>0, <2>1, <2>2, ReloadTypes
<1>5. CASE FetchTimeout
  <2>1. /\ reload.pc = "cooperate" /\ Cancels(reload.task)
        /\ reload' = [reload EXCEPT !.pc = "cancelling"]
        /\ UNCHANGED <<awaited, mode, disk, watch, waiting, answered, run, main, faults, conns,
                       conn, transport, cancelled, task, loaded>>
    BY <1>5 DEF FetchTimeout
  <2>2. reload.task \in DOMAIN fetches
    BY <2>1 DEF TypeInv, ReloadTyped
  <2>3. FetchesGo /\ DOMAIN fetches' = DOMAIN fetches
    BY <2>1, <2>2, FetchesMove DEF Cancels
  <2>4. /\ reload' \in ReloadRecord /\ reload'.seen = reload.seen /\ reload'.pc = "cancelling"
        /\ reload'.task = reload.task
    BY <1>0, <2>1 DEF ReloadRecord, Phases
  <2>5. TasksTyped'
    BY <2>1 DEF TypeInv, TasksTyped
  <2>6. FetchesTyped' /\ ConnectorsTyped'
    BY <2>1, <2>3 DEF FetchesGo, TypeInv, FetchesTyped, ConnectorsTyped
  <2>7. ReloadTyped'
    BY <1>0, <2>1, <2>2, <2>3, <2>4 DEF ReloadTyped
  <2> QED BY <2>5, <2>6, <2>7 DEF TypeInv
<1>6. CASE ReloadSetUp
  <2>1. /\ reload.pc = "setup" /\ Answers
        /\ UNCHANGED <<awaited, mode, disk, watch, waiting, run, main, faults, conn, cancelled, loaded>>
        /\ IF conn = 0 THEN transport' = 0 /\ UNCHANGED <<conns, fetches, task>>
           ELSE Ready(reload.conn) /\ StartsFetch /\ UNCHANGED transport
    BY <1>6 DEF ReloadSetUp
  <2>2. reload.conn \in DOMAIN conns
    BY <2>1 DEF TypeInv, ReloadTyped
  <2>3. ConnectorsGo /\ FetchesGo /\ task' \in {0} \cup DOMAIN fetches'
        /\ transport' \in {0} \cup DOMAIN conns
    <3>1. task \in {0} \cup DOMAIN fetches /\ transport \in {0} \cup DOMAIN conns
      BY DEF TypeInv, FetchesTyped, ConnectorsTyped
    <3>2. CASE conn = 0
      BY <2>1, <3>1, <3>2, ConnectorsMove, FetchesMove
    <3>3. CASE conn # 0
      BY <2>1, <2>2, <3>1, <3>3, ConnectorsMove, FetchesMove
    <3> QED BY <3>2, <3>3
  <2>4. /\ reload' = NoReload /\ answered' = reload.seen
        /\ reload' \in ReloadRecord /\ reload'.seen \in 0 .. disk /\ reload'.pc = "none"
    BY <1>0, <2>1 DEF Answers, NoReload, ReloadRecord, Phases
  <2>5. TasksTyped'
    BY <1>0, <2>1, <2>4 DEF TypeInv, TasksTyped
  <2>6. /\ conn' \in {0} \cup DOMAIN conns' /\ transport' \in {0} \cup DOMAIN conns'
        /\ cancelled' \subseteq DOMAIN conns' /\ awaited' \in {0} \cup DOMAIN fetches'
        /\ disk \in 0 .. disk' /\ disk' = disk /\ run' = run
    BY <1>0, <2>1, <2>3 DEF ConnectorsGo, FetchesGo, TypeInv, ConnectorsTyped, FetchesTyped
  <2> QED BY <2>3, <2>4, <2>5, <2>6, TypesGo
<1>7. CASE ReloadFailed
  <2>1. /\ conn' = 0 /\ transport' = 0 /\ reload' = NoReload /\ answered' = reload.seen
        /\ UNCHANGED <<awaited, mode, disk, watch, waiting, run, main, faults, conns, cancelled,
                       fetches, task, loaded>>
    BY <1>7 DEF ReloadFailed, Answers
  <2>2. TasksTyped'
    BY <1>0, <2>1 DEF TypeInv, TasksTyped
  <2>3. ConnectorsTyped' /\ FetchesTyped'
    BY <2>1 DEF TypeInv, ConnectorsTyped, FetchesTyped
  <2>4. ReloadTyped'
    BY <1>0, <2>1 DEF ReloadTyped, NoReload, ReloadRecord, Phases
  <2> QED BY <2>2, <2>3, <2>4 DEF TypeInv
<1> QED BY <1>1, <1>2, <1>3, <1>4, <1>5, <1>6, <1>7 DEF Reload

\* _cleanup_connector touches the connectors only to tear one down.
LEMMA CleanupStep ==
  ASSUME TypeInv, EntersCleanup
  PROVE  ConnectorsGo /\ run' \in {"cleanup", "ended"} /\ DOMAIN conns' = DOMAIN conns
<1>1. CASE conn = 0
  BY <1>1, ConnectorsMove DEF EntersCleanup
<1>2. CASE conn # 0
  <2>1. TearsDown /\ run' = "cleanup"
    BY <1>2 DEF EntersCleanup
  <2>2. conns \in Seq(Connector) /\ conn \in DOMAIN conns
    BY <1>2 DEF TypeInv, ConnectorsTyped
  <2>3. DOMAIN conns' = DOMAIN conns
    BY <2>1, <2>2, TearsStep
  <2> QED BY <1>2, <2>1, <2>3, ConnectorsMove
<1> QED BY <1>1, <1>2

\* So does the teardown that request_shutdown awaits.
LEMMA LastTeardownStep ==
  ASSUME TypeInv, LastTeardown
  PROVE  ConnectorsGo /\ main' \in {"teardown", "stopping"}
<1>1. CASE conn = 0
  BY <1>1, ConnectorsMove DEF LastTeardown
<1>2. CASE conn # 0
  BY <1>2, ConnectorsMove DEF LastTeardown
<1> QED BY <1>1, <1>2

\* Steps that do not touch the reload, nor what is mounted.
LEMMA TypesStay ==
  ASSUME TypeInv, TasksTyped', ConnectorsGo, FetchesGo,
         UNCHANGED <<reload, conn, transport, awaited, disk>>, cancelled' \subseteq DOMAIN conns,
         task' \in {0} \cup DOMAIN fetches', run' = "setup" => run = "setup"
  PROVE  TypeInv'
<1>1. disk \in 0 .. disk'
  BY Numbers
<1>2. /\ conn' \in {0} \cup DOMAIN conns' /\ transport' \in {0} \cup DOMAIN conns'
      /\ cancelled' \subseteq DOMAIN conns' /\ awaited' \in {0} \cup DOMAIN fetches'
  BY DEF TypeInv, ConnectorsTyped, FetchesTyped, ConnectorsGo, FetchesGo
<1>3. /\ reload' \in ReloadRecord /\ reload'.seen \in 0 .. disk'
      /\ reload'.pc = "setup" => reload'.conn \in DOMAIN conns'
      /\ reload'.pc \in {"cooperate", "cancelling"} => reload'.task \in DOMAIN fetches'
  BY DEF TypeInv, ReloadTyped, ConnectorsGo, FetchesGo
<1> QED BY <1>1, <1>2, <1>3, TypesGo

\* _run_loop keeps the types.
LEMMA RunLoopKeepsTypes ==
  ASSUME TypeInv, RunLoop
  PROVE  TypeInv'
<1>0. /\ disk \in Nat /\ loaded \in 0 .. disk /\ cancelled \subseteq DOMAIN conns
      /\ fetches \in Seq(Fetch) /\ task \in {0} \cup DOMAIN fetches
      /\ conns \in Seq(Connector)
  BY Numbers DEF TypeInv, TasksTyped, ConnectorsTyped, FetchesTyped
<1>1. CASE Start
  <2>1. /\ UNCHANGED <<awaited, mode, disk, watch, waiting, reload, answered, main, faults,
                       cancelled, fetches, task>>
        /\ IF disk \in Broken
           THEN run' = "ended" /\ loaded' = disk /\ UNCHANGED <<conns, conn, transport>>
           ELSE Mounts(disk) /\ run' = "setup"
    BY <1>1 DEF Start
  <2>2. CASE disk \in Broken
    <3>1. TasksTyped'
      BY <1>0, <2>1, <2>2 DEF TypeInv, TasksTyped, Runs
    <3> QED BY <1>0, <2>1, <2>2, <3>1, ConnectorsMove, FetchesMove, TypesStay
  <2>3. CASE disk \notin Broken
    <3>1. ConnectorsGo /\ conn' \in DOMAIN conns' /\ transport' = conn'
          /\ conn' = Len(conns) + 1
      BY <2>1, <2>3, ConnectorsMove
    <3>2. DOMAIN conns' = DOMAIN conns \cup {conn'}
      BY <1>0, <2>1, <2>3, MountStep
    <3>3. DOMAIN conns = 1 .. Len(conns) /\ Len(conns) \in Nat
      BY Numbers
    <3>4. 1 \in DOMAIN conns'
      BY <3>1, <3>2, <3>3
    <3>5. loaded' = disk
      BY <2>1, <2>3 DEF Mounts
    <3>6. TasksTyped'
      BY <1>0, <2>1, <2>3, <3>5 DEF TypeInv, TasksTyped, Runs
    <3>7. FetchesGo
      BY <2>1, FetchesMove
    <3>8. /\ reload' \in ReloadRecord /\ reload'.seen \in 0 .. disk'
          /\ reload'.pc = "setup" => reload'.conn \in DOMAIN conns'
          /\ reload'.pc \in {"cooperate", "cancelling"} => reload'.task \in DOMAIN fetches'
      BY <2>1, <3>1 DEF TypeInv, ReloadTyped, ConnectorsGo
    <3>9. /\ disk \in 0 .. disk' /\ cancelled' \subseteq DOMAIN conns'
          /\ task' \in {0} \cup DOMAIN fetches' /\ awaited' \in {0} \cup DOMAIN fetches'
      BY <1>0, <2>1, <3>1 DEF ConnectorsGo, TypeInv, FetchesTyped
    <3> QED BY <3>1, <3>4, <3>6, <3>7, <3>8, <3>9, TypesGo
  <2> QED BY <2>2, <2>3
<1>2. CASE SetUp
  <2>1. /\ run = "setup"
        /\ IF conn = 0
           THEN run' = "ended" /\ UNCHANGED <<conns, fetches, task>>
           ELSE /\ Ready(1) /\ StartsFetch
                /\ run' = IF mode.watch THEN "idle" ELSE "join"
        /\ UNCHANGED <<awaited, mode, disk, watch, waiting, reload, answered, main, faults,
                       conn, transport, cancelled, loaded>>
    BY <1>2 DEF SetUp
  <2>2. 1 \in DOMAIN conns
    BY <2>1 DEF TypeInv, ConnectorsTyped
  <2>3. ConnectorsGo /\ FetchesGo /\ task' \in {0} \cup DOMAIN fetches'
        /\ run' \in {"ended", "idle", "join"}
    BY <1>0, <2>1, <2>2, ConnectorsMove, FetchesMove
  <2>4. TasksTyped'
    BY <2>1, <2>3 DEF TypeInv, TasksTyped, Runs
  <2> QED BY <1>0, <2>1, <2>3, <2>4, TypesStay
<1>3. CASE SetUpFails
  <2>1. /\ EntersCleanup /\ Fault
        /\ UNCHANGED <<awaited, mode, disk, watch, waiting, reload, answered, main,
                       conn, transport, cancelled, fetches, task, loaded>>
    BY <1>3 DEF SetUpFails
  <2>2. ConnectorsGo /\ run' \in {"cleanup", "ended"} /\ faults' \in Nat
    BY <2>1, CleanupStep, FaultTyped
  <2>3. TasksTyped'
    BY <2>1, <2>2 DEF TypeInv, TasksTyped, Runs
  <2>4. FetchesGo
    BY <2>1, FetchesMove
  <2> QED BY <1>0, <2>1, <2>2, <2>3, <2>4, TypesStay
<1>4. CASE Joined
  <2>1. /\ EntersCleanup /\ task' = 0
        /\ UNCHANGED <<awaited, mode, disk, watch, waiting, reload, answered, main, faults,
                       conn, transport, cancelled, fetches, loaded>>
    BY <1>4 DEF Joined
  <2>2. ConnectorsGo /\ run' \in {"cleanup", "ended"}
    BY <2>1, CleanupStep
  <2>3. TasksTyped'
    BY <2>1, <2>2 DEF TypeInv, TasksTyped, Runs
  <2>4. FetchesGo
    BY <2>1, FetchesMove
  <2> QED BY <1>0, <2>1, <2>2, <2>3, <2>4, TypesStay
<1>5. CASE CleanedUp
  <2>1. /\ run' = "ended" /\ conn' = 0
        /\ UNCHANGED <<awaited, mode, disk, watch, waiting, reload, answered, main, faults,
                       conns, transport, cancelled, fetches, task, loaded>>
    BY <1>5 DEF CleanedUp
  <2>2. TasksTyped'
    BY <2>1 DEF TypeInv, TasksTyped, Runs
  <2>3. ConnectorsTyped' /\ FetchesTyped' /\ ReloadTyped'
    BY <2>1 DEF TypeInv, ConnectorsTyped, FetchesTyped, ReloadTyped
  <2> QED BY <2>2, <2>3 DEF TypeInv
<1> QED BY <1>1, <1>2, <1>3, <1>4, <1>5 DEF RunLoop

\* Saves and the watcher keep the types.
LEMMA WatcherKeepsTypes ==
  ASSUME TypeInv, Save \/ Watcher
  PROVE  TypeInv'
<1>0. /\ disk \in Nat /\ watch \in Watch /\ waiting \in Nat
      /\ loaded \in 0 .. disk /\ answered \in 0 .. disk
  BY Numbers DEF TypeInv, TasksTyped
<1>1. CASE Save
  <2>1. /\ disk < MaxSaves /\ disk' = disk + 1 /\ watch' = [watch EXCEPT !.pushed = @ + 1]
        /\ UNCHANGED <<awaited, mode, waiting, reload, answered, run, main, faults, devVars>>
    BY <1>1 DEF Save
  <2>2. watch' \in Watch
    BY <1>0, <2>1 DEF Watch
  <2>3. /\ disk' \in 0 .. MaxSaves /\ 0 .. disk \subseteq 0 .. disk' /\ disk \in 0 .. disk'
    BY <1>0, <2>1, DevAssumption
  <2>4. TasksTyped'
    BY <1>0, <2>1, <2>2, <2>3 DEF TypeInv, TasksTyped, devVars
  <2>5. ConnectorsTyped' /\ FetchesTyped' /\ ReloadTyped'
    BY <2>1, <2>3 DEF TypeInv, ConnectorsTyped, FetchesTyped, ReloadTyped, devVars
  <2> QED BY <2>4, <2>5 DEF TypeInv
<1>2. CASE Watcher
  <2>1. /\ UNCHANGED <<awaited, mode, disk, reload, answered, run, main, faults, devVars>>
        /\ watch' \in Watch /\ waiting' \in Nat
    <3>0. watch.pushed \in Nat /\ watch.lost \in Nat /\ watch.emits \in Nat
      BY <1>0 DEF Watch
    <3>1. CASE Enqueue
      <4>1. PICK n \in Nat : n = watch.pushed - 1
        BY <3>0, <3>1 DEF Enqueue
      <4>2. watch' = [watch EXCEPT !.pushed = n, !.paths = TRUE, !.live = TRUE]
        BY <3>1, <4>1 DEF Enqueue
      <4>3. watch' \in Watch
        BY <1>0, <4>2 DEF Watch
      <4> QED BY <1>0, <3>1, <4>3 DEF Enqueue
    <3>2. CASE OnTimer
      <4>0. PICK m \in Nat : m = watch.emits + 1
        BY <3>0
      <4>1. CASE watch.live /\ watch' = [watch EXCEPT !.live = FALSE, !.emits = @ + 1]
        <5>1. watch' = [watch EXCEPT !.live = FALSE, !.emits = m]
          BY <4>0, <4>1
        <5>2. watch' \in Watch
          BY <1>0, <5>1 DEF Watch
        <5> QED BY <1>0, <3>2, <5>2 DEF OnTimer
      <4>2. CASE watch.lost > 0 /\ watch' = [watch EXCEPT !.lost = @ - 1, !.emits = @ + 1]
        <5>1. PICK n \in Nat : n = watch.lost - 1
          BY <3>0, <4>2
        <5>2. watch' = [watch EXCEPT !.lost = n, !.emits = m]
          BY <4>0, <4>2, <5>1
        <5>3. watch' \in Watch
          BY <1>0, <5>2 DEF Watch
        <5> QED BY <1>0, <3>2, <5>3 DEF OnTimer
      <4> QED BY <3>2, <4>1, <4>2 DEF OnTimer
    <3>3. CASE EmitPaths
      <4>1. /\ waiting' \in Nat
            /\ UNCHANGED <<awaited, mode, disk, reload, answered, run, main, faults, devVars>>
        BY <1>0, <3>3 DEF EmitPaths
      <4>2. PICK n \in Nat : n = watch.emits - 1
        BY <3>0, <3>3 DEF EmitPaths
      <4>3. PICK m \in Nat : m = IF watch.live THEN watch.lost + 1 ELSE watch.lost
        BY <3>0
      <4>4. watch' = [watch EXCEPT !.emits = n, !.paths = FALSE, !.live = FALSE, !.lost = m]
        BY <3>3, <4>2, <4>3 DEF EmitPaths
      <4>5. watch' \in Watch
        BY <1>0, <4>4 DEF Watch
      <4> QED BY <4>1, <4>5
    <3> QED BY <1>2, <3>1, <3>2, <3>3 DEF Watcher
  <2>2. TasksTyped'
    BY <2>1 DEF TypeInv, TasksTyped, devVars
  <2>3. ConnectorsTyped' /\ FetchesTyped' /\ ReloadTyped'
    BY <2>1 DEF TypeInv, ConnectorsTyped, FetchesTyped, ReloadTyped, devVars
  <2> QED BY <2>2, <2>3 DEF TypeInv
<1> QED BY <1>1, <1>2

\* Cancelling a fetch keeps the types, and so do its end and its exception.
LEMMA CancelsStep ==
  ASSUME TypeInv, NEW t, Running(t), t = task, Cancels(t)
  PROVE  FetchesGo /\ DOMAIN fetches' = DOMAIN fetches
<1>1. t \in DOMAIN fetches
  BY DEF Running, TypeInv, FetchesTyped
<1> QED BY <1>1, FetchesMove DEF Cancels

\* Ctrl-C and request_shutdown keep the types.
LEMMA ShutdownKeepsTypes ==
  ASSUME TypeInv, Interrupt \/ Shutdown
  PROVE  TypeInv'
<1>0. /\ cancelled \subseteq DOMAIN conns /\ task \in {0} \cup DOMAIN fetches
      /\ fetches \in Seq(Fetch) /\ disk \in Nat
      /\ UNCHANGED fetches => FetchesGo
      /\ UNCHANGED conns => ConnectorsGo
  BY Numbers, FetchesMove, ConnectorsMove DEF TypeInv, ConnectorsTyped, FetchesTyped
<1>1. CASE Interrupt
  <2>1. /\ main' = "interrupted"
        /\ UNCHANGED <<awaited, mode, disk, watch, waiting, reload, answered, faults, conn,
                       transport, cancelled, task, loaded>>
        /\ run \in {"setup", "idle"} => EntersCleanup /\ UNCHANGED fetches
        /\ run = "join" => /\ IF Running(task) THEN Cancels(task) ELSE UNCHANGED fetches
                           /\ UNCHANGED <<run, conns>>
        /\ run \notin {"setup", "idle", "join"} =>
              run' = "ended" /\ UNCHANGED <<conns, fetches>>
    BY <1>1 DEF Interrupt
  <2>2. ConnectorsGo /\ FetchesGo /\ run' \in {"cleanup", "ended", "join"}
    <3>1. CASE run \in {"setup", "idle"}
      BY <1>0, <2>1, <3>1, CleanupStep
    <3>2. CASE run = "join"
      BY <1>0, <2>1, <3>2, CancelsStep
    <3>3. CASE run \notin {"setup", "idle", "join"}
      BY <1>0, <2>1, <3>3
    <3> QED BY <3>1, <3>2, <3>3
  <2>3. TasksTyped'
    BY <2>1, <2>2 DEF TypeInv, TasksTyped, Runs, Mains
  <2>4. task' \in {0} \cup DOMAIN fetches' /\ cancelled' \subseteq DOMAIN conns
    BY <1>0, <2>1, <2>2 DEF FetchesGo
  <2> QED BY <2>1, <2>2, <2>3, <2>4, TypesStay
<1>2. CASE RequestShutdown
  <2>1. /\ cancelled' = IF transport = 0 THEN cancelled ELSE cancelled \cup {transport}
        /\ IF Running(task)
           THEN Cancels(task) /\ awaited' = task /\ main' = "cancelling" /\ UNCHANGED conns
           ELSE LastTeardown /\ UNCHANGED <<awaited, fetches>>
        /\ UNCHANGED <<mode, disk, watch, waiting, reload, answered, run, faults, conn,
                       transport, task, loaded>>
    BY <1>2 DEF RequestShutdown
  <2>2. cancelled' \subseteq DOMAIN conns
    BY <2>1, CancelledTyped
  <2>3. ConnectorsGo /\ FetchesGo /\ main' \in {"cancelling", "teardown", "stopping"}
    <3>1. CASE Running(task)
      BY <1>0, <2>1, <3>1, CancelsStep
    <3>2. CASE ~Running(task)
      BY <1>0, <2>1, <3>2, LastTeardownStep
    <3> QED BY <3>1, <3>2
  <2>4. TasksTyped'
    BY <2>1, <2>3 DEF TypeInv, TasksTyped, Mains
  <2>5. awaited' \in {0} \cup DOMAIN fetches' /\ task' \in {0} \cup DOMAIN fetches'
    BY <1>0, <2>1, <2>3 DEF FetchesGo, TypeInv, FetchesTyped
  <2>6. /\ disk \in 0 .. disk' /\ conn' \in {0} \cup DOMAIN conns'
        /\ transport' \in {0} \cup DOMAIN conns' /\ cancelled' \subseteq DOMAIN conns'
    BY <1>0, <2>1, <2>2, <2>3 DEF ConnectorsGo, TypeInv, ConnectorsTyped
  <2>7. /\ reload' \in ReloadRecord /\ reload'.seen \in 0 .. disk'
        /\ reload'.pc = "setup" => reload'.conn \in DOMAIN conns'
        /\ reload'.pc \in {"cooperate", "cancelling"} => reload'.task \in DOMAIN fetches'
    BY <2>1, <2>3 DEF TypeInv, ReloadTyped, ConnectorsGo, FetchesGo
  <2>8. run' = run
    BY <2>1
  <2> QED BY <2>3, <2>4, <2>5, <2>6, <2>7, <2>8, TypesGo
<1>3. CASE FetchCancelled
  <2>1. /\ LastTeardown
        /\ UNCHANGED <<awaited, mode, disk, watch, waiting, reload, answered, run, faults, conn,
                       transport, cancelled, fetches, task, loaded>>
    BY <1>3 DEF FetchCancelled
  <2>2. ConnectorsGo /\ main' \in {"teardown", "stopping"}
    BY <2>1, LastTeardownStep
  <2>3. TasksTyped'
    BY <2>1, <2>2 DEF TypeInv, TasksTyped, Mains
  <2> QED BY <1>0, <2>1, <2>2, <2>3, TypesStay
<1>4. CASE LastTornDown
  <2>1. /\ main' = "stopping"
        /\ UNCHANGED <<awaited, mode, disk, watch, waiting, reload, answered, run, faults, devVars>>
    BY <1>4 DEF LastTornDown
  <2>2. TasksTyped'
    BY <2>1 DEF TypeInv, TasksTyped, Mains, devVars
  <2> QED BY <1>0, <2>1, <2>2, TypesStay DEF devVars
<1>5. CASE Exit
  <2>1. /\ main' = "exit" /\ waiting' = 0 /\ reload' = NoReload
        /\ fetches' = [t \in DOMAIN fetches |->
              IF Running(t) THEN [fetches[t] EXCEPT !.status = "done"] ELSE fetches[t]]
        /\ UNCHANGED <<awaited, mode, disk, watch, answered, run, faults, conns, conn, transport,
                       cancelled, task, loaded>>
    BY <1>5 DEF Exit
  <2>2. /\ DOMAIN fetches = 1 .. Len(fetches) /\ Len(fetches) \in Nat
        /\ \A t \in DOMAIN fetches : fetches[t] \in Fetch
    BY Numbers
  <2>3. \A t \in DOMAIN fetches : fetches'[t] \in Fetch /\ fetches'[t].conn = fetches[t].conn
    <3> SUFFICES ASSUME NEW t \in DOMAIN fetches
                 PROVE  fetches'[t] \in Fetch /\ fetches'[t].conn = fetches[t].conn
      OBVIOUS
    <3>1. fetches'[t] = IF Running(t) THEN [fetches[t] EXCEPT !.status = "done"] ELSE fetches[t]
      BY <2>1
    <3>2. fetches[t] \in Fetch
      BY <2>2
    <3> QED BY <3>1, <3>2 DEF Fetch
  <2>4. DOMAIN fetches' = DOMAIN fetches
    BY <2>1
  <2>5. fetches' \in Seq(Fetch)
    <3>1. fetches' = [t \in 1 .. Len(fetches) |->
              IF Running(t) THEN [fetches[t] EXCEPT !.status = "done"] ELSE fetches[t]]
      BY <2>1, <2>2
    <3>2. \A t \in 1 .. Len(fetches) :
            (IF Running(t) THEN [fetches[t] EXCEPT !.status = "done"] ELSE fetches[t]) \in Fetch
      BY <2>2, <2>3, <3>1
    <3> HIDE DEF Running, Fetch
    <3> QED BY <2>2, <3>1, <3>2, IsASeq
  <2>6. TasksTyped'
    BY <2>1 DEF TypeInv, TasksTyped, Mains
  <2>7. ConnectorsTyped' /\ FetchesTyped'
    BY <2>1, <2>3, <2>4, <2>5 DEF TypeInv, ConnectorsTyped, FetchesTyped
  <2>8. ReloadTyped'
    BY <1>0, <2>1 DEF ReloadTyped, NoReload, ReloadRecord, Phases
  <2> QED BY <2>6, <2>7, <2>8 DEF TypeInv
<1> QED BY <1>1, <1>2, <1>3, <1>4, <1>5 DEF Shutdown

\* fetch() keeps the types, however it ends.
LEMMA FetchKeepsTypes ==
  ASSUME TypeInv, NEW t \in DOMAIN fetches, FetchEnds(t) \/ FetchRaises(t)
  PROVE  TypeInv'
<1>1. /\ \/ fetches' = [fetches EXCEPT ![t].status = "done"]
         \/ fetches' = [fetches EXCEPT ![t].status = "raised"]
      /\ UNCHANGED faults \/ Fault
      /\ UNCHANGED <<awaited, mode, disk, watch, waiting, reload, answered, run, main,
                     conns, conn, transport, cancelled, task, loaded>>
  BY DEF FetchEnds, FetchRaises
<1>2. FetchesGo /\ faults' \in Nat
  BY <1>1, FetchesMove, FaultTyped
<1>3. TasksTyped'
  BY <1>1, <1>2 DEF TypeInv, TasksTyped
<1>4. ConnectorsGo /\ cancelled' \subseteq DOMAIN conns /\ task' \in {0} \cup DOMAIN fetches'
  BY <1>1, <1>2, ConnectorsMove DEF FetchesGo, TypeInv, ConnectorsTyped, FetchesTyped
<1> QED BY <1>1, <1>2, <1>3, <1>4, TypesStay

\* Every step keeps the types.
LEMMA TypeStep == TypeInv /\ [Next]_vars => TypeInv'
<1> SUFFICES ASSUME TypeInv, [Next]_vars PROVE TypeInv'
  OBVIOUS
<1>1. CASE UNCHANGED vars
  BY <1>1 DEF vars, devVars, TypeInv, TasksTyped, ConnectorsTyped, FetchesTyped, ReloadTyped
<1>2. CASE Next
  BY <1>2, RunLoopKeepsTypes, WatcherKeepsTypes, ReloadKeepsTypes, ShutdownKeepsTypes,
     FetchKeepsTypes DEF Next
<1> QED BY <1>1, <1>2

\* The types hold in every state, for any number of saves, broken versions and exceptions:
\* only what can be imported is mounted, and a reload never gets hold of a connector or a
\* fetch that was never made (dev_runtime.py 218-354).
THEOREM DevTypeCorrect == Spec => []DevTypeOK
<1>1. Spec => []TypeInv
  BY TypeInit, TypeStep, PTL DEF Spec
<1> QED BY <1>1, TypesImply, PTL

-----------------------------------------------------------------------------
(* No connector is dropped without its teardown.                           *)

\* Nothing is saved, waited for or being reloaded.
Still == watch.pushed = 0 /\ ~watch.paths /\ waiting = 0 /\ reload = NoReload

Last == {"teardown", "stopping", "exit"}

\* A careful developer's reloads only happen while the runtime is up, and the command
\* goes on to its shutdown only once _run_loop has ended.
Orderly ==
  /\ Still \/ (run = "idle" /\ main = "waiting")
  /\ main \in Last \cup {"cancelling"} => run = "ended"
  /\ run = "new" => conns = <<>>

TornDownOrMounted == \A c \in DOMAIN conns : c # conn \/ main \in Last => conns[c].torn > 0

\* Whoever waits for a teardown has the torn-down connector still mounted.
TearingDown ==
  run = "cleanup" \/ reload.pc \in {"teardown", "failing"} => conn # 0 /\ conns[conn].torn > 0

LeakInv ==
  mode.careful => Orderly /\ TornDownOrMounted /\ TearingDown

\* The connector that is torn down counts it.
LEMMA TearsCounted ==
  ASSUME TypeInv, conn # 0, TearsDown
  PROVE  /\ conn \in DOMAIN conns /\ DOMAIN conns' = DOMAIN conns /\ conns'[conn].torn > 0
         /\ \A c \in DOMAIN conns : c # conn => conns'[c] = conns[c]
         /\ \A c \in DOMAIN conns : conns'[c].torn >= conns[c].torn /\ conns[c].torn \in Nat
<1>1. conn \in DOMAIN conns /\ conns \in Seq(Connector)
  BY DEF TypeInv, ConnectorsTyped
<1>2. \A c \in DOMAIN conns : conns[c].torn \in Nat
  BY Numbers DEF Connector
<1>3. /\ DOMAIN conns' = DOMAIN conns /\ conns'[conn].torn = conns[conn].torn + 1
      /\ \A c \in DOMAIN conns : c # conn => conns'[c].torn = conns[c].torn
  BY <1>1, TearsStep
<1>4. \A c \in DOMAIN conns : c # conn => conns'[c] = conns[c]
  BY DEF TearsDown
<1> QED BY <1>1, <1>2, <1>3, <1>4

\* Before the first step there is no connector.
LEMMA LeakInit == Init => LeakInv
<1> SUFFICES ASSUME Init PROVE LeakInv
  OBVIOUS
<1>1. DOMAIN conns = {} /\ conns = <<>> /\ Still /\ main = "waiting" /\ run = "new" /\ reload.pc = "none"
  BY DEF Init, Still, NoReload
<1> QED BY <1>1 DEF LeakInv, Orderly, TornDownOrMounted, TearingDown, Last

\* While _run_loop is at work a careful developer's reloads are not.
LEMMA StillAtWork ==
  ASSUME LeakInv, mode.careful, run # "idle" \/ main # "waiting"
  PROVE  Still /\ reload.pc = "none"
BY DEF LeakInv, Orderly, Still, NoReload

\* _run_loop drops no connector.
LEMMA RunLoopLeaksNone ==
  ASSUME TypeInv, LeakInv, RunLoop
  PROVE  LeakInv'
<1> SUFFICES ASSUME mode.careful PROVE Orderly' /\ TornDownOrMounted' /\ TearingDown'
  BY DEF LeakInv, RunLoop, Start, SetUp, SetUpFails, Joined, CleanedUp
<1>1. /\ UNCHANGED <<mode, watch, waiting, reload, main>>
      /\ run \in {"new", "setup", "join", "cleanup"}
      /\ run' \in {"ended", "setup", "idle", "join", "cleanup"}
  BY DEF RunLoop, Start, SetUp, SetUpFails, Joined, CleanedUp, EntersCleanup
<1>2. Still /\ reload.pc = "none"
  BY <1>1, StillAtWork
<1>3. Still' /\ reload'.pc = "none"
  BY <1>1, <1>2 DEF Still
<1>4. main \notin Last \cup {"cancelling"} /\ main' = main
  BY <1>1 DEF LeakInv, Orderly
<1>5. Orderly'
  BY <1>1, <1>3, <1>4 DEF Orderly
<1>6. TornDownOrMounted /\ TearingDown
  BY DEF LeakInv
<1>7. CASE Start
  <2>1. conns = <<>>
    BY <1>7 DEF Start, LeakInv, Orderly
  <2>2. conns \in Seq(Connector) /\ disk \in Nat
    BY Numbers DEF TypeInv, ConnectorsTyped
  <2>3. CASE disk \in Broken
    <3>1. conns' = <<>> /\ run' = "ended"
      BY <1>7, <2>1, <2>3 DEF Start
    <3> QED BY <1>3, <1>5, <3>1 DEF TornDownOrMounted, TearingDown
  <2>4. CASE disk \notin Broken
    <3>1. Mounts(disk) /\ run' = "setup"
      BY <1>7, <2>4 DEF Start
    <3>2. DOMAIN conns' = DOMAIN conns \cup {conn'}
      BY <2>2, <3>1, MountStep
    <3>3. DOMAIN conns = {}
      BY <2>1
    <3> QED BY <1>3, <1>4, <1>5, <3>1, <3>2, <3>3 DEF TornDownOrMounted, TearingDown
  <2> QED BY <2>3, <2>4
<1>8. CASE SetUp
  <2>1. /\ conn' = conn /\ run' \in {"ended", "idle", "join"}
        /\ conn = 0 => UNCHANGED conns
        /\ conn # 0 => Ready(1)
    BY <1>8 DEF SetUp
  <2>2. 1 \in DOMAIN conns /\ conns \in Seq(Connector)
    BY <1>8 DEF SetUp, TypeInv, ConnectorsTyped
  <2>3. DOMAIN conns' = DOMAIN conns /\ \A c \in DOMAIN conns : conns'[c].torn = conns[c].torn
    BY <2>1, <2>2, ReadyStep
  <2> QED BY <1>3, <1>4, <1>5, <1>6, <2>1, <2>3 DEF TornDownOrMounted, TearingDown
<1>9. CASE SetUpFails \/ Joined
  <2>1. EntersCleanup /\ conn' = conn
    BY <1>9 DEF SetUpFails, Joined
  <2>2. CASE conn = 0
    BY <1>3, <1>4, <1>5, <1>6, <2>1, <2>2 DEF EntersCleanup, TornDownOrMounted, TearingDown
  <2>3. CASE conn # 0
    BY <1>3, <1>4, <1>5, <1>6, <2>1, <2>3, TearsCounted DEF EntersCleanup, TornDownOrMounted, TearingDown
  <2> QED BY <2>2, <2>3
<1>10. CASE CleanedUp
  <2>1. conn # 0 /\ conns[conn].torn > 0 /\ conns' = conns /\ conn' = 0 /\ run' = "ended"
    BY <1>6, <1>10 DEF CleanedUp, TearingDown
  <2> QED BY <1>3, <1>4, <1>5, <1>6, <2>1 DEF TornDownOrMounted, TearingDown
<1> QED BY <1>7, <1>8, <1>9, <1>10 DEF RunLoop

\* However a part of trigger_reload ends, no connector is dropped: what it mounts takes
\* the place of nothing, or of a connector that is torn down.
LEMMA ReloadEndsLeakNone ==
  ASSUME TypeInv, LeakInv, mode.careful, run = "idle" /\ main = "waiting", NEW r,
         r \in ReloadRecord,
         \/ Ended(r) \/ Torn(r)
         \/ Mounted(r) /\ (conn = 0 \/ reload.pc \in {"teardown", "failing"}),
         UNCHANGED <<mode, run, main>>
  PROVE  LeakInv'
<1>1. Orderly'
  BY DEF Orderly, Last
<1>2. TornDownOrMounted /\ TearingDown /\ main' \notin Last /\ run' # "cleanup"
  BY DEF LeakInv, Last
<1>3. TornDownOrMounted' /\ TearingDown'
  <2>1. CASE Ended(r)
    <3>1. conns' = conns /\ conn' = conn /\ reload'.pc = "none"
      BY <2>1 DEF Ended, NoReload
    <3> QED BY <1>2, <3>1 DEF TornDownOrMounted, TearingDown
  <2>2. CASE Torn(r)
    <3>1. conn # 0 /\ TearsDown /\ conn' = conn
      BY <2>2 DEF Torn
    <3> QED BY <1>2, <3>1, TearsCounted DEF TornDownOrMounted, TearingDown
  <2>3. CASE Mounted(r) /\ (conn = 0 \/ reload.pc \in {"teardown", "failing"})
    <3>1. \A c \in DOMAIN conns : conns[c].torn > 0
      BY <1>2, <2>3, Numbers DEF TornDownOrMounted, TearingDown
    <3>2. disk \in Nat /\ conns \in Seq(Connector)
      BY Numbers DEF TypeInv, ConnectorsTyped
    <3>3. /\ DOMAIN conns' = DOMAIN conns \cup {conn'}
          /\ \A c \in DOMAIN conns : conns'[c] = conns[c]
      BY <2>3, <3>2, MountStep DEF Mounted
    <3>4. reload'.pc = "setup"
      BY <2>3 DEF Mounted, ReloadRecord
    <3> QED BY <1>2, <3>1, <3>3, <3>4 DEF TornDownOrMounted, TearingDown
  <2> QED BY <2>1, <2>2, <2>3
<1> QED BY <1>1, <1>3 DEF LeakInv

\* A reload that is under way, or about to begin, has the runtime up.
LEMMA ReloadWhileUp ==
  ASSUME LeakInv, mode.careful, Reload
  PROVE  run = "idle" /\ main = "waiting" /\ UNCHANGED <<mode, run, main>>
<1>1. ~Still
  BY DEF Still, NoReload, Reload, ReloadBegins, FetchGone, FetchFailsReload, FetchTimeout, TornDown,
         TeardownRaises, ReloadSetUp, ReloadSetUpFails, ReloadFailed
<1>2. UNCHANGED <<mode, run, main>>
  BY DEF Reload, ReloadBegins, FetchGone, FetchFailsReload, FetchTimeout, TornDown,
         TeardownRaises, ReloadSetUp, ReloadSetUpFails, ReloadFailed
<1> QED BY <1>1, <1>2 DEF LeakInv, Orderly

\* trigger_reload drops no connector.
LEMMA ReloadLeaksNone ==
  ASSUME TypeInv, LeakInv, Reload
  PROVE  LeakInv'
<1> SUFFICES ASSUME mode.careful PROVE LeakInv'
  BY DEF LeakInv, Reload, ReloadBegins, FetchGone, FetchFailsReload, FetchTimeout, TornDown,
         TeardownRaises, ReloadSetUp, ReloadSetUpFails, ReloadFailed
<1>0. /\ reload \in ReloadRecord /\ task \in Nat /\ disk \in Nat
      /\ run = "idle" /\ main = "waiting" /\ UNCHANGED <<mode, run, main>>
  BY Numbers, ReloadWhileUp DEF TypeInv, ReloadTyped
<1>1. /\ main' \notin Last /\ run' # "cleanup" /\ Orderly'
      /\ TornDownOrMounted /\ TearingDown
  BY <1>0 DEF LeakInv, Orderly, Last
<1>2. CASE ReloadBegins
  <2> DEFINE r == [NoReload EXCEPT !.pc = "cooperate", !.task = task, !.seen = disk]
  <2>1. IF Running(task) THEN reload' = r /\ UNCHANGED <<conns, conn>> ELSE TeardownOrImport(r)
    BY <1>2 DEF ReloadBegins
  <2>2. r \in ReloadRecord /\ r.pc = "cooperate"
    <3>1. NoReload \in ReloadRecord
      BY DEF NoReload, ReloadRecord, Phases
    <3> QED BY <1>0, <3>1 DEF ReloadRecord, Phases
  <2> HIDE DEF r
  <2>3. CASE Running(task)
    BY <1>0, <1>1, <2>1, <2>2, <2>3 DEF TornDownOrMounted, TearingDown, LeakInv
  <2>4. CASE ~Running(task)
    <3>1. Ended(r) \/ Torn(r) \/ (conn = 0 /\ Mounted(r))
      BY <2>1, <2>4, Outcomes
    <3> QED BY <1>0, <2>2, <3>1, ReloadEndsLeakNone
  <2> QED BY <2>3, <2>4
<1>3. CASE FetchGone \/ FetchTimeout
  <2>1. \/ /\ UNCHANGED <<conns, conn>>
           /\ \/ reload' = [reload EXCEPT !.task = task] /\ reload.pc = "cancelling"
              \/ reload' = [reload EXCEPT !.pc = "cancelling"]
        \/ TeardownOrImport(reload)
    BY <1>3 DEF FetchGone, FetchTimeout
  <2>2. CASE TeardownOrImport(reload)
    <3>1. Ended(reload) \/ Torn(reload) \/ (conn = 0 /\ Mounted(reload))
      BY <2>2, Outcomes
    <3> QED BY <1>0, <3>1, ReloadEndsLeakNone
  <2>3. CASE UNCHANGED <<conns, conn>> /\ reload'.pc = "cancelling"
    BY <1>0, <1>1, <2>3 DEF TornDownOrMounted, TearingDown, LeakInv
  <2> QED BY <1>0, <2>1, <2>2, <2>3 DEF ReloadRecord
<1>4. CASE FetchFailsReload \/ TeardownRaises \/ ReloadSetUpFails
  <2>1. Fails(reload) /\ UNCHANGED loaded
    BY <1>4 DEF FetchFailsReload, TeardownRaises, ReloadSetUpFails
  <2>2. Ended(reload) \/ Torn(reload)
    BY <2>1, Outcomes
  <2> QED BY <1>0, <2>2, ReloadEndsLeakNone
<1>5. CASE TornDown
  <2>1. Imports(reload) /\ reload.pc = "teardown"
    BY <1>5 DEF TornDown
  <2>2. Ended(reload) \/ Torn(reload) \/ Mounted(reload)
    BY <2>1, Outcomes
  <2> QED BY <1>0, <2>1, <2>2, ReloadEndsLeakNone
<1>6. CASE ReloadSetUp
  <2>1. /\ conn' = conn /\ reload'.pc = "none" /\ reload.conn \in DOMAIN conns
        /\ UNCHANGED conns \/ Ready(reload.conn)
    BY <1>6 DEF ReloadSetUp, Answers, NoReload, TypeInv, ReloadTyped
  <2>2. DOMAIN conns' = DOMAIN conns /\ \A c \in DOMAIN conns : conns'[c].torn = conns[c].torn
    BY <2>1, ReadyStep DEF TypeInv, ConnectorsTyped
  <2> QED BY <1>0, <1>1, <2>1, <2>2 DEF TornDownOrMounted, TearingDown, LeakInv
<1>7. CASE ReloadFailed
  <2>1. /\ conn # 0 /\ conns[conn].torn > 0 /\ conns' = conns /\ conn' = 0
        /\ reload'.pc = "none"
    BY <1>1, <1>7 DEF ReloadFailed, Answers, NoReload, TearingDown
  <2> QED BY <1>0, <1>1, <2>1 DEF TornDownOrMounted, TearingDown, LeakInv
<1> QED BY <1>2, <1>3, <1>4, <1>5, <1>6, <1>7 DEF Reload

\* Saves, the watcher and fetch() touch no connector, and no reload that is under way.
LEMMA OthersLeakNone ==
  ASSUME TypeInv, LeakInv,
         Save \/ Watcher \/ \E t \in DOMAIN fetches : FetchEnds(t) \/ FetchRaises(t)
  PROVE  LeakInv'
<1>1. UNCHANGED <<mode, reload, run, main, conns, conn>>
  BY DEF Save, Watcher, Enqueue, OnTimer, EmitPaths, FetchEnds, FetchRaises, devVars
<1>2. ASSUME mode.careful PROVE Still' \/ (run = "idle" /\ main = "waiting")
  <2>1. CASE Save
    BY <1>2, <2>1 DEF Save
  <2>2. CASE Enqueue
    BY <1>2, <2>2 DEF Enqueue, LeakInv, Orderly, Still
  <2>3. CASE OnTimer
    <3>1. UNCHANGED <<watch.pushed, watch.paths, waiting, reload>>
      BY <2>3 DEF OnTimer, TypeInv, TasksTyped, Watch
    <3> QED BY <1>2, <3>1 DEF LeakInv, Orderly, Still
  <2>4. CASE EmitPaths
    <3>1. /\ UNCHANGED <<watch.pushed, reload>> /\ ~watch'.paths
          /\ ~watch.paths => waiting' = waiting
      BY <2>4 DEF EmitPaths, TypeInv, TasksTyped, Watch
    <3> QED BY <1>2, <3>1 DEF LeakInv, Orderly, Still
  <2>5. CASE \E t \in DOMAIN fetches : FetchEnds(t) \/ FetchRaises(t)
    BY <1>2, <2>5 DEF FetchEnds, FetchRaises, LeakInv, Orderly, Still
  <2> QED BY <2>1, <2>2, <2>3, <2>4, <2>5 DEF Watcher
<1> QED BY <1>1, <1>2 DEF LeakInv, Orderly, TornDownOrMounted, TearingDown

\* The teardown that request_shutdown awaits is the last that is missing.
LEMMA LastTeardownLeaksNone ==
  ASSUME TypeInv, TornDownOrMounted, LastTeardown, UNCHANGED conn
  PROVE  TornDownOrMounted' /\ main' \in Last
<1>1. CASE conn = 0
  BY <1>1, Numbers DEF LastTeardown, TornDownOrMounted, Last
<1>2. CASE conn # 0
  BY <1>2, TearsCounted DEF LastTeardown, TornDownOrMounted, Last
<1> QED BY <1>1, <1>2

\* Ctrl-C and the shutdown drop no connector.
LEMMA ShutdownLeaksNone ==
  ASSUME TypeInv, LeakInv, Interrupt \/ Shutdown
  PROVE  LeakInv'
<1> SUFFICES ASSUME mode.careful PROVE Orderly' /\ TornDownOrMounted' /\ TearingDown'
  BY DEF LeakInv, Interrupt, Shutdown, RequestShutdown, FetchCancelled, LastTornDown, Exit
<1>0. Orderly /\ TornDownOrMounted /\ TearingDown
  BY DEF LeakInv
<1>1. CASE Interrupt
  <2>1. /\ Still /\ main = "waiting" /\ main' = "interrupted" /\ run # "new"
        /\ UNCHANGED <<watch, waiting, reload, conn>>
    BY <1>1 DEF Interrupt, Quiet, WatcherQuiet, Still
  <2>2. Still' /\ reload'.pc = "none" /\ main' \notin Last \cup {"cancelling"}
    BY <2>1 DEF Still, Last, NoReload
  <2>3. CASE run \in {"setup", "idle"} /\ conn # 0
    <3>1. TearsDown /\ run' = "cleanup"
      BY <1>1, <2>3 DEF Interrupt, EntersCleanup
    <3>2. Orderly'
      BY <2>2, <3>1 DEF Orderly, Last
    <3> QED BY <1>0, <2>1, <2>2, <2>3, <3>1, <3>2, TearsCounted DEF TornDownOrMounted, TearingDown
  <2>4. CASE ~(run \in {"setup", "idle"} /\ conn # 0)
    <3>1. conns' = conns /\ run' \in {"ended", "join"}
      BY <1>1, <2>4 DEF Interrupt, EntersCleanup
    <3>2. Orderly'
      BY <2>2, <3>1 DEF Orderly, Last
    <3> QED BY <1>0, <2>1, <2>2, <3>1, <3>2 DEF TornDownOrMounted, TearingDown
  <2> QED BY <2>3, <2>4
<1>2. CASE Shutdown
  <2>1. run = "ended" /\ UNCHANGED <<mode, run, conn, watch>>
    BY <1>0, <1>2 DEF Shutdown, RequestShutdown, FetchCancelled, LastTornDown, Exit, Orderly, Last,
                      devVars
  <2>2. Still
    BY <1>0, <2>1 DEF Orderly
  <2>3. Still' /\ reload'.pc = "none"
    BY <1>2, <2>2 DEF Shutdown, RequestShutdown, FetchCancelled, LastTornDown, Exit, Still, NoReload
  <2>4. Orderly' /\ TearingDown'
    BY <2>1, <2>3 DEF Orderly, TearingDown
  <2>5. TornDownOrMounted'
    <3>1. CASE RequestShutdown \/ FetchCancelled
      <4>1. CASE LastTeardown
        BY <1>0, <2>1, <4>1, LastTeardownLeaksNone
      <4>2. CASE ~LastTeardown
        <5>1. conns' = conns /\ main' = "cancelling"
          BY <3>1, <4>2 DEF RequestShutdown, FetchCancelled
        <5> QED BY <1>0, <2>1, <5>1 DEF TornDownOrMounted, Last
      <4> QED BY <4>1, <4>2
    <3>2. CASE LastTornDown \/ Exit
      <4>1. conns' = conns /\ main \in Last
        BY <3>2 DEF LastTornDown, Exit, Last, devVars
      <4> QED BY <1>0, <2>1, <4>1 DEF TornDownOrMounted
    <3> QED BY <1>2, <3>1, <3>2 DEF Shutdown
  <2> QED BY <2>4, <2>5
<1> QED BY <1>1, <1>2

\* No step drops a connector that was not torn down.
LEMMA LeakStep == TypeInv /\ LeakInv /\ [Next]_vars => LeakInv'
<1> SUFFICES ASSUME TypeInv, LeakInv, [Next]_vars PROVE LeakInv'
  OBVIOUS
<1>1. CASE UNCHANGED vars
  BY <1>1 DEF vars, devVars, LeakInv, Orderly, Still, TornDownOrMounted, TearingDown
<1>2. CASE Next
  BY <1>2, RunLoopLeaksNone, OthersLeakNone, ReloadLeaksNone, ShutdownLeaksNone DEF Next
<1> QED BY <1>1, <1>2

\* A connector that is not mounted any more has been torn down, and at the end every one
\* has been: for any number of saves, versions that do not import and exceptions
\* (dev_runtime.py 188-217, 303-354).
THEOREM NoneIsLeaked == Spec => []NoConnectorLeaked
<1>1. LeakInv => NoConnectorLeaked
  BY DEF LeakInv, TornDownOrMounted, NoConnectorLeaked, Last
<1>2. Spec => []LeakInv
  BY TypeInit, TypeStep, LeakInit, LeakStep, PTL DEF Spec
<1> QED BY <1>1, <1>2, PTL

-----------------------------------------------------------------------------
(* One fetch, on the connector that is mounted.                            *)

NoneRuns == \A t \in DOMAIN fetches : ~Running(t)

OneRuns ==
  \A t \in DOMAIN fetches :
    Running(t) => /\ t = task /\ fetches[t].conn = conn /\ conn # 0
                  /\ conns[conn].life = "ready" /\ conns[conn].torn = 0

\* Nothing runs on a connector that is being set up or torn down.
NoneRunsBetween ==
  \/ run \in {"new", "setup", "cleanup", "ended"}
  \/ reload.pc \in {"teardown", "setup", "failing"}
  => NoneRuns

\* What a reload has in hand is what the runtime has.
ReloadUpToDate ==
  /\ reload.pc \in {"cooperate", "cancelling"} => reload.task = task
  /\ reload.pc = "setup" => reload.conn = conn /\ conns[conn].torn = 0
  /\ run = "setup" => conn = 1 /\ conns[1].torn = 0

FetchInv ==
  mode.careful /\ main = "waiting" => OneRuns /\ NoneRunsBetween /\ ReloadUpToDate

\* Before the first step nothing runs.
LEMMA FetchInit == Init => FetchInv
<1> SUFFICES ASSUME Init PROVE FetchInv
  OBVIOUS
<1>1. DOMAIN fetches = {} /\ run = "new" /\ reload.pc = "none"
  BY DEF Init, NoReload
<1> QED BY <1>1 DEF FetchInv, OneRuns, NoneRuns, NoneRunsBetween, ReloadUpToDate

\* A fetch that starts when none runs is the only one.
LEMMA StartsAlone ==
  ASSUME TypeInv, NoneRuns, StartsFetch, conn # 0, UNCHANGED conn,
         conns'[conn].life = "ready", conns'[conn].torn = 0
  PROVE  OneRuns'
<1>1. fetches \in Seq(Fetch) /\ conn \in Nat
  BY Numbers DEF TypeInv, FetchesTyped
<1>2. /\ DOMAIN fetches' = DOMAIN fetches \cup {task'}
      /\ \A t \in DOMAIN fetches : fetches'[t] = fetches[t]
      /\ fetches'[task'].conn = conn
  BY <1>1, StartsStep
<1> QED BY <1>2 DEF OneRuns, NoneRuns, Running

\* _run_loop starts a fetch when none runs, and stops when none runs.
LEMMA RunLoopOneFetch ==
  ASSUME TypeInv, LeakInv, FetchInv, RunLoop
  PROVE  FetchInv'
<1> SUFFICES ASSUME mode.careful, main = "waiting"
             PROVE  OneRuns' /\ NoneRunsBetween' /\ ReloadUpToDate'
  BY DEF FetchInv, RunLoop, Start, SetUp, SetUpFails, Joined, CleanedUp
<1>1. UNCHANGED reload /\ run \in {"new", "setup", "join", "cleanup"}
  BY DEF RunLoop, Start, SetUp, SetUpFails, Joined, CleanedUp
<1>2. reload.pc = "none" /\ reload'.pc = "none"
  BY <1>1, StillAtWork
<1>3. OneRuns /\ NoneRunsBetween /\ ReloadUpToDate
  BY DEF FetchInv
<1>4. CASE Start
  <2>1. UNCHANGED fetches /\ NoneRuns
    BY <1>3, <1>4 DEF Start, NoneRunsBetween
  <2>2. NoneRuns' /\ OneRuns'
    BY <2>1 DEF NoneRuns, OneRuns, Running
  <2>3. run' = "setup" => conn' = 1 /\ conns'[1].torn = 0
    <3> SUFFICES ASSUME run' = "setup" PROVE conn' = 1 /\ conns'[1].torn = 0
      OBVIOUS
    <3>1. Mounts(disk) /\ conns = <<>>
      BY <1>4 DEF Start, LeakInv, Orderly
    <3>2. disk \in Nat /\ conns \in Seq(Connector) /\ Len(conns) = 0
      BY <3>1, Numbers DEF TypeInv, ConnectorsTyped
    <3> QED BY <3>1, <3>2, MountStep
  <2> QED BY <1>2, <2>2, <2>3 DEF NoneRunsBetween, ReloadUpToDate
<1>5. CASE SetUp
  <2>1. conn = 1 /\ conns[1].torn = 0 /\ NoneRuns
    BY <1>3, <1>5 DEF SetUp, NoneRunsBetween, ReloadUpToDate
  <2>2. Ready(1) /\ StartsFetch /\ conn' = conn /\ run' \in {"idle", "join"}
    BY <1>5, <2>1 DEF SetUp
  <2>3. 1 \in DOMAIN conns /\ conns \in Seq(Connector)
    BY <1>5 DEF SetUp, TypeInv, ConnectorsTyped
  <2>4. conns'[1].life = "ready" /\ conns'[1].torn = 0
    BY <2>1, <2>2, <2>3, ReadyStep
  <2>5. OneRuns'
    BY <2>1, <2>2, <2>4, StartsAlone
  <2> QED BY <1>2, <2>2, <2>5 DEF NoneRunsBetween, ReloadUpToDate
<1>6. CASE SetUpFails \/ Joined \/ CleanedUp
  <2>1. UNCHANGED fetches /\ run' \in {"cleanup", "ended"}
    BY <1>6 DEF SetUpFails, Joined, CleanedUp, EntersCleanup
  <2>2. NoneRuns
    <3>1. CASE Joined
      BY <1>3, <3>1 DEF Joined, OneRuns, NoneRuns
    <3>2. CASE SetUpFails \/ CleanedUp
      BY <1>3, <3>2 DEF SetUpFails, CleanedUp, NoneRunsBetween
    <3> QED BY <1>6, <3>1, <3>2
  <2>3. NoneRuns' /\ OneRuns'
    BY <2>1, <2>2 DEF NoneRuns, OneRuns, Running
  <2> QED BY <1>2, <2>1, <2>3 DEF NoneRunsBetween, ReloadUpToDate
<1> QED BY <1>4, <1>5, <1>6 DEF RunLoop

\* However a part of trigger_reload ends, it starts nothing.
LEMMA ReloadEndsNoneRuns ==
  ASSUME TypeInv, NoneRuns, run = "idle", NEW r, r \in ReloadRecord,
         Ended(r) \/ Torn(r) \/ Mounted(r), UNCHANGED <<run, fetches>>
  PROVE  OneRuns' /\ NoneRunsBetween' /\ ReloadUpToDate'
<1>1. NoneRuns' /\ OneRuns' /\ NoneRunsBetween'
  BY DEF NoneRuns, OneRuns, NoneRunsBetween, Running
<1>2. ReloadUpToDate'
  <2>1. CASE Ended(r) \/ Torn(r)
    BY <2>1 DEF Ended, Torn, NoReload, ReloadRecord, ReloadUpToDate
  <2>2. CASE Mounted(r)
    <3>1. disk \in Nat /\ conns \in Seq(Connector) /\ Len(conns) \in Nat
      BY Numbers DEF TypeInv, ConnectorsTyped
    <3>2. conn' = Len(conns) + 1 /\ conns'[conn'].torn = 0
      BY <2>2, <3>1, MountStep DEF Mounted
    <3>3. PICK n \in Nat : n = Len(conns) + 1
      BY <3>1
    <3>4. reload' = [r EXCEPT !.pc = "setup", !.conn = n]
      BY <2>2, <3>3 DEF Mounted
    <3>5. reload'.pc = "setup" /\ reload'.conn = n
      BY <3>4 DEF ReloadRecord
    <3> QED BY <3>2, <3>3, <3>5 DEF ReloadUpToDate
  <2> QED BY <2>1, <2>2
<1> QED BY <1>1, <1>2

\* trigger_reload has the old fetch gone before it starts another.
LEMMA ReloadOneFetch ==
  ASSUME TypeInv, LeakInv, FetchInv, Reload
  PROVE  FetchInv'
<1> SUFFICES ASSUME mode.careful, main = "waiting"
             PROVE  OneRuns' /\ NoneRunsBetween' /\ ReloadUpToDate'
  BY DEF FetchInv, Reload, ReloadBegins, FetchGone, FetchFailsReload, FetchTimeout, TornDown,
         TeardownRaises, ReloadSetUp, ReloadSetUpFails, ReloadFailed
<1>0. /\ run = "idle" /\ UNCHANGED run /\ reload \in ReloadRecord
      /\ task \in Nat /\ disk \in Nat
      /\ OneRuns /\ NoneRunsBetween /\ ReloadUpToDate
  BY ReloadWhileUp, Numbers DEF TypeInv, ReloadTyped, FetchInv
<1>1. ~Running(task) => NoneRuns
  BY <1>0 DEF OneRuns, NoneRuns
<1>2. CASE ReloadBegins
  <2> DEFINE r == [NoReload EXCEPT !.pc = "cooperate", !.task = task, !.seen = disk]
  <2>1. /\ IF Running(task) THEN reload' = r /\ UNCHANGED <<conns, conn>> ELSE TeardownOrImport(r)
        /\ UNCHANGED <<fetches, task>>
    BY <1>2 DEF ReloadBegins
  <2>2. r \in ReloadRecord /\ r.pc = "cooperate" /\ r.task = task
    <3>1. NoReload \in ReloadRecord
      BY DEF NoReload, ReloadRecord, Phases
    <3> QED BY <1>0, <3>1 DEF ReloadRecord, Phases
  <2> HIDE DEF r
  <2>3. CASE Running(task)
    <3>1. OneRuns'
      BY <1>0, <2>1, <2>3 DEF OneRuns, Running
    <3> QED BY <1>0, <2>1, <2>2, <2>3, <3>1 DEF NoneRunsBetween, ReloadUpToDate
  <2>4. CASE ~Running(task)
    <3>1. Ended(r) \/ Torn(r) \/ Mounted(r)
      BY <2>1, <2>4, Outcomes
    <3> QED BY <1>0, <1>1, <2>1, <2>2, <2>4, <3>1, ReloadEndsNoneRuns
  <2> QED BY <2>3, <2>4
<1>3. CASE FetchGone \/ FetchFailsReload
  <2>1. ~Running(task)
    BY <1>0, <1>3 DEF FetchGone, FetchFailsReload, ReloadUpToDate, Running
  <2>2. UNCHANGED fetches /\ (TeardownOrImport(reload) \/ (Fails(reload) /\ UNCHANGED loaded))
    BY <1>3, <2>1 DEF FetchGone, FetchFailsReload
  <2>3. Ended(reload) \/ Torn(reload) \/ Mounted(reload)
    BY <2>2, Outcomes
  <2> QED BY <1>0, <1>1, <2>1, <2>2, <2>3, ReloadEndsNoneRuns
<1>4. CASE TornDown \/ TeardownRaises \/ ReloadSetUpFails
  <2>1. NoneRuns
    BY <1>0, <1>4 DEF TornDown, TeardownRaises, ReloadSetUpFails, NoneRunsBetween
  <2>2. UNCHANGED fetches /\ (Imports(reload) \/ (Fails(reload) /\ UNCHANGED loaded))
    BY <1>4 DEF TornDown, TeardownRaises, ReloadSetUpFails
  <2>3. Ended(reload) \/ Torn(reload) \/ Mounted(reload)
    BY <2>2, Outcomes
  <2> QED BY <1>0, <2>1, <2>2, <2>3, ReloadEndsNoneRuns
<1>5. CASE FetchTimeout
  <2>1. /\ reload.pc = "cooperate" /\ reload.task = task /\ fetches[task].status = "running"
        /\ fetches' = [fetches EXCEPT ![task].status = "cancelling"]
        /\ reload' = [reload EXCEPT !.pc = "cancelling"]
        /\ UNCHANGED <<conns, conn, task>>
    BY <1>0, <1>5 DEF FetchTimeout, Cancels, ReloadUpToDate
  <2>2. task \in DOMAIN fetches /\ fetches \in Seq(Fetch)
    BY <2>1 DEF TypeInv, ReloadTyped, FetchesTyped
  <2>3. /\ DOMAIN fetches' = DOMAIN fetches
        /\ \A u \in DOMAIN fetches : /\ fetches'[u].conn = fetches[u].conn
                                     /\ u # task => fetches'[u].status = fetches[u].status
    BY <2>1, <2>2, MarkStep
  <2>4. OneRuns'
    BY <1>0, <2>1, <2>3 DEF OneRuns, Running
  <2>5. reload'.pc = "cancelling" /\ reload'.task = task
    BY <1>0, <2>1 DEF ReloadRecord
  <2> QED BY <1>0, <2>1, <2>4, <2>5 DEF NoneRunsBetween, ReloadUpToDate
<1>6. CASE ReloadSetUp
  <2>1. /\ reload.pc = "setup" /\ reload.conn = conn /\ conns[conn].torn = 0 /\ NoneRuns
    BY <1>0, <1>6 DEF ReloadSetUp, NoneRunsBetween, ReloadUpToDate
  <2>2. conn \in DOMAIN conns /\ conn # 0 /\ conns \in Seq(Connector)
    BY <2>1, Numbers DEF TypeInv, ReloadTyped, ConnectorsTyped
  <2>3. Ready(conn) /\ StartsFetch /\ conn' = conn /\ reload'.pc = "none"
    BY <1>6, <2>1, <2>2 DEF ReloadSetUp, Answers, NoReload
  <2>4. conns'[conn].life = "ready" /\ conns'[conn].torn = 0
    BY <2>1, <2>2, <2>3, ReadyStep
  <2>5. OneRuns'
    BY <2>1, <2>2, <2>3, <2>4, StartsAlone
  <2> QED BY <1>0, <2>3, <2>5 DEF NoneRunsBetween, ReloadUpToDate
<1>7. CASE ReloadFailed
  <2>1. NoneRuns /\ UNCHANGED fetches /\ reload'.pc = "none"
    BY <1>0, <1>7 DEF ReloadFailed, Answers, NoReload, NoneRunsBetween
  <2>2. NoneRuns' /\ OneRuns'
    BY <2>1 DEF NoneRuns, OneRuns, Running
  <2> QED BY <1>0, <2>1, <2>2 DEF NoneRunsBetween, ReloadUpToDate
<1> QED BY <1>2, <1>3, <1>4, <1>5, <1>6, <1>7 DEF Reload

\* Saves and the watcher start nothing; a fetch may end at any time.
LEMMA OthersOneFetch ==
  ASSUME TypeInv, FetchInv,
         Save \/ Watcher \/ \E t \in DOMAIN fetches : FetchEnds(t) \/ FetchRaises(t)
  PROVE  FetchInv'
<1>1. UNCHANGED <<mode, reload, run, main, conns, conn, task>>
  BY DEF Save, Watcher, Enqueue, OnTimer, EmitPaths, FetchEnds, FetchRaises, devVars
<1>2. /\ DOMAIN fetches' = DOMAIN fetches
      /\ \A u \in DOMAIN fetches : /\ fetches'[u].conn = fetches[u].conn
                                   /\ Running(u)' => Running(u)
  <2>1. CASE Save \/ Watcher
    BY <2>1 DEF Save, Watcher, Enqueue, OnTimer, EmitPaths, devVars, Running
  <2>2. CASE \E t \in DOMAIN fetches : FetchEnds(t) \/ FetchRaises(t)
    <3>1. PICK t \in DOMAIN fetches : FetchEnds(t) \/ FetchRaises(t)
      BY <2>2
    <3>2. PICK status \in {"done", "raised"} : fetches' = [fetches EXCEPT ![t].status = status]
      BY <3>1 DEF FetchEnds, FetchRaises
    <3>3. /\ DOMAIN fetches' = DOMAIN fetches /\ fetches'[t].status = status
          /\ \A u \in DOMAIN fetches : /\ fetches'[u].conn = fetches[u].conn
                                       /\ u # t => fetches'[u].status = fetches[u].status
      BY <3>1, <3>2, MarkStep DEF TypeInv, FetchesTyped
    <3> QED BY <3>3 DEF Running
  <2> QED BY <2>1, <2>2
<1> QED BY <1>1, <1>2 DEF FetchInv, OneRuns, NoneRuns, NoneRunsBetween, ReloadUpToDate

\* No step leaves two fetches running, or one on a connector that is not up.
LEMMA FetchStep == TypeInv /\ LeakInv /\ FetchInv /\ [Next]_vars => FetchInv'
<1> SUFFICES ASSUME TypeInv, LeakInv, FetchInv, [Next]_vars PROVE FetchInv'
  OBVIOUS
<1>1. CASE UNCHANGED vars
  BY <1>1 DEF vars, devVars, FetchInv, OneRuns, NoneRuns, NoneRunsBetween, ReloadUpToDate, Running
<1>2. CASE Interrupt \/ Shutdown
  <2>1. main' # "waiting"
    BY <1>2 DEF Interrupt, Shutdown, RequestShutdown, LastTeardown, FetchCancelled, LastTornDown,
                Exit
  <2> QED BY <2>1 DEF FetchInv
<1>3. CASE Next /\ ~(Interrupt \/ Shutdown)
  BY <1>3, RunLoopOneFetch, OthersOneFetch, ReloadOneFetch DEF Next
<1> QED BY <1>1, <1>2, <1>3

\* While the command waits at most one fetch runs, on the connector that is mounted, set up
\* and not torn down: for any number of saves, versions that do not import and exceptions
\* (dev_runtime.py 303-354).
THEOREM OneFetchRuns == Spec => []OneFetchOnLiveConnector
<1>1. FetchInv => OneFetchOnLiveConnector
  BY DEF FetchInv, OneRuns, OneFetchOnLiveConnector
<1>2. Spec => []FetchInv
  BY TypeInit, TypeStep, LeakInit, LeakStep, FetchInit, FetchStep, PTL DEF Spec
<1> QED BY <1>1, <1>2, PTL

=============================================================================
