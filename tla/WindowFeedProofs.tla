--------------------------- MODULE WindowFeedProofs ---------------------------
(***************************************************************************)
(* Proofs about WindowFeed, for all feeds, deployments, windows and        *)
(* bounds: relationships resolve and nothing within reach is missed.       *)
(***************************************************************************)
EXTENDS WindowFeed, FiniteSetTheorems, TLAPS

-----------------------------------------------------------------------------
(* Types.                                                                  *)

AnyEntry == UNION {Feed[c] : c \in Connector}

AnyItem == UNION {Items({e}, n) : e \in AnyEntry, n \in Nat}

AnyObject == {i.obj : i \in AnyItem}

Tx == [open : BOOLEAN, todo : SUBSET AnyItem, mine : SUBSET AnyObject]
Plan == [days : Nat, asked : Nat, draw : Nat]
Places == {"idle", "request", "wait", "date", "empty", "stamp", "unanswered"}

\* The two ends a fetch can come to.
Ends(s) == Idle(s) \/ Unanswered(s)

TypeInv ==
  /\ WindowTypeOK
  /\ tx \in [Session -> Tx]
  /\ plan \in [Session -> Plan]
  /\ done \in [Session -> Nat]
  /\ due \in [Session -> SUBSET AnyEntry]

\* What a session runs is one of the three connectors.
LEMMA Runs ==
  ASSUME TypeInv, NEW s \in Session
  PROVE  connector[s] \in Connector /\ Feed[connector[s]] \subseteq AnyEntry
<1>1. connector[s] \in Connector
  BY WindowAssumption DEF TypeInv, WindowTypeOK
<1> QED BY <1>1 DEF AnyEntry

\* A reply consists of entries of the feed.
LEMMA RepliesArePublished ==
  ASSUME TypeInv, NEW s \in Session, NEW days
  PROVE  Reply(s, days) \subseteq Feed[connector[s]]
BY DEF Reply, Published, Latest

\* What is promised is among the entries of the feed.
LEMMA PromisesArePublished ==
  ASSUME TypeInv, NEW s \in Session, NEW asked
  PROVE  Promised(s, asked) \subseteq Feed[connector[s]]
BY DEF Promised, Latest

\* The objects made of entries are objects.
LEMMA ItemsTyped ==
  ASSUME NEW entries \in SUBSET AnyEntry, NEW n \in Nat
  PROVE  Items(entries, n) \subseteq AnyItem
<1>1. ASSUME NEW e \in entries
      PROVE  {[at |-> 10 * e.place + p[1], obj |-> p[2]] : p \in ObjectsOf(e, n)} \subseteq AnyItem
  <2>1. Items({e}, n) = {[at |-> 10 * e.place + p[1], obj |-> p[2]] : p \in ObjectsOf(e, n)}
    BY DEF Items
  <2>2. Items({e}, n) \subseteq AnyItem
    BY DEF AnyItem
  <2> QED BY <2>1, <2>2
<1> QED BY <1>1 DEF Items

\* A fetch that ends leaves no plan, and the other fetches alone.
LEMMA EndsStep ==
  ASSUME TypeInv, NEW s \in Session, Ends(s)
  PROVE  /\ pc' \in [Session -> Places] /\ plan' \in [Session -> Plan]
         /\ pc'[s] \in {"idle", "unanswered"} /\ plan'[s] = NoPlan
         /\ \A t \in Session \ {s} : pc'[t] = pc[t] /\ plan'[t] = plan[t]
<1>1. NoPlan \in Plan
  BY DEF NoPlan, Plan
<1> QED BY <1>1 DEF TypeInv, WindowTypeOK, Ends, Idle, Unanswered, Goto, Places

\* A fetch moves on by itself.
LEMMA GotoStep ==
  ASSUME TypeInv, NEW s \in Session, NEW to \in Places, Goto(s, to)
  PROVE  /\ pc' \in [Session -> Places] /\ pc'[s] = to
         /\ \A t \in Session \ {s} : pc'[t] = pc[t]
BY DEF TypeInv, WindowTypeOK, Goto, Places

\* How an insert changes a transaction: the object is in it, or what conflicts with it
\* is there or committed.
LEMMA InsertStep ==
  ASSUME TypeInv, NEW s \in Session, Insert(s)
  PROVE  /\ tx' \in [Session -> Tx] /\ \A t \in Session \ {s} : tx'[t] = tx[t]
         /\ tx[s].open /\ tx'[s].open
         /\ UNCHANGED <<rows, saved, purge, feedVars>>
         /\ \E i \in tx[s].todo :
              /\ tx'[s].todo = tx[s].todo \ {i}
              /\ \/ tx'[s].mine = tx[s].mine \cup {i.obj}
                 \/ (Stored(i.obj) \/ Repeated(s, i.obj)) /\ tx'[s].mine = tx[s].mine
<1>1. tx \in [Session -> Tx] /\ NextItem(s) \subseteq tx[s].todo
  BY DEF TypeInv, NextItem
<1>2. tx[s].todo # {} => tx[s].open
  BY DEF TypeInv, WindowTypeOK, NoTx
<1>3. UNCHANGED <<rows, saved, purge, feedVars>>
  BY DEF Insert, InsertRow, SkipRow
<1>4. CASE InsertRow(s)
  <2>1. PICK i \in tx[s].todo :
          tx' = [tx EXCEPT ![s].todo = @ \ {i}, ![s].mine = @ \cup {i.obj}]
    BY <1>1, <1>4 DEF InsertRow
  <2>2. i.obj \in AnyObject
    BY <1>1 DEF Tx, AnyObject
  <2> QED BY <1>1, <1>2, <1>3, <2>1, <2>2 DEF Tx
<1>5. CASE SkipRow(s)
  <2>1. PICK i \in tx[s].todo :
          (Stored(i.obj) \/ Repeated(s, i.obj)) /\ tx' = [tx EXCEPT ![s].todo = @ \ {i}]
    BY <1>1, <1>5 DEF SkipRow
  <2> QED BY <1>1, <1>2, <1>3, <2>1 DEF Tx
<1> QED BY <1>4, <1>5 DEF Insert

\* A transaction that ends leaves nothing behind, and the others alone.
LEMMA EndStep ==
  ASSUME TypeInv, NEW s \in Session, tx' = [tx EXCEPT ![s] = NoTx]
  PROVE  /\ tx' \in [Session -> Tx] /\ tx'[s] = NoTx
         /\ \A t \in Session \ {s} : tx'[t] = tx[t]
<1>1. NoTx \in Tx
  BY DEF NoTx, Tx
<1> QED BY <1>1 DEF TypeInv

\* A transaction that begins holds the valid objects of its bundle.
LEMMA BeginStep ==
  ASSUME TypeInv, NEW s \in Session, NEW items \in SUBSET AnyItem, BeginIngest(s, items)
  PROVE  /\ tx' \in [Session -> Tx] /\ \A t \in Session \ {s} : tx'[t] = tx[t]
         /\ tx'[s].open /\ tx'[s].todo = items /\ tx'[s].mine = {}
<1>1. [open |-> TRUE, todo |-> items, mine |-> {}] \in Tx
  BY DEF Tx
<1> QED BY <1>1 DEF TypeInv, BeginIngest

\* Before the first fetch every variable has its type.
LEMMA TypeInit == Init => TypeInv
<1> SUFFICES ASSUME Init PROVE TypeInv
  OBVIOUS
<1> USE DEF Init, StoreInit
<1>1. WindowTypeOK
  <2>1. tick \in 1 .. MaxTick /\ draws \in 0 .. MaxFetches /\ failures \in 0 .. MaxFailures
    BY WindowAssumption
  <2>2. saved \in [Instance -> [Key -> {NoValue, Now}]]
    OBVIOUS
  <2>3. \A s \in Session : tx[s] = NoTx /\ NoTx.open = FALSE
    BY DEF NoTx
  <2>4. pc \in [Session -> {"idle", "request", "wait", "date", "empty", "stamp"}]
    OBVIOUS
  <2> QED BY <2>1, <2>2, <2>3, <2>4 DEF WindowTypeOK
<1>2. tx \in [Session -> Tx] /\ plan \in [Session -> Plan]
  BY DEF NoTx, Tx, NoPlan, Plan
<1> QED BY <1>1, <1>2 DEF TypeInv

\* A step of one session keeps the types if what it assigns has them.
LEMMA SessionTyped ==
  ASSUME TypeInv, UNCHANGED <<connector, purge>>, NEW s \in Session,
         saved' \in [Instance -> [Key -> {NoValue, Now}]],
         tx' \in [Session -> Tx], \A t \in Session \ {s} : tx'[t] = tx[t],
         ~tx'[s].open => tx'[s] = NoTx,
         pc' \in [Session -> Places], plan' \in [Session -> Plan],
         \A t \in Session \ {s} : pc'[t] = pc[t] /\ plan'[t] = plan[t],
         pc'[s] = "idle" => plan'[s] = NoPlan,
         tick' \in 1 .. MaxTick, draws' \in 0 .. MaxFetches, failures' \in 0 .. MaxFailures,
         done' \in [Session -> Nat], due' \in [Session -> SUBSET AnyEntry]
  PROVE  TypeInv'
<1>1. \A t \in Session : tx'[t].open \in BOOLEAN
  BY DEF Tx
<1>2. WindowTypeOK'
  BY <1>1 DEF TypeInv, WindowTypeOK, Places
<1> QED BY <1>2 DEF TypeInv

\* A request that has been answered promises entries of the feed.
LEMMA CompletedStep ==
  ASSUME TypeInv, NEW s \in Session, NEW asked \in Nat, Completed(s, asked)
  PROVE  /\ done' \in [Session -> Nat] /\ due' \in [Session -> SUBSET AnyEntry]
         /\ done'[s] = asked /\ due'[s] = due[s] \cup Promised(s, asked)
         /\ \A t \in Session \ {s} : done'[t] = done[t] /\ due'[t] = due[t]
<1>1. Promised(s, asked) \in SUBSET AnyEntry
  BY PromisesArePublished, Runs
<1>2. done \in [Session -> Nat] /\ due \in [Session -> SUBSET AnyEntry]
  BY DEF TypeInv
<1> HIDE DEF Promised
<1> QED BY <1>1, <1>2 DEF Completed

\* The valid objects of a reply are objects.
LEMMA ValidTyped ==
  ASSUME TypeInv, NEW s \in Session, NEW days, NEW n \in Nat
  PROVE  ValidItems(Items(Reply(s, days), n), FALSE) \in SUBSET AnyItem
<1>1. Reply(s, days) \in SUBSET AnyEntry
  BY RepliesArePublished, Runs
<1>2. Items(Reply(s, days), n) \subseteq AnyItem
  BY <1>1, ItemsTyped
<1> QED BY <1>2 DEF ValidItems

\* What a request does: it fails, completes at once, or goes on with a transaction.
LEMMA RequestStep ==
  ASSUME TypeInv, NEW s \in Session, Request(s)
  PROVE  LET entries == Reply(s, plan[s].days) IN
         /\ pc[s] = "request" /\ ~tx[s].open
         /\ UNCHANGED <<rows, saved, purge, connector, tick, draws, failures>>
         /\ pc' \in [Session -> Places] /\ plan' \in [Session -> Plan]
         /\ \A t \in Session \ {s} : pc'[t] = pc[t] /\ plan'[t] = plan[t]
         /\ \/ /\ pc'[s] \in {"idle", "unanswered"} /\ plan'[s] = NoPlan
               /\ UNCHANGED <<tx, done, due>>
            \/ /\ entries = {} /\ Completed(s, tick)
               /\ \/ pc'[s] = "empty" /\ connector[s] = "threatfox"
                  \/ pc'[s] \in {"idle", "unanswered"} /\ plan'[s] = NoPlan
               /\ UNCHANGED tx
            \/ /\ ~Malformed(entries)
               /\ pc'[s] = "wait" /\ plan'[s].asked = tick
               /\ BeginIngest(s, ValidItems(Items(entries, plan[s].draw), FALSE))
               /\ UNCHANGED <<done, due>>
<1> DEFINE entries == Reply(s, plan[s].days)
           valid == ValidItems(Items(entries, plan[s].draw), FALSE)
<1>1. /\ pc[s] = "request" /\ ~tx[s].open
      /\ UNCHANGED <<connector, tick, draws, failures>>
      /\ \/ Ends(s) /\ UNCHANGED <<storeVars, done, due>>
         \/ /\ ~Malformed(entries) /\ entries = {}
            /\ Completed(s, tick)
            /\ IF connector[s] = "threatfox" THEN Goto(s, "empty") /\ UNCHANGED plan ELSE Ends(s)
            /\ UNCHANGED storeVars
         \/ /\ ~Malformed(entries) /\ entries # {}
            /\ plan' = [plan EXCEPT ![s].asked = tick]
            /\ BeginIngest(s, valid)
            /\ Goto(s, "wait")
            /\ UNCHANGED <<done, due>>
  BY DEF Request, Ends
<1>2. pc \in [Session -> Places] /\ plan \in [Session -> Plan] /\ tick \in Nat
  BY WindowAssumption DEF TypeInv, WindowTypeOK, Places
<1>3. "empty" \in Places /\ "wait" \in Places
  BY DEF Places
<1> HIDE DEF valid, entries
<1>4. CASE Ends(s) /\ UNCHANGED <<storeVars, done, due>>
  BY <1>1, <1>4, EndsStep DEF storeVars
<1>5. CASE Completed(s, tick) /\ entries = {} /\ UNCHANGED storeVars
           /\ IF connector[s] = "threatfox" THEN Goto(s, "empty") /\ UNCHANGED plan ELSE Ends(s)
  BY <1>1, <1>2, <1>3, <1>5, EndsStep, GotoStep DEF storeVars, entries
<1>6. CASE /\ ~Malformed(entries) /\ plan' = [plan EXCEPT ![s].asked = tick]
           /\ BeginIngest(s, valid) /\ Goto(s, "wait") /\ UNCHANGED <<done, due>>
  <2>1. plan' \in [Session -> Plan] /\ plan'[s].asked = tick
        /\ \A t \in Session \ {s} : plan'[t] = plan[t]
    BY <1>2, <1>6 DEF Plan
  <2>2. pc' \in [Session -> Places] /\ pc'[s] = "wait" /\ \A t \in Session \ {s} : pc'[t] = pc[t]
    BY <1>3, <1>6, GotoStep
  <2>3. UNCHANGED <<rows, saved, purge>>
    BY <1>6 DEF BeginIngest
  <2> QED BY <1>1, <1>6, <2>1, <2>2, <2>3 DEF entries, valid
<1> QED BY <1>1, <1>4, <1>5, <1>6

\* Every step keeps the types.
LEMMA TypeKept ==
  ASSUME TypeInv, [Next]_vars
  PROVE  TypeInv'
<1>t. /\ saved \in [Instance -> [Key -> {NoValue, Now}]] /\ tx \in [Session -> Tx]
      /\ pc \in [Session -> Places] /\ plan \in [Session -> Plan]
      /\ tick \in 1 .. MaxTick /\ draws \in 0 .. MaxFetches /\ failures \in 0 .. MaxFailures
      /\ done \in [Session -> Nat] /\ due \in [Session -> SUBSET AnyEntry]
      /\ \A s \in Session : ~tx[s].open => tx[s] = NoTx
      /\ \A s \in Session : pc[s] = "idle" => plan[s] = NoPlan
      /\ Instance = Session /\ tick \in Nat
      /\ MaxFetches \in Nat /\ MaxFailures \in Nat /\ MaxTick \in Nat /\ DaysBack \in Nat
  BY WindowAssumption DEF TypeInv, WindowTypeOK, Places
<1>1. ASSUME NEW s \in Session, Start(s)
      PROVE  TypeInv'
  <2>1. /\ UNCHANGED <<storeVars, connector, tick, failures, done, due>>
        /\ draws' = draws + 1 /\ draws < MaxFetches /\ Goto(s, "request")
        /\ \E d \in {1, DaysBack} : plan' = [plan EXCEPT ![s].days = d, ![s].draw = draws + 1]
    BY <1>1 DEF Start
  <2>2. plan' \in [Session -> Plan] /\ \A t \in Session \ {s} : plan'[t] = plan[t]
    <3>1. PICK d \in {1, DaysBack} : plan' = [plan EXCEPT ![s].days = d, ![s].draw = draws + 1]
      BY <2>1
    <3>2. d \in Nat /\ draws + 1 \in Nat
      BY <1>t
    <3> QED BY <1>t, <3>1, <3>2 DEF Plan
  <2>3. pc' \in [Session -> Places] /\ pc'[s] = "request" /\ \A t \in Session \ {s} : pc'[t] = pc[t]
    BY <2>1, GotoStep DEF Places
  <2>4. draws' \in 0 .. MaxFetches
    BY <1>t, <2>1
  <2> QED BY <1>t, <2>1, <2>2, <2>3, <2>4, SessionTyped DEF storeVars
<1>2. ASSUME NEW s \in Session, Request(s)
      PROVE  TypeInv'
  <2> DEFINE valid == ValidItems(Items(Reply(s, plan[s].days), plan[s].draw), FALSE)
  <2>1. /\ tx' = tx \/ BeginIngest(s, valid)
        /\ (done' = done /\ due' = due) \/ Completed(s, tick)
        /\ UNCHANGED <<saved, purge, connector, tick, draws, failures>>
        /\ pc' \in [Session -> Places] /\ plan' \in [Session -> Plan]
        /\ \A t \in Session \ {s} : pc'[t] = pc[t] /\ plan'[t] = plan[t]
        /\ pc'[s] = "idle" => plan'[s] = NoPlan
    BY <1>2, RequestStep
  <2>2. valid \in SUBSET AnyItem
    BY <1>t, ValidTyped DEF Plan
  <2> HIDE DEF valid
  <2>3. /\ tx' \in [Session -> Tx] /\ \A t \in Session \ {s} : tx'[t] = tx[t]
        /\ ~tx'[s].open => tx'[s] = NoTx
    BY <1>t, <2>1, <2>2, BeginStep
  <2>4. done' \in [Session -> Nat] /\ due' \in [Session -> SUBSET AnyEntry]
    BY <1>t, <2>1, CompletedStep
  <2> QED BY <1>t, <2>1, <2>3, <2>4, SessionTyped
<1>3. ASSUME NEW s \in Session, SaveDate(s) \/ SaveStamp(s)
      PROVE  TypeInv'
  <2>1. /\ UNCHANGED <<rows, tx, purge, connector, tick, draws, failures, done, due>>
        /\ \E k \in Key : saved' = [saved EXCEPT ![s][k] = Now]
        /\ (Goto(s, "stamp") /\ UNCHANGED plan) \/ Ends(s)
    BY <1>3, WindowAssumption DEF SaveDate, SaveStamp, SetValue, Ends
  <2>2. saved' \in [Instance -> [Key -> {NoValue, Now}]]
    BY <1>t, <2>1
  <2>3. /\ pc' \in [Session -> Places] /\ plan' \in [Session -> Plan]
        /\ \A t \in Session \ {s} : pc'[t] = pc[t] /\ plan'[t] = plan[t]
        /\ pc'[s] = "idle" => plan'[s] = NoPlan
    BY <1>t, <2>1, EndsStep, GotoStep DEF Places
  <2> QED BY <1>t, <2>1, <2>2, <2>3, SessionTyped
<1>4. ASSUME NEW s \in Session, Insert(s)
      PROVE  TypeInv'
  <2>1. /\ tx' \in [Session -> Tx] /\ \A t \in Session \ {s} : tx'[t] = tx[t]
        /\ tx'[s].open /\ UNCHANGED <<saved, purge, feedVars>>
    BY <1>4, InsertStep
  <2> QED BY <1>t, <2>1, SessionTyped DEF feedVars
<1>5. ASSUME NEW s \in Session, Acked(s)
      PROVE  TypeInv'
  <2>1. /\ tx' = [tx EXCEPT ![s] = NoTx]
        /\ UNCHANGED <<saved, purge, connector, tick, plan, draws, failures>>
        /\ \/ Completed(s, plan[s].asked) /\ \E to \in {"date", "stamp"} : Goto(s, to)
           \/ UNCHANGED <<pc, done, due>>
    BY <1>5 DEF Acked, Commit
  <2>2. done' \in [Session -> Nat] /\ due' \in [Session -> SUBSET AnyEntry]
    BY <1>t, <2>1, CompletedStep DEF Plan
  <2>3. /\ pc' \in [Session -> Places] /\ \A t \in Session \ {s} : pc'[t] = pc[t]
        /\ pc'[s] = "idle" => plan[s] = NoPlan
    BY <1>t, <2>1, GotoStep DEF Places
  <2> QED BY <1>t, <2>1, <2>2, <2>3, EndStep, SessionTyped
<1>6. ASSUME NEW s \in Session, TxFails(s) \/ Interrupted(s) \/ ConnectorReplaced(s)
      PROVE  TypeInv'
  <2>1. /\ tx' = [tx EXCEPT ![s] = NoTx] \/ tx' = tx
        /\ UNCHANGED <<saved, purge, connector, tick, draws, done, due>>
        /\ failures' = failures \/ (failures < MaxFailures /\ failures' = failures + 1)
        /\ Ends(s) \/ UNCHANGED <<pc, plan>>
    BY <1>6 DEF TxFails, Interrupted, ConnectorReplaced, Ends, Rollback, storeVars
  <2>2. /\ tx' \in [Session -> Tx] /\ \A t \in Session \ {s} : tx'[t] = tx[t]
        /\ ~tx'[s].open => tx'[s] = NoTx
    BY <1>t, <2>1, EndStep
  <2>3. /\ pc' \in [Session -> Places] /\ plan' \in [Session -> Plan]
        /\ \A t \in Session \ {s} : pc'[t] = pc[t] /\ plan'[t] = plan[t]
        /\ pc'[s] = "idle" => plan'[s] = NoPlan
    BY <1>t, <2>1, EndsStep
  <2>4. failures' \in 0 .. MaxFailures
    BY <1>t, <2>1
  <2> QED BY <1>t, <2>1, <2>2, <2>3, <2>4, SessionTyped
<1>7. CASE Tick
  BY <1>7, <1>t DEF Tick, storeVars, TypeInv, WindowTypeOK
<1>8. CASE UNCHANGED vars
  BY <1>8 DEF vars, storeVars, feedVars, TypeInv, WindowTypeOK
<1> QED BY <1>1, <1>2, <1>3, <1>4, <1>5, <1>6, <1>7, <1>8 DEF Next, Fetch, Handler

\* The types hold throughout.
LEMMA TypesHold == Spec => []TypeInv
BY TypeInit, TypeKept, PTL DEF Spec

\* Every variable keeps its type, and nothing of a fetch outlives it but the date and the
\* stamp (the fetch() methods keep everything else in locals).
THEOREM WindowTypeCorrect == Spec => []WindowTypeOK
<1>1. TypeInv => WindowTypeOK
  BY DEF TypeInv
<1> QED BY <1>1, TypesHold, PTL

-----------------------------------------------------------------------------
(* What a transaction carries reaches the table, or is there already.      *)

Carried(s) == {i.obj : i \in tx[s].todo} \cup tx[s].mine

StoredIds == {r.obj.id : r \in rows}

\* The ids that are stored once the transaction of s commits.
Reached(s) == {o.id : o \in Carried(s)} \cup StoredIds

EndsResolve(s) == \A o \in Carried(s) : \A id \in o.ends : RejectedId(id) \/ id \in Reached(s)

\* An insert carries no more than before, and reaches no less.
LEMMA InsertReaches ==
  ASSUME TypeInv, NEW s \in Session, Insert(s)
  PROVE  Carried(s)' \subseteq Carried(s) /\ Reached(s) \subseteq Reached(s)' /\ StoredIds' = StoredIds
<1>1. PICK i \in tx[s].todo :
        /\ tx'[s].todo = tx[s].todo \ {i}
        /\ \/ tx'[s].mine = tx[s].mine \cup {i.obj}
           \/ (Stored(i.obj) \/ Repeated(s, i.obj)) /\ tx'[s].mine = tx[s].mine
  BY InsertStep
<1>2. rows' = rows
  BY InsertStep
<1>3. StoredIds' = StoredIds
  BY <1>2 DEF StoredIds
<1>4. Carried(s)' \subseteq Carried(s)
  BY <1>1 DEF Carried
<1>5. \A o \in Carried(s) : o \in Carried(s)' \/ o = i.obj
  BY <1>1 DEF Carried
<1>6. i.obj.id \in Reached(s)'
  <2>1. CASE tx'[s].mine = tx[s].mine \cup {i.obj}
    BY <2>1 DEF Reached, Carried
  <2>2. CASE Stored(i.obj)
    BY <2>2, <1>3 DEF Stored, SameKey, StoredIds, Reached
  <2>3. CASE Repeated(s, i.obj) /\ tx'[s].mine = tx[s].mine
    BY <2>3 DEF Repeated, SameKey, Reached, Carried
  <2> QED BY <1>1, <2>1, <2>2, <2>3
<1> QED BY <1>3, <1>4, <1>5, <1>6 DEF Reached

\* A commit stores what its transaction carries.
LEMMA CommitStores ==
  ASSUME TypeInv, NEW s \in Session, Commit(s, s)
  PROVE  /\ Reached(s) \subseteq StoredIds'
         /\ \A r \in rows' : r \in rows \/ r.obj \in Carried(s)
<1>1. /\ Carried(s) = tx[s].mine
      /\ rows' = rows \cup {[obj |-> o, source |-> s] : o \in tx[s].mine}
  BY DEF Commit, Carried
<1>2. \A o \in tx[s].mine : [obj |-> o, source |-> s] \in rows' /\ [obj |-> o, source |-> s].obj = o
  BY <1>1
<1>3. \A o \in tx[s].mine : o.id \in StoredIds'
  BY <1>2 DEF StoredIds
<1>4. StoredIds \subseteq StoredIds'
  BY <1>1 DEF StoredIds
<1> QED BY <1>1, <1>3, <1>4 DEF Reached

-----------------------------------------------------------------------------
(* What a bundle holds.                                                    *)

\* Each entry of a reply that can be read has its indicator among the valid objects, and
\* each relationship in it has both ends there, but for observables that are refused.
LEMMA BundleResolves ==
  ASSUME NEW c \in Connector, NEW entries \in SUBSET Feed[c], ~Malformed(entries), NEW n
  PROVE  LET valid == ValidItems(Items(entries, n), FALSE) IN
         /\ \A e \in entries : \E i \in valid : i.obj.id = IndicatorId(e, n)
         /\ \A i \in valid : \A id \in i.obj.ends :
              RejectedId(id) \/ \E j \in valid : j.obj.id = id
<1> DEFINE all == Items(entries, n)
           valid == ValidItems(all, FALSE)
           At(e, p) == [at |-> 10 * e.place + p[1], obj |-> p[2]]
<1>1. \A i : i \in all <=> \E e \in entries : \E p \in ObjectsOf(e, n) : i = At(e, p)
  BY DEF Items
<1>2. \A e, p : At(e, p).obj = p[2]
  OBVIOUS
<1>3. \A i \in all : i.obj.sort = "known" => i \in valid
  BY DEF ValidItems, Validates
<1> HIDE DEF all, At
<1>4. ASSUME NEW e \in entries, NEW p \in ObjectsOf(e, n), p[2].sort = "known"
      PROVE  \E i \in valid : i.obj = p[2]
  <2>1. At(e, p) \in all /\ At(e, p).obj = p[2]
    BY <1>1, <1>2
  <2> QED BY <1>3, <1>4, <2>1
<1> HIDE DEF valid
<1>5. ASSUME NEW e \in entries
      PROVE  /\ \E i \in valid : i.obj.id = IndicatorId(e, n)
             /\ RejectedId(ObservableId(e)) \/ \E i \in valid : i.obj.id = ObservableId(e)
             /\ HasFamily(e) => \E i \in valid : i.obj.id = FamilyId(e)
  <2>1. \E i \in valid : i.obj.id = IndicatorId(e, n)
    <3> DEFINE p == <<2, Object(IndicatorId(e, n), n, "known", {})>>
    <3>1. p \in ObjectsOf(e, n) /\ p[2].sort = "known" /\ p[2].id = IndicatorId(e, n)
      BY DEF ObjectsOf, Object
    <3> QED BY <1>4, <3>1
  <2>2. RejectedId(ObservableId(e)) \/ \E i \in valid : i.obj.id = ObservableId(e)
    <3> DEFINE p == <<1, Object(ObservableId(e), NoVersion, e.sort, {})>>
    <3>1. p \in ObjectsOf(e, n) /\ p[2].sort = e.sort /\ p[2].id = ObservableId(e)
      BY DEF ObjectsOf, Object
    <3>2. e.sort = "known" \/ e.sort = "invalid"
      BY WindowAssumption DEF Malformed
    <3>3. e.sort = "invalid" => RejectedId(ObservableId(e))
      BY DEF RejectedId
    <3> QED BY <1>4, <3>1, <3>2, <3>3
  <2>3. HasFamily(e) => \E i \in valid : i.obj.id = FamilyId(e)
    <3> DEFINE p == <<4, Object(FamilyId(e), n, "known", {})>>
    <3>1. HasFamily(e) => p \in ObjectsOf(e, n)
      BY DEF ObjectsOf
    <3>2. p[2].sort = "known" /\ p[2].id = FamilyId(e)
      BY DEF Object
    <3> QED BY <1>4, <3>1, <3>2
  <2> QED BY <2>1, <2>2, <2>3
<1>6. ASSUME NEW i \in valid, NEW id \in i.obj.ends
      PROVE  RejectedId(id) \/ \E j \in valid : j.obj.id = id
  <2>1. PICK e \in entries : \E p \in ObjectsOf(e, n) : i.obj = p[2]
    BY <1>1, <1>2 DEF valid, ValidItems
  <2>2. \/ id \in {IndicatorId(e, n), ObservableId(e)}
        \/ HasFamily(e) /\ id \in {IndicatorId(e, n), FamilyId(e)}
    BY <1>6, <2>1 DEF ObjectsOf, Object
  <2> QED BY <1>5, <2>2
<1> QED BY <1>5, <1>6 DEF valid, all

-----------------------------------------------------------------------------
(* Relationships.                                                          *)

RelInv == RelationshipsResolve /\ \A s \in Session : EndsResolve(s)

\* An empty transaction has nothing to resolve.
LEMMA NothingCarried ==
  ASSUME NEW s \in Session, tx[s] = NoTx
  PROVE  Carried(s) = {}
BY DEF Carried, NoTx

\* What happens to one transaction leaves what the others carry alone, while the table grows.
LEMMA OthersReach ==
  ASSUME RelInv, NEW s \in Session, \A t \in Session \ {s} : tx'[t] = tx[t],
         StoredIds \subseteq StoredIds',
         \A r \in rows' : r \in rows \/ (r.obj \in Carried(s) /\ Reached(s) \subseteq StoredIds'),
         EndsResolve(s)'
  PROVE  RelInv'
<1>1. ASSUME NEW t \in Session
      PROVE  EndsResolve(t)'
  <2>1. CASE t # s
    <3>1. Carried(t)' = Carried(t)
      BY <2>1 DEF Carried
    <3>2. Reached(t) \subseteq Reached(t)'
      BY <3>1 DEF Reached
    <3> QED BY <3>1, <3>2 DEF RelInv, EndsResolve, RejectedId
  <2> QED BY <2>1
<1>2. ASSUME NEW r \in rows', NEW id \in r.obj.ends
      PROVE  RejectedId(id) \/ \E q \in rows' : q.obj.id = id
  <2>1. CASE r \in rows
    <3>1. RejectedId(id) \/ id \in StoredIds
      BY <1>2, <2>1 DEF RelInv, RelationshipsResolve, StoredIds
    <3> QED BY <3>1 DEF StoredIds
  <2>2. CASE r.obj \in Carried(s) /\ Reached(s) \subseteq StoredIds'
    <3>1. RejectedId(id) \/ id \in Reached(s)
      BY <1>2, <2>2 DEF RelInv, EndsResolve
    <3> QED BY <2>2, <3>1 DEF StoredIds
  <2> QED BY <1>2, <2>1, <2>2
<1> QED BY <1>1, <1>2 DEF RelInv, RelationshipsResolve, RejectedId

\* Every step keeps relationships resolved, in the table and in the open transactions.
LEMMA RelationshipsKept ==
  ASSUME TypeInv, TypeInv', RelInv, [Next]_vars
  PROVE  RelInv'
<1>1. CASE UNCHANGED <<rows, tx>>
  BY <1>1 DEF RelInv, RelationshipsResolve, EndsResolve, Carried, Reached, StoredIds, RejectedId
<1>2. ASSUME NEW s \in Session, Insert(s)
      PROVE  RelInv'
  <2>1. Carried(s)' \subseteq Carried(s) /\ Reached(s) \subseteq Reached(s)' /\ StoredIds' = StoredIds
    BY <1>2, InsertReaches
  <2>2. EndsResolve(s)'
    BY <2>1 DEF RelInv, EndsResolve, RejectedId
  <2>3. rows' = rows /\ \A t \in Session \ {s} : tx'[t] = tx[t]
    BY <1>2, InsertStep
  <2> QED BY <2>1, <2>2, <2>3, OthersReach
<1>3. ASSUME NEW s \in Session, Acked(s) \/ Rollback(s)
      PROVE  RelInv'
  <2>1. /\ Commit(s, s) \/ rows' = rows
        /\ tx' = [tx EXCEPT ![s] = NoTx]
    BY <1>3 DEF Acked, Commit, Rollback
  <2>2. tx'[s] = NoTx /\ \A t \in Session \ {s} : tx'[t] = tx[t]
    BY <2>1, EndStep
  <2>3. EndsResolve(s)'
    BY <2>2 DEF Carried, NoTx, EndsResolve
  <2>4. CASE Commit(s, s)
    <3>1. /\ Reached(s) \subseteq StoredIds' /\ StoredIds \subseteq Reached(s)
          /\ \A r \in rows' : r \in rows \/ r.obj \in Carried(s)
      BY <2>4, CommitStores DEF Reached
    <3> QED BY <2>2, <2>3, <3>1, OthersReach
  <2>5. CASE rows' = rows
    <3>1. StoredIds' = StoredIds
      BY <2>5 DEF StoredIds
    <3> QED BY <2>2, <2>3, <2>5, <3>1, OthersReach
  <2> QED BY <2>1, <2>4, <2>5
<1>4. ASSUME NEW s \in Session, Request(s)
      PROVE  RelInv'
  <2> DEFINE entries == Reply(s, plan[s].days)
             valid == ValidItems(Items(entries, plan[s].draw), FALSE)
  <2>1. CASE UNCHANGED tx
    BY <1>1, <1>4, <2>1, RequestStep
  <2>2. CASE ~Malformed(entries) /\ BeginIngest(s, valid)
    <3>1. valid \in SUBSET AnyItem
      BY ValidTyped DEF TypeInv, Plan
    <3>2. \A i \in valid : \A id \in i.obj.ends : RejectedId(id) \/ \E j \in valid : j.obj.id = id
      <4>1. connector[s] \in Connector /\ entries \in SUBSET Feed[connector[s]]
        BY Runs, RepliesArePublished
      <4> HIDE DEF entries
      <4> QED BY <2>2, <4>1, BundleResolves
    <3> HIDE DEF valid, entries
    <3>3. /\ \A t \in Session \ {s} : tx'[t] = tx[t]
          /\ tx'[s].todo = valid /\ tx'[s].mine = {}
      BY <2>2, <3>1, BeginStep
    <3>4. EndsResolve(s)'
      BY <3>2, <3>3 DEF EndsResolve, Carried, Reached, RejectedId
    <3>5. rows' = rows /\ StoredIds' = StoredIds
      BY <2>2 DEF BeginIngest, StoredIds
    <3> QED BY <3>3, <3>4, <3>5, OthersReach
  <2> QED BY <1>4, <2>1, <2>2, RequestStep
<1>5. ASSUME NEW s \in Session, \/ Start(s) \/ SaveDate(s) \/ SaveStamp(s)
                                \/ Interrupted(s) \/ ConnectorReplaced(s)
      PROVE  UNCHANGED <<rows, tx>>
  BY <1>5 DEF Start, SaveDate, SaveStamp, Interrupted, ConnectorReplaced, SetValue, storeVars
<1>6. CASE Tick \/ UNCHANGED vars
  BY <1>1, <1>6 DEF Tick, vars, storeVars
<1> QED BY <1>1, <1>2, <1>3, <1>4, <1>5, <1>6 DEF Next, Fetch, Handler, TxFails

\* A stored relationship never points at an object that should be stored and is not,
\* although observables are shared between connectors and whoever comes second skips them
\* (ingest.py 120-126, repositories.py 154-177).
THEOREM NoneDangles == Spec => []RelationshipsResolve
<1>1. Init => RelInv
  BY DEF Init, StoreInit, NoTx, RelInv, RelationshipsResolve, EndsResolve, Carried
<1>2. RelInv => RelationshipsResolve
  BY DEF RelInv
<1> QED BY <1>1, <1>2, RelationshipsKept, TypesHold, PTL DEF Spec

-----------------------------------------------------------------------------
(* Nothing is missed.                                                      *)

Has(s, e) == \E n : IndicatorId(e, n) \in Reached(s)

\* What a fetch will be thought to have stored is stored, or will be by its transaction; and
\* a request of one day follows only a request that has been stored.
FetchInv(s) ==
  /\ due[s] \subseteq Indicated
  /\ saved[s]["last_fetch_date"] # NoValue => done[s] # 0
  /\ pc[s] \in {"date", "empty", "stamp"} => done[s] # 0
  /\ pc[s] = "request" =>
       plan[s].days = DaysBack \/ (plan[s].days = 1 /\ done[s] # 0)
  /\ pc[s] = "wait" =>
       /\ tx[s].open /\ plan[s].asked # 0
       /\ \A e \in Promised(s, plan[s].asked) : Has(s, e)

\* A step of one session leaves the books of the others alone.
LEMMA OthersKept ==
  ASSUME \A t \in Session : FetchInv(t), NEW s \in Session,
         \A t \in Session \ {s} :
           /\ tx'[t] = tx[t] /\ pc'[t] = pc[t] /\ plan'[t] = plan[t] /\ saved'[t] = saved[t]
           /\ done'[t] = done[t] /\ due'[t] = due[t],
         connector' = connector, rows \subseteq rows',
         FetchInv(s)'
  PROVE  \A t \in Session : FetchInv(t)'
<1>1. Indicated \subseteq Indicated' /\ StoredIds \subseteq StoredIds'
  BY DEF Indicated, StoredIds
<1>2. ASSUME NEW t \in Session \ {s}
      PROVE  FetchInv(t)'
  <2>1. \A asked : Promised(t, asked)' = Promised(t, asked)
    BY <1>2 DEF Promised, WithinReach, Latest
  <2>2. Reached(t) \subseteq Reached(t)'
    BY <1>1, <1>2 DEF Reached, Carried
  <2>3. \A e : Has(t, e) => Has(t, e)'
    BY <2>2 DEF Has
  <2> QED BY <1>1, <1>2, <2>1, <2>3 DEF FetchInv
<1> QED BY <1>2

\* Whatever the request promises is in its reply: what is new since the last completed one
\* lies within a day, or is at most as much as the API returns.
LEMMA PromisedIsReplied ==
  ASSUME TypeInv, NEW s \in Session, pc[s] = "request", FetchInv(s)
  PROVE  Promised(s, tick) \subseteq Reply(s, plan[s].days)
<1> DEFINE feed == Feed[connector[s]]
<1>1. /\ tick \in Nat /\ done[s] \in Nat /\ plan[s].days \in Nat
      /\ Day \in Nat /\ DaysBack \in Nat \ {0} /\ Limit \in Nat
      /\ IsFiniteSet(feed) /\ \A e \in feed : e.at \in Nat
  BY WindowAssumption, Runs DEF TypeInv, WindowTypeOK, Plan
<1>2. Published(s) = {e \in feed : e.at <= tick}
  BY DEF Published
<1>3. CASE connector[s] = "threatfox"
  <2>1. Reply(s, plan[s].days) = {e \in Published(s) : e.at > tick - plan[s].days * Day}
    BY <1>3 DEF Reply
  <2>2. CASE done[s] = 0
    <3>1. plan[s].days = DaysBack
      BY <2>2 DEF FetchInv
    <3>2. Promised(s, tick) = {e \in Published(s) : e.at > tick - DaysBack * Day}
      BY <1>2, <1>3, <2>2 DEF Promised
    <3> QED BY <2>1, <3>1, <3>2
  <2>3. CASE done[s] # 0
    <3> DEFINE d == plan[s].days
    <3>1. d \in Nat /\ d >= 1
      BY <1>1 DEF FetchInv
    <3>2. d * Day >= Day
      <4>1. (d - 1) * Day >= 0
        <5> HIDE DEF d
        <5>1. d - 1 \in Nat
          BY <3>1
        <5> QED BY <1>1, <5>1
      <4>2. (d - 1) * Day = d * Day - Day
        <5> HIDE DEF d
        <5> QED BY <1>1, <3>1
      <4>3. d * Day \in Nat
        <5> HIDE DEF d
        <5> QED BY <1>1, <3>1
      <4> HIDE DEF d
      <4> QED BY <1>1, <4>1, <4>2, <4>3
    <3>3. d * Day \in Nat
      <4> HIDE DEF d
      <4> QED BY <1>1, <3>1
    <3>4. Promised(s, tick) \subseteq {e \in Published(s) : e.at > done[s]}
      BY <1>2, <1>3, <2>3 DEF Promised
    <3>5. Promised(s, tick) # {} => tick - done[s] <= Day
      BY <1>3, <2>3 DEF Promised, WithinReach
    <3>6. ASSUME NEW e \in Promised(s, tick)
          PROVE  e \in Published(s) /\ e.at > tick - d * Day
      <4>1. e \in Published(s) /\ e.at > done[s] /\ tick - done[s] <= Day /\ e.at \in Nat
        BY <1>1, <1>2, <3>4, <3>5, <3>6
      <4> HIDE DEF d
      <4> QED BY <1>1, <3>2, <3>3, <4>1
    <3> QED BY <2>1, <3>6
  <2> QED BY <2>2, <2>3
<1>4. CASE connector[s] # "threatfox"
  <2>1. Reply(s, plan[s].days) = Latest(Limit, Published(s))
    BY <1>4 DEF Reply
  <2>2. CASE done[s] = 0
    BY <1>2, <1>4, <2>1, <2>2 DEF Promised
  <2>3. CASE done[s] # 0
    <3> DEFINE new == {e \in feed : done[s] < e.at /\ e.at <= tick}
    <3>1. Promised(s, tick) \subseteq new /\ (Promised(s, tick) # {} => Cardinality(new) <= Limit)
      BY <1>1, <1>4, <2>3 DEF Promised, WithinReach
    <3>2. ASSUME NEW e \in Promised(s, tick)
          PROVE  e \in Latest(Limit, Published(s))
      <4> DEFINE later == {d \in Published(s) : d.at > e.at}
      <4>1. e \in new /\ Cardinality(new) <= Limit
        BY <3>1, <3>2
      <4>2. later \subseteq new \ {e}
        BY <1>1, <1>2, <4>1
      <4>3. IsFiniteSet(new)
        BY <1>1, FS_Subset
      <4>4. IsFiniteSet(new \ {e}) /\ Cardinality(new \ {e}) = Cardinality(new) - 1
        BY <4>1, <4>3, FS_RemoveElement
      <4>5. Cardinality(later) <= Cardinality(new \ {e})
        BY <4>2, <4>4, FS_Subset
      <4>6. Cardinality(new) \in Nat /\ Cardinality(later) \in Nat
        <5>1. IsFiniteSet(later)
          BY <4>2, <4>4, FS_Subset
        <5> QED BY <4>3, <5>1, FS_CardinalityType
      <4>7. Cardinality(later) < Limit
        <5> HIDE DEF new, later
        <5> QED BY <1>1, <4>1, <4>4, <4>5, <4>6
      <4>8. e \in Published(s)
        BY <1>2, <4>1
      <4> QED BY <4>7, <4>8 DEF Latest
    <3> QED BY <2>1, <3>2
  <2> QED BY <2>2, <2>3
<1> QED BY <1>3, <1>4

\* A step that moves nothing of a session's keeps all books.
LEMMA QuietKept ==
  ASSUME \A t \in Session : FetchInv(t),
         UNCHANGED <<rows, saved, tx, connector, pc, plan, done, due>>
  PROVE  \A t \in Session : FetchInv(t)'
<1>1. ASSUME NEW t \in Session
      PROVE  FetchInv(t)'
  <2>1. \A asked : Promised(t, asked)' = Promised(t, asked)
    BY DEF Promised, WithinReach, Latest
  <2>2. Reached(t)' = Reached(t) /\ Indicated' = Indicated
    BY DEF Reached, Carried, StoredIds, Indicated
  <2>3. \A e : Has(t, e)' <=> Has(t, e)
    BY <2>2 DEF Has
  <2> QED BY <2>1, <2>2, <2>3 DEF FetchInv
<1> QED BY <1>1

\* The books of a session are its own to change.
LEMMA FetchKept ==
  ASSUME TypeInv, TypeInv', \A t \in Session : FetchInv(t), Next
  PROVE  \A t \in Session : FetchInv(t)'
<1>t. /\ saved \in [Instance -> [Key -> {NoValue, Now}]] /\ tx \in [Session -> Tx]
      /\ pc \in [Session -> Places] /\ plan \in [Session -> Plan]
      /\ done \in [Session -> Nat] /\ due \in [Session -> SUBSET AnyEntry]
      /\ tick \in Nat /\ tick # 0 /\ Instance = Session
      /\ "last_fetch_date" \in Key
  BY WindowAssumption DEF TypeInv, WindowTypeOK, Places
<1>1. ASSUME NEW s \in Session, Start(s)
      PROVE  \A t \in Session : FetchInv(t)'
  <2>1. /\ UNCHANGED <<rows, saved, tx, connector, done, due>>
        /\ Goto(s, "request")
        /\ plan' = [plan EXCEPT ![s].days = IF saved[s]["last_fetch_date"] # NoValue THEN 1 ELSE DaysBack,
                                ![s].draw = draws + 1]
    BY <1>1 DEF Start, storeVars
  <2>2. /\ plan'[s].days = IF saved[s]["last_fetch_date"] # NoValue THEN 1 ELSE DaysBack
        /\ \A t \in Session \ {s} : plan'[t] = plan[t]
    BY <1>t, <2>1 DEF Plan
  <2>3. pc'[s] = "request" /\ \A t \in Session \ {s} : pc'[t] = pc[t]
    BY <2>1, GotoStep DEF Places
  <2>4. FetchInv(s)'
    BY <2>1, <2>2, <2>3 DEF FetchInv, Indicated
  <2> QED BY <2>1, <2>2, <2>3, <2>4, OthersKept
<1>2. ASSUME NEW s \in Session, Request(s)
      PROVE  \A t \in Session : FetchInv(t)'
  <2> DEFINE entries == Reply(s, plan[s].days)
             valid == ValidItems(Items(entries, plan[s].draw), FALSE)
  <2>1. /\ pc[s] = "request"
        /\ UNCHANGED <<rows, saved, connector>>
        /\ \A t \in Session \ {s} : pc'[t] = pc[t] /\ plan'[t] = plan[t]
    BY <1>2, RequestStep
  <2>2. Promised(s, tick) \subseteq entries
    BY <2>1, PromisedIsReplied
  <2>3. Indicated' = Indicated /\ FetchInv(s)
    BY <2>1 DEF Indicated
  <2> HIDE DEF entries, valid
  <2>4. CASE pc'[s] \in {"idle", "unanswered"} /\ UNCHANGED <<tx, done, due>>
    <3>1. FetchInv(s)'
      BY <2>1, <2>3, <2>4 DEF FetchInv
    <3> QED BY <2>1, <2>4, <3>1, OthersKept
  <2>5. CASE /\ entries = {} /\ Completed(s, tick) /\ UNCHANGED tx
             /\ pc'[s] \in {"empty", "idle", "unanswered"}
    <3>1. /\ done'[s] = tick /\ due'[s] = due[s] \cup Promised(s, tick)
          /\ \A t \in Session \ {s} : done'[t] = done[t] /\ due'[t] = due[t]
      BY <1>t, <2>5, CompletedStep
    <3>2. FetchInv(s)'
      BY <1>t, <2>1, <2>2, <2>3, <2>5, <3>1 DEF FetchInv
    <3> QED BY <2>1, <2>5, <3>1, <3>2, OthersKept
  <2>6. CASE /\ ~Malformed(entries) /\ pc'[s] = "wait" /\ plan'[s].asked = tick
             /\ BeginIngest(s, valid) /\ UNCHANGED <<done, due>>
    <3>1. valid \in SUBSET AnyItem
      BY <1>t, ValidTyped DEF entries, valid, Plan
    <3>2. \A e \in entries : \E i \in valid : i.obj.id = IndicatorId(e, plan[s].draw)
      <4>1. connector[s] \in Connector /\ entries \in SUBSET Feed[connector[s]]
        BY Runs, RepliesArePublished DEF entries
      <4>2. ~Malformed(entries)
        BY <2>6
      <4> QED BY <4>1, <4>2, BundleResolves DEF valid
    <3>3. tx'[s].open /\ tx'[s].todo = valid /\ \A t \in Session \ {s} : tx'[t] = tx[t]
      BY <2>6, <3>1, BeginStep
    <3>4. \A e \in entries : IndicatorId(e, plan[s].draw) \in Reached(s)'
      BY <3>2, <3>3 DEF Reached, Carried
    <3>5. \A e \in entries : Has(s, e)'
      BY <3>4 DEF Has, IndicatorId
    <3>6. Promised(s, plan[s].asked)' = Promised(s, tick)
      BY <2>1, <2>6 DEF Promised, WithinReach, Latest
    <3>7. FetchInv(s)'
      BY <1>t, <2>1, <2>2, <2>3, <2>6, <3>3, <3>5, <3>6 DEF FetchInv
    <3> QED BY <2>1, <2>6, <3>3, <3>7, OthersKept
  <2> QED BY <1>2, <2>4, <2>5, <2>6, RequestStep DEF entries, valid
<1>3. ASSUME NEW s \in Session, SaveDate(s) \/ SaveStamp(s)
      PROVE  \A t \in Session : FetchInv(t)'
  <2>1. /\ UNCHANGED <<rows, tx, connector, done, due>>
        /\ \E k \in Key : saved' = [saved EXCEPT ![s][k] = Now]
        /\ pc[s] \in {"date", "empty", "stamp"}
        /\ (Goto(s, "stamp") /\ UNCHANGED plan) \/ Ends(s)
    BY <1>3, WindowAssumption DEF SaveDate, SaveStamp, SetValue, Ends
  <2>2. \A t \in Session \ {s} : saved'[t] = saved[t]
    BY <1>t, <2>1
  <2>3. /\ pc'[s] \in {"idle", "unanswered", "stamp"}
        /\ \A t \in Session \ {s} : pc'[t] = pc[t] /\ plan'[t] = plan[t]
    BY <2>1, EndsStep, GotoStep DEF Places
  <2>4. done[s] # 0
    BY <2>1 DEF FetchInv
  <2>5. FetchInv(s)'
    BY <2>1, <2>3, <2>4 DEF FetchInv, Indicated
  <2> QED BY <2>1, <2>2, <2>3, <2>5, OthersKept
<1>4. ASSUME NEW s \in Session, Insert(s)
      PROVE  \A t \in Session : FetchInv(t)'
  <2>1. /\ UNCHANGED <<rows, saved, connector, pc, plan, done, due>>
        /\ tx'[s].open /\ \A t \in Session \ {s} : tx'[t] = tx[t]
    BY <1>4, InsertStep DEF feedVars
  <2>2. Reached(s) \subseteq Reached(s)'
    BY <1>4, InsertReaches
  <2>3. \A e : Has(s, e) => Has(s, e)'
    BY <2>2 DEF Has
  <2>4. Promised(s, plan[s].asked)' = Promised(s, plan[s].asked)
    BY <2>1 DEF Promised, WithinReach, Latest
  <2>5. Indicated' = Indicated
    BY <2>1 DEF Indicated
  <2>6. FetchInv(s)'
    BY <2>1, <2>3, <2>4, <2>5 DEF FetchInv
  <2> QED BY <2>1, <2>6, OthersKept
<1>5. ASSUME NEW s \in Session, Acked(s)
      PROVE  \A t \in Session : FetchInv(t)'
  <2>1. /\ tx' = [tx EXCEPT ![s] = NoTx] /\ Commit(s, s)
        /\ rows \subseteq rows'
        /\ UNCHANGED <<saved, connector, plan>>
    BY <1>5 DEF Acked, Commit
  <2>2. \A t \in Session \ {s} : tx'[t] = tx[t]
    BY <2>1, EndStep
  <2>3. Indicated \subseteq Indicated'
    BY <2>1 DEF Indicated
  <2>4. CASE pc[s] = "wait"
    <3>1. /\ Completed(s, plan[s].asked)
          /\ \E to \in {"date", "stamp"} : Goto(s, to)
      BY <1>5, <2>4 DEF Acked
    <3>2. plan[s].asked \in Nat /\ plan[s].asked # 0
      BY <1>t, <2>4 DEF Plan, FetchInv
    <3>3. /\ done'[s] = plan[s].asked /\ due'[s] = due[s] \cup Promised(s, plan[s].asked)
          /\ \A t \in Session \ {s} : done'[t] = done[t] /\ due'[t] = due[t]
      BY <3>1, <3>2, CompletedStep
    <3>4. pc'[s] \in {"date", "stamp"} /\ \A t \in Session \ {s} : pc'[t] = pc[t]
      BY <3>1, GotoStep DEF Places
    <3>5. ASSUME NEW e \in Promised(s, plan[s].asked)
          PROVE  e \in Indicated'
      <4>1. PICK n : IndicatorId(e, n) \in Reached(s)
        BY <2>4, <3>5 DEF FetchInv, Has
      <4>2. IndicatorId(e, n) \in StoredIds'
        BY <2>1, <4>1, CommitStores
      <4>3. PICK r \in rows' : r.obj.id = IndicatorId(e, n)
        BY <4>2 DEF StoredIds
      <4>4. r.obj.id[1] = "indicator" /\ r.obj.id[2] = e
        BY <4>3 DEF IndicatorId
      <4> QED BY <4>4 DEF Indicated
    <3>6. FetchInv(s)'
      BY <2>1, <2>3, <3>2, <3>3, <3>4, <3>5 DEF FetchInv
    <3> QED BY <2>1, <2>2, <3>3, <3>4, <3>6, OthersKept
  <2>5. CASE pc[s] # "wait"
    <3>1. UNCHANGED <<pc, done, due>>
      BY <1>5, <2>5 DEF Acked
    <3>2. FetchInv(s)'
      BY <2>1, <2>3, <2>5, <3>1 DEF FetchInv
    <3> QED BY <2>1, <2>2, <3>1, <3>2, OthersKept
  <2> QED BY <2>4, <2>5
<1>6. ASSUME NEW s \in Session, TxFails(s) \/ Interrupted(s) \/ ConnectorReplaced(s)
      PROVE  \A t \in Session : FetchInv(t)'
  <2>1. /\ tx' = [tx EXCEPT ![s] = NoTx] \/ (tx' = tx /\ Ends(s))
        /\ UNCHANGED <<rows, saved, connector, done, due>>
        /\ Ends(s) \/ (pc[s] # "wait" /\ UNCHANGED <<pc, plan>>)
    BY <1>6 DEF TxFails, Interrupted, ConnectorReplaced, Ends, Rollback, storeVars
  <2>2. \A t \in Session \ {s} : tx'[t] = tx[t]
    BY <2>1, EndStep
  <2>3. /\ \A t \in Session \ {s} : pc'[t] = pc[t] /\ plan'[t] = plan[t]
        /\ \/ pc'[s] \in {"idle", "unanswered"}
           \/ pc'[s] = pc[s] /\ plan'[s] = plan[s] /\ pc[s] # "wait"
    BY <2>1, EndsStep
  <2>4. FetchInv(s)'
    BY <2>1, <2>3 DEF FetchInv, Indicated
  <2> QED BY <2>1, <2>2, <2>3, <2>4, OthersKept
<1>7. CASE Tick
  <2>1. UNCHANGED <<rows, saved, tx, connector, pc, plan, done, due>>
    BY <1>7 DEF Tick, storeVars
  <2> QED BY <2>1, QuietKept
<1> QED BY <1>1, <1>2, <1>3, <1>4, <1>5, <1>6, <1>7 DEF Next, Fetch, Handler

\* As long as completed requests follow each other within the window, everything published
\* since the first is stored, and all that the first reaches back for, however often
\* fetches failed in between (threatfox, urlhaus and malwarebazaar fetch()).
THEOREM NothingIsMissed == Spec => []NothingMissed
<1> DEFINE Books == \A s \in Session : FetchInv(s)
<1>1. Init => Books
  <2> SUFFICES ASSUME Init, NEW s \in Session PROVE FetchInv(s)
    OBVIOUS
  <2>1. saved[s]["last_fetch_date"] = NoValue
    BY WindowAssumption DEF Init, StoreInit
  <2>2. due[s] = {} /\ pc[s] = "idle"
    BY DEF Init
  <2> QED BY <2>1, <2>2 DEF FetchInv
<1>2. TypeInv /\ TypeInv' /\ Books /\ [Next]_vars => Books'
  <2>1. UNCHANGED vars /\ Books => Books'
    BY QuietKept DEF vars, storeVars, feedVars
  <2> QED BY <2>1, FetchKept
<1>3. Books => NothingMissed
  BY DEF FetchInv, NothingMissed
<1> QED BY <1>1, <1>2, <1>3, TypesHold, PTL DEF Spec
=============================================================================
