-------------------------- MODULE CatalogFeedProofs --------------------------
(***************************************************************************)
(* Proofs about CatalogFeed, for every set of catalogs, sessions and       *)
(* instances, every deployment and every bound.  What a validator stands   *)
(* for, and the contract of FeedContract, are proved for an operator who   *)
(* stops a connector before purging it.                                    *)
(***************************************************************************)
EXTENDS CatalogFeed, FiniteSetTheorems, TLAPS

-----------------------------------------------------------------------------
(* Objects.                                                                *)

ObjectsOf(k) == {Build(k, e, n) : e \in EntriesOf(k), n \in Nat}

Object == UNION {ObjectsOf(k) : k \in Kind}

\* An object keeps its entry, the entry's date of change and the name it was made of.
LEMMA ObjectsAreBuilt ==
  ASSUME NEW k \in Kind, NEW o \in ObjectsOf(k)
  PROVE  /\ o \in Object /\ o.entry \in EntriesOf(k) /\ o.entry \in Entry
         /\ o.modified = o.entry.modified /\ o.id[1] = o.entry.name
         /\ k = "kev" => o.id[2] = o.entry.content
<1>1. PICK e \in EntriesOf(k), n \in Nat : o = Build(k, e, n)
  BY DEF ObjectsOf
<1>2. o.entry = e /\ o.modified = e.modified
  BY <1>1 DEF Build
<1>3. o.id = IF k = "kev" THEN <<e.name, e.content, n>> ELSE <<e.name>>
  BY <1>1 DEF Build
<1>4. o.id[1] = e.name /\ (k = "kev" => o.id[2] = e.content)
  BY <1>3
<1> QED BY <1>2, <1>4 DEF Object, Entry

\* No entry is in the catalogs of two kinds.
LEMMA KindsAreDisjoint ==
  ASSUME NEW j \in Kind, NEW k \in Kind, NEW e \in EntriesOf(j), e \in EntriesOf(k)
  PROVE  j = k
BY CatalogAssumption

\* What the unique indexes take for the same row was made of the same entry.
LEMMA SameKeySameEntry ==
  ASSUME NEW j \in Kind, NEW k \in Kind, NEW o \in ObjectsOf(j), NEW p \in ObjectsOf(k),
         SameKey(o, p)
  PROVE  o.entry = p.entry
<1>1. o.id[1] = p.id[1] /\ o.id[2] = p.id[2] /\ o.modified = p.modified
  BY DEF SameKey
<1>2. o.entry.name = p.entry.name /\ o.entry.modified = p.entry.modified
  BY <1>1, ObjectsAreBuilt
<1>3. j = k
  BY <1>2, ObjectsAreBuilt, CatalogAssumption
<1>4. k = "kev" => o.entry.content = p.entry.content
  BY <1>1, <1>3, ObjectsAreBuilt
<1> QED BY <1>2, <1>3, <1>4, ObjectsAreBuilt, CatalogAssumption

-----------------------------------------------------------------------------
(* Types.                                                                  *)

Places == {"idle", "read", "request", "emit", "wait", "save", "stamp", "unanswered"}

\* The two ends a fetch can come to.
Ends(s) == Idle(s) \/ Unanswered(s)
Item == [at : Nat, obj : Object]
Tx == [open : BOOLEAN, todo : SUBSET Item, mine : SUBSET Object]
Plan == [etag : Nat, last_modified : Nat, body : Nat, todo : SUBSET Nat]
Row == [obj : Object, source : Instance]
Purge == [phase : {"idle", "state", "objects"}, targets : SUBSET Instance,
          locked : SUBSET (Instance \X Key), doomed : SUBSET Row]

StoreTyped ==
  /\ rows \in SUBSET Row /\ saved \in [Instance -> [Key -> Nat]]
  /\ tx \in [Session -> Tx] /\ purge \in Purge

\* The objects of a transaction, and of its instance's rows, are of its connector's kind.
KindsKept ==
  /\ \A r \in rows : r.obj \in ObjectsOf(setup.kind[r.source])
  /\ \A s \in Session : /\ \A i \in tx[s].todo : i.obj \in ObjectsOf(KindOf(s))
                        /\ \A o \in tx[s].mine : o \in ObjectsOf(KindOf(s))
                        /\ ~tx[s].open => tx[s] = NoTx

\* A fetch that has a body works on a revision that has been published.
HasBody(s) == pc[s] \in {"emit", "wait", "save", "stamp"}

BodiesPublished ==
  \A s \in Session : HasBody(s) =>
    /\ plan[s].body \in DOMAIN Catalog[KindOf(s)] /\ plan[s].body <= revision[KindOf(s)]
    /\ plan[s].todo \subseteq ToEmit(KindOf(s), plan[s].body)

FetchTyped ==
  /\ setup \in Setups
  /\ revision \in [Kind -> Nat] /\ \A k \in Kind : revision[k] \in DOMAIN Catalog[k]
  /\ pc \in [Session -> Places] /\ plan \in [Session -> Plan]
  /\ \A s \in Session : pc[s] = "idle" => plan[s] = NoPlan
  /\ uuids \in Nat /\ failures \in 0 .. MaxFailures /\ purges \in 0 .. MaxPurges

TypeInv == StoreTyped /\ FetchTyped /\ KindsKept /\ BodiesPublished

\* Every session belongs to an instance of some kind.
LEMMA Deployed ==
  ASSUME setup \in Setups
  PROVE  /\ \A s \in Session : Home(s) \in Instance /\ KindOf(s) \in Kind
         /\ \A i \in Instance : setup.kind[i] \in Kind
         /\ \A k \in Kind : InstancesOf(k) \in SUBSET Instance
BY CatalogAssumption DEF Home, KindOf, InstancesOf

\* Positions and revisions are numbers, and a position holds an entry of its kind.
LEMMA TypesOfCatalogs ==
  ASSUME NEW k \in Kind, NEW v \in DOMAIN Catalog[k]
  PROVE  /\ v \in Nat /\ v # NoValue
         /\ ToEmit(k, v) \subseteq DOMAIN Catalog[k][v] /\ ToEmit(k, v) \subseteq Nat
         /\ \A p \in DOMAIN Catalog[k][v] : Catalog[k][v][p] \in EntriesOf(k)
BY CatalogAssumption DEF ToEmit, EntriesOf, Entries

\* A bundle holds objects of its connector's kind.
LEMMA BundleTyped ==
  ASSUME TypeInv, NEW s \in Session, HasBody(s)
  PROVE  \A i \in Bundle(s) : i \in Item /\ i.obj \in ObjectsOf(KindOf(s)) /\ i.at \in Batch(s)
<1>1. KindOf(s) \in Kind /\ uuids + 1 \in Nat
  BY Deployed DEF TypeInv, FetchTyped
<1>2. Batch(s) \subseteq plan[s].todo
  BY DEF Batch, NextBatch
<1>3. /\ Batch(s) \subseteq Nat
      /\ \A p \in Batch(s) : Catalog[KindOf(s)][plan[s].body][p] \in EntriesOf(KindOf(s))
  BY <1>1, <1>2, TypesOfCatalogs DEF TypeInv, BodiesPublished
<1>4. \A p \in Batch(s) :
        Build(KindOf(s), Catalog[KindOf(s)][plan[s].body][p], uuids + 1) \in ObjectsOf(KindOf(s))
  BY <1>1, <1>3 DEF ObjectsOf
<1>5. ObjectsOf(KindOf(s)) \subseteq Object
  BY <1>1 DEF Object
<1> QED BY <1>3, <1>4, <1>5 DEF Bundle, Item

\* A step of one session's fetch.
LEMMA FetchStep ==
  ASSUME TypeInv, setup' = setup, revision' = revision, NEW s \in Session,
         pc' \in [Session -> Places], plan' \in [Session -> Plan],
         \A t \in Session \ {s} : pc'[t] = pc[t] /\ plan'[t] = plan[t],
         pc'[s] = "idle" => plan'[s] = NoPlan,
         pc'[s] \in {"emit", "wait", "save", "stamp"} =>
           /\ plan'[s].body \in DOMAIN Catalog[KindOf(s)] /\ plan'[s].body <= revision[KindOf(s)]
           /\ plan'[s].todo \subseteq ToEmit(KindOf(s), plan'[s].body),
         uuids' \in Nat, failures' \in 0 .. MaxFailures, purges' \in 0 .. MaxPurges
  PROVE  FetchTyped' /\ BodiesPublished'
<1>1. FetchTyped'
  BY DEF TypeInv, FetchTyped
<1>2. BodiesPublished'
  BY DEF TypeInv, BodiesPublished, HasBody, KindOf, Home
<1> QED BY <1>1, <1>2

\* A fetch that ends leaves no plan, and the other fetches alone.
LEMMA EndsStep ==
  ASSUME FetchTyped, NEW s \in Session, Ends(s)
  PROVE  /\ pc' \in [Session -> Places] /\ plan' \in [Session -> Plan]
         /\ pc'[s] \in {"idle", "unanswered"} /\ plan'[s] = NoPlan
         /\ \A t \in Session \ {s} : pc'[t] = pc[t] /\ plan'[t] = plan[t]
<1>1. NoPlan \in Plan
  BY DEF NoPlan, NoValue, Plan
<1> QED BY <1>1 DEF FetchTyped, Ends, Idle, Unanswered, Goto, Places

\* What an emit does: the fetch ends with it, or it is taken, with or without a transaction.
LEMMA EmitStep ==
  ASSUME NEW s \in Session, Emit(s)
  PROVE  LET valid == ValidItems(Bundle(s), AllowCustom[Home(s)]) IN
         /\ pc[s] = "emit" /\ ~tx[s].open
         /\ UNCHANGED <<setup, revision, failures, purges>>
         /\ uuids' \in {uuids, uuids + 1}
         /\ \/ Ends(s) /\ UNCHANGED storeVars
            \/ /\ plan' = [plan EXCEPT ![s].todo = @ \ Batch(s)]
               /\ \/ valid = {} /\ UNCHANGED <<storeVars, pc>>
                  \/ BeginIngest(s, valid) /\ Goto(s, "wait")
<1> DEFINE valid == ValidItems(Bundle(s), AllowCustom[Home(s)])
           size == FrameSize(KindOf(s), plan[s].body, Batch(s))
<1>1. /\ pc[s] = "emit" /\ ~tx[s].open
      /\ UNCHANGED <<setup, revision, failures, purges>>
      /\ \/ Ends(s) /\ UNCHANGED <<storeVars, uuids>>
         \/ /\ plan' = [plan EXCEPT ![s].todo = @ \ Batch(s)]
            /\ IF valid = {} THEN UNCHANGED <<storeVars, pc>>
               ELSE BeginIngest(s, valid) /\ Goto(s, "wait")
            /\ uuids' = IF KindOf(s) = "kev" THEN uuids + 1 ELSE uuids
  BY DEF Emit, Ends
<1> QED BY <1>1

\* A fetch moves on by itself.
LEMMA GotoStep ==
  ASSUME FetchTyped, NEW s \in Session, NEW to \in Places, Goto(s, to)
  PROVE  /\ pc' \in [Session -> Places] /\ pc'[s] = to
         /\ \A t \in Session \ {s} : pc'[t] = pc[t]
BY DEF FetchTyped, Goto

\* A step of one session's transaction.
LEMMA TxStep ==
  ASSUME TypeInv, UNCHANGED <<setup, saved, purge>>, NEW s \in Session,
         tx' \in [Session -> Tx], \A t \in Session \ {s} : tx'[t] = tx[t],
         \A i \in tx'[s].todo : i.obj \in ObjectsOf(KindOf(s)),
         \A o \in tx'[s].mine : o \in ObjectsOf(KindOf(s)),
         ~tx'[s].open => tx'[s] = NoTx,
         rows' \in SUBSET Row, \A r \in rows' : r.obj \in ObjectsOf(setup.kind[r.source])
  PROVE  StoreTyped' /\ KindsKept'
<1>1. StoreTyped'
  BY DEF TypeInv, StoreTyped
<1>2. \A t \in Session : KindOf(t)' = KindOf(t)
  BY DEF KindOf, Home
<1>3. KindsKept'
  BY <1>2 DEF TypeInv, KindsKept
<1> QED BY <1>1, <1>3

\* How an insert changes a transaction.
LEMMA InsertSteps ==
  ASSUME StoreTyped, NEW s \in Session, InsertRow(s) \/ SkipRow(s)
  PROVE  /\ tx' \in [Session -> Tx] /\ \A t \in Session \ {s} : tx'[t] = tx[t]
         /\ tx'[s].open = tx[s].open
         /\ \E i \in tx[s].todo :
              /\ tx'[s].todo = tx[s].todo \ {i}
              /\ \/ Insertable(s, i.obj) /\ tx'[s].mine = tx[s].mine \cup {i.obj}
                 \/ (Stored(i.obj) \/ Repeated(s, i.obj)) /\ tx'[s].mine = tx[s].mine
<1>1. tx \in [Session -> Tx] /\ NextItem(s) \subseteq tx[s].todo
  BY DEF StoreTyped, NextItem
<1>2. CASE InsertRow(s)
  <2>1. PICK i \in tx[s].todo :
          /\ Insertable(s, i.obj)
          /\ tx' = [tx EXCEPT ![s].todo = @ \ {i}, ![s].mine = @ \cup {i.obj}]
    BY <1>1, <1>2 DEF InsertRow
  <2>2. i.obj \in Object
    BY <1>1 DEF Tx, Item
  <2> QED BY <1>1, <2>1, <2>2 DEF Tx
<1>3. CASE SkipRow(s)
  <2>1. PICK i \in tx[s].todo :
          (Stored(i.obj) \/ Repeated(s, i.obj)) /\ tx' = [tx EXCEPT ![s].todo = @ \ {i}]
    BY <1>1, <1>3 DEF SkipRow
  <2> QED BY <1>1, <2>1 DEF Tx
<1> QED BY <1>2, <1>3

\* Before the first fetch every variable has its type.
LEMMA TypeInit == Init => TypeInv
<1> SUFFICES ASSUME Init PROVE TypeInv
  OBVIOUS
<1> USE DEF Init, StoreInit
<1>1. StoreTyped
  BY DEF StoreTyped, Tx, NoTx, Purge, NoPurge, NoValue
<1>2. FetchTyped
  BY CatalogAssumption DEF FetchTyped, Plan, NoPlan, NoValue, Places
<1>3. KindsKept /\ BodiesPublished
  BY DEF KindsKept, NoTx, BodiesPublished, HasBody
<1> QED BY <1>1, <1>2, <1>3 DEF TypeInv

\* Every step keeps the types.
LEMMA TypeKept ==
  ASSUME TypeInv, Next
  PROVE  TypeInv'
<1> USE DEF TypeInv
<1>k. UNCHANGED setup
  BY DEF Next, Fetch, Handler, ReadEtag, ReadLastModified, NotModified, Modified, Emit, SaveEtag,
         SaveLastModified, SaveStamp, ConnectorReplaced, Insert, Acked, TxFails, Interrupted,
         Publish, PurgeBegin, PurgeGoesOn, feedVars
<1>d. /\ \A s \in Session : Home(s) \in Instance /\ KindOf(s) \in Kind
      /\ \A s \in Session : Home(s)' = Home(s) /\ KindOf(s)' = KindOf(s)
      /\ \A k \in Kind : InstancesOf(k) \in SUBSET Instance
  BY <1>k, Deployed DEF FetchTyped, Home, KindOf
<1>1. ASSUME NEW s \in Session, Fetch(s)
      PROVE  TypeInv'
  <2>1. CASE ReadEtag(s) \/ ReadLastModified(s) \/ NotModified(s) \/ Modified(s)
             \/ ConnectorReplaced(s)
    <3>1. StoreTyped' /\ KindsKept'
      BY <2>1, <1>k, <1>d DEF ReadEtag, ReadLastModified, NotModified, Modified, ConnectorReplaced,
         storeVars, StoreTyped, KindsKept
    <3>2. CASE ReadEtag(s) \/ ReadLastModified(s)
      <4>1. /\ saved[Home(s)]["etag"] \in Nat /\ saved[Home(s)]["last_modified"] \in Nat
        BY <1>d, CatalogAssumption DEF StoreTyped, Validators
      <4>2. /\ plan' \in [Session -> Plan] /\ pc' \in [Session -> Places]
            /\ pc'[s] \in {"read", "request"}
            /\ \A t \in Session \ {s} : pc'[t] = pc[t] /\ plan'[t] = plan[t]
        <5>1. /\ plan' \in [Session -> Plan]
              /\ \A t \in Session \ {s} : plan'[t] = plan[t]
          BY <3>2, <4>1 DEF ReadEtag, ReadLastModified, FetchTyped, Plan
        <5>2. \E to \in {"read", "request"} : Goto(s, to)
          BY <3>2 DEF ReadEtag, ReadLastModified
        <5>3. /\ pc' \in [Session -> Places] /\ pc'[s] \in {"read", "request"}
              /\ \A t \in Session \ {s} : pc'[t] = pc[t]
          BY <5>2, GotoStep DEF Places
        <5> QED BY <5>1, <5>3
      <4>3. /\ revision' = revision
            /\ uuids' \in Nat /\ failures' \in 0 .. MaxFailures /\ purges' \in 0 .. MaxPurges
        BY <3>2 DEF ReadEtag, ReadLastModified, FetchTyped
      <4> QED BY <3>1, <4>2, <4>3, <1>k, FetchStep
    <3>3. CASE Ends(s) /\ (NotModified(s) \/ Modified(s) \/ ConnectorReplaced(s))
      <4>1. /\ revision' = revision
            /\ uuids' \in Nat /\ failures' \in 0 .. MaxFailures /\ purges' \in 0 .. MaxPurges
        BY <3>3 DEF NotModified, Modified, ConnectorReplaced, FetchTyped
      <4> QED BY <3>1, <3>3, <4>1, <1>k, EndsStep, FetchStep
    <3>4. CASE ~Ends(s) /\ Modified(s)
      <4> DEFINE k == KindOf(s)
      <4>1. /\ revision[k] \in DOMAIN Catalog[k] /\ revision[k] \in Nat
            /\ ToEmit(k, revision[k]) \in SUBSET Nat
        BY <1>d, TypesOfCatalogs DEF FetchTyped
      <4>2. /\ plan' = [plan EXCEPT ![s].body = revision[k], ![s].todo = ToEmit(k, revision[k])]
            /\ Goto(s, "emit")
            /\ revision' = revision
            /\ uuids' \in Nat /\ failures' \in 0 .. MaxFailures /\ purges' \in 0 .. MaxPurges
        BY <3>4 DEF Modified, Ends, FetchTyped
      <4>3. /\ plan' \in [Session -> Plan]
            /\ plan'[s].body = revision[k] /\ plan'[s].todo = ToEmit(k, revision[k])
            /\ \A t \in Session \ {s} : plan'[t] = plan[t]
        <5> HIDE DEF k
        <5> QED BY <4>1, <4>2 DEF FetchTyped, Plan
      <4>4. /\ pc' \in [Session -> Places] /\ pc'[s] = "emit"
            /\ \A t \in Session \ {s} : pc'[t] = pc[t]
        BY <4>2, GotoStep DEF Places
      <4> QED BY <3>1, <4>1, <4>2, <4>3, <4>4, <1>k, FetchStep
    <3> QED BY <2>1, <3>2, <3>3, <3>4 DEF NotModified, ConnectorReplaced, Ends
  <2>2. CASE Emit(s)
    <3> DEFINE valid == ValidItems(Bundle(s), AllowCustom[Home(s)])
    <3>1. \A i \in valid : i \in Item /\ i.obj \in ObjectsOf(KindOf(s))
      BY <2>2, EmitStep, BundleTyped DEF HasBody, ValidItems
    <3>2. StoreTyped' /\ KindsKept'
      <4>1. CASE UNCHANGED <<rows, saved, tx, purge>>
        BY <4>1, <1>k, <1>d DEF StoreTyped, KindsKept
      <4>2. CASE BeginIngest(s, valid)
        <5> DEFINE x == [open |-> TRUE, todo |-> valid, mine |-> {}]
        <5>1. x \in Tx
          BY <3>1 DEF Tx
        <5>2. /\ tx' \in [Session -> Tx] /\ tx'[s] = x /\ \A t \in Session \ {s} : tx'[t] = tx[t]
              /\ UNCHANGED <<rows, saved, purge>>
          BY <4>2, <5>1 DEF BeginIngest, StoreTyped
        <5> QED BY <3>1, <5>2, <1>k, TxStep DEF StoreTyped, KindsKept
      <4> QED BY <2>2, <4>1, <4>2, EmitStep DEF storeVars
    <3>3. /\ revision' = revision
          /\ uuids' \in Nat /\ failures' \in 0 .. MaxFailures /\ purges' \in 0 .. MaxPurges
      BY <2>2, EmitStep DEF FetchTyped
    <3>4. CASE Ends(s)
      BY <3>2, <3>3, <3>4, <1>k, EndsStep, FetchStep
    <3>5. CASE ~Ends(s)
      <4>1. /\ plan' = [plan EXCEPT ![s].todo = @ \ Batch(s)] /\ pc[s] = "emit"
            /\ Goto(s, "wait") \/ pc' = pc
        BY <2>2, <3>5, EmitStep
      <4>2. /\ plan' \in [Session -> Plan] /\ plan'[s].body = plan[s].body
            /\ plan'[s].todo \subseteq plan[s].todo
            /\ \A t \in Session \ {s} : plan'[t] = plan[t]
        BY <4>1 DEF FetchTyped, Plan
      <4>3. /\ pc' \in [Session -> Places] /\ pc'[s] \in {"emit", "wait"}
            /\ \A t \in Session \ {s} : pc'[t] = pc[t]
        BY <4>1, GotoStep DEF Places, FetchTyped
      <4>4. /\ plan[s].body \in DOMAIN Catalog[KindOf(s)] /\ plan[s].body <= revision[KindOf(s)]
            /\ plan[s].todo \subseteq ToEmit(KindOf(s), plan[s].body)
        BY <4>1 DEF BodiesPublished, HasBody
      <4>5. plan'[s].todo \subseteq ToEmit(KindOf(s), plan'[s].body)
        BY <4>2, <4>4
      <4> QED BY <3>2, <3>3, <4>2, <4>3, <4>4, <4>5, <1>k, FetchStep
    <3> QED BY <3>2, <3>4, <3>5
  <2>3. CASE SaveEtag(s) \/ SaveLastModified(s) \/ SaveStamp(s)
    <3>1. UNCHANGED <<rows, tx, purge, revision>>
      BY <2>3 DEF SaveEtag, SaveLastModified, SaveStamp, Save, SetValue, storeVars
    <3>2. saved' \in [Instance -> [Key -> Nat]]
      <4>1. plan[s].body \in Nat /\ Now \in Nat
        BY DEF FetchTyped, Plan, Now
      <4> QED
        BY <2>3, <4>1 DEF SaveEtag, SaveLastModified, SaveStamp, Save, SetValue, storeVars, StoreTyped
    <3>3. StoreTyped' /\ KindsKept'
      BY <3>1, <3>2, <1>k, <1>d DEF StoreTyped, KindsKept
    <3>4. uuids' \in Nat /\ failures' \in 0 .. MaxFailures /\ purges' \in 0 .. MaxPurges
      BY <2>3 DEF SaveEtag, SaveLastModified, SaveStamp, FetchTyped
    <3>5. CASE SaveStamp(s)
      <4>1. Ends(s)
        BY <3>5 DEF SaveStamp, Ends
      <4> QED BY <3>1, <3>3, <3>4, <4>1, <1>k, EndsStep, FetchStep
    <3>6. CASE SaveEtag(s) \/ SaveLastModified(s)
      <4>1. /\ plan' = plan /\ pc[s] \in {"emit", "save"}
            /\ Goto(s, "save") \/ Goto(s, "stamp")
        BY <3>6 DEF SaveEtag, SaveLastModified
      <4>2. /\ pc' \in [Session -> Places] /\ pc'[s] \in {"save", "stamp"}
            /\ \A t \in Session \ {s} : pc'[t] = pc[t]
        BY <4>1, GotoStep DEF Places
      <4>3. plan \in [Session -> Plan]
        BY DEF FetchTyped
      <4>4. /\ plan[s].body \in DOMAIN Catalog[KindOf(s)] /\ plan[s].body <= revision[KindOf(s)]
            /\ plan[s].todo \subseteq ToEmit(KindOf(s), plan[s].body)
        BY <4>1 DEF BodiesPublished, HasBody
      <4>5. FetchTyped' /\ BodiesPublished'
        BY <3>1, <3>4, <4>1, <4>2, <4>3, <4>4, <1>k, FetchStep
      <4> QED BY <3>3, <4>5
    <3> QED BY <2>3, <3>5, <3>6
  <2> QED BY <1>1, <2>1, <2>2, <2>3 DEF Fetch
<1>2. ASSUME NEW s \in Session, Insert(s)
      PROVE  TypeInv'
  <2>1. StoreTyped' /\ KindsKept'
    <3>1. UNCHANGED <<rows, saved, purge>>
      BY <1>2 DEF Insert, InsertRow, SkipRow
    <3>2. PICK i \in tx[s].todo :
            /\ tx'[s].todo = tx[s].todo \ {i}
            /\ tx'[s].mine \subseteq tx[s].mine \cup {i.obj}
      BY <1>2, InsertSteps DEF Insert
    <3>3. /\ tx' \in [Session -> Tx] /\ \A t \in Session \ {s} : tx'[t] = tx[t]
          /\ tx'[s].open = tx[s].open
      BY <1>2, InsertSteps DEF Insert
    <3>4. tx[s].open
      BY DEF KindsKept, NoTx
    <3>5. /\ \A j \in tx'[s].todo : j.obj \in ObjectsOf(KindOf(s))
          /\ \A o \in tx'[s].mine : o \in ObjectsOf(KindOf(s))
      BY <3>2 DEF KindsKept
    <3> QED BY <3>1, <3>3, <3>4, <3>5, <1>k, TxStep DEF StoreTyped, KindsKept
  <2>2. FetchTyped' /\ BodiesPublished'
    BY <1>2, <1>d DEF Insert, feedVars, FetchTyped, BodiesPublished, HasBody
  <2> QED BY <2>1, <2>2
<1>c. /\ NoTx \in Tx /\ NoTx.todo = {} /\ NoTx.mine = {}
  BY DEF NoTx, Tx
<1>3. ASSUME NEW s \in Session, Acked(s)
      PROVE  TypeInv'
  <2> DEFINE new == {[obj |-> o, source |-> Home(s)] : o \in tx[s].mine}
  <2>1. /\ rows' = rows \cup new /\ UNCHANGED <<saved, purge>>
        /\ tx' \in [Session -> Tx] /\ tx'[s] = NoTx /\ \A t \in Session \ {s} : tx'[t] = tx[t]
    BY <1>3, <1>c DEF Acked, Commit, StoreTyped
  <2>2. new \subseteq Row
    BY <1>d DEF Row, StoreTyped, Tx
  <2>3. \A r \in new : r.obj \in ObjectsOf(setup.kind[r.source])
    BY DEF KindsKept, KindOf
  <2>4. StoreTyped' /\ KindsKept'
    BY <2>1, <2>2, <2>3, <1>k, <1>c, TxStep DEF StoreTyped, KindsKept
  <2>5. /\ plan' = plan /\ plan \in [Session -> Plan] /\ revision' = revision
        /\ uuids' \in Nat /\ failures' \in 0 .. MaxFailures /\ purges' \in 0 .. MaxPurges
    BY <1>3 DEF Acked, FetchTyped
  <2>6. /\ pc' \in [Session -> Places]
        /\ \A t \in Session \ {s} : pc'[t] = pc[t]
        /\ pc'[s] = "idle" => pc[s] = "idle"
        /\ pc'[s] \in {"emit", "wait", "save", "stamp"} => HasBody(s)
    BY <1>3 DEF Acked, Goto, FetchTyped, Places, HasBody
  <2>7. FetchTyped' /\ BodiesPublished'
    BY <2>5, <2>6, <1>k, FetchStep DEF BodiesPublished, FetchTyped
  <2> QED BY <2>4, <2>7
<1>4. ASSUME NEW s \in Session, TxFails(s) \/ Interrupted(s)
      PROVE  TypeInv'
  <2>1. StoreTyped' /\ KindsKept'
    <3>1. CASE Interrupted(s)
      BY <3>1, <1>k, <1>d DEF Interrupted, storeVars, StoreTyped, KindsKept
    <3>2. CASE TxFails(s)
      <4>1. /\ UNCHANGED <<rows, saved, purge>>
            /\ tx' \in [Session -> Tx] /\ tx'[s] = NoTx /\ \A t \in Session \ {s} : tx'[t] = tx[t]
        BY <3>2, <1>c DEF TxFails, Rollback, StoreTyped
      <4> QED BY <4>1, <1>k, <1>c, TxStep DEF StoreTyped, KindsKept
    <3> QED BY <1>4, <3>1, <3>2
  <2>2. /\ failures' \in 0 .. MaxFailures /\ uuids' \in Nat /\ purges' \in 0 .. MaxPurges
        /\ revision' = revision
    BY <1>4, CatalogAssumption DEF TxFails, Interrupted, FetchTyped
  <2>3. FetchTyped' /\ BodiesPublished'
    <3>1. CASE Ends(s)
      BY <2>2, <3>1, <1>k, EndsStep, FetchStep
    <3>2. CASE UNCHANGED <<pc, plan>>
      BY <2>2, <3>2, <1>k, <1>d DEF FetchTyped, BodiesPublished, HasBody
    <3> QED BY <1>4, <3>1, <3>2 DEF TxFails, Interrupted, Ends
  <2> QED BY <2>1, <2>3
<1>5. ASSUME NEW k \in Kind, Publish(k)
      PROVE  TypeInv'
  <2>1. StoreTyped' /\ KindsKept'
    BY <1>5, <1>d DEF Publish, storeVars, StoreTyped, KindsKept
  <2>2. FetchTyped' /\ BodiesPublished'
    <3>1. /\ revision' \in [Kind -> Nat] /\ \A j \in Kind : revision'[j] \in DOMAIN Catalog[j]
          /\ \A j \in Kind : revision[j] <= revision'[j]
      BY <1>5 DEF Publish, FetchTyped
    <3>2. /\ FetchTyped'
      BY <1>5, <3>1 DEF Publish, FetchTyped
    <3>3. BodiesPublished'
      BY <1>5, <3>1, <1>d DEF Publish, FetchTyped, Plan, BodiesPublished, HasBody
    <3> QED BY <3>2, <3>3
  <2> QED BY <2>1, <2>2
<1>6. ASSUME NEW k \in Kind, PurgeBegin(k)
      PROVE  TypeInv'
  <2>1. StoreTyped' /\ KindsKept'
    BY <1>6, <1>d DEF PurgeBegin, PurgeState, StoreTyped, Purge, KindsKept
  <2>2. FetchTyped' /\ BodiesPublished'
    BY <1>6, <1>d, CatalogAssumption DEF PurgeBegin, FetchTyped, BodiesPublished, HasBody
  <2> QED BY <2>1, <2>2
<1>7. ASSUME PurgeGoesOn
      PROVE  TypeInv'
  <2>1. StoreTyped' /\ KindsKept'
    <3>1. rows' \in SUBSET Row /\ rows' \subseteq rows /\ tx' = tx
      BY <1>7 DEF PurgeGoesOn, PurgeObjects, PurgeCommit, StoreTyped
    <3>2. CASE PurgeObjects
      <4>1. /\ saved' = saved /\ {r \in rows : r.source \in purge.targets} \in SUBSET Row
            /\ purge' = [purge EXCEPT !.phase = "objects",
                                      !.doomed = {r \in rows : r.source \in purge.targets}]
        BY <3>2 DEF PurgeObjects, StoreTyped
      <4>2. purge' \in Purge
        <5> DEFINE doomed == {r \in rows : r.source \in purge.targets}
        <5> HIDE DEF doomed
        <5> QED BY <4>1 DEF StoreTyped, Purge, doomed
      <4> QED BY <3>1, <4>1, <4>2, <1>k, <1>d DEF StoreTyped, KindsKept
    <3>3. CASE PurgeCommit
      <4>1. purge' \in Purge
        BY <3>3 DEF PurgeCommit, NoPurge, Purge
      <4>2. saved' \in [Instance -> [Key -> Nat]]
        <5>1. \A i \in Instance, k \in Key : saved[i][k] \in Nat /\ NoValue \in Nat
          BY DEF StoreTyped, NoValue
        <5> QED BY <3>3, <5>1 DEF PurgeCommit
      <4> QED BY <3>1, <4>1, <4>2, <1>k, <1>d DEF StoreTyped, KindsKept
    <3> QED BY <1>7, <3>2, <3>3 DEF PurgeGoesOn
  <2>2. FetchTyped' /\ BodiesPublished'
    BY <1>7, <1>d DEF PurgeGoesOn, feedVars, FetchTyped, BodiesPublished, HasBody
  <2> QED BY <2>1, <2>2
<1> QED BY <1>1, <1>2, <1>3, <1>4, <1>5, <1>6, <1>7 DEF Next, Handler

\* The types hold in every state the sessions and the operator reach, an object of
\* one kind of catalog is never held or stored for another (connectors/kev/connector.py,
\* connectors/attack/connector.py), and a published revision keeps its body.
THEOREM TypesHold == Spec => []TypeInv
<1>1. ASSUME TypeInv, [Next]_vars
      PROVE  TypeInv'
  <2>1. CASE UNCHANGED vars
    BY <1>1, <2>1 DEF vars, storeVars, feedVars, TypeInv, StoreTyped, FetchTyped, KindsKept,
       BodiesPublished, HasBody, KindOf, Home
  <2> QED BY <1>1, <2>1, TypeKept
<1> QED BY TypeInit, <1>1, PTL DEF Spec

\* Every variable keeps its type, and no fetch leaves anything of its plan to the next
\* (connectors/kev/connector.py, connectors/attack/connector.py, fetch()).
THEOREM CatalogTypeCorrect == Spec => []CatalogTypeOK
<1>1. ASSUME TypeInv PROVE CatalogTypeOK
  <2>1. \A o \in Object : o.entry \in Entry
    BY ObjectsAreBuilt DEF Object
  <2>2. /\ \A r \in rows : r.obj.entry \in Entry /\ r.source \in Instance
        /\ saved \in [Instance -> [Key -> Nat]]
    BY <1>1, <2>1 DEF TypeInv, StoreTyped, Row
  <2>3. \A s \in Session : /\ tx[s].open \in BOOLEAN
                           /\ \A i \in tx[s].todo : i.obj.entry \in Entry
                           /\ \A o \in tx[s].mine : o.entry \in Entry
                           /\ ~tx[s].open => tx[s] = NoTx
    BY <1>1, <2>1 DEF TypeInv, StoreTyped, KindsKept, Tx, Item
  <2>4. purge.phase \in {"idle", "state", "objects"} /\ purge.targets \subseteq Instance
    BY <1>1 DEF TypeInv, StoreTyped, Purge
  <2>5. \A s \in Session : plan[s].todo \subseteq Nat
    BY <1>1 DEF TypeInv, FetchTyped, Plan
  <2> QED BY <1>1, <2>2, <2>3, <2>4, <2>5 DEF TypeInv, FetchTyped, CatalogTypeOK, Places
<1> QED BY <1>1, TypesHold, PTL

-----------------------------------------------------------------------------
(* Versions.                                                               *)

\* No two rows, committed or not, are the same version of an object.
VersionsInv ==
  /\ VersionsUnique
  /\ \A s \in Session : \A o \in tx[s].mine : \A r \in rows : ~SameKey(o, r.obj)
  /\ \A s, t \in Session : \A o \in tx[s].mine : \A p \in tx[t].mine :
       SameKey(o, p) => s = t /\ o = p

\* What a step may do to the two tables of rows.
RowStep ==
  \/ UNCHANGED <<rows, tx>>
  \/ \E s \in Session :
       \/ BeginIngest(s, ValidItems(Bundle(s), AllowCustom[Home(s)]))
       \/ InsertRow(s) \/ SkipRow(s) \/ Commit(s, Home(s)) \/ Rollback(s)
  \/ PurgeCommit

\* Every step changes rows and transactions in one of six ways, or not at all.
LEMMA StepsOfRows == Next => RowStep
<1> USE DEF RowStep, storeVars, feedVars
<1>1. ASSUME NEW s \in Session, Fetch(s)
      PROVE  RowStep
  <2>1. CASE ReadEtag(s) \/ ReadLastModified(s) \/ NotModified(s) \/ Modified(s)
             \/ ConnectorReplaced(s)
    BY <2>1 DEF ReadEtag, ReadLastModified, NotModified, Modified, ConnectorReplaced
  <2>2. CASE Emit(s)
    BY <2>2, EmitStep
  <2>3. CASE SaveEtag(s) \/ SaveLastModified(s) \/ SaveStamp(s)
    BY <2>3 DEF SaveEtag, SaveLastModified, SaveStamp, Save, SetValue
  <2> QED BY <1>1, <2>1, <2>2, <2>3 DEF Fetch
<1>2. ASSUME NEW s \in Session, Handler(s) \/ TxFails(s) \/ Interrupted(s)
      PROVE  RowStep
  BY <1>2 DEF Handler, Insert, Acked, TxFails, Interrupted
<1>3. ASSUME NEW k \in Kind, Publish(k) \/ PurgeBegin(k)
      PROVE  RowStep
  BY <1>3 DEF Publish, PurgeBegin, PurgeState
<1>4. ASSUME PurgeGoesOn
      PROVE  RowStep
  BY <1>4 DEF PurgeGoesOn, PurgeObjects
<1> QED BY <1>1, <1>2, <1>3, <1>4 DEF Next

\* None of them stores a second row under the same key.
LEMMA VersionsKept ==
  ASSUME StoreTyped, VersionsInv, RowStep
  PROVE  VersionsInv'
<1> USE DEF VersionsInv, VersionsUnique
<1>1. CASE UNCHANGED <<rows, tx>>
  BY <1>1 DEF StoreTyped, Tx
<1>2. ASSUME NEW s \in Session, BeginIngest(s, ValidItems(Bundle(s), AllowCustom[Home(s)]))
      PROVE  VersionsInv'
  BY <1>2 DEF BeginIngest, StoreTyped, Tx
<1>3. ASSUME NEW s \in Session, InsertRow(s)
      PROVE  VersionsInv'
  <2>1. PICK i \in NextItem(s) :
          /\ Insertable(s, i.obj)
          /\ tx' = [tx EXCEPT ![s].todo = @ \ {i}, ![s].mine = @ \cup {i.obj}]
          /\ rows' = rows
    BY <1>3 DEF InsertRow
  <2>2. /\ tx'[s].mine = tx[s].mine \cup {i.obj}
        /\ \A t \in Session \ {s} : tx'[t].mine = tx[t].mine
    BY <2>1 DEF StoreTyped, Tx
  <2>3. /\ \A r \in rows : ~SameKey(i.obj, r.obj) /\ ~SameKey(r.obj, i.obj)
        /\ \A p \in tx[s].mine : ~SameKey(i.obj, p) /\ ~SameKey(p, i.obj)
        /\ \A t \in Session \ {s} : \A p \in tx[t].mine :
             ~SameKey(i.obj, p) /\ ~SameKey(p, i.obj)
    BY <2>1 DEF Insertable, Stored, DeletedUncommitted, Repeated, Holders, SameKey
  <2>4. ASSUME NEW t \in Session, NEW o \in tx'[t].mine, NEW r \in rows
        PROVE  ~SameKey(o, r.obj)
    BY <2>2, <2>3, <2>4
  <2>5. \A t, u \in Session : \A o \in tx'[t].mine : \A p \in tx'[u].mine :
          SameKey(o, p) => t = u /\ o = p
    BY <2>2, <2>3
  <2> QED BY <2>1, <2>4, <2>5
<1>4. ASSUME NEW s \in Session, SkipRow(s)
      PROVE  VersionsInv'
  BY <1>4 DEF SkipRow, StoreTyped, Tx
<1>5. ASSUME NEW s \in Session, Commit(s, Home(s))
      PROVE  VersionsInv'
  <2>1. /\ tx'[s].mine = {}
        /\ \A t \in Session \ {s} : tx'[t].mine = tx[t].mine
        /\ rows' = rows \cup {[obj |-> o, source |-> Home(s)] : o \in tx[s].mine}
    BY <1>5 DEF Commit, NoTx, StoreTyped, Tx
  <2>2. \A o, p : SameKey(o, p) <=> SameKey(p, o)
    BY DEF SameKey
  <2>3. VersionsUnique'
    BY <2>1, <2>2
  <2>4. \A t \in Session : \A o \in tx'[t].mine : \A r \in rows' : ~SameKey(o, r.obj)
    BY <2>1, <2>2
  <2>5. \A t, u \in Session : \A o \in tx'[t].mine : \A p \in tx'[u].mine :
          SameKey(o, p) => t = u /\ o = p
    BY <2>1
  <2> QED BY <2>1, <2>3, <2>4, <2>5
<1>6. ASSUME NEW s \in Session, Rollback(s)
      PROVE  VersionsInv'
  BY <1>6 DEF Rollback, NoTx, StoreTyped, Tx
<1>7. CASE PurgeCommit
  BY <1>7 DEF PurgeCommit, StoreTyped, Tx
<1> QED BY <1>1, <1>2, <1>3, <1>4, <1>5, <1>6, <1>7 DEF RowStep

\* No two rows are the same version of one object, whatever the order in which the
\* sessions insert, commit, fail and wait for each other, and whenever a purge runs
\* (repositories.py 142-177, db/ingest.py).
THEOREM OneRowPerVersion == Spec => []VersionsUnique
<1>1. Init => VersionsInv
  BY DEF Init, StoreInit, NoTx, VersionsInv, VersionsUnique
<1>2. VersionsInv /\ TypeInv /\ [Next]_vars => VersionsInv'
  <2>1. Next => RowStep
    BY StepsOfRows
  <2>2. UNCHANGED vars => RowStep
    BY DEF vars, storeVars, RowStep
  <2> QED BY <2>1, <2>2, VersionsKept DEF TypeInv
<1>3. VersionsInv => VersionsUnique
  BY DEF VersionsInv
<1> QED BY <1>1, <1>2, <1>3, TypesHold, PTL DEF Spec

-----------------------------------------------------------------------------
(* Cursors, where the operator stops a connector before purging it.        *)

\* A purge has a kind of connector to itself: it has locked all that the kind's
\* instances have saved, and deletes only their rows.
PurgeAlone ==
  purge.phase # "idle" =>
    \E k \in Kind :
      /\ purge.targets = InstancesOf(k) /\ Quiet(k)
      /\ purge.locked \subseteq purge.targets \X Key
      /\ \A i \in purge.targets : \A key \in Key :
           saved[i][key] # NoValue => <<i, key>> \in purge.locked
      /\ \A r \in purge.doomed : r.source \in purge.targets

\* The entries in the transaction of a session.
Underway(s) == {i.obj.entry : i \in tx[s].todo} \cup {o.entry : o \in tx[s].mine}

\* The entries of its revision that a fetch has emitted, and the runtime accepts.
Emitted(s) ==
  {e \in {Catalog[KindOf(s)][plan[s].body][p] :
            p \in ToEmit(KindOf(s), plan[s].body) \ plan[s].todo} :
     Validates(Build(KindOf(s), e, 0), AllowCustom[Home(s)])}

\* They are stored, or in the transaction whose acknowledgement the fetch waits for.
EmittedIsSafe(s) ==
  HasBody(s) =>
    /\ Emitted(s) \subseteq IF pc[s] = "wait" THEN Held \cup Underway(s) ELSE Held
    /\ pc[s] = "wait" => tx[s].open
    /\ pc[s] \in {"save", "stamp"} => plan[s].todo = {}

CursorsName ==
  \A i \in Instance : \A key \in Validators :
    saved[i][key] # NoValue => saved[i][key] \in DOMAIN Catalog[setup.kind[i]]

CursorInv ==
  PurgeAlone /\ (\A s \in Session : EmittedIsSafe(s)) /\ CursorsName /\ CursorMeansStored

\* A step of a session leaves the others alone, and none is taken while its connector is
\* being purged.
LEMMA SessionStep ==
  ASSUME TypeInv, PurgeWhileFetching = FALSE, NEW s \in Session,
         Fetch(s) \/ Handler(s) \/ TxFails(s) \/ Interrupted(s)
  PROVE  /\ UNCHANGED <<setup, purge, revision>>
         /\ \A t \in Session \ {s} : pc'[t] = pc[t] /\ plan'[t] = plan[t] /\ tx'[t] = tx[t]
         /\ \A i \in Instance \ {Home(s)} : saved'[i] = saved[i]
         /\ pc[s] # "idle" \/ tx[s].open \/ ~BeingPurged(KindOf(s))
         /\ rows \subseteq rows'
<1> USE DEF TypeInv, StoreTyped, FetchTyped
<1>1. CASE ReadEtag(s) \/ ReadLastModified(s)
  BY <1>1 DEF ReadEtag, ReadLastModified, storeVars, Goto
<1>2. CASE NotModified(s) \/ Modified(s) \/ ConnectorReplaced(s)
  BY <1>2 DEF NotModified, Modified, ConnectorReplaced, storeVars, Idle, Goto
<1>3. CASE Emit(s)
  <2>1. /\ UNCHANGED <<setup, purge, revision, rows, saved>> /\ pc[s] = "emit"
        /\ \A t \in Session \ {s} : pc'[t] = pc[t] /\ plan'[t] = plan[t]
    BY <1>3, EmitStep DEF storeVars, BeginIngest, Ends, Idle, Unanswered, Goto
  <2>2. \A t \in Session \ {s} : tx'[t] = tx[t]
    BY <1>3, EmitStep DEF storeVars, BeginIngest
  <2> QED BY <2>1, <2>2
<1>4. CASE SaveEtag(s) \/ SaveLastModified(s)
  BY <1>4 DEF SaveEtag, SaveLastModified, Save, SetValue, storeVars, Goto
<1>5. CASE SaveStamp(s)
  BY <1>5 DEF SaveStamp, SetValue, Idle, Goto
<1>6. CASE Insert(s)
  <2>1. UNCHANGED <<setup, purge, revision, rows, saved, pc, plan>>
    BY <1>6 DEF Insert, InsertRow, SkipRow, feedVars
  <2>2. \A t \in Session \ {s} : tx'[t] = tx[t]
    BY <1>6, InsertSteps DEF Insert
  <2>3. tx[s].open
    BY <1>6, InsertSteps DEF Insert, KindsKept, NoTx
  <2> QED BY <2>1, <2>2, <2>3
<1>7. CASE Acked(s)
  BY <1>7 DEF Acked, Commit, Goto
<1>8. CASE TxFails(s) \/ Interrupted(s)
  BY <1>8 DEF TxFails, Interrupted, Rollback, storeVars, Idle, Unanswered, Goto
<1> QED BY <1>1, <1>2, <1>3, <1>4, <1>5, <1>6, <1>7, <1>8 DEF Fetch, Handler

\* No fetch starts for a kind that is being purged: the operator has stopped its connectors.
LEMMA PurgeStaysAlone ==
  ASSUME TypeInv, PurgeWhileFetching = FALSE, PurgeAlone, NEW s \in Session,
         Fetch(s) \/ Handler(s) \/ TxFails(s) \/ Interrupted(s)
  PROVE  PurgeAlone'
<1> SUFFICES ASSUME purge.phase # "idle"
             PROVE  PurgeAlone'
  BY SessionStep DEF PurgeAlone
<1>1. PICK k \in Kind :
        /\ purge.targets = InstancesOf(k) /\ Quiet(k)
        /\ purge.locked \subseteq purge.targets \X Key
        /\ \A i \in purge.targets : \A key \in Key :
             saved[i][key] # NoValue => <<i, key>> \in purge.locked
        /\ \A r \in purge.doomed : r.source \in purge.targets
  BY DEF PurgeAlone
<1>2. Home(s) \in Instance /\ KindOf(s) = setup.kind[Home(s)]
  BY Deployed DEF TypeInv, FetchTyped, KindOf
<1>3. KindOf(s) # k
  <2> SUFFICES ASSUME KindOf(s) = k PROVE FALSE
    OBVIOUS
  <2>1. pc[s] = "idle" /\ ~tx[s].open
    BY <1>1 DEF Quiet
  <2>2. Home(s) \in purge.targets \cap InstancesOf(k)
    BY <1>1, <1>2 DEF InstancesOf
  <2> QED BY <2>1, <2>2, SessionStep DEF BeingPurged
<1>4. Home(s) \notin purge.targets
  BY <1>1, <1>2, <1>3 DEF InstancesOf
<1>5. \A t \in Session : KindOf(t)' = KindOf(t)
  BY SessionStep DEF KindOf, Home
<1>6. Quiet(k)' /\ InstancesOf(k)' = InstancesOf(k)
  BY <1>1, <1>3, <1>5, SessionStep DEF Quiet, InstancesOf
<1>7. \A i \in purge.targets : saved'[i] = saved[i]
  BY <1>4, SessionStep DEF TypeInv, StoreTyped, Purge
<1> QED BY <1>1, <1>6, <1>7, SessionStep DEF PurgeAlone

\* What the steps of other sessions, of the server and of the operator's purge of other
\* connectors leave as it is.
LEMMA SafeWhenLeftAlone ==
  ASSUME NEW s \in Session, EmittedIsSafe(s), setup' = setup,
         pc'[s] = pc[s], plan'[s] = plan[s], tx'[s] = tx[s],
         HasBody(s) => \A e \in Emitted(s) : e \in Held => e \in Held'
  PROVE  EmittedIsSafe(s)'
<1>1. KindOf(s)' = KindOf(s) /\ Home(s)' = Home(s)
  BY DEF KindOf, Home
<1>2. Emitted(s)' = Emitted(s) /\ Underway(s)' = Underway(s) /\ HasBody(s)' = HasBody(s)
  BY <1>1 DEF Emitted, Underway, HasBody
<1> QED BY <1>2 DEF EmittedIsSafe, HasBody

\* A session's own step.
LEMMA SafeByOwnStep ==
  ASSUME TypeInv, PurgeWhileFetching = FALSE, NEW s \in Session, EmittedIsSafe(s),
         Fetch(s) \/ Handler(s) \/ TxFails(s) \/ Interrupted(s)
  PROVE  EmittedIsSafe(s)'
<1> DEFINE k == KindOf(s)
<1>1. /\ k \in Kind /\ Home(s) \in Instance
      /\ setup' = setup /\ KindOf(s)' = KindOf(s) /\ Home(s)' = Home(s)
      /\ Held \subseteq Held'
  BY Deployed, SessionStep DEF TypeInv, FetchTyped, KindOf, Home, Held
<1>2. CASE Ends(s)
  <2>1. pc'[s] \in {"idle", "unanswered"}
    BY <1>2, EndsStep DEF TypeInv
  <2> QED BY <2>1 DEF EmittedIsSafe, HasBody
<1>3. CASE ReadEtag(s) \/ ReadLastModified(s)
  <2>1. pc'[s] \in {"read", "request"}
    BY <1>3 DEF ReadEtag, ReadLastModified, Goto, TypeInv, FetchTyped
  <2> QED BY <2>1 DEF EmittedIsSafe, HasBody
<1>4. CASE ~Ends(s) /\ Modified(s)
  <2>1. /\ plan' = [plan EXCEPT ![s].body = revision[k], ![s].todo = ToEmit(k, revision[k])]
        /\ Goto(s, "emit")
    BY <1>4 DEF Modified, Ends
  <2>2. plan'[s].todo = ToEmit(k, plan'[s].body) /\ pc'[s] = "emit"
    <3> HIDE DEF k
    <3> QED BY <2>1 DEF TypeInv, FetchTyped, Plan, Goto
  <2>3. Emitted(s)' = {}
    BY <1>1, <2>2 DEF Emitted
  <2> QED BY <2>2, <2>3 DEF EmittedIsSafe
<1>5. CASE ~Ends(s) /\ Emit(s)
  <2> DEFINE valid == ValidItems(Bundle(s), AllowCustom[Home(s)])
  <2>1. /\ pc[s] = "emit" /\ ~tx[s].open
        /\ plan' = [plan EXCEPT ![s].todo = @ \ Batch(s)]
        /\ \/ valid = {} /\ pc' = pc
           \/ tx' = [tx EXCEPT ![s] = [open |-> TRUE, todo |-> valid, mine |-> {}]] /\ Goto(s, "wait")
    BY <1>5, EmitStep DEF BeginIngest
  <2>2. plan'[s].body = plan[s].body /\ plan'[s].todo = plan[s].todo \ Batch(s)
    BY <2>1 DEF TypeInv, FetchTyped, Plan
  <2>3. HasBody(s) /\ Emitted(s) \subseteq Held
    BY <2>1 DEF EmittedIsSafe, HasBody
  <2>4. ASSUME NEW e \in Emitted(s)', e \notin Emitted(s)
        PROVE  \E i \in valid : i.obj.entry = e
    <3>1. PICK p \in ToEmit(k, plan[s].body) \ plan'[s].todo :
            /\ e = Catalog[k][plan[s].body][p]
            /\ Validates(Build(k, e, 0), AllowCustom[Home(s)])
      BY <1>1, <2>2, <2>4 DEF Emitted
    <3>2. p \in Batch(s)
      BY <2>2, <2>4, <3>1 DEF Emitted
    <3> DEFINE i == [at |-> p, obj |-> Build(k, e, uuids + 1)]
    <3>3. i \in Bundle(s)
      BY <3>1, <3>2 DEF Bundle
    <3>4. Validates(i.obj, AllowCustom[Home(s)]) /\ i.obj.entry = e
      BY <3>1 DEF Validates, Build
    <3> QED BY <3>3, <3>4 DEF ValidItems
  <2>5. CASE valid = {} /\ pc' = pc
    <3>1. Emitted(s)' \subseteq Held' /\ pc'[s] = "emit"
      BY <1>1, <2>1, <2>3, <2>4, <2>5
    <3> QED BY <3>1 DEF EmittedIsSafe
  <2>6. CASE /\ tx' = [tx EXCEPT ![s] = [open |-> TRUE, todo |-> valid, mine |-> {}]]
             /\ Goto(s, "wait")
    <3>1. pc'[s] = "wait" /\ tx'[s].open /\ tx'[s].todo = valid
      BY <2>6 DEF Goto, TypeInv, FetchTyped, StoreTyped
    <3>2. Emitted(s)' \subseteq Held' \cup Underway(s)'
      BY <1>1, <2>3, <2>4, <3>1 DEF Underway
    <3> QED BY <3>1, <3>2 DEF EmittedIsSafe
  <2> QED BY <2>1, <2>5, <2>6
<1>6. CASE SaveEtag(s) \/ SaveLastModified(s)
  <2>1. /\ plan' = plan /\ plan[s].todo = {} /\ pc[s] \in {"emit", "save"}
        /\ pc'[s] \in {"save", "stamp"}
    BY <1>6 DEF SaveEtag, SaveLastModified, Goto, EmittedIsSafe, HasBody, TypeInv, FetchTyped
  <2>2. Emitted(s)' = Emitted(s) /\ Emitted(s) \subseteq Held
    BY <1>1, <2>1 DEF Emitted, EmittedIsSafe, HasBody
  <2> QED BY <1>1, <2>1, <2>2 DEF EmittedIsSafe
<1>7. CASE Insert(s)
  <2>1. pc' = pc /\ plan' = plan /\ rows' = rows
    BY <1>7 DEF Insert, InsertRow, SkipRow, feedVars
  <2>2. PICK i \in tx[s].todo :
          /\ tx'[s].todo = tx[s].todo \ {i}
          /\ \/ tx'[s].mine = tx[s].mine \cup {i.obj}
             \/ (Stored(i.obj) \/ Repeated(s, i.obj)) /\ tx'[s].mine = tx[s].mine
    BY <1>7, InsertSteps DEF Insert, TypeInv
  <2>3. tx'[s].open = tx[s].open
    BY <1>7, InsertSteps DEF Insert, TypeInv
  <2>4. i.obj \in ObjectsOf(k) /\ \A o \in tx[s].mine : o \in ObjectsOf(k)
    BY DEF TypeInv, KindsKept
  <2>5. i.obj.entry \in Held \cup Underway(s)'
    <3>1. CASE tx'[s].mine = tx[s].mine \cup {i.obj}
      BY <3>1 DEF Underway
    <3>2. CASE Stored(i.obj)
      <4>1. PICK r \in rows : SameKey(r.obj, i.obj)
        BY <3>2 DEF Stored
      <4>2. r.obj \in ObjectsOf(setup.kind[r.source]) /\ setup.kind[r.source] \in Kind
        BY Deployed DEF TypeInv, KindsKept, StoreTyped, FetchTyped, Row
      <4>3. r.obj.entry = i.obj.entry
        BY <1>1, <2>4, <4>1, <4>2, SameKeySameEntry
      <4> QED BY <4>3 DEF Held
    <3>3. CASE Repeated(s, i.obj) /\ tx'[s].mine = tx[s].mine
      <4>1. PICK o \in tx[s].mine : SameKey(o, i.obj)
        BY <3>3 DEF Repeated
      <4>2. o.entry = i.obj.entry
        BY <1>1, <2>4, <4>1, SameKeySameEntry
      <4> QED BY <3>3, <4>2 DEF Underway
    <3> QED BY <2>2, <3>1, <3>2, <3>3
  <2>6. Underway(s) \subseteq Held \cup Underway(s)'
    <3>1. ASSUME NEW j \in tx[s].todo
          PROVE  j.obj.entry \in Held \cup Underway(s)'
      BY <2>2, <2>5 DEF Underway
    <3>2. ASSUME NEW o \in tx[s].mine
          PROVE  o.entry \in Underway(s)'
      BY <2>2 DEF Underway
    <3> QED BY <3>1, <3>2 DEF Underway
  <2>7. Emitted(s)' = Emitted(s) /\ HasBody(s)' = HasBody(s) /\ Held' = Held
    BY <1>1, <2>1 DEF Emitted, HasBody, Held
  <2> QED BY <2>1, <2>3, <2>6, <2>7 DEF EmittedIsSafe
<1>8. CASE Acked(s)
  <2>1. /\ tx[s].todo = {} /\ plan' = plan
        /\ rows' = rows \cup {[obj |-> o, source |-> Home(s)] : o \in tx[s].mine}
        /\ IF pc[s] = "wait" THEN pc'[s] = "emit" ELSE pc'[s] = pc[s]
    BY <1>8 DEF Acked, Commit, Goto, TypeInv, FetchTyped
  <2>2. Held \cup Underway(s) \subseteq Held'
    <3>1. ASSUME NEW o \in tx[s].mine
          PROVE  o.entry \in Held'
      <4>1. [obj |-> o, source |-> Home(s)] \in rows'
        BY <2>1
      <4> QED BY <4>1 DEF Held
    <3> QED BY <1>1, <2>1, <3>1 DEF Underway
  <2>3. Emitted(s)' = Emitted(s)
    BY <1>1, <2>1 DEF Emitted
  <2> QED BY <2>1, <2>2, <2>3 DEF EmittedIsSafe, HasBody
<1>9. CASE UNCHANGED <<pc, plan>> /\ TxFails(s)
  <2>1. pc[s] # "wait"
    BY <1>9 DEF TxFails, Unanswered, Goto, TypeInv, FetchTyped
  <2>2. Emitted(s)' = Emitted(s)
    BY <1>1, <1>9 DEF Emitted
  <2> QED BY <1>1, <1>9, <2>1, <2>2 DEF EmittedIsSafe, HasBody
<1> QED
  BY <1>2, <1>3, <1>4, <1>5, <1>6, <1>7, <1>8, <1>9
  DEF Fetch, Handler, NotModified, SaveStamp, ConnectorReplaced, TxFails, Interrupted, Ends

\* connector_state changes only by an upsert of a fetch, or by a purge.
LEMMA SavedByFetch ==
  ASSUME TypeInv, NEW s \in Session,
         Fetch(s) \/ Handler(s) \/ TxFails(s) \/ Interrupted(s)
  PROVE  \/ saved' = saved
         \/ \E key \in Validators :
              /\ saved' = [saved EXCEPT ![Home(s)][key] = plan[s].body]
              /\ (pc[s] = "emit" /\ plan[s].todo = {}) \/ pc[s] = "save"
              /\ rows' = rows
         \/ SaveStamp(s)
<1> USE DEF storeVars
<1>1. CASE ReadEtag(s) \/ ReadLastModified(s) \/ NotModified(s) \/ Modified(s)
           \/ ConnectorReplaced(s)
  BY <1>1 DEF ReadEtag, ReadLastModified, NotModified, Modified, ConnectorReplaced
<1>2. CASE Emit(s)
  BY <1>2, EmitStep DEF BeginIngest
<1>3. CASE SaveEtag(s) \/ SaveLastModified(s)
  BY <1>3 DEF SaveEtag, SaveLastModified, Save, SetValue, Validators
<1>4. CASE Handler(s) \/ TxFails(s) \/ Interrupted(s)
  BY <1>4 DEF Handler, Insert, InsertRow, SkipRow, Acked, Commit, TxFails, Rollback, Interrupted
<1> QED BY <1>1, <1>2, <1>3, <1>4 DEF Fetch

\* A validator is written for a revision of which nothing is left to emit.
LEMMA SavedIsHeld ==
  ASSUME TypeInv, NEW s \in Session, EmittedIsSafe(s),
         (pc[s] = "emit" /\ plan[s].todo = {}) \/ pc[s] = "save"
  PROVE  /\ Deliverable(KindOf(s), Home(s), plan[s].body) \subseteq Held
         /\ plan[s].body \in 1 .. revision[KindOf(s)]
         /\ plan[s].body \in DOMAIN Catalog[KindOf(s)]
<1>1. HasBody(s) /\ plan[s].todo = {} /\ pc[s] # "wait"
  BY DEF HasBody, EmittedIsSafe
<1>2. Deliverable(KindOf(s), Home(s), plan[s].body) = Emitted(s)
  BY <1>1 DEF Deliverable, Emitted
<1>3. plan[s].body \in Nat /\ plan[s].body # 0 /\ KindOf(s) \in Kind
  BY <1>1, Deployed, TypesOfCatalogs DEF TypeInv, FetchTyped, BodiesPublished, NoValue
<1>4. /\ plan[s].body <= revision[KindOf(s)] /\ revision[KindOf(s)] \in Nat
      /\ plan[s].body \in DOMAIN Catalog[KindOf(s)]
  BY <1>1, <1>3 DEF TypeInv, FetchTyped, BodiesPublished
<1> QED BY <1>1, <1>2, <1>3, <1>4 DEF EmittedIsSafe

\* A step of a fetch leaves every kept validator with a meaning.
LEMMA CursorKeptByFetch ==
  ASSUME TypeInv, PurgeWhileFetching = FALSE, CursorInv, NEW s \in Session,
         Fetch(s) \/ Handler(s) \/ TxFails(s) \/ Interrupted(s)
  PROVE  CursorMeansStored' /\ CursorsName'
<1>1. setup' = setup /\ Held \subseteq Held' /\ Home(s) \in Instance
  BY SessionStep, Deployed DEF Held, TypeInv, FetchTyped
<1>2. CASE saved' = saved
  BY <1>1, <1>2 DEF CursorInv, CursorMeansStored, CursorsName
<1>3. ASSUME NEW key \in Validators,
             saved' = [saved EXCEPT ![Home(s)][key] = plan[s].body],
             (pc[s] = "emit" /\ plan[s].todo = {}) \/ pc[s] = "save"
      PROVE  CursorMeansStored' /\ CursorsName'
  <2>1. /\ Deliverable(setup.kind[Home(s)], Home(s), plan[s].body) \subseteq Held
        /\ plan[s].body \in DOMAIN Catalog[setup.kind[Home(s)]]
    BY <1>3, SavedIsHeld DEF CursorInv, KindOf
  <2>2. /\ saved'[Home(s)][key] = plan[s].body
        /\ \A i \in Instance, k \in Validators :
             i # Home(s) \/ k # key => saved'[i][k] = saved[i][k]
    BY <1>1, <1>3, CatalogAssumption DEF TypeInv, StoreTyped
  <2> QED BY <1>1, <2>1, <2>2 DEF CursorInv, CursorMeansStored, CursorsName
<1>4. CASE SaveStamp(s)
  <2>1. \A i \in Instance, k \in Validators : saved'[i][k] = saved[i][k]
    BY <1>1, <1>4, CatalogAssumption DEF SaveStamp, SetValue, TypeInv, StoreTyped, Validators
  <2> QED BY <1>1, <2>1 DEF CursorInv, CursorMeansStored, CursorsName
<1> QED BY <1>2, <1>3, <1>4, SavedByFetch

\* The commit of a purge takes rows and validators of one kind only, and all of the latter.
LEMMA PurgeTakesOneKind ==
  ASSUME TypeInv, PurgeAlone, PurgeCommit, setup' = setup
  PROVE  \E k \in Kind :
           /\ Quiet(k)
           /\ \A i \in Instance : saved'[i] = IF setup.kind[i] = k THEN [key \in Key |-> NoValue]
                                              ELSE saved[i]
           /\ \A j \in Kind : \A e \in EntriesOf(j) : j # k /\ e \in Held => e \in Held'
<1>1. PICK k \in Kind :
        /\ purge.targets = InstancesOf(k) /\ Quiet(k)
        /\ purge.locked \subseteq purge.targets \X Key
        /\ \A i \in purge.targets : \A key \in Key :
             saved[i][key] # NoValue => <<i, key>> \in purge.locked
        /\ \A r \in purge.doomed : r.source \in purge.targets
  BY DEF PurgeAlone, PurgeCommit
<1>2. ASSUME NEW i \in Instance
      PROVE  saved'[i] = IF setup.kind[i] = k THEN [key \in Key |-> NoValue] ELSE saved[i]
  <2>1. saved'[i] = [key \in Key |-> IF <<i, key>> \in purge.locked THEN NoValue ELSE saved[i][key]]
    BY DEF PurgeCommit
  <2>2. saved[i] \in [Key -> Nat]
    BY DEF TypeInv, StoreTyped
  <2>3. CASE setup.kind[i] = k
    <3>1. \A key \in Key : <<i, key>> \in purge.locked \/ saved[i][key] = NoValue
      BY <1>1, <2>3 DEF InstancesOf
    <3> QED BY <2>1, <2>3, <3>1
  <2>4. CASE setup.kind[i] # k
    <3>1. \A key \in Key : <<i, key>> \notin purge.locked
      BY <1>1, <2>4 DEF InstancesOf
    <3> QED BY <2>1, <2>2, <2>4, <3>1
  <2> QED BY <2>3, <2>4
<1>3. ASSUME NEW j \in Kind, NEW e \in EntriesOf(j), j # k, e \in Held
      PROVE  e \in Held'
  <2>1. PICK r \in rows : r.obj.entry = e
    BY <1>3 DEF Held
  <2>2. r.obj \in ObjectsOf(setup.kind[r.source]) /\ setup.kind[r.source] \in Kind
    BY Deployed DEF TypeInv, KindsKept, StoreTyped, FetchTyped, Row
  <2>3. setup.kind[r.source] = j
    BY <2>1, <2>2, ObjectsAreBuilt, KindsAreDisjoint
  <2>4. r \notin purge.doomed
    BY <1>1, <1>3, <2>3 DEF InstancesOf
  <2>5. r \in rows'
    BY <2>4 DEF PurgeCommit
  <2> QED BY <2>1, <2>5 DEF Held
<1> QED BY <1>1, <1>2, <1>3

\* What a validator stands for is made of entries of its own kind.
LEMMA EntriesDelivered ==
  ASSUME NEW k \in Kind, NEW i \in Instance, NEW v
  PROVE  v \in DOMAIN Catalog[k] => Deliverable(k, i, v) \subseteq EntriesOf(k)
BY TypesOfCatalogs DEF Deliverable

\* Every step, of a fetch, a purge or the publisher, leaves validators with a meaning.
LEMMA CursorKept ==
  ASSUME TypeInv, TypeInv', PurgeWhileFetching = FALSE, CursorInv, Next
  PROVE  CursorInv'
<1>1. ASSUME NEW s \in Session, Fetch(s) \/ Handler(s) \/ TxFails(s) \/ Interrupted(s)
      PROVE  CursorInv'
  <2>1. Held \subseteq Held'
    BY <1>1, SessionStep DEF Held
  <2>2. ASSUME NEW t \in Session \ {s}
        PROVE  EmittedIsSafe(t)'
    <3>1. pc'[t] = pc[t] /\ plan'[t] = plan[t] /\ tx'[t] = tx[t] /\ setup' = setup
      BY <1>1, SessionStep
    <3>2. EmittedIsSafe(t)
      BY DEF CursorInv
    <3> QED BY <2>1, <3>1, <3>2, SafeWhenLeftAlone
  <2>3. EmittedIsSafe(s)'
    BY <1>1, SafeByOwnStep DEF CursorInv
  <2>4. PurgeAlone'
    BY <1>1, PurgeStaysAlone DEF CursorInv
  <2>5. CursorMeansStored' /\ CursorsName'
    BY <1>1, CursorKeptByFetch
  <2> QED BY <2>2, <2>3, <2>4, <2>5 DEF CursorInv
<1>2. ASSUME NEW k \in Kind, Publish(k)
      PROVE  CursorInv'
  <2>1. UNCHANGED <<rows, saved, tx, purge, setup, pc, plan>>
    BY <1>2 DEF Publish, storeVars
  <2>2. Held' = Held
    BY <2>1 DEF Held
  <2>3. \A s \in Session : EmittedIsSafe(s)'
    BY <2>1, <2>2, SafeWhenLeftAlone DEF CursorInv
  <2>4. PurgeAlone'
    BY <2>1 DEF CursorInv, PurgeAlone, Quiet, InstancesOf, KindOf, Home
  <2>5. CursorMeansStored' /\ CursorsName'
    BY <2>1, <2>2 DEF CursorInv, CursorMeansStored, CursorsName
  <2> QED BY <2>3, <2>4, <2>5 DEF CursorInv
<1>3. ASSUME NEW k \in Kind, PurgeBegin(k)
      PROVE  CursorInv'
  <2>1. /\ UNCHANGED <<rows, saved, tx, setup, pc, plan>> /\ Quiet(k)
        /\ purge' = [phase |-> "state", targets |-> InstancesOf(k), doomed |-> {},
                     locked |-> {c \in InstancesOf(k) \X Key : saved[c[1]][c[2]] # NoValue}]
    BY <1>3 DEF PurgeBegin, PurgeState
  <2>2. Held' = Held
    BY <2>1 DEF Held
  <2>3. \A s \in Session : EmittedIsSafe(s)'
    BY <2>1, <2>2, SafeWhenLeftAlone DEF CursorInv
  <2>4. Quiet(k)' /\ InstancesOf(k)' = InstancesOf(k)
    BY <2>1 DEF Quiet, InstancesOf, KindOf, Home
  <2>5. /\ purge'.targets = InstancesOf(k) /\ purge'.doomed = {}
        /\ purge'.locked \subseteq InstancesOf(k) \X Key
        /\ \A i \in InstancesOf(k) : \A key \in Key :
             saved[i][key] # NoValue => <<i, key>> \in purge'.locked
    BY <2>1
  <2>6. PurgeAlone'
    BY <2>1, <2>4, <2>5 DEF PurgeAlone
  <2>7. CursorMeansStored' /\ CursorsName'
    BY <2>1, <2>2 DEF CursorInv, CursorMeansStored, CursorsName
  <2> QED BY <2>3, <2>6, <2>7 DEF CursorInv
<1>4. ASSUME PurgeObjects, UNCHANGED feedVars
      PROVE  CursorInv'
  <2>1. /\ UNCHANGED <<rows, saved, tx, setup, pc, plan>> /\ purge.phase # "idle"
        /\ purge'.targets = purge.targets /\ purge'.locked = purge.locked
        /\ \A r \in purge'.doomed : r.source \in purge.targets
    BY <1>4 DEF PurgeObjects, feedVars, TypeInv, StoreTyped, Purge
  <2>2. Held' = Held
    BY <2>1 DEF Held
  <2>3. \A s \in Session : EmittedIsSafe(s)'
    BY <2>1, <2>2, SafeWhenLeftAlone DEF CursorInv
  <2>4. \A k \in Kind : Quiet(k)' = Quiet(k) /\ InstancesOf(k)' = InstancesOf(k)
    BY <2>1 DEF Quiet, InstancesOf, KindOf, Home
  <2>5. PurgeAlone'
    BY <2>1, <2>4 DEF CursorInv, PurgeAlone
  <2>6. CursorMeansStored' /\ CursorsName'
    BY <2>1, <2>2 DEF CursorInv, CursorMeansStored, CursorsName
  <2> QED BY <2>3, <2>5, <2>6 DEF CursorInv
<1>5. ASSUME PurgeCommit, UNCHANGED feedVars
      PROVE  CursorInv'
  <2>1. UNCHANGED <<setup, pc, plan, tx>> /\ purge' = NoPurge
    BY <1>5 DEF PurgeCommit, feedVars
  <2>2. PICK k \in Kind :
          /\ Quiet(k)
          /\ \A i \in Instance : saved'[i] = IF setup.kind[i] = k THEN [key \in Key |-> NoValue]
                                             ELSE saved[i]
          /\ \A j \in Kind : \A e \in EntriesOf(j) : j # k /\ e \in Held => e \in Held'
    BY <1>5, <2>1, PurgeTakesOneKind DEF CursorInv
  <2>3. ASSUME NEW s \in Session
        PROVE  EmittedIsSafe(s)'
    <3>1. CASE ~HasBody(s)
      BY <2>1, <3>1 DEF EmittedIsSafe, HasBody
    <3>2. CASE HasBody(s)
      <4>1. KindOf(s) \in Kind /\ KindOf(s) # k
        BY <2>2, <3>2, Deployed DEF Quiet, HasBody, TypeInv, FetchTyped
      <4>2. Emitted(s) \subseteq EntriesOf(KindOf(s))
        BY <3>2, <4>1, TypesOfCatalogs DEF Emitted, TypeInv, BodiesPublished
      <4> QED BY <2>1, <2>2, <4>1, <4>2, SafeWhenLeftAlone DEF CursorInv
    <3> QED BY <3>1, <3>2
  <2>4. PurgeAlone'
    BY <2>1 DEF PurgeAlone, NoPurge
  <2>5. ASSUME NEW i \in Instance, NEW key \in Validators, saved'[i][key] # NoValue
        PROVE  /\ saved'[i][key] \in DOMAIN Catalog[setup.kind[i]]
               /\ Deliverable(setup.kind[i], i, saved'[i][key]) \subseteq Held'
    <3>1. setup.kind[i] \in Kind
      BY Deployed DEF TypeInv, FetchTyped
    <3>2. setup.kind[i] # k /\ saved'[i] = saved[i]
      BY <2>2, <2>5, CatalogAssumption
    <3>3. /\ saved[i][key] \in DOMAIN Catalog[setup.kind[i]]
          /\ Deliverable(setup.kind[i], i, saved[i][key]) \subseteq Held
      BY <2>5, <3>2 DEF CursorInv, CursorsName, CursorMeansStored
    <3>4. Deliverable(setup.kind[i], i, saved[i][key]) \subseteq EntriesOf(setup.kind[i])
      BY <3>1, <3>3, EntriesDelivered
    <3> QED BY <2>2, <3>1, <3>2, <3>3, <3>4
  <2>6. CursorMeansStored' /\ CursorsName'
    BY <2>1, <2>5 DEF CursorMeansStored, CursorsName
  <2> QED BY <2>3, <2>4, <2>6 DEF CursorInv
<1> QED BY <1>1, <1>2, <1>3, <1>4, <1>5 DEF Next, PurgeGoesOn

\* No validator is kept at first.
LEMMA CursorInit == Init => CursorInv
<1> SUFFICES ASSUME Init PROVE CursorInv
  OBVIOUS
<1>1. \A i \in Instance, key \in Validators : saved[i][key] = NoValue
  BY CatalogAssumption DEF Init, StoreInit
<1> QED BY <1>1 DEF Init, StoreInit, NoPurge, CursorInv, PurgeAlone, EmittedIsSafe, HasBody, CursorsName,
           CursorMeansStored

\* The invariant behind the validators holds for an operator who stops a connector
\* before purging it (kev fetch() 96-158, attack fetch() 100-163, db/ingest.py).
THEOREM CursorInvariance == ASSUME PurgeWhileFetching = FALSE PROVE Spec => [](TypeInv /\ CursorInv)
<1>1. TypeInv /\ TypeInv' /\ CursorInv /\ [Next]_vars => CursorInv'
  <2> SUFFICES ASSUME TypeInv, TypeInv', CursorInv, [Next]_vars
               PROVE  CursorInv'
    OBVIOUS
  <2>1. CASE UNCHANGED vars
    <3>1. UNCHANGED <<rows, saved, tx, purge, setup, pc, plan>>
      BY <2>1 DEF vars, storeVars, feedVars
    <3>2. Held' = Held
      BY <3>1 DEF Held
    <3>3. \A s \in Session : EmittedIsSafe(s)'
      BY <3>1, <3>2, SafeWhenLeftAlone DEF CursorInv
    <3>4. PurgeAlone'
      BY <3>1 DEF CursorInv, PurgeAlone, Quiet, InstancesOf, KindOf, Home
    <3>5. CursorMeansStored' /\ CursorsName'
      BY <3>1, <3>2 DEF CursorInv, CursorMeansStored, CursorsName
    <3> QED BY <3>3, <3>4, <3>5 DEF CursorInv
  <2> QED BY <2>1, CursorKept
<1> QED BY <1>1, CursorInit, TypesHold, PTL DEF Spec

\* As long as only stopped connectors are purged, a validator in connector_state means
\* that all of the revision it names has been ingested, so a 304 for it loses nothing
\* (kev fetch() 96-158, attack fetch() 100-163).
THEOREM CursorNamesWhatIsStored ==
  ASSUME PurgeWhileFetching = FALSE PROVE Spec => []CursorMeansStored
<1>1. CursorInv => CursorMeansStored
  BY DEF CursorInv
<1> QED BY <1>1, CursorInvariance, PTL

-----------------------------------------------------------------------------
(* The contract.                                                           *)

ContractUnchanged == setup.kind' = setup.kind /\ revision' = revision /\ Held' = Held /\ cursors' = cursors

\* A step of a fetch is a step of the contract, or none.
LEMMA ContractByFetch ==
  ASSUME TypeInv, TypeInv', PurgeWhileFetching = FALSE, CursorInv, NEW s \in Session,
         Fetch(s) \/ Handler(s) \/ TxFails(s) \/ Interrupted(s)
  PROVE  Contract!Next \/ ContractUnchanged
<1>1. setup' = setup /\ revision' = revision /\ Held \subseteq Held' /\ Home(s) \in Instance
  BY SessionStep, Deployed DEF Held, TypeInv, FetchTyped
<1>2. CASE \A i \in Instance : \A key \in Validators : saved'[i][key] = saved[i][key]
  <2>1. cursors' = cursors
    BY <1>2 DEF cursors
  <2>2. Held' \subseteq Entry
    <3>1. \A o \in Object : o.entry \in Entry
      BY ObjectsAreBuilt DEF Object
    <3>2. \A r \in rows' : r.obj \in Object
      BY DEF TypeInv, StoreTyped, Row
    <3> QED BY <3>1, <3>2 DEF Held
  <2>3. Contract!Deliver
    BY <1>1, <2>1, <2>2 DEF Contract!Deliver
  <2> QED BY <2>3 DEF Contract!Next
<1>3. ASSUME NEW key \in Validators,
             saved' = [saved EXCEPT ![Home(s)][key] = plan[s].body], rows' = rows,
             (pc[s] = "emit" /\ plan[s].todo = {}) \/ pc[s] = "save"
      PROVE  Contract!Next
  <2>1. /\ Deliverable(setup.kind[Home(s)], Home(s), plan[s].body) \subseteq Held
        /\ plan[s].body \in 1 .. revision[setup.kind[Home(s)]]
    BY <1>3, SavedIsHeld DEF CursorInv, KindOf
  <2>2. /\ saved'[Home(s)][key] = plan[s].body
        /\ \A i \in Instance, k \in Validators :
             i # Home(s) \/ k # key => saved'[i][k] = saved[i][k]
    BY <1>1, <1>3, CatalogAssumption DEF TypeInv, StoreTyped
  <2>3. cursors' = [cursors EXCEPT ![Home(s)][key] = plan[s].body]
    <3>1. \A i \in Instance \ {Home(s)} : cursors'[i] = cursors[i]
      BY <2>2 DEF cursors
    <3>2. cursors'[Home(s)] = [cursors[Home(s)] EXCEPT ![key] = plan[s].body]
      BY <1>1, <2>2 DEF cursors
    <3> QED BY <1>1, <3>1, <3>2 DEF cursors
  <2>4. Held' = Held
    BY <1>3 DEF Held
  <2>5. Contract!Advance(Home(s), key)
    BY <1>1, <2>1, <2>3, <2>4 DEF Contract!Advance
  <2> QED BY <1>1, <2>5 DEF Contract!Next
<1>4. CASE SaveStamp(s)
  <2>1. \A i \in Instance, k \in Validators : saved'[i][k] = saved[i][k]
    BY <1>1, <1>4, CatalogAssumption DEF SaveStamp, SetValue, TypeInv, StoreTyped, Validators
  <2> QED BY <1>2, <2>1
<1> QED BY <1>2, <1>3, <1>4, SavedByFetch

\* The commit of a purge is a step of the contract.
LEMMA ContractByPurge ==
  ASSUME TypeInv, CursorInv, CursorInv', PurgeCommit, UNCHANGED feedVars
  PROVE  Contract!Next
<1>1. setup' = setup /\ revision' = revision /\ Held' \subseteq Held
  BY DEF feedVars, PurgeCommit, Held
<1>2. PICK k \in Kind :
        \A i \in Instance : saved'[i] = IF setup.kind[i] = k THEN [key \in Key |-> NoValue]
                                        ELSE saved[i]
  BY <1>1, PurgeTakesOneKind DEF CursorInv
<1>3. cursors' = [i \in Instance |-> IF setup.kind[i] = k THEN [key \in Validators |-> NoValue]
                                     ELSE cursors[i]]
  BY <1>2, CatalogAssumption DEF cursors
<1>4. \A i \in Instance : \A key \in Validators :
        cursors'[i][key] # NoValue => Deliverable(setup.kind[i], i, cursors'[i][key]) \subseteq Held'
  BY <1>1 DEF CursorInv, CursorMeansStored, cursors
<1>5. Contract!Forget(k)
  BY <1>1, <1>3, <1>4 DEF Contract!Forget
<1> QED BY <1>5 DEF Contract!Next

\* Ingesting catalogs, with interruptions, failed transactions and retries anywhere, and
\* purges of stopped connectors, implements the contract of FeedContract.
THEOREM ImplementsFeedContract ==
  ASSUME PurgeWhileFetching = FALSE PROVE Spec => KeepsFeedContract
<1>1. Init => Contract!Init
  <2> SUFFICES ASSUME Init PROVE Contract!Init
    OBVIOUS
  <2>1. setup.kind \in [Instance -> Kind]
    BY CatalogAssumption DEF Init
  <2>2. Held = {}
    BY DEF Init, StoreInit, Held
  <2>3. cursors = [i \in Instance |-> [key \in Validators |-> NoValue]]
    BY CatalogAssumption DEF Init, StoreInit, cursors
  <2> QED BY <2>1, <2>2, <2>3 DEF Init, Contract!Init
<1>2. ASSUME TypeInv, TypeInv', CursorInv, CursorInv', Next
      PROVE  Contract!Next \/ ContractUnchanged
  <2>1. ASSUME NEW s \in Session, Fetch(s) \/ Handler(s) \/ TxFails(s) \/ Interrupted(s)
        PROVE  Contract!Next \/ ContractUnchanged
    BY <1>2, <2>1, ContractByFetch
  <2>2. ASSUME NEW k \in Kind, Publish(k)
        PROVE  Contract!Next
    <3>1. Contract!Publish(k)
      BY <2>2 DEF Publish, storeVars, Contract!Publish, Held, cursors
    <3> QED BY <3>1 DEF Contract!Next
  <2>3. CASE (PurgeObjects /\ UNCHANGED feedVars) \/ \E k \in Kind : PurgeBegin(k)
    BY <2>3 DEF PurgeObjects, PurgeBegin, PurgeState, feedVars, ContractUnchanged, Held, cursors
  <2>4. CASE PurgeCommit /\ UNCHANGED feedVars
    BY <1>2, <2>4, ContractByPurge
  <2> QED BY <1>2, <2>1, <2>2, <2>3, <2>4 DEF Next, PurgeGoesOn
<1>3. UNCHANGED vars => ContractUnchanged
  BY DEF vars, storeVars, feedVars, ContractUnchanged, Held, cursors
<1>4. ContractUnchanged => UNCHANGED <<setup.kind, revision, Held, cursors>>
  BY DEF ContractUnchanged
<1> QED BY <1>1, <1>2, <1>3, <1>4, CursorInvariance, PTL DEF Spec, KeepsFeedContract, Contract!Spec,
           Contract!vars

-----------------------------------------------------------------------------
(* Counts.                                                                 *)

Finite == IsFiniteSet(rows) /\ \A s \in Session : IsFiniteSet(tx[s].mine)

\* A commit makes one new row of each object inserted.
LEMMA CommitAdds ==
  ASSUME Finite, VersionsInv, NEW s \in Session, Commit(s, Home(s))
  PROVE  RowsAdded(Accepted(s)) /\ IsFiniteSet(rows')
<1> DEFINE new == {[obj |-> o, source |-> Home(s)] : o \in tx[s].mine}
           f == [o \in tx[s].mine |-> [obj |-> o, source |-> Home(s)]]
<1>1. rows' = rows \cup new
  BY DEF Commit
<1>2. f \in Bijection(tx[s].mine, new)
  BY DEF Bijection, Injection, Surjection, IsInjective
<1>3. ExistsBijection(tx[s].mine, new)
  BY <1>2 DEF ExistsBijection
<1> HIDE DEF f
<1>4. rows \cap new = {}
  <2>1. ASSUME NEW r \in rows, NEW o \in tx[s].mine, r = [obj |-> o, source |-> Home(s)]
        PROVE  FALSE
    <3>1. SameKey(o, r.obj)
      BY <2>1 DEF SameKey
    <3> QED BY <3>1 DEF VersionsInv
  <2> QED BY <2>1
<1> HIDE DEF new
<1>5. IsFiniteSet(new) /\ Cardinality(new) = Cardinality(tx[s].mine)
  BY <1>3, FS_Bijection DEF Finite
<1>6. /\ IsFiniteSet(rows \cup new)
      /\ Cardinality(rows \cup new) = Cardinality(rows) + Cardinality(new) - Cardinality(rows \cap new)
  BY <1>5, FS_Union DEF Finite
<1>7. Cardinality(rows \cap new) = 0 /\ Cardinality(rows) \in Nat /\ Cardinality(new) \in Nat
  BY <1>4, <1>5, FS_EmptySet, FS_CardinalityType DEF Finite
<1> QED BY <1>1, <1>5, <1>6, <1>7 DEF RowsAdded, Accepted

\* No step makes infinitely many rows.
LEMMA FiniteKept ==
  ASSUME StoreTyped, Finite, VersionsInv, RowStep
  PROVE  Finite'
<1>1. CASE UNCHANGED <<rows, tx>>
  BY <1>1 DEF Finite
<1>2. ASSUME NEW s \in Session, BeginIngest(s, ValidItems(Bundle(s), AllowCustom[Home(s)]))
      PROVE  Finite'
  <2>1. rows' = rows /\ tx'[s].mine = {} /\ \A t \in Session \ {s} : tx'[t] = tx[t]
    BY <1>2 DEF BeginIngest, StoreTyped
  <2> QED BY <2>1, FS_EmptySet DEF Finite
<1>3. ASSUME NEW s \in Session, InsertRow(s) \/ SkipRow(s)
      PROVE  Finite'
  <2>1. PICK i \in tx[s].todo :
          tx'[s].mine = tx[s].mine \cup {i.obj} \/ tx'[s].mine = tx[s].mine
    BY <1>3, InsertSteps
  <2>2. rows' = rows /\ \A t \in Session \ {s} : tx'[t] = tx[t]
    BY <1>3, InsertSteps DEF InsertRow, SkipRow
  <2>3. IsFiniteSet(tx[s].mine) /\ IsFiniteSet(tx[s].mine \cup {i.obj})
    BY FS_AddElement DEF Finite
  <2>4. IsFiniteSet(tx'[s].mine)
    BY <2>1, <2>3
  <2> QED BY <2>2, <2>4 DEF Finite
<1>4. ASSUME NEW s \in Session, Commit(s, Home(s))
      PROVE  Finite'
  <2>1. tx'[s].mine = {} /\ \A t \in Session \ {s} : tx'[t] = tx[t]
    BY <1>4 DEF Commit, NoTx, StoreTyped
  <2> QED BY <1>4, <2>1, CommitAdds, FS_EmptySet DEF Finite
<1>5. ASSUME NEW s \in Session, Rollback(s)
      PROVE  Finite'
  <2>1. rows' = rows /\ tx'[s].mine = {} /\ \A t \in Session \ {s} : tx'[t] = tx[t]
    BY <1>5 DEF Rollback, NoTx, StoreTyped
  <2> QED BY <2>1, FS_EmptySet DEF Finite
<1>6. CASE PurgeCommit
  <2>1. tx' = tx /\ rows' \in SUBSET rows
    BY <1>6 DEF PurgeCommit
  <2> QED BY <2>1, FS_Subset DEF Finite
<1> QED BY <1>1, <1>2, <1>3, <1>4, <1>5, <1>6 DEF RowStep

\* The tables stay finite and free of duplicates, which makes counting rows meaningful
\* (repositories.py 142-177, db/ingest.py).
THEOREM RowsAreFinite == Spec => [](TypeInv /\ VersionsInv /\ Finite)
<1>1. Init => VersionsInv /\ Finite
  BY FS_EmptySet DEF Init, StoreInit, NoTx, VersionsInv, VersionsUnique, Finite
<1>2. TypeInv /\ VersionsInv /\ Finite /\ [Next]_vars => (VersionsInv /\ Finite)'
  <2>1. Next => RowStep
    BY StepsOfRows
  <2>2. UNCHANGED vars => RowStep
    BY DEF vars, storeVars, RowStep
  <2> QED BY <2>1, <2>2, VersionsKept, FiniteKept DEF TypeInv
<1> QED BY <1>1, <1>2, TypesHold, PTL DEF Spec

\* The step that acknowledges a bundle has added as many rows as it reports, and rows are
\* added in no other way (db/ingest.py, one transaction and one pair of counts per bundle).
THEOREM AcknowledgedAreCommitted == Spec => AckCountsCommit
<1> DEFINE Counted == /\ \A s \in Session : pc[s] = "wait" /\ pc'[s] = "emit" => RowsAdded(Accepted(s))
                      /\ \/ rows' \subseteq rows
                         \/ \E s \in Session : tx[s].open /\ ~tx'[s].open /\ RowsAdded(Accepted(s))
<1>1. ASSUME TypeInv, VersionsInv, Finite, Next
      PROVE  Counted
  <2>1. ASSUME NEW s \in Session, pc[s] = "wait", pc'[s] = "emit"
        PROVE  RowsAdded(Accepted(s))
    <3>1. Acked(s)
      <4>1. CASE \E t \in Session : Fetch(t)
        BY <1>1, <2>1, <4>1, EmitStep DEF Fetch, ReadEtag, ReadLastModified, NotModified, Modified,
           SaveEtag, SaveLastModified, SaveStamp, ConnectorReplaced, Ends, Idle, Unanswered, Goto,
           TypeInv, FetchTyped
      <4>2. CASE \E t \in Session : Handler(t) \/ TxFails(t) \/ Interrupted(t)
        BY <1>1, <2>1, <4>2 DEF Handler, Insert, Acked, TxFails, Interrupted, Idle, Unanswered,
           Goto, feedVars, TypeInv, FetchTyped
      <4>3. CASE PurgeGoesOn \/ \E k \in Kind : Publish(k) \/ PurgeBegin(k)
        BY <2>1, <4>3 DEF PurgeGoesOn, Publish, PurgeBegin, feedVars
      <4> QED BY <1>1, <4>1, <4>2, <4>3 DEF Next
    <3> QED BY <1>1, <3>1, CommitAdds DEF Acked
  <2>2. \/ rows' \subseteq rows
        \/ \E s \in Session : tx[s].open /\ ~tx'[s].open /\ RowsAdded(Accepted(s))
    <3>1. CASE \E s \in Session : Commit(s, Home(s))
      <4>1. PICK s \in Session : Commit(s, Home(s))
        BY <3>1
      <4>2. tx[s].open /\ ~tx'[s].open
        BY <1>1, <4>1 DEF Commit, NoTx, TypeInv, StoreTyped
      <4> QED BY <1>1, <4>1, <4>2, CommitAdds
    <3>2. CASE ~\E s \in Session : Commit(s, Home(s))
      BY <1>1, <3>2, StepsOfRows DEF RowStep, BeginIngest, InsertRow, SkipRow, Rollback, PurgeCommit
    <3> QED BY <3>1, <3>2
  <2> QED BY <2>1, <2>2
<1>4. TypeInv /\ VersionsInv /\ Finite /\ [Next]_vars => [Counted]_vars
  BY <1>1
<1>2. TypeInv /\ VersionsInv /\ Finite /\ [Next]_vars => [Counted]_vars
  BY <1>1
<1> QED BY <1>2, RowsAreFinite, PTL DEF Spec, AckCountsCommit

-----------------------------------------------------------------------------
(* Readers.                                                                *)

\* Any of finitely many rows of one object can be newest only by itself, and one is.
LEMMA NewestExists ==
  ASSUME Finite, VersionsUnique, NEW id, NEW first \in rows, first.obj.id = id,
         \A r \in rows : r.obj.id = id => r.obj.modified \in Nat
  PROVE  \E r \in rows : Newest(id) = {r} /\ r.obj.modified >= first.obj.modified
<1> DEFINE versions == {r \in rows : r.obj.id = id}
           newer(r) == {q \in versions : q.obj.modified > r.obj.modified}
           T == {newer(r) : r \in versions}
<1>1. T \subseteq FiniteSubsetsOf(rows) /\ T # {}
  <2>1. \A x \in T : x \in SUBSET rows
    OBVIOUS
  <2>2. SUBSET rows = FiniteSubsetsOf(rows)
    BY FS_FiniteSubsetsOfFinite DEF Finite
  <2>3. newer(first) \in T
    OBVIOUS
  <2> HIDE DEF T, newer
  <2> QED BY <2>1, <2>2, <2>3
<1>2. \E x \in T : \A y \in T : ~(<<y, x>> \in StrictSubsetOrdering(rows))
  <2> HIDE DEF T
  <2> QED BY <1>1, FS_StrictSubsetOrderingWellFounded, WFMin
<1>3. PICK r \in versions : \A q \in versions : <<newer(q), newer(r)>> \notin StrictSubsetOrdering(rows)
  BY <1>2
<1>4. ASSUME NEW q \in versions, q.obj.modified > r.obj.modified
      PROVE  FALSE
  <2>1. newer(q) \subseteq newer(r) /\ q \in newer(r) /\ q \notin newer(q)
    BY <1>4
  <2>2. <<newer(q), newer(r)>> \in StrictSubsetOrdering(rows)
    BY <2>1 DEF StrictSubsetOrdering
  <2> QED BY <1>3, <2>2
<1>5. \A q \in versions : q.obj.modified <= r.obj.modified
  BY <1>4
<1>6. \A q \in versions : q.obj.modified = r.obj.modified => q = r
  BY DEF VersionsUnique, SameKey
<1>7. Newest(id) = {r}
  BY <1>5, <1>6 DEF Newest
<1> QED BY <1>5, <1>7

\* Once a validator is kept, a reader gets exactly one row for each ATT&CK object of that
\* revision, never older than the revision has it (api/repositories get_object()).
THEOREM ReadersAreUpToDate ==
  ASSUME PurgeWhileFetching = FALSE PROVE Spec => []ReadersSeeTheCatalog
<1>1. ASSUME TypeInv, CursorInv, VersionsInv, Finite,
             NEW i \in Instance, setup.kind[i] = "attack", saved[i]["etag"] # NoValue,
             NEW e \in Deliverable("attack", i, saved[i]["etag"])
      PROVE  \E r \in rows : Newest(<<e.name>>) = {r} /\ r.obj.modified >= e.modified
  <2>1. "attack" \in Kind
    BY <1>1, Deployed DEF TypeInv, FetchTyped
  <2>2. e \in Held /\ saved[i]["etag"] \in DOMAIN Catalog["attack"]
    BY <1>1 DEF CursorInv, CursorMeansStored, CursorsName, Validators
  <2>3. e \in EntriesOf("attack")
    BY <1>1, <2>1, <2>2, EntriesDelivered
  <2>4. \A r \in rows : r.obj \in ObjectsOf(setup.kind[r.source]) /\ setup.kind[r.source] \in Kind
    BY <1>1, Deployed DEF TypeInv, KindsKept, StoreTyped, FetchTyped, Row
  <2>5. PICK first \in rows : first.obj.entry = e
    BY <2>2 DEF Held
  <2>6. setup.kind[first.source] = "attack"
    BY <2>1, <2>3, <2>4, <2>5, ObjectsAreBuilt, KindsAreDisjoint
  <2>7. first.obj.id = <<e.name>> /\ first.obj.modified = e.modified
    <3>1. PICK d \in EntriesOf("attack"), n \in Nat : first.obj = Build("attack", d, n)
      BY <2>4, <2>6 DEF ObjectsOf
    <3> QED BY <2>5, <3>1 DEF Build
  <2>8. ASSUME NEW r \in rows
        PROVE  r.obj.modified \in Nat
    <3>1. r.obj.entry \in Entry /\ r.obj.modified = r.obj.entry.modified
      BY <2>4, ObjectsAreBuilt
    <3> QED BY <3>1, CatalogAssumption
  <2>9. VersionsUnique
    BY <1>1 DEF VersionsInv
  <2>10. \E r \in rows : Newest(first.obj.id) = {r} /\ r.obj.modified >= first.obj.modified
    BY <1>1, <2>5, <2>8, <2>9, NewestExists
  <2> QED BY <2>7, <2>10
<1>2. TypeInv /\ CursorInv /\ VersionsInv /\ Finite => ReadersSeeTheCatalog
  BY <1>1 DEF ReadersSeeTheCatalog
<1> QED BY <1>2, CursorInvariance, RowsAreFinite, PTL

=============================================================================
