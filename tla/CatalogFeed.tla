----------------------------- MODULE CatalogFeed -----------------------------
(***************************************************************************)
(* The connectors that mirror a published catalog, cisa-kev and            *)
(* mitre-attack (src/prow/connectors/{kev,attack}/connector.py), over the  *)
(* store of StixStore: a conditional GET with the validators of the last   *)
(* complete fetch, the emits, and only then the new validators.  A crash,  *)
(* a cancellation, a failed or dead-locked transaction may come anywhere   *)
(* in between, and the operator may purge.  The HTTP server is external.   *)
(***************************************************************************)
EXTENDS StixStore

CONSTANTS
  Kind,                \* connector entry points: a subset of {"kev", "attack"}
  Catalog,             \* per kind: the sequence of published revisions
  Headers,             \* per kind: the validators its server returns
  AllowCustom,         \* per instance: allow_custom_types
  Setups,              \* deployments: [home: session -> instance, kind: instance -> kind]
  BatchSize,           \* _EMIT_BATCH_SIZE
  StreamLimit,         \* the longest frame the runtime's reader returns
  FrameLimit,          \* MAX_MESSAGE_BYTES: the longest frame encode() returns
  MaxFailures,         \* bound on interrupted fetches and failed transactions
  MaxPurges,           \* bound on purges
  PurgeWhileFetching   \* whether the operator purges connectors that are running

Validators == {"etag", "last_modified"}

Entries(k, v) == {Catalog[k][v][p] : p \in DOMAIN Catalog[k][v]}

EntriesOf(k) == UNION {Entries(k, v) : v \in DOMAIN Catalog[k]}

Entry == UNION {EntriesOf(k) : k \in Kind}

ASSUME CatalogAssumption ==
  /\ Kind \subseteq {"kev", "attack"}
  /\ Key = Validators \cup {"last_successful_fetch"}
  /\ \A k \in Kind : 1 \in DOMAIN Catalog[k] /\ DOMAIN Catalog[k] \subseteq Nat \ {NoValue}
  /\ \A k \in Kind : \A v \in DOMAIN Catalog[k] : DOMAIN Catalog[k][v] \subseteq Nat
  /\ \A e \in Entry : e.modified \in Nat \ {NoVersion} /\ e.size \in Nat \ {0}
  \* Within a kind, an entry and its modified time (for KEV with what it says) name one thing.
  /\ \A k \in Kind : \A d, e \in EntriesOf(k) :
       /\ d.name = e.name /\ d.modified = e.modified
       /\ k = "kev" => d.content = e.content
       => d = e
  \* Kinds share no identifiers.
  /\ \A j, k \in Kind : j # k => \A d \in EntriesOf(j), e \in EntriesOf(k) : d.name # e.name
  /\ \A c \in Setups : c.home \in [Session -> Instance] /\ c.kind \in [Instance -> Kind]
  /\ {BatchSize, StreamLimit, FrameLimit, MaxFailures, MaxPurges} \subseteq Nat

VARIABLES
  setup,      \* the deployment
  revision,   \* per kind: the revision its server publishes
  pc,         \* per session: where the connector's fetch() is
  plan,       \* per session: the fetch's locals
  uuids,      \* uuid4() draws so far, those of bundles that are taken: others leave no trace
  failures, purges

feedVars == <<setup, revision, pc, plan, uuids, failures, purges>>
vars == <<storeVars, feedVars>>

Now == 1   \* a time stamp: no connector reads it back

NoPlan == [etag |-> NoValue, last_modified |-> NoValue, body |-> 0, todo |-> {}]

Home(s) == setup.home[s]
KindOf(s) == setup.kind[Home(s)]
InstancesOf(k) == {i \in Instance : setup.kind[i] = k}

-----------------------------------------------------------------------------
(* From a feed to objects.                                                 *)

\* A document, or an entry of it, that fetch() cannot take raises a format error.
Malformed(k, v) == \E e \in Entries(k, v) : e.sort = "malformed"

\* Positions: mitre-attack drops deprecated and invalid objects before it emits.
ToEmit(k, v) == {p \in DOMAIN Catalog[k][v] : k = "attack" => Catalog[k][v][p].sort # "skipped"}

\* ATT&CK objects keep their ids.  One KEV entry stands for the vulnerability, the
\* indicator and the relationship made of it; each is given a new uuid4.
Build(k, e, n) ==
  [id |-> IF k = "kev" THEN <<e.name, e.content, n>> ELSE <<e.name>>,
   modified |-> e.modified, sort |-> e.sort, entry |-> e]

BeingPurged(k) == purge.phase # "idle" /\ purge.targets \cap InstancesOf(k) # {}

Quiet(k) == \A s \in Session : KindOf(s) = k => pc[s] = "idle" /\ ~tx[s].open

Init ==
  /\ StoreInit
  /\ setup \in Setups
  /\ revision = [k \in Kind |-> 1]
  /\ pc = [s \in Session |-> "idle"]
  /\ plan = [s \in Session |-> NoPlan]
  /\ uuids = 0 /\ failures = 0 /\ purges = 0

Goto(s, to) == pc' = [pc EXCEPT ![s] = to]

-----------------------------------------------------------------------------
(* fetch(): the conditional request.                                       *)

ReadEtag(s) ==
  /\ pc[s] = "idle"
  /\ PurgeWhileFetching \/ ~BeingPurged(KindOf(s))
  /\ plan' = [plan EXCEPT ![s].etag = saved[Home(s)]["etag"]]
  /\ Goto(s, "read")
  /\ UNCHANGED <<storeVars, setup, revision, uuids, failures, purges>>

ReadLastModified(s) ==
  /\ pc[s] = "read"
  /\ plan' = [plan EXCEPT ![s].last_modified = saved[Home(s)]["last_modified"]]
  /\ Goto(s, "request")
  /\ UNCHANGED <<storeVars, setup, revision, uuids, failures, purges>>

\* Faulty variant: having a validator is enough.
UnmodifiedIfKnown(s) == plan[s].etag # NoValue \/ plan[s].last_modified # NoValue

\* What the server decides: If-None-Match comes before If-Modified-Since.
Unmodified(s) ==
  LET current == revision[KindOf(s)] IN
  IF plan[s].etag # NoValue THEN plan[s].etag = current ELSE plan[s].last_modified = current

\* Faulty variant: what a fetch has collected outlives it.
IdleKeepsPlan(s) == Goto(s, "idle") /\ UNCHANGED plan

Idle(s) == Goto(s, "idle") /\ plan' = [plan EXCEPT ![s] = NoPlan]

\* fetch() waits for an acknowledgement that never comes; nothing reads its locals again.
Unanswered(s) == Goto(s, "unanswered") /\ plan' = [plan EXCEPT ![s] = NoPlan]

NotModified(s) ==
  /\ pc[s] = "request" /\ Unmodified(s)
  /\ Idle(s)
  /\ UNCHANGED <<storeVars, setup, revision, uuids, failures, purges>>

\* 200, or a file:// feed: parse and build everything before the first emit.
Modified(s) ==
  LET k == KindOf(s) IN
  /\ pc[s] = "request" /\ ~Unmodified(s)
  /\ IF Malformed(k, revision[k])
     THEN Idle(s)
     ELSE /\ plan' = [plan EXCEPT ![s].body = revision[k], ![s].todo = ToEmit(k, revision[k])]
          /\ Goto(s, "emit")
  /\ UNCHANGED <<storeVars, setup, revision, uuids, failures, purges>>

-----------------------------------------------------------------------------
(* fetch(): the emits, and the handler in the runtime that serves them.    *)

\* One bundle for the whole KEV catalog; ATT&CK goes out in batches.
NextBatch(k, todo) ==
  IF k = "kev" THEN todo
  ELSE {p \in todo : Cardinality({q \in todo : q < p}) < BatchSize}

Batch(s) == NextBatch(KindOf(s), plan[s].todo)

Bundle(s) ==
  {[at |-> p, obj |-> Build(KindOf(s), Catalog[KindOf(s)][plan[s].body][p], uuids + 1)] :
     p \in Batch(s)}

\* The length of the frame that carries a batch, in units of an entry's size.
FrameSize(k, v, batch) ==
  Cardinality(UNION {{p} \X (1 .. Catalog[k][v][p].size) : p \in batch})

\* A bundle is never split: encode() raises on a long one, one that is longer than the
\* runtime can read ends the session, and a handler that raises sends no acknowledgement.
Emit(s) ==
  LET valid == ValidItems(Bundle(s), AllowCustom[Home(s)])
      size == FrameSize(KindOf(s), plan[s].body, Batch(s)) IN
  /\ pc[s] = "emit" /\ plan[s].todo # {}
  /\ ~tx[s].open
  /\ CASE size > FrameLimit ->
            Idle(s) /\ UNCHANGED <<storeVars, uuids>>
       [] size <= FrameLimit /\ (size > StreamLimit \/ \E i \in valid : Unstorable(i.obj)) ->
            Unanswered(s) /\ UNCHANGED <<storeVars, uuids>>
       [] OTHER ->
            /\ plan' = [plan EXCEPT ![s].todo = @ \ Batch(s)]
            /\ IF valid = {}
               THEN UNCHANGED <<storeVars, pc>>   \* acknowledged without a transaction
               ELSE BeginIngest(s, valid) /\ Goto(s, "wait")
            /\ uuids' = IF KindOf(s) = "kev" THEN uuids + 1 ELSE uuids
  /\ UNCHANGED <<setup, revision, failures, purges>>

Insert(s) == (InsertRow(s) \/ SkipRow(s)) /\ UNCHANGED feedVars

\* The acknowledgement goes to the fetch if it still waits for one.
Acked(s) ==
  /\ Commit(s, Home(s))
  /\ IF pc[s] = "wait" THEN Goto(s, "emit") ELSE UNCHANGED pc
  /\ UNCHANGED <<setup, revision, plan, uuids, failures, purges>>

\* The handler raises: it sends no acknowledgement, and the session of its subprocess is
\* over, be its own fetch still waiting, cancelled and followed by another, or gone.
TxFails(s) ==
  /\ Rollback(s)
  /\ IF Deadlocked(s) THEN UNCHANGED failures
     ELSE failures < MaxFailures /\ failures' = failures + 1
  /\ \/ pc[s] # "idle" /\ Unanswered(s)
     \/ pc[s] # "wait" /\ UNCHANGED <<pc, plan>>
  /\ UNCHANGED <<setup, revision, uuids, purges>>

\* Nor are its health probes answered any more: after two misses in a row the
\* runtime kills the subprocess and starts another.
ConnectorReplaced(s) ==
  /\ pc[s] = "unanswered"
  /\ Idle(s)
  /\ UNCHANGED <<storeVars, setup, revision, uuids, failures, purges>>

-----------------------------------------------------------------------------
(* fetch(): the new validators, after the last acknowledgement.            *)

Save(s, key) ==
  IF key \in Headers[KindOf(s)]
  THEN SetValue(Home(s), key, plan[s].body)
  ELSE UNCHANGED storeVars

\* Faulty variant: the validator is stored as soon as the body has been read.
SaveEtagFirst(s) ==
  /\ pc[s] = "emit"
  /\ Save(s, "etag")
  /\ IF plan[s].todo = {} THEN Goto(s, "save") ELSE UNCHANGED pc
  /\ UNCHANGED <<setup, revision, plan, uuids, failures, purges>>

SaveEtag(s) ==
  /\ pc[s] = "emit" /\ plan[s].todo = {}
  /\ Save(s, "etag")
  /\ Goto(s, "save")
  /\ UNCHANGED <<setup, revision, plan, uuids, failures, purges>>

SaveLastModified(s) ==
  /\ pc[s] = "save"
  /\ Save(s, "last_modified")
  /\ Goto(s, "stamp")
  /\ UNCHANGED <<setup, revision, plan, uuids, failures, purges>>

SaveStamp(s) ==
  /\ pc[s] = "stamp"
  /\ SetValue(Home(s), "last_successful_fetch", Now)
  /\ Idle(s)
  /\ UNCHANGED <<setup, revision, uuids, failures, purges>>

\* Cancelled, crashed or failed between two awaits; the handler in the runtime goes on.
Interrupted(s) ==
  /\ pc[s] # "idle" /\ failures < MaxFailures
  /\ failures' = failures + 1
  /\ Idle(s)
  /\ UNCHANGED <<storeVars, setup, revision, uuids, purges>>

-----------------------------------------------------------------------------
(* The server and the operator.                                            *)

Publish(k) ==
  /\ revision[k] + 1 \in DOMAIN Catalog[k] /\ InstancesOf(k) # {}
  /\ revision' = [revision EXCEPT ![k] = @ + 1]
  /\ UNCHANGED <<storeVars, setup, pc, plan, uuids, failures, purges>>

\* Without an instance id, every configured instance of the entry point.
PurgeBegin(k) ==
  /\ purges < MaxPurges /\ InstancesOf(k) # {}
  /\ PurgeWhileFetching \/ Quiet(k)
  /\ PurgeState(InstancesOf(k))
  /\ purges' = purges + 1
  /\ UNCHANGED <<setup, revision, pc, plan, uuids, failures>>

PurgeGoesOn == (PurgeObjects \/ PurgeCommit) /\ UNCHANGED feedVars

Fetch(s) ==
  \/ ReadEtag(s) \/ ReadLastModified(s) \/ NotModified(s) \/ Modified(s)
  \/ Emit(s) \/ SaveEtag(s) \/ SaveLastModified(s) \/ SaveStamp(s) \/ ConnectorReplaced(s)

Handler(s) == Insert(s) \/ Acked(s)

Next ==
  \/ \E s \in Session : Fetch(s) \/ Handler(s) \/ TxFails(s) \/ Interrupted(s)
  \/ \E k \in Kind : Publish(k) \/ PurgeBegin(k)
  \/ PurgeGoesOn

\* A running connector fetches again, the health loop replaces one that is not answered,
\* the runtime's handlers run, an insert that waits is woken when its holder ends (strong
\* fairness), and Postgres ends deadlocks.
Fairness ==
  /\ \A s \in Session : WF_vars(Fetch(s)) /\ SF_vars(Handler(s))
                        /\ WF_vars(Deadlocked(s) /\ TxFails(s))
  /\ WF_vars(PurgeGoesOn)

Spec == Init /\ [][Next]_vars
FairSpec == Spec /\ Fairness

-----------------------------------------------------------------------------
(* Correctness.                                                            *)

\* What instance i, mirroring catalog k, is to hold of revision v.
Deliverable(k, i, v) ==
  {e \in {Catalog[k][v][p] : p \in ToEmit(k, v)} : Validates(Build(k, e, 0), AllowCustom[i])}

Held == {r.obj.entry : r \in rows}

\* Every variable has its type, and a connector that is not fetching keeps no
\* plan: fetch() has only locals, nothing of an interrupted one survives.
CatalogTypeOK ==
  /\ \A r \in rows : r.obj.entry \in Entry /\ r.source \in Instance
  /\ saved \in [Instance -> [Key -> Nat]]
  /\ \A s \in Session : /\ tx[s].open \in BOOLEAN
                        /\ \A i \in tx[s].todo : i.obj.entry \in Entry
                        /\ \A o \in tx[s].mine : o.entry \in Entry
                        /\ ~tx[s].open => tx[s] = NoTx
  /\ purge.phase \in {"idle", "state", "objects"} /\ purge.targets \subseteq Instance
  /\ setup \in Setups
  /\ revision \in [Kind -> Nat]
  /\ pc \in [Session -> {"idle", "read", "request", "emit", "wait", "save", "stamp", "unanswered"}]
  /\ \A s \in Session : /\ plan[s].todo \subseteq Nat
                        /\ pc[s] = "idle" => plan[s] = NoPlan
  /\ uuids \in Nat /\ failures \in 0 .. MaxFailures /\ purges \in 0 .. MaxPurges

\* No two rows are the same version of one object, whoever ingested them and
\* however their transactions interleaved (migration's partial unique indexes
\* with repositories.py's ON CONFLICT DO NOTHING).
VersionsUnique == \A q, r \in rows : SameKey(q.obj, r.obj) => q = r

\* A validator kept in connector_state means that the revision it names has
\* been ingested in full, so a 304 for it loses nothing, whatever crashed,
\* was cancelled, was retried or was purged on the way (kev fetch() 96-158,
\* attack fetch() 100-163: emit first, set_state last).
CursorMeansStored ==
  \A i \in Instance : \A key \in Validators :
    saved[i][key] # NoValue => Deliverable(setup.kind[i], i, saved[i][key]) \subseteq Held

\* Once a validator is kept, get_object() gives exactly one row for each ATT&CK
\* object of that revision, at least as new as the revision has it: neither an
\* older version ingested later nor a slower session takes a reader back.
ReadersSeeTheCatalog ==
  \A i \in Instance :
    LET v == saved[i]["etag"] IN
    setup.kind[i] = "attack" /\ v # NoValue =>
      \A e \in Deliverable("attack", i, v) :
        \E r \in rows : /\ Newest(<<e.name>>) = {r}
                        /\ r.obj.modified >= e.modified

RowsAdded(n) == Cardinality(rows') = Cardinality(rows) + n

\* The step that acknowledges a bundle has added as many rows as the "accepted"
\* of the acknowledgement says, and rows are added in no other way than by the end
\* of such a transaction (ingest.py's one transaction per bundle, whose counts
\* come from RETURNING, whatever other sessions have inserted meanwhile).
AckCountsCommit ==
  [][/\ \A s \in Session : pc[s] = "wait" /\ pc'[s] = "emit" => RowsAdded(Accepted(s))
     /\ \/ rows' \subseteq rows
        \/ \E s \in Session : tx[s].open /\ ~tx'[s].open /\ RowsAdded(Accepted(s))]_vars

\* The bundles one fetch makes of a revision.
Batches(k, v) ==
  IF k = "kev" THEN {ToEmit(k, v)}
  ELSE LET rank(p) == Cardinality({q \in ToEmit(k, v) : q < p})
       IN {{q \in ToEmit(k, v) : rank(q) \div BatchSize = rank(p) \div BatchSize} :
              p \in ToEmit(k, v)}

Sendable(k, v) ==
  \A b \in Batches(k, v) : FrameSize(k, v, b) <= FrameLimit /\ FrameSize(k, v, b) <= StreamLimit

Storable(k, v) == \A e \in Entries(k, v) : ~Unstorable(e)

Follows(s, k, v) == KindOf(s) = k /\ revision[k] = v

HoldsAll(s, k, v) == Deliverable(k, Home(s), v) \subseteq Held

HoldsGood(s, k, v) == {e \in Deliverable(k, Home(s), v) : ~Unstorable(e)} \subseteq Held

\* Once a server settles on a revision that can be read, sent and stored, every
\* connector that mirrors it has all of it and keeps it, whatever failed
\* before (the connectors of a Session keep fetching).
CatalogEventuallyStored ==
  \A s \in Session : \A k \in Kind : \A v \in DOMAIN Catalog[k] :
    ~Malformed(k, v) /\ Sendable(k, v) /\ Storable(k, v) =>
      (<>[]Follows(s, k, v) => <>[]HoldsAll(s, k, v))

\* A revision is stored however long its bundles are (connector-protocol.md 33).
LargeEmitsAreSplit ==
  \A s \in Session : \A k \in Kind : \A v \in DOMAIN Catalog[k] :
    ~Malformed(k, v) /\ Storable(k, v) =>
      (<>[]Follows(s, k, v) => <>[]HoldsAll(s, k, v))

\* One bad object does not keep the good ones of its bundle from being stored
\* (persister.md 178).
GoodObjectsAreStored ==
  \A s \in Session : \A k \in Kind : \A v \in DOMAIN Catalog[k] :
    ~Malformed(k, v) /\ Sendable(k, v) =>
      (<>[]Follows(s, k, v) => <>[]HoldsGood(s, k, v))

-----------------------------------------------------------------------------
(* The contract implemented: what is held is the entries of committed rows.*)

cursors == [i \in Instance |-> [key \in Validators |-> saved[i][key]]]

Contract == INSTANCE FeedContract WITH
  Feeds <- Kind, Followers <- Instance, Cursors <- Validators,
  Items <- Entry, Content <- Deliverable, NoRevision <- NoValue,
  follows <- setup.kind, published <- revision, held <- Held, cursor <- cursors

\* Ingesting a catalog keeps the contract of FeedContract.
KeepsFeedContract == Contract!Spec
=============================================================================
