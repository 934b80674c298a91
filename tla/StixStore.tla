------------------------------ MODULE StixStore ------------------------------
(***************************************************************************)
(* The two tables of src/prow/db: stix_objects and connector_state, with   *)
(* the transactions of the emit handler (ingest.py, repositories.py), the  *)
(* autonomous reads and upserts of the state handlers, and the purge of    *)
(* purge.py.  Postgres itself is external: READ COMMITTED, and a write     *)
(* that conflicts with one of an open transaction waits for its end.       *)
(***************************************************************************)
EXTENDS Naturals, FiniteSets

CONSTANTS
  Session,    \* database sessions of emit handlers: one per running connector
  Instance,   \* connector instance ids
  Key         \* the keys connectors keep in connector_state

VARIABLES
  rows,       \* committed rows of stix_objects: [obj, source]
  saved,      \* connector_state: Instance -> Key -> value
  tx,         \* per session: the open ingest transaction
  purge       \* the transaction of `prow connector purge`

storeVars == <<rows, saved, tx, purge>>

NoVersion == 0   \* modified IS NULL, the object is an SCO
NoValue == 0     \* connector_state has no row for the key

NoTx == [open |-> FALSE, todo |-> {}, mine |-> {}]
NoPurge == [phase |-> "idle", targets |-> {}, locked |-> {}, doomed |-> {}]

StoreInit ==
  /\ rows = {}
  /\ saved = [i \in Instance |-> [k \in Key |-> NoValue]]
  /\ tx = [s \in Session |-> NoTx]
  /\ purge = NoPurge

-----------------------------------------------------------------------------
(* What counts as the same row, and what counts as a valid object.         *)

Versioned(o) == o.modified # NoVersion

\* The partial unique indexes: (id, modified) of versioned rows, id of SCO rows.
SameKey(o, p) == o.id = p.id /\ o.modified = p.modified

\* A type without vendored schema passes only where custom types are allowed.
Validates(o, allowCustom) ==
  o.sort = "known" \/ (o.sort \in {"custom", "unreadable"} /\ allowCustom)

\* A custom type is not checked further: its time stamps may be unreadable.
Unstorable(o) == o.sort = "unreadable"

ValidItems(bundle, allowCustom) == {i \in bundle : Validates(i.obj, allowCustom)}

-----------------------------------------------------------------------------
(* Ingest: one transaction per bundle, versioned rows before SCO rows.     *)

\* items: the valid objects of a bundle, each with its position in the bundle.
BeginIngest(s, items) ==
  /\ ~tx[s].open
  /\ tx' = [tx EXCEPT ![s] = [open |-> TRUE, todo |-> items, mine |-> {}]]
  /\ UNCHANGED <<rows, saved, purge>>

Earlier(i, j) ==
  IF Versioned(i.obj) = Versioned(j.obj) THEN i.at <= j.at ELSE Versioned(i.obj)

NextItem(s) == {i \in tx[s].todo : \A j \in tx[s].todo : Earlier(i, j)}

\* Faulty variant: without the unique indexes nothing conflicts.
NeverStored(o) == FALSE

Stored(o) == \E r \in rows \ purge.doomed : SameKey(r.obj, o)

Repeated(s, o) == \E p \in tx[s].mine : SameKey(p, o)

\* Faulty variant: the conflict check sees committed rows only.
NoHolders(s, o) == {}

\* The transactions whose end an insert of o has to wait for.
Holders(s, o) == {t \in Session \ {s} : \E p \in tx[t].mine : SameKey(p, o)}

DeletedUncommitted(o) == \E r \in purge.doomed : SameKey(r.obj, o)

Insertable(s, o) ==
  ~Stored(o) /\ ~Repeated(s, o) /\ Holders(s, o) = {} /\ ~DeletedUncommitted(o)

InsertRow(s) ==
  /\ \E i \in NextItem(s) :
       /\ Insertable(s, i.obj)
       /\ tx' = [tx EXCEPT ![s].todo = @ \ {i}, ![s].mine = @ \cup {i.obj}]
  /\ UNCHANGED <<rows, saved, purge>>

\* ON CONFLICT DO NOTHING: the row is skipped, and not among the returned ones.
SkipRow(s) ==
  /\ \E i \in NextItem(s) :
       /\ Stored(i.obj) \/ Repeated(s, i.obj)
       /\ tx' = [tx EXCEPT ![s].todo = @ \ {i}]
  /\ UNCHANGED <<rows, saved, purge>>

\* The acknowledgement's counts: rows returned by the inserts, and the rest.
Accepted(s) == Cardinality(tx[s].mine)

Commit(s, source) ==
  /\ tx[s].open /\ tx[s].todo = {}
  /\ rows' = rows \cup {[obj |-> o, source |-> source] : o \in tx[s].mine}
  /\ tx' = [tx EXCEPT ![s] = NoTx]
  /\ UNCHANGED <<saved, purge>>

Rollback(s) ==
  /\ tx[s].open
  /\ tx' = [tx EXCEPT ![s] = NoTx]
  /\ UNCHANGED <<rows, saved, purge>>

WaitsFor(s) == UNION {Holders(s, i.obj) : i \in {j \in NextItem(s) :
                        ~Stored(j.obj) /\ ~Repeated(s, j.obj)}}

\* Each waits for others of the group only: Postgres makes one of them fail.
Deadlocked(s) ==
  \E D \in SUBSET Session :
    s \in D /\ \A t \in D : WaitsFor(t) # {} /\ WaitsFor(t) \subseteq D

-----------------------------------------------------------------------------
(* connector_state: each get and each upsert is a transaction of its own.  *)

SetValue(i, k, v) ==
  /\ <<i, k>> \notin purge.locked
  /\ saved' = [saved EXCEPT ![i][k] = v]
  /\ UNCHANGED <<rows, tx, purge>>

\* Faulty variant: ordered the other way round.
Oldest(id) ==
  LET versions == {r \in rows : r.obj.id = id} IN
  {r \in versions : \A q \in versions : q.obj.modified >= r.obj.modified}

\* The row an API reader gets for an id: the newest version.
Newest(id) ==
  LET versions == {r \in rows : r.obj.id = id} IN
  {r \in versions : \A q \in versions : q.obj.modified <= r.obj.modified}

-----------------------------------------------------------------------------
(* Purge: delete the state, delete the objects, commit.                    *)

PurgeState(targets) ==
  /\ purge.phase = "idle"
  /\ purge' = [phase |-> "state", targets |-> targets, doomed |-> {},
               locked |-> {c \in targets \X Key : saved[c[1]][c[2]] # NoValue}]
  /\ UNCHANGED <<rows, saved, tx>>

\* Faulty variant: everything goes, whoever ingested it.
PurgeAllObjects ==
  /\ purge.phase = "state"
  /\ purge' = [purge EXCEPT !.phase = "objects", !.doomed = rows]
  /\ UNCHANGED <<rows, saved, tx>>

PurgeObjects ==
  /\ purge.phase = "state"
  /\ purge' = [purge EXCEPT !.phase = "objects",
                            !.doomed = {r \in rows : r.source \in purge.targets}]
  /\ UNCHANGED <<rows, saved, tx>>

PurgeCommit ==
  /\ purge.phase = "objects"
  /\ rows' = rows \ purge.doomed
  /\ saved' = [i \in Instance |-> [k \in Key |->
                 IF <<i, k>> \in purge.locked THEN NoValue ELSE saved[i][k]]]
  /\ purge' = NoPurge
  /\ UNCHANGED tx
=============================================================================
