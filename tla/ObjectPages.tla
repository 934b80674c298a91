------------------------------ MODULE ObjectPages ------------------------------
(***************************************************************************)
(* GET /api/v1/objects (api/routers/stix.py, db/repositories.py) read page *)
(* after page, while ingest transactions commit and a purge deletes.       *)
(* Postgres is external: each statement sees what is committed when it     *)
(* runs, and leaves the order of rows with equal sort keys open.           *)
(***************************************************************************)
EXTENDS Integers, FiniteSets, Sequences

CONSTANTS
  Bundle,     \* the bundles that are ingested, each in a transaction of its own
  Object,     \* the objects they carry
  Carries,    \* Bundle -> the objects that are new with it (StixStore decides which)
  TypeOf,     \* Object -> STIX type
  Created,    \* Object -> created
  Confidence, \* Object -> confidence, NoConfidence for null
  Limits,     \* the page sizes asked for
  Purges      \* whether `prow connector purge` may run

NoConfidence == -1

ASSUME PagesAssumption ==
  /\ IsFiniteSet(Bundle) /\ Carries \in [Bundle -> SUBSET Object]
  /\ \A b \in Bundle : IsFiniteSet(Carries[b])
  /\ \A b, c \in Bundle : b # c => Carries[b] \cap Carries[c] = {}
  /\ Created \in [Object -> Int] /\ Confidence \in [Object -> Nat \cup {NoConfidence}]
  /\ Limits \subseteq Nat \ {0}

Sorts == {"ingested_at_desc", "created_desc", "confidence_desc"}
AnyType == "any"
Types == {AnyType} \cup {TypeOf[o] : o \in Object}

Rows == [object : Object, at : 1 .. Cardinality(Bundle)]

VARIABLES
  clock,    \* transactions begun
  tx,       \* Bundle -> [phase, at]: its ingest transaction
  rows,     \* committed rows of stix_objects
  doomed,   \* rows deleted by the purge, not yet committed
  walk      \* a caller that reads page after page

vars == <<clock, tx, rows, doomed, walk>>

NoWalk == [pc |-> "idle", sort |-> "created_desc", type |-> AnyType, limit |-> 0, offset |-> 0,
           byTotal |-> FALSE, total |-> 0, pages |-> <<>>, begun |-> {}, purged |-> FALSE]

Init ==
  /\ clock = 0 /\ rows = {} /\ doomed = {} /\ walk = NoWalk
  /\ tx = [b \in Bundle |-> [phase |-> "new", at |-> 0]]

-----------------------------------------------------------------------------
(* Writers.                                                                *)

\* now() is the time at which the transaction began, for each row it inserts.
BeginIngest(b) ==
  /\ tx[b].phase = "new"
  /\ clock' = clock + 1
  /\ tx' = [tx EXCEPT ![b] = [phase |-> "open", at |-> clock + 1]]
  /\ UNCHANGED <<rows, doomed, walk>>

CommitIngest(b) ==
  /\ tx[b].phase = "open"
  /\ tx' = [tx EXCEPT ![b].phase = "ended"]
  /\ rows' = rows \cup [object : Carries[b], at : {tx[b].at}]
  /\ UNCHANGED <<clock, doomed, walk>>

RollbackIngest(b) ==
  /\ tx[b].phase = "open"
  /\ tx' = [tx EXCEPT ![b].phase = "ended"]
  /\ UNCHANGED <<clock, rows, doomed, walk>>

\* purge_connector_instances: the DELETE takes what its connectors' bundles have committed.
PurgeDeletes ==
  /\ Purges /\ doomed = {}
  /\ \E B \in SUBSET Bundle : doomed' = {r \in rows : \E b \in B : r.at = tx[b].at}
  /\ doomed' # {}
  /\ UNCHANGED <<clock, tx, rows, walk>>

PurgeCommits ==
  /\ doomed # {}
  /\ rows' = rows \ doomed /\ doomed' = {}
  /\ walk' = [walk EXCEPT !.purged = TRUE]
  /\ UNCHANGED <<clock, tx>>

-----------------------------------------------------------------------------
(* list_objects: the count, then the page, each a statement of its own.    *)

Selected(type, S) == {r \in S : type \in {AnyType, TypeOf[r.object]}}

\* ORDER BY: r comes before q whatever Postgres does.
Before(sort, r, q) ==
  CASE sort = "ingested_at_desc" -> r.at > q.at
    [] sort = "created_desc" -> Created[r.object] > Created[q.object]
    [] OTHER -> \/ Confidence[r.object] > Confidence[q.object]
                \/ Confidence[r.object] = Confidence[q.object] /\ r.at > q.at

Least(m, n) == IF m < n THEN m ELSE n

\* Faulty variant: no ORDER BY.
PagesUnordered(sort, S, offset, limit) ==
  {P \in SUBSET S :
     Cardinality(P) = Least(limit, Cardinality(S) - Least(offset, Cardinality(S)))}

\* OFFSET and LIMIT of some order that ORDER BY allows.
Pages(sort, S, offset, limit) ==
  {P \in SUBSET S : \E skipped \in SUBSET (S \ P) :
     /\ Cardinality(skipped) = Least(offset, Cardinality(S))
     /\ Cardinality(P) = Least(limit, Cardinality(S \ skipped))
     /\ \A r \in S \ skipped : \A q \in skipped : ~Before(sort, r, q)
     /\ \A r \in S \ (skipped \cup P) : \A q \in P : ~Before(sort, r, q)}

BeginWalk ==
  /\ walk.pc = "idle"
  /\ \E sort \in Sorts, type \in Types, limit \in Limits, byTotal \in BOOLEAN :
       walk' = [pc |-> "count", sort |-> sort, type |-> type, limit |-> limit, offset |-> 0,
                byTotal |-> byTotal, total |-> 0, pages |-> <<>>, begun |-> rows, purged |-> FALSE]
  /\ UNCHANGED <<clock, tx, rows, doomed>>

Count ==
  /\ walk.pc = "count"
  /\ walk' = [walk EXCEPT !.pc = "page", !.total = Cardinality(Selected(walk.type, rows))]
  /\ UNCHANGED <<clock, tx, rows, doomed>>

\* The caller goes on until a page is short, or until it has read `total` rows.
Ends(P) ==
  IF walk.byTotal THEN walk.offset + walk.limit >= walk.total ELSE Cardinality(P) < walk.limit

Shows(P) ==
  walk' = [walk EXCEPT !.pc = IF Ends(P) THEN "done" ELSE "count",
                       !.pages = Append(@, P), !.offset = @ + walk.limit]

\* Faulty variant: the type is filtered after LIMIT.
PageFilteredLate ==
  /\ walk.pc = "page"
  /\ \E P \in Pages(walk.sort, rows, walk.offset, walk.limit) : Shows(Selected(walk.type, P))
  /\ UNCHANGED <<clock, tx, rows, doomed>>

Page ==
  /\ walk.pc = "page"
  /\ \E P \in Pages(walk.sort, Selected(walk.type, rows), walk.offset, walk.limit) : Shows(P)
  /\ UNCHANGED <<clock, tx, rows, doomed>>

Next ==
  \/ \E b \in Bundle : BeginIngest(b) \/ CommitIngest(b) \/ RollbackIngest(b)
  \/ PurgeDeletes \/ PurgeCommits
  \/ BeginWalk \/ Count \/ Page

Spec == Init /\ [][Next]_vars

-----------------------------------------------------------------------------
(* Correctness.                                                            *)

\* Every variable has its type; rows have distinct transactions' times or one bundle's
\* (models.py 51-55), and what a page shows was selected by its query.
PagesTypeOK ==
  /\ clock \in 0 .. Cardinality(Bundle) /\ rows \subseteq Rows /\ doomed \subseteq rows
  /\ tx \in [Bundle -> [phase : {"new", "open", "ended"}, at : 0 .. clock]]
  /\ walk \in [pc : {"idle", "count", "page", "done"}, sort : Sorts, type : Types,
               limit : Limits \cup {0}, offset : Nat, byTotal : BOOLEAN, total : Nat,
               pages : Seq(SUBSET Rows), begun : SUBSET Rows, purged : BOOLEAN]
  /\ \A i \in DOMAIN walk.pages : walk.pages[i] \subseteq Selected(walk.type, Rows)

\* ORDER BY decides where r goes among the rows that the walk selects.
Alone(r) ==
  \A q \in Selected(walk.type, rows) \ {r} : Before(walk.sort, r, q) \/ Before(walk.sort, q, r)

Shown == UNION {walk.pages[i] : i \in DOMAIN walk.pages}

\* Bundles that are committed while a caller pages through the objects do not hide
\* older ones: every object stored before the walk is on one of its pages, unless
\* others share its sort key or a purge interferes (repositories.py 200-227).
WalkSeesEverything ==
  walk.pc = "done" /\ ~walk.purged /\ ~walk.byTotal =>
    \A r \in Selected(walk.type, walk.begun) : Alone(r) => r \in Shown

\* If nothing is written meanwhile, the pages show each such row exactly once, also to a
\* caller that stops at `total`.
QuietWalkShowsOnce ==
  walk.pc = "done" /\ ~walk.purged /\ rows = walk.begun =>
    \A r \in Selected(walk.type, rows) : Alone(r) =>
      Cardinality({i \in DOMAIN walk.pages : r \in walk.pages[i]}) = 1

\* test_stix_endpoints.py, test_pagination: with nothing written meanwhile, two pages
\* have no object in common.
PagesAreDisjoint ==
  ~walk.purged /\ rows = walk.begun =>
    \A i, j \in DOMAIN walk.pages : i # j => walk.pages[i] \cap walk.pages[j] = {}
=============================================================================
