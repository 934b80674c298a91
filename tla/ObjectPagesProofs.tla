-------------------------- MODULE ObjectPagesProofs --------------------------
(***************************************************************************)
(* Proofs about ObjectPages, for every set of bundles and objects, every   *)
(* assignment of types, dates and confidences, and every page size.        *)
(***************************************************************************)
EXTENDS ObjectPages, FiniteSetTheorems, TLAPS

-----------------------------------------------------------------------------
(* What ORDER BY, OFFSET and LIMIT decide.                                 *)

AnyRow == [object : Object, at : Nat]

\* The rows of S that come before r whatever Postgres does.
Ahead(sort, S, r) == {q \in S : Before(sort, q, r)}

\* No row comes before itself.
LEMMA NotBeforeItself ==
  ASSUME NEW sort \in Sorts, NEW r \in AnyRow
  PROVE  ~Before(sort, r, r)
BY PagesAssumption DEF Before, Sorts, AnyRow, NoConfidence

\* A row that shares its sort key with no other is on a page exactly if the number of rows
\* that come before it falls into the page, and a page that is not full is the last one.
LEMMA RankDecides ==
  ASSUME NEW S \in SUBSET AnyRow, IsFiniteSet(S), NEW sort \in Sorts,
         NEW offset \in Nat, NEW limit \in Nat \ {0},
         NEW P \in Pages(sort, S, offset, limit), NEW r \in S,
         \A q \in S \ {r} : Before(sort, r, q) \/ Before(sort, q, r)
  PROVE  LET rank == Cardinality(Ahead(sort, S, r)) IN
         /\ rank \in Nat /\ rank < Cardinality(S)
         /\ r \in P <=> offset <= rank /\ rank < offset + limit
         /\ rank >= offset + limit => Cardinality(P) = limit
         /\ Cardinality(P) < limit => Cardinality(S) <= offset + limit
<1> DEFINE A == Ahead(sort, S, r)
           rank == Cardinality(A)
<1>1. PICK skipped \in SUBSET (S \ P) :
        /\ Cardinality(skipped) = Least(offset, Cardinality(S))
        /\ Cardinality(P) = Least(limit, Cardinality(S \ skipped))
        /\ \A x \in S \ skipped : \A q \in skipped : ~Before(sort, x, q)
        /\ \A x \in S \ (skipped \cup P) : \A q \in P : ~Before(sort, x, q)
  BY DEF Pages
<1>2. P \in SUBSET S /\ A \in SUBSET (S \ {r})
  BY NotBeforeItself DEF Pages, Ahead
<1>3. /\ IsFiniteSet(P) /\ IsFiniteSet(skipped) /\ IsFiniteSet(S \ skipped)
      /\ IsFiniteSet(A) /\ IsFiniteSet(S \ {r})
  BY <1>1, <1>2, FS_Subset
<1>4. /\ Cardinality(S) \in Nat /\ Cardinality(P) \in Nat /\ Cardinality(skipped) \in Nat
      /\ Cardinality(S \ skipped) \in Nat /\ rank \in Nat
      /\ Cardinality(S \ {r}) = Cardinality(S) - 1
  BY <1>3, FS_CardinalityType, FS_RemoveElement
<1>5. rank < Cardinality(S)
  <2>1. rank <= Cardinality(S \ {r})
    BY <1>2, <1>3, FS_Subset
  <2> QED BY <2>1, <1>4
<1>6. Cardinality(S) = Cardinality(skipped) + Cardinality(S \ skipped)
  <2>1. skipped \cup (S \ skipped) = S /\ skipped \cap (S \ skipped) = {}
    BY <1>1
  <2>2. Cardinality(skipped \cup (S \ skipped))
          = Cardinality(skipped) + Cardinality(S \ skipped) - Cardinality(skipped \cap (S \ skipped))
    BY <1>3, FS_Union
  <2>3. Cardinality(skipped \cap (S \ skipped)) = 0
    BY <2>1, FS_EmptySet
  <2>4. Cardinality(skipped \cup (S \ skipped)) = Cardinality(S)
    BY <2>1
  <2> HIDE DEF A
  <2> QED BY <2>2, <2>3, <2>4, <1>4
<1>7. /\ IsFiniteSet(skipped \cup P)
      /\ Cardinality(skipped \cup P) = Cardinality(skipped) + Cardinality(P)
  <2>1. skipped \cap P = {}
    BY <1>1
  <2>2. /\ IsFiniteSet(skipped \cup P)
        /\ Cardinality(skipped \cup P)
             = Cardinality(skipped) + Cardinality(P) - Cardinality(skipped \cap P)
    BY <1>3, FS_Union
  <2>3. Cardinality(skipped \cap P) = 0
    BY <2>1, FS_EmptySet
  <2> HIDE DEF A
  <2> QED BY <2>2, <2>3, <1>4
<1>8. CASE r \in skipped
  <2>1. r \notin P
    BY <1>1, <1>8
  <2>2. A \in SUBSET (skipped \ {r})
    BY <1>1, <1>2, <1>8 DEF Ahead
  <2>3. rank <= Cardinality(skipped \ {r}) /\ Cardinality(skipped \ {r}) = Cardinality(skipped) - 1
    BY <2>2, <1>3, <1>8, FS_Subset, FS_RemoveElement
  <2>4. rank < offset
    BY <2>3, <1>1, <1>4 DEF Least
  <2> HIDE DEF A
  <2>5. Cardinality(P) < limit => Cardinality(S) <= offset + limit
    BY <1>1, <1>4, <1>6 DEF Least
  <2> QED BY <2>1, <2>4, <2>5, <1>4, <1>5 DEF A
<1>9. CASE r \in P
  <2>1. A \in SUBSET ((skipped \cup P) \ {r})
    BY <1>1, <1>2, <1>9 DEF Ahead
  <2>2. rank <= Cardinality(skipped) + Cardinality(P) - 1
    <3> DEFINE U == skipped \cup P
               V == U \ {r}
    <3>1. IsFiniteSet(V) /\ Cardinality(V) = Cardinality(U) - 1
      BY <1>7, <1>9, FS_RemoveElement
    <3>2. rank <= Cardinality(V)
      BY <2>1, <3>1, FS_Subset
    <3>3. Cardinality(U) = Cardinality(skipped) + Cardinality(P)
      BY <1>7
    <3> HIDE DEF U, V, rank
    <3> QED BY <3>1, <3>2, <3>3, <1>4
  <2>3. skipped \in SUBSET A
    BY <1>1, <1>2, <1>9 DEF Ahead
  <2>4. Cardinality(skipped) <= rank /\ Cardinality(skipped) < Cardinality(S)
    <3>1. Cardinality(skipped) <= rank
      BY <2>3, <1>3, FS_Subset
    <3> QED BY <3>1, <1>4, <1>5
  <2> HIDE DEF A
  <2>5. Cardinality(skipped) = offset
    BY <2>4, <1>1, <1>4 DEF Least
  <2>6. Cardinality(P) <= limit /\ (Cardinality(P) < limit => Cardinality(S) <= offset + limit)
    BY <2>5, <1>1, <1>4, <1>6 DEF Least
  <2> QED BY <1>9, <2>2, <2>4, <2>5, <2>6, <1>4, <1>5 DEF A
<1>10. CASE r \notin skipped \cup P
  <2>1. skipped \cup P \in SUBSET A
    BY <1>1, <1>2, <1>10 DEF Ahead
  <2>2. Cardinality(skipped) + Cardinality(P) <= rank
    BY <2>1, <1>3, <1>7, FS_Subset
  <2> HIDE DEF A
  <2>3. Cardinality(skipped) = offset
    BY <2>2, <1>1, <1>4, <1>5 DEF Least
  <2>4. Cardinality(P) = limit
    BY <2>2, <1>1, <1>4, <1>5, <1>6 DEF Least
  <2> QED BY <1>10, <2>2, <2>3, <2>4, <1>4, <1>5 DEF A
<1> QED BY <1>8, <1>9, <1>10
-----------------------------------------------------------------------------
(* Types.                                                                  *)

\* The rows of one bundle are finitely many.
LEMMA BundleRowsFinite ==
  ASSUME NEW b \in Bundle, NEW t \in Nat
  PROVE  IsFiniteSet([object : Carries[b], at : {t}])
<1> DEFINE T == [object : Carries[b], at : {t}]
           f == [o \in Carries[b] |-> [object |-> o, at |-> t]]
<1>1. IsFiniteSet(Carries[b])
  BY PagesAssumption
<1>2. f \in [Carries[b] -> T]
  OBVIOUS
<1>3. \A x \in T : x.object \in Carries[b] /\ f[x.object] = x
  OBVIOUS
<1>4. f \in Surjection(Carries[b], T)
  BY <1>2, <1>3 DEF Surjection
<1> QED BY <1>1, <1>4, FS_Surjection

\* The transactions that began are as many as the clock says, so none begins after the last
\* bundle's; an open or ended one has a time, and a walk under way asks for a page.
Begun == {b \in Bundle : tx[b].phase # "new"}

PagesTypeInv ==
  /\ PagesTypeOK
  /\ clock = Cardinality(Begun)
  /\ \A b \in Bundle : tx[b].phase # "new" => tx[b].at \in 1 .. clock
  /\ IsFiniteSet(rows)
  /\ walk.pc # "idle" => walk.limit \in Limits

USE PagesAssumption

LEMMA PagesTypeInit == Init => PagesTypeInv
<1> SUFFICES ASSUME Init PROVE PagesTypeInv
  OBVIOUS
<1>1. Begun = {} /\ Cardinality(Begun) = 0 /\ IsFiniteSet(rows)
  BY FS_EmptySet DEF Init, Begun
<1>2. Cardinality(Bundle) \in Nat
  BY FS_CardinalityType
<1>3. <<>> \in Seq(SUBSET Rows) /\ DOMAIN <<>> = {}
  OBVIOUS
<1>4. walk \in [pc : {"idle", "count", "page", "done"}, sort : Sorts, type : Types,
               limit : Limits \cup {0}, offset : Nat, byTotal : BOOLEAN, total : Nat,
               pages : Seq(SUBSET Rows), begun : SUBSET Rows, purged : BOOLEAN]
  BY <1>3 DEF Init, NoWalk, Sorts, Types
<1> QED BY <1>1, <1>2, <1>3, <1>4 DEF Init, NoWalk, PagesTypeInv, PagesTypeOK

\* Rows that are all typed are selected as such.
LEMMA SelectedTypes ==
  ASSUME NEW type, NEW S \in SUBSET Rows, IsFiniteSet(S)
  PROVE  /\ Selected(type, S) \in SUBSET S /\ Selected(type, S) \in SUBSET Selected(type, Rows)
         /\ Selected(type, S) \in SUBSET AnyRow
         /\ IsFiniteSet(Selected(type, S)) /\ Cardinality(Selected(type, S)) \in Nat
<1>1. Selected(type, S) \in SUBSET S /\ Selected(type, S) \in SUBSET Selected(type, Rows)
  BY DEF Selected
<1>2. IsFiniteSet(Selected(type, S))
  BY <1>1, FS_Subset
<1>3. Cardinality(Bundle) \in Nat /\ Cardinality(Selected(type, S)) \in Nat
  BY <1>2, FS_CardinalityType
<1>4. Rows \in SUBSET AnyRow
  BY <1>3 DEF Rows, AnyRow
<1> QED BY <1>1, <1>2, <1>3, <1>4

LEMMA PagesTypeStep == PagesTypeInv /\ [Next]_vars => PagesTypeInv'
<1> SUFFICES ASSUME PagesTypeInv, [Next]_vars PROVE PagesTypeInv'
  OBVIOUS
<1> DEFINE Walks == [pc : {"idle", "count", "page", "done"}, sort : Sorts, type : Types,
               limit : Limits \cup {0}, offset : Nat, byTotal : BOOLEAN, total : Nat,
               pages : Seq(SUBSET Rows), begun : SUBSET Rows, purged : BOOLEAN]
<1>0. /\ Cardinality(Bundle) \in Nat /\ clock \in 0 .. Cardinality(Bundle) /\ clock \in Nat
      /\ walk \in Walks /\ rows \subseteq Rows /\ doomed \subseteq rows
      /\ tx \in [Bundle -> [phase : {"new", "open", "ended"}, at : 0 .. clock]]
  BY FS_CardinalityType DEF PagesTypeInv, PagesTypeOK
<1>1. ASSUME NEW b \in Bundle, BeginIngest(b) PROVE PagesTypeInv'
  <2>1. b \notin Begun /\ Begun' = Begun \cup {b} /\ Begun' \in SUBSET Bundle
    BY <1>1 DEF Begun, BeginIngest, PagesTypeInv, PagesTypeOK
  <2>2. IsFiniteSet(Begun) /\ IsFiniteSet(Begun') /\ Cardinality(Begun') <= Cardinality(Bundle)
    BY <2>1, FS_Subset DEF Begun
  <2>3. Cardinality(Begun') = Cardinality(Begun) + 1
    BY <2>1, <2>2, FS_AddElement
  <2>4. clock' = Cardinality(Begun)' /\ clock' \in 0 .. Cardinality(Bundle)
    BY <1>1, <1>0, <2>2, <2>3 DEF BeginIngest, PagesTypeInv
  <2>5. tx' \in [Bundle -> [phase : {"new", "open", "ended"}, at : 0 .. clock']]
    BY <1>1, <1>0 DEF BeginIngest, PagesTypeInv, PagesTypeOK
  <2>6. \A c \in Bundle : tx'[c].phase # "new" => tx'[c].at \in 1 .. clock'
    BY <1>1, <1>0 DEF BeginIngest, PagesTypeInv, PagesTypeOK
  <2> QED BY <1>1, <2>4, <2>5, <2>6 DEF BeginIngest, PagesTypeInv, PagesTypeOK
<1>2. ASSUME NEW b \in Bundle, CommitIngest(b) PROVE PagesTypeInv'
  <2>1. Begun' = Begun /\ clock' = clock
    BY <1>2 DEF Begun, CommitIngest, PagesTypeInv, PagesTypeOK
  <2>2. tx[b].at \in 1 .. clock /\ tx[b].at \in 1 .. Cardinality(Bundle) /\ tx[b].at \in Nat
    BY <1>2, <1>0 DEF CommitIngest, PagesTypeInv
  <2>3. rows' \subseteq Rows /\ doomed' \subseteq rows'
    BY <1>2, <1>0, <2>2 DEF CommitIngest, Rows
  <2>4. IsFiniteSet(rows')
    BY <1>2, <2>2, BundleRowsFinite, FS_Union DEF CommitIngest, PagesTypeInv
  <2>5. tx' \in [Bundle -> [phase : {"new", "open", "ended"}, at : 0 .. clock']]
    BY <1>0, <1>2, <2>1 DEF CommitIngest
  <2>6. \A c \in Bundle : tx'[c].phase # "new" => tx'[c].at \in 1 .. clock'
    BY <1>2 DEF CommitIngest, PagesTypeInv, PagesTypeOK
  <2> QED BY <1>2, <2>1, <2>3, <2>4, <2>5, <2>6 DEF CommitIngest, PagesTypeInv, PagesTypeOK
<1>3. ASSUME NEW b \in Bundle, RollbackIngest(b) PROVE PagesTypeInv'
  <2>1. Begun' = Begun /\ clock' = clock
    BY <1>3 DEF Begun, RollbackIngest, PagesTypeInv, PagesTypeOK
  <2>2. tx' \in [Bundle -> [phase : {"new", "open", "ended"}, at : 0 .. clock']]
    BY <1>0, <1>3, <2>1 DEF RollbackIngest
  <2>3. \A c \in Bundle : tx'[c].phase # "new" => tx'[c].at \in 1 .. clock'
    BY <1>3 DEF RollbackIngest, PagesTypeInv, PagesTypeOK
  <2> QED BY <1>3, <2>1, <2>2, <2>3 DEF RollbackIngest, PagesTypeInv, PagesTypeOK
<1>4. CASE PurgeDeletes
  <2>1. doomed' \subseteq rows' /\ Begun' = Begun
    BY <1>4 DEF PurgeDeletes, Begun
  <2> QED BY <1>4, <2>1 DEF PurgeDeletes, PagesTypeInv, PagesTypeOK
<1>5. CASE PurgeCommits
  <2>1. rows' \subseteq rows /\ doomed' \subseteq rows' /\ Begun' = Begun
    BY <1>5 DEF PurgeCommits, Begun
  <2>2. IsFiniteSet(rows')
    BY <2>1, FS_Subset DEF PagesTypeInv
  <2>3. /\ walk' \in Walks /\ walk'.pages = walk.pages /\ walk'.type = walk.type
        /\ walk'.pc = walk.pc /\ walk'.limit = walk.limit
    BY <1>0, <1>5 DEF PurgeCommits
  <2> QED BY <1>5, <1>0, <2>1, <2>2, <2>3 DEF PurgeCommits, PagesTypeInv, PagesTypeOK
<1>6. CASE BeginWalk
  <2>1. walk' \in Walks /\ walk'.pages = <<>> /\ walk'.limit \in Limits
    BY <1>0, <1>6 DEF BeginWalk
  <2> QED BY <1>6, <2>1 DEF BeginWalk, PagesTypeInv, PagesTypeOK, Begun
<1>7. CASE Count
  <2>1. /\ walk' \in Walks /\ walk'.pages = walk.pages /\ walk'.type = walk.type
        /\ walk.pc # "idle" /\ walk'.limit = walk.limit
    BY <1>0, <1>7, SelectedTypes DEF Count, PagesTypeInv
  <2> QED BY <1>7, <2>1 DEF Count, PagesTypeInv, PagesTypeOK, Begun
<1>8. CASE Page
  <2>1. PICK P \in Pages(walk.sort, Selected(walk.type, rows), walk.offset, walk.limit) : Shows(P)
    BY <1>8 DEF Page
  <2>2. P \in SUBSET Selected(walk.type, Rows) /\ P \in SUBSET Rows
    BY <1>0, <2>1, SelectedTypes DEF Pages, PagesTypeInv, Selected
  <2>3. walk.limit \in Nat /\ walk.offset + walk.limit \in Nat
    <3>1. walk.limit \in Limits \cup {0} /\ walk.offset \in Nat
      BY <1>0
    <3>2. Limits \cup {0} \subseteq Nat
      BY PagesAssumption
    <3>3. walk.limit \in Nat
      BY <3>1, <3>2
    <3> QED BY <3>1, <3>3
  <2>4. Append(walk.pages, P) \in Seq(SUBSET Rows)
    BY <1>0, <2>2
  <2>5. /\ walk' \in Walks /\ walk'.pages = Append(walk.pages, P) /\ walk'.type = walk.type
        /\ walk.pc # "idle" /\ walk'.limit = walk.limit
    BY <1>0, <1>8, <2>1, <2>3, <2>4 DEF Shows, Page
  <2>6. \A i \in DOMAIN walk'.pages : walk'.pages[i] \subseteq Selected(walk'.type, Rows)
    BY <1>0, <2>2, <2>5 DEF PagesTypeInv, PagesTypeOK
  <2> QED BY <1>8, <2>5, <2>6 DEF Page, PagesTypeInv, PagesTypeOK, Begun
<1>9. CASE UNCHANGED vars
  BY <1>9 DEF vars, PagesTypeInv, PagesTypeOK, Begun
<1> QED BY <1>1, <1>2, <1>3, <1>4, <1>5, <1>6, <1>7, <1>8, <1>9 DEF Next

LEMMA PagesTypeInvariance == Spec => []PagesTypeInv
BY PagesTypeInit, PagesTypeStep, PTL DEF Spec

\* Every variable keeps its type, and a page holds what its query selects (repositories.py
\* 200-227), for any number of bundles, page sizes and purges.
THEOREM PagesTypeCorrect == Spec => []PagesTypeOK
<1>1. PagesTypeInv => PagesTypeOK
  BY DEF PagesTypeInv
<1> QED BY <1>1, PagesTypeInvariance, PTL

-----------------------------------------------------------------------------
(* What a caller sees.                                                     *)

Rank(r) == Cardinality(Ahead(walk.sort, Selected(walk.type, rows), r))

\* The pages that show r.
Showing(pages, r) == {i \in DOMAIN pages : r \in pages[i]}

On(r) == Showing(walk.pages, r)

\* The rows that count: committed before the walk, selected by it, alone with their sort key.
Placed(r) == r \in Selected(walk.type, walk.begun) /\ Alone(r)

\* What is committed meanwhile only pushes older rows back, to pages still to come.
SeenInv ==
  /\ walk.begun \subseteq rows
  /\ \A r \in walk.begun : Placed(r) =>
       r \in Shown \/ (walk.offset <= Rank(r) /\ (walk.pc = "done" => walk.byTotal))

\* Without commits, `total` is what there is, and the pages so far are the ranks so far.
QuietInv ==
  rows = walk.begun =>
    /\ walk.pc = "page" => walk.total = Cardinality(Selected(walk.type, rows))
    /\ \A r \in walk.begun : Placed(r) =>
         /\ Cardinality(On(r)) = IF Rank(r) < walk.offset THEN 1 ELSE 0
         /\ walk.pc = "done" => Rank(r) < walk.offset

WalkInv == walk.pc # "idle" /\ ~walk.purged => SeenInv /\ QuietInv

\* A row's rank is a number that commits can only raise.
LEMMA RanksGrow ==
  ASSUME NEW sort \in Sorts, NEW type, NEW S \in SUBSET Rows, NEW T \in SUBSET Rows,
         IsFiniteSet(S), IsFiniteSet(T), S \subseteq T, NEW r
  PROVE  LET rank(U) == Cardinality(Ahead(sort, Selected(type, U), r)) IN
         rank(S) \in Nat /\ rank(T) \in Nat /\ rank(S) <= rank(T)
<1> DEFINE A(U) == Ahead(sort, Selected(type, U), r)
<1>1. A(S) \in SUBSET A(T) /\ A(T) \in SUBSET T
  BY DEF Ahead, Selected
<1>2. IsFiniteSet(A(T)) /\ IsFiniteSet(A(S)) /\ Cardinality(A(S)) <= Cardinality(A(T))
  BY <1>1, FS_Subset
<1> QED BY <1>2, FS_CardinalityType

\* A page that is appended shows its rows once more.
LEMMA AppendShows ==
  ASSUME NEW pages \in Seq(SUBSET Rows), NEW P \in SUBSET Rows, NEW r
  PROVE  /\ Cardinality(Showing(pages, r)) \in Nat
         /\ r \in P => Cardinality(Showing(Append(pages, P), r)) = Cardinality(Showing(pages, r)) + 1
         /\ r \notin P => Cardinality(Showing(Append(pages, P), r)) = Cardinality(Showing(pages, r))
         /\ Showing(pages, r) # {} \/ r \in P => Showing(Append(pages, P), r) # {}
<1> DEFINE n == Len(pages)
           more == Append(pages, P)
           A == Showing(pages, r)
           B == Showing(more, r)
<1>1. /\ n \in Nat /\ DOMAIN pages = 1 .. n /\ DOMAIN more = 1 .. (n + 1)
      /\ \A i \in 1 .. n : more[i] = pages[i]
      /\ more[n + 1] = P
  OBVIOUS
<1> HIDE DEF more, n
<1>2. B = IF r \in P THEN A \cup {n + 1} ELSE A
  BY <1>1 DEF Showing
<1>3. A \in SUBSET (1 .. n) /\ n + 1 \notin A
  BY <1>1 DEF Showing
<1>4. IsFiniteSet(1 .. n)
  BY <1>1, FS_Interval
<1>5. IsFiniteSet(A) /\ Cardinality(A) \in Nat
  BY <1>3, <1>4, FS_Subset, FS_CardinalityType
<1>6. Cardinality(A \cup {n + 1}) = Cardinality(A) + 1
  BY <1>3, <1>5, FS_AddElement
<1> HIDE DEF A, B
<1>7. /\ r \in P => Cardinality(B) = Cardinality(A) + 1
      /\ r \notin P => Cardinality(B) = Cardinality(A)
  BY <1>2, <1>5, <1>6
<1> QED BY <1>2, <1>5, <1>7 DEF A, B, more

\* What the page at walk.offset does to a row that counts.
LEMMA PagePlaces ==
  ASSUME PagesTypeInv, NEW r \in Selected(walk.type, rows), Alone(r), walk.pc # "idle",
         NEW P \in Pages(walk.sort, Selected(walk.type, rows), walk.offset, walk.limit)
  PROVE  /\ Rank(r) \in Nat /\ Rank(r) < Cardinality(Selected(walk.type, rows))
         /\ r \in P <=> walk.offset <= Rank(r) /\ Rank(r) < walk.offset + walk.limit
         /\ Rank(r) >= walk.offset + walk.limit => Cardinality(P) = walk.limit
         /\ Cardinality(P) < walk.limit =>
              Cardinality(Selected(walk.type, rows)) <= walk.offset + walk.limit
<1> DEFINE S == Selected(walk.type, rows)
<1>1. S \in SUBSET AnyRow /\ IsFiniteSet(S)
  BY SelectedTypes DEF PagesTypeInv, PagesTypeOK
<1>2. walk.limit \in Nat \ {0} /\ walk.offset \in Nat /\ walk.sort \in Sorts
  BY DEF PagesTypeInv, PagesTypeOK
<1>3. \A q \in S \ {r} : Before(walk.sort, r, q) \/ Before(walk.sort, q, r)
  BY DEF Alone
<1> HIDE DEF S
<1>4. P \in Pages(walk.sort, S, walk.offset, walk.limit) /\ r \in S
  BY DEF S
<1> QED BY <1>1, <1>2, <1>3, <1>4, RankDecides DEF Rank, S

LEMMA WalkStep == PagesTypeInv /\ PagesTypeInv' /\ WalkInv /\ [Next]_vars => WalkInv'
<1> SUFFICES ASSUME PagesTypeInv, PagesTypeInv', WalkInv, [Next]_vars,
                    walk'.pc # "idle", ~walk'.purged
             PROVE  SeenInv' /\ QuietInv'
  BY DEF WalkInv
<1>0. /\ rows \subseteq Rows /\ IsFiniteSet(rows) /\ rows' \subseteq Rows /\ IsFiniteSet(rows')
      /\ walk.sort \in Sorts /\ walk.offset \in Nat /\ walk.pages \in Seq(SUBSET Rows)
      /\ walk'.begun \subseteq Rows
  BY DEF PagesTypeInv, PagesTypeOK
<1>1. ASSUME rows' = rows, walk' = walk PROVE SeenInv' /\ QuietInv'
  BY <1>1 DEF WalkInv, SeenInv, QuietInv, Placed, Alone, Rank, On, Shown
<1>2. ASSUME NEW b \in Bundle, CommitIngest(b) PROVE SeenInv' /\ QuietInv'
  <2>1. rows \subseteq rows' /\ walk' = walk /\ SeenInv /\ QuietInv /\ walk.begun \subseteq rows
    BY <1>2 DEF CommitIngest, WalkInv, SeenInv
  <2>2. ASSUME NEW r \in walk.begun, Placed(r)' PROVE Placed(r)
    BY <2>1, <2>2 DEF Placed, Alone, Selected
  <2>3. \A r \in walk.begun : Rank(r) \in Nat /\ Rank(r)' \in Nat /\ Rank(r) <= Rank(r)'
    BY <1>0, <2>1, RanksGrow DEF Rank
  <2>4. SeenInv'
    BY <1>0, <2>1, <2>2, <2>3 DEF SeenInv, Shown
  <2>5. CASE rows' = rows
    BY <1>1, <2>1, <2>5
  <2>6. CASE rows' # rows
    BY <2>1, <2>4, <2>6 DEF QuietInv
  <2> QED BY <2>5, <2>6
<1>3. CASE PurgeCommits
  BY <1>3 DEF PurgeCommits, PagesTypeInv, PagesTypeOK
<1>4. CASE BeginWalk
  <2>1. /\ rows' = rows /\ walk'.begun = rows /\ walk'.offset = 0 /\ walk'.pages = <<>>
        /\ walk'.pc = "count" /\ walk'.sort \in Sorts
    BY <1>4 DEF BeginWalk
  <2>2. \A r \in rows : Rank(r)' \in Nat
    BY <1>0, <2>1, RanksGrow DEF Rank
  <2>3. \A r \in rows : Cardinality(On(r)') = 0
    <3>1. DOMAIN walk'.pages = {}
      BY <2>1
    <3> QED BY <3>1, FS_EmptySet DEF On, Showing
  <2> QED BY <2>1, <2>2, <2>3 DEF SeenInv, QuietInv
<1>5. CASE Count
  <2>1. /\ rows' = rows /\ walk'.begun = walk.begun /\ walk'.offset = walk.offset
        /\ walk'.pages = walk.pages /\ walk'.pc = "page" /\ walk'.sort = walk.sort
        /\ walk'.type = walk.type /\ walk'.total = Cardinality(Selected(walk.type, rows))
        /\ SeenInv /\ QuietInv
    BY <1>5 DEF Count, PagesTypeInv, PagesTypeOK, WalkInv
  <2>2. \A r : Rank(r)' = Rank(r) /\ On(r)' = On(r) /\ (Placed(r)' <=> Placed(r))
    BY <2>1 DEF Rank, On, Placed, Alone
  <2> QED BY <2>1, <2>2 DEF SeenInv, QuietInv, Shown
<1>6. CASE Page
  <2> DEFINE S == Selected(walk.type, rows)
  <2>1. PICK P \in Pages(walk.sort, S, walk.offset, walk.limit) : Shows(P)
    BY <1>6 DEF Page
  <2>2. /\ rows' = rows /\ walk'.begun = walk.begun /\ walk'.offset = walk.offset + walk.limit
        /\ walk'.pages = Append(walk.pages, P) /\ walk'.sort = walk.sort
        /\ walk'.type = walk.type /\ walk'.total = walk.total /\ walk'.byTotal = walk.byTotal
        /\ walk.pc = "page" /\ walk'.pc = IF Ends(P) THEN "done" ELSE "count"
        /\ SeenInv /\ QuietInv
    BY <1>6, <2>1 DEF Page, Shows, PagesTypeInv, PagesTypeOK, WalkInv
  <2>3. \A r : Rank(r)' = Rank(r) /\ (Placed(r)' <=> Placed(r))
    BY <2>2 DEF Rank, Placed, Alone
  <2>4. P \in SUBSET Rows
    BY <1>0, SelectedTypes DEF Pages
  <2>5. ASSUME NEW r
        PROVE  /\ Cardinality(On(r)) \in Nat
               /\ r \in P => Cardinality(On(r)') = Cardinality(On(r)) + 1
               /\ r \notin P => Cardinality(On(r)') = Cardinality(On(r))
               /\ r \in Shown \/ r \in P => r \in Shown'
    <3>1. On(r)' = Showing(Append(walk.pages, P), r)
      BY <2>2 DEF On
    <3>2. On(r) # {} \/ r \in P => On(r)' # {}
      BY <1>0, <2>4, <3>1, AppendShows DEF On
    <3>3. (r \in Shown <=> On(r) # {}) /\ (r \in Shown' <=> On(r)' # {})
      BY DEF Shown, On, Showing
    <3>4. /\ Cardinality(On(r)) \in Nat
          /\ r \in P => Cardinality(On(r)') = Cardinality(On(r)) + 1
          /\ r \notin P => Cardinality(On(r)') = Cardinality(On(r))
      <4>1. On(r) = Showing(walk.pages, r)
        BY DEF On
      <4>2. walk.pages \in Seq(SUBSET Rows)
        BY <1>0
      <4>3. /\ Cardinality(Showing(walk.pages, r)) \in Nat
            /\ r \in P => Cardinality(Showing(Append(walk.pages, P), r))
                             = Cardinality(Showing(walk.pages, r)) + 1
            /\ r \notin P => Cardinality(Showing(Append(walk.pages, P), r))
                                = Cardinality(Showing(walk.pages, r))
        BY <2>4, <4>2, AppendShows, Zenon
      <4> QED BY <3>1, <4>1, <4>3, Zenon
    <3> QED BY <3>2, <3>3, <3>4
  <2>6. walk.limit \in Nat \ {0}
    BY <2>2 DEF PagesTypeInv
  <2>7. walk.begun \subseteq rows
    BY <2>2 DEF SeenInv
  <2>8. ASSUME NEW r \in walk.begun, Placed(r)
        PROVE  /\ Rank(r) \in Nat /\ Rank(r) < Cardinality(S)
               /\ r \in P <=> walk.offset <= Rank(r) /\ Rank(r) < walk.offset + walk.limit
               /\ Rank(r) >= walk.offset + walk.limit => Cardinality(P) = walk.limit
               /\ Cardinality(P) < walk.limit => Cardinality(S) <= walk.offset + walk.limit
    <3>1. r \in S /\ Alone(r)
      BY <2>7, <2>8 DEF Placed, Selected
    <3> QED BY <2>2, <3>1, PagePlaces
  <2>9. Cardinality(S) \in Nat /\ walk.total \in Nat
    BY <1>0, SelectedTypes DEF PagesTypeInv, PagesTypeOK
  <2>10. ASSUME NEW r \in walk.begun, Placed(r)
         PROVE  r \in Shown' \/ (walk'.offset <= Rank(r) /\ (walk'.pc = "done" => walk.byTotal))
    <3>1. CASE r \in Shown \/ r \in P
      BY <2>5, <3>1
    <3>2. CASE r \notin Shown /\ r \notin P
      <4>1. walk.offset <= Rank(r)
        BY <2>2, <2>10, <3>2 DEF SeenInv
      <4>2. Rank(r) >= walk.offset + walk.limit
        BY <1>0, <2>6, <2>8, <2>10, <3>2, <4>1
      <4>3. Cardinality(P) = walk.limit
        BY <2>8, <2>10, <4>2
      <4>4. walk'.pc = "done" => walk.byTotal
        BY <2>2, <2>6, <4>3 DEF Ends
      <4> QED BY <2>2, <4>2, <4>4, <1>0, <2>6, <2>8, <2>10
    <3> QED BY <3>1, <3>2
  <2>11. ASSUME rows = walk.begun, NEW r \in walk.begun, Placed(r)
         PROVE  /\ Cardinality(On(r)') = IF Rank(r) < walk'.offset THEN 1 ELSE 0
                /\ walk'.pc = "done" => Rank(r) < walk'.offset
    <3>1. /\ Cardinality(On(r)) = IF Rank(r) < walk.offset THEN 1 ELSE 0
          /\ walk.total = Cardinality(S)
      BY <2>2, <2>11 DEF QuietInv
    <3>2. Cardinality(On(r)') = IF Rank(r) < walk'.offset THEN 1 ELSE 0
      BY <1>0, <2>2, <2>5, <2>6, <2>8, <2>11, <3>1
    <3>3. CASE walk'.pc = "done"
      <4>1. Ends(P)
        BY <2>2, <3>3
      <4>2. Cardinality(S) <= walk.offset + walk.limit
        <5>1. CASE walk.byTotal
          BY <1>0, <2>6, <2>9, <3>1, <4>1, <5>1 DEF Ends
        <5>2. CASE ~walk.byTotal
          BY <2>8, <2>11, <4>1, <5>2 DEF Ends
        <5> QED BY <5>1, <5>2
      <4> QED BY <1>0, <2>2, <2>6, <2>8, <2>9, <2>11, <3>2, <4>2
    <3> QED BY <3>2, <3>3
  <2>12. SeenInv'
    BY <2>2, <2>3, <2>7, <2>10 DEF SeenInv
  <2>13. walk'.pc # "page"
    BY <2>2
  <2>14. QuietInv'
    BY <2>2, <2>3, <2>11, <2>13 DEF QuietInv
  <2> QED BY <2>12, <2>14
<1>7. ASSUME NEW b \in Bundle, BeginIngest(b) \/ RollbackIngest(b) PROVE SeenInv' /\ QuietInv'
  BY <1>1, <1>7 DEF BeginIngest, RollbackIngest
<1>8. CASE PurgeDeletes \/ UNCHANGED vars
  BY <1>1, <1>8 DEF PurgeDeletes, vars
<1> QED BY <1>2, <1>3, <1>4, <1>5, <1>6, <1>7, <1>8 DEF Next

\* The inductive invariant of a walk: rows that are committed meanwhile only push older ones
\* back (repositories.py 200-227), and `total` is right while nothing is.
THEOREM WalkInvariance == Spec => []WalkInv
<1>1. Init => WalkInv
  BY DEF Init, NoWalk, WalkInv
<1> QED BY <1>1, WalkStep, PagesTypeInvariance, PTL DEF Spec

\* A caller that pages to the first short page sees every row stored before it began, unless
\* others share the row's sort key or a purge interferes (repositories.py 200-227).
THEOREM NothingIsSkipped == Spec => []WalkSeesEverything
<1>1. WalkInv => WalkSeesEverything
  BY DEF WalkInv, SeenInv, Placed, WalkSeesEverything, Selected
<1> QED BY <1>1, WalkInvariance, PTL

\* With nothing written meanwhile it sees each such row once, and so does a caller that stops
\* at `total` (repositories.py 225-227).
THEOREM NothingIsRepeated == Spec => []QuietWalkShowsOnce
<1>1. WalkInv => QuietWalkShowsOnce
  BY DEF WalkInv, QuietInv, Placed, On, Showing, QuietWalkShowsOnce, Selected
<1> QED BY <1>1, WalkInvariance, PTL
=============================================================================
