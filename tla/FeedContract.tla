----------------------------- MODULE FeedContract -----------------------------
(***************************************************************************)
(* What mirroring published catalogs promises: only what has been          *)
(* published is held, a cursor moves only to a published revision that is  *)
(* held in full, and what is held is dropped only by forgetting a feed,    *)
(* together with the cursors of its followers.                             *)
(***************************************************************************)
EXTENDS Naturals

CONSTANTS
  Feeds,           \* what is published
  Followers,       \* who keeps cursors
  Cursors,         \* the cursors a follower keeps
  Items,           \* everything a feed may contain
  Content(_, _, _),\* the items of a feed's revision that a follower has to hold
  NoRevision

VARIABLES
  follows,     \* Followers -> Feeds, fixed
  published,   \* per feed: its revision
  held,        \* the items held
  cursor       \* per follower and cursor: a revision, or NoRevision

vars == <<follows, published, held, cursor>>

Init ==
  /\ follows \in [Followers -> Feeds]
  /\ published = [f \in Feeds |-> 1]
  /\ held = {}
  /\ cursor = [w \in Followers |-> [c \in Cursors |-> NoRevision]]

Publish(f) ==
  /\ published' = [published EXCEPT ![f] = @ + 1]
  /\ UNCHANGED <<follows, held, cursor>>

Deliver ==
  /\ held \subseteq held' /\ held' \subseteq Items
  /\ UNCHANGED <<follows, published, cursor>>

Advance(w, c) ==
  /\ \E v \in 1 .. published[follows[w]] :
       /\ Content(follows[w], w, v) \subseteq held
       /\ cursor' = [cursor EXCEPT ![w][c] = v]
  /\ UNCHANGED <<follows, published, held>>

\* The other feeds keep their cursors, and all that those stand for.
Forget(f) ==
  /\ held' \subseteq held
  /\ cursor' = [w \in Followers |->
                  IF follows[w] = f THEN [c \in Cursors |-> NoRevision] ELSE cursor[w]]
  /\ \A w \in Followers : \A c \in Cursors :
       cursor'[w][c] # NoRevision => Content(follows[w], w, cursor'[w][c]) \subseteq held'
  /\ UNCHANGED <<follows, published>>

Next ==
  \/ Deliver
  \/ \E f \in Feeds : Publish(f) \/ Forget(f)
  \/ \E w \in Followers, c \in Cursors : Advance(w, c)

Spec == Init /\ [][Next]_vars
=============================================================================
