---------------------------- MODULE MCCatalogFeed ----------------------------
(* Two small catalogs, and three deployments that follow them.             *)
EXTENDS CatalogFeed

Item(name, modified, content, sort) ==
  [name |-> name, modified |-> modified, content |-> content, sort |-> sort, size |-> 1]

Long(item, size) == [item EXCEPT !.size = size]

\* An object revised, one of a custom type, one that cannot be stored, one dropped;
\* the last revision lists its objects in another order.
AttackCatalog ==
  << <<Item("tactic", 1, 0, "known"), Item("matrix", 1, 0, "custom")>>,
     <<Item("tactic", 2, 0, "known"), Item("broken", 1, 0, "unreadable")>>,
     <<Item("matrix", 1, 0, "custom"), Item("revoked", 1, 0, "skipped"),
       Item("tactic", 1, 0, "known"), Item("tool", 1, 0, "known")>> >>

\* An entry edited without a new date, after a revision that does not parse; then the
\* catalog grows past what fits into one frame.
KevCatalog ==
  << <<Item("cve", 1, 0, "known")>>,
     <<Item("no date", 1, 0, "malformed")>>,
     <<Item("cve", 1, 1, "known")>>,
     <<Item("cve", 1, 1, "known"), Long(Item("new", 1, 0, "known"), 3)>> >>

MCCatalog == [k \in Kind |-> IF k = "kev" THEN KevCatalog ELSE AttackCatalog]

MCHeaders == [k \in Kind |-> IF k = "kev" THEN {"last_modified"} ELSE Validators]

MCAllowCustom == [i \in Instance |-> i = "one"]

Deployment(home2, kind2) ==
  [home |-> [s \in Session |-> IF s = "s1" THEN "one" ELSE home2],
   kind |-> [i \in Instance |-> IF i = "one" THEN "attack" ELSE kind2]]

\* Two sessions of one instance, two instances of one connector, two connectors.
MCSetups == {Deployment("one", "attack"), Deployment("two", "attack"), Deployment("two", "kev")}
=============================================================================
