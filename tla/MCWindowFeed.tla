----------------------------- MODULE MCWindowFeed -----------------------------
(* Two connectors that share observables, and list them in opposite order; some *)
(* of their windows do not fit into a frame.                                     *)
EXTENDS WindowFeed

Item(value, at, place, family, sort, size) ==
  [value |-> value, at |-> at, place |-> place, family |-> family, sort |-> sort, size |-> size]

MCFeed ==
  [c \in Connector |->
     CASE c = "threatfox" -> {Item("one", 1, 1, "none", "known", 1),
                              Item("two", 2, 2, "family", "known", 1),
                              Item("bad address", 3, 3, "none", "invalid", 2)}
       [] c = "urlhaus" -> {Item("two", 1, 1, "none", "known", 1),
                            Item("one", 2, 2, "none", "known", 1),
                            Item("long", 3, 3, "none", "known", 3)}
       [] OTHER -> {Item("two", 1, 1, "family", "known", 1),
                    Item("unreadable", 2, 2, "none", "malformed", 1)}]

MCSetups ==
  {[s \in Session |-> IF s = "s1" THEN "threatfox" ELSE c] : c \in {"urlhaus", "malwarebazaar"}}
=============================================================================
