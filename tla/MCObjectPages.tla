---------------------------- MODULE MCObjectPages ----------------------------
(***************************************************************************)
(* Four objects in three bundles: two share a bundle, two a created date.  *)
(***************************************************************************)
EXTENDS ObjectPages

MCBundle == {"b1", "b2", "b3"}
MCObject == {"o1", "o2", "o3", "o4"}
MCCarries == [b \in MCBundle |-> CASE b = "b1" -> {"o1", "o2"} [] b = "b2" -> {"o3"} [] OTHER -> {"o4"}]
MCTypeOf == [o \in MCObject |-> IF o \in {"o2"} THEN "malware" ELSE "indicator"]
MCCreated == [o \in MCObject |-> CASE o = "o1" -> 3 [] o = "o2" -> 1 [] OTHER -> 2]
MCConfidence == [o \in MCObject |-> IF o \in {"o1", "o3"} THEN 50 ELSE NoConfidence]
MCLimits == {1, 2}
=============================================================================
