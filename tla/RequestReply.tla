----------------------------- MODULE RequestReply -----------------------------
(***************************************************************************)
(* What a request/response protocol promises to its callers: a request is  *)
(* handled at most once, and a caller gets a result only for the very      *)
(* request it made and only after the other side has handled it.           *)
(***************************************************************************)
CONSTANT Ids

VARIABLES caller,  \* per id: idle, waiting, or the outcome the caller is about to see
          work     \* per id: none, due, once (handled), failed

Init ==
  /\ caller = [i \in Ids |-> "idle"]
  /\ work = [i \in Ids |-> "none"]

Ask(i)   == caller[i] = "idle" /\ caller'[i] = "waiting" /\ work'[i] = "due"
Work(i)  == work[i] = "due" /\ work'[i] \in {"once", "failed"} /\ caller'[i] = caller[i]
Reply(i) == caller[i] = "waiting" /\ work[i] = "once" /\ caller'[i] = "result" /\ work'[i] = work[i]
Fail(i)  == caller[i] = "waiting" /\ caller'[i] = "exception" /\ work'[i] = work[i]
\* The caller sees the outcome, gives up, or is gone.
End(i)   == caller'[i] = "idle" /\ work'[i] = work[i]
Rest(i)  == caller'[i] = caller[i] /\ work'[i] = work[i]

\* One step of an implementation may fail or end several requests.
Next ==
  /\ DOMAIN caller' = Ids /\ DOMAIN work' = Ids
  /\ \A i \in Ids : Ask(i) \/ Work(i) \/ Reply(i) \/ Fail(i) \/ End(i) \/ Rest(i)

Spec == Init /\ [][Next]_<<caller, work>>
=============================================================================
