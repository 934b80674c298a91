------------------------------ MODULE WindowFeed ------------------------------
(***************************************************************************)
(* The abuse.ch connectors threatfox, urlhaus and malwarebazaar            *)
(* (src/prow/connectors/*/connector.py) over the store of StixStore: each  *)
(* fetch() asks its API for a recent window, by days or by number, builds  *)
(* observables, indicators, families and relationships with                *)
(* stix/helpers.py, and emits them as one bundle.  The API is external:    *)
(* entries appear as time passes and leave the window again.               *)
(***************************************************************************)
EXTENDS StixStore

CONSTANTS
  Feed,         \* per connector: the set of entries its API will publish
  Setups,       \* deployments: session -> connector
  Day,          \* ticks of the clock in a day
  DaysBack,     \* threatfox: days_back, the window of the first fetch
  Limit,        \* urlhaus, malwarebazaar: limit
  StreamLimit,  \* the longest frame the runtime's reader returns
  FrameLimit,   \* MAX_MESSAGE_BYTES: the longest frame encode() returns
  MaxTick,      \* bound on the clock
  MaxFetches,   \* bound on the fetches of all connectors together
  MaxFailures   \* bound on interrupted fetches and failed transactions

Connector == {"threatfox", "urlhaus", "malwarebazaar"}

ASSUME WindowAssumption ==
  /\ Key = {"last_fetch_date", "last_successful_fetch"}
  /\ Instance = Session
  /\ DOMAIN Feed = Connector
  /\ Setups \subseteq [Session -> Connector]
  /\ \A c \in Connector : \A d, e \in Feed[c] : d.at = e.at => d = e
  /\ \A c \in Connector : IsFiniteSet(Feed[c])
  /\ \A c \in Connector : \A e \in Feed[c] :
       e.at \in Nat /\ e.sort \in {"known", "invalid", "malformed"} /\ e.size \in Nat \ {0}
  /\ Day \in Nat /\ DaysBack \in Nat \ {0} /\ {Limit, StreamLimit, FrameLimit} \subseteq Nat
  /\ MaxTick \in Nat \ {0} /\ MaxFetches \in Nat /\ MaxFailures \in Nat

VARIABLES
  connector,   \* per session: what it runs
  tick,        \* the clock
  pc,          \* per session: where fetch() is
  plan,        \* per session: the fetch's locals
  draws,       \* uuid4() and clock readings so far, one for each fetch
  failures,
  done,        \* history: per session, when its last completed request was made
  due          \* history: the entries its completed requests should have stored

feedVars == <<connector, tick, pc, plan, draws, failures, done, due>>
vars == <<storeVars, feedVars>>

Now == 1   \* a time stamp: only whether there is one is ever looked at

NoPlan == [days |-> 0, asked |-> 0, draw |-> 0]

Init ==
  /\ StoreInit
  /\ connector \in Setups
  /\ tick = 1
  /\ pc = [s \in Session |-> "idle"]
  /\ plan = [s \in Session |-> NoPlan]
  /\ draws = 0 /\ failures = 0
  /\ done = [s \in Session |-> 0]
  /\ due = [s \in Session |-> {}]

Goto(s, to) == pc' = [pc EXCEPT ![s] = to]

Idle(s) == Goto(s, "idle") /\ plan' = [plan EXCEPT ![s] = NoPlan]

\* fetch() waits for an acknowledgement that never comes; nothing reads its locals again.
Unanswered(s) == Goto(s, "unanswered") /\ plan' = [plan EXCEPT ![s] = NoPlan]

-----------------------------------------------------------------------------
(* What the API returns, and the objects made of it.                       *)

Published(s) == {e \in Feed[connector[s]] : e.at <= tick}

Latest(n, entries) == {e \in entries : Cardinality({d \in entries : d.at > e.at}) < n}

Reply(s, days) ==
  IF connector[s] = "threatfox"
  THEN {e \in Published(s) : e.at > tick - days * Day}
  ELSE Latest(Limit, Published(s))

\* Observables and families have ids of their content, everything else a fresh uuid4.
ObservableId(e) == <<"observable", e.value>>
FamilyId(e) == <<"malware", e.family>>
IndicatorId(e, n) == <<"indicator", e, n>>

Object(id, modified, sort, ends) ==
  [id |-> id, modified |-> modified, sort |-> sort, ends |-> ends]

HasFamily(e) == e.family # "none"

\* In bundle order: the observable, the indicator and "based-on", the family and "indicates".
ObjectsOf(e, n) ==
  {<<1, Object(ObservableId(e), NoVersion, e.sort, {})>>,
   <<2, Object(IndicatorId(e, n), n, "known", {})>>,
   <<3, Object(<<"based-on", e, n>>, n, "known", {IndicatorId(e, n), ObservableId(e)})>>}
  \cup (IF HasFamily(e)
        THEN {<<4, Object(FamilyId(e), n, "known", {})>>,
              <<5, Object(<<"indicates", e, n>>, n, "known", {IndicatorId(e, n), FamilyId(e)})>>}
        ELSE {})

Items(entries, n) ==
  UNION {{[at |-> 10 * e.place + p[1], obj |-> p[2]] : p \in ObjectsOf(e, n)} : e \in entries}

\* The length of the frame that carries the bundle, in units of an entry's size.
FrameSize(entries) == Cardinality(UNION {{e} \X (1 .. e.size) : e \in entries})

\* An entry that cannot be read, or is of an unknown type, fails the whole fetch.
Malformed(entries) == \E e \in entries : e.sort = "malformed"

-----------------------------------------------------------------------------
(* fetch().                                                                *)

\* threatfox first reads how far back it has to go; the others keep no such state.
Start(s) ==
  /\ pc[s] = "idle" /\ draws < MaxFetches
  /\ draws' = draws + 1
  /\ plan' = [plan EXCEPT ![s].days = IF saved[s]["last_fetch_date"] # NoValue THEN 1 ELSE DaysBack,
                          ![s].draw = draws + 1]
  /\ Goto(s, "request")
  /\ UNCHANGED <<storeVars, connector, tick, failures, done, due>>

\* Were the entries since the last completed request still within reach of this one?
WithinReach(s, asked) ==
  IF connector[s] = "threatfox"
  THEN asked - done[s] <= Day
  ELSE Cardinality({e \in Feed[connector[s]] : done[s] < e.at /\ e.at <= asked}) <= Limit

\* What a first request is for, and what a later one adds.
Promised(s, asked) ==
  LET so_far == {e \in Feed[connector[s]] : e.at <= asked} IN
  CASE done[s] = 0 /\ connector[s] = "threatfox" -> {e \in so_far : e.at > asked - DaysBack * Day}
    [] done[s] = 0 /\ connector[s] # "threatfox" -> Latest(Limit, so_far)
    [] OTHER -> IF WithinReach(s, asked) THEN {e \in so_far : e.at > done[s]} ELSE {}

Completed(s, asked) ==
  /\ done' = [done EXCEPT ![s] = asked]
  /\ due' = [due EXCEPT ![s] = @ \cup Promised(s, asked)]

\* The request, its reply, and all objects built before the emit; encode() raises on a
\* long bundle, and one that is longer than the runtime can read ends the session.  (The
\* min_confidence of urlhaus keeps every entry or none: its connector gives all the same
\* confidence.)
Request(s) ==
  LET entries == Reply(s, plan[s].days)
      valid == ValidItems(Items(entries, plan[s].draw), FALSE) IN
  /\ pc[s] = "request" /\ ~tx[s].open
  /\ \/ /\ Malformed(entries) \/ FrameSize(entries) > FrameLimit
        /\ Idle(s) /\ UNCHANGED <<storeVars, done, due>>
     \/ /\ ~Malformed(entries) /\ entries = {}
        /\ Completed(s, tick)
        /\ IF connector[s] = "threatfox"
           THEN Goto(s, "empty") /\ UNCHANGED plan
           ELSE Idle(s)
        /\ UNCHANGED storeVars
     \/ /\ ~Malformed(entries) /\ entries # {}
        /\ FrameSize(entries) <= FrameLimit /\ FrameSize(entries) > StreamLimit
        /\ Unanswered(s) /\ UNCHANGED <<storeVars, done, due>>
     \/ /\ ~Malformed(entries) /\ entries # {}
        /\ FrameSize(entries) <= FrameLimit /\ FrameSize(entries) <= StreamLimit
        /\ plan' = [plan EXCEPT ![s].asked = tick]
        /\ BeginIngest(s, valid)
        /\ Goto(s, "wait")
        /\ UNCHANGED <<done, due>>
  /\ UNCHANGED <<connector, tick, draws, failures>>

\* Faulty variant: a row another transaction holds is taken for stored.
SkipHeldRow(s) ==
  /\ \E i \in NextItem(s) :
       /\ Stored(i.obj) \/ Repeated(s, i.obj) \/ Holders(s, i.obj) # {}
       /\ tx' = [tx EXCEPT ![s].todo = @ \ {i}]
  /\ UNCHANGED <<rows, saved, purge>>

InsertOrSkipHeld(s) == (InsertRow(s) \/ SkipHeldRow(s)) /\ UNCHANGED feedVars

Insert(s) == (InsertRow(s) \/ SkipRow(s)) /\ UNCHANGED feedVars

Acked(s) ==
  /\ Commit(s, s)
  /\ IF pc[s] = "wait"
     THEN /\ Completed(s, plan[s].asked)
          /\ Goto(s, IF connector[s] = "threatfox" THEN "date" ELSE "stamp")
     ELSE UNCHANGED <<pc, done, due>>
  /\ UNCHANGED <<connector, tick, plan, draws, failures>>

\* Faulty variant: the session outlives a handler that raised, with its emit unanswered.
TxFailsQuietly(s) ==
  /\ Rollback(s)
  /\ IF Deadlocked(s) THEN UNCHANGED failures
     ELSE failures < MaxFailures /\ failures' = failures + 1
  /\ UNCHANGED <<connector, tick, pc, plan, draws, done, due>>

\* The handler raises: it sends no acknowledgement, and the session of its subprocess is
\* over, be its own fetch still waiting, cancelled and followed by another, or gone.
TxFails(s) ==
  /\ Rollback(s)
  /\ IF Deadlocked(s) THEN UNCHANGED failures
     ELSE failures < MaxFailures /\ failures' = failures + 1
  /\ \/ pc[s] # "idle" /\ Unanswered(s)
     \/ pc[s] # "wait" /\ UNCHANGED <<pc, plan>>
  /\ UNCHANGED <<connector, tick, draws, done, due>>

\* Faulty variant: the date is stored while the emit is still unanswered.
SaveDateEarly(s) ==
  /\ pc[s] \in {"date", "empty", "wait"} /\ saved[s]["last_fetch_date"] = NoValue
  /\ SetValue(s, "last_fetch_date", Now)
  /\ CASE pc[s] = "date" -> Goto(s, "stamp") /\ UNCHANGED plan
       [] pc[s] = "empty" -> Idle(s)
       [] OTHER -> UNCHANGED <<pc, plan>>
  /\ UNCHANGED <<connector, tick, draws, failures, done, due>>

\* last_fetch_date, after the emit or when there was nothing to emit.
SaveDate(s) ==
  /\ pc[s] \in {"date", "empty"}
  /\ SetValue(s, "last_fetch_date", Now)
  /\ IF pc[s] = "date" THEN Goto(s, "stamp") /\ UNCHANGED plan ELSE Idle(s)
  /\ UNCHANGED <<connector, tick, draws, failures, done, due>>

SaveStamp(s) ==
  /\ pc[s] = "stamp"
  /\ SetValue(s, "last_successful_fetch", Now)
  /\ Idle(s)
  /\ UNCHANGED <<connector, tick, draws, failures, done, due>>

\* Cancelled, crashed or failed between two awaits; the handler in the runtime goes on.
Interrupted(s) ==
  /\ pc[s] # "idle" /\ failures < MaxFailures
  /\ failures' = failures + 1
  /\ Idle(s)
  /\ UNCHANGED <<storeVars, connector, tick, draws, done, due>>

\* Nor are its health probes answered any more: after two misses in a row the
\* runtime kills the subprocess and starts another.
ConnectorReplaced(s) ==
  /\ pc[s] = "unanswered"
  /\ Idle(s)
  /\ UNCHANGED <<storeVars, connector, tick, draws, failures, done, due>>

Tick ==
  /\ tick < MaxTick /\ tick' = tick + 1
  /\ UNCHANGED <<storeVars, connector, pc, plan, draws, failures, done, due>>

Fetch(s) == Start(s) \/ Request(s) \/ SaveDate(s) \/ SaveStamp(s) \/ ConnectorReplaced(s)
Handler(s) == Insert(s) \/ Acked(s)

Next ==
  \/ \E s \in Session : Fetch(s) \/ Handler(s) \/ TxFails(s) \/ Interrupted(s)
  \/ Tick

\* As for the catalogs: running connectors go on, the health loop replaces one that is
\* not answered, woken inserts proceed, Postgres ends deadlocks.
Fairness ==
  \A s \in Session : /\ WF_vars(Fetch(s)) /\ SF_vars(Handler(s))
                     /\ WF_vars(Deadlocked(s) /\ TxFails(s))

Spec == Init /\ [][Next]_vars
FairSpec == Spec /\ Fairness

-----------------------------------------------------------------------------
(* Correctness.                                                            *)

\* Every variable has its type, and nothing of a fetch outlives it but the date and the
\* stamp (the fetch() methods keep everything else in locals).
WindowTypeOK ==
  /\ saved \in [Instance -> [Key -> {NoValue, Now}]]
  /\ \A s \in Session : tx[s].open \in BOOLEAN /\ (~tx[s].open => tx[s] = NoTx)
  /\ purge = NoPurge
  /\ connector \in Setups
  /\ pc \in [Session -> {"idle", "request", "wait", "date", "empty", "stamp", "unanswered"}]
  /\ \A s \in Session : pc[s] = "idle" => plan[s] = NoPlan
  /\ tick \in 1 .. MaxTick /\ draws \in 0 .. MaxFetches /\ failures \in 0 .. MaxFailures

\* The validator refuses some observables (an IPv6 address sent as ip:port, say),
\* but not the relationships that name them.
RejectedId(id) ==
  \E c \in Connector : \E e \in Feed[c] : e.sort = "invalid" /\ id = ObservableId(e)

\* A stored relationship never points at an object that should be stored and is
\* not, although observables are shared between connectors and whoever comes
\* second skips them: neither a rollback nor a dead lock of the first leaves the
\* second's relationships dangling (ingest.py 120-126, repositories.py 154-177).
RelationshipsResolve ==
  \A r \in rows : \A id \in r.obj.ends :
    RejectedId(id) \/ \E q \in rows : q.obj.id = id

Indicated == {r.obj.id[2] : r \in {q \in rows : q.obj.id[1] = "indicator"}}

\* As long as completed requests follow each other within the window (a day for
\* threatfox, "limit" new entries for the others), everything published since
\* the first is stored, and so is all that the first one reaches back for,
\* however often fetches failed in between: the shorter window of one day is
\* used only once the longer one has been stored.
NothingMissed == \A s \in Session : due[s] \subseteq Indicated

\* A fetch that started ends, even if its transaction and another connector's
\* wait for each other's observables, its bundle cannot be sent or is not answered.
EachFetchEnds == \A s \in Session : pc[s] # "idle" ~> pc[s] = "idle"
=============================================================================
