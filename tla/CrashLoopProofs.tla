--------------------------- MODULE CrashLoopProofs ---------------------------
(***************************************************************************)
(* Proofs about CrashLoop: what the two ends of the hello exchange agree   *)
(* on, for all sets of versions, whichever end times out or dies; and that *)
(* the circuit breaker follows the rolling window, for every window and    *)
(* every number of restarts; and that the attempts implement               *)
(* SubprocessLifecycle.                                                    *)
(***************************************************************************)
EXTENDS CrashLoop, FiniteSetTheorems, SequenceTheorems, TLAPS

-----------------------------------------------------------------------------
(* Finite sets of numbers.                                                 *)

\* A finite set of numbers has a highest one: the one with the fewest numbers above it.
LEMMA HighestExists ==
  ASSUME NEW S \in SUBSET Nat, IsFiniteSet(S), S # {}
  PROVE  \E v \in S : \A w \in S : v >= w
<1> DEFINE Above(v) == {w \in S : w > v}
           T == {Above(v) : v \in S}
<1>2. T \subseteq FiniteSubsetsOf(S) /\ T # {}
  <2>1. \A x \in T : x \in SUBSET S
    OBVIOUS
  <2>2. SUBSET S = FiniteSubsetsOf(S)
    BY FS_FiniteSubsetsOfFinite
  <2>3. PICK first \in S : TRUE
    OBVIOUS
  <2>4. Above(first) \in T
    OBVIOUS
  <2> HIDE DEF T, Above
  <2> QED BY <2>1, <2>2, <2>4
<1>3. \E x \in T : \A y \in T : <<y, x>> \notin StrictSubsetOrdering(S)
  <2> HIDE DEF T
  <2> QED BY <1>2, FS_StrictSubsetOrderingWellFounded, WFMin
<1>4. PICK v \in S : \A w \in S : <<Above(w), Above(v)>> \notin StrictSubsetOrdering(S)
  BY <1>3
<1>5. ASSUME NEW w \in S, w > v
      PROVE  FALSE
  <2>1. /\ v \in Nat /\ w \in Nat
        /\ \A x \in S : x \in Nat /\ (x > w => x > v)
    BY <1>5
  <2>2. ~(w > w)
    BY <2>1
  <2>3. Above(w) \subseteq Above(v) /\ w \in Above(v) /\ w \notin Above(w)
    BY <1>5, <2>1, <2>2, Zenon
  <2>4. <<Above(w), Above(v)>> \in StrictSubsetOrdering(S)
    BY <2>3 DEF StrictSubsetOrdering
  <2> QED BY <1>4, <2>4
<1>6. \A w \in S : v >= w
  BY <1>5
<1> QED BY <1>6

\* A finite set of versions has a highest one, which Max returns.
LEMMA MaxOfVersions ==
  ASSUME NEW S \in SUBSET Versions, S # {}
  PROVE  Max(S) \in S /\ Max(S) \in Nat \ {0}
<1>1. IsFiniteSet(S) /\ S \subseteq Nat \ {0}
  BY VersionsAssumption, FS_Subset
<1>2. \E v \in S : \A w \in S : v >= w
  BY <1>1, HighestExists
<1> QED BY <1>1, <1>2 DEF Max

\* A set of indices that holds every index before one it holds is an initial segment.
LEMMA InitialSegment ==
  ASSUME NEW n \in Nat, NEW D \in SUBSET (1 .. n), \A i \in D : 1 .. i \subseteq D
  PROVE  D = 1 .. Cardinality(D) /\ Cardinality(D) \in 0 .. n
<1>1. IsFiniteSet(D)
  <2>1. IsFiniteSet(1 .. n)
    BY FS_Interval
  <2> QED BY <2>1, FS_Subset
<1>2. CASE D = {}
  <2>1. Cardinality(D) = 0
    BY <1>2, FS_EmptySet
  <2> QED BY <1>2, <2>1
<1>3. CASE D # {}
  <2>1. PICK k \in D : \A i \in D : k >= i
    <3>1. D \in SUBSET Nat
      OBVIOUS
    <3> QED BY <1>1, <1>3, <3>1, HighestExists
  <2>2. D = 1 .. k /\ k \in 1 .. n
    <3>1. \A i \in D : i \in 1 .. k
      BY <2>1
    <3>2. 1 .. k \subseteq D
      BY <2>1
    <3> QED BY <3>1, <3>2
  <2>3. Cardinality(1 .. k) = k
    BY <2>2, FS_Interval
  <2> QED BY <2>2, <2>3
<1> QED BY <1>2, <1>3

-----------------------------------------------------------------------------
(* The hello exchange.                                                     *)

Overlap == RuntimeVersions \cap supported

SomeVersion == supported \in SUBSET Versions /\ supported # {}

\* What the connector wrote is the best version for both, on which it has settled if it
\* still runs, or, if there is none, a version that the runtime will not accept.
AnswerInv ==
  /\ toRuntime \in Nat
  /\ toRuntime # NoMessage =>
       IF Overlap # {}
       THEN toRuntime = Max(Overlap) /\ (connector.pc # "gone" => connector = Peer("agreed", toRuntime))
       ELSE toRuntime \in supported

HelloInv == SomeVersion /\ AnswerInv /\ AgreeOnVersion

\* HighestOverlap returns 0 exactly when there is no common version.
LEMMA OverlapOrZero ==
  ASSUME SomeVersion
  PROVE  IF Overlap = {} THEN HighestOverlap(RuntimeVersions, supported) = 0
         ELSE /\ HighestOverlap(RuntimeVersions, supported) = Max(Overlap)
              /\ Max(Overlap) \in Nat \ {0}
<1>1. Overlap # {} => Max(Overlap) \in Nat \ {0}
  BY MaxOfVersions DEF SomeVersion, Overlap
<1> QED BY <1>1 DEF HighestOverlap, Overlap

\* A new exchange starts with empty books.
LEMMA FreshExchange ==
  ASSUME SomeVersion, supported' = supported, toRuntime' = NoMessage, runtime'.pc # "agreed"
  PROVE  HelloInv'
BY DEF HelloInv, SomeVersion, AnswerInv, AgreeOnVersion, NoMessage

\* The connector's answer is the one that the invariant describes; a runtime that has
\* agreed does not get another.
LEMMA AnswerKeeps ==
  ASSUME HelloInv, ConnectorAnswers
  PROVE  HelloInv'
<1>1. connector.pc = "reads" /\ supported' = supported /\ runtime' = runtime
  BY DEF ConnectorAnswers, exchangeVars
<1>2. runtime.pc # "agreed"
  BY <1>1 DEF HelloInv, AgreeOnVersion
<1>3. SomeVersion
  BY DEF HelloInv
<1>4. CASE Overlap # {}
  <2>1. HighestOverlap(RuntimeVersions, supported) = Max(Overlap) /\ Max(Overlap) \in Nat \ {0}
    BY <1>3, <1>4, OverlapOrZero
  <2>2. toRuntime' = Max(Overlap) /\ connector' = Peer("agreed", Max(Overlap))
    BY <2>1 DEF ConnectorAnswers
  <2> QED BY <1>1, <1>2, <1>3, <1>4, <2>1, <2>2
          DEF HelloInv, SomeVersion, AnswerInv, AgreeOnVersion, Overlap
<1>5. CASE Overlap = {}
  <2>1. toRuntime' = Max(supported)
    BY <1>3, <1>5, OverlapOrZero DEF ConnectorAnswers
  <2>2. Max(supported) \in supported /\ Max(supported) \in Nat
    BY <1>3, MaxOfVersions DEF SomeVersion
  <2> QED BY <1>1, <1>2, <1>3, <1>5, <2>1, <2>2
          DEF HelloInv, SomeVersion, AnswerInv, AgreeOnVersion, Overlap
<1> QED BY <1>4, <1>5

\* The runtime accepts a version only if it is its own: a connector with which it has none
\* in common cannot have named one.
LEMMA AgreementKeeps ==
  ASSUME HelloInv, RuntimeAgrees
  PROVE  HelloInv'
<1>1. toRuntime \in Nat /\ toRuntime # NoMessage
  BY DEF HelloInv, AnswerInv, RuntimeAgrees, NoMessage
<1>2. toRuntime \in RuntimeVersions
  BY DEF RuntimeAgrees, HighestOverlap
<1>3. Overlap # {}
  BY <1>1, <1>2 DEF HelloInv, AnswerInv, Overlap
<1>4. toRuntime = Max(Overlap) /\ (connector.pc # "gone" => connector = Peer("agreed", toRuntime))
  BY <1>1, <1>3 DEF HelloInv, AnswerInv
<1>5. /\ runtime' = Peer("agreed", toRuntime) /\ toRuntime' = NoMessage
      /\ connector' = connector /\ supported' = supported
  BY DEF RuntimeAgrees, exchangeVars
<1>6. runtime'.version = toRuntime
  BY <1>5 DEF Peer
<1> QED BY <1>3, <1>4, <1>5, <1>6
        DEF HelloInv, SomeVersion, AnswerInv, AgreeOnVersion, Overlap, NoMessage

\* Every step keeps the invariant.
LEMMA NextKeeps ==
  ASSUME HelloInv, [Next]_vars
  PROVE  HelloInv'
<1>1. CASE ConnectorAnswers
  BY <1>1, AnswerKeeps
<1>2. CASE RuntimeAgrees
  BY <1>2, AgreementKeeps
<1>3. CASE ConnectorGivesUp
  BY <1>3 DEF ConnectorGivesUp, exchangeVars, HelloInv, SomeVersion, AnswerInv, AgreeOnVersion,
              Overlap, Peer
<1>4. CASE RuntimeRefuses
  BY <1>4, FreshExchange DEF RuntimeRefuses, exchangeVars, HelloInv, Peer
<1>5. CASE RuntimeGivesUp
  BY <1>5 DEF RuntimeGivesUp, exchangeVars, HelloInv, SomeVersion, AnswerInv, AgreeOnVersion,
              Overlap, Peer
<1>6. ASSUME NEW reason, Exits(reason)
      PROVE  HelloInv'
  BY <1>6, FreshExchange DEF Exits, HelloInv, Peer
<1>7. CASE HelloFailed \/ SpawnFails \/ Crash
  BY <1>6, <1>7 DEF HelloFailed, SpawnFails, Crash
<1>8. CASE GracefulExit
  BY <1>8, FreshExchange DEF GracefulExit, HelloInv, Peer
<1>9. CASE UNCHANGED <<supported, peers>>
  BY <1>9 DEF peers, HelloInv, SomeVersion, AnswerInv, AgreeOnVersion, Overlap
<1>10. CASE Spawns /\ supported' = supported
  BY <1>10, FreshExchange DEF Spawns, HelloInv, Peer
<1>11. CASE Restart \/ Start \/ RequestShutdown \/ ClearCircuitBreak \/ Tick
  BY <1>9, <1>10, <1>11 DEF Restart, Start, RequestShutdown, ClearCircuitBreak, Tick
<1>12. CASE UNCHANGED vars
  BY <1>9, <1>12 DEF vars
<1> QED BY <1>1, <1>2, <1>3, <1>4, <1>5, <1>7, <1>8, <1>11, <1>12 DEF Next, Runtime, Connector

\* A runtime that goes on after the hello exchange has agreed with its connector on the
\* highest version that both support, whoever timed out, died or answered late
\* (negotiation.py 113-235).
THEOREM VersionsAgree == Spec => []AgreeOnVersion
<1>1. Init => HelloInv
  BY DEF Init, HelloInv, SomeVersion, AnswerInv, AgreeOnVersion, NoMessage, Peer
<1>2. HelloInv => AgreeOnVersion
  BY DEF HelloInv
<1> QED BY <1>1, <1>2, NextKeeps, PTL DEF Spec
-----------------------------------------------------------------------------
(* The rolling window.                                                     *)

\* A list of n timestamps, and all m since the instance last forgot them, both in the
\* order of the clock: the list holds the last ones, those of the window that ends with
\* the last of all.
LastOf(list, n, all, m) ==
  /\ list \in Seq(Nat) /\ all \in Seq(Nat)
  /\ n \in Nat /\ m \in Nat /\ n <= m /\ Len(list) = n /\ Len(all) = m
  /\ \A i \in 1 .. n : /\ list[i] = all[m - n + i]
                      /\ list[i] >= all[m] - Window
  /\ \A i \in 1 .. m - n : all[i] < all[m] - Window
  /\ \A i, j \in 1 .. m : i <= j => all[i] <= all[j]

\* No crash is later than the clock.
InTime == now \in Nat /\ \A i \in 1 .. Len(crashes) : crashes[i] <= now

StampsAreRecent == LastOf(stamps, Len(stamps), crashes, Len(crashes))

DecidedByStamps ==
  /\ state = "circuit_broken" => Len(stamps) >= MaxRestarts
  /\ due # NoTime => Len(stamps) < MaxRestarts

WindowInv == InTime /\ StampsAreRecent /\ DecidedByStamps

\* Trimming an ordered list drops the timestamps that have left the window, and no other.
LEMMA TrimmedList ==
  ASSUME NEW times \in Seq(Nat), now \in Nat,
         \A i, j \in DOMAIN times : i <= j => times[i] <= times[j]
  PROVE  \E d \in 0 .. Len(times) :
           /\ Trimmed(times) \in Seq(Nat) /\ Len(Trimmed(times)) = Len(times) - d
           /\ \A i \in 1 .. Len(times) - d : /\ Trimmed(times)[i] = times[d + i]
                                             /\ times[d + i] >= now - Window
           /\ \A i \in 1 .. d : times[i] < now - Window
<1>1. /\ Len(times) \in Nat /\ DOMAIN times = 1 .. Len(times)
      /\ \A i \in 1 .. Len(times) : times[i] \in Nat
      /\ Window \in Nat
  BY WindowAssumption
<1>2. Expired(times) = {i \in 1 .. Len(times) : times[i] < now - Window}
  BY <1>1 DEF Expired
<1>3. \A i \in Expired(times) : 1 .. i \subseteq Expired(times)
  BY <1>1, <1>2
<1>4. PICK d \in 0 .. Len(times) : d = Cardinality(Expired(times)) /\ Expired(times) = 1 .. d
  BY <1>1, <1>2, <1>3, InitialSegment
<1>5. \A i \in 1 .. Len(times) : times[i] < now - Window <=> i \in 1 .. d
  BY <1>2, <1>4, Zenon
<1>6. \A i \in 1 .. Len(times) : IF i <= d THEN times[i] < now - Window ELSE times[i] >= now - Window
  <2> SUFFICES ASSUME NEW i \in 1 .. Len(times)
               PROVE  IF i <= d THEN times[i] < now - Window ELSE times[i] >= now - Window
    OBVIOUS
  <2>1. times[i] \in Nat /\ (times[i] < now - Window <=> i \in 1 .. d)
    BY <1>1, <1>5
  <2> QED BY <1>1, <2>1
<1>7. Trimmed(times) = SubSeq(times, d + 1, Len(times))
  BY <1>4 DEF Trimmed
<1>8. /\ Trimmed(times) \in Seq(Nat) /\ Len(Trimmed(times)) = Len(times) - d
      /\ \A i \in 1 .. Len(times) - d : Trimmed(times)[i] = times[d + i]
  <2>1. d + 1 \in Int /\ Len(times) \in Int /\ \A i \in d + 1 .. Len(times) : times[i] \in Nat
    BY <1>1
  <2>2. /\ SubSeq(times, d + 1, Len(times)) \in Seq(Nat)
        /\ Len(SubSeq(times, d + 1, Len(times)))
             = IF d + 1 <= Len(times) THEN Len(times) - (d + 1) + 1 ELSE 0
        /\ \A i \in 1 .. Len(times) - (d + 1) + 1 :
             SubSeq(times, d + 1, Len(times))[i] = times[d + 1 + i - 1]
    BY <2>1, SubSeqProperties
  <2>3. Len(Trimmed(times)) = Len(times) - d
    <3>1. Len(Trimmed(times)) = IF d + 1 <= Len(times) THEN Len(times) - (d + 1) + 1 ELSE 0
      BY <1>7, <2>2, Zenon
    <3>2. \A n \in Nat : \A k \in 0 .. n : (IF k + 1 <= n THEN n - (k + 1) + 1 ELSE 0) = n - k
      OBVIOUS
    <3> QED BY <1>1, <3>1, <3>2
  <2>4. ASSUME NEW i \in 1 .. Len(times) - d PROVE Trimmed(times)[i] = times[d + i]
    <3>1. i \in 1 .. Len(times) - (d + 1) + 1 /\ d + 1 + i - 1 = d + i
      BY <1>1, <2>4
    <3> QED BY <1>7, <2>2, <3>1
  <2> QED BY <1>7, <2>2, <2>3, <2>4
<1> QED BY <1>1, <1>6, <1>8
\* A crash at this moment, and what recording it does to the list.
LEMMA RecordedCrash ==
  ASSUME NEW n, NEW m, LastOf(stamps, n, crashes, m), now \in Nat,
         \A i \in 1 .. m : crashes[i] <= now
  PROVE  \E k \in Nat : LastOf(Recorded, k, Append(crashes, now), m + 1)
<1>1. /\ n \in Nat /\ m \in Nat /\ n <= m /\ Window \in Nat
      /\ n = Len(stamps) /\ m = Len(crashes)
      /\ stamps \in Seq(Nat) /\ crashes \in Seq(Nat)
      /\ DOMAIN stamps = 1 .. n /\ DOMAIN crashes = 1 .. m
  BY WindowAssumption DEF LastOf
<1>2. /\ \A i \in 1 .. n : stamps[i] \in Nat /\ stamps[i] = crashes[m - n + i]
      /\ \A i \in 1 .. m : crashes[i] \in Nat
      /\ \A i \in 1 .. m - n : crashes[i] < crashes[m] - Window
      /\ \A i, j \in 1 .. m : i <= j => crashes[i] <= crashes[j]
  <2>1. \A i \in 1 .. n : stamps[i] \in Nat
    BY <1>1
  <2>2. \A i \in 1 .. m : crashes[i] \in Nat
    BY <1>1
  <2> QED BY <2>1, <2>2 DEF LastOf
<1>3. \A i, j \in 1 .. n : i <= j => stamps[i] <= stamps[j]
  <2> SUFFICES ASSUME NEW i \in 1 .. n, NEW j \in 1 .. n, i <= j PROVE stamps[i] <= stamps[j]
    OBVIOUS
  <2>1. m - n + i \in 1 .. m /\ m - n + j \in 1 .. m /\ m - n + i <= m - n + j
    BY <1>1
  <2> QED BY <1>2, <2>1
<1>4. PICK d \in 0 .. n :
        /\ Trimmed(stamps) \in Seq(Nat) /\ Len(Trimmed(stamps)) = n - d
        /\ \A i \in 1 .. n - d : /\ Trimmed(stamps)[i] = stamps[d + i]
                                 /\ stamps[d + i] >= now - Window
        /\ \A i \in 1 .. d : stamps[i] < now - Window
  BY <1>1, <1>3, TrimmedList
<1>5. PICK once : once = Append(Trimmed(stamps), now)
  OBVIOUS
<1>6. /\ once \in Seq(Nat) /\ Len(once) = n - d + 1
      /\ \A i \in 1 .. n - d : once[i] = stamps[d + i]
      /\ once[n - d + 1] = now
  <2>1. /\ once \in Seq(Nat) /\ Len(once) = Len(Trimmed(stamps)) + 1
        /\ \A i \in 1 .. Len(Trimmed(stamps)) : once[i] = Trimmed(stamps)[i]
        /\ once[Len(Trimmed(stamps)) + 1] = now
    BY <1>4, <1>5, AppendProperties
  <2> QED BY <1>4, <2>1
<1>7. \A i \in 1 .. n - d + 1 : once[i] >= now - Window
  <2> SUFFICES ASSUME NEW i \in 1 .. n - d + 1 PROVE once[i] >= now - Window
    OBVIOUS
  <2>1. i = n - d + 1 \/ i \in 1 .. n - d
    BY <1>1
  <2>2. now >= now - Window
    BY <1>1
  <2> QED BY <1>4, <1>6, <2>1, <2>2
<1>8. Recorded = once
  <2>1. \A i \in 1 .. n - d + 1 : once[i] \in Nat
    BY <1>1, <1>6
  <2>2. Expired(once) = {}
    <3>1. DOMAIN once = 1 .. n - d + 1
      BY <1>6
    <3>2. \A i \in 1 .. n - d + 1 : ~(once[i] < now - Window)
      BY <1>1, <1>7, <2>1
    <3> QED BY <3>1, <3>2 DEF Expired
  <2>3. Cardinality(Expired(once)) + 1 = 1
    BY <2>2, FS_EmptySet
  <2>4. Recorded = SubSeq(once, 1, Len(once))
    BY <1>5, <2>3 DEF Recorded, Trimmed
  <2> QED BY <1>6, <2>4, SubSeqFull
<1>9. PICK all : all = Append(crashes, now)
  OBVIOUS
<1>10. /\ all \in Seq(Nat) /\ Len(all) = m + 1
       /\ \A i \in 1 .. m : all[i] = crashes[i]
       /\ all[m + 1] = now
  BY <1>1, <1>9, AppendProperties
<1>11. \A i, j \in 1 .. m + 1 : i <= j => all[i] <= all[j]
  <2> SUFFICES ASSUME NEW i \in 1 .. m + 1, NEW j \in 1 .. m + 1, i <= j PROVE all[i] <= all[j]
    OBVIOUS
  <2>1. CASE j = m + 1
    <3>1. i = m + 1 \/ i \in 1 .. m
      BY <1>1
    <3> QED BY <1>10, <2>1, <3>1
  <2>2. CASE j # m + 1
    <3>1. i \in 1 .. m /\ j \in 1 .. m
      BY <1>1, <2>2
    <3> QED BY <1>2, <1>10, <3>1
  <2> QED BY <2>1, <2>2
<1>12. ASSUME NEW i \in 1 .. n - d + 1
       PROVE  once[i] = all[m + 1 - (n - d + 1) + i]
  <2>1. CASE i = n - d + 1
    <3>1. m + 1 - (n - d + 1) + i = m + 1
      BY <1>1, <2>1
    <3> QED BY <1>6, <1>10, <2>1, <3>1
  <2>2. CASE i # n - d + 1
    <3>1. /\ i \in 1 .. n - d /\ d + i \in 1 .. n
          /\ m + 1 - (n - d + 1) + i = m - n + (d + i) /\ m - n + (d + i) \in 1 .. m
      BY <1>1, <2>2
    <3> QED BY <1>2, <1>6, <1>10, <3>1
  <2> QED BY <2>1, <2>2
<1>13. ASSUME NEW i \in 1 .. m + 1 - (n - d + 1)
       PROVE  all[i] < now - Window
  <2>1. i \in 1 .. m /\ all[i] = crashes[i]
    BY <1>1, <1>10
  <2>2. CASE i \in 1 .. m - n
    <3>1. crashes[i] \in Nat /\ crashes[m] \in Nat /\ crashes[m] <= now /\ crashes[i] < crashes[m] - Window
      BY <1>1, <1>2, <2>1, <2>2
    <3> QED BY <1>1, <2>1, <3>1
  <2>3. CASE i \notin 1 .. m - n
    <3>1. i - (m - n) \in 1 .. d /\ i - (m - n) \in 1 .. n /\ m - n + (i - (m - n)) = i
      BY <1>1, <2>1, <2>3
    <3> QED BY <1>2, <1>4, <2>1, <3>1
  <2> QED BY <2>2, <2>3
<1>14. n - d + 1 \in Nat /\ n - d + 1 <= m + 1 /\ m + 1 \in Nat
  BY <1>1
<1>15. LastOf(once, n - d + 1, all, m + 1)
  BY <1>6, <1>7, <1>10, <1>11, <1>12, <1>13, <1>14 DEF LastOf
<1> QED BY <1>8, <1>9, <1>14, <1>15

\* The recent crashes are the ones on the list.
LEMMA RecentOnList ==
  ASSUME StampsAreRecent
  PROVE  Cardinality(Recent) = Len(stamps)
<1>1. PICK n \in Nat, m \in Nat : n = Len(stamps) /\ m = Len(crashes) /\ n <= m
  BY DEF StampsAreRecent, LastOf
<1>2. /\ \A i \in 1 .. m : crashes[i] \in Nat
      /\ \A i \in 1 .. n : stamps[i] = crashes[m - n + i] /\ stamps[i] >= crashes[m] - Window
      /\ \A i \in 1 .. m - n : crashes[i] < crashes[m] - Window
  <2>1. crashes \in Seq(Nat)
    BY DEF StampsAreRecent, LastOf
  <2>2. \A i \in 1 .. m : crashes[i] \in Nat
    BY <1>1, <2>1
  <2> QED BY <1>1, <2>2 DEF StampsAreRecent, LastOf
<1>3. Recent = {i \in 1 .. m : crashes[i] >= crashes[m] - Window}
  BY <1>1 DEF Recent, StampsAreRecent, LastOf
<1>4. ASSUME NEW i \in 1 .. m
      PROVE  crashes[i] >= crashes[m] - Window <=> i \in m - n + 1 .. m
  <2>1. CASE i \in 1 .. m - n
    <3>1. i \notin m - n + 1 .. m /\ m \in 1 .. m
      BY <1>1, <2>1
    <3>2. crashes[i] < crashes[m] - Window /\ crashes[i] \in Nat /\ crashes[m] \in Nat
      BY <1>2, <2>1, <3>1
    <3> QED BY <3>1, <3>2, WindowAssumption
  <2>2. CASE i \notin 1 .. m - n
    <3>1. i - (m - n) \in 1 .. n /\ m - n + (i - (m - n)) = i /\ i \in m - n + 1 .. m
      BY <1>1, <2>2
    <3> QED BY <1>2, <3>1
  <2> QED BY <2>1, <2>2
<1>5. Recent = m - n + 1 .. m
  <2>1. m - n + 1 .. m \subseteq 1 .. m
    BY <1>1
  <2> QED BY <1>3, <1>4, <2>1
<1>6. Cardinality(m - n + 1 .. m) = n
  <2>1. Cardinality(m - n + 1 .. m) = IF m - n + 1 > m THEN 0 ELSE m - (m - n + 1) + 1
    <3>1. m - n + 1 \in Int /\ m \in Int
      BY <1>1
    <3> QED BY <3>1, FS_Interval
  <2> QED BY <1>1, <2>1
<1> QED BY <1>1, <1>5, <1>6

\* Without crashes the list is empty, and holds all there are.
LEMMA ForgottenCrashes ==
  ASSUME WindowInv, now' = now, stamps' = <<>>, crashes' = <<>>, state' # "circuit_broken"
  PROVE  WindowInv'
<1>1. Len(<<>>) = 0 /\ <<>> \in Seq(Nat)
  OBVIOUS
<1>2. InTime'
  BY <1>1 DEF WindowInv, InTime
<1>3. StampsAreRecent'
  BY <1>1 DEF StampsAreRecent, LastOf
<1>4. DecidedByStamps'
  BY <1>1, MaxRestartsAssumption DEF DecidedByStamps
<1> QED BY <1>2, <1>3, <1>4 DEF WindowInv

\* The exit handler decides on the list it leaves behind.
LEMMA ExitKeepsWindow ==
  ASSUME WindowInv, NEW reason, Exits(reason)
  PROVE  WindowInv'
<1> DEFINE decision == ShouldRestart(reason, Len(Recorded))
<1>1. decision \in {"stop", "circuit_break", "restart"} /\ now' = now
  BY DEF Exits, ShouldRestart
<1>2. CASE decision = "stop"
  BY <1>2, <1>1, ForgottenCrashes DEF Exits
<1>3. CASE decision # "stop"
  <2>1. stamps' = Recorded /\ crashes' = Append(crashes, now)
    BY <1>3 DEF Exits
  <2>2. now \in Nat /\ crashes \in Seq(Nat) /\ \A i \in 1 .. Len(crashes) : crashes[i] <= now
    BY DEF WindowInv, InTime, StampsAreRecent, LastOf
  <2>3. PICK k \in Nat : LastOf(stamps', k, crashes', Len(crashes) + 1)
    <3>1. LastOf(stamps, Len(stamps), crashes, Len(crashes))
      BY DEF WindowInv, StampsAreRecent
    <3> QED BY <2>1, <2>2, <3>1, RecordedCrash
  <2>4. k = Len(stamps') /\ Len(crashes') = Len(crashes) + 1
    BY <2>3 DEF LastOf
  <2>5. StampsAreRecent'
    BY <2>3, <2>4 DEF StampsAreRecent, LastOf
  <2>6. InTime'
    <3>1. /\ \A i \in 1 .. Len(crashes) : crashes'[i] = crashes[i]
          /\ crashes'[Len(crashes) + 1] = now
      BY <2>1, <2>2, AppendProperties
    <3>2. \A i \in 1 .. Len(crashes) + 1 : crashes'[i] <= now
      BY <2>2, <3>1
    <3> QED BY <1>1, <2>2, <2>4, <3>2 DEF InTime
  <2>7. DecidedByStamps'
    <3>1. /\ decision = "circuit_break" => Len(stamps') >= MaxRestarts
          /\ decision = "restart" => ~(Len(stamps') >= MaxRestarts)
      BY <1>3, <2>1 DEF ShouldRestart
    <3>2. /\ state' = "circuit_broken" => decision = "circuit_break"
          /\ due' # NoTime => decision = "restart"
      BY <1>1, <1>3 DEF Exits
    <3> QED BY <2>4, <3>1, <3>2, MaxRestartsAssumption DEF DecidedByStamps
  <2> QED BY <2>5, <2>6, <2>7 DEF WindowInv
<1> QED BY <1>2, <1>3

\* Every step keeps the correspondence.
LEMMA NextKeepsWindow ==
  ASSUME WindowInv, [Next]_vars
  PROVE  WindowInv'
<1> DEFINE Calm == /\ UNCHANGED <<stamps, crashes>> /\ (now' = now \/ now' = now + 1)
                   /\ state' = "circuit_broken" => state = "circuit_broken"
                   /\ due' # NoTime => due # NoTime
<1>1. ASSUME Calm PROVE WindowInv'
  <2>1. StampsAreRecent' /\ DecidedByStamps'
    BY <1>1 DEF WindowInv, StampsAreRecent, DecidedByStamps
  <2>2. InTime'
    <3>1. /\ now \in Nat /\ now' \in Nat /\ now <= now'
          /\ \A i \in 1 .. Len(crashes) : crashes[i] <= now /\ crashes[i] \in Nat
      BY <1>1 DEF WindowInv, InTime, StampsAreRecent, LastOf
    <3>2. \A i \in 1 .. Len(crashes) : crashes[i] <= now'
      BY <3>1
    <3> QED BY <1>1, <3>1, <3>2 DEF InTime
  <2> QED BY <2>1, <2>2 DEF WindowInv
<1>2. ASSUME NEW reason, Exits(reason) PROVE WindowInv'
  BY <1>2, ExitKeepsWindow
<1>3. CASE HelloFailed \/ SpawnFails \/ Crash
  BY <1>2, <1>3 DEF HelloFailed, SpawnFails, Crash
<1>4. CASE ClearCircuitBreak \/ (RequestShutdown /\ state = "crashed")
  BY <1>4, ForgottenCrashes DEF ClearCircuitBreak, RequestShutdown, Spawns
<1>5. CASE RequestShutdown /\ state # "crashed"
  BY <1>1, <1>5 DEF RequestShutdown, history
<1>6. CASE Restart \/ Start \/ Tick \/ GracefulExit
  BY <1>1, <1>6 DEF Restart, Start, Tick, GracefulExit, Spawns, history
<1>7. CASE ConnectorAnswers \/ ConnectorGivesUp \/ RuntimeAgrees \/ RuntimeRefuses \/ RuntimeGivesUp
  BY <1>1, <1>7 DEF ConnectorAnswers, ConnectorGivesUp, RuntimeAgrees, RuntimeRefuses, RuntimeGivesUp,
     exchangeVars, history
<1>8. CASE UNCHANGED vars
  BY <1>1, <1>8 DEF vars, history
<1> QED BY <1>3, <1>4, <1>5, <1>6, <1>7, <1>8 DEF Next, Runtime, Connector

\* The circuit is broken exactly when MaxRestarts crashes fell into one window, and
\* otherwise a restart is due, however timestamps were trimmed, kept over a shutdown, or
\* forgotten (instance.py 282-327, restart_policy.py 72-77).
THEOREM CircuitBreaksByWindow == Spec => []CircuitFollowsWindow
<1>1. Init => WindowInv
  <2> SUFFICES ASSUME Init PROVE WindowInv
    OBVIOUS
  <2>1. stamps = <<>> /\ crashes = <<>> /\ Len(<<>>) = 0 /\ <<>> \in Seq(Nat) /\ now = 0
    BY DEF Init
  <2>2. InTime /\ StampsAreRecent
    BY <2>1 DEF InTime, StampsAreRecent, LastOf
  <2> QED BY <2>2 DEF Init, WindowInv, DecidedByStamps
<1>2. WindowInv => CircuitFollowsWindow
  BY RecentOnList DEF WindowInv, DecidedByStamps, CircuitFollowsWindow
<1> QED BY <1>1, <1>2, NextKeepsWindow, PTL DEF Spec

-----------------------------------------------------------------------------
(* The attempts implement SubprocessLifecycle.                             *)

\* An attempt is under way in these states, and its hello exchange in the first of them.
InAttempt == {"starting", "ready", "draining"}

AttemptInv ==
  /\ state \in InAttempt \cup Lifecycle!Settled
  /\ runtime.pc # "none" <=> state \in InAttempt
  /\ runtime.pc = "waits" => state = "starting"

\* Entries of the table that an attempt uses.
Used == { <<"not_started", "start_invoked", "starting">>,
          <<"dead", "start_invoked", "starting">>,
          <<"crashed", "restart_backoff_elapsed", "starting">>,
          <<"circuit_broken", "circuit_clear_restart", "starting">>,
          <<"starting", "hello_succeeded", "ready">>,
          <<"starting", "start_failure_to_crashed", "crashed">>,
          <<"ready", "crash_while_active", "crashed">>,
          <<"draining", "crash_while_draining", "crashed">>,
          <<"crashed", "circuit_break_recorded", "circuit_broken">>,
          <<"crashed", "policy_stop_to_dead", "dead">>,
          <<"ready", "graceful_exit_without_drain", "dead">>,
          <<"draining", "graceful_process_exit", "dead">>,
          <<"ready", "shutdown_requested", "draining">>,
          <<"circuit_broken", "shutdown_requested", "dead">> }

\* Each of them is a move.
LEMMA UsedMoves ==
  ASSUME NEW s, NEW e, NEW n, <<s, e, n>> \in Used
  PROVE  Lifecycle!Move(s, n)
<1>1. <<s, e, n>> \in Lifecycle!SUPERVISOR_TRANSITION_TABLE
  BY DEF Used, Lifecycle!SUPERVISOR_TRANSITION_TABLE
<1>2. e \in Lifecycle!SupervisorTransitionEvent
  BY DEF Used, Lifecycle!SupervisorTransitionEvent
<1> QED BY <1>1, <1>2 DEF Lifecycle!Move

\* A new attempt begins when none is under way.
LEMMA SpawnLives ==
  ASSUME AttemptInv, Spawns, state \in Lifecycle!Settled
  PROVE  AttemptInv' /\ Lifecycle!Begin
<1>1. state' = "starting" /\ runtime'.pc = "waits" /\ runtime.pc = "none"
  BY DEF Spawns, Peer, AttemptInv, InAttempt, Lifecycle!Settled
<1>2. Lifecycle!Move(state, "starting")
  BY UsedMoves DEF Used, Lifecycle!Settled
<1>3. AttemptInv'
  BY <1>1 DEF AttemptInv, InAttempt
<1> QED BY <1>1, <1>2, <1>3 DEF Lifecycle!Begin

\* An attempt that ends settles the instance, by way of "crashed" or directly.
LEMMA EndSettles ==
  ASSUME AttemptInv, state \in InAttempt, runtime' = Peer("none", 0),
         state' \in {"dead", "crashed", "circuit_broken"}
  PROVE  AttemptInv' /\ Lifecycle!Proceed
<1>1. runtime'.pc = "none"
  BY DEF Peer
<1>2. AttemptInv'
  BY <1>1 DEF AttemptInv, InAttempt, Lifecycle!Settled
<1>3. Lifecycle!Move(state, "crashed")
  BY UsedMoves DEF Used, InAttempt
<1>4. state' # "crashed" => Lifecycle!Move("crashed", state')
  BY UsedMoves DEF Used
<1>5. Lifecycle!Follows(state, state')
  BY <1>3, <1>4 DEF Lifecycle!Follows
<1> QED BY <1>1, <1>2, <1>5 DEF Lifecycle!Proceed, Lifecycle!ConnectorState

\* A step within an attempt, or while there is none, follows the table.
LEMMA MoveProceeds ==
  ASSUME AttemptInv, runtime'.pc = "none" <=> runtime.pc = "none",
         runtime'.pc = "waits" => state' = "starting",
         \/ state' = state
         \/ Lifecycle!Move(state, state') /\ state \in InAttempt /\ state' \in {"ready", "draining"}
         \/ Lifecycle!Move(state, state') /\ state \in Lifecycle!Settled /\ state' = "dead"
  PROVE  AttemptInv' /\ Lifecycle!Proceed
<1>1. AttemptInv'
  BY DEF AttemptInv, InAttempt, Lifecycle!Settled
<1>2. Lifecycle!Follows(state, state') /\ (state' # state => state' # "starting")
  BY DEF Lifecycle!Follows
<1>3. state' \in Lifecycle!Settled => runtime'.pc = "none"
  BY <1>1 DEF AttemptInv, InAttempt, Lifecycle!Settled
<1>4. state' \in Lifecycle!ConnectorState
  BY <1>1 DEF AttemptInv, InAttempt, Lifecycle!Settled, Lifecycle!ConnectorState
<1> QED BY <1>1, <1>2, <1>3, <1>4 DEF Lifecycle!Proceed

\* Every step is one of these.
LEMMA AttemptStep ==
  ASSUME AttemptInv, [Next]_vars
  PROVE  AttemptInv' /\ [Lifecycle!Next]_<<state, runtime.pc # "none">>
<1>1. ASSUME NEW reason, Exits(reason), state \in InAttempt
      PROVE  AttemptInv' /\ Lifecycle!Proceed
  <2>1. runtime' = Peer("none", 0)
    BY <1>1 DEF Exits
  <2>2. state' \in {"dead", "crashed", "circuit_broken"}
    BY <1>1 DEF Exits, ShouldRestart
  <2> QED BY <1>1, <2>1, <2>2, EndSettles
<1>2. CASE HelloFailed \/ SpawnFails \/ Crash
  BY <1>1, <1>2 DEF HelloFailed, SpawnFails, Crash, Active, InAttempt, Lifecycle!Next
<1>3. CASE GracefulExit
  BY <1>3, EndSettles DEF GracefulExit, Active, InAttempt, Lifecycle!Next
<1>4. CASE UNCHANGED <<state, runtime>>
  BY <1>4 DEF AttemptInv
<1>5. CASE Spawns /\ state \in Lifecycle!Settled
  BY <1>5, SpawnLives DEF Lifecycle!Next
<1>6. CASE Restart \/ Start \/ ClearCircuitBreak
  BY <1>4, <1>5, <1>6 DEF Restart, Start, ClearCircuitBreak, peers, Lifecycle!Settled
<1>7. CASE RuntimeAgrees
  <2>1. state = "starting" /\ state' = "ready" /\ runtime.pc = "waits" /\ runtime'.pc = "agreed"
    BY <1>7 DEF RuntimeAgrees, AttemptInv, Peer
  <2>2. Lifecycle!Move(state, state')
    BY <2>1, UsedMoves DEF Used
  <2> QED BY <2>1, <2>2, MoveProceeds DEF InAttempt, Lifecycle!Next
<1>8. CASE RuntimeRefuses \/ RuntimeGivesUp
  <2>1. state' = state /\ runtime.pc = "waits" /\ runtime'.pc = "failed"
    BY <1>8 DEF RuntimeRefuses, RuntimeGivesUp, Peer
  <2> QED BY <2>1, MoveProceeds DEF Lifecycle!Next
<1>9. CASE RequestShutdown
  <2>1. /\ state \in {"ready", "crashed", "circuit_broken"} /\ runtime' = runtime
        /\ state' = IF state = "ready" THEN "draining" ELSE "dead"
    BY <1>9 DEF RequestShutdown, peers
  <2>2. Lifecycle!Move(state, state')
    BY <2>1, UsedMoves DEF Used
  <2>3. runtime.pc # "waits"
    BY <2>1 DEF AttemptInv
  <2> QED BY <2>1, <2>2, <2>3, MoveProceeds DEF InAttempt, Lifecycle!Settled, Lifecycle!Next
<1>10. CASE ConnectorAnswers \/ ConnectorGivesUp \/ Tick \/ UNCHANGED vars
  BY <1>4, <1>10 DEF ConnectorAnswers, ConnectorGivesUp, Tick, vars, peers
<1> QED BY <1>2, <1>3, <1>6, <1>7, <1>8, <1>9, <1>10 DEF Next, Runtime, Connector

\* Attempt after attempt, through hello, exits, restarts and the circuit, the instance keeps
\* the promise that ConnectorRuntime keeps as well: the table, one birth at a time, and settled
\* only without a subprocess (supervisor_state.py, instance.py, negotiation.py).
THEOREM AttemptsImplementLifecycle == Spec => AttemptsKeepLifecycle
<1>1. Init => AttemptInv /\ Lifecycle!Init
  BY DEF Init, AttemptInv, InAttempt, Peer, Lifecycle!Init, Lifecycle!Settled
<1> QED
  BY <1>1, AttemptStep, PTL DEF Spec, AttemptsKeepLifecycle, Lifecycle!Spec
=============================================================================
