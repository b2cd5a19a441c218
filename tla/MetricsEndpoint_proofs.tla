---------------------- MODULE MetricsEndpoint_proofs -----------------------
(***************************************************************************)
(* Proofs about MetricsEndpoint: type correctness, the coherence of a page *)
(* and, when every fetch of a scrape fits into the request timeout, that   *)
(* no scrape fails the endpoint; and that an answer speaks of a state the  *)
(* target was in during its request.                                       *)
(***************************************************************************)
EXTENDS MetricsEndpoint, TLAPS

\* What the handler holds at each of its places.
Progress ==
    /\ pc = "fetch" => Len(parts) < Len(Paths) /\ failure = NoFailure
    /\ pc = "render" /\ failure = NoFailure => Len(parts) = Len(Paths)
    /\ pc = "render" /\ failure # NoFailure => parts = <<>>

TypeInv == TypeOK /\ Progress

LEMMA PathsType == Len(Paths) \in Nat \ {0} /\ Len(Paths') \in Nat \ {0}
<1>1. CASE target = "node" /\ target' = "node"
  BY <1>1 DEF Paths
<1>2. CASE target = "node" /\ target' # "node"
  BY <1>2 DEF Paths
<1>3. CASE target # "node" /\ target' = "node"
  BY <1>3 DEF Paths
<1>4. CASE target # "node" /\ target' # "node"
  BY <1>4 DEF Paths
<1> QED
  BY <1>1, <1>2, <1>3, <1>4

LEMMA TimeoutType == TypeOK => timeout \in Nat /\ timeout > 0
BY TimeoutAssumption DEF TypeOK

LEMMA KindType ==
    /\ Kind \in Kinds /\ Kind' \in Kinds
    /\ Kind = "serving" <=> Serving
    /\ Kind = "moved" <=> mode = "moved"
BY DEF Kind, Kinds, Serving

LEMMA SamePaths == target' = target => Paths' = Paths
BY DEF Paths

LEMMA InitTypes == Init => TypeInv
<1> SUFFICES ASSUME Init PROVE TypeInv
  OBVIOUS
<1> USE DEF Init
<1>1. page \in Pages
  BY DEF NoPage, Pages
<1>2. TypeOK
  BY <1>1, PathsType, TimeoutAssumption DEF TypeOK, NoFailure, Elsewhere
<1>3. Progress
  BY DEF Progress
<1> QED
  BY <1>2, <1>3 DEF TypeInv

\* A failed fetch leaves the handler ready to render nothing of the target.
LEMMA FailTypes ==
    ASSUME TypeInv, NEW class \in Failures, Fail(class),
           UNCHANGED <<config, targetVars, elapsed, history, page>>
    PROVE  TypeInv'
<1> USE DEF Fail, Kept, config, targetVars, history
<1>1. class # NoFailure
  BY DEF Failures, NoFailure
<1>2. TypeOK'
  BY PathsType, TimeoutAssumption DEF TypeInv, TypeOK
<1>3. Progress'
  BY <1>1 DEF Progress, NoFailure
<1> QED
  BY <1>2, <1>3 DEF TypeInv

LEMMA ResetTypes ==
    ASSUME TypeInv, Reset, UNCHANGED <<config, targetVars>>, page' \in Pages
    PROVE  TypeInv'
<1> USE DEF Reset, config, targetVars, history
<1>1. TypeOK'
  BY PathsType, TimeoutAssumption DEF TypeInv, TypeOK
<1>2. Progress'
  BY DEF Progress
<1> QED
  BY <1>1, <1>2 DEF TypeInv

LEMMA StepTypes == TypeInv /\ [Next]_vars => TypeInv'
<1> SUFFICES ASSUME TypeInv, [Next]_vars PROVE TypeInv'
  OBVIOUS
<1> USE PathsType, SamePaths, TimeoutAssumption
<1>1. CASE Request
  <2>1. TypeOK'
    BY <1>1, KindType DEF Request, config, targetVars, TypeInv, TypeOK
  <2>2. Progress'
    BY <1>1 DEF Request, Progress
  <2> QED
    BY <2>1, <2>2 DEF TypeInv
<1>2. CASE FetchOk
  <2> USE <1>2 DEF FetchOk, config, targetVars, history
  <2>1. /\ parts' \in Seq(Nat)
        /\ Len(parts') = Len(parts) + 1
        /\ Len(parts) < Len(Paths)
        /\ failure = NoFailure
    BY DEF TypeInv, TypeOK, Progress, Elsewhere
  <2>2. TypeOK'
    BY <2>1 DEF TypeInv, TypeOK
  <2>3. Paths' = Paths
    BY DEF config
  <2>4. Progress'
    BY <2>1, <2>3 DEF Progress, TypeInv, TypeOK
  <2> QED
    BY <2>2, <2>4 DEF TypeInv
<1>3. CASE FetchRejected
  BY <1>3, FailTypes DEF FetchRejected, Failures
<1>4. CASE FetchBroken
  BY <1>4, FailTypes DEF FetchBroken, Failures
<1>5. CASE FetchTimesOut
  BY <1>5, FailTypes DEF FetchTimesOut, Failures
<1>6. CASE Render
  <2>1. page' \in Pages
    BY <1>6 DEF Render, Pages, TypeInv, TypeOK
  <2> QED
    BY <1>6, <2>1, ResetTypes DEF Render
<1>7. CASE LayerTimesOut
  <2>1. page' \in Pages
    <3>1. since \in Nat /\ seen \in SUBSET Kinds
      BY DEF TypeInv, TypeOK
    <3>2. page' = [code |-> 408, up |-> FALSE, bodies |-> <<>>,
                   since |-> since, seen |-> seen]
      BY <1>7 DEF LayerTimesOut
    <3>3. <<>> \in Seq(Nat)
      OBVIOUS
    <3> QED
      BY <3>1, <3>2, <3>3 DEF Pages
  <2> QED
    BY <1>7, <2>1, ResetTypes DEF LayerTimesOut
<1>8. CASE Abandon
  BY <1>8, ResetTypes DEF Abandon, TypeInv, TypeOK
<1>9. CASE TargetChange
  BY <1>9, VersionAssumption
  DEF TargetChange, Elsewhere, config, requestVars, history, TypeInv, TypeOK, Progress
<1>10. CASE TargetTurns
  <2>1. Kind' \in Kinds
    BY KindType
  <2>2. seen' \subseteq Kinds
    BY <1>10, <2>1, Zenon DEF TargetTurns, TypeInv, TypeOK
  <2>3. TypeOK'
    BY <1>10, <2>2 DEF TargetTurns, config, TypeInv, TypeOK
  <2>4. Progress'
    BY <1>10 DEF TargetTurns, config, TypeInv, Progress
  <2> QED
    BY <2>3, <2>4 DEF TypeInv
<1>11. CASE PassTime
  BY <1>11 DEF PassTime, Urgent, FetchExpired, RequestExpired, config, history,
               targetVars, TypeInv, TypeOK, Progress
<1>12. CASE UNCHANGED vars
  BY <1>12 DEF vars, config, targetVars, requestVars, history, TypeInv, TypeOK, Progress
<1> QED
  BY <1>1, <1>2, <1>3, <1>4, <1>5, <1>6, <1>7, <1>8, <1>9, <1>10, <1>11,
     <1>12 DEF Next, Handler

THEOREM TypeInvariant == Spec => []TypeInv
BY InitTypes, StepTypes, PTL DEF Spec

\* Every variable of the endpoint keeps its type, and neither timer overruns
\* (src/exporter.rs:82-85, src/main.rs:186).
THEOREM TypeCorrect == Spec => []TypeOK
<1>1. TypeInv => TypeOK
  BY DEF TypeInv
<1> QED
  BY TypeInvariant, <1>1, PTL

-----------------------------------------------------------------------------
(***************************************************************************)
(* The page                                                                *)
(***************************************************************************)

\* Bodies of the target read one after the other, none before "start" or after
\* "end".
Ordered(bodies, start, end) ==
    /\ \A i \in Own(bodies) : start <= bodies[i] /\ bodies[i] <= end
    /\ \A i, j \in Own(bodies) : i < j => bodies[i] <= bodies[j]

PartsOrdered ==
    pc # "idle" => since <= version /\ Ordered(parts, since, version)

CoherenceInv == TypeInv /\ PartsOrdered /\ PageIsCoherent

LEMMA NothingIsOrdered ==
    \A start, end : Ordered(<<>>, start, end)
BY DEF Ordered, Own

\* A body read now is the latest of all.
LEMMA AppendIsOrdered ==
    ASSUME NEW bodies \in Seq(Nat), NEW start \in Nat, NEW end \in Nat,
           start <= end, Ordered(bodies, start, end),
           NEW body \in {Elsewhere, end}
    PROVE  Ordered(Append(bodies, body), start, end)
<1> DEFINE more == Append(bodies, body)
<1>1. /\ Len(more) = Len(bodies) + 1
      /\ \A i \in 1 .. Len(bodies) : more[i] = bodies[i]
      /\ more[Len(bodies) + 1] = body
  BY DEF Elsewhere
<1>2. \A i \in 1 .. Len(bodies) : bodies[i] \in Nat
  OBVIOUS
<1>o. \A i \in Own(more) : \/ i \in Own(bodies) /\ more[i] = bodies[i]
                           \/ i = Len(bodies) + 1 /\ more[i] = end
  BY <1>1 DEF Own
<1> HIDE DEF more
<1>3. \A i \in Own(more) : start <= more[i] /\ more[i] <= end
  BY <1>1, <1>2, <1>o DEF Ordered
<1>4. \A i, j \in Own(more) : i < j => more[i] <= more[j]
  <2> SUFFICES ASSUME NEW i \in Own(more), NEW j \in Own(more), i < j
               PROVE  more[i] <= more[j]
    OBVIOUS
  <2>1. i \in Own(bodies) /\ more[i] = bodies[i]
    BY <1>1, <1>o DEF Own
  <2>2. CASE j \in Own(bodies)
    BY <1>1, <2>1, <2>2 DEF Ordered, Own
  <2>3. CASE j = Len(bodies) + 1
    BY <1>o, <2>1, <2>3 DEF Ordered, Own
  <2> QED
    BY <1>o, <2>2, <2>3
<1> QED
  BY <1>3, <1>4 DEF Ordered, more

LEMMA InitCoherent == Init => CoherenceInv
<1> SUFFICES ASSUME Init PROVE CoherenceInv
  OBVIOUS
<1>1. TypeInv
  BY InitTypes
<1>2. PartsOrdered
  BY DEF Init, PartsOrdered
<1>3. PageIsCoherent
  BY DEF Init, NoPage, PageIsCoherent, Own
<1> QED
  BY <1>1, <1>2, <1>3 DEF CoherenceInv

LEMMA FailCoherent ==
    ASSUME CoherenceInv, NEW class \in Failures, Fail(class), pc = "fetch",
           UNCHANGED <<config, targetVars, elapsed, history, page>>
    PROVE  PartsOrdered' /\ PageIsCoherent'
<1>1. PartsOrdered'
  BY NothingIsOrdered
  DEF Fail, Kept, CoherenceInv, PartsOrdered, config, targetVars, history
<1>2. PageIsCoherent'
  BY SamePaths DEF config, CoherenceInv, PageIsCoherent
<1> QED
  BY <1>1, <1>2

LEMMA StepCoherent == CoherenceInv /\ [Next]_vars => CoherenceInv'
<1> SUFFICES ASSUME CoherenceInv, [Next]_vars PROVE CoherenceInv'
  OBVIOUS
<1>1. TypeInv'
  BY StepTypes DEF CoherenceInv
<1>2. PartsOrdered' /\ PageIsCoherent'
  <2> USE DEF CoherenceInv
  <2>1. CASE Request
    <3>1. PartsOrdered'
      BY <2>1, NothingIsOrdered
      DEF Request, config, targetVars, PartsOrdered, TypeInv, TypeOK
    <3>2. PageIsCoherent'
      BY <2>1, SamePaths DEF config, Request, PageIsCoherent
    <3> QED
      BY <3>1, <3>2
  <2>2. CASE FetchOk
    <3>1. PartsOrdered'
      <4>1. /\ parts \in Seq(Nat) /\ version \in Nat /\ since \in Nat
            /\ since <= version /\ Ordered(parts, since, version)
        BY <2>2 DEF FetchOk, PartsOrdered, TypeInv, TypeOK
      <4>2. PICK body \in {Elsewhere, version} : parts' = Append(parts, body)
        BY <2>2 DEF FetchOk
      <4>3. Ordered(parts', since, version)
        BY <4>1, <4>2, AppendIsOrdered
      <4> QED
        BY <2>2, <4>1, <4>3 DEF FetchOk, targetVars, history, PartsOrdered
    <3>2. PageIsCoherent'
      BY <2>2, SamePaths DEF config, FetchOk, PageIsCoherent
    <3> QED
      BY <3>1, <3>2
  <2>3. CASE FetchRejected
    BY <2>3, FailCoherent DEF FetchRejected, Failures
  <2>4. CASE FetchBroken
    BY <2>4, FailCoherent DEF FetchBroken, Failures
  <2>5. CASE FetchTimesOut
    BY <2>5, FailCoherent DEF FetchTimesOut, Failures
  <2>6. CASE Render
    <3> USE <2>6
    <3>1. PartsOrdered'
      BY DEF Render, Reset, PartsOrdered
    <3>2. /\ page'.up <=> failure = NoFailure
          /\ page'.bodies = parts
          /\ page'.since = since
      BY DEF Render
    <3>3. Paths' = Paths
      BY SamePaths, <2>6 DEF Render, config
    <3>4. Ordered(parts, since, version)
      BY DEF Render, PartsOrdered
    <3>5. /\ failure = NoFailure => Len(parts) = Len(Paths)
          /\ failure # NoFailure => parts = <<>>
      BY DEF Render, TypeInv, Progress
    <3>6. PageIsCoherent'
      BY <3>2, <3>3, <3>4, <3>5 DEF PageIsCoherent, Ordered
    <3> QED
      BY <3>1, <3>6
  <2>7. CASE LayerTimesOut
    <3>1. PartsOrdered'
      BY <2>7 DEF LayerTimesOut, Reset, PartsOrdered
    <3>2. page'.up = FALSE /\ page'.bodies = <<>>
      BY <2>7 DEF LayerTimesOut
    <3>3. PageIsCoherent'
      BY <3>2 DEF PageIsCoherent, Own
    <3> QED
      BY <3>1, <3>3
  <2>8. CASE Abandon
    BY <2>8, SamePaths DEF config, Abandon, Reset, PartsOrdered, PageIsCoherent
  <2>9. CASE TargetChange
    <3>1. PartsOrdered'
      <4> SUFFICES ASSUME pc # "idle"
                   PROVE  /\ since <= version + 1
                          /\ Ordered(parts, since, version + 1)
        BY <2>9 DEF TargetChange, config, requestVars, history, PartsOrdered
      <4>1. /\ parts \in Seq(Nat)
            /\ version \in Nat
            /\ since \in Nat
        BY DEF TypeInv, TypeOK
      <4>2. since <= version /\ Ordered(parts, since, version)
        BY DEF PartsOrdered
      <4> QED
        BY <4>1, <4>2 DEF Ordered, Own
    <3>2. PageIsCoherent'
      BY <2>9, SamePaths DEF config, TargetChange, PageIsCoherent
    <3> QED
      BY <3>1, <3>2
  <2>10. CASE TargetTurns
    BY <2>10, SamePaths
    DEF TargetTurns, config, requestVars, history, PartsOrdered, PageIsCoherent, Ordered
  <2>11. CASE PassTime
    BY <2>11, SamePaths
    DEF PassTime, config, targetVars, history, PartsOrdered, PageIsCoherent, Ordered
  <2>12. CASE UNCHANGED vars
    BY <2>12, SamePaths
    DEF vars, config, targetVars, requestVars, history, PartsOrdered, PageIsCoherent,
        Ordered
  <2> QED
    BY <2>1, <2>2, <2>3, <2>4, <2>5, <2>6, <2>7, <2>8, <2>9, <2>10, <2>11,
       <2>12 DEF Next, Handler
<1> QED
  BY <1>1, <1>2 DEF CoherenceInv

\* A page with scrape_up 1 holds one body of every path, each read during its
\* own request and in the order of the paths; a page with scrape_up 0 holds
\* none (Exporter::scrape_node, render_ok, render_fail).
THEOREM PageIsCoherentCorrect == Spec => []PageIsCoherent
<1>1. CoherenceInv => PageIsCoherent
  BY DEF CoherenceInv
<1> QED
  BY InitCoherent, StepCoherent, <1>1, PTL DEF Spec

-----------------------------------------------------------------------------
(***************************************************************************)
(* The request timeout                                                     *)
(***************************************************************************)

\* Every fetch before this one took at most its timeout.
OnTime == pc = "fetch" => elapsed <= Len(parts) * timeout + waited

ServiceInv == TypeInv /\ OnTime /\ FittingNeverFails

LEMMA OneMoreFetch ==
    ASSUME NEW k \in Nat, NEW t \in Nat
    PROVE  (k + 1) * t = k * t + t
OBVIOUS

LEMMA FetchesFit ==
    ASSUME NEW k \in Nat, NEW m \in Nat, NEW t \in Nat, k <= m
    PROVE  k * t <= m * t
<1> DEFINE d == m - k
<1>1. d \in Nat /\ m = k + d
  OBVIOUS
<1>2. m * t = k * t + d * t
  BY <1>1
<1>3. d * t \in Nat /\ k * t \in Nat
  BY <1>1
<1> QED
  BY <1>2, <1>3

\* While a fetch is under way the request has time left.
LEMMA TimeLeft ==
    ASSUME ScrapeFits, TypeInv, OnTime, pc = "fetch"
    PROVE  ~RequestExpired
<1> DEFINE k == Len(parts)
<1>1. /\ k \in Nat
      /\ k + 1 <= Len(Paths)
      /\ waited \in Nat /\ waited <= timeout
      /\ elapsed \in Nat
  BY PathsType, TimeoutType DEF TypeInv, TypeOK, Progress
<1>2. elapsed <= k * timeout + waited
  BY DEF OnTime
<1>3. (k + 1) * timeout = k * timeout + timeout
  BY <1>1, OneMoreFetch, TimeoutType DEF TypeInv
<1>4. (k + 1) * timeout <= Len(Paths) * timeout
  BY <1>1, FetchesFit, PathsType, TimeoutType DEF TypeInv
<1>5. k * timeout \in Nat /\ Len(Paths) * timeout \in Nat
  BY <1>1, PathsType, TimeoutType DEF TypeInv
<1> HIDE DEF k
<1>6. elapsed < RequestTimeout
  <2> DEFINE a == k * timeout
             b == Len(Paths) * timeout
             c == (k + 1) * timeout
  <2>1. /\ a \in Nat /\ b \in Nat /\ b < RequestTimeout
        /\ c = a + timeout /\ c <= b /\ elapsed <= a + waited
    BY <1>2, <1>3, <1>4, <1>5 DEF ScrapeFits
  <2> HIDE DEF a, b, c
  <2> QED
    BY <1>1, <2>1, TimeoutType, TimeoutAssumption DEF TypeInv
<1> QED
  BY <1>1, <1>6, TimeoutAssumption DEF RequestExpired

LEMMA StepServes == ServiceInv /\ [Next]_vars => ServiceInv'
<1> SUFFICES ASSUME ServiceInv, [Next]_vars PROVE ServiceInv'
  OBVIOUS
<1> USE DEF ServiceInv
<1>1. TypeInv'
  BY StepTypes
<1>2. target' = target /\ timeout' = timeout
  BY DEF Next, Handler, Request, FetchOk, FetchRejected, FetchBroken,
         FetchTimesOut, Render, LayerTimesOut, Abandon, TargetChange,
         TargetTurns, PassTime, config, vars
<1>3. FittingNeverFails'
  <2> SUFFICES ASSUME ScrapeFits PROVE NeverFails'
    BY <1>2 DEF FittingNeverFails, ScrapeFits, Paths
  <2>1. ~LayerTimesOut
    BY TimeLeft DEF LayerTimesOut
  <2>2. CASE Render
    BY <2>2 DEF Render, NeverFails
  <2>3. CASE page' = page
    BY <2>3 DEF FittingNeverFails, NeverFails
  <2>4. Render \/ page' = page
    BY <2>1 DEF Next, Handler, Request, FetchOk, FetchRejected, FetchBroken,
                FetchTimesOut, Abandon, TargetChange, TargetTurns, PassTime,
                vars
  <2> QED
    BY <2>2, <2>3, <2>4
<1>4. OnTime'
  <2>1. CASE pc' # "fetch"
    BY <2>1 DEF OnTime
  <2>2. CASE Request
    BY <1>2, <2>2, TimeoutType DEF TypeInv, Request, OnTime
  <2>3. CASE FetchOk
    <3> DEFINE k == Len(parts)
    <3>1. /\ k \in Nat
          /\ Len(parts') = k + 1
          /\ waited \in Nat /\ waited <= timeout
          /\ elapsed \in Nat
          /\ elapsed' = elapsed /\ waited' = 0
      BY <2>3, TimeoutType DEF TypeInv, FetchOk, TypeInv, TypeOK
    <3>2. elapsed <= k * timeout + waited
      BY <2>3 DEF FetchOk, OnTime
    <3>3. (k + 1) * timeout = k * timeout + timeout
      BY <3>1, OneMoreFetch, TimeoutType DEF TypeInv
    <3>4. k * timeout \in Nat
      BY <3>1, TimeoutType DEF TypeInv
    <3>5. elapsed' <= Len(parts') * timeout + waited'
      <4> DEFINE a == k * timeout
                 c == (k + 1) * timeout
      <4>1. /\ a \in Nat /\ c = a + timeout
            /\ elapsed <= a + waited
        BY <3>2, <3>3, <3>4
      <4>2. elapsed <= c + 0
        <5> HIDE DEF a, c
        <5> QED
          BY <3>1, <4>1, TimeoutType DEF TypeInv
      <4> QED
        BY <3>1, <4>2
    <3> QED
      BY <1>2, <3>5 DEF OnTime
  <2>4. CASE PassTime
    <3> DEFINE a == Len(parts) * timeout
    <3>1. a \in Nat /\ elapsed \in Nat /\ waited \in Nat
      BY TimeoutType DEF TypeInv, TypeOK
    <3>2. elapsed <= a + waited
      BY <2>4 DEF PassTime, OnTime
    <3>3. /\ elapsed' = elapsed + 1
          /\ waited' = waited + 1
          /\ parts' = parts
      BY <2>4 DEF PassTime
    <3>4. elapsed + 1 <= a + (waited + 1)
      <4> HIDE DEF a
      <4> QED
        BY <3>1, <3>2
    <3> QED
      BY <1>2, <3>3, <3>4 DEF OnTime
  <2>5. CASE UNCHANGED <<pc, elapsed, waited, parts>>
    BY <1>2, <2>5 DEF OnTime
  <2>6. \/ pc' # "fetch"
        \/ Request \/ FetchOk \/ PassTime
        \/ UNCHANGED <<pc, elapsed, waited, parts>>
    BY DEF Next, Handler, FetchRejected, FetchBroken, FetchTimesOut, Fail,
           Render, LayerTimesOut, Abandon, Reset, TargetChange, TargetTurns,
           vars, requestVars, history
  <2> QED
    BY <2>1, <2>2, <2>3, <2>4, <2>5, <2>6
<1> QED
  BY <1>1, <1>3, <1>4

\* In every configuration in which all fetches of a scrape fit into the request
\* timeout, the endpoint answers with a page whatever the target does
\* (src/exporter.rs:13-15); the code accepts the others as well.
THEOREM FittingNeverFailsCorrect == Spec => []FittingNeverFails
<1>1. Init => ServiceInv
  BY InitTypes DEF Init, ServiceInv, OnTime, FittingNeverFails, NeverFails,
                   NoPage
<1>2. ServiceInv => FittingNeverFails
  BY DEF ServiceInv
<1> QED
  BY <1>1, StepServes, <1>2, PTL DEF Spec

-----------------------------------------------------------------------------
(***************************************************************************)
(* What the page says of the target                                        *)
(***************************************************************************)

\* What a request has seen of the target so far: the first of its bodies comes
\* from one that serves, a stray one from one that has moved, a failure from one
\* that does not serve, and a target that has served all along has kept none of
\* its fetches waiting for longer than it takes.
Source == IF Strays(parts) THEN "moved" ELSE "serving"
SeenInv ==
    /\ pc # "idle" => Kind \in seen
    /\ pc # "idle" /\ parts # <<>> => Source \in seen
    /\ pc # "idle" /\ failure # NoFailure => seen # {"serving"}
    /\ pc = "fetch" /\ seen = {"serving"} =>
          waited <= Latency /\ elapsed <= Len(parts) * Latency + waited

TruthInv == TypeInv /\ SeenInv /\ UpIsTrue

\* The first path of either target is one whose 503 is no reading.
LEMMA FirstPath ==
    ASSUME TypeOK, parts = <<>>
    PROVE  Path # "/readyz"
<1>1. Path = Paths[1]
  BY DEF Path
<1> QED
  BY <1>1 DEF Paths

\* Who serves gives acceptable answers only.
LEMMA ServersAreAccepted ==
    ASSUME TypeOK, NEW status \in Statuses
    PROVE  /\ Serving => Acceptable(status)
           /\ Acceptable(status) /\ Path # "/readyz"
                 => Serving \/ mode = "moved"
<1>1. CASE mode = "ready"
  BY <1>1 DEF Statuses, Acceptable, Serving
<1>2. CASE mode = "unready"
  BY <1>2 DEF Statuses, Acceptable, Accept503, Serving
<1>3. CASE mode = "failing"
  BY <1>3 DEF Statuses, Acceptable, Accept503, Serving
<1>4. CASE mode = "hung"
  BY <1>4 DEF Statuses
<1>5. CASE mode = "moved"
  BY <1>5 DEF Serving
<1> QED
  BY <1>1, <1>2, <1>3, <1>4, <1>5 DEF TypeOK, Modes

\* A target that has served all along leaves the request time for its next body.
LEMMA ServedInTime ==
    ASSUME TypeInv, SeenInv, ServingFits, pc = "fetch", seen = {"serving"}
    PROVE  ~RequestExpired
<1> DEFINE a == Len(parts) * Latency
           b == Len(Paths) * Latency
           c == (Len(parts) + 1) * Latency
<1>1. /\ Len(parts) \in Nat /\ Len(Paths) \in Nat /\ Latency \in Nat
      /\ Len(parts) + 1 <= Len(Paths)
  BY PathsType, TimeoutAssumption DEF TypeInv, TypeOK, Progress
<1>2. /\ a \in Nat /\ b \in Nat
      /\ c = a + Latency /\ c <= b
  BY <1>1, OneMoreFetch, FetchesFit
<1>3. /\ waited \in Nat /\ elapsed \in Nat
      /\ waited <= Latency /\ elapsed <= a + waited
      /\ b < RequestTimeout
  BY TimeoutType DEF TypeInv, TypeOK, SeenInv, ServingFits
<1> HIDE DEF a, b, c
<1> QED
  BY <1>1, <1>2, <1>3, TimeoutAssumption DEF RequestExpired

\* A fetch fails only if its target does not serve, or has not served for a while.
LEMMA FailureSeen ==
    ASSUME TypeInv, SeenInv, FetchRejected \/ FetchBroken \/ FetchTimesOut
    PROVE  seen # {"serving"}
<1>1. pc = "fetch" /\ Kind \in seen
  BY DEF SeenInv, FetchRejected, FetchBroken, FetchTimesOut
<1>2. CASE FetchRejected
  <2>1. ~Serving
    BY <1>2, ServersAreAccepted DEF FetchRejected, TypeInv
  <2> QED
    BY <1>1, <2>1, KindType
<1>3. CASE FetchBroken
  <2>1. ~Serving
    BY <1>3 DEF FetchBroken, Serving
  <2> QED
    BY <1>1, <2>1, KindType
<1>4. CASE FetchTimesOut
  <2>1. waited >= timeout /\ timeout \in Nat /\ waited \in Nat /\ Latency < timeout
    BY <1>4, TimeoutType, TimeoutAssumption
    DEF FetchTimesOut, FetchExpired, TypeInv, TypeOK
  <2>2. ~(waited <= Latency)
    BY <2>1, TimeoutAssumption
  <2> QED
    BY <1>1, <2>2 DEF SeenInv
<1> QED
  BY <1>2, <1>3, <1>4

LEMMA InitTruth == Init => TruthInv
<1> SUFFICES ASSUME Init PROVE TruthInv
  OBVIOUS
<1> QED
  BY InitTypes DEF Init, TruthInv, SeenInv, UpIsTrue, NoPage

\* One more body: the page it is of has been seen.
LEMMA SourceSeen ==
    ASSUME TypeInv, SeenInv, FetchOk
    PROVE  Source' \in seen
<1>1. /\ pc = "fetch" /\ Kind \in seen
      /\ parts \in Seq(Nat)
      /\ version # Elsewhere /\ version \in Nat
      /\ parts # <<>> => Source \in seen
  BY DEF FetchOk, TypeInv, TypeOK, SeenInv
<1>2. CASE mode = "moved"
  <2>1. parts' = Append(parts, Elsewhere)
    BY <1>2 DEF FetchOk
  <2>2. Len(parts') = Len(parts) + 1 /\ parts'[Len(parts) + 1] = Elsewhere
    BY <1>1, <2>1 DEF Elsewhere
  <2>3. Len(parts) + 1 \in 1 .. Len(parts')
    BY <1>1, <2>2
  <2>4. Strays(parts')
    BY <2>2, <2>3 DEF Strays
  <2> QED
    BY <1>1, <1>2, <2>4, KindType DEF Source
<1>3. CASE mode # "moved"
  <2>1. parts' = Append(parts, version)
    BY <1>3 DEF FetchOk
  <2>2. /\ Len(parts') = Len(parts) + 1 /\ parts'[Len(parts) + 1] = version
        /\ \A i \in 1 .. Len(parts) : parts'[i] = parts[i]
    BY <1>1, <2>1
  <2>3. Strays(parts') <=> Strays(parts)
    BY <1>1, <2>2 DEF Strays
  <2>4. CASE parts = <<>>
    <3>1. Serving
      BY <1>3, <2>4, FirstPath, ServersAreAccepted DEF FetchOk, TypeInv
    <3>2. ~Strays(parts)
      BY <2>4 DEF Strays
    <3> QED
      BY <1>1, <2>3, <3>1, <3>2, KindType DEF Source
  <2>5. CASE parts # <<>>
    BY <1>1, <2>3, <2>5 DEF Source
  <2> QED
    BY <2>4, <2>5
<1> QED
  BY <1>2, <1>3

LEMMA StepSeen == TruthInv /\ [Next]_vars => SeenInv'
<1> SUFFICES ASSUME TruthInv, [Next]_vars PROVE SeenInv'
  OBVIOUS
<1> USE DEF TruthInv
<1>s. ASSUME mode' = mode PROVE Kind' = Kind
  BY <1>s DEF Kind, Serving
<1>p. ASSUME parts' = parts PROVE Source' = Source
  BY <1>p DEF Source, Strays
<1>1. CASE Request
  <2>1. /\ pc' = "fetch" /\ parts' = <<>> /\ failure' = NoFailure
        /\ waited' = 0 /\ elapsed' = 0 /\ seen' = {Kind} /\ mode' = mode
    BY <1>1 DEF Request, targetVars
  <2>2. Kind' \in seen'
    BY <1>s, <2>1
  <2>3. 0 <= Latency /\ 0 <= Len(parts') * Latency + 0
    BY <2>1, TimeoutAssumption
  <2> QED
    BY <2>1, <2>2, <2>3 DEF SeenInv
<1>2. CASE FetchOk
  <2>1. /\ pc = "fetch" /\ Len(parts') = Len(parts) + 1
        /\ failure' = failure /\ waited' = 0 /\ elapsed' = elapsed
        /\ seen' = seen /\ mode' = mode
    BY <1>2 DEF FetchOk, targetVars, history, TypeInv, TypeOK
  <2>2. Kind' \in seen'
    BY <1>s, <2>1 DEF SeenInv
  <2>3. Source' \in seen'
    BY <1>2, <2>1, SourceSeen
  <2>4. seen = {"serving"} => 0 <= Latency /\ elapsed <= Len(parts') * Latency + 0
    <3> SUFFICES ASSUME seen = {"serving"}
                 PROVE  0 <= Latency /\ elapsed <= Len(parts') * Latency + 0
      OBVIOUS
    <3> DEFINE a == Len(parts) * Latency
               c == (Len(parts) + 1) * Latency
    <3>1. /\ Len(parts) \in Nat /\ Len(parts') = Len(parts) + 1
          /\ waited \in Nat /\ elapsed \in Nat /\ Latency \in Nat
      BY <2>1, TimeoutType, TimeoutAssumption DEF TypeInv, TypeOK
    <3>2. c = a + Latency /\ a \in Nat
      BY <3>1, OneMoreFetch
    <3>3. waited <= Latency /\ elapsed <= a + waited
      BY <2>1 DEF SeenInv
    <3>4. Len(parts') * Latency = c
      BY <3>1
    <3> HIDE DEF a, c
    <3> QED
      BY <3>1, <3>2, <3>3, <3>4
  <2>5. failure = NoFailure
    BY <2>1 DEF TypeInv, Progress
  <2> QED
    BY <2>1, <2>2, <2>3, <2>4, <2>5 DEF SeenInv
<1>3. CASE FetchRejected \/ FetchBroken \/ FetchTimesOut
  <2>1. seen # {"serving"}
    BY <1>3, FailureSeen
  <2>2. /\ pc = "fetch" /\ pc' = "render" /\ parts' = <<>>
        /\ seen' = seen /\ mode' = mode
    BY <1>3 DEF FetchRejected, FetchBroken, FetchTimesOut, Fail, Kept,
                targetVars, history
  <2>3. Kind' \in seen'
    BY <1>s, <2>2 DEF SeenInv
  <2> QED
    BY <2>1, <2>2, <2>3 DEF SeenInv
<1>4. CASE Render \/ LayerTimesOut \/ Abandon
  BY <1>4 DEF Render, LayerTimesOut, Abandon, Reset, SeenInv
<1>5. CASE TargetTurns
  <2>1. UNCHANGED <<pc, parts, failure, waited, elapsed>>
    BY <1>5 DEF TargetTurns
  <2>2. CASE pc = "idle"
    BY <2>1, <2>2 DEF SeenInv
  <2>3. CASE pc # "idle"
    <3>1. seen' = seen \union {Kind'}
      BY <1>5, <2>3 DEF TargetTurns
    <3>2. Kind' \in seen' /\ seen \subseteq seen'
      BY <3>1, Zenon
    <3>3. Kind \in seen
      BY <2>3 DEF SeenInv
    <3>4. seen' = {"serving"} => seen = {"serving"}
      BY <3>2, <3>3
    <3>5. Source' = Source
      BY <1>p, <2>1
    <3> QED
      BY <2>1, <2>3, <3>2, <3>4, <3>5 DEF SeenInv
  <2> QED
    BY <2>2, <2>3
<1>6. CASE PassTime
  <2>1. /\ pc = "fetch" /\ pc' = pc /\ parts' = parts /\ failure' = failure
        /\ seen' = seen /\ mode' = mode
        /\ waited' = waited + 1 /\ elapsed' = elapsed + 1
        /\ ~(Serving /\ waited >= Latency)
    BY <1>6 DEF PassTime, Urgent, targetVars, history
  <2>2. Kind' = Kind /\ Source' = Source
    BY <1>s, <1>p, <2>1
  <2>3. ASSUME seen = {"serving"}
        PROVE  /\ waited + 1 <= Latency
               /\ elapsed + 1 <= Len(parts) * Latency + (waited + 1)
    <3>1. Serving
      BY <2>1, <2>3, KindType DEF SeenInv
    <3>2. ~(waited >= Latency)
      BY <2>1, <3>1
    <3> DEFINE a == Len(parts) * Latency
    <3>3. /\ a \in Nat /\ elapsed \in Nat /\ waited \in Nat /\ Latency \in Nat
      BY TimeoutType, TimeoutAssumption DEF TypeInv, TypeOK
    <3>4. elapsed <= a + waited
      BY <2>1, <2>3 DEF SeenInv
    <3>5. waited + 1 <= Latency /\ elapsed + 1 <= a + (waited + 1)
      <4> HIDE DEF a
      <4> QED
        BY <3>2, <3>3, <3>4
    <3> QED
      BY <3>5
  <2> QED
    BY <2>1, <2>2, <2>3 DEF SeenInv
<1>7. CASE UNCHANGED <<mode, requestVars>>
  <2>1. Kind' = Kind /\ Source' = Source
    BY <1>7, <1>s, <1>p DEF requestVars
  <2> QED
    BY <1>7, <2>1 DEF SeenInv, requestVars, history
<1> QED
  BY <1>1, <1>2, <1>3, <1>4, <1>5, <1>6, <1>7
  DEF Next, Handler, TargetChange, vars, targetVars

LEMMA StepTruth == TruthInv /\ [Next]_vars => TruthInv'
<1> SUFFICES ASSUME TruthInv, [Next]_vars PROVE TruthInv'
  OBVIOUS
<1>1. TypeInv' /\ SeenInv'
  BY StepTypes, StepSeen DEF TruthInv
<1>2. UpIsTrue'
  <2> USE DEF TruthInv
  <2>0. target' = target
    BY DEF Next, Handler, Request, FetchOk, FetchRejected, FetchBroken,
           FetchTimesOut, Render, LayerTimesOut, Abandon, TargetChange,
           TargetTurns, PassTime, config, vars
  <2>1. CASE page' = page
    BY <2>0, <2>1, SamePaths DEF UpIsTrue, ServingFits
  <2>2. CASE Render
    <3>1. /\ page'.up = (failure = NoFailure) /\ page'.seen = seen
          /\ pc = "render"
      BY <2>2 DEF Render
    <3>2. CASE failure = NoFailure
      <4>1. Source \in seen
        BY <3>1, <3>2, PathsType DEF SeenInv, TypeInv, Progress
      <4>2. page'.up /\ page'.bodies = parts
        BY <2>2, <3>1, <3>2 DEF Render
      <4> QED
        BY <3>1, <4>1, <4>2 DEF UpIsTrue, Source
    <3>3. CASE failure # NoFailure
      <4>1. seen # {"serving"}
        BY <3>1, <3>3 DEF SeenInv
      <4>2. page'.up = FALSE
        BY <3>1, <3>3
      <4> QED
        BY <3>1, <4>1, <4>2 DEF UpIsTrue
    <3> QED
      BY <3>2, <3>3
  <2>3. CASE LayerTimesOut
    <3> SUFFICES ASSUME ServingFits PROVE seen # {"serving"}
      BY <2>0, <2>3, SamePaths DEF LayerTimesOut, UpIsTrue, ServingFits
    <3> QED
      BY <2>3, ServedInTime DEF LayerTimesOut
  <2>4. Render \/ LayerTimesOut \/ page' = page
    BY DEF Next, Handler, Request, FetchOk, FetchRejected, FetchBroken,
           FetchTimesOut, Abandon, TargetChange, TargetTurns, PassTime, vars
  <2> QED
    BY <2>1, <2>2, <2>3, <2>4
<1> QED
  BY <1>1, <1>2 DEF TruthInv

\* What any answer of /metrics says of the target was so at some moment of its
\* request, whatever the target does meanwhile and wherever it redirects to: one
\* that holds a body from there was up only in so far.  It takes that one fetch
\* after the other fits the router's timeout when the target answers promptly.
THEOREM UpIsTrueCorrect == Spec => []UpIsTrue
<1>1. TruthInv => UpIsTrue
  BY DEF TruthInv
<1> QED
  BY InitTruth, StepTruth, <1>1, PTL DEF Spec
=============================================================================
