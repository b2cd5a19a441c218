-------------------------- MODULE Readiness_proofs --------------------------
(***************************************************************************)
(* Proofs about Readiness, for every interval, timeout, latency and limit. *)
(*                                                                         *)
(* The argument for HealthyNeverStale: "Remaining" is the longest a loop   *)
(* whose peers serve can still take to its next success.  It shrinks as    *)
(* time passes, so the time both peers have served plus what remains never *)
(* exceeds the settling time, or the age of the last success plus what     *)
(* remains never exceeds a cycle.                                          *)
(***************************************************************************)
EXTENDS Readiness, TLAPS

Waiting == pc \in {"scrape", "send"}

\* The longest until the next success while both peers serve.
Remaining ==
    IF Waiting /\ fate # "serves" THEN (Timeout - wait) + Cycle
    ELSE IF pc = "send" THEN Latency - wait
    ELSE IF pc = "scrape" THEN 2 * Latency - wait
    ELSE IF due > 0 THEN due + 2 * Latency
    ELSE 2 * Latency

LoopInv ==
    /\ pc = "down" => due = 0 /\ steady = 0
    /\ pc = "exporting" <=> pc # "down" /\ role = "exporter"
    /\ Waiting /\ fate # "hangs" => wait <= Latency
    /\ steady > 0 => node = "serves" /\ brain = "serves"

ProgressInv ==
    pc # "down" /\ role = "full" =>
        \/ steady + Remaining <= Settle
        \/ beaten /\ okAge + Remaining <= Cycle

\* Since when the peers have not served, against the request in flight and the
\* last success: each request that succeeds was answered within the latency by
\* a peer that served when it was made.
GoneInv ==
    /\ node = "serves" => nodeGone = 0
    /\ brain = "serves" => brainGone = 0
    /\ pc = "scrape" /\ fate = "serves" => nodeGone <= wait
    /\ pc = "send" => nodeGone <= Latency + wait
    /\ pc = "send" /\ fate = "serves" => brainGone <= wait
    /\ beaten /\ okAge < AgeCap =>
          brainGone <= okAge + Latency /\ nodeGone <= okAge + 2 * Latency

IInv == TypeOK /\ LoopInv /\ ProgressInv /\ GoneInv

-----------------------------------------------------------------------------
\* The derived durations are natural numbers.
LEMMA Durations ==
    /\ Interval \in Nat /\ Interval > 0
    /\ Timeout \in Nat /\ Timeout > 0
    /\ Latency \in Nat /\ Latency <= Timeout
    /\ MaxStep \in Nat
    /\ MaxBacklog \in Nat
    /\ Cycle \in Nat /\ Cycle = Interval + 2 * Latency
    /\ Settle \in Nat /\ Settle = Timeout + Cycle
    /\ MaxAge \in Nat
    /\ AgeCap \in Nat /\ AgeCap = MaxAge + Cycle + MaxStep + 1
    /\ GoneCap \in Nat /\ GoneCap = MaxAge + MaxStep + 2 * Latency + 1
BY DurationAssumption DEF Cycle, Settle, MaxAge, AgeCap, GoneCap

\* An age and what remains, one unit later.
LEMMA Exchange ==
    \A age, age1, rest, rest1 \in Int : \A bound \in Nat :
        age1 <= age + 1 /\ rest1 <= rest - 1 /\ age + rest <= bound
            => age1 + rest1 <= bound
OBVIOUS

\* Every step keeps the types.
LEMMA TypeStep == TypeOK /\ LoopInv /\ [Next]_vars => TypeOK'
<1> SUFFICES ASSUME TypeOK, LoopInv, [Next]_vars
             PROVE  TypeOK'
  OBVIOUS
<1> USE Durations DEF TypeOK, Modes, loopVars, peerVars, successVars,
        historyVars, goneVars
<1>1. CASE Start
  BY <1>1 DEF Start
<1>2. CASE Crash
  <2>1. /\ due' \in -MaxBacklog .. Interval
        /\ wait' \in 0 .. Timeout
        /\ okAge' \in 0 .. AgeCap
        /\ okLag' \in 0 .. MaxStep
        /\ steady' \in 0 .. Settle + 1
        /\ nodeGone' \in 0 .. GoneCap
        /\ brainGone' \in 0 .. GoneCap
    BY <1>2 DEF Crash
  <2>2. beaten' \in BOOLEAN
    BY <1>2 DEF Crash
  <2> QED
    BY <1>2, <2>1, <2>2 DEF Crash
<1>3. CASE Tick
  BY <1>3 DEF Tick, NextTick
<1>4. CASE ScrapeOk
  BY <1>4 DEF ScrapeOk
<1>5. CASE ScrapeFail
  BY <1>5 DEF ScrapeFail, ToTick
<1>6. CASE SendOk
  BY <1>6 DEF SendOk, ToTick
<1>7. CASE SendFail
  BY <1>7 DEF SendFail, ToTick
<1>8. CASE NodeTurns
  BY <1>8 DEF NodeTurns
<1>9. CASE BrainTurns
  BY <1>9 DEF BrainTurns
<1>10. CASE ClockStep
  BY <1>10 DEF ClockStep
<1>11. CASE PassTime
  <2>1. due' \in -MaxBacklog .. Interval
    BY <1>11 DEF PassTime
  <2>2. wait' \in 0 .. Timeout
    BY <1>11 DEF PassTime, Urgent, LoopInv, Waiting
  <2>3. okAge' \in 0 .. AgeCap
    BY <1>11 DEF PassTime, Capped
  <2>4. steady' \in 0 .. Settle + 1
    BY <1>11 DEF PassTime, Capped
  <2>5. nodeGone' \in 0 .. GoneCap /\ brainGone' \in 0 .. GoneCap
    BY <1>11 DEF PassTime, Capped
  <2> QED
    BY <1>11, <2>1, <2>2, <2>3, <2>4, <2>5 DEF PassTime
<1>12. CASE UNCHANGED vars
  BY <1>12 DEF vars
<1> QED
  BY <1>1, <1>2, <1>3, <1>4, <1>5, <1>6, <1>7, <1>8, <1>9, <1>10, <1>11,
     <1>12 DEF Next, Loop

\* Every step keeps what the loop's position says of its variables.
LEMMA LoopStep == TypeOK /\ LoopInv /\ [Next]_vars => LoopInv'
<1> SUFFICES ASSUME TypeOK, LoopInv, [Next]_vars
             PROVE  LoopInv'
  OBVIOUS
<1> USE Durations
    DEF TypeOK, Modes, LoopInv, Waiting, loopVars, peerVars, successVars,
        historyVars, goneVars
<1>1. CASE Start
  BY <1>1 DEF Start
<1>2. CASE Crash
  BY <1>2 DEF Crash
<1>3. CASE Tick
  BY <1>3 DEF Tick
<1>4. CASE ScrapeOk
  BY <1>4 DEF ScrapeOk
<1>5. CASE ScrapeFail
  BY <1>5 DEF ScrapeFail, ToTick
<1>6. CASE SendOk
  BY <1>6 DEF SendOk, ToTick
<1>7. CASE SendFail
  BY <1>7 DEF SendFail, ToTick
<1>8. CASE NodeTurns
  BY <1>8 DEF NodeTurns
<1>9. CASE BrainTurns
  BY <1>9 DEF BrainTurns
<1>10. CASE ClockStep
  BY <1>10 DEF ClockStep
<1>11. CASE PassTime
  BY <1>11 DEF PassTime, Urgent, BothServe, Capped
<1>12. CASE UNCHANGED vars
  BY <1>12 DEF vars
<1> QED
  BY <1>1, <1>2, <1>3, <1>4, <1>5, <1>6, <1>7, <1>8, <1>9, <1>10, <1>11,
     <1>12 DEF Next, Loop

\* Every step keeps the promise of a next success.
LEMMA ProgressStep ==
    TypeOK /\ LoopInv /\ LoopInv' /\ ProgressInv /\ [Next]_vars => ProgressInv'
<1> SUFFICES ASSUME TypeOK, LoopInv, LoopInv', ProgressInv, [Next]_vars,
                    pc' # "down", role' = "full"
             PROVE  \/ steady' + Remaining' <= Settle
                    \/ beaten' /\ okAge' + Remaining' <= Cycle
  BY DEF ProgressInv
<1> USE Durations
    DEF TypeOK, Modes, Waiting, Remaining, loopVars, peerVars, successVars,
        historyVars, goneVars
<1>1. CASE Start
  BY <1>1 DEF Start, LoopInv
<1>2. CASE Crash
  BY <1>2 DEF Crash
<1>3. CASE Tick
  BY <1>3 DEF Tick, LoopInv, ProgressInv
<1>4. CASE ScrapeOk
  BY <1>4 DEF ScrapeOk, Answered, LoopInv, ProgressInv
<1>5. CASE ScrapeFail
  BY <1>5 DEF ScrapeFail, ToTick, NotAnswered, LoopInv, ProgressInv
<1>6. CASE SendOk
  BY <1>6 DEF SendOk, ToTick
<1>7. CASE SendFail
  BY <1>7 DEF SendFail, ToTick, NotAnswered, LoopInv, ProgressInv
<1>8. CASE NodeTurns
  BY <1>8 DEF NodeTurns, LoopInv, ProgressInv
<1>9. CASE BrainTurns
  BY <1>9 DEF BrainTurns, LoopInv, ProgressInv
<1>10. CASE ClockStep
  BY <1>10 DEF ClockStep, ProgressInv
<1>11. CASE PassTime
  <2>1. pc = "tick" \/ Waiting
    BY <1>11 DEF PassTime, LoopInv
  <2>2. UNCHANGED <<role, pc, fate, beaten>> /\ role = "full"
    BY <1>11 DEF PassTime
  <2>3. Remaining' <= Remaining - 1
    <3>1. CASE pc = "tick"
      BY <1>11, <3>1 DEF PassTime, Urgent
    <3>2. CASE Waiting
      BY <1>11, <3>2 DEF PassTime, Urgent
    <3> QED
      BY <2>1, <3>1, <3>2
  <2>4. steady' <= steady + 1 /\ steady \in Int /\ steady' \in Int
    BY <1>11 DEF PassTime, Capped
  <2>5. okAge' <= okAge + 1 /\ okAge \in Int /\ okAge' \in Int
    BY <1>11 DEF PassTime, Capped
  <2>6. Remaining \in Int /\ Remaining' \in Int
    BY <1>11 DEF PassTime
  <2> HIDE DEF Remaining
  <2>7. steady + Remaining <= Settle => steady' + Remaining' <= Settle
    BY <2>3, <2>4, <2>6, Exchange, Durations, Zenon
  <2>8. okAge + Remaining <= Cycle => okAge' + Remaining' <= Cycle
    BY <2>3, <2>5, <2>6, Exchange, Durations, Zenon
  <2> QED
    BY <2>1, <2>2, <2>7, <2>8, Zenon DEF ProgressInv, Waiting
<1>12. CASE UNCHANGED vars
  BY <1>12 DEF vars, ProgressInv
<1> QED
  BY <1>1, <1>2, <1>3, <1>4, <1>5, <1>6, <1>7, <1>8, <1>9, <1>10, <1>11,
     <1>12 DEF Next, Loop

\* Every step keeps how long the peers may have been gone.
LEMMA GoneStep == TypeOK /\ LoopInv /\ GoneInv /\ [Next]_vars => GoneInv'
<1> SUFFICES ASSUME TypeOK, LoopInv, GoneInv, [Next]_vars
             PROVE  GoneInv'
  OBVIOUS
<1> USE Durations
    DEF TypeOK, Modes, GoneInv, loopVars, peerVars, successVars,
        historyVars, goneVars
<1>1. CASE Start
  BY <1>1 DEF Start
<1>2. CASE Crash
  BY <1>2 DEF Crash
<1>3. CASE Tick
  BY <1>3 DEF Tick
<1>4. CASE ScrapeOk
  BY <1>4 DEF ScrapeOk, Answered
<1>5. CASE ScrapeFail
  BY <1>5 DEF ScrapeFail, ToTick
<1>6. CASE SendOk
  BY <1>6 DEF SendOk, ToTick, Succeeds, Answered
<1>7. CASE SendFail
  BY <1>7 DEF SendFail, ToTick
<1>8. CASE NodeTurns
  BY <1>8 DEF NodeTurns
<1>9. CASE BrainTurns
  BY <1>9 DEF BrainTurns
<1>10. CASE ClockStep
  BY <1>10 DEF ClockStep
<1>11. CASE PassTime
  <2>1. /\ UNCHANGED <<pc, fate, beaten, node, brain>>
        /\ pc \in {"scrape", "send"} => wait' = wait + 1
    BY <1>11 DEF PassTime
  <2>2. /\ nodeGone' <= nodeGone + 1 /\ nodeGone' \in Nat
        /\ node = "serves" => nodeGone' = 0
    BY <1>11 DEF PassTime, Capped
  <2>3. /\ brainGone' <= brainGone + 1 /\ brainGone' \in Nat
        /\ brain = "serves" => brainGone' = 0
    BY <1>11 DEF PassTime, Capped
  <2>4. beaten /\ okAge' < AgeCap => okAge' = okAge + 1 /\ okAge < AgeCap
    BY <1>11 DEF PassTime, Capped
  <2> QED
    BY <2>1, <2>2, <2>3, <2>4
<1>12. CASE UNCHANGED vars
  BY <1>12 DEF vars
<1> QED
  BY <1>1, <1>2, <1>3, <1>4, <1>5, <1>6, <1>7, <1>8, <1>9, <1>10, <1>11,
     <1>12 DEF Next, Loop

-----------------------------------------------------------------------------
\* The four parts together are inductive.
THEOREM Invariant == Spec => []IInv
<1>1. Init => IInv
  <2> SUFFICES ASSUME Init
               PROVE  IInv
    OBVIOUS
  <2>1. /\ due \in -MaxBacklog .. Interval
        /\ wait \in 0 .. Timeout
        /\ okAge \in 0 .. AgeCap
        /\ okLag \in 0 .. MaxStep
        /\ steady \in 0 .. Settle + 1
        /\ nodeGone \in 0 .. GoneCap
        /\ brainGone \in 0 .. GoneCap
    BY Durations DEF Init
  <2>2. beaten \in BOOLEAN
    BY DEF Init
  <2>3. TypeOK
    BY <2>1, <2>2 DEF Init, TypeOK, Modes
  <2>4. LoopInv /\ ProgressInv /\ GoneInv
    BY DEF Init, LoopInv, ProgressInv, GoneInv, Waiting
  <2> QED
    BY <2>3, <2>4 DEF IInv
<1>2. IInv /\ [Next]_vars => IInv'
  BY TypeStep, LoopStep, ProgressStep, GoneStep DEF IInv
<1> QED
  BY <1>1, <1>2, PTL DEF Spec

\* Every variable keeps its type in every behaviour of loop, peers and clock.
THEOREM TypeCorrect == Spec => []TypeOK
<1>1. IInv => TypeOK
  BY DEF IInv
<1> QED
  BY <1>1, Invariant, PTL

\* Readiness tells of the peers, up to the largest clock step: a full sidecar
\* found ready has beaten within the limit plus that step, and neither peer has
\* been gone for longer than that and the latency of its requests.
THEOREM ReadyMeansServedCorrect == Spec => []ReadyMeansServed
<1>1. IInv => ReadyMeansServed
  <2> SUFFICES ASSUME IInv, role = "full", Verdict = "ok"
               PROVE  /\ beaten /\ okAge <= MaxAge + MaxStep
                      /\ brainGone <= MaxAge + MaxStep + Latency
                      /\ nodeGone <= MaxAge + MaxStep + 2 * Latency
    BY DEF ReadyMeansServed
  <2>1. beaten /\ okAge <= MaxAge + MaxStep
    BY Durations DEF IInv, TypeOK, Verdict, Stale, WallAge
  <2>2. okAge < AgeCap
    BY <2>1, Durations DEF IInv, TypeOK
  <2> QED
    BY <2>1, <2>2, Durations DEF IInv, TypeOK, GoneInv
<1> QED
  BY <1>1, Invariant, PTL

\* With peers that answer within the latency, the last success is never older
\* than one cycle once the settling time is over.
THEOREM HealthyNeverStaleCorrect == Spec => []HealthyNeverStale
<1>1. IInv => HealthyNeverStale
  <2> SUFFICES ASSUME IInv, role = "full", steady > Settle
               PROVE  /\ beaten /\ okAge <= Cycle
                      /\ Cycle <= MaxAge /\ okLag <= lag => Verdict = "ok"
    BY DEF HealthyNeverStale
  <2>1. pc # "down"
    BY Durations DEF IInv, LoopInv
  <2>2. Remaining >= 0 /\ Remaining \in Int
    BY Durations DEF IInv, TypeOK, LoopInv, Remaining, Waiting
  <2>3. beaten /\ okAge <= Cycle
    BY <2>1, <2>2, Durations DEF IInv, TypeOK, ProgressInv
  <2>4. ASSUME Cycle <= MaxAge, okLag <= lag PROVE Verdict = "ok"
    <3>1. okAge \in Nat /\ okLag \in Nat /\ lag \in Nat
      BY Durations DEF IInv, TypeOK
    <3>2. WallAge <= MaxAge /\ WallAge \in Nat
      BY <2>3, <2>4, <3>1, Durations DEF WallAge
    <3>3. ~Stale(WallAge)
      BY <3>2, Durations DEF Stale
    <3> QED BY <2>1, <2>3, <3>3 DEF Verdict
  <2> QED BY <2>3, <2>4
<1> QED
  BY <1>1, Invariant, PTL
=============================================================================
