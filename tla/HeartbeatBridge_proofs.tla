----------------------- MODULE HeartbeatBridge_proofs -----------------------
(***************************************************************************)
(* Proofs about HeartbeatBridge, for every interval, restart delay, clock  *)
(* step, number of versions and length of run.                             *)
(*                                                                         *)
(* The numbering argument: within a life the next number never exceeds the *)
(* deadline of the next tick, because each number costs one interval of at *)
(* least a millisecond; a tick fires only once its deadline has passed; so *)
(* a number in use never exceeds true time, and a restart that takes       *)
(* longer than the wall clock can be set back seeds above all of them.     *)
(***************************************************************************)
EXTENDS HeartbeatBridge, TLAPS

\* True time never precedes the epoch, so the wall clock reads a natural.
TypeInv == TypeOK /\ now >= Epoch

\* The numbers against the clock.
NumberInv ==
    /\ top <= now
    /\ downAt <= now
    /\ pc = "down" => top <= downAt
    /\ pc # "down" => seq > top
    /\ pc \in {"tick", "send"} => seq <= due
    /\ pc = "scrape" => seq + Interval <= due /\ due <= now + Interval
    /\ pc = "send" => n = top

\* The messages against each other, the node and the brain: later numbers
\* carry later versions.
NetInv ==
    /\ \A m \in net : m.seq <= top /\ m.ver <= nodeVer
    /\ \A m1, m2 \in net : m1.seq <= m2.seq => m1.ver <= m2.ver
    /\ \A m \in net : m.seq >= brainSeq => m.ver >= brainVer
    /\ brainSeq <= top
    /\ brainVer <= nodeVer

\* What the loop holds is at least as new as everything sent before.
LoopInv ==
    /\ pc \in {"down", "tick"} => answer = "none"
    /\ pc = "scrape" => answer \in {"none", "ok"}
    /\ pc = "scrape" /\ answer = "ok" =>
          /\ status <= nodeVer
          /\ brainVer <= status
          /\ \A m \in net : m.ver <= status
    /\ pc = "send" =>
          /\ \A m \in net : m.seq = n => m.ver = status
          /\ brainSeq = n => brainVer = status
          /\ answer = "ok" => brainSeq = n
    /\ acked <= brainVer

DeliveryInv == NetInv /\ LoopInv

-----------------------------------------------------------------------------
\* The types, and the wall clock that seeds the numbers (now_ms)
\* never reads below zero.
THEOREM TypeInvariant == Spec => []TypeInv
<1>1. Init => TypeInv
  BY ClockAssumption
  DEF Init, TypeInv, TypeOK, ZeroMetrics, Counters, Unobserved
<1>2. TypeInv /\ [Next]_vars => TypeInv'
  <2> SUFFICES ASSUME TypeInv, [Next]_vars
               PROVE  TypeInv'
    OBVIOUS
  <2> USE ClockAssumption, IntervalAssumption DEF TypeInv, TypeOK
  <2>1. CASE Start
    BY <2>1 DEF Start, Seed, now_ms, ZeroMetrics, Counters, clockVars,
                nodeVars, brainVars
  <2>2. CASE Crash
    BY <2>2 DEF Crash, ZeroMetrics, Counters, Unobserved, clockVars,
                nodeVars, brainVars
  <2>3. CASE Tick
    BY <2>3 DEF Tick, Count, Counters, clockVars, nodeVars, brainVars
  <2>4. CASE ScrapeFail
    BY <2>4 DEF ScrapeFail, Count, Counters, Unobserved, clockVars, nodeVars,
                brainVars
  <2>5. CASE ScrapeOk
    BY <2>5 DEF ScrapeOk, NextSeq, Larger, Count, Counters, Messages,
                clockVars, nodeVars, brainVars
  <2>6. CASE SendOk
    BY <2>6 DEF SendOk, Count, Counters, now_ms, Unobserved, clockVars,
                nodeVars, brainVars
  <2>7. CASE SendFail
    BY <2>7 DEF SendFail, CountedFailure, Count, Counters, Unobserved,
                clockVars, nodeVars, brainVars
  <2>8. CASE NodeAnswer
    BY <2>8 DEF NodeAnswer, Readings, Unobserved, clockVars, nodeVars,
                brainVars
  <2>9. CASE NodeChange
    BY <2>9 DEF NodeChange, clockVars, loopVars, brainVars
  <2>10. CASE NodeToggle
    BY <2>10 DEF NodeToggle, clockVars, loopVars, brainVars
  <2>11. ASSUME NEW m \in net, BrainRecord(m)
         PROVE  TypeInv'
    BY <2>11 DEF BrainRecord, Reply, Messages, clockVars, nodeVars
  <2>12. ASSUME NEW m \in net, BrainIgnore(m)
         PROVE  TypeInv'
    BY <2>12 DEF BrainIgnore, Reply, clockVars, nodeVars, brainVars
  <2>13. ASSUME NEW m \in net, BrainRefuse(m)
         PROVE  TypeInv'
    BY <2>13 DEF BrainRefuse, Refusals, Reply, clockVars, nodeVars, brainVars
  <2>14. CASE PassTime
    BY <2>14 DEF PassTime, nodeVars, loopVars, brainVars
  <2>15. CASE ClockStep
    BY <2>15 DEF ClockStep, nodeVars, loopVars, brainVars
  <2>16. CASE UNCHANGED vars
    BY <2>16 DEF vars, clockVars, nodeVars, loopVars, brainVars
  <2> QED
    BY <2>1, <2>2, <2>3, <2>4, <2>5, <2>6, <2>7, <2>8, <2>9, <2>10,
       <2>11, <2>12, <2>13, <2>14, <2>15, <2>16 DEF Next
<1> QED
  BY <1>1, <1>2, PTL DEF Spec

\* Every variable keeps its type in every behaviour of the bridge.
THEOREM TypeCorrect == Spec => []TypeOK
<1>1. TypeInv => TypeOK
  BY DEF TypeInv
<1> QED
  BY <1>1, TypeInvariant, PTL
-----------------------------------------------------------------------------
\* In every behaviour each scrape and each heartbeat of the current life is
\* accounted for exactly once: failed, succeeded or in flight.
THEOREM AccountingCorrect == Spec => []Accounting
<1>1. Init => Accounting
  BY DEF Init, Accounting, ZeroMetrics
<1>2. TypeInv /\ Accounting /\ [Next]_vars => Accounting'
  <2> SUFFICES ASSUME TypeInv, Accounting, [Next]_vars
               PROVE  Accounting'
    OBVIOUS
  <2>t. metrics \in Counters
    BY DEF TypeInv, TypeOK
  <2> USE <2>t DEF Counters, Accounting
  <2>1. CASE Start
    BY <2>1 DEF Start, ZeroMetrics
  <2>2. CASE Crash
    BY <2>2 DEF Crash, ZeroMetrics
  <2>3. CASE Tick
    BY <2>3 DEF Tick, Count
  <2>4. CASE ScrapeFail
    BY <2>4 DEF ScrapeFail, Count
  <2>5. CASE ScrapeOk
    BY <2>5 DEF ScrapeOk, Count
  <2>6. CASE SendOk
    BY <2>6 DEF SendOk, Count
  <2>7. CASE SendFail
    BY <2>7 DEF SendFail, CountedFailure, Count
  <2>8. CASE UNCHANGED <<pc, metrics>>
    BY <2>8
  <2> QED
    BY <2>1, <2>2, <2>3, <2>4, <2>5, <2>6, <2>7, <2>8
       DEF Next, NodeAnswer, NodeChange, NodeToggle,
           BrainRecord, BrainIgnore, BrainRefuse, PassTime, ClockStep,
           loopVars, vars
<1> QED
  BY <1>1, <1>2, TypeInvariant, PTL DEF Spec

-----------------------------------------------------------------------------
\* The numbers stay below the clock as NumberInv says, provided the wall clock
\* is never set back by as much as a restart takes.
THEOREM NumberInvariant ==
    ASSUME MaxLag < RestartDelay
    PROVE  Spec => []NumberInv
<1>1. Init => NumberInv
  BY ClockAssumption DEF Init, NumberInv
<1>2. TypeInv /\ NumberInv /\ [Next]_vars => NumberInv'
  <2> SUFFICES ASSUME TypeInv, NumberInv, [Next]_vars
               PROVE  NumberInv'
    OBVIOUS
  <2> USE ClockAssumption, IntervalAssumption
      DEF TypeInv, TypeOK, NumberInv, clockVars
  <2>1. CASE Start
    BY <2>1 DEF Start, Seed, now_ms
  <2>2. CASE Crash
    BY <2>2 DEF Crash
  <2>3. CASE Tick
    BY <2>3 DEF Tick
  <2>4. CASE ScrapeFail
    BY <2>4 DEF ScrapeFail
  <2>5. CASE ScrapeOk
    BY <2>5 DEF ScrapeOk, NextSeq, Larger
  <2>6. CASE SendOk
    BY <2>6 DEF SendOk, Count
  <2>7. CASE SendFail
    BY <2>7 DEF SendFail
  <2>8. CASE PassTime
    BY <2>8 DEF PassTime, loopVars
  <2>9. CASE UNCHANGED <<now, pc, downAt, due, seq, n, top>>
    BY <2>9
  <2> QED
    BY <2>1, <2>2, <2>3, <2>4, <2>5, <2>6, <2>7, <2>8, <2>9
       DEF Next, NodeAnswer, NodeChange, NodeToggle,
           BrainRecord, BrainIgnore, BrainRefuse, ClockStep, loopVars, vars
<1> QED
  BY <1>1, <1>2, TypeInvariant, PTL DEF Spec

\* A restarted sidecar resumes above every number handed out before
\* (src/heartbeat.rs:40-42): no life reuses a number of an earlier one.
THEOREM ResumesAboveCorrect ==
    ASSUME MaxLag < RestartDelay
    PROVE  Spec => []ResumesAbove
<1>1. NumberInv => ResumesAbove
  BY DEF NumberInv, ResumesAbove
<1> QED
  BY <1>1, NumberInvariant, PTL
-----------------------------------------------------------------------------
\* Later numbers carry later versions, in every behaviour in which the numbers
\* are fresh and no peer answers with a redirect.
THEOREM DeliveryInvariant ==
    ASSUME MaxLag < RestartDelay, ~NodeRedirects, ~BrainRedirects
    PROVE  Spec => []DeliveryInv
<1>1. Init => DeliveryInv
  BY DEF Init, DeliveryInv, NetInv, LoopInv, Unobserved
<1>2. TypeInv /\ NumberInv /\ DeliveryInv /\ [Next]_vars => DeliveryInv'
  <2> SUFFICES ASSUME TypeInv, NumberInv, DeliveryInv, [Next]_vars
               PROVE  DeliveryInv'
    OBVIOUS
  <2> USE DEF DeliveryInv, TypeInv, TypeOK, NetInv, LoopInv, Messages
  <2>1. CASE Start
    BY <2>1 DEF Start, brainVars, nodeVars
  <2>2. CASE Crash
    BY <2>2 DEF Crash, brainVars, nodeVars
  <2>3. CASE Tick
    \* A scrape begins without an answer: tick holds none.
    BY <2>3 DEF Tick, brainVars, nodeVars
  <2>4. CASE ScrapeFail
    BY <2>4 DEF ScrapeFail, brainVars, nodeVars
  <2>5. CASE ScrapeOk
    <3>1. top < seq /\ top' = seq /\ brainSeq < seq
      BY <2>5 DEF ScrapeOk, NumberInv, Larger
    <3>2. NetInv'
      BY <2>5, <3>1 DEF ScrapeOk, brainVars, nodeVars
    <3>3. LoopInv'
      BY <2>5, <3>1 DEF ScrapeOk, brainVars, nodeVars
    <3> QED
      BY <3>2, <3>3
  <2>6. CASE SendOk
    BY <2>6 DEF SendOk, Accepted, brainVars, nodeVars
  <2>7. CASE SendFail
    BY <2>7 DEF SendFail, brainVars, nodeVars
  <2>8. CASE NodeAnswer
    BY <2>8 DEF NodeAnswer, Readings, brainVars, nodeVars
  <2>9. CASE NodeChange
    BY <2>9 DEF NodeChange, brainVars, loopVars
  <2>10. ASSUME NEW m \in net, BrainRecord(m)
         PROVE  DeliveryInv'
    <3>1. NetInv'
      BY <2>10 DEF BrainRecord, Newer, nodeVars
    <3>2. pc = "send" /\ m.seq = n => brainVer' = status /\ brainSeq' = n
      BY <2>10 DEF BrainRecord
    <3>3. brainSeq < m.seq /\ m.seq <= top
      BY <2>10 DEF BrainRecord, Newer
    <3>4. pc = "send" => answer # "ok"
      BY <3>3 DEF NumberInv
    <3>5. brainVer <= brainVer'
      BY <2>10, <3>3 DEF BrainRecord
    <3>6. LoopInv'
      BY <2>10, <3>2, <3>4, <3>5 DEF BrainRecord, Reply, nodeVars
    <3> QED
      BY <3>1, <3>6
  <2>11. ASSUME NEW m \in net, BrainIgnore(m)
         PROVE  DeliveryInv'
    <3>1. pc = "send" /\ m.seq = n => brainSeq = n
      BY <2>11 DEF BrainIgnore, Newer, NumberInv
    <3> QED
      BY <2>11, <3>1 DEF BrainIgnore, Reply, brainVars, nodeVars
  <2>12. ASSUME NEW m \in net, BrainRefuse(m)
         PROVE  DeliveryInv'
    BY <2>12 DEF BrainRefuse, Refusals, Reply, brainVars, nodeVars
  <2>13. CASE UNCHANGED <<nodeVer, loopVars, net, brainVars>>
    BY <2>13 DEF loopVars, brainVars
  <2> QED
    BY <2>1, <2>2, <2>3, <2>4, <2>5, <2>6, <2>7, <2>8, <2>9, <2>10, <2>11,
       <2>12, <2>13
       DEF Next, NodeToggle, PassTime, ClockStep, nodeVars, vars
<1> QED
  BY <1>1, <1>2, TypeInvariant, NumberInvariant, PTL DEF Spec

\* A positive answer means the brain's latest record is the heartbeat in
\* flight, provided restarts outlast clock steps and peers do not redirect.
THEOREM OkMeansRecordedCorrect ==
    ASSUME MaxLag < RestartDelay, ~NodeRedirects, ~BrainRedirects
    PROVE  Spec => []OkMeansRecorded
<1>1. DeliveryInv => OkMeansRecorded
  BY DEF DeliveryInv, LoopInv, OkMeansRecorded
<1> QED
  BY <1>1, DeliveryInvariant, PTL

-----------------------------------------------------------------------------
\* The bridge implements the abstract register: the brain's view only moves
\* forward, never past the node, and a counted success is a version it has.
THEOREM RegisterImplemented ==
    ASSUME MaxLag < RestartDelay, ~NodeRedirects, ~BrainRedirects
    PROVE  Spec => ImplementsRegister
<1>1. Init => Register!Init
  BY DEF Init, Register!Init, Unobserved
<1>2. /\ TypeInv
      /\ NumberInv
      /\ DeliveryInv
      /\ DeliveryInv'
      /\ [Next]_vars
      => [Register!Next]_<<nodeVer, brainVer, acked>>
  <2> SUFFICES ASSUME TypeInv, NumberInv, DeliveryInv, DeliveryInv',
                      [Next]_vars
               PROVE  [Register!Next]_<<nodeVer, brainVer, acked>>
    OBVIOUS
  <2> USE DEF Register!Next, TypeInv, TypeOK
  <2>1. CASE NodeChange
    BY <2>1 DEF NodeChange, Register!Change, loopVars, brainVars
  <2>2. CASE SendOk
    <3>1. acked <= status /\ acked' = status /\ status = brainVer
      BY <2>2 DEF SendOk, Accepted, DeliveryInv, LoopInv
    <3>2. UNCHANGED <<nodeVer, brainVer>>
      BY <2>2 DEF SendOk, nodeVars, brainVars
    <3>3. CASE acked' = acked
      BY <3>2, <3>3
    <3>4. CASE acked' # acked
      BY <3>1, <3>2, <3>4 DEF Register!Acknowledge
    <3> QED
      BY <3>3, <3>4
  <2>3. ASSUME NEW m \in net, BrainRecord(m)
        PROVE  [Register!Next]_<<nodeVer, brainVer, acked>>
    <3>1. brainVer <= brainVer' /\ brainVer' <= nodeVer /\ brainVer' \in Nat
      BY <2>3 DEF BrainRecord, Newer, DeliveryInv, NetInv, Messages
    <3>2. UNCHANGED <<nodeVer, acked>>
      BY <2>3 DEF BrainRecord, nodeVars
    <3>3. CASE brainVer' = brainVer
      BY <3>2, <3>3
    <3>4. CASE brainVer' # brainVer
      BY <3>1, <3>2, <3>4 DEF Register!Learn
    <3> QED
      BY <3>3, <3>4
  <2>4. CASE UNCHANGED <<nodeVer, brainVer, acked>>
    BY <2>4
  <2> QED
    BY <2>1, <2>2, <2>3, <2>4
       DEF Next, Start, Crash, Tick, ScrapeFail, ScrapeOk, SendFail,
           NodeAnswer, NodeToggle, BrainIgnore, BrainRefuse,
           PassTime, ClockStep, loopVars, nodeVars, brainVars, vars
<1> QED
  BY <1>1, <1>2, TypeInvariant, NumberInvariant, DeliveryInvariant, PTL
     DEF Spec, ImplementsRegister, Register!Spec, Register!vars

-----------------------------------------------------------------------------
\* What the register promises: the sidecar never believes more than the brain
\* knows, and the brain never knows more than is true.
InOrder ==
    /\ nodeVer \in Nat /\ brainVer \in Nat /\ acked \in Nat
    /\ acked <= brainVer /\ brainVer <= nodeVer

LEMMA RegisterKeepsOrder == Register!Spec => []InOrder
<1>1. Register!Init => InOrder
  BY DEF Register!Init, InOrder
<1>2. InOrder /\ [Register!Next]_<<nodeVer, brainVer, acked>> => InOrder'
  BY DEF InOrder, Register!Next, Register!Change, Register!Learn,
         Register!Acknowledge
<1> QED
  BY <1>1, <1>2, PTL DEF Register!Spec, Register!vars

\* So the bridge keeps that order, by the register it implements: a counted
\* success never stands for a version the brain has not got.
THEOREM ViewsInOrder ==
    ASSUME MaxLag < RestartDelay, ~NodeRedirects, ~BrainRedirects
    PROVE  Spec => []InOrder
BY RegisterImplemented, RegisterKeepsOrder, PTL DEF ImplementsRegister

-----------------------------------------------------------------------------
(***************************************************************************)
(* What remains when an assumption is dropped                              *)
(***************************************************************************)
\* A node that does not redirect is read before anything is said of it.
ObservedInv ==
    /\ nodeVer > Unobserved
    /\ pc \in {"down", "tick"} => answer = "none"
    /\ pc = "scrape" /\ answer = "ok" => status > Unobserved
    /\ \A m \in net : m.ver > Unobserved

\* No heartbeat is sent for a node that was not observed, whatever the clocks,
\* the network and the brain do, as long as the node answers no 3xx (the test
\* at src/heartbeat.rs:640).
THEOREM ObservedOnlyCorrect ==
    ASSUME ~NodeRedirects
    PROVE  Spec => []ObservedOnly
<1>1. Init => ObservedInv
  BY DEF Init, ObservedInv, Unobserved
<1>2. TypeInv /\ ObservedInv /\ [Next]_vars => ObservedInv'
  <2> SUFFICES ASSUME TypeInv, ObservedInv, [Next]_vars
               PROVE  ObservedInv'
    OBVIOUS
  <2> USE DEF ObservedInv, TypeInv, TypeOK, Unobserved
  <2>1. CASE Start \/ Crash \/ Tick \/ ScrapeFail \/ SendOk \/ SendFail
    <3>1. UNCHANGED <<nodeVer, net>>
      BY <2>1 DEF Start, Crash, Tick, ScrapeFail, SendOk, SendFail, nodeVars
    <3>2. CASE Start
      BY <3>1, <3>2 DEF Start
    <3>3. CASE Crash
      BY <3>1, <3>3 DEF Crash
    <3>4. CASE Tick
      BY <3>1, <3>4 DEF Tick
    <3>5. CASE ScrapeFail
      BY <3>1, <3>5 DEF ScrapeFail
    <3>6. CASE SendOk \/ SendFail
      BY <3>1, <3>6 DEF SendOk, SendFail
    <3> QED
      BY <2>1, <3>2, <3>3, <3>4, <3>5, <3>6
  <2>2. CASE ScrapeOk
    BY <2>2 DEF ScrapeOk, nodeVars
  <2>3. CASE NodeAnswer
    BY <2>3 DEF NodeAnswer, Readings, nodeVars
  <2>4. CASE NodeChange
    BY <2>4 DEF NodeChange, loopVars
  <2>5. ASSUME NEW m \in net, BrainRecord(m) \/ BrainIgnore(m) \/ BrainRefuse(m)
        PROVE  ObservedInv'
    <3>1. /\ UNCHANGED <<nodeVer, net, pc, status>>
          /\ pc # "send" => answer' = answer
      BY <2>5 DEF BrainRecord, BrainIgnore, BrainRefuse, Reply, nodeVars
    <3> QED
      BY <3>1
  <2>6. CASE UNCHANGED <<nodeVer, net, pc, status, answer>>
    BY <2>6
  <2> QED
    BY <2>1, <2>2, <2>3, <2>4, <2>5, <2>6
       DEF Next, NodeToggle, PassTime, ClockStep, nodeVars, loopVars, vars
<1>3. TypeInv /\ ObservedInv => ObservedOnly
  BY DEF ObservedInv, ObservedOnly, TypeInv, TypeOK, Messages, Unobserved
<1> QED
  BY <1>1, <1>2, <1>3, TypeInvariant, PTL DEF Spec

\* The part of LoopInv that does not trust the brain's answers.
SendsTheNewest ==
    /\ pc \in {"down", "tick"} => answer = "none"
    /\ pc = "scrape" /\ answer = "ok" =>
          /\ status <= nodeVer
          /\ brainVer <= status
          /\ \A m \in net : m.ver <= status

\* A brain that answers 3xx makes the sidecar count successes that are none,
\* but its own view still moves forward only, and never overtakes the node:
\* the order of the heartbeats is in their numbers, not in the answers.
ViewMovesForward ==
    [][brainVer <= brainVer' /\ brainVer' <= nodeVer']_<<brainVer, nodeVer>>

THEOREM ViewMovesForwardCorrect ==
    ASSUME MaxLag < RestartDelay, ~NodeRedirects
    PROVE  Spec => ViewMovesForward
<1>1. Init => NetInv /\ SendsTheNewest
  BY DEF Init, NetInv, SendsTheNewest, Unobserved
<1>2. TypeInv /\ NumberInv /\ NetInv /\ SendsTheNewest /\ [Next]_vars
      => /\ NetInv' /\ SendsTheNewest'
         /\ [brainVer <= brainVer' /\ brainVer' <= nodeVer']_<<brainVer, nodeVer>>
  <2> SUFFICES ASSUME TypeInv, NumberInv, NetInv, SendsTheNewest, [Next]_vars
               PROVE  /\ NetInv' /\ SendsTheNewest'
                      /\ brainVer <= brainVer' /\ brainVer' <= nodeVer'
    OBVIOUS
  <2> USE DEF TypeInv, TypeOK, NetInv, SendsTheNewest, Messages
  <2>1. CASE Start \/ Crash \/ Tick \/ ScrapeFail \/ SendOk \/ SendFail
    <3>1. UNCHANGED <<nodeVer, net, brainSeq, brainVer, top>>
      BY <2>1 DEF Start, Crash, Tick, ScrapeFail, SendOk, SendFail, nodeVars,
                  brainVars
    <3>2. /\ pc' \in {"down", "tick"} => answer' = "none"
          /\ pc' = "scrape" => answer' # "ok"
      <4>1. CASE Start
        BY <4>1 DEF Start
      <4>2. CASE Crash \/ ScrapeFail \/ SendOk \/ SendFail
        BY <4>2 DEF Crash, ScrapeFail, SendOk, SendFail
      <4>3. CASE Tick
        BY <4>3 DEF Tick
      <4> QED
        BY <2>1, <4>1, <4>2, <4>3
    <3> QED
      BY <3>1, <3>2
  <2>2. CASE ScrapeOk
    <3>1. top < seq /\ top' = seq /\ brainSeq < seq
      BY <2>2 DEF ScrapeOk, NumberInv, Larger
    <3> QED
      BY <2>2, <3>1 DEF ScrapeOk, brainVars, nodeVars
  <2>3. CASE NodeAnswer
    BY <2>3 DEF NodeAnswer, Readings, brainVars, nodeVars
  <2>4. CASE NodeChange
    BY <2>4 DEF NodeChange, brainVars, loopVars
  <2>5. ASSUME NEW m \in net, BrainRecord(m)
        PROVE  /\ NetInv' /\ SendsTheNewest'
               /\ brainVer <= brainVer' /\ brainVer' <= nodeVer'
    <3>1. /\ UNCHANGED <<nodeVer, net, pc, status, top>>
          /\ pc # "send" => answer' = answer
      BY <2>5 DEF BrainRecord, Reply, nodeVars
    <3>2. /\ brainSeq < m.seq /\ brainSeq' = m.seq
          /\ brainVer' = m.ver /\ brainVer <= brainVer'
      BY <2>5 DEF BrainRecord, Newer
    <3> QED
      BY <3>1, <3>2
  <2>6. ASSUME NEW m \in net, BrainIgnore(m) \/ BrainRefuse(m)
        PROVE  /\ NetInv' /\ SendsTheNewest'
               /\ brainVer <= brainVer' /\ brainVer' <= nodeVer'
    <3>1. /\ UNCHANGED <<nodeVer, net, pc, status, top, brainSeq, brainVer>>
          /\ pc # "send" => answer' = answer
      BY <2>6 DEF BrainIgnore, BrainRefuse, Reply, nodeVars, brainVars
    <3> QED
      BY <3>1
  <2>7. CASE UNCHANGED <<nodeVer, net, pc, status, answer, top, brainSeq, brainVer>>
    BY <2>7
  <2> QED
    BY <2>1, <2>2, <2>3, <2>4, <2>5, <2>6, <2>7
       DEF Next, NodeToggle, PassTime, ClockStep, nodeVars, loopVars,
           brainVars, vars
<1> QED
  BY <1>1, <1>2, TypeInvariant, NumberInvariant, PTL
     DEF Spec, ViewMovesForward
=============================================================================
