-------------------------- MODULE HeartbeatBridge --------------------------
(***************************************************************************)
(* src/heartbeat.rs: the loop that scrapes the local node's /v1/status and *)
(* POSTs it, numbered, to the brain, through restarts of the sidecar, late *)
(* and duplicated deliveries, lost answers and steps of the wall clock.    *)
(*                                                                         *)
(* Time is in milliseconds.  "now" is true time; the wall clock the code   *)
(* reads with SystemTime::now lags it by an amount that an administrator   *)
(* or NTP can change at any moment, within 0 .. MaxLag.  tokio's interval  *)
(* runs on the monotonic clock, which is "now".  A node status is          *)
(* abstracted to the version of the node's shard assignment it describes.  *)
(***************************************************************************)
EXTENDS Integers

CONSTANTS
    Interval,        \* FIDUCIA_HEARTBEAT_MS
    RestartDelay,    \* the least time between a crash and the next start
    MaxLag,          \* the widest step the wall clock can be set by
    Epoch,           \* true time at which the model begins
    MaxTime,         \* bound: true time stops here
    MaxVersion,      \* bound: the node changes its status this often
    NodeRedirects,   \* whether the node may answer 3xx with a JSON body
    BrainRedirects   \* whether the brain may answer 3xx

\* positive_ms_env never yields a zero interval; SystemTime is far from 1970.
ASSUME IntervalAssumption == Interval \in Nat \ {0}
ASSUME ClockAssumption ==
    /\ RestartDelay \in Nat
    /\ MaxLag \in Nat
    /\ Epoch \in Nat
    /\ Epoch > MaxLag
ASSUME BoundAssumption == MaxTime \in Nat /\ MaxVersion \in Nat
ASSUME RedirectAssumption ==
    NodeRedirects \in BOOLEAN /\ BrainRedirects \in BOOLEAN

VARIABLES
    now,        \* true time
    lag,        \* how far the wall clock is behind it
    nodeUp,     \* whether the node answers
    nodeVer,    \* the version of the node's status
    pc,         \* where the loop is: "down", "tick", "scrape" or "send"
    downAt,     \* when the sidecar last went down
    due,        \* the deadline of the interval's next tick
    seq,        \* the AtomicU64 next number
    n,          \* the number of the heartbeat in flight
    status,     \* the version scraped in this cycle
    answer,     \* of the request in flight: "none", "ok" or "err"
    net,        \* every heartbeat ever put on the network
    brainSeq,   \* the brain: the highest number it has seen
    brainVer,   \* the brain: the version it recorded with it
    metrics,    \* the counters of SidecarMetrics this loop writes
    lastOk,     \* last_heartbeat_success_ms, 0 before the first success
    top,        \* history: the highest number any life has handed out
    acked       \* history: the version of the last counted success

clockVars == <<now, lag>>
nodeVars == <<nodeUp, nodeVer>>
loopVars == <<pc, downAt, due, seq, n, status, answer, metrics, lastOk,
              top, acked>>
brainVars == <<brainSeq, brainVer>>
vars == <<clockVars, nodeVars, loopVars, net, brainVars>>

\* The version of a status that does not describe the node at all: the body of
\* a redirect, distilled to empty shard lists.
Unobserved == 0

Messages == [seq : Nat, ver : Nat]

ZeroMetrics ==
    [scrapes |-> 0, scrapeFails |-> 0, beats |-> 0, oks |-> 0, fails |-> 0]

Counters ==
    [scrapes : Nat, scrapeFails : Nat, beats : Nat, oks : Nat, fails : Nat]

Count(field) == [metrics EXCEPT ![field] = @ + 1]

Larger(a, b) == IF a >= b THEN a ELSE b

-----------------------------------------------------------------------------
\* SystemTime::now as milliseconds.
now_ms == now - lag

\* The first number of a life; a seed that forgets earlier lives.
SeedFromOne == 1
Seed == now_ms

\* fetch_add: the number after this one; a counter that is never advanced, and
\* one that counts down.
StuckSeq == seq
FallingSeq == seq - 1
NextSeq == seq + 1

Init ==
    /\ now = Epoch
    /\ lag \in 0 .. MaxLag
    /\ nodeUp = TRUE
    /\ nodeVer = 1
    /\ pc = "down"
    /\ downAt = 0
    /\ due = 0
    /\ seq = 0
    /\ n = 0
    /\ status = Unobserved
    /\ answer = "none"
    /\ net = {}
    /\ brainSeq = 0
    /\ brainVer = Unobserved
    /\ metrics = ZeroMetrics
    /\ lastOk = 0
    /\ top = 0
    /\ acked = 0

-----------------------------------------------------------------------------
(***************************************************************************)
(* The loop                                                                *)
(***************************************************************************)

\* The process starts: the counters are new, the number is seeded from the
\* wall clock, and interval() makes the first tick due at once.
Start ==
    /\ pc = "down"
    /\ now >= downAt + RestartDelay
    /\ pc' = "tick"
    /\ due' = now
    /\ seq' = Seed
    /\ metrics' = ZeroMetrics
    /\ lastOk' = 0
    /\ UNCHANGED <<clockVars, nodeVars, downAt, n, status, answer, top, acked,
                   net, brainVars>>

\* The process dies with everything it held in memory; a heartbeat already
\* handed to the network may still arrive.
Crash ==
    /\ pc # "down"
    /\ pc' = "down"
    /\ downAt' = now
    /\ due' = 0
    /\ seq' = 0
    /\ n' = 0
    /\ status' = Unobserved
    /\ answer' = "none"
    /\ metrics' = ZeroMetrics
    /\ lastOk' = 0
    /\ UNCHANGED <<clockVars, nodeVars, top, acked, net, brainVars>>

\* tick.tick(): a late tick fires at once and its successor stays due one
\* interval after the time this one was due (MissedTickBehavior::Burst).
Tick ==
    /\ pc = "tick"
    /\ now >= due
    /\ pc' = "scrape"
    /\ due' = due + Interval
    /\ metrics' = Count("scrapes")
    /\ UNCHANGED <<clockVars, nodeVars, downAt, seq, n, status, answer, top,
                   lastOk, acked, net, brainVars>>

\* A 5 s timeout, a refused connection, an error status or an undecodable
\* body: the loop skips this heartbeat.
ScrapeFail ==
    /\ pc = "scrape"
    /\ pc' = "tick"
    /\ status' = Unobserved
    /\ answer' = "none"
    /\ metrics' = Count("scrapeFails")
    /\ UNCHANGED <<clockVars, nodeVars, downAt, due, seq, n, top, lastOk,
                   acked, net, brainVars>>

\* The status is in: take a number and hand the POST to the network.
ScrapeOk ==
    /\ pc = "scrape"
    /\ answer = "ok"
    /\ pc' = "send"
    /\ n' = seq
    /\ seq' = NextSeq
    /\ top' = Larger(top, seq)
    /\ net' = net \union {[seq |-> seq, ver |-> status]}
    /\ answer' = "none"
    /\ metrics' = Count("beats")
    /\ UNCHANGED <<clockVars, nodeVars, downAt, due, status, lastOk, acked,
                   brainVars>>

\* Which answers of the brain count as a success; the POST's answer taken
\* without error_for_status.
AnyAnswer(a) == a \in {"ok", "err"}
Accepted(a) == a = "ok"

\* The brain answered without a 4xx or 5xx.
SendOk ==
    /\ pc = "send"
    /\ Accepted(answer)
    /\ pc' = "tick"
    /\ metrics' = Count("oks")
    /\ lastOk' = now_ms
    /\ acked' = status
    /\ n' = 0
    /\ status' = Unobserved
    /\ answer' = "none"
    /\ UNCHANGED <<clockVars, nodeVars, downAt, due, seq, top, net, brainVars>>

\* What a failed heartbeat adds to the counters; nothing at all.
UncountedFailure == metrics
CountedFailure == Count("fails")

\* An error status, a refused connection, a lost answer or the 5 s timeout,
\* whether or not the brain has recorded the heartbeat.
SendFail ==
    /\ pc = "send"
    /\ pc' = "tick"
    /\ metrics' = CountedFailure
    /\ n' = 0
    /\ status' = Unobserved
    /\ answer' = "none"
    /\ UNCHANGED <<clockVars, nodeVars, downAt, due, seq, top, lastOk, acked,
                   net, brainVars>>

-----------------------------------------------------------------------------
(***************************************************************************)
(* The node and the brain, as the loop meets them (external)               *)
(***************************************************************************)

\* What the scrape distils from an answer: the status the node has now, or
\* empty shard lists from the JSON of a 3xx, which is not followed and passes
\* error_for_status.
Readings == IF NodeRedirects THEN {nodeVer, Unobserved} ELSE {nodeVer}

\* The node answers the scrape in flight; the loop may read the answer when the
\* node has already moved on.
NodeAnswer ==
    /\ pc = "scrape"
    /\ nodeUp
    /\ answer = "none"
    /\ answer' = "ok"
    /\ status' \in Readings
    /\ UNCHANGED <<clockVars, nodeVars, pc, downAt, due, seq, n, metrics, top,
                   lastOk, acked, net, brainVars>>

\* The node's shards change, or it becomes reachable or unreachable.
NodeChange ==
    /\ nodeVer < MaxVersion
    /\ nodeVer' = nodeVer + 1
    /\ UNCHANGED <<clockVars, nodeUp, loopVars, net, brainVars>>

NodeToggle ==
    /\ nodeUp' = ~nodeUp
    /\ UNCHANGED <<clockVars, nodeVer, loopVars, net, brainVars>>

\* The answer reaches the loop only if it still waits for this heartbeat.
Reply(m, a) ==
    answer' = IF pc = "send" /\ m.seq = n THEN a ELSE answer

\* The brain takes only strictly newer numbers; one that takes anything.
TakesAnything(m) == TRUE
Newer(m) == m.seq > brainSeq

\* A heartbeat arrives, for the first time or again: messages stay in net.
BrainRecord(m) ==
    /\ Newer(m)
    /\ brainSeq' = m.seq
    /\ brainVer' = m.ver
    /\ Reply(m, "ok")
    /\ UNCHANGED <<clockVars, nodeVars, pc, downAt, due, seq, n, status,
                   metrics, top, lastOk, acked, net>>

\* A heartbeat that is not newer is ignored, and acknowledged all the same.
BrainIgnore(m) ==
    /\ ~Newer(m)
    /\ Reply(m, "ok")
    /\ UNCHANGED <<clockVars, nodeVars, pc, downAt, due, seq, n, status,
                   metrics, top, lastOk, acked, net, brainVars>>

\* How a refusal looks to error_for_status: a 4xx or 5xx is an error, a 3xx,
\* which is not followed, is none.
Refusals == IF BrainRedirects THEN {"err", "ok"} ELSE {"err"}

\* The brain answers without looking at the heartbeat.
BrainRefuse(m) ==
    /\ \E a \in Refusals : Reply(m, a)
    /\ UNCHANGED <<clockVars, nodeVars, pc, downAt, due, seq, n, status,
                   metrics, top, lastOk, acked, net, brainVars>>

-----------------------------------------------------------------------------
(***************************************************************************)
(* The clocks                                                              *)
(***************************************************************************)
PassTime ==
    /\ now < MaxTime
    /\ now' = now + 1
    /\ UNCHANGED <<lag, nodeVars, loopVars, net, brainVars>>

\* The wall clock is set, forwards or backwards.
ClockStep ==
    /\ lag' \in 0 .. MaxLag
    /\ UNCHANGED <<now, nodeVars, loopVars, net, brainVars>>

Next ==
    \/ Start \/ Crash \/ Tick
    \/ ScrapeFail \/ ScrapeOk \/ SendOk \/ SendFail
    \/ NodeAnswer \/ NodeChange \/ NodeToggle
    \/ \E m \in net : BrainRecord(m) \/ BrainIgnore(m) \/ BrainRefuse(m)
    \/ PassTime \/ ClockStep

Spec == Init /\ [][Next]_vars

-----------------------------------------------------------------------------
(***************************************************************************)
(* Properties                                                              *)
(***************************************************************************)

TypeOK ==
    /\ now \in Nat
    /\ lag \in 0 .. MaxLag
    /\ nodeUp \in BOOLEAN
    /\ nodeVer \in Nat
    /\ pc \in {"down", "tick", "scrape", "send"}
    /\ downAt \in Nat
    /\ due \in Nat
    /\ seq \in Nat
    /\ n \in Nat
    /\ status \in Nat
    /\ answer \in {"none", "ok", "err"}
    /\ net \subseteq Messages
    /\ brainSeq \in Nat
    /\ brainVer \in Nat
    /\ metrics \in Counters
    /\ lastOk \in Nat
    /\ top \in Nat
    /\ acked \in Nat

\* A restart resumes above every number any earlier life handed out
\* (src/heartbeat.rs:40-42), so a life never reuses a number and the brain
\* cannot mistake its heartbeats for stale ones.
ResumesAbove == pc # "down" => seq > top

\* While the loop waits with a positive answer, the brain's latest record is
\* this very heartbeat: a success is never counted for a heartbeat the brain
\* ignored as stale or refused (send_heartbeat, heartbeat_success).
OkMeansRecorded ==
    pc = "send" /\ answer = "ok" => brainSeq = n /\ brainVer = status

\* At every point of the loop each scrape is accounted for as failed, beaten
\* or in flight, and each heartbeat as succeeded, failed or in flight
\* (src/heartbeat.rs:627-634 asserts the second at the end of a test).
Accounting ==
    /\ metrics.scrapes = metrics.scrapeFails + metrics.beats
                           + (IF pc = "scrape" THEN 1 ELSE 0)
    /\ metrics.beats = metrics.oks + metrics.fails
                           + (IF pc = "send" THEN 1 ELSE 0)

\* An unobserved node never becomes a heartbeat
\* (node_redirect_is_not_followed_and_never_becomes_a_brain_heartbeat).
ObservedOnly == \A m \in net : m.ver # Unobserved

\* Through crashes, duplicates, reordering and clock steps the brain's view
\* moves forward only and never overtakes the node, and the last success the
\* sidecar counted is a version the brain has.
Register == INSTANCE BrainRegister
                WITH truth <- nodeVer, known <- brainVer, acked <- acked
ImplementsRegister == Register!Spec
=============================================================================
