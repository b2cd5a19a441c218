----------------------------- MODULE Readiness -----------------------------
(***************************************************************************)
(* GET /readyz (src/main.rs) against the heartbeat loop it watches         *)
(* (src/heartbeat.rs): how old the last successful heartbeat can get, what *)
(* a probe makes of its age, and what slow or silent peers, restarts and   *)
(* steps of the wall clock do to the answer.                               *)
(*                                                                         *)
(* Time passes in units (seconds, in the runs) and only when nothing is    *)
(* due: a tick that is due fires, and a request is over, before the next   *)
(* unit begins.  Durations are kept relative to the present, so that time  *)
(* need not be bounded.                                                    *)
(***************************************************************************)
EXTENDS Integers

CONSTANTS
    Interval,      \* FIDUCIA_HEARTBEAT_MS
    Timeout,       \* the HTTP client's timeout, per request
    Floor,         \* the least readiness age limit
    Latency,       \* a peer that serves or refuses does so within this
    MaxStep,       \* how far the wall clock can be set
    MaxBacklog     \* bound: overdue ticks are remembered this far back

ASSUME DurationAssumption ==
    /\ Interval \in Nat \ {0}
    /\ Timeout \in Nat \ {0}
    /\ Floor \in Nat
    /\ Latency \in 0 .. Timeout
    /\ MaxStep \in Nat
    /\ MaxBacklog \in Nat

VARIABLES
    role,       \* "full" or "exporter"
    pc,         \* the loop: "down", "tick", "scrape" or "send"
    due,        \* time until the next tick; negative when overdue
    wait,       \* how long the request in flight has been out
    fate,       \* what becomes of it, decided by its peer when it was made
    node,       \* the node: "serves", "refuses" or "hangs"
    brain,      \* the brain: likewise
    lag,        \* how far the wall clock is behind true time
    beaten,     \* whether last_heartbeat_success_ms is not zero
    okAge,      \* true time since it was stored
    okLag,      \* the wall clock's lag when it was stored
    steady,     \* history: for how long both peers have served this life
    nodeGone,   \* history: for how long the node has not served
    brainGone   \* history: for how long the brain has not served

loopVars == <<pc, due, wait, fate>>
peerVars == <<node, brain>>
successVars == <<beaten, okAge, okLag>>
goneVars == <<nodeGone, brainGone>>
historyVars == <<steady, goneVars>>
vars == <<role, loopVars, peerVars, lag, successVars, historyVars>>

Modes == {"serves", "refuses", "hangs"}

-----------------------------------------------------------------------------
\* readiness_max_age.
MaxAge == IF 3 * Interval >= Floor THEN 3 * Interval ELSE Floor

\* From the moment both peers serve, a request that was doomed before runs
\* out, the next tick comes, and one cycle completes.
Cycle == Interval + 2 * Latency
Settle == Timeout + Cycle

AgeCap == MaxAge + Cycle + MaxStep + 1
GoneCap == MaxAge + MaxStep + 2 * Latency + 1
Capped(x, cap) == IF x <= cap THEN x ELSE cap

Init ==
    /\ role \in {"full", "exporter"}
    /\ pc = "down"
    /\ due = 0
    /\ wait = 0
    /\ fate = "serves"
    /\ node \in Modes
    /\ brain \in Modes
    /\ lag \in 0 .. MaxStep
    /\ beaten = FALSE
    /\ okAge = 0
    /\ okLag = 0
    /\ steady = 0
    /\ nodeGone = 0
    /\ brainGone = 0

-----------------------------------------------------------------------------
\* The process starts.  The loop runs in the full role only: its first tick is
\* due at once.
Start ==
    /\ pc = "down"
    /\ pc' = IF role = "full" THEN "tick" ELSE "exporting"
    /\ UNCHANGED <<role, due, wait, fate, peerVars, lag, successVars, historyVars>>

\* The process dies, and its counters with it.
Crash ==
    /\ pc # "down"
    /\ pc' = "down"
    /\ due' = 0
    /\ wait' = 0
    /\ fate' = "serves"
    /\ beaten' = FALSE
    /\ okAge' = 0
    /\ okLag' = 0
    /\ steady' = 0
    /\ UNCHANGED <<role, peerVars, lag, goneVars>>

\* The next tick is due one interval after this one was
\* (MissedTickBehavior::Burst); a loop that lets every other tick pass.
EverySecondTick == due + 2 * Interval
NextTick == due + Interval

Tick ==
    /\ pc = "tick"
    /\ due <= 0
    /\ pc' = "scrape"
    /\ due' = NextTick
    /\ wait' = 0
    /\ fate' = node
    /\ UNCHANGED <<role, peerVars, lag, successVars, historyVars>>

\* When the request in flight is over, one way or the other.
Answered == fate = "serves" /\ wait <= Latency
NotAnswered ==
    \/ fate = "refuses" /\ wait <= Latency
    \/ fate = "hangs" /\ wait = Timeout

ScrapeOk ==
    /\ pc = "scrape"
    /\ Answered
    /\ pc' = "send"
    /\ wait' = 0
    /\ fate' = brain
    /\ UNCHANGED <<role, due, peerVars, lag, successVars, historyVars>>

\* A cycle is over, however it went; a loop that leaves on the first one.
LeaveLoop ==
    /\ pc' = "returned"
    /\ wait' = 0
    /\ fate' = "serves"
ToTick ==
    /\ pc' = "tick"
    /\ wait' = 0
    /\ fate' = "serves"

ScrapeFail ==
    /\ pc = "scrape"
    /\ NotAnswered
    /\ ToTick
    /\ UNCHANGED <<role, due, peerVars, lag, successVars, historyVars>>

\* Whether the loop calls heartbeat_success; a loop that calls it whatever the
\* brain answered.
SucceedsAnyway == Answered \/ NotAnswered
Succeeds == Answered

\* heartbeat_success: the wall clock's time is stored.
SendOk ==
    /\ pc = "send"
    /\ Succeeds
    /\ ToTick
    /\ beaten' = TRUE
    /\ okAge' = 0
    /\ okLag' = lag
    /\ UNCHANGED <<role, due, peerVars, lag, historyVars>>

SendFail ==
    /\ pc = "send"
    /\ NotAnswered
    /\ ToTick
    /\ UNCHANGED <<role, due, peerVars, lag, successVars, historyVars>>

-----------------------------------------------------------------------------
\* The age the handler computes: the wall clock now against the stored time,
\* with saturating_sub.
WallAge ==
    LET age == okAge + okLag - lag
    IN  IF age >= 0 THEN age ELSE 0

\* Which ages are too old; a comparison that lets one unit more pass.
StaleLate(age) == age > MaxAge + 1
Stale(age) == age > MaxAge

\* What GET /readyz would be told now: 200 for "ok", 503 for "starting" and
\* "stale", no answer from a process that is down.  Nothing in the handler waits.
Verdict ==
    IF pc = "down" THEN "none"
    ELSE IF role = "exporter" THEN "ok"
    ELSE IF ~beaten THEN "starting"
    ELSE IF Stale(WallAge) THEN "stale"
    ELSE "ok"

-----------------------------------------------------------------------------
\* The node and the brain change their behaviour (external).
NodeTurns ==
    /\ node' \in Modes \ {node}
    /\ steady' = 0
    /\ nodeGone' = IF node' = "serves" THEN 0 ELSE nodeGone
    /\ UNCHANGED <<role, loopVars, brain, lag, successVars, brainGone>>

BrainTurns ==
    /\ brain' \in Modes \ {brain}
    /\ steady' = 0
    /\ brainGone' = IF brain' = "serves" THEN 0 ELSE brainGone
    /\ UNCHANGED <<role, loopVars, node, lag, successVars, nodeGone>>

\* The wall clock is set.
ClockStep ==
    /\ lag' \in (0 .. MaxStep) \ {lag}
    /\ UNCHANGED <<role, loopVars, peerVars, successVars, historyVars>>

\* Nothing is left to do at this instant.
Urgent ==
    \/ pc = "tick" /\ due <= 0
    \/ /\ pc \in {"scrape", "send"}
       /\ wait >= (IF fate = "hangs" THEN Timeout ELSE Latency)

BothServe == pc # "down" /\ node = "serves" /\ brain = "serves"

PassTime ==
    /\ ~Urgent
    /\ due' = IF pc = "down" \/ due <= -MaxBacklog THEN due ELSE due - 1
    /\ wait' = IF pc \in {"scrape", "send"} THEN wait + 1 ELSE wait
    /\ okAge' = IF beaten THEN Capped(okAge + 1, AgeCap) ELSE okAge
    /\ steady' = IF BothServe THEN Capped(steady + 1, Settle + 1) ELSE 0
    /\ nodeGone' = IF node = "serves" THEN 0 ELSE Capped(nodeGone + 1, GoneCap)
    /\ brainGone' = IF brain = "serves" THEN 0 ELSE Capped(brainGone + 1, GoneCap)
    /\ UNCHANGED <<role, pc, fate, peerVars, lag, beaten, okLag>>

Loop == Tick \/ ScrapeOk \/ ScrapeFail \/ SendOk \/ SendFail

Next ==
    \/ Start \/ Crash \/ Loop
    \/ NodeTurns \/ BrainTurns \/ ClockStep \/ PassTime

Spec == Init /\ [][Next]_vars

(***************************************************************************)
(* Fairness.  The runtime polls a task that is ready (Loop), Kubernetes    *)
(* restarts a container that died (Start, src/heartbeat.rs:12), and time   *)
(* passes.  Peers, crashes and the wall clock owe nothing.                 *)
(***************************************************************************)
Fairness ==
    /\ WF_vars(Loop)
    /\ WF_vars(Start)
    /\ WF_vars(PassTime)

FairSpec == Spec /\ Fairness

-----------------------------------------------------------------------------
TypeOK ==
    /\ role \in {"full", "exporter"}
    /\ pc \in {"down", "exporting", "tick", "scrape", "send"}
    /\ due \in -MaxBacklog .. Interval
    /\ wait \in 0 .. Timeout
    /\ fate \in Modes
    /\ node \in Modes
    /\ brain \in Modes
    /\ lag \in 0 .. MaxStep
    /\ beaten \in BOOLEAN
    /\ okAge \in 0 .. AgeCap
    /\ okLag \in 0 .. MaxStep
    /\ steady \in 0 .. Settle + 1
    /\ nodeGone \in 0 .. GoneCap
    /\ brainGone \in 0 .. GoneCap

\* A full sidecar that a probe finds ready has beaten, in true time, no longer
\* ago than the limit and the most the clock can have been set back since; and
\* neither the brain nor the node has been gone for longer than that and the
\* latency of the requests between its last answer and the success.
ReadyMeansServed ==
    role = "full" /\ Verdict = "ok" =>
        /\ beaten /\ okAge <= MaxAge + MaxStep
        /\ brainGone <= MaxAge + MaxStep + Latency
        /\ nodeGone <= MaxAge + MaxStep + 2 * Latency

\* Two peers that have answered promptly for one settling time keep the last
\* success younger than one cycle, whatever happened before: readiness does not
\* flap for a sidecar whose peers serve, as long as a cycle fits in the limit and
\* the wall clock has not been set forward since.
HealthyNeverStale ==
    role = "full" /\ steady > Settle =>
        /\ beaten /\ okAge <= Cycle
        /\ Cycle <= MaxAge /\ okLag <= lag => Verdict = "ok"

\* A brain that stops taking heartbeats for good is noticed for good.
OutageNoticed ==
    <>[](brain # "serves" /\ role = "full") => <>[](Verdict # "ok")

\* When both peers serve for good and the sidecar no longer crashes, a full
\* sidecar becomes ready and stays so.
RecoveryNoticed ==
    <>[](BothServe /\ role = "full") /\ <>[][UNCHANGED lag]_lag
        => <>[](Verdict = "ok")
=============================================================================
