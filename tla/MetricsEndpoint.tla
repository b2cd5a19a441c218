-------------------------- MODULE MetricsEndpoint --------------------------
(***************************************************************************)
(* src/exporter.rs and the /metrics handler of src/main.rs: a request for  *)
(* the page makes the exporter fetch its target's introspection, one path  *)
(* after the other, each under FIDUCIA_OBSERVE_TIMEOUT_MS, all of them     *)
(* under the 15 s TimeoutLayer of the router.                              *)
(*                                                                         *)
(* Time is in seconds.  Requests share nothing but the HTTP client, so one *)
(* request at a time is enough.  What a body says is abstracted to the     *)
(* version of the target's state it was written from, or to Elsewhere when *)
(* it is that of a page the target redirects to: the client follows        *)
(* redirects.                                                              *)
(***************************************************************************)
EXTENDS Integers, Sequences

CONSTANTS
    Timeouts,        \* values FIDUCIA_OBSERVE_TIMEOUT_MS is given
    RequestTimeout,  \* REQUEST_TIMEOUT_SECS
    Latency,         \* the longest a serving target takes to answer
    Patience,        \* the least the client of the endpoint waits for a page
    MaxVersion       \* bound: the target changes its state this often

\* positive_ms_env never yields a zero timeout.
ASSUME TimeoutAssumption ==
    /\ Timeouts \subseteq Nat \ {0}
    /\ RequestTimeout \in Nat \ {0}
    /\ Latency \in Nat
    /\ \A t \in Timeouts : Latency < t
    /\ Patience \in Nat
ASSUME VersionAssumption == MaxVersion \in Nat \ {0}

VARIABLES
    target,    \* FIDUCIA_EXPORT_TARGET: "node" or "brain"
    timeout,   \* FIDUCIA_OBSERVE_TIMEOUT_MS
    mode,      \* how the target behaves now: a member of Modes
    version,   \* the version of the target's state
    pc,        \* the request: "idle", "fetch" or "render"
    elapsed,   \* seconds since the request began
    waited,    \* seconds since the current fetch began
    parts,     \* the bodies fetched so far, in order
    failure,   \* the FetchFail of this request, or NoFailure
    since,     \* history: the target's version when the request began
    seen,      \* history: the kinds of behaviour the target has shown since
    page       \* the last answer the endpoint gave

config == <<target, timeout>>
targetVars == <<mode, version>>
history == <<since, seen>>
requestVars == <<pc, elapsed, waited, parts, failure, history>>
vars == <<config, targetVars, requestVars, page>>

\* "ready" and "unready" targets answer in time; a "failing" one refuses the
\* connection or answers with an error or without JSON; a "hung" one is silent;
\* a "moved" one sends the client on to a page it knows nothing of.
Modes == {"ready", "unready", "failing", "hung", "moved"}
Serving == mode \in {"ready", "unready"}

\* What a request can have seen of the target.
Kinds == {"serving", "moved", "gone"}
Kind == IF Serving THEN "serving" ELSE IF mode = "moved" THEN mode ELSE "gone"

\* The body of a page the target redirects to; its own versions start at 1.
Elsewhere == 0
Strays(bodies) == \E i \in 1 .. Len(bodies) : bodies[i] = Elsewhere

Paths == IF target = "node"
           THEN <<"/v1/observe/shards", "/v1/observe/metrics", "/readyz">>
           ELSE <<"/v1/status">>

NoFailure == "none"
Failures == {"timeout", "unreachable", "bad status", "bad body"}

\* The answer the client of the endpoint sees: no answer yet, the page with
\* its scrape_up gauge and the bodies it translates, or the layer's 408.
Pages ==
    [code : {0, 200, 408}, up : BOOLEAN,
     bodies : Seq(Nat), since : Nat, seen : SUBSET Kinds]

NoPage == [code |-> 0, up |-> FALSE, bodies |-> <<>>,
           since |-> 0, seen |-> {}]

-----------------------------------------------------------------------------
Path == Paths[Len(parts) + 1]

\* Which fetches take a 503 as a reading: all, none, or /readyz alone.
Accept503Everywhere(path) == TRUE
Accept503Nowhere(path) == FALSE
Accept503(path) == path = "/readyz"

\* The statuses the current fetch may end in: an unready node answers /readyz
\* with 503, a failing one anything with a 503 or with a redirect that names no
\* place to go; where another redirect leads, any answer may come from.
Statuses ==
    [ready   |-> {200},
     unready |-> {IF Path = "/readyz" THEN 503 ELSE 200},
     failing |-> {302, 503},
     hung    |-> {},
     moved   |-> {200, 404, 503}][mode]

\* is_success, or a 503 where one is a reading; a redirect that was not followed
\* is neither, though error_for_status would let it pass.
NoErrorStatus(status) == status < 400 \/ (status = 503 /\ Accept503(Path))
Acceptable(status) == status = 200 \/ (status = 503 /\ Accept503(Path))

\* The client's timeout, which covers the body too; a client without one.
NoTimeout == FALSE
FetchExpired == waited >= timeout

\* The layer's timeout.
RequestExpired == elapsed >= RequestTimeout

\* What a failed scrape keeps of the bodies it already has: nothing.
KeepBodies == parts
Kept == <<>>

Init ==
    /\ target \in {"node", "brain"}
    /\ timeout \in Timeouts
    /\ mode \in Modes
    /\ version = 1
    /\ pc = "idle"
    /\ elapsed = 0
    /\ waited = 0
    /\ parts = <<>>
    /\ failure = NoFailure
    /\ since = 0
    /\ seen = {}
    /\ page = NoPage

\* GET /metrics arrives and the first fetch is sent.
Request ==
    /\ pc = "idle"
    /\ pc' = "fetch"
    /\ elapsed' = 0
    /\ waited' = 0
    /\ parts' = <<>>
    /\ failure' = NoFailure
    /\ since' = version
    /\ seen' = {Kind}
    /\ UNCHANGED <<config, targetVars, page>>

\* The first failed fetch ends the scrape.
Fail(class) ==
    /\ pc' = "render"
    /\ failure' = class
    /\ parts' = Kept
    /\ waited' = 0

\* The target answers, or the page it leads to does, and the body is parsed: on
\* to the next path, or to the page of the endpoint when there is none.
FetchOk ==
    /\ pc = "fetch"
    /\ \E status \in Statuses : Acceptable(status)
    /\ parts' = Append(parts, IF mode = "moved" THEN Elsewhere ELSE version)
    /\ pc' = IF Len(parts') = Len(Paths) THEN "render" ELSE "fetch"
    /\ waited' = 0
    /\ UNCHANGED <<config, targetVars, elapsed, failure, history, page>>

\* The answer has a status fetch_json does not accept.
FetchRejected ==
    /\ pc = "fetch"
    /\ \E status \in Statuses : ~Acceptable(status)
    /\ Fail("bad status")
    /\ UNCHANGED <<config, targetVars, elapsed, history, page>>

\* Connection refused or cut, too many redirects, or a body that is not JSON.
FetchBroken ==
    /\ pc = "fetch"
    /\ mode \in {"failing", "moved"}
    /\ \E class \in {"unreachable", "bad body"} : Fail(class)
    /\ UNCHANGED <<config, targetVars, elapsed, history, page>>

\* The client gives the fetch up.
FetchTimesOut ==
    /\ pc = "fetch"
    /\ FetchExpired
    /\ Fail("timeout")
    /\ UNCHANGED <<config, targetVars, elapsed, history, page>>

Reset ==
    /\ pc' = "idle"
    /\ elapsed' = 0
    /\ waited' = 0
    /\ parts' = <<>>
    /\ failure' = NoFailure
    /\ since' = 0
    /\ seen' = {}

\* render_ok, render_fail: 200 either way, with no family of the target when
\* a fetch failed.
Render ==
    /\ pc = "render"
    /\ page' = [code |-> 200, up |-> failure = NoFailure,
                bodies |-> parts, since |-> since, seen |-> seen]
    /\ Reset
    /\ UNCHANGED <<config, targetVars>>

\* The TimeoutLayer answers 408 and drops the handler with its fetch.  A
\* handler whose last body is in renders before the layer is polled.
LayerTimesOut ==
    /\ pc = "fetch"
    /\ RequestExpired
    /\ page' = [code |-> 408, up |-> FALSE, bodies |-> <<>>,
                since |-> since, seen |-> seen]
    /\ Reset
    /\ UNCHANGED <<config, targetVars>>

\* The client of the endpoint hangs up: the handler is dropped.
Abandon ==
    /\ pc # "idle"
    /\ elapsed >= Patience
    /\ Reset
    /\ UNCHANGED <<config, targetVars, page>>

-----------------------------------------------------------------------------
\* The target (external): its state moves on, it breaks and recovers.
TargetChange ==
    /\ version < MaxVersion
    /\ version' = version + 1
    /\ UNCHANGED <<config, mode, requestVars, page>>

TargetTurns ==
    /\ mode' \in Modes \ {mode}
    /\ seen' = IF pc = "idle" THEN seen ELSE seen \union {Kind'}
    /\ UNCHANGED <<config, version, pc, elapsed, waited, parts, failure, since,
                   page>>

\* Timers fire when they are due, the handler runs when it can, and a serving
\* target answers within its latency: a second passes only if none of these
\* has anything left to do.
Urgent ==
    \/ pc = "render"
    \/ FetchExpired
    \/ RequestExpired
    \/ Serving /\ waited >= Latency

PassTime ==
    /\ pc = "fetch"
    /\ ~Urgent
    /\ elapsed' = elapsed + 1
    /\ waited' = waited + 1
    /\ UNCHANGED <<config, targetVars, pc, parts, failure, history, page>>

Handler ==
    \/ Request \/ FetchOk \/ FetchRejected \/ FetchBroken
    \/ FetchTimesOut \/ Render \/ LayerTimesOut

Next == Handler \/ Abandon \/ TargetChange \/ TargetTurns \/ PassTime

Spec == Init /\ [][Next]_vars

\* The scraper keeps asking, the runtime polls what can proceed, time passes.
FairSpec == Spec /\ WF_vars(Handler) /\ WF_vars(PassTime)

-----------------------------------------------------------------------------
TypeOK ==
    /\ target \in {"node", "brain"}
    /\ timeout \in Timeouts
    /\ mode \in Modes
    /\ version \in Nat \ {Elsewhere}
    /\ pc \in {"idle", "fetch", "render"}
    /\ elapsed \in 0 .. RequestTimeout
    /\ waited \in 0 .. timeout
    /\ parts \in Seq(Nat)
    /\ Len(parts) <= Len(Paths)
    /\ failure \in Failures \union {NoFailure}
    /\ since \in Nat
    /\ seen \subseteq Kinds
    /\ page \in Pages

\* A fetch failure never fails the endpoint (src/exporter.rs:13-15): whatever
\* the target does, in whatever order, the answer is a page.
NeverFails == page.code # 408

\* The same for the configurations in which every fetch of a scrape may take its
\* full time.
ScrapeFits == Len(Paths) * timeout < RequestTimeout
FittingNeverFails == ScrapeFits => NeverFails

\* A page that says scrape_up 1 holds every body; those of the target were
\* written after the request began, in the order of the paths, so its readiness
\* is never older than its shard rows; a page that says 0 holds nothing.
Own(bodies) == {i \in 1 .. Len(bodies) : bodies[i] # Elsewhere}
PageIsCoherent ==
    /\ page.up => Len(page.bodies) = Len(Paths)
    /\ ~page.up => page.bodies = <<>>
    /\ \A i \in Own(page.bodies) : page.since <= page.bodies[i]
    /\ \A i, j \in Own(page.bodies) :
           i < j => page.bodies[i] <= page.bodies[j]

\* What an answer says of the target, up or not, was so at some moment of its
\* request, if a target that answers promptly can be scraped in time at all: none
\* gives up a target that served throughout, and one says up only of a target
\* that served, or of the page a target redirected to.
ServingFits == Len(Paths) * Latency < RequestTimeout
UpIsTrue ==
    page.code # 0 /\ ServingFits =>
        IF page.up
        THEN (IF Strays(page.bodies) THEN "moved" ELSE "serving") \in page.seen
        ELSE page.seen # {"serving"}

\* A target that serves from some moment on, ready or not, is reported up from
\* some moment on: an unready node is a reading, not a failure
\* (src/exporter.rs:129-131).
ServingIsUp == <>[]Serving => <>[](page.up)

\* A target that is gone for good, and leads nowhere else, is reported down for
\* good.
GoneIsDown == <>[](Kind = "gone") => <>[](~page.up)
=============================================================================
