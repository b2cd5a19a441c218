# Verification of fiducia-node-sidecar

TLA+ modules that model the sidecar, TLC configurations that check them on
small instances, and theorems about them checked by TLAPS. Source lines are
those of this repository.

## The system

One sidecar runs beside each `fiducia-node`. A process holds two background
tasks and an HTTP server, which share one `SidecarMetrics` (atomics) and
nothing else.

| Part | Source | State | Operations |
|---|---|---|---|
| heartbeat bridge | `src/heartbeat.rs` | next sequence number (`AtomicU64`, seeded from the wall clock), tokio interval, the cycle in progress | tick, scrape the node's `/v1/status`, number and POST a heartbeat to the brain, count the outcome |
| log shipper | `src/collector.rs` | byte offset, the chunk in hand | stat, open, seek and read to the end, ship to an HTTP sink or the process's log, count |
| counters | `src/metrics.rs` | ten `AtomicU64`s | `fetch_add`, store the time of the last success, `render()` reads them one by one |
| readiness | `src/main.rs` `ready` | none of its own: reads the last success's time and the wall clock | 200 "ok", 503 "starting", 503 "stale" |
| metrics endpoint | `src/exporter.rs`, `src/main.rs` `metrics` and the router's layers | per request: the bodies fetched so far | three fetches from a node or one from the brain, translation to families, page |
| start-up | `src/main.rs`, `src/listener.rs`, `src/meta.rs` | the place in `main` | checks the secret, reads role, intervals, metadata and listen address, spawns the tasks, then binds and serves |
| trusted-hop header | `src/auth.rs` | a secret read once | attaches one header to every request |
| launcher and environment bindings | `scripts/with-flags2env.sh`, `generated/rust` | none | resolve flags, shell and `.env` to one environment, and start the sidecar with it |

How they interact: the heartbeat loop writes counters and the time of the last
success, which `/readyz` turns into a verdict and `/metrics` renders; the
loop's peers are the node and the brain, over HTTP with a 5 s timeout and no
redirects; the exporter fetches from the same node (or brain) with a client of
its own, which follows redirects, and so does the log shipper's, which shares
the counters only. Nothing is persisted: a
restart forgets the number, the offset and the counters.

What is hard here: the sequence of numbers has to rise across restarts with
nothing remembered but the wall clock; answers are lost or late while the brain
has or has not recorded; missed ticks fire in bursts; readiness compares two
readings of a clock that can be set; a page reads counters that move; files are
rotated between two system calls; two of the clients follow redirects, which
turns a POST into a GET and one page into another; three timeouts in a row meet one around them;
two tasks run before the address is known to be good; several variables are
read twice, by readers that treat blanks, case and emptiness differently.

What makes each part correct, in the words of the properties below: numbers
rise across restarts and the brain's view only moves forward (bridge); a
heartbeat and a page tell the same of one assignment (translations); every
attempt has one outcome (bridge, counters); ready means fresh, promptly
answered means ready, outages and recoveries are noticed (readiness); no byte
is skipped or read twice, and what is counted as shipped has arrived unless the
sink sent it elsewhere (shipper); the endpoint never fails and a page is
whole (endpoint); what the deployment says is what the process does in every
life, and it comes up (start-up).

## Modules

`BrainRegister` is the abstract specification of the bridge: a version of the
node's status, the version the brain knows, the version the sidecar believes
the brain knows. Each only moves forward, in that order. `LogTail` is that of the
log shipper: bytes are taken in order, once each, and none is skipped that is
still in the file; what is in hand is delivered, counted as a failure, or diverted
by the sink, which is the one loss nobody is told of.

`HeartbeatBridge` models `heartbeat::run`. `pc` is the place in the loop;
`Tick`, `ScrapeOk`, `ScrapeFail`, `SendOk`, `SendFail` are the code between two
awaits, with the counters each writes; `Start` and `Crash` are the life of the
process. The network is the set of all heartbeats ever sent, so any of them may
arrive late, again or after newer ones. `lag` is how far the wall clock is
behind true time; `ClockStep` sets it. A node status is the version of the
node's shard assignment; `Unobserved` is a body that does not describe the
node. The node and the brain are external and modelled from what the bridge
relies on: the brain records only strictly newer numbers (heartbeat.rs:42-44)
and answers whatever it makes of the number. `NodeRedirects` and
`BrainRedirects` say whether peers may answer 3xx, which `error_for_status`
lets pass.

`Readiness` models the same loop for its timing, with the `/readyz` handler as
the expression `Verdict`. Durations are relative, so time is unbounded: `due`
counts down to the next tick and goes negative when ticks are overdue
(`MissedTickBehavior::Burst`), `okAge` is the true age of the last success,
`nodeGone` and `brainGone` for how long a peer has not served.
Time passes only when nothing is due. Peers serve, refuse or hang, and the fate
of a request is decided when it is made. The bridge's module keeps numbers and
messages, this one durations; both have one action per step of `run`.

`LogShipper` models `ship_logs` one file operation at a time. Bytes are
numbered in the order they are written; a file is the numbers above its base.
`Truncate`, `Rename` and `Create` are log rotation, possible between any two
steps of the task; a reader keeps the file it has open. It implements `LogTail`
with the bytes of the chunk being shipped as what is in hand. `Outgrows` says whether
a rotated file may reach the old offset unseen, `CharWidth` how many bytes a
character has. `DecodedLength` is what `from_utf8_lossy` leaves of a chunk. An
HTTP sink stores a chunk, refuses it, or answers with a redirect
(`SinkMoves`): the client of collector.rs:26-31 follows a 301, 302 or 303 with a
GET that has no body, and a 3xx that leads nowhere passes `error_for_status`, so
that either way `Accepted` takes it for a success; `diverted` remembers those
chunks. A 307 or 308 carries the chunk along, and the sink is what it leads to.

`SidecarMetrics` models the counters at the grain of one atomic access. Both
writers and `render()` interleave; `last` remembers the page before. The time of
the last success is reduced to how often it was stored. Atomics are
taken to be sequentially consistent, although the code uses `Relaxed`.

`MetricsEndpoint` models one `/metrics` request: the fetches one after the
other, each under the client's timeout, the failure that ends the scrape, the
router's timeout layer, a client that hangs up, and the page. The target
changes its state and its behaviour between any two steps. The target and the
fetch timeout are chosen in the initial state and never change; `ScrapeFits`
says whether that choice lets all fetches end before the layer's timeout, and
`ServingFits` whether those of a prompt target do. A target that has `moved`
redirects the exporter's client, which follows (exporter.rs:82-85), to a page
whose answer may be anything; its body is `Elsewhere`, since it says nothing of
the target. `seen` remembers how the target behaved during the request.
Requests share only the HTTP client, so one at a time is enough.

`StatusTranslation` and `Exposition` are operators: `status_from_value`, which
distils the heartbeat's lists from a status, and `node_families`, which turns
three bodies into a page. A list that is sorted and deduplicated is a set.
`Observation` puts both beside one node that reassigns, loses and elects leaders
of its shards and whose stores fail. The heartbeat's scrape and the exporter's
three fetches happen at any moment. A status has any set of fields in `Forms`:
of three lists and the rows, each of which `status_from_value` uses on its own.
The node's bodies are no more consistent than the code and its tests let one
think. A row may lack a leader's round trip (exporter.rs:1079-1081); a body may
leave a shard out, which `/v1/observe/shards` then lists as unresponsive
(exporter.rs:406-422) and the rows of a status lack as if their ids were
malformed (heartbeat.rs:338-354); a node may be unready for a shard that does
not run (exporter.rs:1000-1008). What is assumed of the node: `/readyz` is not
"ok" while a store is failed (it lists the failed stores itself,
exporter.rs:1000-1008; a unit test of the translation, exporter.rs:1068-1082,
puts a ready body beside a failed store all the same, which a node does only by
changing in between), only a leader has a round trip, and a list, where there is
one, has all shards of its role. The node's counts of
shards, leaders, followers and leaderless shards are copied one by one, and need
not add up over the rows (exporter.rs:1085-1097): they are left out.

`Configuration` is what `main`, `listener.rs`, `auth.rs`, `meta.rs` and
`Exporter::from_env` make of the environment, one operator per reader. A value
is a word, the blanks around it and the case of its letters, since that is what
its readers differ in: `required_env` and `internal_secret` trim, `u16::parse`
takes no blanks, `eq_ignore_ascii_case` and `to_ascii_lowercase` take any case,
`allow_non_loopback_from_env` only two, `RegionLabel` drops what is empty but not
what is blank. `scripts/with-flags2env.sh` may start the sidecar with what the
tool `flags2env` resolves from flags, shell and `.env`; the tool is a submodule,
and `load_env_map` models it by the Rust binding it generates, which nothing in
the repository calls itself. `SocketAddress` is what the standard library parses
of a word, any function into `Addresses`: a port of 16 bits, 0 included, and a
class, loopback, unspecified or other, which are the ones `listen_addr` tells
apart ("other" has the IPv4-mapped addresses, the unspecified one among them,
and multicast).

`Sidecar` composes them: `pc` is the place in `main`, from the secret to the
socket, `beat` the heartbeat task spawned on the way. Each failure of `main`,
and `Crash`, ends the process with its tasks; `Start` is Kubernetes. The port
may be another process's, node and brain come and go, and the brain hears of
other nodes and gives up on those it knows. A heartbeat and a scrape are one
step each, `HeartbeatBridge` and `MetricsEndpoint` have their insides; the page
of a brain's sidecar is `brain_families` of `Exposition`. What is known outside
(`sent`, `health`, `told`, `page`) outlives the process. `MCSidecar` gives TLC
its deployments: one that works, and those that differ from it in the variables
that are read together.

`HeartbeatBridge_proofs`, `Readiness_proofs`, `MetricsEndpoint_proofs`,
`Observation_proofs`, `LogShipper_proofs`, `SidecarMetrics_proofs` and
`Sidecar_proofs` hold the theorems. Definitions named after a mistake (`SeedFromOne`,
`UncountedFailure`, `NoTimeout`, ...) are alternatives to the definition after
them, each a bug this code could have, or has had; no action uses them. With
any of them in place, the property it is meant to break is violated.

## Runs

| Configuration | Checks | Shows |
|---|---|---|
| `HeartbeatBridge_lives` | `TypeOK`, `ResumesAbove`, `Accounting`, `OkMeansRecorded`, `ImplementsRegister` | lives, crashes, bursts of ticks, a clock that steps by less than a restart takes, a network that loses, duplicates and reorders |
| `HeartbeatBridge_setback` | `ResumesAbove` fails | a clock set back by as much as a restart takes |
| `HeartbeatBridge_brainredirect` | `OkMeansRecorded` fails | a 3xx of the brain is counted as a success |
| `HeartbeatBridge_noderedirect` | `ObservedOnly` fails | a 3xx of the node with JSON becomes a heartbeat |
| `Readiness_probe` | `TypeOK`, `ReadyMeansServed`, `HealthyNeverStale`, `OutageNoticed`, `RecoveryNoticed` | both roles, peers that serve, refuse or hang, a cycle that just fits the limit, a wall clock that steps |
| `LogShipper_rotation` | `TypeOK`, `ResumesExactly`, `ShippedOrDiverted`, `AllRead`, `ImplementsTail` | rotation of both kinds seen in time, characters of two bytes cut by a poll, read errors, a sink that stores, refuses or redirects, restarts |
| `LogShipper_outgrown` | `ResumesExactly` fails | a rotated file longer than the offset |
| `SidecarMetrics_page` | `TypeOK`, `AttemptsAccounted`, `SuccessIsStamped`, `PagesRise` | one page after the other, rendered while both tasks count |
| `Observation_views` | `TypeOK`, `LeadsWhatItHosts`, `TwoViewsAgree`, `RoundTripsLed`, `QuietPageAgrees`, `HistogramWhole` | three shards, one with an id that does not fit 32 bits, in every assignment; four forms of a status, bodies that leave a shard out |
| `MetricsEndpoint_scrapes` | `TypeOK`, `FittingNeverFails`, `PageIsCoherent`, `UpIsTrue`, `ServingIsUp`, `GoneIsDown` | node and brain that serve, fail, hang or redirect, a fetch timeout of 3 s (the default) and of 5 s, where three fetches and the layer expire together |
| `MetricsEndpoint_hung` | `NeverFails` fails | 6 s and three fetches |
| `Sidecar_lives` | `TypeOK`, `Authenticated`, `BrainNeverRegisters`, `OnlyOthersCounted`, `NeverDiesSilently`, `ServesLocally`, `OneRegion`, `AcceptedServes`, `BridgeRegisters` | secrets, roles and targets, addresses with port 0 among them, periods and regions, log sources in every spelling their readers tell apart, set directly or through the launcher; crashes, lost races for the port, peers that come and go |

The runs that fail are disagreements between the code and a comment, a test or
the repository's README:

1. The seed is the wall clock and nothing else (heartbeat.rs:45): a clock set
   back across a restart makes the new life's heartbeats stale, against
   heartbeat.rs:40-42.
2. A 3xx of the brain passes `error_for_status` under `Policy::none`
   (heartbeat.rs:220-224) and is counted as a success.
3. A 3xx of the node with a JSON body passes too (heartbeat.rs:155-165) and
   becomes a heartbeat with empty lists, against the test at heartbeat.rs:640,
   whose redirect has no JSON body.
4. Rotation is recognised by length alone (collector.rs:71).
5. Nothing bounds `FIDUCIA_OBSERVE_TIMEOUT_MS` (exporter.rs:83): from 5 s on,
   three fetches outlast the router's 15 s, against exporter.rs:13-15.

Noted while modelling, without a run of their own: a sink that redirects makes
the shipper count a chunk that never arrived (collector.rs:26-31, 88-104), which
`ShippedOrDiverted` and `LogTail` set apart from what did; a target that redirects
to any page with JSON is reported as `scrape_up 1` (exporter.rs:82-85, 149-159),
which `UpIsTrue` and `GoneIsDown` set apart likewise; a status that lists the shards it
leads but not those it hosts, beside rows that lack one of them, becomes a
heartbeat that leads a shard it does not host, which the test at
heartbeat.rs:338-354 pins and `LeadsWhatItHosts` shows to be the only such case;
`PORT=0` means 8091, but `FIDUCIA_SIDECAR_BIND=127.0.0.1:0` is accepted and the
system picks a port nobody is told (listener.rs:14-31); a valid character cut in two
by a poll is decoded in two halves and lost (collector.rs:77), and
`log_bytes_shipped` counts what decoding made of it, which is more than was read;
a node's sidecar whose address is refused, or whose port is taken, has spawned
its heartbeat first (main.rs:90-132) and may register the node in every life of
a restart loop; through the launcher `FIDUCIA_SIDECAR_BIND` defaults to
`127.0.0.1:9090` (generated/rust/runtime.rs:199), so that `PORT`, the "Optional
listen port override" (generated/rust/env.rs:59), changes nothing, which
`LauncherIgnoresPort` proves, and 8091 is never the default; `FIDUCIA_INTERNAL_SECRET`, which README.md:198 says is
excluded from the CLI schema, is among the flags (`.cli-flags.toml`); a
`FIDUCIA_LOG_SOURCE` that is set to nothing hides the older name
(main.rs:107-109); readiness takes the age from
the wall clock (main.rs:305), so a clock set back after the last success hides
a stale heartbeat by as much, which is the `MaxStep` in `ReadyMeansServed`;
for the same reason `last_heartbeat_success_ms`, which the page calls a counter
(metrics.rs:97-99), can go back, and `PagesRise` leaves it out;
`README.md:74` lists `/readyz` under liveness, although it answers 503 for
reasons outside the process; `render()` reads attempts before failures
(metrics.rs:54-95), so a page can show more failures than attempts, and the
inequality that heartbeat.rs:541-545 asserts of one page holds only when the
page does not straddle a cycle.

### Bounds

`MaxTime` and `MaxVersion` in `HeartbeatBridge` leave room for a life, a crash,
a restart and a second life with a burst of ticks, and for a status older, as
old and newer than the one in flight; a number that is reused, or a version
that comes back, needs no more. The theorems have no bounds. `MaxBacklog` in
`Readiness` forgets ticks overdue by more: the loop works one overdue tick off
per cycle and behaves the same with more of them. `AgeCap`, `GoneCap` and
the cap on `steady` lie above every value a property tells apart. `MaxBytes` in
`LogShipper` gives room for a chunk, a rotation and a chunk in each of two
files; `MaxErrors` bounds a counter no guard reads. `MaxCycles` in
`SidecarMetrics` lets a page fall between two cycles. `MaxVersion` in
`MetricsEndpoint` lets the target change between any two fetches, which is
enough to tell bodies in order from bodies out of order, and `Patience` lies
between what a serving target needs and what the slowest scrape takes, so that
a client may hang up on the latter and gets the former. In `Observation` every assignment is an initial state, so
one change, before, between or after the fetches, is enough to tell the views
apart; three shards make room for one led, one followed or leaderless, and one
with too wide an id. `Forms` in its run has all fields, the rows alone, two lists
alone and a list beside rows, one for each way the fallbacks can go; a body
leaves out at most one shard (`MaxSilent`), and the page of a scrape is forgotten
when the next one begins. The heartbeat's scrape is made once for each version of
the node: a second one of the same version finds what the first might have. Durations are in seconds; those of `Readiness` are about a
third of the defaults, with a cycle that still just fits the limit.

`MaxCrashes` in `Sidecar` is one crash at any point, beside any number of
failed starts; two lives are enough to tell what outlives one. `Others` is one
node, so a brain that counts this sidecar's host shows one too many. Properties
of the environment hold or fail for one deployment at a time; the theorems hold
for all of them.

No run disables deadlock checking.

### Fairness

`Readiness`: the runtime polls a task that is ready, Kubernetes restarts a dead
container (heartbeat.rs:12), time passes; nothing is assumed of the peers, the
wall clock or crashes but what a property says. `LogShipper`: file operations
return and the sleep ends, a POST ends at the latest with the client's timeout,
the container is restarted; an answer is not assumed. `MetricsEndpoint`: the
scraper keeps asking and has some patience, the handler is polled, time passes.
`Sidecar`: Kubernetes restarts the container (`Start`), and the runtime polls
`main` and the heartbeat task; of the port and the peers nothing is assumed but
what a property says.

## Proofs

All of these hold for every value of the constants, under the assumptions the
modules name: `SocketAddress` is a partial function into `Addresses`
(`SocketAddressAssumption`), `Forms` are sets of the four fields
(`FormsAssumption`), the shards are finitely many natural numbers
(`ShardsAssumption`), durations are natural numbers and a fetch timeout is not
zero.

`HeartbeatBridge_proofs`. `ResumesAboveCorrect` assumes that the wall clock
cannot be set back by as much as a restart takes (`MaxLag < RestartDelay`);
run `setback` shows that the assumption is needed. `ResumesAbove` is not
inductive: it must be known that numbers never outrun the clock. `NumberInv`
says so with the interval's deadline as the link: a number is handed out per
tick, ticks are `Interval >= 1` ms apart by their deadlines, even in a burst, so
the next number is never above the next deadline, and a deadline that has fired
is not in the future. A crash then leaves `top <= downAt`, and the next seed is
above it. `OkMeansRecordedCorrect` and `RegisterImplemented` add `NetInv`
(later numbers carry later versions, the brain's record is a message) and
`LoopInv` (what the loop holds is at least as new as all that was sent), and
assume peers that do not redirect; the runs `brainredirect` and `noderedirect`
show why. `ViewsInOrder` follows from the register alone. Two theorems say what is
left when an assumption goes: a brain that redirects spoils the count of
successes, but the brain's own view still only moves forward
(`ViewMovesForwardCorrect`, with the part of `LoopInv` that trusts no answer), and
whatever else happens, only a node that redirects can be told of unobserved
(`ObservedOnlyCorrect`). `AccountingCorrect` needs no assumption.

`Readiness_proofs`. `HealthyNeverStaleCorrect` rests on a bound that decreases
with time: `Remaining`, the longest until the next success while both peers
serve. The time both have served plus what remains never exceeds `Settle`, or
the age of the last success plus what remains never exceeds `Cycle`. That the
verdict is then "ok", if a cycle fits the limit and the clock has not been set
forward since the last success, is part of the property.
`ReadyMeansServedCorrect` rests on `GoneInv`: no peer has been gone for longer
than the request it last answered, what followed it and the age of the success
it led to. Its three bounds are exact: with one unit less in any of them the
run fails.

`MetricsEndpoint_proofs`. `FittingNeverFailsCorrect` needs no assumption, since
the property says itself that all fetches of a scrape fit: the time elapsed is at most a timeout per body
fetched plus the time waited. `PageIsCoherentCorrect` says that the bodies are
ordered between the version at the request's beginning and the present one.
`UpIsTrueCorrect` rests on `SeenInv`: a body in hand and a failure each show that
the target was seen in the state they speak of, and while it has served
throughout, the time elapsed is at most its latency per body plus the time waited,
which excludes every timeout, the layer's too. A body from elsewhere shows that
the target has moved.

`Observation_proofs`. `TwoViewsAgreeCorrect` relates two copies taken at
different moments. `ViewInv` says of each copy that it is no newer than the node
and true of it while the node's version is the one it was taken at; two true
copies agree (`NowAgrees`), and a change of the node makes both old.
`RowsShowNow` and `DistilsNow` are the facts about the two translations. Shards that a body
leaves out are set aside on both sides. `LeadsWhatItHostsCorrect` goes through
the fallbacks for every set of fields, not only those of the run. The page's
agreement with itself rests on `BodiesInv`: each body is sound when it is
written (`ShardsSound`, `OpsWhole`) and stays so in the exporter's hands, and
while the node has not changed since, its failed stores are those of the body.

`LogShipper_proofs`. `PlaceInv` says where the offset is: at the end of the last
byte read in the file at the path, or that file is newer than the byte; an open
file that was renamed is kept apart. It holds however files are rotated, and
gives `ReadsOnce`, and `ShippedOrDivertedCorrect` together with `CountInv`, which
bounds what decoding adds to the bytes stored and diverted. `ResumesExactlyCorrect` adds `PaceInv`, that a file other than the
one last read is shorter than the offset, and assumes `~Outgrows`; run
`outgrown` shows why. `TailImplemented` maps every step to one of `LogTail`: a read
is `Take`, since `ResumesExactly` of the next state says where its chunk begins; a
success is `Deliver`, since by `CountInv` a good answer means that the sink has
the chunk, or `Divert` if the answer came by a redirect. `NoSilentLoss`, that a
life without a failure counted has lost nothing of the file that is there but
what was diverted, is proved of the tail in a few lines, and holds of the
shipper because it implements it.

`SidecarMetrics_proofs`. `MemoryInv`: in memory at most one attempt is open.
`PageInv` follows a render row by row: from the row that reads the attempts to
the row that reads the last of their outcomes, what the page has and what memory
still has to give account for them. A success and its time are one increment
apart in memory, which is `SuccessIsStampedCorrect` for a page that reads them in
that order. `LastInv` gives `PagesRiseCorrect`: memory never
falls, so what is read of a counter is no less than what any earlier page has.

`Sidecar_proofs`. The lemmas about the readers (`SecretRead`, `BrainIsExporter`,
`ListensWell` among them) hold for any word, blanks and case; the invariant
carries them through lives: what was sent was sent with the one secret, the
heartbeat task exists only for a full role and a positive period, and an address
that was accepted is the one the environment yields, of whatever port. `OnlyOthersCountedCorrect`
counts the hosts of two states of health as disjoint parts of `Others`, which a
brain's sidecar never joins. `LauncherPrecedence` and `LauncherLosesNothing` say what
`load_env_map` yields for every shell, `.env` and flags, and `LauncherIgnoresPort`
what follows for the address.

Every safety property of the passing runs is proved. Only model-checked are the
liveness properties (`OutageNoticed`, `RecoveryNoticed`, `AllRead`, `ServingIsUp`,
`GoneIsDown`, `AcceptedServes`, `BridgeRegisters`), because the prover does not treat
fairness.

## Not modelled

Bodies that lack fields, other than those said above; the families that copy a
number (they differ in their names, and what the node's counts add up to is the
node's affair);
the text format; `/healthz` and `/meta`, which answer with constants while the
socket is open; the URLs and the metadata other than id and region, which are
read in the same ways; logging and telemetry, with `endpoint_label`; reading and
parsing `.env`, the typed loaders of the bindings and the bindings for other
languages; the repository's tooling, which is no part of the running program.
Memory ordering weaker than sequential consistency: the counters are `Relaxed`.
Several `/metrics` requests at a time: they share the HTTP client alone. Two
sidecars at once: that the ids differ is assumed. Duplicates of log bytes across
lives, which a restart makes and nothing denies.

## Plan

Done: the abstract register and the bridge, readiness, the shipper, the
counters, the endpoint's control flow, the translations of a node's and a
brain's bodies, the configuration and the process as a whole, and proofs of
every safety property of the passing runs. What could follow:

1. A memory model for the counters, in which two of them become visible in
   either order.
2. `/readyz` in `Sidecar`, with readiness refined to what the brain knows.
3. Bodies that lack fields, and what the page then shows.
