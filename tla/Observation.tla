---------------------------- MODULE Observation ----------------------------
(***************************************************************************)
(* Two views of one node: the heartbeat's, distilled from /v1/status, and  *)
(* the page's, translated from three bodies fetched one after the other    *)
(* while the node's shards are assigned, led, lost and faulted, and while  *)
(* some of them are left out of a body.                                    *)
(*                                                                         *)
(* The node's counts (of shards, leaders, followers, leaderless and at-risk *)
(* shards, and a row's other numbers) the exporter copies one by one; they *)
(* need not add up over the rows, and are not in the model.                *)
(***************************************************************************)
EXTENDS StatusTranslation, Exposition

CONSTANTS
    Shards,      \* ids of the shards a node may host
    Forms,       \* the forms of /v1/status: sets of the fields it has
    MaxSilent,   \* bound: shards that one body leaves out
    MaxVersion,  \* bound: the node changes its shards this often
    MaxOps       \* bound: the operations a body has recorded

\* The lists of led, followed and hosted shards, and the rows.
Fields == {"leading", "following", "hosted", "rows"}

ASSUME ShardsAssumption == Shards \subseteq Nat /\ IsFiniteSet(Shards)
ASSUME FormsAssumption == Forms \subseteq SUBSET Fields
ASSUME BoundsAssumption ==
    MaxSilent \in Nat /\ MaxVersion \in Nat /\ MaxOps \in Nat

VARIABLES
    role,        \* the node: what it does for each shard
    faulted,     \* the node: hosted shards whose store has failed
    version,     \* counts the changes of role and faulted
    summary,     \* the last status the heartbeat loop scraped, or None
    pc,          \* the exporter: the bodies it has fetched, 0 to 2
    shardsBody,  \* the exporter: the body of /v1/observe/shards
    opsBody,     \* the exporter: the body of /v1/observe/metrics
    shardsAt,    \* history: the version the first of them was written from
    page         \* the last page with scrape_up 1 until the next is begun

nodeVars == <<role, faulted, version>>
exporterVars == <<pc, shardsBody, opsBody, shardsAt, page>>
vars == <<nodeVars, summary, exporterVars>>

None == [at |-> -1]

Roles == {"none", "leader", "follower", "candidate"}

Hosted == {s \in Shards : role[s] # "none"}
With(r) == {s \in Shards : role[s] = r}

\* The shards a body may leave out.
Silences == {silent \in SUBSET Hosted : Cardinality(silent) <= MaxSilent}

-----------------------------------------------------------------------------
(***************************************************************************)
(* The node and its answers (external)                                     *)
(***************************************************************************)
\* Only a leader measures a round trip, and not before its first append.
Row(s, timed) ==
    [shard_id           |-> s,
     role               |-> role[s],
     storage_healthy    |-> s \notin faulted,
     append_rtt_ms_last |-> IF s \in timed THEN 1 ELSE Null]
Rows(silent, timed) == {Row(s, timed) : s \in Hosted \ silent}

\* A list has all the shards; the rows may lack some, or lack their ids.
StatusBody(fields, silent) ==
    [leading_shards   |-> IF "leading" \in fields THEN With("leader") ELSE {},
     following_shards |-> IF "following" \in fields THEN With("follower") ELSE {},
     hosted_shards    |-> IF "hosted" \in fields THEN Hosted ELSE {},
     shards           |-> IF "rows" \in fields THEN Rows(silent, {}) ELSE {}]

\* A shard that does not answer the node's probe is listed as unresponsive.
ShardsBody(silent, timed) ==
    [storage_faulted_shards |-> faulted,
     unresponsive_shards    |-> silent,
     status_complete        |-> silent = {},
     rows                   |-> Rows(silent, timed)]

\* Cumulative counts per bucket, the last +Inf.
OpsBody(fast, slow) ==
    [count   |-> fast + slow,
     buckets |-> <<fast, fast + slow>>]

\* A node is not ready with a failed store, nor with a shard that now does not
\* run or does not answer.
ReadyBody(running) ==
    [status             |-> IF faulted = {} /\ running THEN "ok" ELSE "unavailable",
     all_shards_running |-> running]

\* The sidecar may start beside a node that has been running for long.
NodeInit ==
    /\ role \in [Shards -> Roles]
    /\ faulted = {}
    /\ version = 0

\* A shard is assigned, taken away, led, followed, or left without a leader.
Reassign(s, r) ==
    /\ version < MaxVersion
    /\ role[s] # r
    /\ role' = [role EXCEPT ![s] = r]
    /\ faulted' = IF r = "none" THEN faulted \ {s} ELSE faulted
    /\ version' = version + 1
    /\ UNCHANGED <<summary, exporterVars>>

\* A hosted shard's store fails, or is repaired.
Fault(s) ==
    /\ version < MaxVersion
    /\ s \in Hosted
    /\ faulted' = (faulted \ {s}) \union ({s} \ faulted)
    /\ version' = version + 1
    /\ UNCHANGED <<role, summary, exporterVars>>

-----------------------------------------------------------------------------
(***************************************************************************)
(* The sidecar                                                             *)
(***************************************************************************)
Init ==
    /\ NodeInit
    /\ summary = None
    /\ pc = 0
    /\ shardsBody = None
    /\ opsBody = None
    /\ shardsAt = -1
    /\ page = None

\* The heartbeat loop scrapes /v1/status, in the form the node then has.  Bound:
\* once for each version, as a second scrape finds what the first might have.
ScrapeStatus ==
    /\ summary.at # version
    /\ \E fields \in Forms, silent \in Silences :
           /\ "rows" \in fields \/ silent = {}
           /\ summary' =
                  [at |-> version, fields |-> fields, silent |-> silent,
                   status |-> status_from_value(StatusBody(fields, silent))]
    /\ UNCHANGED <<nodeVars, exporterVars>>

FetchShards ==
    /\ pc = 0
    /\ pc' = 1
    /\ \E silent \in Silences, timed \in SUBSET With("leader") :
           shardsBody' = ShardsBody(silent, timed)
    /\ shardsAt' = version
    /\ page' = None
    /\ UNCHANGED <<nodeVars, summary, opsBody>>

FetchOps ==
    /\ pc = 1
    /\ pc' = 2
    /\ \E fast, slow \in 0 .. MaxOps :
           /\ fast + slow = MaxOps
           /\ opsBody' = OpsBody(fast, slow)
    /\ UNCHANGED <<nodeVars, summary, shardsBody, shardsAt, page>>

\* The last body is in, and the page is written from all three.
FetchReady ==
    /\ pc = 2
    /\ pc' = 0
    /\ \E running \in BOOLEAN :
           page' = [at |-> shardsAt, until |-> version,
                    silent |-> shardsBody.unresponsive_shards,
                    families |-> node_families(shardsBody, opsBody,
                                     ReadyBody(running))]
    /\ shardsBody' = None
    /\ opsBody' = None
    /\ shardsAt' = -1
    /\ UNCHANGED <<nodeVars, summary>>

\* A fetch fails or times out: what the scrape has is dropped.
FetchFails ==
    /\ pc # 0
    /\ pc' = 0
    /\ shardsBody' = None
    /\ opsBody' = None
    /\ shardsAt' = -1
    /\ UNCHANGED <<nodeVars, summary, page>>

Next ==
    \/ \E s \in Shards : Fault(s) \/ \E r \in Roles : Reassign(s, r)
    \/ ScrapeStatus
    \/ FetchShards \/ FetchOps \/ FetchReady \/ FetchFails

Spec == Init /\ [][Next]_vars

-----------------------------------------------------------------------------
(***************************************************************************)
(* Properties                                                              *)
(***************************************************************************)
Statuses == [leading : SUBSET (0 .. MaxU32), hosted : SUBSET (0 .. MaxU32)]

TypeOK ==
    /\ role \in [Shards -> Roles]
    /\ faulted \subseteq Hosted
    /\ version \in Nat
    /\ \/ summary = None
       \/ summary \in [at : 0 .. version, fields : Forms,
                       silent : SUBSET Shards, status : Statuses]
    /\ pc \in 0 .. 2
    /\ shardsAt \in -1 .. version
    /\ (pc = 0) <=> (shardsAt = -1)

\* A heartbeat claims to lead a shard that it does not claim to host only when
\* the node lists what it leads but not what it hosts, and the shard has no row
\* among its rows (status_from_value and its fallbacks, whichever fields the
\* status has and whichever ids do not fit 32 bits).
LeadsWhatItHosts ==
    summary # None =>
        LET stray == summary.status.leading \ summary.status.hosted
        IN  stray # {} => /\ {"leading", "rows"} \subseteq summary.fields
                          /\ "hosted" \notin summary.fields
                          /\ stray \subseteq summary.silent

\* The shards a family has a series for, and those it shows a value of.
Labels(family) == {x[1] : x \in family}
Showing(family, value) == {x[1] : x \in {y \in family : y[2] = value}}

\* What a heartbeat says against the is_leader family, as far as the status has
\* the fields to say it: up to ids that do not fit 32 bits, which the page
\* keeps, and to the shards that either body left out.
Agree(beat, is_leader, silent) ==
    LET quiet == beat.silent \union silent
    IN  /\ {"leading", "rows"} \intersect beat.fields # {} =>
               beat.status.leading \ quiet
                   = u32_array(Showing(is_leader, 1)) \ quiet
        /\ {"hosted", "rows"} \intersect beat.fields # {} =>
               beat.status.hosted \ quiet = u32_array(Labels(is_leader)) \ quiet

\* If the heartbeat and the page saw the same assignment, the brain is told
\* that the node leads the shards the page shows as led and hosts those it
\* shows (status_from_value against per_shard_families).
TwoViewsAgree ==
    summary # None /\ page # None /\ summary.at = page.at =>
        Agree(summary, page.families.per_shard.is_leader, page.silent)

\* Round trips are shown only of shards the page shows as led: a follower's
\* null is left out rather than shown as a misleading zero
\* (src/exporter.rs:479-480).
RoundTripsLed ==
    page # None =>
        Labels(page.families.per_shard.append_rtt) \subseteq
            Showing(page.families.per_shard.is_leader, 1)

\* A page that shows a ready node and a failed store, in a count or in a row,
\* was fetched while the node changed: readiness is read last, the shards
\* first.
QuietPageAgrees ==
    page # None /\ page.at = page.until /\ page.families.ready = 1 =>
        /\ page.families.storage_faulted = 0
        /\ Showing(page.families.per_shard.storage_healthy, 0) = {}

\* A page's histogram is one, cumulative and with the count in its +Inf bucket:
\* the node's buckets are copied and not summed up again (op_families).
HistogramWhole ==
    page # None =>
        LET op == page.families.op
        IN  /\ \A b \in 2 .. Len(op.bucket) : op.bucket[b - 1] <= op.bucket[b]
            /\ op.bucket[Len(op.bucket)] = op.count
=============================================================================
