----------------------------- MODULE Exposition -----------------------------
(***************************************************************************)
(* src/exporter.rs, node_families and brain_families: the families of a    *)
(* node's page, from the bodies of /v1/observe/shards, /v1/observe/metrics *)
(* and /readyz, and those of a brain's.                                    *)
(*                                                                         *)
(* A family with a label is a set of <<label, value>>.  Of the families    *)
(* drawn from a row there is one of each kind: a flag that compares, a     *)
(* flag that is copied, and a number that may be null.  The numbers that   *)
(* are copied as they are, the node's counts of its shards among them, and *)
(* the series per peer are left out.                                       *)
(***************************************************************************)
EXTENDS Integers, FiniteSets, Sequences

bool_value(b) == IF b THEN 1 ELSE 0

IsLeader(row) == row.role = "leader"

\* A number a follower's row has not, instead of a series of 0 for it.
ZeroForNull(rows) == rows
Null == -1
Measured(rows) == {r \in rows : r.append_rtt_ms_last # Null}

per_shard_families(rows) ==
    [is_leader       |->
         {<<r.shard_id, bool_value(IsLeader(r))>> : r \in rows},
     storage_healthy |->
         {<<r.shard_id, bool_value(r.storage_healthy)>> : r \in rows},
     append_rtt      |->
         {<<r.shard_id, r.append_rtt_ms_last>> : r \in Measured(rows)}]

\* The histogram's buckets are copied, since the node's counts are cumulative;
\* summed up once more.
SummedUp(buckets) ==
    LET Upto[b \in 1 .. Len(buckets)] ==
            IF b = 1 THEN buckets[1] ELSE Upto[b - 1] + buckets[b]
    IN  [b \in 1 .. Len(buckets) |-> Upto[b]]
Buckets(buckets) == buckets

op_families(operation) ==
    [bucket |-> Buckets(operation.buckets),
     count  |-> operation.count]

\* A body that came with 503 is a reading like any other; any body will do.
AnyBody(readyz) == TRUE
IsReady(readyz) == readyz.status = "ok"

node_families(shards, operation, readyz) ==
    [ready              |-> bool_value(IsReady(readyz)),
     all_shards_running |-> bool_value(readyz.all_shards_running),
     storage_faulted    |-> Cardinality(shards.storage_faulted_shards),
     unresponsive       |-> Cardinality(shards.unresponsive_shards),
     status_complete    |-> bool_value(shards.status_complete),
     per_shard          |-> per_shard_families(shards.rows),
     op                 |-> op_families(operation)]

-----------------------------------------------------------------------------
(***************************************************************************)
(* brain_families: the page of a brain's sidecar, from /v1/status.  One of *)
(* the three flags of the cluster and one of the four counts of the        *)
(* placement; the others differ in their names.                            *)
(***************************************************************************)
brain_families(status) ==
    [is_leader       |-> bool_value(status.is_leader),
     nodes_by_health |-> {<<health, status.nodes_by_health[health]>> :
                              health \in DOMAIN status.nodes_by_health},
     unhealthy       |-> status.shards_with_unhealthy_replicas]
=============================================================================
