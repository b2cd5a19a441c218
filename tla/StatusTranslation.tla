------------------------- MODULE StatusTranslation -------------------------
(***************************************************************************)
(* src/heartbeat.rs, status_from_value: what the heartbeat says of the     *)
(* node, distilled from the "consensus" block of its /v1/status.           *)
(*                                                                         *)
(* The block is a record of three lists of shard ids and of the rows, sets *)
(* of records with a shard_id and a role.  A list that is absent or no     *)
(* array counts as empty.  The code keeps vectors and sorts and dedups     *)
(* them at the end; sets are vectors up to that.  An entry that is not an  *)
(* unsigned integer is a negative number.                                  *)
(***************************************************************************)
EXTENDS Integers

CONSTANT MaxU32   \* u32::MAX

ASSUME MaxU32Assumption == MaxU32 \in Nat

\* as_u64 and u32::try_from: the entries that fit; u64 kept as it is.
AnyWidth(xs) == xs \intersect Nat
u32_array(xs) == xs \intersect (0 .. MaxU32)

shard_ids_from_rows(consensus) ==
    u32_array({s.shard_id : s \in consensus.shards})

shard_ids_by_role(consensus, role) ==
    u32_array({s.shard_id : s \in {r \in consensus.shards : r.role = role}})

\* The list, or what replaces it when it is empty.
OrElse(list, fallback) == IF list # {} THEN list ELSE fallback

\* Without the rows of a node that sends no lists.
ListOnly(consensus) == u32_array(consensus.leading_shards)
leading_shards(consensus) ==
    OrElse(u32_array(consensus.leading_shards),
           shard_ids_by_role(consensus, "leader"))

following_shards(consensus) ==
    OrElse(u32_array(consensus.following_shards),
           shard_ids_by_role(consensus, "follower"))

\* Without the roles of a node that sends neither its hosted shards nor rows.
NoRoles(consensus) ==
    OrElse(u32_array(consensus.hosted_shards), shard_ids_from_rows(consensus))
hosted_shards(consensus) ==
    OrElse(OrElse(u32_array(consensus.hosted_shards),
                  shard_ids_from_rows(consensus)),
           leading_shards(consensus) \union following_shards(consensus))

status_from_value(consensus) ==
    [leading |-> leading_shards(consensus),
     hosted  |-> hosted_shards(consensus)]
=============================================================================
