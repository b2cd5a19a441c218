--------------------------- MODULE BrainRegister ---------------------------
(***************************************************************************)
(* What the heartbeat bridge promises, without clocks, sequence numbers,   *)
(* requests or crashes: the control plane holds a version of the node's    *)
(* status that only ever moves forward and is never ahead of the node, and *)
(* the sidecar never believes the control plane knows a version it does    *)
(* not know yet.                                                           *)
(***************************************************************************)
EXTENDS Integers

VARIABLES
    truth,   \* the version of its status the node is at
    known,   \* the version the brain last recorded, 0 before the first
    acked    \* the version of the last heartbeat counted as a success

vars == <<truth, known, acked>>

Init ==
    /\ truth = 1
    /\ known = 0
    /\ acked = 0

\* The node hosts or leads other shards than before.
Change ==
    /\ truth' = truth + 1
    /\ UNCHANGED <<known, acked>>

\* The brain catches up, possibly over several versions at once.
Learn ==
    /\ known' \in (known + 1) .. truth
    /\ UNCHANGED <<truth, acked>>

\* The sidecar counts a success for a version the brain has.
Acknowledge ==
    /\ acked' \in (acked + 1) .. known
    /\ UNCHANGED <<truth, known>>

Next == Change \/ Learn \/ Acknowledge

Spec == Init /\ [][Next]_vars
=============================================================================
