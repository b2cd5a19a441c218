------------------------------ MODULE Sidecar ------------------------------
(***************************************************************************)
(* One sidecar as a whole, for all its lives: src/main.rs from the check   *)
(* of the secret to the socket, the tasks it spawns on the way, and what   *)
(* node, brain and the reader of /metrics come to know of it.              *)
(*                                                                         *)
(* Neither the environment nor the deployment changes, so that what main   *)
(* reads of it is an expression.  A heartbeat and a scrape are one step    *)
(* here: HeartbeatBridge and MetricsEndpoint have their insides.           *)
(***************************************************************************)
EXTENDS Configuration, Exposition

CONSTANTS Deployments,  \* how the sidecar may be started
          Others,       \* the other nodes the brain may know
          MaxCrashes    \* bound: how often the process is killed

VARIABLES env,      \* the process's environment
          pc,       \* the place in main
          beat,     \* the heartbeat task
          shipping, \* the log task
          addr,     \* the address main has accepted
          crashes,  \* how often the process was killed
          port,     \* whether another process holds that address
          peers,    \* whether node and brain answer
          sent,     \* with which secrets requests were sent, in any life
          health,   \* the brain: what it makes of each node
          told,     \* the brain: the failure domain it was told last
          page      \* the last page /metrics was read as

process == <<pc, beat, shipping, addr>>
brain == <<health, told>>
vars == <<env, process, crashes, port, peers, sent, brain, page>>

\* A deployment goes through scripts/with-flags2env.sh, which resolves like the
\* generated bindings, or sets the environment itself.
Environments == [Keys -> Values]

ASSUME DeploymentsAssumption ==
    \A d \in Deployments : /\ d.launcher \in {"bindings", "none"}
                           /\ d.flags \in Environments
                           /\ d.shell \in Environments
                           /\ d.dotenv \in Environments
Environment(d) ==
    IF d.launcher = "bindings"
      THEN Overlaid(load_env_map(d.shell, d.dotenv, d.flags), d.shell)
      ELSE d.shell

ASSUME CrashesAssumption == MaxCrashes \in Nat

\* No other node has this one's id.
ASSUME OthersAssumption ==
    /\ IsFiniteSet(Others)
    /\ \A d \in Deployments : NodeId(Environment(d)["node_id"]) \notin Others

\* What main reads.
Role == classify(env["role"], env["target"])
Interval == positive_ms(env["heartbeat_ms"], 2000)
Self == NodeId(env["node_id"])
Auth == internal_secret(env["secret"])
Listen == listen_addr(env["bind"], env["port"],
                      allow_non_loopback_from_env(env["allow_non_loopback"]))
LogSource == Source(env["log_source"], env["node_log_source"])

Nobody == Plain("(nobody)")
NoFamilies == [is_leader |-> 0, nodes_by_health |-> {}, unhealthy |-> 0]
NoPage == [target |-> "none", region |-> {}, up |-> 0, families |-> NoFamilies]

Init ==
    /\ \E d \in Deployments : env = Environment(d)
    /\ pc = "down"
    /\ beat = "none"
    /\ shipping = "off"
    /\ addr = NoAddress
    /\ crashes = 0
    /\ port \in {"free", "taken"}
    /\ peers \in {"up", "down"}
    /\ sent = {}
    /\ health = [n \in Others \union {Self} |-> "unknown"]
    /\ told = Nobody
    /\ page = NoPage

-----------------------------------------------------------------------------
(***************************************************************************)
(* main                                                                    *)
(***************************************************************************)
\* main returns or the process dies: its tasks and its socket go with it.
Exit ==
    /\ pc' = "down"
    /\ beat' = "none"
    /\ shipping' = "off"
    /\ addr' = NoAddress

Start ==
    /\ pc = "down"
    /\ pc' = "secret"
    /\ UNCHANGED <<env, beat, shipping, addr, crashes, port, peers, sent, brain, page>>

CheckSecret ==
    /\ pc = "secret"
    /\ IF required_env(env["secret"])
         THEN /\ pc' = "bridge"
              /\ UNCHANGED <<beat, shipping, addr>>
         ELSE Exit
    /\ UNCHANGED <<env, crashes, port, peers, sent, brain, page>>

SpawnBridge ==
    /\ pc = "bridge"
    /\ pc' = "logs"
    /\ beat' = IF runs_node_bridge(Role) THEN "spawned" ELSE beat
    /\ UNCHANGED <<env, shipping, addr, crashes, port, peers, sent, brain, page>>

SpawnLogs ==
    /\ pc = "logs"
    /\ pc' = "address"
    /\ shipping' = IF Ships(LogSource, env["log_sink"]) THEN "on" ELSE "off"
    /\ UNCHANGED <<env, beat, addr, crashes, port, peers, sent, brain, page>>

ChooseAddress ==
    /\ pc = "address"
    /\ IF Listen = NoAddress
         THEN Exit
         ELSE /\ pc' = "bind"
              /\ addr' = Listen
              /\ UNCHANGED <<beat, shipping>>
    /\ UNCHANGED <<env, crashes, port, peers, sent, brain, page>>

\* For port 0 the system picks one that is free.
Bind ==
    /\ pc = "bind"
    /\ IF port = "taken" /\ addr.port # 0
         THEN Exit
         ELSE /\ pc' = "serve"
              /\ UNCHANGED <<beat, shipping, addr>>
    /\ UNCHANGED <<env, crashes, port, peers, sent, brain, page>>

Crash ==
    /\ pc # "down"
    /\ crashes < MaxCrashes
    /\ crashes' = crashes + 1
    /\ Exit
    /\ UNCHANGED <<env, port, peers, sent, brain, page>>

-----------------------------------------------------------------------------
(***************************************************************************)
(* The heartbeat task and /metrics                                         *)
(***************************************************************************)
\* tokio::time::interval panics at a period of zero; the process lives on.
Begin ==
    /\ beat = "spawned"
    /\ beat' = IF Interval > 0 THEN "tick" ELSE "dead"
    /\ UNCHANGED <<env, pc, shipping, addr, crashes, port, peers, sent, brain, page>>

\* The node's status is asked for.
Tick ==
    /\ beat = "tick"
    /\ sent' = sent \union {Auth}
    /\ beat' = IF peers = "up" THEN "send" ELSE "tick"
    /\ UNCHANGED <<env, pc, shipping, addr, crashes, port, peers, brain, page>>

SendHeartbeat ==
    /\ beat = "send"
    /\ beat' = "tick"
    /\ sent' = sent \union {Auth}
    /\ IF peers = "up"
         THEN /\ health' = [health EXCEPT ![Self] = "healthy"]
              /\ told' = failure_domain(env["region"])
         ELSE UNCHANGED brain
    /\ UNCHANGED <<env, pc, shipping, addr, crashes, port, peers, page>>

\* The brain's GET /v1/status: each node holds one replica of one shard.
With(h) == {n \in DOMAIN health : health[n] = h}
Status(leads) ==
    [is_leader |-> leads,
     nodes_by_health |-> [h \in {"healthy", "dead"} |-> Cardinality(With(h))],
     shards_with_unhealthy_replicas |-> Cardinality(With("dead"))]

Page(up, families) ==
    [target   |-> Target(env["target"]),
     region   |-> RegionLabel(env["region"]),
     up       |-> up,
     families |-> families]

Scrape ==
    /\ pc = "serve"
    /\ sent' = sent \union {Auth}
    /\ \/ /\ peers = "down"
          /\ page' = Page(0, NoFamilies)
       \/ /\ peers = "up"
          /\ Target(env["target"]) = "node"
          /\ page' = Page(1, NoFamilies)
       \/ /\ peers = "up"
          /\ Target(env["target"]) = "brain"
          /\ \E leads \in BOOLEAN : page' = Page(1, brain_families(Status(leads)))
    /\ UNCHANGED <<env, process, crashes, port, peers, brain>>

-----------------------------------------------------------------------------
(***************************************************************************)
(* Around it                                                               *)
(***************************************************************************)
\* The brain hears of other nodes, and gives up on those it knows.
Assess ==
    /\ \E n \in DOMAIN health, h \in {"healthy", "dead"} :
          /\ n \in Others \/ health[n] # "unknown"
          /\ health' = [health EXCEPT ![n] = h]
    /\ UNCHANGED <<env, process, crashes, port, peers, sent, told, page>>

PortTurns ==
    /\ pc # "serve"
    /\ port' \in {"free", "taken"} \ {port}
    /\ UNCHANGED <<env, process, crashes, peers, sent, brain, page>>

PeersTurn ==
    /\ peers' \in {"up", "down"} \ {peers}
    /\ UNCHANGED <<env, process, crashes, port, sent, brain, page>>

Main == CheckSecret \/ SpawnBridge \/ SpawnLogs \/ ChooseAddress \/ Bind
Heartbeat == Begin \/ Tick \/ SendHeartbeat

Next ==
    \/ Start \/ Main \/ Crash
    \/ Heartbeat
    \/ Scrape
    \/ Assess \/ PortTurns \/ PeersTurn

\* Kubernetes restarts the container, and the runtime polls both main and the
\* heartbeat task.
Fairness == WF_vars(Start) /\ WF_vars(Main) /\ WF_vars(Heartbeat)

Spec == Init /\ [][Next]_vars /\ Fairness
-----------------------------------------------------------------------------
TypeOK ==
    /\ env \in Environments
    /\ pc \in {"down", "secret", "bridge", "logs", "address", "bind", "serve"}
    /\ beat \in {"none", "spawned", "tick", "send", "dead"}
    /\ shipping \in {"off", "on"}
    /\ addr \in Addresses \union {NoAddress}
    /\ crashes \in 0 .. MaxCrashes
    /\ port \in {"free", "taken"}
    /\ peers \in {"up", "down"}
    /\ sent \subseteq Values
    /\ health \in [Others \union {Self} -> {"unknown", "healthy", "dead"}]
    /\ told \in Values \union {Nobody}
    /\ page.target \in {"none", "node", "brain"}
    /\ page.region \subseteq Values
    /\ page.up \in {0, 1}

\* What the deployment says, read with a human's eye for case and blanks.
Says(key, word) == env[key].word = word
HasSecret == ~Says("secret", "(empty)") /\ ~Says("secret", "(unset)")
OptedIn ==
    /\ \E yes \in {"1", "true", "yes"} : Says("allow_non_loopback", yes)
    /\ env["allow_non_loopback"].case # "mixed"

\* "Refuse to run a heartbeat sidecar that can authenticate to neither
\* endpoint" (src/main.rs:59-61): every request of every life carries the
\* secret, without blanks, and a sidecar that has none sends nothing and serves
\* nothing, although main and auth.rs read the variable apart.
Authenticated ==
    /\ sent \subseteq {[env["secret"] EXCEPT !.pad = "none"]}
    /\ ~HasSecret => sent = {} /\ pc # "serve" /\ beat = "none"

\* README.md:33-35: whatever the role says and however "brain" is spelt, a
\* brain's sidecar never registers itself as a node, in any life, though main
\* and the exporter read the target apart.
BrainNeverRegisters ==
    Says("target", "brain") => health[Self] = "unknown" /\ beat = "none"

\* What a brain's page counts are other nodes, each of them once: its healthy and
\* its dead ones are together no more than there are.
OnlyOthersCounted ==
    page.target = "brain" =>
        \A a, b \in page.families.nodes_by_health :
            a # b => a[2] + b[2] <= Cardinality(Others)

\* src/main.rs:252-256: the heartbeat task does not die of its period "while
\* /healthz keeps answering ok".
NeverDiesSilently == beat # "dead"

\* src/listener.rs:5-6: a socket is on loopback, or on another address when the
\* operator says so, and never on the unspecified one.
ServesLocally ==
    pc = "serve" => \/ addr.ip = "loopback"
                    \/ addr.ip = "other" /\ OptedIn

\* The page and the heartbeat place the node alike: where the brain was told of
\* a region, in whichever life, the page is labelled with it, and with none
\* where it was told of none.
OneRegion ==
    page.target # "none" /\ told # Nobody =>
        page.region = IF told = Empty THEN {} ELSE {told}

\* An address that may be listened on: none at all, whatever PORT says, or a
\* permitted one, with blanks around it or not.
GoodAddress ==
    LET word == env["bind"].word
    IN  \/ word \in {"(empty)", "(unset)"}
        \/ /\ word \in DOMAIN SocketAddress
           /\ \/ SocketAddress[word].ip = "loopback"
              \/ SocketAddress[word].ip = "other" /\ OptedIn
Accepted == HasSecret /\ GoodAddress

\* Through crashes and lost races for its port, a sidecar with a secret and a
\* permitted address serves for good once the port stays free.
AcceptedServes ==
    Accepted /\ <>[](port = "free") => <>[](pc = "serve")

\* The brain hears of a node again and again whose sidecar is accepted and not
\* told otherwise, once the peers stay up, whatever the period is set to.
BridgeRegisters ==
    /\ Accepted /\ ~Says("target", "brain") /\ ~Says("role", "exporter")
    /\ <>[](port = "free") /\ <>[](peers = "up")
    => []<>(health[Self] = "healthy")
=============================================================================
