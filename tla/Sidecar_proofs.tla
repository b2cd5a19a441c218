-------------------------- MODULE Sidecar_proofs --------------------------
(***************************************************************************)
(* Proofs about Sidecar, for every set of deployments.                     *)
(*                                                                         *)
(* What the readers of the environment promise is stated once for each     *)
(* reader, for every environment; the invariants carry it from the place   *)
(* in main where it is read to the tasks, the socket and the brain.        *)
(***************************************************************************)
EXTENDS Sidecar, FiniteSetTheorems, TLAPS

-----------------------------------------------------------------------------
(***************************************************************************)
(* The readers                                                             *)
(***************************************************************************)
LEMMA PlainValues ==
    /\ Unset \in Values /\ Empty \in Values
    /\ Plain("false") \in Values /\ Plain("127.0.0.1:9090") \in Values
BY WordsAssumption DEF Plain, Value, Values, Texts, Unset, Empty

LEMMA ValueForm ==
    \A v \in Values : v = Value(v.word, v.pad, v.case)
<1>1. \A v \in Values : v \in Texts
    BY DEF Values
<1> QED BY <1>1 DEF Texts, Value

LEMMA Lowered ==
    \A v \in Values : trim(v) = Value(v.word, "none", v.case)
                      /\ to_ascii_lowercase(trim(v)) = Value(v.word, "none", "lower")
<1>1. \A v \in Values : v \in Texts
    BY DEF Values
<1>2. \A v \in Texts : trim(v) = Value(v.word, "none", v.case)
    BY DEF Texts, Value, trim
<1>3. \A w, c : to_ascii_lowercase(Value(w, "none", c)) = Value(w, "none", "lower")
    BY DEF Value, to_ascii_lowercase
<1> QED BY <1>1, <1>2, <1>3

\* Two values are one if their parts are.
LEMMA ValueParts ==
    ASSUME NEW w, NEW p, NEW c, NEW w1, NEW p1, NEW c1
    PROVE  Value(w, p, c) = Value(w1, p1, c1) <=> w = w1 /\ p = p1 /\ c = c1
BY DEF Value

LEMMA TrimKeeps ==
    \A v \in Values : trim(v).word = v.word /\ trim(v).case = v.case
                      /\ trim(v).pad = "none" /\ trim(v) \in Values
BY DEF trim, Values, Texts

\* A value is blank when there is no word in it.
LEMMA BlankIffWordless ==
    \A v \in Values : Blank(v) <=> v.word \in {"(empty)", "(unset)"}
<1> SUFFICES ASSUME NEW v \in Values
             PROVE  Blank(v) <=> v.word \in {"(empty)", "(unset)"}
    OBVIOUS
<1>1. v = Unset <=> v.word = "(unset)"
    <2>1. v = Unset <=> v.word = "(unset)" /\ v.pad = "none" /\ v.case = "lower"
        BY ValueForm, ValueParts DEF Unset, Plain
    <2> QED BY <2>1 DEF Values
<1>2. trim(v) = Empty <=> v.word = "(empty)"
    <2>1. trim(v) = Empty <=> v.word = "(empty)" /\ v.case = "lower"
        BY Lowered, ValueParts DEF Empty, Plain
    <2> QED BY <2>1 DEF Values
<1> QED BY <1>1, <1>2 DEF Blank

\* The launcher takes the first source that says something: a blank flag gives way
\* to the shell, a blank variable of the shell to .env, and what is taken is
\* trimmed (load_env_map of generated/rust/runtime.rs).
First(a, b, c, default) ==
    IF ~Blank(a) THEN trim(a)
    ELSE IF ~Blank(b) THEN trim(b)
    ELSE IF ~Blank(c) THEN trim(c)
    ELSE default

THEOREM LauncherPrecedence ==
    \A shell, dotenv, flags \in Environments, key \in FlagKeys :
        load_env_map(shell, dotenv, flags)[key]
            = First(flags[key], shell[key], dotenv[key], Default(key))
<1> SUFFICES ASSUME NEW shell \in Environments, NEW dotenv \in Environments,
                    NEW flags \in Environments, NEW key \in FlagKeys
             PROVE  pick(key, <<flags, shell, dotenv>>)
                        = First(flags[key], shell[key], dotenv[key], Default(key))
    BY DEF load_env_map
<1> DEFINE sources == <<flags, shell, dotenv>>
           Said(i) == nonempty(sources[i][key])
           said == {i \in 1 .. 3 : Said(i) # Unset}
           first == CHOOSE i \in said : \A j \in said : i <= j
<1>1. ASSUME NEW v \in Values
      PROVE  /\ nonempty(v) = IF Blank(v) THEN Unset ELSE trim(v)
             /\ Blank(v) <=> nonempty(v) = Unset
    <2>1. ~Blank(v) => trim(v) # Unset
        BY BlankIffWordless, TrimKeeps DEF Unset, Plain, Value
    <2> QED BY <2>1 DEF nonempty
<1>2. /\ flags[key] \in Values /\ shell[key] \in Values /\ dotenv[key] \in Values
      /\ Said(1) = nonempty(flags[key])
      /\ Said(2) = nonempty(shell[key])
      /\ Said(3) = nonempty(dotenv[key])
    BY DEF Environments, FlagKeys
<1>3. pick(key, <<flags, shell, dotenv>>)
          = IF said = {} THEN Default(key) ELSE Said(first)
    BY DEF pick
<1>4. /\ 1 \in said <=> ~Blank(flags[key])
      /\ 2 \in said <=> ~Blank(shell[key])
      /\ 3 \in said <=> ~Blank(dotenv[key])
      /\ said \subseteq 1 .. 3
    BY <1>1, <1>2
<1> HIDE DEF said, Said
<1>5. ASSUME NEW i \in said, \A j \in said : i <= j PROVE first = i
    <2>1. first \in said /\ \A j \in said : first <= j
        BY <1>5
    <2>2. first <= i /\ i <= first /\ first \in 1 .. 3 /\ i \in 1 .. 3
        BY <1>4, <1>5, <2>1
    <2> HIDE DEF first
    <2> QED BY <2>2
<1> HIDE DEF first
<1>6. CASE ~Blank(flags[key])
    <2>1. first = 1
        <3>1. \A j \in said : 1 <= j BY <1>4
        <3> QED BY <1>4, <1>5, <1>6, <3>1
    <2> QED BY <1>1, <1>2, <1>3, <1>4, <1>6, <2>1 DEF First
<1>7. CASE Blank(flags[key]) /\ ~Blank(shell[key])
    <2>1. first = 2
        <3>1. \A j \in said : j \in 2 .. 3 BY <1>4, <1>7
        <3>2. \A j \in said : 2 <= j BY <3>1
        <3> QED BY <1>4, <1>5, <1>7, <3>2
    <2> QED BY <1>1, <1>2, <1>3, <1>4, <1>7, <2>1 DEF First
<1>8. CASE Blank(flags[key]) /\ Blank(shell[key]) /\ ~Blank(dotenv[key])
    <2>1. first = 3
        <3>1. \A j \in said : j = 3 BY <1>4, <1>8
        <3>2. \A j \in said : 3 <= j BY <3>1
        <3> QED BY <1>4, <1>5, <1>8, <3>2
    <2> QED BY <1>1, <1>2, <1>3, <1>4, <1>8, <2>1 DEF First
<1>9. CASE Blank(flags[key]) /\ Blank(shell[key]) /\ Blank(dotenv[key])
    <2>1. said = {}
        BY <1>4, <1>9
    <2> QED BY <1>3, <1>9, <2>1 DEF First
<1> QED BY <1>6, <1>7, <1>8, <1>9

\* What the sidecar gets from the launcher for one variable.
Launched(shell, dotenv, flags) == Overlaid(load_env_map(shell, dotenv, flags), shell)

\* A variable says something to the sidecar exactly if one of the three sources
\* does or it has a default: what is blank never hides what is not.
THEOREM LauncherLosesNothing ==
    \A shell, dotenv, flags \in Environments, key \in FlagKeys :
        ~Blank(Launched(shell, dotenv, flags)[key])
            <=> \/ \E source \in {shell, dotenv, flags} : ~Blank(source[key])
                \/ ~Blank(Default(key))
<1> SUFFICES ASSUME NEW shell \in Environments, NEW dotenv \in Environments,
                    NEW flags \in Environments, NEW key \in FlagKeys
             PROVE  ~Blank(Launched(shell, dotenv, flags)[key])
                        <=> \/ ~Blank(flags[key]) \/ ~Blank(shell[key])
                            \/ ~Blank(dotenv[key]) \/ ~Blank(Default(key))
    OBVIOUS
<1> DEFINE resolved == load_env_map(shell, dotenv, flags)
<1>1. /\ flags[key] \in Values /\ shell[key] \in Values /\ dotenv[key] \in Values
      /\ Default(key) \in Values /\ key \in Keys
    BY PlainValues DEF Environments, FlagKeys, Default
<1>2. \A v \in Values : ~Blank(v) => ~Blank(trim(v)) /\ trim(v) # Unset
    BY BlankIffWordless, TrimKeeps DEF Unset, Plain, Value
<1>3. resolved[key] = First(flags[key], shell[key], dotenv[key], Default(key))
    BY LauncherPrecedence
<1>4. Launched(shell, dotenv, flags)[key]
          = IF resolved[key] # Unset THEN resolved[key] ELSE shell[key]
    BY <1>1 DEF Launched, Overlaid
<1>5. Blank(Unset) /\ (Default(key) # Unset => ~Blank(Default(key)))
    <2>1. Default(key) \in {Unset, Plain("false"), Plain("127.0.0.1:9090")}
        BY DEF Default
    <2>2. ~Blank(Plain("false")) /\ ~Blank(Plain("127.0.0.1:9090"))
        BY PlainValues, BlankIffWordless DEF Plain, Value
    <2> QED BY <2>1, <2>2 DEF Blank
<1> HIDE DEF resolved
<1>6. CASE ~Blank(flags[key])
    BY <1>1, <1>2, <1>3, <1>4, <1>6 DEF First
<1>7. CASE Blank(flags[key]) /\ ~Blank(shell[key])
    BY <1>1, <1>2, <1>3, <1>4, <1>7 DEF First
<1>8. CASE Blank(flags[key]) /\ Blank(shell[key]) /\ ~Blank(dotenv[key])
    BY <1>1, <1>2, <1>3, <1>4, <1>8 DEF First
<1>9. CASE Blank(flags[key]) /\ Blank(shell[key]) /\ Blank(dotenv[key])
    BY <1>3, <1>4, <1>5, <1>9 DEF First
<1> QED BY <1>6, <1>7, <1>8, <1>9

\* The bindings hand on values, too.
LEMMA ResolvedValue ==
    \A shell, dotenv, flags \in Environments, key \in FlagKeys :
        load_env_map(shell, dotenv, flags)[key] \in Values
<1> SUFFICES ASSUME NEW shell \in Environments, NEW dotenv \in Environments,
                    NEW flags \in Environments, NEW key \in FlagKeys
             PROVE  First(flags[key], shell[key], dotenv[key], Default(key)) \in Values
    BY LauncherPrecedence
<1>1. /\ flags[key] \in Values /\ shell[key] \in Values /\ dotenv[key] \in Values
      /\ Default(key) \in Values
    BY PlainValues DEF Environments, FlagKeys, Default
<1> QED BY <1>1, TrimKeeps DEF First

LEMMA EnvironmentOfValues ==
    \A d \in Deployments : Environment(d) \in Environments
<1> SUFFICES ASSUME NEW d \in Deployments
             PROVE  Environment(d) \in Environments
    OBVIOUS
<1>1. /\ d.shell \in Environments
      /\ d.dotenv \in Environments
      /\ d.flags \in Environments
    BY DeploymentsAssumption
<1> DEFINE resolved == load_env_map(d.shell, d.dotenv, d.flags)
<1>2. \A key \in FlagKeys : resolved[key] \in Values
    BY <1>1, ResolvedValue
<1> HIDE DEF resolved
<1>3. Overlaid(resolved, d.shell) \in Environments
    BY <1>1, <1>2 DEF Overlaid, Environments
<1> QED BY <1>1, <1>3 DEF Environment, resolved

\* main.rs and auth.rs read one secret: a process that goes on sends it.
LEMMA SecretRead ==
    \A v \in Values :
        /\ required_env(v) <=> v.word \notin {"(empty)", "(unset)"}
        /\ required_env(v) => internal_secret(v) = [v EXCEPT !.pad = "none"]
        /\ internal_secret(v) \in Values
BY BlankIffWordless, TrimKeeps, PlainValues
   DEF required_env, internal_secret, NoSecret, trim

LEMMA BrainIsExporter ==
    \A role, target \in Values :
        target.word = "brain" => classify(role, target) = "exporter"
<1> SUFFICES ASSUME NEW role \in Values, NEW target \in Values,
                    target.word = "brain"
             PROVE  to_ascii_lowercase(trim(target)) = Plain("brain")
    BY DEF classify
<1> QED BY Lowered DEF Plain

LEMMA PeriodPositive == \A v : positive_ms(v, 2000) > 0
<1> SUFFICES ASSUME NEW v PROVE positive_ms(v, 2000) > 0
    OBVIOUS
<1>1. CASE Parses(v) /\ Number[v.word] > 0 BY <1>1 DEF positive_ms
<1>2. CASE ~(Parses(v) /\ Number[v.word] > 0) BY <1>2 DEF positive_ms
<1> QED BY <1>1, <1>2

\* What main listens on.
LEMMA ListensWell ==
    ASSUME NEW bind \in Values, NEW number \in Values, NEW override \in Values
    PROVE  LET chosen == listen_addr(bind, number,
                                     allow_non_loopback_from_env(override))
           IN  chosen # NoAddress =>
                 /\ chosen \in Addresses
                 /\ \/ chosen.ip = "loopback"
                    \/ /\ chosen.ip = "other"
                       /\ override.word \in {"1", "true", "yes"}
                       /\ override.case # "mixed"
<1> DEFINE allowed == allow_non_loopback_from_env(override)
           Well(chosen) == /\ chosen \in Addresses
                           /\ \/ chosen.ip = "loopback"
                              \/ chosen.ip = "other" /\ allowed
<1>1. allowed => override.word \in {"1", "true", "yes"} /\ override.case # "mixed"
    <2> SUFFICES ASSUME allowed
                 PROVE  trim(override).word \in {"1", "true", "yes"}
                        /\ trim(override).case # "mixed"
        BY TrimKeeps
    <2>1. \/ trim(override) = Plain("1")
          \/ \E word \in {"true", "yes"}, case \in {"lower", "upper"} :
                trim(override) = Value(word, "none", case)
        BY DEF allow_non_loopback_from_env, allowed
    <2> QED BY <2>1 DEF Plain, Value
<1> HIDE DEF allowed
<1>2. ASSUME NEW chosen \in Addresses \union {NoAddress},
             Chosen(chosen, allowed) # NoAddress
      PROVE  Well(Chosen(chosen, allowed))
    <2>1. Permitted(chosen.ip, allowed) /\ Chosen(chosen, allowed) = chosen
        BY <1>2 DEF Chosen
    <2>2. chosen \in Addresses
        BY <1>2, <2>1
    <2> QED BY <2>1, <2>2 DEF Permitted
<1>3. DefaultPort(number) \in 1 .. MaxU16
    <2>1. CASE Parses(number) /\ Number[number.word] \in 1 .. MaxU16
        BY <2>1 DEF DefaultPort
    <2>2. CASE ~(Parses(number) /\ Number[number.word] \in 1 .. MaxU16)
        <3>1. DefaultPort(number) = 8091
            BY <2>2 DEF DefaultPort
        <3> QED BY <3>1 DEF MaxU16
    <2> QED BY <2>1, <2>2
<1>4. Address("loopback", DefaultPort(number)) \in Addresses
    BY <1>3 DEF Address, Addresses
<1>5. ASSUME NEW word PROVE Parsed(word) \in Addresses \union {NoAddress}
    BY SocketAddressAssumption DEF Parsed
<1>6. listen_addr(bind, number, allowed) # NoAddress
        => Well(listen_addr(bind, number, allowed))
    <2>1. CASE Blank(bind) BY <1>2, <1>4, <2>1 DEF listen_addr
    <2>2. CASE ~Blank(bind) BY <1>2, <1>5, <2>2 DEF listen_addr
    <2> QED BY <2>1, <2>2
<1> QED BY <1>1, <1>6 DEF allowed

-----------------------------------------------------------------------------
(***************************************************************************)
(* The invariant                                                           *)
(***************************************************************************)
\* Past its check of the secret, main has one; so have its tasks.
SecretInv ==
    /\ pc \notin {"down", "secret"} \/ beat # "none" => required_env(env["secret"])
    /\ sent # {} => required_env(env["secret"])
    /\ sent \subseteq {Auth}

\* Only a full sidecar beats, and the brain knows of it only if it is full.
BridgeInv ==
    /\ beat # "dead"
    /\ beat # "none" \/ health[Self] # "unknown" => Role = "full"
    /\ Self \notin Others

\* A sidecar that binds or serves has accepted the address.
AddressInv ==
    pc \in {"bind", "serve"} => addr = Listen /\ Listen # NoAddress

RegionInv ==
    /\ told \in {Nobody, failure_domain(env["region"])}
    /\ page.target # "none" => page.region = RegionLabel(env["region"])

IInv == TypeOK /\ SecretInv /\ BridgeInv /\ AddressInv /\ RegionInv

\* What the readers promise of this environment.
LEMMA Reads ==
    ASSUME env \in Environments
    PROVE  /\ \A key \in Keys : env[key] \in Values
           /\ Auth \in Values
           /\ Interval > 0
           /\ Listen \in Addresses \union {NoAddress}
           /\ failure_domain(env["region"]) \in Values
           /\ RegionLabel(env["region"]) \subseteq Values
<1>1. \A key \in Keys : env[key] \in Values
    BY DEF Environments
<1>2. /\ env["secret"] \in Values /\ env["region"] \in Values
      /\ env["bind"] \in Values /\ env["port"] \in Values
      /\ env["allow_non_loopback"] \in Values
    BY <1>1 DEF Keys
<1>3. Auth \in Values
    BY <1>2, SecretRead DEF Auth
<1>4. Interval > 0
    BY PeriodPositive DEF Interval
<1>5. Listen \in Addresses \union {NoAddress}
    BY <1>2, ListensWell DEF Listen
<1>6. failure_domain(env["region"]) \in Values
    BY <1>2, PlainValues DEF failure_domain
<1>7. RegionLabel(env["region"]) \subseteq Values
    BY <1>2 DEF RegionLabel
<1> QED BY <1>1, <1>3, <1>4, <1>5, <1>6, <1>7

LEMMA InitInv == Init => IInv
<1> SUFFICES ASSUME Init PROVE IInv
    OBVIOUS
<1> USE DEF Init
<1>1. PICK d \in Deployments : env = Environment(d)
    OBVIOUS
<1>2. env \in Environments
    BY <1>1, EnvironmentOfValues
<1>3. Self \notin Others
    BY <1>1, OthersAssumption DEF Self
<1>4. health[Self] = "unknown"
    OBVIOUS
<1>5. TypeOK
    BY <1>2, CrashesAssumption DEF TypeOK, NoPage
<1>6. SecretInv /\ AddressInv /\ RegionInv
    BY DEF SecretInv, AddressInv, RegionInv, NoPage
<1>7. BridgeInv
    BY <1>3, <1>4 DEF BridgeInv
<1> QED BY <1>5, <1>6, <1>7 DEF IInv

LEMMA NextInv == IInv /\ [Next]_vars => IInv'
<1> SUFFICES ASSUME IInv, [Next]_vars PROVE IInv'
    OBVIOUS
<1> USE DEF IInv
<1>e. env' = env
    BY DEF Next, Main, Heartbeat, Start, CheckSecret, SpawnBridge, SpawnLogs,
           ChooseAddress, Bind, Crash, Begin, Tick, SendHeartbeat, Scrape,
           Assess, PortTurns, PeersTurn, vars
<1>r. /\ Auth' = Auth /\ Role' = Role /\ Self' = Self /\ Listen' = Listen
      /\ Interval' = Interval
    BY <1>e DEF Auth, Role, Self, Listen, Interval
<1>v. /\ Auth \in Values /\ Interval > 0
      /\ Listen \in Addresses \union {NoAddress}
      /\ failure_domain(env["region"]) \in Values
      /\ RegionLabel(env["region"]) \subseteq Values
    BY Reads DEF TypeOK
<1> HIDE DEF IInv
<1>i. TypeOK /\ SecretInv /\ BridgeInv /\ AddressInv /\ RegionInv
    BY DEF IInv
<1>1. TypeOK'
    <2> USE <1>e, <1>r, <1>v, <1>i DEF TypeOK
    <2>1. CASE Start \/ CheckSecret \/ SpawnBridge \/ SpawnLogs
        BY <2>1 DEF Start, CheckSecret, SpawnBridge, SpawnLogs, Exit, brain
    <2>2. CASE ChooseAddress
        BY <2>2 DEF ChooseAddress, Exit, brain
    <2>3. CASE Bind
        BY <2>3 DEF Bind, Exit, brain
    <2>4. CASE Crash
        BY <2>4, CrashesAssumption DEF Crash, Exit, brain
    <2>5. CASE Begin
        BY <2>5 DEF Begin, brain
    <2>6. CASE Tick
        BY <2>6 DEF Tick, brain
    <2>7. CASE SendHeartbeat
        <3>1. health' \in [Others \union {Self'} -> {"unknown", "healthy", "dead"}]
            BY <2>7 DEF SendHeartbeat, brain
        <3>2. told' \in Values \union {Nobody}
            BY <2>7 DEF SendHeartbeat, brain
        <3> QED BY <2>7, <3>1, <3>2 DEF SendHeartbeat
    <2>8. CASE Scrape
        <3>1. /\ Target(env["target"]) \in {"none", "node", "brain"}
            BY DEF Target
        <3>2. \E up \in {0, 1} : \E families : page' = Page(up, families)
            BY <2>8 DEF Scrape
        <3>3. /\ page'.target \in {"none", "node", "brain"}
              /\ page'.region \subseteq Values
              /\ page'.up \in {0, 1}
            BY <3>1, <3>2 DEF Page
        <3> QED BY <2>8, <3>3 DEF Scrape, brain, process
    <2>9. CASE Assess
        <3>1. health' \in [Others \union {Self'} -> {"unknown", "healthy", "dead"}]
            BY <2>9 DEF Assess
        <3> QED BY <2>9, <3>1 DEF Assess, process
    <2>10. CASE PortTurns \/ PeersTurn
        BY <2>10 DEF PortTurns, PeersTurn, brain, process
    <2>11. CASE UNCHANGED vars
        BY <2>11 DEF vars, brain, process
    <2> QED BY <2>1, <2>2, <2>3, <2>4, <2>5, <2>6, <2>7, <2>8, <2>9, <2>10, <2>11
            DEF Next, Main, Heartbeat
<1>2. SecretInv'
    <2> USE <1>e, <1>r, <1>i DEF SecretInv
    <2>1. CASE Start \/ CheckSecret \/ SpawnBridge \/ SpawnLogs
        BY <2>1 DEF Start, CheckSecret, SpawnBridge, SpawnLogs, Exit
    <2>2. CASE ChooseAddress \/ Bind \/ Crash
        BY <2>2 DEF ChooseAddress, Bind, Crash, Exit
    <2>3. CASE Begin
        BY <2>3 DEF Begin
    <2>4. CASE Tick \/ SendHeartbeat
        BY <2>4 DEF Tick, SendHeartbeat
    <2>5. CASE Scrape
        BY <2>5 DEF Scrape, process
    <2>6. CASE Assess \/ PortTurns \/ PeersTurn
        BY <2>6 DEF Assess, PortTurns, PeersTurn, process
    <2>7. CASE UNCHANGED vars
        BY <2>7 DEF vars, process
    <2> QED BY <2>1, <2>2, <2>3, <2>4, <2>5, <2>6, <2>7 DEF Next, Main, Heartbeat
<1>3. BridgeInv'
    <2> USE <1>e, <1>r, <1>v, <1>i DEF BridgeInv
    <2>1. CASE Start \/ CheckSecret \/ SpawnLogs
        BY <2>1 DEF Start, CheckSecret, SpawnLogs, Exit, brain
    <2>2. CASE SpawnBridge
        BY <2>2 DEF SpawnBridge, runs_node_bridge, brain
    <2>3. CASE ChooseAddress \/ Bind \/ Crash
        BY <2>3 DEF ChooseAddress, Bind, Crash, Exit, brain
    <2>4. CASE Begin
        BY <2>4 DEF Begin, brain
    <2>5. CASE Tick
        BY <2>5 DEF Tick, brain
    <2>6. CASE SendHeartbeat
        BY <2>6 DEF SendHeartbeat, brain
    <2>7. CASE Scrape \/ PortTurns \/ PeersTurn
        BY <2>7 DEF Scrape, PortTurns, PeersTurn, process, brain
    <2>8. CASE Assess
        <3>1. health'[Self] # "unknown" => health[Self] # "unknown"
            BY <2>8 DEF Assess, TypeOK
        <3> QED BY <2>8, <3>1 DEF Assess, process
    <2>9. CASE UNCHANGED vars
        BY <2>9 DEF vars, process, brain
    <2> QED BY <2>1, <2>2, <2>3, <2>4, <2>5, <2>6, <2>7, <2>8, <2>9
            DEF Next, Main, Heartbeat
<1>4. AddressInv'
    <2> USE <1>e, <1>r, <1>i DEF AddressInv
    <2>1. CASE Start \/ CheckSecret \/ SpawnBridge \/ SpawnLogs
        BY <2>1 DEF Start, CheckSecret, SpawnBridge, SpawnLogs, Exit
    <2>2. CASE ChooseAddress \/ Bind \/ Crash
        BY <2>2 DEF ChooseAddress, Bind, Crash, Exit
    <2>3. CASE Begin \/ Tick \/ SendHeartbeat
        BY <2>3 DEF Begin, Tick, SendHeartbeat
    <2>4. CASE Scrape \/ Assess \/ PortTurns \/ PeersTurn
        BY <2>4 DEF Scrape, Assess, PortTurns, PeersTurn, process
    <2>5. CASE UNCHANGED vars
        BY <2>5 DEF vars, process
    <2> QED BY <2>1, <2>2, <2>3, <2>4, <2>5 DEF Next, Main, Heartbeat
<1>5. RegionInv'
    <2> USE <1>e, <1>i DEF RegionInv
    <2>1. CASE Start \/ Main \/ Crash
        BY <2>1 DEF Start, Main, CheckSecret, SpawnBridge, SpawnLogs,
                    ChooseAddress, Bind, Crash, brain
    <2>2. CASE Begin \/ Tick
        BY <2>2 DEF Begin, Tick, brain
    <2>3. CASE SendHeartbeat
        BY <2>3 DEF SendHeartbeat, brain
    <2>4. CASE Scrape
        <3>1. \E up \in {0, 1} : \E families : page' = Page(up, families)
            BY <2>4 DEF Scrape
        <3>2. page'.region = RegionLabel(env["region"])
            BY <3>1 DEF Page
        <3> QED BY <2>4, <3>2 DEF Scrape, brain
    <2>5. CASE Assess \/ PortTurns \/ PeersTurn
        BY <2>5 DEF Assess, PortTurns, PeersTurn, brain
    <2>6. CASE UNCHANGED vars
        BY <2>6 DEF vars, brain
    <2> QED BY <2>1, <2>2, <2>3, <2>4, <2>5, <2>6 DEF Next, Heartbeat
<1> QED BY <1>1, <1>2, <1>3, <1>4, <1>5 DEF IInv

LEMMA Invariant == Spec => []IInv
BY InitInv, NextInv, PTL DEF Spec

-----------------------------------------------------------------------------
(***************************************************************************)
(* The theorems                                                            *)
(***************************************************************************)
\* Every variable keeps its type: in particular, what main listens on is an
\* address that std parsed or loopback with a port from PORT, whatever the
\* environment says; its port has 16 bits, and is 0 if the bind says so.
THEOREM TypeCorrect == Spec => []TypeOK
<1>1. IInv => TypeOK
    BY DEF IInv
<1> QED BY Invariant, <1>1, PTL

\* Every request carries the secret, and without one there is none.
THEOREM AuthenticatedCorrect == Spec => []Authenticated
<1>1. IInv => Authenticated
    <2> SUFFICES ASSUME IInv PROVE Authenticated
        OBVIOUS
    <2>1. env["secret"] \in Values
        BY DEF IInv, TypeOK, Environments, Keys
    <2>2. required_env(env["secret"]) <=> HasSecret
        BY <2>1, SecretRead DEF HasSecret, Says
    <2>3. sent \subseteq {[env["secret"] EXCEPT !.pad = "none"]}
        BY <2>1, SecretRead DEF IInv, SecretInv, Auth
    <2> QED BY <2>2, <2>3 DEF Authenticated, IInv, SecretInv
<1> QED BY Invariant, <1>1, PTL

\* A brain's sidecar is never a node.
THEOREM BrainNeverRegistersCorrect == Spec => []BrainNeverRegisters
<1>1. IInv => BrainNeverRegisters
    <2> SUFFICES ASSUME IInv, Says("target", "brain")
                 PROVE  health[Self] = "unknown" /\ beat = "none"
        BY DEF BrainNeverRegisters
    <2>1. env["target"] \in Values /\ env["role"] \in Values
        BY DEF IInv, TypeOK, Environments, Keys
    <2>2. Role = "exporter"
        BY <2>1, BrainIsExporter DEF Role, Says
    <2> QED BY <2>2 DEF IInv, BridgeInv
<1> QED BY Invariant, <1>1, PTL

\* No period kills the heartbeat task.
THEOREM NeverDiesSilentlyCorrect == Spec => []NeverDiesSilently
<1>1. IInv => NeverDiesSilently
    BY DEF IInv, BridgeInv, NeverDiesSilently
<1> QED BY Invariant, <1>1, PTL

\* A socket is on loopback, or elsewhere if the operator asked for it, and never
\* on the unspecified address.
THEOREM ServesLocallyCorrect == Spec => []ServesLocally
<1>1. IInv => ServesLocally
    <2> SUFFICES ASSUME IInv, pc = "serve"
                 PROVE  addr.ip = "loopback" \/ (addr.ip = "other" /\ OptedIn)
        BY DEF ServesLocally
    <2>1. /\ env["bind"] \in Values /\ env["port"] \in Values
          /\ env["allow_non_loopback"] \in Values
        BY DEF IInv, TypeOK, Environments, Keys
    <2>2. addr = Listen /\ Listen # NoAddress
        BY DEF IInv, AddressInv
    <2>3. \/ Listen.ip = "loopback"
          \/ /\ Listen.ip = "other"
             /\ env["allow_non_loopback"].word \in {"1", "true", "yes"}
             /\ env["allow_non_loopback"].case # "mixed"
        BY <2>1, <2>2, ListensWell DEF Listen
    <2> QED BY <2>2, <2>3 DEF OptedIn, Says
<1> QED BY Invariant, <1>1, PTL

\* The page's region is the failure domain the brain was told.
THEOREM OneRegionCorrect == Spec => []OneRegion
<1>1. IInv => OneRegion
    <2> SUFFICES ASSUME IInv, page.target # "none", told # Nobody
                 PROVE  page.region = IF told = Empty THEN {} ELSE {told}
        BY DEF OneRegion
    <2>1. told = failure_domain(env["region"])
          /\ page.region = RegionLabel(env["region"])
        BY DEF IInv, RegionInv
    <2>2. CASE env["region"] = Unset
        BY <2>1, <2>2 DEF failure_domain, RegionLabel
    <2>3. CASE env["region"] # Unset
        BY <2>1, <2>3 DEF failure_domain, RegionLabel
    <2> QED BY <2>2, <2>3
<1> QED BY Invariant, <1>1, PTL

-----------------------------------------------------------------------------
(***************************************************************************)
(* What a brain's page counts                                              *)
(***************************************************************************)
\* Two disjoint parts of a finite set have no more members than the set.
LEMMA DisjointParts ==
    ASSUME NEW S, IsFiniteSet(S), NEW A, NEW B,
           A \subseteq S, B \subseteq S, A \cap B = {}
    PROVE  /\ Cardinality(A) \in Nat /\ Cardinality(B) \in Nat
           /\ Cardinality(A) + Cardinality(B) <= Cardinality(S)
<1>1. IsFiniteSet(A) /\ IsFiniteSet(B) /\ IsFiniteSet(A \cup B)
    BY FS_Subset
<1>2. Cardinality(A) \in Nat /\ Cardinality(B) \in Nat
    BY <1>1, FS_CardinalityType
<1>3. Cardinality(A \cup B) = Cardinality(A) + Cardinality(B) - Cardinality(A \cap B)
    BY <1>1, FS_Union
<1>4. Cardinality(A \cap B) = 0
    BY FS_EmptySet
<1>5. Cardinality(A \cup B) <= Cardinality(S)
    <2>1. A \cup B \in SUBSET S
        OBVIOUS
    <2> QED BY <2>1, FS_Subset
<1> QED BY <1>2, <1>3, <1>4, <1>5

\* The exporter of a brain belongs to a process that is no node: the readers of
\* the target agree, whatever the role says.
LEMMA TargetDecides ==
    \A role, target : Target(target) = "brain" => classify(role, target) = "exporter"
BY DEF Target, classify

\* The brain counts none but others while this sidecar's host is unknown to it.
LEMMA CountsOthers ==
    ASSUME TypeOK, BridgeInv, Role = "exporter"
    PROVE  /\ Cardinality(With("healthy")) \in Nat
           /\ Cardinality(With("dead")) \in Nat
           /\ Cardinality(With("healthy")) + Cardinality(With("dead"))
                 <= Cardinality(Others)
<1>1. health[Self] = "unknown"
    BY DEF BridgeInv
<1>2. DOMAIN health = Others \union {Self}
    BY DEF TypeOK
<1>3. With("healthy") \subseteq Others /\ With("dead") \subseteq Others
    BY <1>1, <1>2 DEF With
<1>4. With("healthy") \cap With("dead") = {}
    BY DEF With
<1> QED BY <1>3, <1>4, OthersAssumption, DisjointParts

LEMMA PageCountsOthers == IInv /\ OnlyOthersCounted /\ [Next]_vars => OnlyOthersCounted'
<1> SUFFICES ASSUME IInv, OnlyOthersCounted, [Next]_vars PROVE OnlyOthersCounted'
    OBVIOUS
<1>1. CASE page' = page
    BY <1>1 DEF OnlyOthersCounted
<1>2. CASE Scrape
    <2> SUFFICES ASSUME page'.target = "brain",
                        NEW a \in page'.families.nodes_by_health,
                        NEW b \in page'.families.nodes_by_health, a # b
                 PROVE  a[2] + b[2] <= Cardinality(Others)
        BY DEF OnlyOthersCounted
    <2>1. PICK up, families :
              /\ page' = Page(up, families)
              /\ \/ families = NoFamilies
                 \/ \E leads \in BOOLEAN : families = brain_families(Status(leads))
        BY <1>2 DEF Scrape
    <2>2. Target(env["target"]) = "brain" /\ page'.families = families
        BY <2>1 DEF Page
    <2>3. families # NoFamilies
        BY <2>2 DEF NoFamilies
    <2>4. families.nodes_by_health = {<<"healthy", Cardinality(With("healthy"))>>,
                                      <<"dead", Cardinality(With("dead"))>>}
        BY <2>1, <2>3 DEF brain_families, Status
    <2>5. Role = "exporter"
        BY <2>2, TargetDecides DEF Role
    <2>6. /\ Cardinality(With("healthy")) \in Nat
          /\ Cardinality(With("dead")) \in Nat
          /\ Cardinality(With("healthy")) + Cardinality(With("dead"))
                <= Cardinality(Others)
        BY <2>5, CountsOthers DEF IInv
    <2>7. \/ /\ a = <<"healthy", Cardinality(With("healthy"))>>
             /\ b = <<"dead", Cardinality(With("dead"))>>
          \/ /\ b = <<"healthy", Cardinality(With("healthy"))>>
             /\ a = <<"dead", Cardinality(With("dead"))>>
        BY <2>2, <2>4
    <2> QED BY <2>6, <2>7
<1> QED BY <1>1, <1>2
        DEF Next, Main, Heartbeat, Start, CheckSecret, SpawnBridge, SpawnLogs,
            ChooseAddress, Bind, Crash, Begin, Tick, SendHeartbeat, Assess,
            PortTurns, PeersTurn, vars

\* A brain's page never counts the host of this sidecar, in any life.
THEOREM OnlyOthersCountedCorrect == Spec => []OnlyOthersCounted
<1>1. Init => OnlyOthersCounted
    BY DEF Init, NoPage, OnlyOthersCounted
<1> QED BY Invariant, PageCountsOthers, <1>1, PTL DEF Spec

-----------------------------------------------------------------------------
(***************************************************************************)
(* Behind the launcher                                                     *)
(***************************************************************************)
AllLaunched == \A d \in Deployments : d.launcher = "bindings"

\* Where the launcher starts the sidecar, PORT, the "Optional listen port
\* override" (generated/rust/env.rs:59), changes nothing: the launcher always
\* names an address, and main.rs looks at PORT only where there is none.
THEOREM LauncherIgnoresPort ==
    AllLaunched => (Spec => [](pc = "serve" => addr = Parsed(env["bind"].word)))
<1> SUFFICES ASSUME AllLaunched
             PROVE  Spec => [](pc = "serve" => addr = Parsed(env["bind"].word))
    OBVIOUS
<1> DEFINE Named == ~Blank(env["bind"])
<1>1. Init => Named
    <2> SUFFICES ASSUME Init PROVE Named
        OBVIOUS
    <2>1. PICK d \in Deployments : env = Environment(d)
        BY DEF Init
    <2>2. /\ d.launcher = "bindings"
          /\ d.shell \in Environments
          /\ d.dotenv \in Environments
          /\ d.flags \in Environments
        BY DeploymentsAssumption DEF AllLaunched
    <2>3. env = Launched(d.shell, d.dotenv, d.flags)
        BY <2>1, <2>2 DEF Environment, Launched
    <2>4. ~Blank(Default("bind"))
        BY PlainValues, BlankIffWordless DEF Default, Plain, Value
    <2> QED BY <2>2, <2>3, <2>4, LauncherLosesNothing DEF FlagKeys, Keys
<1>2. Named /\ [Next]_vars => Named'
    <2> SUFFICES ASSUME [Next]_vars PROVE env' = env
        OBVIOUS
    <2> QED BY DEF Next, Main, Heartbeat, Start, CheckSecret, SpawnBridge, SpawnLogs,
                   ChooseAddress, Bind, Crash, Begin, Tick, SendHeartbeat, Scrape,
                   Assess, PortTurns, PeersTurn, vars
<1>3. IInv /\ Named => (pc = "serve" => addr = Parsed(env["bind"].word))
    <2> SUFFICES ASSUME IInv, Named, pc = "serve"
                 PROVE  addr = Parsed(env["bind"].word)
        OBVIOUS
    <2>1. addr = Listen /\ Listen # NoAddress
        BY DEF IInv, AddressInv
    <2>2. env["bind"] \in Values
        BY DEF IInv, TypeOK, Environments, Keys
    <2>3. Listen = NoAddress \/ Listen = Parsed(trim(env["bind"]).word)
        BY DEF Listen, listen_addr, Chosen
    <2> QED BY <2>1, <2>2, <2>3, TrimKeeps
<1> QED BY Invariant, <1>1, <1>2, <1>3, PTL DEF Spec
=============================================================================
