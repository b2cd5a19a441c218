--------------------------- MODULE Configuration ---------------------------
(***************************************************************************)
(* What the program makes of its environment: src/main.rs, listener.rs,    *)
(* auth.rs, meta.rs and Exporter::from_env; and what the launcher,         *)
(* scripts/with-flags2env.sh, makes of it first.                           *)
(*                                                                         *)
(* A variable's value is a word, the blanks around it and the case of its  *)
(* letters: its readers differ in which of these they look at.             *)
(***************************************************************************)
EXTENDS Integers, Sequences

CONSTANTS
    Words,         \* what a variable may say, blanks and case aside
    SocketAddress  \* the words that std parses as a socket address, as parsed

\* No variable, an empty one, and the defaults of the bindings.
ASSUME WordsAssumption ==
    {"(unset)", "(empty)", "false", "127.0.0.1:9090"} \subseteq Words

\* The variables, by the last part of their names; the URLs, the zone, the
\* rack and the version are treated like the region.
Keys == {"secret", "bind", "port", "allow_non_loopback", "role", "target",
         "heartbeat_ms", "log_source", "node_log_source", "log_sink",
         "node_id", "region"}

\* A word that is empty, or no word at all, has no letters.
Texts == [word : Words, pad : {"none", "blanks"}, case : {"lower", "upper", "mixed"}]
Values ==
    {v \in Texts :
        /\ v.word \in {"(empty)", "(unset)"} => v.case = "lower"
        /\ v.word = "(unset)" => v.pad = "none"}
Value(word, pad, case) == [word |-> word, pad |-> pad, case |-> case]
Plain(word) == Value(word, "none", "lower")
Unset == Plain("(unset)")
Empty == Plain("(empty)")

trim(v) == [v EXCEPT !.pad = "none"]
to_ascii_lowercase(v) == [v EXCEPT !.case = "lower"]
Blank(v) == v = Unset \/ trim(v) = Empty

\* str::parse takes no blanks; the words that are numbers.
Number == [word \in {"0", "40", "9091", "65536"} |->
    CASE word = "0" -> 0 [] word = "40" -> 40
      [] word = "9091" -> 9091 [] word = "65536" -> 65536]
Parses(v) == v.pad = "none" /\ v.word \in DOMAIN Number

-----------------------------------------------------------------------------
(***************************************************************************)
(* The launcher.  The tool it calls is not in the repository; the bindings *)
(* the tool generates, generated/rust/runtime.rs, say how it resolves.     *)
(***************************************************************************)
nonempty(v) == IF Blank(v) THEN Unset ELSE trim(v)

\* The variables of .cli-flags.toml, and those that have a default there.
FlagKeys == Keys \ {"heartbeat_ms"}
Default(key) ==
    CASE key = "allow_non_loopback" -> Plain("false")
      [] key = "bind" -> Plain("127.0.0.1:9090")
      [] OTHER -> Unset

\* The first source that says something: flags, then the shell, then .env.
pick(key, sources) ==
    LET Said(i) == nonempty(sources[i][key])
        said == {i \in 1 .. 3 : Said(i) # Unset}
    IN  IF said = {} THEN Default(key)
        ELSE Said(CHOOSE i \in said : \A j \in said : i <= j)

load_env_map(shell, dotenv, flags) ==
    [key \in FlagKeys |-> pick(key, <<flags, shell, dotenv>>)]

\* The script exports what was resolved, over what it inherits, and becomes the
\* sidecar.
Overlaid(resolved, shell) ==
    [key \in Keys |->
        IF key \in FlagKeys /\ resolved[key] # Unset
          THEN resolved[key] ELSE shell[key]]

-----------------------------------------------------------------------------
(***************************************************************************)
(* The readers                                                             *)
(***************************************************************************)
\* Whether main accepts the trusted-hop secret; the same for any that is set
\* and not empty.
AnySecret(v) == v \notin {Unset, Empty}
required_env(v) == ~Blank(v)

\* The secret requests are sent with: trimmed, or none.
NoSecret == Unset
internal_secret(v) == IF Blank(v) THEN NoSecret ELSE trim(v)

\* What is exported.
Target(v) ==
    IF to_ascii_lowercase(trim(v)) = Plain("brain") THEN "brain" ELSE "node"

\* The role, forced by the target; the role alone, the target as written, and
\* a bridge only for those who ask for it.
RoleAlone(role, target) ==
    IF to_ascii_lowercase(trim(role)) = Plain("exporter")
      THEN "exporter" ELSE "full"
ForcedAsWritten(role, target) ==
    IF target = Plain("brain") THEN "exporter" ELSE RoleAlone(role, target)
FullIfAsked(role, target) ==
    IF to_ascii_lowercase(trim(role)) = Plain("full") /\ Target(target) = "node"
      THEN "full" ELSE "exporter"
classify(role, target) ==
    IF \/ to_ascii_lowercase(trim(target)) = Plain("brain")
       \/ to_ascii_lowercase(trim(role)) = Plain("exporter")
      THEN "exporter" ELSE "full"
runs_node_bridge(role) == role = "full"

\* A period in milliseconds: any number; one that is not zero.
any_ms(v, default) == IF Parses(v) THEN Number[v.word] ELSE default
positive_ms(v, default) ==
    IF Parses(v) /\ Number[v.word] > 0 THEN Number[v.word] ELSE default

\* The generic name wins whenever it is set, even to nothing.
Source(log_source, node_log_source) ==
    IF log_source # Unset THEN log_source
    ELSE IF node_log_source # Unset THEN node_log_source
    ELSE Empty
Ships(source, sink) == ~Blank(source) /\ ~Blank(sink)

\* Identity and placement; region is the one failure domain.
NodeId(v) == IF v = Unset THEN Plain("node-a") ELSE v
failure_domain(region) == IF region = Unset THEN Empty ELSE region

\* The constant labels of a page: a region that is empty is no label; a reader
\* that looks only whether it is set.
IfSet(region) == IF region = Unset THEN {} ELSE {region}
RegionLabel(region) == IF region \in {Unset, Empty} THEN {} ELSE {region}

-----------------------------------------------------------------------------
(***************************************************************************)
(* The listen address                                                      *)
(***************************************************************************)
MaxU16 == 65535

\* What is_loopback and is_unspecified tell apart; the others include what
\* neither knows, such as an IPv4 address mapped into IPv6, or multicast.
Addresses == [ip : {"loopback", "unspecified", "other"}, port : 0 .. MaxU16]
Address(ip, port) == [ip |-> ip, port |-> port]
NoAddress == Address("none", 0)

ASSUME SocketAddressAssumption ==
    /\ DOMAIN SocketAddress \subseteq Words
    /\ \A word \in DOMAIN SocketAddress : SocketAddress[word] \in Addresses

\* The port on loopback; a reader of more than 16 bits.
WidePort(v) ==
    IF Parses(v) /\ Number[v.word] > 0 THEN Number[v.word] ELSE 8091
DefaultPort(v) ==
    IF Parses(v) /\ Number[v.word] \in 1 .. MaxU16 THEN Number[v.word] ELSE 8091

allow_non_loopback_from_env(v) ==
    trim(v) \in {Plain("1")} \union
                {Value(word, "none", case) : word \in {"true", "yes"},
                                         case \in {"lower", "upper"}}

\* Which addresses are bound to, with and without the override; the same with
\* the override for any address at all.
AnyIfAllowed(ip, allowed) == ip = "loopback" \/ allowed
Permitted(ip, allowed) == ip = "loopback" \/ (ip = "other" /\ allowed)

\* The address main binds to, NoAddress if it refuses; the same for a value
\* taken as it is.  The port of an address that is given is not looked at.
Chosen(addr, allowed) == IF Permitted(addr.ip, allowed) THEN addr ELSE NoAddress
Parsed(word) ==
    IF word \in DOMAIN SocketAddress THEN SocketAddress[word] ELSE NoAddress

Untrimmed(bind, port, allowed) ==
    Chosen(IF Blank(bind) THEN Address("loopback", DefaultPort(port))
           ELSE IF bind.pad = "none" THEN Parsed(bind.word) ELSE NoAddress, allowed)
listen_addr(bind, port, allowed) ==
    Chosen(IF Blank(bind) THEN Address("loopback", DefaultPort(port))
           ELSE Parsed(trim(bind).word), allowed)
=============================================================================
