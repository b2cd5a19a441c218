----------------------------- MODULE MCSidecar -----------------------------
(***************************************************************************)
(* Deployments for TLC: one that works, and those that differ from it in   *)
(* the variables that are read together.                                   *)
(***************************************************************************)
EXTENDS Sidecar

Nothing == [key \in Keys |-> Unset]
Working == [Nothing EXCEPT !["secret"] = Plain("hunter2"),
                           !["region"] = Plain("eu")]

\* The forms of a value: as it is, with blanks, in capitals, in both.
Padded(word) == Value(word, "blanks", "lower")
Mixed(word) == Value(word, "none", "mixed")
Upper(word) == Value(word, "none", "upper")
Missing == {Unset, Empty, Padded("(empty)")}

Direct(shell) ==
    [launcher |-> "none", shell |-> shell, dotenv |-> Nothing, flags |-> Nothing]
Bindings(shell, dotenv, flags) ==
    [launcher |-> "bindings", shell |-> shell, dotenv |-> dotenv, flags |-> flags]

Secrets ==
    {[Working EXCEPT !["secret"] = s] :
        s \in Missing \union {Padded("hunter2"), Upper("hunter2")}}
Roles ==
    {[Working EXCEPT !["role"] = r, !["target"] = t] :
        r \in {Unset, Plain("full"), Mixed("exporter")},
        t \in {Unset, Plain("brain"), Mixed("brain"), Padded("brain")}}
Addressed ==
    {[Working EXCEPT !["bind"] = b, !["port"] = p] :
        b \in {Unset, Padded("(empty)")},
        p \in {Unset, Padded("9091"), Plain("9091"), Plain("0"), Plain("65536")}}
    \union
    {[Working EXCEPT !["bind"] = b, !["allow_non_loopback"] = a] :
        b \in {Padded("127.0.0.1:9090"), Plain("127.0.0.1:0"),
               Plain("10.0.0.5:9000"), Plain("[::ffff:127.0.0.1]:9000"),
               Plain("0.0.0.0:9000"), Plain("localhost:9000")},
        a \in {Plain("false"), Padded("yes"), Upper("true"), Mixed("true")}}
Paced ==
    {[Working EXCEPT !["heartbeat_ms"] = h, !["region"] = r] :
        h \in {Plain("0"), Padded("0"), Plain("40")},
        r \in {Unset, Empty, Padded("eu")}}
Logging ==
    {[Working EXCEPT !["log_source"] = g, !["node_log_source"] = n,
                     !["log_sink"] = Plain("stdout")] :
        g \in {Unset, Empty, Plain("/log")}, n \in {Unset, Plain("/log")}}

\* The secret in a file, a flag over the shell, a blank flag that gives way,
\* and the bindings' own address over PORT.
Bound ==
    {Bindings([Nothing EXCEPT !["port"] = Plain("9091")], Working,
              [Nothing EXCEPT !["target"] = t, !["region"] = Padded("(empty)")]) :
        t \in {Unset, Mixed("brain")}}
    \union
    {Bindings([Working EXCEPT !["heartbeat_ms"] = Plain("0")], Nothing,
              [Nothing EXCEPT !["secret"] = s]) : s \in {Unset, Padded("other")}}

MCWords == {v.word : v \in UNION {{shell[key] : key \in Keys} :
    shell \in Secrets \union Roles \union Addressed \union Paced \union Logging}}
    \union {"other"}
\* "localhost:9000" is no socket address.
MCSocketAddress ==
    [word \in {"127.0.0.1:9090", "127.0.0.1:0", "10.0.0.5:9000",
              "[::ffff:127.0.0.1]:9000", "0.0.0.0:9000"} |->
        CASE word = "127.0.0.1:9090" -> Address("loopback", 9090)
          [] word = "127.0.0.1:0"    -> Address("loopback", 0)
          [] word = "0.0.0.0:9000"   -> Address("unspecified", 9000)
          [] OTHER                   -> Address("other", 9000)]
MCOthers == {Plain("node-b")}
MCDeployments ==
    {Direct(shell) : shell \in Secrets \union Roles \union Addressed
                               \union Paced \union Logging}
    \union Bound
=============================================================================
