------------------------------ MODULE MCProcess ------------------------------
(***************************************************************************)
(* Instances of Process. The flags that do not interact are varied one at a  *)
(* time around a common command line, those that do are varied together.     *)
(***************************************************************************)
EXTENDS Process

NoSettings == [dsn |-> Unset, host |-> Unset, port |-> Unset, sslmode |-> Unset, other |-> FALSE]

Usual ==
    [valid |-> TRUE, command |-> "", ignoreSignals |-> FALSE,
     exitAfter |-> 0, exitJitter |-> 0, exitPercent |-> 100, exitCode |-> 0,
     webEnable |-> TRUE, webDelay |-> 0, webJitter |-> 0, loadEnable |-> TRUE, loadPanics |-> FALSE,
     hugeMem |-> FALSE, bareRoot |-> FALSE,
     bucket |-> "unset", postgres |-> NoSettings, crash |-> [d \in Dependencies |-> FALSE]]

\* Every combination of the two dependencies and their crash flags.
DependencyFlags ==
    {[Usual EXCEPT !.bucket = b, !.postgres.other = p, !.crash = c, !.command = m] :
        b \in {"unset", "unnamed", "named"}, p \in BOOLEAN,
        c \in [Dependencies -> BOOLEAN], m \in {"", "aldryn-celery"}}

\* No DSN, one without a host, with one and with two, one that cannot be parsed;
\* and the settings that override them. Only the check matters: nothing is started.
MCDSNs ==
    [bad : {FALSE}, hosts : {<< >>, <<[host |-> "a", port |-> 5432]>>,
                             <<[host |-> "a", port |-> 1], [host |-> "b", port |-> 2]>>},
     sslmode : SSLModes]
    \cup [bad : {TRUE}, hosts : {<< >>}, sslmode : {"prefer"}] \cup {Unset}

MCSettings ==
    [dsn : MCDSNs, host : {Unset, "c"}, port : {Unset}, sslmode : SSLModes \cup {Unset, "unknown"},
     other : {FALSE}]
    \cup [dsn : MCDSNs, host : {Unset}, port : {0, 65535, 65536}, sslmode : {Unset}, other : {FALSE}]

PostgresFlags ==
    {[Usual EXCEPT !.webEnable = FALSE, !.loadEnable = FALSE, !.ignoreSignals = TRUE,
                   !.crash["postgres"] = c, !.postgres = s] : s \in MCSettings, c \in BOOLEAN}

\* What makes a process draw to exit, with its edges: none, 1 ns, a jitter that can
\* bring a delay down to 1 ns or 0, one of which twice is too much for a Duration,
\* every subcommand. Nothing is started.
DrawFlags ==
    {[Usual EXCEPT !.exitAfter = a, !.exitJitter = j, !.exitPercent = p, !.exitCode = 1,
                   !.command = m, !.webEnable = FALSE, !.loadEnable = FALSE] :
        a \in {0, 1, 2}, j \in {-5, -1, 0, 3, 4}, p \in {0, 50, 100}, m \in Commands}

\* What the exit timer races with, for a code of 0, 1 and of more than eight bits.
ExitFlags ==
    {[Usual EXCEPT !.exitAfter = a, !.exitCode = c, !.ignoreSignals = i, !.command = m] :
        a \in {0, 1, 3}, c \in {0, 1, 256}, i \in BOOLEAN, m \in {"", "sleep"}}

OtherFlags ==
    {[Usual EXCEPT !.valid = FALSE], [Usual EXCEPT !.webEnable = FALSE, !.exitAfter = 3],
     [Usual EXCEPT !.loadEnable = FALSE], [Usual EXCEPT !.loadPanics = TRUE],
     [Usual EXCEPT !.hugeMem = TRUE],
     [Usual EXCEPT !.bareRoot = TRUE], [Usual EXCEPT !.bareRoot = TRUE, !.webEnable = FALSE],
     [Usual EXCEPT !.webDelay = 3, !.webJitter = 1],
     [Usual EXCEPT !.webDelay = 3, !.webJitter = -1],
     [Usual EXCEPT !.exitAfter = 3, !.bucket = "named", !.postgres.other = TRUE, !.ignoreSignals = TRUE],
     [Usual EXCEPT !.exitAfter = -1, !.webDelay = -1, !.webJitter = 1]}

MCFlags == DependencyFlags \cup PostgresFlags \cup DrawFlags \cup ExitFlags \cup OtherFlags
MCHosts == {"a", "b", "c"}
MCDraws == {0, 50, 99}
MCExitRequests == [query : {Absent, -1, 0, 127, 128, 256}]
=============================================================================
