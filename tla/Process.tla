------------------------------- MODULE Process -------------------------------
(***************************************************************************)
(* The life of the troublemaker process (main in main.go, bucket.go and      *)
(* postgres.go): its start with the checks of the bucket and of PostgreSQL,  *)
(* the goroutines it leaves behind and the ways in which it can end. Several *)
(* of them race for os.Exit: the exit timer, a request for /exit/, a port    *)
(* that cannot be listened on, a signal.                                     *)
(*                                                                         *)
(* A goroutine that logs waits while a /logs request holds the read lock of  *)
(* the log (LogBuffer). Only lines that others can hold up are steps here:   *)
(* before the server accepts requests nobody holds that lock.                *)
(*                                                                         *)
(* Time is not measured: a sleep may last for any number of steps.           *)
(***************************************************************************)
EXTENDS PostgresConfig

CONSTANTS
    Flags,         \* command lines
    Draws,         \* values of r.Float64(), in hundredths
    ExitRequests,  \* requests for /exit/, with the code in their query
    Absent,        \* no such code
    Half           \* durations are in -Half .. Half - 1: 2^63

DefaultExitCode == 1
Dependencies == {"bucket", "postgres"}
Commands == {"", "sleep", "beat", "aldryn-celery", "unknown"}

\* A command line: what main reads of it. The bucket settings are unset, lack
\* bucket.name or have it; crash is the crash.on.error of a dependency.
\* loadPanics: load.type is random and load.mem.max or load.cpu.max negative.
\* hugeMem: load.mem.max is more than can be allocated. bareRoot: web.root is
\* only a query, such as "?x".
FlagSets ==
    [valid : BOOLEAN, command : Commands, ignoreSignals : BOOLEAN,
     exitAfter : Int, exitJitter : Int, exitPercent : Int, exitCode : Int,
     webEnable : BOOLEAN, webDelay : Int, webJitter : Int, bareRoot : BOOLEAN,
     loadEnable : BOOLEAN, loadPanics : BOOLEAN, hugeMem : BOOLEAN,
     bucket : {"unset", "unnamed", "named"}, postgres : Settings, crash : [Dependencies -> BOOLEAN]]

ASSUME FlagsAssumption == Flags \subseteq FlagSets
ASSUME DrawsAssumption == Draws \subseteq 0..99 /\ Draws # {}
ASSUME HalfAssumption == Half \in Nat \ {0}
ASSUME RequestsAssumption == ExitRequests \subseteq [query : Int \cup {Absent}]

VARIABLES
    flags,      \* the parsed command line
    pc,         \* where main is
    ignoring,   \* signal.Notify has been called
    settings,   \* effectiveSettings: exitAfter, webDelay, shouldExit
    targets,    \* what is left for pgx to dial, the next one first
    connection, \* the PostgreSQL connection, Unset without
    reached,    \* history: the dependencies that have answered
    timer,      \* the goroutine of exit.after: "off" or "armed"
    web,        \* the HTTP server
    killing,    \* a goroutine of /killhttp is about to call Shutdown
    asked,      \* the request in the handler of /exit/, or Absent
    bare,       \* the root view is only a query
    load,       \* the goroutine of load.enable
    held,       \* requests for /logs hold the read lock of the log
    logged,     \* the goroutines that have logged what they are about to do
    status,     \* exit status of the process
    cause       \* history: what ended it, "none" while it runs

checks == <<targets, connection, reached>>
start == <<flags, ignoring, settings, checks>>
server == <<web, killing, asked, bare>>
log == <<held, logged>>
routines == <<timer, server, load, log>>
vars == <<start, pc, routines, status, cause>>

Running == cause = "none"

Init ==
    /\ flags \in Flags
    /\ pc = "parse"
    /\ ignoring = FALSE
    /\ settings = [exitAfter |-> 0, webDelay |-> 0, shouldExit |-> FALSE]
    /\ targets = << >> /\ connection = Unset /\ reached = {}
    /\ timer = "off" /\ web = "off" /\ killing = FALSE
    /\ asked = Absent /\ bare = FALSE /\ load = "off"
    /\ held = FALSE /\ logged = {}
    /\ status = 0 /\ cause = "none"

\* os.Exit, or a panic or a signal: the kernel keeps eight bits of the code.
End(code, why) ==
    /\ status' = code % 256 /\ cause' = why
    /\ UNCHANGED <<start, pc, routines>>

\* main gets to its next statement.
Goto(from, to) ==
    /\ Running /\ pc = from
    /\ pc' = to
    /\ UNCHANGED <<status, cause>>

-----------------------------------------------------------------------------
(* main. *)

\* ff.Parse fails, or -help.
RejectFlags == Running /\ pc = "parse" /\ ~ flags.valid /\ End(1, "usage")

\* The size of the log is set; signal.Notify with signals.ignore.
ReadFlags ==
    /\ flags.valid
    /\ Goto("parse", "settings")
    /\ ignoring' = flags.ignoreSignals
    /\ UNCHANGED <<flags, settings, checks, routines>>

\* The number with the same bits of a time.Duration or an int64.
Wrap(n) == ((n + Half) % (2 * Half)) - Half

\* effectiveDuration: the values it can draw. Int64N panics unless twice the
\* jitter, which may wrap, is positive; that leaves none.
UnclampedDurations(delay, jitter) ==
    IF jitter = 0 \/ delay < 2
    THEN {delay}
    ELSE {Wrap(delay + d - jitter) : d \in 0..(Wrap(2 * jitter) - 1)}
Clamped(n) == IF n < 0 THEN 0 ELSE n
EffectiveDurations(delay, jitter) ==
    IF jitter = 0 \/ delay < 2
    THEN {delay}
    ELSE {Clamped(Wrap(delay + d - jitter)) : d \in 0..(Wrap(2 * jitter) - 1)}

ExitDurations == EffectiveDurations(flags.exitAfter, flags.exitJitter)
WebDurations == EffectiveDurations(flags.webDelay, flags.webJitter)

ShouldExit(draw) == flags.exitAfter > 0 /\ (flags.exitPercent = 100 \/ flags.exitPercent >= draw)

Settle ==
    /\ Goto("settings", "bucket")
    /\ \E a \in ExitDurations, w \in WebDurations, draw \in Draws :
          settings' = [exitAfter |-> a, webDelay |-> w, shouldExit |-> ShouldExit(draw)]
    /\ UNCHANGED <<flags, ignoring, checks, routines>>

PanicOnJitter ==
    /\ Running /\ pc = "settings" /\ (ExitDurations = {} \/ WebDurations = {})
    /\ End(2, "panic")

-----------------------------------------------------------------------------
(* The checks of the dependencies. They end by their timeouts at the latest. *)

FatalOnlyIfConfigured(d) == flags.crash[d] /\ (d = "bucket" => flags.bucket # "unset")
FatalUnlessReached(d) == flags.crash[d]

\* The check of d is over without an answer: not configured, or failed.
CheckFails(d, from, next) ==
    \/ Running /\ pc = from /\ FatalUnlessReached(d) /\ End(1, "dependency")
    \/ /\ ~ FatalUnlessReached(d) /\ Goto(from, next)
       /\ connection' = Unset
       /\ UNCHANGED <<flags, ignoring, settings, targets, reached, routines>>

\* d has answered.
CheckSucceeds(d, from, next) ==
    /\ Goto(from, next)
    /\ reached' = reached \cup {d} /\ connection' = Unset
    /\ UNCHANGED <<flags, ignoring, settings, targets, routines>>

\* Without settings or without bucket.name there is nothing to list, and the
\* listing may fail; ListObjectsV2 asks for the one bucket that is named.
CheckBucket ==
    \/ CheckFails("bucket", "bucket", "postgres")
    \/ flags.bucket = "named" /\ CheckSucceeds("bucket", "bucket", "postgres")

\* Without settings, or with ones that cannot be parsed, nothing is dialled.
NoPostgres ==
    /\ ~ Configured(flags.postgres) \/ BadConfig(flags.postgres)
    /\ CheckFails("postgres", "postgres", "command")

ConfigurePostgres ==
    /\ Configured(flags.postgres) /\ ~ BadConfig(flags.postgres)
    /\ Goto("postgres", "dial")
    /\ targets' = PostgresTargets(flags.postgres)
    /\ UNCHANGED <<flags, ignoring, settings, connection, reached, routines>>

\* The server of a host has a certificate for that host.
Accepts(t) == t.tls.kind = "full" => t.tls.name = t.host

\* pgx.ConnectConfig connects to the first target that will do.
Connect ==
    /\ Goto("dial", "query")
    /\ Accepts(targets[1]) /\ connection' = targets[1]
    /\ UNCHANGED <<flags, ignoring, settings, targets, reached, routines>>

\* A target that fails to connect makes way for the next one.
TryFallback ==
    /\ Goto("dial", "dial")
    /\ Len(targets) > 1 /\ targets' = Tail(targets)
    /\ UNCHANGED <<flags, ignoring, settings, connection, reached, routines>>

\* The last target fails, or a server refuses the user, or the time is over.
ConnectFails == CheckFails("postgres", "dial", "command")

\* "select version()", after which the connection is closed.
QueryVersion ==
    CheckSucceeds("postgres", "query", "command") \/ CheckFails("postgres", "query", "command")

CheckPostgres ==
    NoPostgres \/ ConfigurePostgres \/ Connect \/ TryFallback \/ ConnectFails \/ QueryVersion

-----------------------------------------------------------------------------
(* The subcommands and the start of the goroutines. *)

\* No subcommand, or beat, which only logs.
NoCommand ==
    /\ flags.command \in {"", "beat"}
    /\ Goto("command", "timer")
    /\ UNCHANGED <<start, routines>>

\* The process sleeps and exits, or its duration is no duration.
Sleep ==
    /\ Running /\ pc = "command" /\ flags.command = "sleep"
    /\ End(flags.exitCode, "sleep") \/ End(1, "command")

UnknownCommand ==
    /\ Running /\ pc = "command" /\ flags.command = "unknown"
    /\ End(1, "command")

\* for { lg.StartSpikeLoad() }: main goes no further.
Celery ==
    /\ flags.command = "aldryn-celery"
    /\ Goto("command", "celery")
    /\ load' = "started"
    /\ UNCHANGED <<start, timer, server, log>>

ExitAtStartup ==
    /\ Running /\ pc = "timer"
    /\ settings.shouldExit /\ settings.exitAfter = 1
    /\ End(flags.exitCode, "timer")

ArmTimer ==
    /\ ~ (settings.shouldExit /\ settings.exitAfter = 1)
    /\ Goto("timer", "web")
    /\ timer' = IF settings.shouldExit THEN "armed" ELSE timer
    /\ UNCHANGED <<start, server, load, log>>

StartWeb ==
    /\ Goto("web", "load")
    /\ web' = IF flags.webEnable THEN "delay" ELSE web
    /\ bare' = (flags.webEnable /\ flags.bareRoot)
    /\ UNCHANGED <<start, timer, killing, asked, load, log>>

StartLoad ==
    /\ Goto("load", "idle")
    /\ load' = IF flags.loadEnable THEN "wait" ELSE load
    /\ UNCHANGED <<start, timer, server, log>>

-----------------------------------------------------------------------------
(* The log. *)

\* A request that came in before a shutdown may reach its handler after it.
Handling == web \in {"serving", "stopped"}

\* /logs sends the buffer and keeps its read lock while the client reads or
\* stalls; the lock is free again when no such request is left.
HoldLog ==
    /\ Running /\ Handling /\ ~ held
    /\ held' = TRUE
    /\ UNCHANGED <<start, pc, timer, server, load, logged, status, cause>>

ReleaseLog ==
    /\ Running /\ held
    /\ held' = FALSE
    /\ UNCHANGED <<start, pc, timer, server, load, logged, status, cause>>

\* A line of goroutine g is written, which then goes on.
Log(g) ==
    /\ Running /\ ~ held /\ g \notin logged
    /\ logged' = logged \cup {g}
    /\ UNCHANGED <<start, pc, timer, server, load, held, status, cause>>

-----------------------------------------------------------------------------
(* The goroutines. *)

\* The sleep of exit.after is over.
LogExitTimer == timer = "armed" /\ Log("timer")

ExitTimerOfTheServer ==
    Running /\ "timer" \in logged /\ web = "serving" /\ End(flags.exitCode, "timer")

ExitTimer == Running /\ "timer" \in logged /\ End(flags.exitCode, "timer")

\* ListenAndServe after web.delay; its error is fatal. A listener that was
\* opened is taken to accept connections until it is closed.
Listen ==
    /\ Running /\ web = "delay"
    /\ web' = "serving"
    /\ UNCHANGED <<start, pc, timer, killing, asked, bare, load, log, status, cause>>

ListenFails == Running /\ web = "delay" /\ End(1, "listen")

\* /killhttp answers, logs, and shuts the server down a little later.
KillHttp ==
    /\ Running /\ web = "serving" /\ ~ killing /\ ~ held
    /\ killing' = TRUE
    /\ UNCHANGED <<start, pc, timer, web, asked, bare, load, log, status, cause>>

FatalWhenClosed ==
    /\ web' = "stopped" /\ killing' = FALSE
    /\ status' = 1 /\ cause' = "listen"
    /\ UNCHANGED <<start, pc, timer, asked, bare, load, log>>

\* ListenAndServe returns ErrServerClosed, which is no error. Handlers that
\* have started go on.
StoppedWhenClosed ==
    /\ web' = "stopped" /\ killing' = FALSE
    /\ UNCHANGED <<start, pc, timer, asked, bare, load, log, status, cause>>

Shutdown == Running /\ web = "serving" /\ killing /\ StoppedWhenClosed

\* /set-root-handler: another view.
SetRoot ==
    /\ Running /\ Handling
    /\ bare' \in BOOLEAN
    /\ UNCHANGED <<start, pc, timer, web, killing, asked, load, log, status, cause>>

\* A request for / while the view is only a query: rootHandler and mux call each
\* other until the stack is full (Overflow in WebServer), which is fatal.
Overflow == Running /\ Handling /\ bare /\ End(2, "overflow")

\* /exit/ writes its header, reads the code of the query, logs and exits.
AskExit ==
    /\ Running /\ web = "serving" /\ asked = Absent
    /\ asked' \in ExitRequests
    /\ UNCHANGED <<start, pc, timer, web, killing, bare, load, log, status, cause>>

LogExitRequest == asked # Absent /\ Log("exit")

AnyCode(r) == IF r.query = Absent THEN DefaultExitCode ELSE r.query
CodeInRange(r) == IF r.query \in 0..127 THEN r.query ELSE DefaultExitCode

ExitOnRequest ==
    /\ Running /\ asked # Absent /\ "exit" \in logged
    /\ End(CodeInRange(asked), "request")

\* The switch on load.type, which logs first. GenerateRandomSchedule panics on a
\* negative limit (Schedules), unless chance spares it a draw: outside a request
\* of the server nothing recovers.
LogLoad == load = "wait" /\ Log("load")

RunLoad ==
    /\ Running /\ load = "wait" /\ "load" \in logged
    /\ load' = "started"
    /\ UNCHANGED <<start, pc, timer, server, log, status, cause>>

LoadPanics ==
    /\ Running /\ load = "wait" /\ "load" \in logged
    /\ flags.loadPanics /\ End(2, "panic")

\* A step of a load that was started with the process or by a request (/load/mem
\* and the others, each in a goroutine of its own) asks for more memory than there
\* is, or than a slice may have. Nothing recovers. A celery load takes no memory.
AllocPanics ==
    /\ Running /\ flags.hugeMem
    /\ Handling \/ (load = "started" /\ pc # "celery")
    /\ End(2, "memory")

\* SIGTERM and the other signals of the list of signal.Notify.
Signal == Running /\ ~ ignoring /\ End(143, "signal")

\* main sleeps, or starts one spike load after the other.
Forever == Running /\ pc \in {"idle", "celery"} /\ UNCHANGED vars

Ended == ~ Running /\ UNCHANGED vars

Main == \/ RejectFlags \/ ReadFlags \/ Settle \/ PanicOnJitter
        \/ CheckBucket \/ CheckPostgres
        \/ NoCommand \/ Sleep \/ UnknownCommand \/ Celery
        \/ ExitAtStartup \/ ArmTimer \/ StartWeb \/ StartLoad
Web == \/ Listen \/ ListenFails \/ KillHttp \/ Shutdown
       \/ SetRoot \/ Overflow \/ AskExit \/ HoldLog \/ ReleaseLog
Logs == LogExitTimer \/ LogExitRequest \/ LogLoad
Exits == ExitTimer \/ ExitOnRequest \/ LoadPanics \/ AllocPanics \/ Signal
Next == Main \/ Web \/ Logs \/ Exits \/ RunLoad \/ Forever \/ Ended

Spec == Init /\ [][Next]_vars

\* main runs, and so does the goroutine of the timer. Its line gets its turn if
\* the lock of the log is free again and again: a Lock that waits keeps new
\* readers out (EverybodyReturns in LogBuffer), hence strong fairness. No client
\* of /logs has to read on and no request or signal has to come.
FairSpec == Spec /\ WF_vars(Main) /\ SF_vars(LogExitTimer) /\ WF_vars(ExitTimer)

-----------------------------------------------------------------------------
(* Properties. *)

\* Types. A jitter never turns a delay into a negative one.
TypeOK ==
    /\ flags \in FlagSets
    /\ pc \in {"parse", "settings", "bucket", "postgres", "dial", "query", "command", "timer",
               "web", "load", "idle", "celery"}
    /\ ignoring \in BOOLEAN /\ killing \in BOOLEAN
    /\ settings \in [exitAfter : Int, webDelay : Int, shouldExit : BOOLEAN]
    /\ flags.exitAfter >= 0 => settings.exitAfter >= 0
    /\ flags.webDelay >= 0 => settings.webDelay >= 0
    /\ reached \subseteq Dependencies
    /\ connection # Unset => pc = "query"
    /\ timer \in {"off", "armed"} /\ web \in {"off", "delay", "serving", "stopped"}
    /\ asked \in ExitRequests \cup {Absent} /\ load \in {"off", "wait", "started"}
    /\ bare \in BOOLEAN /\ held \in BOOLEAN /\ logged \subseteq {"timer", "exit", "load"}
    /\ status \in 0..255
    /\ cause \in {"none", "usage", "panic", "dependency", "command", "sleep", "timer", "listen",
                  "request", "signal", "overflow", "memory"}

(* "This lets troublemaker simulate a service that cannot start because a    *)
(* required dependency is unavailable" (bucket.go, postgres.go): with        *)
(* crash.on.error the process neither serves nor makes load nor arms its     *)
(* exit unless the dependency has answered, whichever of the two it is.      *)
RequiredDependencies ==
    (web # "off" \/ load # "off" \/ timer # "off") =>
        \A d \in Dependencies : flags.crash[d] => d \in reached

(* "any individual POSTGRES_* setting that is provided overrides the         *)
(* corresponding part of the DSN" (postgres.go:45-49): a connection is as    *)
(* the settings say, unless it is to a target pgx falls back to, which stays *)
(* what the DSN made it.                                                     *)
ConnectedAsConfigured ==
    connection # Unset =>
        AsConfigured(connection, flags.postgres) \/ Fallback(connection, flags.postgres)

(* "postgresql host, overrides the dsn" (main.go:402), and likewise the port *)
(* and the sslmode: a connection is as the settings say.                     *)
OverridesTheDSN == connection # Unset => AsConfigured(connection, flags.postgres)

(* A server that got to listen ends its process on purpose only: through     *)
(* the exit timer, a request for /exit/ or a signal. Neither /killhttp nor   *)
(* anything left over from the start makes it fail. The exceptions are a     *)
(* root view that is only a query (main.go:235-244), a random load with a    *)
(* negative limit and a limit of the memory that cannot be allocated.        *)
ServingEndsOnPurpose ==
    Handling =>
        \/ cause \in {"none", "timer", "request", "signal"}
        \/ cause = "overflow" /\ bare
        \/ cause = "panic" /\ flags.loadPanics
        \/ cause = "memory" /\ flags.hugeMem

(* A status of 0 is one somebody asked for, with exit.code 0 or with the     *)
(* code 0 in a request: no start that failed, no crash and no code of a      *)
(* request that is out of range looks like a success. An exit.code that does *)
(* not fit into a status may, others are kept (FittingCodesAreKept).         *)
FailureIsVisible ==
    ~ Running /\ status = 0 =>
        \/ cause \in {"sleep", "timer"} /\ (flags.exitCode = 0 \/ flags.exitCode \notin 0..255)
        \/ cause = "request" /\ asked.query = 0

(* "exit with exit code 1 if duration > 0" (main.go:370): once a process has *)
(* drawn to exit it ends, through checks that fail or hang, whatever becomes *)
(* of its server and its load and though signals are ignored; but not the    *)
(* subcommand that makes spikes for ever, and only if no client keeps the    *)
(* lock of the log for ever, since the timer logs before it exits (main.go:549). *)
DrawnToExitEnds ==
    []<>~ held => (settings.shouldExit ~> (~ Running \/ pc = "celery"))
=============================================================================
