----------------------------- MODULE ProcessProofs -----------------------------
(***************************************************************************)
(* Proofs about the life of the process, for every command line, every draw  *)
(* and every request for /exit/.                                             *)
(***************************************************************************)
EXTENDS Process, TLAPS

USE DEF Running, Goto, End, start, checks, routines, server, log

\* Labels of main behind the checks of the dependencies, and the last ones.
Checked  == {"command", "timer", "web", "load", "idle", "celery"}
Launched == {"load", "idle"}

-----------------------------------------------------------------------------
(* Types *)

\* The numbers of a command line that main reads are integers.
LEMMA FlagTypes ==
    ASSUME NEW f \in FlagSets
    PROVE  /\ f.exitAfter \in Int /\ f.exitJitter \in Int /\ f.exitPercent \in Int
           /\ f.exitCode \in Int /\ f.webDelay \in Int /\ f.webJitter \in Int
           /\ f.ignoreSignals \in BOOLEAN /\ f.webEnable \in BOOLEAN /\ f.bareRoot \in BOOLEAN
           /\ f.postgres \in Settings
BY DEF FlagSets

\* Whatever wraps is a number again.
LEMMA WrapType ==
    ASSUME NEW n \in Int
    PROVE  Wrap(n) \in Int
<1>1. 2 * Half \in Nat \ {0} /\ n + Half \in Int
  BY HalfAssumption
<1>2. (n + Half) % (2 * Half) \in Int
  BY <1>1
<1> QED
  BY <1>2, HalfAssumption DEF Wrap

\* effectiveDuration: an integer, and no negative one for a delay that is none.
LEMMA DurationTypes ==
    ASSUME NEW delay \in Int, NEW jitter \in Int, NEW d \in EffectiveDurations(delay, jitter)
    PROVE  d \in Int /\ (delay >= 0 => d >= 0)
<1>1. CASE jitter = 0 \/ delay < 2
  BY <1>1 DEF EffectiveDurations
<1>2. CASE ~ (jitter = 0 \/ delay < 2)
  <2>1. PICK k \in 0..(Wrap(2 * jitter) - 1) : d = Clamped(Wrap(delay + k - jitter))
    BY <1>2, Zenon DEF EffectiveDurations
  <2>2. k \in Int /\ Wrap(delay + k - jitter) \in Int
    BY WrapType
  <2> QED
    BY <2>1, <2>2 DEF Clamped
<1> QED
  BY <1>1, <1>2

\* The kernel's eight bits.
LEMMA Bits == \A n \in Int : n % 256 \in 0..255
OBVIOUS

\* The conjuncts of TypeOK but for the ones below: what SMT can treat at once.
PlainTypes ==
    /\ pc \in {"parse", "settings", "bucket", "postgres", "dial", "query", "command", "timer",
               "web", "load", "idle", "celery"}
    /\ reached \subseteq Dependencies
    /\ connection # Unset => pc = "query"
    /\ timer \in {"off", "armed"} /\ web \in {"off", "delay", "serving", "stopped"}
    /\ load \in {"off", "wait", "started"}
    /\ status \in 0..255
    /\ cause \in {"none", "usage", "panic", "dependency", "command", "sleep", "timer", "listen",
                  "request", "signal", "overflow", "memory"}

FlagSettings ==
    /\ flags \in FlagSets
    /\ ignoring \in BOOLEAN /\ killing \in BOOLEAN /\ bare \in BOOLEAN /\ held \in BOOLEAN
    /\ settings \in [exitAfter : Int, webDelay : Int, shouldExit : BOOLEAN]
    /\ flags.exitAfter >= 0 => settings.exitAfter >= 0
    /\ flags.webDelay >= 0 => settings.webDelay >= 0
    /\ asked \in ExitRequests \cup {Absent}
    /\ logged \subseteq {"timer", "exit", "load"}

\* main, and the goroutines and requests, as lists of actions.
USE DEF Main, Web, Logs, Exits

\* Without a subcommand main just goes on.
LEMMA OnlyTheLabel ==
    NoCommand => /\ pc = "command" /\ pc' = "timer"
                 /\ UNCHANGED <<flags, timer, web, asked, bare, load, held, logged, status, cause>>
                 /\ UNCHANGED <<targets, connection, reached>>
BY Zenon DEF NoCommand

\* The check of PostgreSQL, as a list of actions.
USE DEF CheckBucket, CheckPostgres, NoPostgres, ConnectFails, QueryVersion

LEMMA PlainInit == Init => PlainTypes
BY DEF Init, PlainTypes

LEMMA PlainStep == FlagSettings /\ PlainTypes /\ [Next]_vars => PlainTypes'
<1> SUFFICES ASSUME FlagSettings, PlainTypes, [Next]_vars PROVE PlainTypes'
  OBVIOUS
<1>1. flags.exitCode \in Int
  BY FlagTypes DEF FlagSettings
<1>2. flags.exitCode % 256 \in 0..255
  BY <1>1, Bits
<1>3. ASSUME NEW r \in ExitRequests PROVE CodeInRange(r) % 256 \in 0..255
  <2>1. CodeInRange(r) \in Int
    BY DEF CodeInRange, DefaultExitCode
  <2> QED
    BY <2>1, Bits, Zenon
<1>4. CASE RejectFlags \/ ReadFlags \/ Settle \/ PanicOnJitter
  BY <1>4 DEF PlainTypes, RejectFlags, ReadFlags, Settle, PanicOnJitter
<1>5. CASE CheckBucket \/ CheckPostgres
  <2>1. CASE CheckBucket \/ NoPostgres \/ ConnectFails \/ QueryVersion
    <3>1. /\ pc' \in {pc, "postgres", "command"} /\ connection' \in {connection, Unset}
          /\ connection' # Unset => pc' = pc
          /\ UNCHANGED <<timer, web, load>>
          /\ reached' \in {reached, reached \cup {"bucket"}, reached \cup {"postgres"}}
          /\ \/ UNCHANGED <<status, cause>>
             \/ status' = 1 % 256 /\ cause' = "dependency"
      BY <2>1 DEF CheckFails, CheckSucceeds
    <3> QED
      BY <3>1 DEF PlainTypes, Dependencies
  <2>2. CASE ConfigurePostgres \/ Connect \/ TryFallback
    BY <2>2 DEF PlainTypes, ConfigurePostgres, Connect, TryFallback
  <2> QED
    BY <1>5, <2>1, <2>2
<1>6. CASE NoCommand \/ Sleep \/ UnknownCommand \/ Celery
  <2>1. CASE NoCommand
    BY <2>1, OnlyTheLabel DEF PlainTypes
  <2>2. CASE Sleep \/ UnknownCommand \/ Celery
    BY <2>2, <1>2 DEF PlainTypes, Sleep, UnknownCommand, Celery
  <2> QED
    BY <1>6, <2>1, <2>2
<1>7. CASE ExitAtStartup \/ ArmTimer \/ StartWeb \/ StartLoad \/ ExitTimer
  BY <1>7, <1>2 DEF PlainTypes, ExitAtStartup, ArmTimer, StartWeb, StartLoad, ExitTimer
<1>8. CASE Web
  <2>1. CASE Listen \/ ListenFails \/ KillHttp \/ Shutdown \/ AskExit
    BY <2>1 DEF PlainTypes, Listen, ListenFails, KillHttp, Shutdown, StoppedWhenClosed, AskExit
  <2>2. CASE SetRoot \/ Overflow \/ HoldLog \/ ReleaseLog
    BY <2>2 DEF PlainTypes, SetRoot, Overflow, HoldLog, ReleaseLog
  <2> QED
    BY <1>8, <2>1, <2>2
<1>9. CASE ExitOnRequest
  BY <1>9, <1>3 DEF PlainTypes, FlagSettings, ExitOnRequest
<1>10. CASE RunLoad \/ Forever \/ Ended \/ UNCHANGED vars
  BY <1>10 DEF PlainTypes, RunLoad, Forever, Ended, vars
<1>12. CASE LoadPanics \/ AllocPanics \/ Signal
  <2>1. /\ cause' \in {"panic", "memory", "signal"} /\ status' \in {2 % 256, 143 % 256}
        /\ UNCHANGED <<pc, reached, connection, timer, web, load>>
    BY <1>12, Zenon DEF LoadPanics, AllocPanics, Signal
  <2> QED
    BY <2>1 DEF PlainTypes
<1>11. CASE Logs
  BY <1>11 DEF PlainTypes, LogExitTimer, LogExitRequest, LogLoad, Log
<1> QED
  BY <1>4, <1>5, <1>6, <1>7, <1>8, <1>9, <1>10, <1>11, <1>12 DEF Next

LEMMA SettingsInit == Init => FlagSettings
<1> SUFFICES ASSUME Init PROVE FlagSettings
  OBVIOUS
<1>1. ignoring \in BOOLEAN /\ killing \in BOOLEAN /\ bare \in BOOLEAN /\ held \in BOOLEAN
  BY Zenon DEF Init
<1>2. settings \in [exitAfter : Int, webDelay : Int, shouldExit : BOOLEAN]
  BY DEF Init
<1>3. settings.exitAfter >= 0 /\ settings.webDelay >= 0
  BY DEF Init
<1>4. flags \in FlagSets /\ asked \in ExitRequests \cup {Absent}
  BY FlagsAssumption DEF Init
<1>5. logged \subseteq {"timer", "exit", "load"}
  BY DEF Init
<1> QED
  BY <1>1, <1>2, <1>3, <1>4, <1>5, Zenon DEF FlagSettings

\* Each of these variables is written by one or two actions.
LEMMA SettingsStep == FlagSettings /\ [Next]_vars => FlagSettings'
<1> SUFFICES ASSUME FlagSettings, [Next]_vars PROVE FlagSettings'
  OBVIOUS
<1>1. CASE Settle
  <2>1. PICK a \in ExitDurations, w \in WebDurations, draw \in Draws :
          settings' = [exitAfter |-> a, webDelay |-> w, shouldExit |-> ShouldExit(draw)]
    BY <1>1 DEF Settle
  <2>2. a \in Int /\ (flags.exitAfter >= 0 => a >= 0)
    BY FlagTypes, DurationTypes DEF FlagSettings, ExitDurations
  <2>3. w \in Int /\ (flags.webDelay >= 0 => w >= 0)
    BY FlagTypes, DurationTypes DEF FlagSettings, WebDurations
  <2>4. ShouldExit(draw) \in BOOLEAN
    BY Zenon DEF ShouldExit
  <2>5. settings' \in [exitAfter : Int, webDelay : Int, shouldExit : BOOLEAN]
    BY <2>1, <2>2, <2>3, <2>4, Zenon
  <2>6. settings'.exitAfter = a /\ settings'.webDelay = w
    BY <2>1
  <2>7. UNCHANGED <<flags, ignoring, killing, asked, bare, held, logged>>
    BY <1>1 DEF Settle
  <2> QED
    BY <2>2, <2>3, <2>5, <2>6, <2>7, Zenon DEF FlagSettings
<1>2. CASE ReadFlags
  <2>1. ignoring' \in BOOLEAN
    BY <1>2, FlagTypes, Zenon DEF ReadFlags, FlagSettings
  <2>2. UNCHANGED <<flags, settings, killing, asked, bare, held, logged>>
    BY <1>2 DEF ReadFlags
  <2> QED
    BY <2>1, <2>2, Zenon DEF FlagSettings
<1>3. CASE KillHttp \/ Shutdown
  <2>1. killing' \in BOOLEAN
    BY <1>3, Zenon DEF KillHttp, Shutdown, StoppedWhenClosed
  <2>2. UNCHANGED <<flags, settings, ignoring, asked, bare, held, logged>>
    BY <1>3 DEF KillHttp, Shutdown, StoppedWhenClosed
  <2> QED
    BY <2>1, <2>2, Zenon DEF FlagSettings
<1>4. CASE AskExit
  <2>1. asked' \in ExitRequests /\ UNCHANGED <<flags, settings, ignoring, killing, bare, held, logged>>
    BY <1>4 DEF AskExit
  <2> QED
    BY <2>1, Zenon DEF FlagSettings
<1>5. ASSUME UNCHANGED <<flags, ignoring, settings, killing, asked, bare, held, logged>> PROVE FlagSettings'
  BY <1>5, Zenon DEF FlagSettings
<1>12. CASE SetRoot \/ StartWeb \/ HoldLog \/ ReleaseLog
  <2>1. bare' \in BOOLEAN /\ held' \in BOOLEAN
    BY <1>12, Zenon DEF FlagSettings, SetRoot, StartWeb, HoldLog, ReleaseLog
  <2>2. UNCHANGED <<flags, settings, ignoring, killing, asked, logged>>
    BY <1>12 DEF SetRoot, StartWeb, HoldLog, ReleaseLog
  <2> QED
    BY <2>1, <2>2, Zenon DEF FlagSettings
<1>6. CASE RejectFlags \/ PanicOnJitter \/ CheckBucket \/ CheckPostgres
  BY <1>5, <1>6 DEF RejectFlags, PanicOnJitter, CheckFails, CheckSucceeds, ConfigurePostgres,
                    Connect, TryFallback
<1>7. CASE NoCommand \/ Sleep \/ UnknownCommand \/ Celery
  BY <1>5, <1>7 DEF NoCommand, Sleep, UnknownCommand, Celery
<1>8. CASE ExitAtStartup \/ ArmTimer \/ StartLoad \/ ExitTimer
  BY <1>5, <1>8 DEF ExitAtStartup, ArmTimer, StartLoad, ExitTimer
<1>9. CASE Listen \/ ListenFails \/ Overflow \/ ExitOnRequest \/ RunLoad \/ LoadPanics \/ AllocPanics
  BY <1>5, <1>9 DEF Listen, ListenFails, Overflow, ExitOnRequest, RunLoad, LoadPanics, AllocPanics
<1>10. CASE Signal \/ Forever \/ Ended \/ UNCHANGED vars
  BY <1>5, <1>10 DEF Signal, Forever, Ended, vars
<1>11. CASE Logs
  <2>1. PICK g \in {"timer", "exit", "load"} : logged' = logged \cup {g}
    BY <1>11 DEF LogExitTimer, LogExitRequest, LogLoad, Log
  <2>2. UNCHANGED <<flags, settings, ignoring, killing, asked, bare, held>>
    BY <1>11 DEF LogExitTimer, LogExitRequest, LogLoad, Log
  <2>3. logged' \subseteq {"timer", "exit", "load"}
    BY <2>1 DEF FlagSettings
  <2> QED
    BY <2>2, <2>3, Zenon DEF FlagSettings
<1> QED
  BY <1>1, <1>2, <1>3, <1>4, <1>6, <1>7, <1>8, <1>9, <1>10, <1>11, <1>12 DEF Next

\* Types, for any command lines, draws and requests.
THEOREM TypeCorrect == Spec => []TypeOK
<1>1. Init => FlagSettings /\ PlainTypes
  BY PlainInit, SettingsInit
<1>2. FlagSettings /\ PlainTypes /\ [Next]_vars => (FlagSettings /\ PlainTypes)'
  BY PlainStep, SettingsStep
<1>3. FlagSettings /\ PlainTypes => TypeOK
  BY Zenon DEF FlagSettings, PlainTypes, TypeOK
<1> QED
  BY <1>1, <1>2, <1>3, PTL DEF Spec

-----------------------------------------------------------------------------
(* The inductive invariant *)

\* What has been started tells how far main has come.
Progress ==
    /\ timer # "off" => pc \in {"web", "load", "idle"}
    /\ web # "off" => pc \in Launched
    /\ load # "off" => pc \in {"idle", "celery"}

\* main is behind a check only if the dependency has answered or is not required.
Dependable ==
    /\ pc \in Checked \cup {"postgres", "dial", "query"} /\ FatalUnlessReached("bucket") => "bucket" \in reached
    /\ pc \in Checked /\ FatalUnlessReached("postgres") => "postgres" \in reached

\* "exit code when exiting" (main.go:374): a process that ends by exit.after or by
\* sleep (main.go:526, 545, 550) has the status exit.code, if that fits into eight bits.
FittingCodeIsKept ==
    flags.exitCode \in 0..255 /\ cause \in {"sleep", "timer"} => status = flags.exitCode

\* The remaining conjuncts are inductive with these.
IInv == Progress /\ Dependable /\ ServingEndsOnPurpose /\ FailureIsVisible /\ FittingCodeIsKept

USE DEF Checked, Launched

\* What is left of an exit code: itself if it has eight bits.
LEMMA EightBits == \A n \in 0..255 : n % 256 = n
OBVIOUS

LEMMA InvInit == Init => IInv
BY DEF Init, IInv, Progress, Dependable, ServingEndsOnPurpose, Handling, FailureIsVisible,
       FittingCodeIsKept

LEMMA InvStep == IInv /\ [Next]_vars => IInv'
<1> SUFFICES ASSUME IInv, [Next]_vars PROVE IInv'
  OBVIOUS
<1> USE DEF IInv, Progress, Dependable, ServingEndsOnPurpose, Handling, FailureIsVisible,
            FittingCodeIsKept, FatalUnlessReached
<1>a. flags.exitCode \in 0..255 => flags.exitCode % 256 = flags.exitCode
  BY EightBits
<1>1. CASE RejectFlags \/ ReadFlags \/ Settle \/ PanicOnJitter
  BY <1>1 DEF RejectFlags, ReadFlags, Settle, PanicOnJitter
<1>2. CASE CheckBucket \/ CheckPostgres
  <2>1. CASE CheckBucket \/ NoPostgres \/ ConnectFails \/ QueryVersion
    BY <2>1 DEF CheckFails, CheckSucceeds
  <2>2. CASE ConfigurePostgres \/ Connect \/ TryFallback
    BY <2>2 DEF ConfigurePostgres, Connect, TryFallback
  <2> QED
    BY <1>2, <2>1, <2>2
<1>3. CASE NoCommand \/ Sleep \/ UnknownCommand \/ Celery
  <2>1. CASE NoCommand
    BY <2>1, OnlyTheLabel
  <2>2. CASE Sleep \/ UnknownCommand \/ Celery
    BY <1>a, <2>2 DEF Sleep, UnknownCommand, Celery
  <2> QED
    BY <1>3, <2>1, <2>2
<1>4. CASE ExitAtStartup \/ ArmTimer \/ StartWeb \/ StartLoad
  BY <1>a, <1>4 DEF ExitAtStartup, ArmTimer, StartWeb, StartLoad
<1>5. CASE ExitTimer \/ Signal
  BY <1>a, <1>5 DEF ExitTimer, Signal
<1>6. CASE Listen \/ ListenFails \/ KillHttp \/ Shutdown \/ AskExit
  BY <1>6 DEF Listen, ListenFails, KillHttp, Shutdown, StoppedWhenClosed, AskExit
<1>7. CASE SetRoot \/ Overflow \/ HoldLog \/ ReleaseLog
  BY <1>7 DEF SetRoot, Overflow, HoldLog, ReleaseLog
<1>8. CASE ExitOnRequest
  BY <1>8 DEF ExitOnRequest, CodeInRange, DefaultExitCode
<1>9. CASE RunLoad \/ LoadPanics \/ AllocPanics
  BY <1>9 DEF RunLoad, LoadPanics, AllocPanics
<1>10. CASE Logs
  BY <1>10 DEF LogExitTimer, LogExitRequest, LogLoad, Log
<1>11. CASE Forever \/ Ended \/ UNCHANGED vars
  BY <1>11 DEF Forever, Ended, vars
<1> QED
  BY <1>1, <1>2, <1>3, <1>4, <1>5, <1>6, <1>7, <1>8, <1>9, <1>10, <1>11 DEF Next

LEMMA Inductive == Spec => []IInv
BY InvInit, InvStep, PTL DEF Spec

-----------------------------------------------------------------------------
(* The connection to PostgreSQL *)

\* The targets a command line gives, in any order.
Dialled(s) == {PostgresTargets(s)[k] : k \in DOMAIN PostgresTargets(s)}

\* pgx makes at least one target, and numbers them.
LEMMA ParsedTargets ==
    ASSUME NEW s \in Settings
    PROVE  \E m \in Nat \ {0} : ParseConfig(s.dsn) = [k \in 1 .. m |-> ParseConfig(s.dsn)[k]]
<1>1. CASE s.dsn = Unset \/ s.dsn.hosts = << >>
  <2>1. ParseConfig(s.dsn) = << [host |-> Socket, port |-> DefaultPort, tls |-> Plain] >>
    BY <1>1 DEF ParseConfig
  <2>2. ParseConfig(s.dsn) = [k \in 1 .. 1 |-> ParseConfig(s.dsn)[k]]
    BY <2>1
  <2> QED
    BY <2>2
<1>2. CASE ~ (s.dsn = Unset \/ s.dsn.hosts = << >>)
  <2>1. s.dsn \in DSNs
    BY <1>2 DEF Settings
  <2>2. Len(s.dsn.hosts) \in Nat \ {0}
    BY <1>2, <2>1 DEF DSNs
  <2>3. Len(Attempts(s.dsn.sslmode, Socket)) \in {1, 2}
    BY <2>1 DEF DSNs, SSLModes, Attempts
  <2> DEFINE m == Len(Attempts(s.dsn.sslmode, Socket)) * Len(s.dsn.hosts)
  <2>4. m \in Nat \ {0}
    <3>1. \A a \in {1, 2}, b \in Nat \ {0} : a * b \in Nat \ {0}
      OBVIOUS
    <3> QED
      BY <2>2, <2>3, <3>1, Zenon
  <2>5. ParseConfig(s.dsn) = [k \in 1 .. m |-> ParseConfig(s.dsn)[k]]
    <3> DEFINE n == Len(Attempts(s.dsn.sslmode, Socket))
               Target(k) == LET h == s.dsn.hosts[((k - 1) \div n) + 1] IN
                            [host |-> h.host, port |-> h.port,
                             tls |-> Attempts(s.dsn.sslmode, h.host)[((k - 1) % n) + 1]]
    <3>1. ParseConfig(s.dsn) = [k \in 1 .. m |-> Target(k)]
      BY <1>2, Zenon DEF ParseConfig
    <3> HIDE DEF Target, m
    <3> QED
      BY <3>1
  <2> QED
    BY <2>4, <2>5
<1> QED
  BY <1>1, <1>2

\* What is dialled first is as the settings say, the rest are the fallbacks.
LEMMA TargetsAsConfigured ==
    ASSUME NEW s \in Settings
    PROVE  /\ PostgresTargets(s) \in Seq(Dialled(s)) /\ Len(PostgresTargets(s)) > 0
           /\ \A t \in Dialled(s) : AsConfigured(t, s) \/ Fallback(t, s)
<1> DEFINE P == ParseConfig(s.dsn)
           T == PostgresTargets(s)
<1>1. PICK m \in Nat \ {0} : P = [k \in 1 .. m |-> P[k]]
  BY ParsedTargets
<1>2. T = [P EXCEPT ![1] = Override(P[1], s)]
  BY DEF PostgresTargets
<1> HIDE DEF P, T
<1>3. DOMAIN P = 1 .. m /\ T = [k \in 1 .. m |-> T[k]] /\ DOMAIN T = 1 .. m
  BY <1>1, <1>2
<1>4. T[1] = Override(P[1], s) /\ \A k \in 2 .. m : T[k] = P[k]
  BY <1>1, <1>2
<1>5. T \in Seq(Dialled(s)) /\ Len(T) = m
  <2>1. \A k \in 1 .. m : T[k] \in Dialled(s)
    BY <1>3 DEF Dialled, T
  <2> QED
    BY <1>3, <2>1
<1>6. Len(P) = m
  BY <1>1, <1>3
<1>7. AsConfigured(Override(P[1], s), s)
  <2> DEFINE t == Override(P[1], s)
  <2>1. t.host = Given(s.host, P[1].host) /\ t.port = Given(s.port, P[1].port)
        /\ t.tls = ApplySSLMode(s.sslmode, t.host, P[1].tls)
    BY DEF Override
  <2> HIDE DEF t
  <2>2. (s.host # Unset => t.host = s.host) /\ (s.port # Unset => t.port = s.port)
    BY <2>1 DEF Given
  <2>3. /\ s.sslmode = "disable" => t.tls = Plain
        /\ s.sslmode = "require" => t.tls = Encrypted(t.host)
        /\ s.sslmode \in {"verify-ca", "verify-full"} => t.tls = Verified(t.host)
    BY <2>1 DEF ApplySSLMode
  <2>4. s.sslmode = "require" => t.tls.kind # "plain"
    BY <2>3 DEF Encrypted
  <2> QED
    BY <2>2, <2>3, <2>4 DEF AsConfigured, t
<1>8. ASSUME NEW t \in Dialled(s) PROVE AsConfigured(t, s) \/ Fallback(t, s)
  <2>1. PICK k \in 1 .. m : t = T[k]
    BY <1>3 DEF Dialled, T
  <2>2. CASE k = 1
    BY <1>4, <1>7, <2>1, <2>2
  <2>3. CASE k # 1
    <3>1. k \in 2 .. Len(P) /\ t = P[k]
      BY <1>4, <1>6, <2>1, <2>3
    <3> QED
      BY <3>1 DEF Fallback, P
  <2> QED
    BY <2>2, <2>3
<1> QED
  BY <1>5, <1>8 DEF T

\* Whatever is left to dial, and the connection, are targets of the command line.
Dials ==
    /\ targets \in Seq(Dialled(flags.postgres))
    /\ pc = "dial" => Len(targets) > 0
    /\ connection # Unset => connection \in Dialled(flags.postgres)

LEMMA DialsInit == Init => Dials
BY DEF Init, Dials

LEMMA DialsStep == FlagSettings /\ PlainTypes /\ Dials /\ [Next]_vars => Dials'
<1> SUFFICES ASSUME FlagSettings, PlainTypes, Dials, [Next]_vars PROVE Dials'
  OBVIOUS
<1>0. flags.postgres \in Settings /\ UNCHANGED flags
  <2>1. flags.postgres \in Settings
    BY FlagTypes DEF FlagSettings
  <2>2. CASE NoCommand
    BY <2>1, <2>2, OnlyTheLabel
  <2>3. CASE Main /\ ~ NoCommand
    BY <2>1, <2>3 DEF RejectFlags, ReadFlags, Settle, PanicOnJitter, CheckFails, CheckSucceeds,
          ConfigurePostgres, Connect, TryFallback, Sleep, UnknownCommand, Celery,
          ExitAtStartup, ArmTimer, StartWeb, StartLoad
  <2>4. CASE Web
    BY <2>1, <2>4 DEF Listen, ListenFails, KillHttp, Shutdown, StoppedWhenClosed, SetRoot,
                      Overflow, AskExit, HoldLog, ReleaseLog
  <2>5. CASE Exits \/ RunLoad \/ Forever \/ Ended \/ UNCHANGED vars
    BY <2>1, <2>5 DEF ExitTimer, ExitOnRequest, LoadPanics, AllocPanics, Signal, RunLoad,
                      Forever, Ended, vars
  <2>6. CASE Logs
    BY <2>1, <2>6 DEF LogExitTimer, LogExitRequest, LogLoad, Log
  <2> QED
    BY <2>2, <2>3, <2>4, <2>5, <2>6 DEF Next
<1>1. CASE ConfigurePostgres
  <2>1. targets' = PostgresTargets(flags.postgres) /\ UNCHANGED connection
    BY <1>1 DEF ConfigurePostgres
  <2> QED
    BY <1>0, <2>1, TargetsAsConfigured DEF Dials
<1>2. CASE Connect
  <2>1. pc = "dial" /\ pc' = "query" /\ connection' = targets[1] /\ UNCHANGED targets
    BY <1>2 DEF Connect
  <2>2. targets[1] \in Dialled(flags.postgres)
    BY <2>1 DEF Dials
  <2> QED
    BY <1>0, <2>1, <2>2 DEF Dials
<1>3. CASE TryFallback
  <2>1. Len(targets) > 1 /\ targets' = Tail(targets) /\ UNCHANGED connection
    BY <1>3 DEF TryFallback
  <2>2. targets' \in Seq(Dialled(flags.postgres)) /\ Len(targets') > 0
    BY <2>1 DEF Dials
  <2> QED
    BY <1>0, <2>1, <2>2 DEF Dials
<1>4. ASSUME UNCHANGED targets, connection' \in {connection, Unset}, pc' = "dial" => pc = "dial"
      PROVE  Dials'
  BY <1>0, <1>4 DEF Dials
<1>5. CASE RejectFlags \/ ReadFlags \/ Settle \/ PanicOnJitter
  BY <1>4, <1>5 DEF RejectFlags, ReadFlags, Settle, PanicOnJitter
<1>6. CASE CheckBucket \/ NoPostgres \/ ConnectFails \/ QueryVersion
  BY <1>4, <1>6 DEF CheckFails, CheckSucceeds
<1>7. CASE NoCommand
  BY <1>4, <1>7, OnlyTheLabel
<1>8. CASE Sleep \/ UnknownCommand \/ Celery \/ ExitAtStartup \/ ArmTimer \/ StartWeb \/ StartLoad
  BY <1>4, <1>8 DEF Sleep, UnknownCommand, Celery, ExitAtStartup, ArmTimer, StartWeb, StartLoad
<1>9. CASE Web
  BY <1>4, <1>9 DEF Listen, ListenFails, KillHttp, Shutdown, StoppedWhenClosed, SetRoot,
                    Overflow, AskExit, HoldLog, ReleaseLog
<1>10. CASE Exits \/ RunLoad \/ Forever \/ Ended \/ UNCHANGED vars
  BY <1>4, <1>10 DEF ExitTimer, ExitOnRequest, LoadPanics, AllocPanics, Signal, RunLoad,
                     Forever, Ended, vars
<1>11. CASE Logs
  BY <1>4, <1>11 DEF LogExitTimer, LogExitRequest, LogLoad, Log
<1> QED
  BY <1>1, <1>2, <1>3, <1>5, <1>6, <1>7, <1>8, <1>9, <1>10, <1>11 DEF Next

\* A connection is to a target as the settings describe it, or to one of the
\* fallbacks of the DSN, for every DSN and every setting.
THEOREM ConnectionsAreConfigured == Spec => []ConnectedAsConfigured
<1>1. Init => FlagSettings /\ PlainTypes /\ Dials
  BY PlainInit, SettingsInit, DialsInit
<1>2. FlagSettings /\ PlainTypes /\ Dials /\ [Next]_vars => (FlagSettings /\ PlainTypes /\ Dials)'
  BY PlainStep, SettingsStep, DialsStep
<1>3. FlagSettings /\ PlainTypes /\ Dials => ConnectedAsConfigured
  <2> SUFFICES ASSUME FlagSettings, Dials PROVE ConnectedAsConfigured
    OBVIOUS
  <2>1. flags.postgres \in Settings
    BY FlagTypes DEF FlagSettings
  <2> QED
    BY <2>1, TargetsAsConfigured DEF Dials, ConnectedAsConfigured
<1> QED
  BY <1>1, <1>2, <1>3, PTL DEF Spec

\* A DSN of which pgx makes one target only: one host at most, and an sslmode
\* that leaves no choice.
OneTarget(dsn) ==
    dsn # Unset => dsn.hosts = << >> \/ (Len(dsn.hosts) = 1 /\ dsn.sslmode \notin {"allow", "prefer"})

\* Then there is nothing to fall back to.
LEMMA NoFallback ==
    ASSUME NEW s \in Settings, OneTarget(s.dsn), NEW t
    PROVE  ~ Fallback(t, s)
<1>1. CASE s.dsn = Unset \/ s.dsn.hosts = << >>
  <2>1. Len(ParseConfig(s.dsn)) = 1
    BY <1>1 DEF ParseConfig
  <2> QED
    BY <2>1 DEF Fallback
<1>2. CASE s.dsn # Unset /\ s.dsn.hosts # << >>
  <2> DEFINE n == Len(Attempts(s.dsn.sslmode, Socket))
             h(k) == s.dsn.hosts[((k - 1) \div n) + 1]
             f == [k \in 1 .. n * Len(s.dsn.hosts) |->
                     [host |-> h(k).host, port |-> h(k).port,
                      tls |-> Attempts(s.dsn.sslmode, h(k).host)[((k - 1) % n) + 1]]]
  <2>1. s.dsn \in DSNs
    BY <1>2 DEF Settings
  <2>2. Len(s.dsn.hosts) = 1 /\ s.dsn.sslmode \in {"disable", "require", "verify-ca", "verify-full"}
    BY <1>2, <2>1 DEF OneTarget, DSNs, SSLModes
  <2>3. n = 1
    BY <2>2 DEF Attempts
  <2>4. ParseConfig(s.dsn) = f
    BY <1>2 DEF ParseConfig
  <2> HIDE DEF n, h
  <2>5. Len(f) = 1
    BY <2>2, <2>3
  <2> HIDE DEF f
  <2> QED
    BY <2>4, <2>5 DEF Fallback
<1> QED
  BY <1>1, <1>2

\* "postgresql host, overrides the dsn" (main.go:402) is true of such a DSN, and
\* so it is for the port and the sslmode (main.go:403-407): what is left of OverridesTheDSN, which the run
\* postgres_override refutes for DSNs with fallbacks.
OverridesOneTarget ==
    connection # Unset /\ OneTarget(flags.postgres.dsn) => AsConfigured(connection, flags.postgres)

\* With a DSN that has one target every setting that is given overrides its part
\* of the DSN, for every host, port and sslmode.
THEOREM OneTargetIsOverridden == Spec => []OverridesOneTarget
<1>1. FlagSettings /\ ConnectedAsConfigured => OverridesOneTarget
  <2> SUFFICES ASSUME FlagSettings, ConnectedAsConfigured PROVE OverridesOneTarget
    OBVIOUS
  <2>1. flags.postgres \in Settings
    BY FlagTypes DEF FlagSettings
  <2> QED
    BY <2>1, NoFallback DEF ConnectedAsConfigured, OverridesOneTarget
<1>2. Spec => []FlagSettings
  <2>1. Init => FlagSettings /\ PlainTypes
    BY PlainInit, SettingsInit
  <2>2. FlagSettings /\ PlainTypes /\ [Next]_vars => (FlagSettings /\ PlainTypes)'
    BY PlainStep, SettingsStep
  <2> QED
    BY <2>1, <2>2, PTL DEF Spec
<1> QED
  BY <1>1, <1>2, ConnectionsAreConfigured, PTL

-----------------------------------------------------------------------------

\* With crash.on.error nothing is served, loaded or armed without the
\* dependency, whichever of the two it is.
THEOREM NothingWithoutDependencies == Spec => []RequiredDependencies
<1>1. IInv => RequiredDependencies
  BY DEF IInv, Progress, Dependable, RequiredDependencies, FatalUnlessReached, Dependencies
<1> QED
  BY <1>1, Inductive, PTL

\* A server that listens ends its process on purpose only, or through a root view
\* that is only a query or a limit of the load that is negative or too large.
THEOREM EndsOnPurpose == Spec => []ServingEndsOnPurpose
<1>1. IInv => ServingEndsOnPurpose
  BY DEF IInv
<1> QED
  BY <1>1, Inductive, PTL

\* A status of 0 was asked for, with a code of 0, unless exit.code has more than
\* eight bits.
THEOREM FailuresAreVisible == Spec => []FailureIsVisible
<1>1. IInv => FailureIsVisible
  BY DEF IInv
<1> QED
  BY <1>1, Inductive, PTL

\* A process that ends through exit.after or sleep has the status exit.code if
\* that is between 0 and 255.
THEOREM FittingCodesAreKept == Spec => []FittingCodeIsKept
<1>1. IInv => FittingCodeIsKept
  BY DEF IInv
<1> QED
  BY <1>1, Inductive, PTL
=============================================================================
