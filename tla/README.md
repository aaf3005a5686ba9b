# Verification of troublemaker

troublemaker is an HTTP server that misbehaves on request, to test what surrounds it: it burns CPU and
holds memory, exits, stops serving, answers slowly. A client (`cmd/troublemaker-client`) sends it requests
at a rate. This directory models its concurrent core in TLA+, checks small instances with TLC and proves
the main results for every value of the constants with TLAPS.

`PROJECT.json` lists components, runs, mutants, theorems, hazards, findings, and for each definition the
lines of the source it stands for.

## Inventory

| component | state | operations | modules |
|---|---|---|---|
| load generator (`load.go`) | `isRunning` (atomic), `cancel`, `steps`, `startTime`, `stepIdx`, `stepStart` under `mu`; per run a context and a memory block | `guard`, `StartSchedule`, `Start*Load`, `runLoadSteps`, `doBusyWork`, `Abort`, the handlers, the status page | `LoadGenerator`, `LoadService` |
| schedules (`load.go`) | none, functions of the limits and, for random and spike loads, of a pseudo random generator | `GenerateRandomSchedule`, `doStart*Load` | `Schedules` |
| log buffer (`logging.go`) | `lines`, `size` behind a `sync.RWMutex` | `Write`, `WriteTo`, the `/logs` handler, log lines of every goroutine | `LogBuffer` |
| logging middleware (`logging.go`) | per request a response writer with `status`, `wroteHeader` | `WriteHeader`, `Write`, the log line of a request | `WebServer` |
| root handler (`main.go`) | the view, behind a `sync.RWMutex` | `/`, `/set-root-handler` | `WebServer` |
| HTTP test handlers (`main.go`) | the server, and per request its response and context | `/status/`, `/slow`, `/nothing`, `/killhttp`, `/cache/`, `/set-headers/` | `WebServer` |
| process lifecycle (`main.go`) | flags, effective settings, the goroutines of exit timer, web server and load, the process itself | flag parsing, dependency checks, subcommands, `/exit/`, `/killhttp`, signals | `Process` |
| postgres settings (`postgres.go`) | a `pgx.ConnConfig` with its fallbacks, the connection | `postgresConfig`, `applySSLMode`, `connectPostgres`, `checkPostgres` | `PostgresConfig`, `Process` |
| bucket connection (`bucket.go`) | none | `bucketConfigured`, `connectBucket`, `checkBucket` | `Process` (calls of the SDK as one answer) |
| status client (`cmd/troublemaker-client`) | per step a context, ticker, `WaitGroup`, counters; a semaphore for all of them | `runStatus`, end of `main` | `StatusClient`, `BoundedClient` |
| slow client (`cmd/troublemaker-client`) | as above, but `WaitGroup` and request context belong to the run | `runSlow` | `SlowClient`, `BoundedClient` |
| information pages (`main.go`, `docs.html`) | none | `/`, `/docs`, `/info` | `WebServer` (as pages that answer) |
| environment information, client plans, deployment | — | files under `/proc` and `/sys`, tables, the chart | not modelled |

How they interact:

- Handlers of the server start loads and answer before the load has been admitted; `main` starts one too,
  after its delay (`load.enable`), and the subcommand `aldryn-celery` starts them in an endless loop. All of
  them meet in `guard`. `Abort` and the status page reach a running load through `mu`.
- `/load/seed/` and the load type `random` execute what `GenerateRandomSchedule` returns. Its panic is
  recovered by net/http in a handler (`SeedLoad` in `WebServer`) and fatal in the goroutine of `main`
  (`LoadPanics` in `Process`).
- Every request passes the handler of the server, the logging middleware and the mux to its page. The page `/`
  may send it through the mux again, to the view that a concurrent `/set-root-handler` changes. `/killhttp`
  answers and has `Shutdown` called a little later, which waits for all requests under way.
- `checkPostgres` hands what `postgresConfig` made of the settings to pgx, which dials the first target and then
  the fallbacks; its outcome and that of `checkBucket` decide whether `main` gets to start anything.
- Every log line of every goroutine goes through `LogBuffer.Write`; `/logs` reads the buffer. The handler of
  `/exit/`, the exit timer and the load log before they go on, so a client of `/logs` can hold them up (`Exit` in
  `LogBuffer`; `HoldLog`, `Log` in `Process`).
- A root view that is only a query makes the server's root handler recurse until the process dies (`Overflow` in
  `WebServer`, with the recursion, and in `Process`, as one of its ends).
- The clients talk to a server over HTTP only; the server's answers are the clients' environment.

What is hard, and where it is covered:

- **Interleaving**: several starters, aborts and status requests against one load; loggers against `/logs`
  requests under the writer preference of the mutex; answers, ticks, deadlines and interrupts in a client;
  requests against changes of the root view and against a shutdown.
- **Order**: the two deferred calls of `guard`; publishing a schedule before resetting its index; freeing
  before allocating; the deferred token and `WaitGroup` calls of a request; overrides after parsing; a status,
  a body and the end of a handler, whichever comes first.
- **Failure and termination**: an abort at any point of a step, a client of `/logs` that stalls or leaves,
  a request that is cut short, a target that refuses and its fallback, a listen that fails, a panic, an exit
  requested while another is under way, a client of `/slow` that stalls.
- **Boundaries**: limits of zero and below, the clipping of phases and steps, a jitter larger than its
  delay or too large for 64 bits, exit codes outside a byte, a full semaphore, a log of size 0.

The full list, each at its line with the properties that cover it, is `hazards` in `PROJECT.json`.

## Modules

### LoadGenerator, LoadService, MCLoadGenerator, LoadGeneratorProofs

A *starter* is a goroutine that calls `guard`. Its `pc` walks through the code: `cas` (the
`CompareAndSwap`), `install` (store `cancel` under `mu`), `announce` (the send on `started` of
`StartSchedule`), `publish`, `head` (loop condition and `select`), `mark`, `free`, `alloc`, then `timer` for
a step without CPU load or the cycle `cycle`, `burn`, `pause` of `doBusyWork`, finally `unwind`, `cleanup`
and `store`, the deferred calls in the order in which Go runs them. A skipped start ends at once, or sends
`false` first if a caller of `StartSchedule` waits (`refused`). One action is one critical section of `mu`,
one atomic operation, one channel operation or a stretch of code that touches local state only. `Abort` is one critical
section.

Abstracted: a schedule is any member of `Plans`; a step keeps its CPU percentage, its memory and whether
its duration ever elapses (the hundred years of `doStartStaticLoad` do not). Times are left out: `Elapse` may
come at any moment of a step. `startTime` and `stepStart` are only printed.

`LoadService` is what the generator promises to its callers: an owner or nobody, memory between 0 and
`MemMax`, a stop, and an end only after a stop and with all memory returned. `LoadGenerator` refines it
(`ServiceSpec`): the owner is the starter between its `CompareAndSwap` and its `Store(0)`, the load is
stopping once its context is cancelled or it is on its way out.

### Schedules, MCSchedules, SchedulesProofs

What the loads are made of. `GenerateRandomSchedule` turn by turn, one action per turn of the outer and of the
inner loop; `doStartSpikeLoad` by pauses and bursts; `doStartSineLoad` sample by sample; and the tables of the
other types row by row. Each draw is a free choice over what `IntN` or `Float64 < 0.5` can give, so the runs and
theorems hold for every seed. The slice of steps is only appended to; the model keeps the last step and the sum
of the durations. A percentage of a limit is computed in `float64` and truncated: `Share` gives the exact value,
and the one below it where the fraction has no exact representation and the product is a whole number, so that
either outcome of the rounding is covered. The sine is any value between 0 and 1, in thousandths.

### LogBuffer, LogBufferProofs

The buffer and Go's `RWMutex`: a `Lock` announces itself (`Announce`), which holds back later readers, then
waits for the readers inside (`Drain`); `Unlock` admits all readers that were held back. `Send` is one
`Fprint` of `WriteTo`, which blocks while its client stalls, with the read lock held. A line is its number
in the order of writing. Exiters stand for the goroutine in the handler of `/exit/`.

The size of the buffer is 0 until `main` sets it (`SetSize`, main.go:482-484), after its own first two lines
("started" and "env", `StartupLines`), which are dropped. Before that only `main` runs. `Window` therefore speaks of
the lines logged since; that the two are lost is a theorem, `StartupLinesAreLost`.

### StatusClient, SlowClient, BoundedClient, StatusClientProofs, SlowClientProofs

The loop over the steps of a plan, its `select` on tick and step context, the semaphore, the requests with
their two deferred calls, and the end of `main`. Requests of a step are interchangeable and counted. The
two modules differ where the code does: the status client gives its requests the context of the step and
waits for them before it prints; the slow client gives them the context of the run, prints at once, keeps
the counters of a step open for its requests and waits at the end of the run, or until an interrupt.
A request of the slow client therefore carries the number of its step.

`BoundedClient` is what both promise: a request starts only below the limit, a tick is skipped only at the limit,
no step begins after an interrupt, and a step ends with nothing under way unless its requests may outlive it
(`Carried`), the client with nothing under way unless it was interrupted as well. `Promise` in the two proof modules
is the refinement mapping: requests under way are those that hold a token (`sending` and `answered`, in the slow
client summed over the steps), the counters are those of the step started last, and the phase is `over` when the
process has exited (status) or `runSlow` has returned (slow).

### Process, PostgresConfig, MCProcess, ProcessProofs

`main` from flag parsing to its endless loop, `EffectiveSettings` with its jitter, the two dependency checks, the
subcommands, and the goroutines that race for the exit status: exit timer, listen, `/killhttp`, `/exit/`, the
load, signals. `End` is `os.Exit`, a panic or a signal, with the eight bits of the status that the kernel keeps.
Which services answer is an input; so is whether the random load can panic, which `Schedules` answers
(`PanicNeedsNegativeLimit`), and whether the memory limit can be allocated (`AllocPanics`). What else a load does
after its start is the subject of `LoadGenerator`. A jitter is computed in 64 bits (`Wrap`): if twice of it is too much,
`Int64N` panics.

The timer, the handler of `/exit/` and the load log a line before they do what they say (`LogExitTimer`,
`LogExitRequest`, `LogLoad`), and that line waits while requests for `/logs` hold the lock of the log
(`held`: `HoldLog`, `ReleaseLog`, which is `LogBuffer` reduced to whether the lock is free). Lines that `main` logs
before the server listens find it free. `SetRoot` and `Overflow` are the root view as far as it can end the process:
whether it is only a query (`bare`).

`PostgresConfig` is the part without state: a DSN names hosts, ports and an sslmode, pgx makes a list of targets
of it (each host with each of the attempts its sslmode stands for), and `postgresConfig` overrides the first. The
check in `Process` dials the list (`Connect`, `TryFallback`, `ConnectFails`) and queries the version. A server has
a certificate for its own host, so a target that verifies another name cannot be connected to (`Accepts`). What
pgx does is modelled from its documentation of `ParseConfig` and `ConnConfig`; the environment variables
`PG*` are taken to be unset and `/tmp` to exist, which makes the socket pgx's default host.

### WebServer, MCWebServer, WebServerProofs

One goroutine per request, from the mux to the return of the middleware. A place is a path reduced to what
decides where it leads: the slashes it has too many, the page, the codes it lists. `Redispatch` is one turn of
`rootHandler.ServeHTTP`, which rewrites the request (`at`) and calls the mux again; `SetRoot` may change the view
between two turns. `resp` is the response writer of the middleware together with the status net/http has sent
(`Sending`, `EndOfHandler`). `/slow` is a loop of `select`, `tick` and a write that blocks while its client stalls;
`/nothing` waits and takes the connection over. `Shutdown` closes the listener, `ShutdownReturns` waits until every
request is done. A view that is only a query makes mux and root handler call each other until the stack is
full: `Overflow`, which may come after any number of turns. It is one of the ends of `Process`.

### Mutants

Some definitions that no action uses stand right before the one they vary: each carries a bug that a change
of the code could plausibly introduce (a dropped test, swapped deferred calls, an index one too far).
Substituting one for the definition it precedes breaks the property that `mutants` of `PROJECT.json` names,
so every property is known to be sensitive to the code it is about.

## Runs

| run | question | bounds |
|---|---|---|
| `load` | one load at a time, which owns its fields and contexts; an abort lets at most one more step begin; cancellations are justified; the refinement of `LoadService`; finite plans end, callers are answered, an abort ends even an endless load | 2 starters, plans of up to two steps that take every branch, one of them endless, `MemMax` 2 |
| `load_abort`, `load_status` | findings, below | as above |
| `schedule` | exact length, no empty step, limits, panics, termination, for every seed | durations around 0, 1, one phase and several; limits of both signs around the floor; all tables as they are |
| `log` | the buffer is the window over the last lines since its size was set, a request sends one such window, everybody who logs or reads gets through | `main`, which stands for any logger later on, and one that exits, 2 readers, sizes 0 to 2, `MaxLines` 6; clients do not stall for ever |
| `log_exit` | finding | `MaxLines` 4, clients may stall for ever |
| `status_client` | steps that do not overlap, complete reports, exit status; every run ends, an interrupted one without any deadline | 2 steps, `MaxTicks` 4, semaphore of 2 |
| `slow_client` | the limit spans steps, counters of a step stay its own, `nil` means drained; every run ends, a silent server holds up no step | 2 steps, `MaxTicks` 3, semaphore of 2 |
| `process` | required dependencies have answered, over a connection as configured; a server ends its process on purpose or by a crash of a named cause; failures do not look like a success; a process that drew to exit ends | flags that interact varied together, the others one at a time; DSNs of up to two hosts; durations of four bits (`Half` 8) |
| `postgres_override` | finding | as above |
| `web` | log lines tell the status that was sent, requests end, the server drains | 2 requests, each for any page, 6 views, 3 lists of codes; a client stalls at most once |
| `web_status` | finding | as above |

Why the bounds suffice. Two starters are needed for a race; a starter that returned starts again, so the number of
loads is not bounded, and the theorems about `LoadGenerator` hold for any number of starters. Two steps per plan show
everything the loop carries from one step to the next (block, index, context). The two startup lines and four more
overflow a buffer of two twice over. Two steps of a client are enough for a request to outlive its own, and more ticks
than tokens for ticks to be skipped. `MaxLines` and `MaxTicks` are bounds in guards, and the theorems about
`LogBuffer`, `StatusClient` and `SlowClient` hold for every value of them. `Process` has one `/exit/` request at a
time: the first that gets through ends the process. Requests of `WebServer` meet in the view and in the shutdown only,
each touches them once, and two show one of them changing what the other is about to read or to wait for; that each
request is made once, and that a client stalls once, are the bounds of that module; its theorems hold for any number
of requests and any set of views.

Deadlock is checked except for `Schedules`, whose functions return, `LogBuffer`, which stops at `MaxLines` or with the
process, and `WebServer`, which stops when all requests have been made. In the clients and in `Process` the end is a
stuttering action of its own (`Ended`), so that every other standstill would be reported; `Forever` is the loop at the
end of `main`.

### Fairness

- Go runs every goroutine that can run: weak fairness of the steps of each goroutine. Time passes: weak
  fairness of `Elapse`, `Deadline` and the exit timer.
- `sync.Mutex` hands itself over to a waiter that starves: strong fairness of `Announce`, only in
  `LogBuffer`. `Send` is strongly fair because its client may stall and resume again and again.
- `FairSpec` of `LogBuffer` adds that a stalled client reads on or leaves; `ServerSpec` does not, and that is
  the specification of `log_exit`.
- The fairness of the clients is only what a property needs. `FairSpec` of `StatusClient` runs the goroutines
  and bounds each answer (`client.Timeout`), but lets no deadline pass: `RunEnds` has that as its premise,
  `InterruptEndsRun` does without. `FairSpec` of `SlowClient` lets deadlines pass but answers may never come:
  `RunEnds` has `RequestsReturn` as its premise, `StepsAreNotHeldUp` does without.
- In `Process` the steps of `main` are fair, its checks too, because both have a timeout. The timer sleeps whatever the
  other goroutines do, but logs before it exits. `LogExitTimer` is strongly fair: a writer gets its turn if the lock
  of the log is free again and again, because one that waits keeps new readers out (`EverybodyReturns` in
  `LogBuffer`). That the lock is free again and again is up to the clients of `/logs`: it is the premise `[]<>~held` of
  `DrawnToExitEnds`, and `log_exit` shows what one client does that stalls for ever. `/exit/` is not fair at all.
- The liveness properties of `LoadGenerator` (a load logs at load.go:117 and 176) and of `WebServer` (its middleware and
  pages log) take log lines to return, which by `LogBuffer` needs clients of `/logs` that read on or leave.
- In `WebServer` a request is served fairly and its context is done at some time (`context.WithTimeout`). `SlowDone`
  is strongly fair: Go selects at random between a tick and a context that is done, so the context is not
  overlooked for ever. A client that stalls reads on or leaves; that is an assumption about the network (a
  TCP connection whose peer is gone is closed in the end), not about the code.
- Nothing is assumed of users: no start, abort, request, interrupt or signal has to come.

## Findings

Each is a run whose property states what the documentation says and which TLC finds violated.

1. `load_abort`: `/load/abort` between the `CompareAndSwap` (load.go:116) and the store of `cancel`
   (load.go:125) answers 409 "No load test running" and the load goes on.
2. `load_status`: between load.go:144 and load.go:167 the status page shows the new schedule with the step
   index of the last load, and so steps as completed that never ran.
3. `log_exit`: a client of `/logs` that stops reading keeps the read lock, the log line of the `/exit/`
   handler waits for it, and the process that should end "immediately" does not. The line of the exit timer
   (main.go:549) waits likewise.
4. `postgres_override`: `postgresConfig` overrides the first target and leaves `cfg.Fallbacks` as the DSN made
   them (postgres.go:56). With a DSN of two hosts, or without an sslmode (pgx's `prefer`), the check may connect
   to the DSN's host although `postgres.host` is given, or without TLS although `postgres.sslmode` is `require`.
   `ConnectedAsConfigured` is what does hold.
5. `web_status`: `/status/103` is accepted (main.go:139) but answers 200, since net/http sends an informational
   code ahead of the response.

More divergences need no run, the models simply say what the code does: `main` sets the size of the log buffer after
it has logged "started" and "env", which are dropped (`SetSize`, theorem `StartupLinesAreLost`), though
bucket.go:17-18 has the env line "exposed via /logs"; `exit.code` 256, "exit code when exiting" (main.go:374), ends
the process with status 0 (`End`; `FailureIsVisible` leaves out the codes that do not fit, theorem
`FittingCodesAreKept`); a sustained phase asks for 30 percent when `load.cpu.max` is lower (`SustainedDraws`;
docs.html:133-135 calls the maximum a limit, and `LimitsKept` has this one exception); `-max-concurrency 0`,
"unlimited" in its help, is a semaphore of 10000 (`SemSize`); the handler of `/exit/` reads the code from the query
alone (`CodeInRange`), where docs.html:183 puts it in the path; with the subcommand `aldryn-celery` `main` never gets
to the exit timer (`Celery`; the help of `exit.after`, main.go:370, has no exception); an sslmode that `applySSLMode`
does not know changes nothing; and a host that is overridden without an sslmode keeps the TLS name of the DSN's host,
which a verifying DSN then fails on (`Override`, `Accepts`).

## Proofs

All theorems are checked by TLAPS for arbitrary constants that satisfy the named assumptions of the
modules. None of the assumptions restricts the code: plans are any sequences of steps, limits any integers,
parties any sets; `Nobody` and `None` are no parties.

- **LoadGeneratorProofs**. Types first (`TypeCorrect`). `IInv` then conjoins `ExclusiveRun`,
  `FieldsOfTheRun`, `ContextOfRun` (which contexts exist where, and that a live one is the stored one),
  `MemoryOfRun` (what is resident is the block of the starter that runs) and `LateSteps` (at most one step was begun
  late, and none is about to be a second one). They need each other: the fields are overwritten by nobody only
  because one starter holds the flag, and the flag is released by its holder only. Exclusion follows the
  owner of the flag, memory the owner's block, and everything else is read off. From it: the safety
  properties of `load`, the action properties (`NoSpuriousRefusal` is one no run checks), and the refinement
  `ImplementsService`. Two theorems say how much of a refuted claim is true. `AbortFindsTheSteps`: an abort is
  answered 409 only before `cancel` is stored, after it is removed, or when the load was cancelled before.
  `StatusIsTrueOnceMarked`: once the first step of a run is marked, the status page calls no step completed that
  did not run; it needs `StepShown`, which says that a run starts with step 0 and when the index left over is gone.
- **SchedulesProofs**: exact length and steps that last, limits, and that only a negative limit panics, for any
  set of lengths and limits. The limits rest on lemmas about the arithmetic: a truncated share or sample
  of a limit, or the whole number below it, does not exceed the limit, whatever its sign.
- **LogBufferProofs**: `IInv` is `LockInv` (who is announced, draining, inside or held back) with `Window`
  and `ReadsOneWindow`: the window only changes where the lock keeps readers out. `StartupLinesAreLost`: no line from
  before `SetSize` is ever in the buffer.
- **StatusClientProofs**: `IInv` is tokens, `WgCountsGoroutines` (the counter of the `WaitGroup` is the number of
  goroutines of the step), `StepsDoNotOverlap`, `Balance` and `TickBalance` (what is counted, under way and
  received) and `ErrorOrigin`. `wg = 0` at the report implies that nothing is under way, which makes the
  report final. `ImplementsPromise` is the refinement of `BoundedClient`, action by action: `StepsDoNotOverlap`
  gives the guard of `NextStep` and `Finish`, `TokensAreRequests` those of `Launch` and `Skip`.
- **SlowClientProofs**: the requests under way are a sum over the steps, a recursive function (`SendingUpTo`).
  What it returns is proved from the least element of a set of numbers (`LeastNumber`, `Induction`: a set with 0
  that is closed under the successor is `Nat`), which takes a set and no operator: that the equation has a solution
  (`SumsExist`), hence `CHOOSE` finds one (`SumDefined`), what one change does to it (`SumChanges`), and that no
  summand exceeds it (`SumBounds`). `IInv` is `Numbers` (types, `TokensAreRequests`, `CountersAddUp`, and
  `WgCountsGoroutines`: the `WaitGroup` counts the tokens and those who returned theirs but are not gone),
  `Endings` (the wait is over only when `wg` is 0, and then nobody can add to it; a request is cut short only by the
  cancellation of the run) and `Beginnings` (nothing is counted for a step that is to come). Without `Endings`,
  `NilMeansDrained` is not inductive: `drained` is read later than it is set. From it: the invariants of
  `slow_client`, the action properties `SkipsAtTheLimit` and `NothingAfterDrain`, which no run checks, and the
  refinement `ImplementsPromise`.
- **WebServerProofs**: `IInv` is types and `Shape`, which says for each label what the response must look like:
  untouched until a handler writes, the fixed response of a stream in the loop of `/slow`, and `Settled` at the end:
  the line has the status of the writer, and what was sent is that or, for an informational status, 200. Lemmas about
  the response writer (`WritingAnswers`, `StreamingGoesOn`, `EndSends`) say what a handler leaves behind. A request
  keeps its URL unless it asked for the root (`RewrittenAtRoot`), so what is drawn at `/status/` is from its list.
  From it: `LogIsTrue`, `StatusIsDrawn` (what is true of the refuted `StatusFromTheList`), and `SentOnce`, an action
  property no run checks: nothing changes a response that was sent or a line that was written.
- **ProcessProofs**: `IInv` is `Progress` (what has been started tells how far `main` has come), `Dependable`
  (a label behind a check implies its outcome), `ServingEndsOnPurpose`, `FailureIsVisible` and `FittingCodeIsKept`
  (an exit code from 0 to 255 is kept). A failing check,
  a bad subcommand or a panic of the jitter happens at a label where no server can have been started. A second
  invariant, `Dials`, keeps what is left to dial among the targets of the command line; a lemma about
  `PostgresTargets`, for every DSN and setting, says that each is as configured or a fallback. `OneTargetIsOverridden`
  is what is true of the refuted `OverridesTheDSN`: a DSN of which pgx makes one target is overridden throughout.

Every invariant and every action property that a passing run checks is a theorem, the refinement of `LoadService`
included. `BoundedClient` has no run of its own: its two refinements are theorems.

Only model-checked: the liveness properties, since fairness and ENABLED are outside TLAPS: `FinitePlanEnds`,
`CallerAnswered`, `ServiceStops`, `Terminates`, `EverybodyReturns`, `RunEnds` of both clients, `InterruptEndsRun`,
`StepsAreNotHeldUp`, `DrawnToExitEnds`, `RequestsEnd` and `ServerDrains`. The findings are counterexamples TLC
gives on their instances.

## Not modelled

- `envinfo.go`, the plans of the client, the chart, what the pages print, headers: formatting, files, tables.
- The calls of the AWS SDK in `connectBucket`, `redactedEnviron` and `SecretString` of `bucket.go`.
- The depth of the recursion of a view that is a bare query: the stack may be full at any turn.
- A listener that fails after it was opened (`Listen`), and signals that cannot be caught (SIGKILL, also by a kernel
  that is out of memory).
- Real time, the amount of CPU burnt, how much memory can be allocated (a flag says that it is too much), integer width
  but for the jitter and the exit status.
- The memory model: `lg.CPUMax` and the like are written before the server starts; the shared fields are
  only touched under `mu`.

## Plan

Done: every component that keeps state or interacts with another is modelled, and every safety property of the
passing runs is proved. What a further step could add:

1. Action properties of `Process` and `LogBuffer`: what a goroutine may never do after another has ended.
2. An abstract specification of what a visitor of the web server may rely on, with `WebServer` as its refinement.
