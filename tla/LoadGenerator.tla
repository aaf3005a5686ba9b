---------------------------- MODULE LoadGenerator ----------------------------
(***************************************************************************)
(* The load generator of troublemaker (load.go): the guard that admits one *)
(* load at a time, the context that aborts it, the schedule that            *)
(* /load/status shows, and the loop that executes a schedule step by step. *)
(*                                                                         *)
(* A starter is one goroutine that calls guard: the goroutine a /load/...   *)
(* handler spawns, the one StartSchedule spawns, or the startup goroutine. *)
(* A starter that returned can be reused for a later call, so the model has *)
(* any number of calls, at most Cardinality(Starters) of them at a time.    *)
(*                                                                         *)
(* Every action is one critical section of lg.mu, one atomic operation on   *)
(* isRunning, one channel operation, or a stretch of code that reads and    *)
(* writes only the goroutine's own variables.                               *)
(***************************************************************************)
EXTENDS Integers, Sequences

CONSTANTS Starters,   \* goroutines that may be inside guard or about to call it
          Plans,      \* the schedules the generators of load.go may build
          MemMax,     \* LoadGenerator.MemMax, in MB
          Nobody      \* the nil CancelFunc

\* A LoadStep. A duration matters only through whether it ever elapses: the
\* step of doStartStaticLoad lasts 100 years, every other step is finite.
\* Negative percentages and sizes behave as 0 (both are only tested for > 0).
Step == [cpu : Nat, mem : 0 .. MemMax, forever : BOOLEAN]

ASSUME LimitAssumption == MemMax \in Nat
ASSUME PlansAssumption == Plans \subseteq Seq(Step)
ASSUME NobodyAssumption == Nobody \notin Starters

VARIABLES
    isRunning,  \* lg.isRunning: 0 or 1
    cancel,     \* lg.cancel: the starter whose context it cancels, or Nobody
    steps,      \* lg.steps: the published schedule, <<>> when nil
    stepIdx,    \* lg.stepIdx: the index the status page calls RUNNING
    pc,         \* where each starter is
    plan,       \* the schedule each starter executes
    ctx,        \* the context of each starter's guard call
    started,    \* the caller of StartSchedule blocked on the channel started
    idx,        \* the loop index i of runLoadSteps
    elapsed,    \* has the duration of the current step elapsed?
    data,       \* size of the block the variable data refers to, 0 when nil
    resident,   \* memory the process holds for load steps
    late,       \* history: steps a starter began after its context was cancelled
    lastAbort   \* the last answer of Abort

shared == <<isRunning, cancel, steps, stepIdx>>
call   == <<plan, started>>
loop   == <<idx, elapsed, late>>
memory == <<data, resident>>
vars   == <<shared, pc, ctx, call, loop, memory, lastAbort>>

Working   == {"timer", "cycle", "burn", "pause"}
InStep    == {"mark", "free", "alloc"} \cup Working
Published == {"head", "unwind", "cleanup"} \cup InStep
Installed == {"announce", "publish"} \cup Published
Guarded   == {"install", "store"} \cup Installed
Labels    == {"idle", "cas", "refused"} \cup Guarded

\* s is between its successful CompareAndSwap and its deferred Store(0).
Holds(s) == pc[s] \in Guarded

\* The step of the schedule that s executes.
CurrentStep(s) == plan[s][idx[s] + 1]

Goto(s, label) == pc' = [pc EXCEPT ![s] = label]

Init ==
    /\ isRunning = 0
    /\ cancel = Nobody
    /\ steps = <<>>
    /\ stepIdx = 0
    /\ pc = [s \in Starters |-> "idle"]
    /\ plan = [s \in Starters |-> <<>>]
    /\ ctx = [s \in Starters |-> "none"]
    /\ started = [s \in Starters |-> "none"]
    /\ idx = [s \in Starters |-> 0]
    /\ elapsed = [s \in Starters |-> FALSE]
    /\ data = [s \in Starters |-> 0]
    /\ resident = 0
    /\ late = [s \in Starters |-> 0]
    /\ lastAbort = "none"

-----------------------------------------------------------------------------
(* Calls: a fresh goroutine starts with fresh variables.                   *)

NewGoroutine(s, p, caller) ==
    /\ pc[s] = "idle"
    /\ Goto(s, "cas")
    /\ plan' = [plan EXCEPT ![s] = p]
    /\ ctx' = [ctx EXCEPT ![s] = "none"]
    /\ started' = [started EXCEPT ![s] = caller]
    /\ idx' = [idx EXCEPT ![s] = 0]
    /\ elapsed' = [elapsed EXCEPT ![s] = FALSE]
    /\ late' = [late EXCEPT ![s] = 0]
    /\ UNCHANGED <<shared, memory, lastAbort>>

\* /load/cpu, /load/mem, ...: the handler answers 200 and spawns the start.
CallStart(s) == \E p \in Plans : NewGoroutine(s, p, "none")

\* StartSchedule: the caller blocks on the channel until it is answered.
CallSchedule(s) == \E p \in Plans : NewGoroutine(s, p, "waiting")

-----------------------------------------------------------------------------
(* guard                                                                   *)

AdmitsAlways == TRUE                            \* mutant: no test
Admits == isRunning = 0

RefusalIsSilent(s) == "idle"                    \* mutant: no answer is sent
AfterRefusal(s) == IF started[s] = "waiting" THEN "refused" ELSE "idle"

\* isRunning.CompareAndSwap(0, 1): one winner, the others are skipped. A
\* skipped StartSchedule goroutine still has to answer its caller.
CompareAndSwap(s) ==
    /\ pc[s] = "cas"
    /\ \/ Admits /\ isRunning' = 1 /\ Goto(s, "install")
       \/ ~ Admits /\ UNCHANGED isRunning /\ Goto(s, AfterRefusal(s))
    /\ UNCHANGED <<cancel, steps, stepIdx, ctx, call, loop, memory, lastAbort>>

\* The goroutine's send meets the caller's receive on the unbuffered channel.
Answer(s, ok) ==
    /\ started[s] = "waiting"
    /\ started' = [started EXCEPT ![s] = ok]
    /\ UNCHANGED <<shared, ctx, plan, loop, memory, lastAbort>>

\* if !ok { started <- false }
Refuse(s) ==
    /\ pc[s] = "refused"
    /\ Answer(s, "false")
    /\ Goto(s, "idle")

\* context.WithCancel, then lg.cancel = cancel under the lock.
Install(s) ==
    /\ pc[s] = "install"
    /\ ctx' = [ctx EXCEPT ![s] = "live"]
    /\ cancel' = s
    /\ Goto(s, IF started[s] = "waiting" THEN "announce" ELSE "publish")
    /\ UNCHANGED <<isRunning, steps, stepIdx, call, loop, memory, lastAbort>>

\* started <- true
Announce(s) ==
    /\ pc[s] = "announce"
    /\ Answer(s, "true")
    /\ Goto(s, "publish")

CancelsNothing == ctx                 \* mutant: cleanup forgets the context
CancelStored == IF cancel # Nobody THEN [ctx EXCEPT ![cancel] = "cancelled"]
                                   ELSE ctx

\* The deferred function of guard, under the lock.
Cleanup(s) ==
    /\ pc[s] = "cleanup"
    /\ ctx' = CancelStored
    /\ cancel' = Nobody
    /\ steps' = <<>>
    /\ Goto(s, "store")
    /\ UNCHANGED <<isRunning, stepIdx, call, loop, memory, lastAbort>>

\* Mutant: the flag survives the run.
ForgetsToStore(s) ==
    /\ pc[s] = "store"
    /\ Goto(s, "idle")
    /\ UNCHANGED <<shared, ctx, call, loop, memory, lastAbort>>

\* The deferred isRunning.Store(0), which runs after Cleanup.
Store(s) ==
    /\ pc[s] = "store"
    /\ isRunning' = 0
    /\ Goto(s, "idle")
    /\ UNCHANGED <<cancel, steps, stepIdx, ctx, call, loop, memory, lastAbort>>

-----------------------------------------------------------------------------
(* runLoadSteps                                                            *)

\* lg.steps = steps; lg.startTime = time.Now(). stepIdx keeps its old value.
Publish(s) ==
    /\ pc[s] = "publish"
    /\ steps' = plan[s]
    /\ Goto(s, "head")
    /\ UNCHANGED <<isRunning, cancel, stepIdx, ctx, call, loop, memory, lastAbort>>

IgnoresContext(s) == idx[s] < Len(plan[s])      \* mutant: no select
RunsPastTheEnd(s) == idx[s] <= Len(plan[s]) /\ ctx[s] # "cancelled"  \* mutant
Continues(s) == idx[s] < Len(plan[s]) /\ ctx[s] # "cancelled"

\* The loop condition, then the select on ctx.Done().
LoopHead(s) ==
    /\ pc[s] = "head"
    /\ Goto(s, IF Continues(s) THEN "mark" ELSE "unwind")
    /\ UNCHANGED <<shared, ctx, call, loop, memory, lastAbort>>

\* lg.stepIdx = i; lg.stepStart = time.Now()
Mark(s) ==
    /\ pc[s] = "mark"
    /\ stepIdx' = idx[s]
    /\ late' = [late EXCEPT ![s] = IF ctx[s] = "cancelled" THEN @ + 1 ELSE @]
    /\ Goto(s, "free")
    /\ UNCHANGED <<isRunning, cancel, steps, ctx, call, idx, elapsed, memory,
                   lastAbort>>

\* data = nil; runtime.GC(); debug.FreeOSMemory()
Release(s) ==
    /\ resident' = resident - data[s]
    /\ data' = [data EXCEPT ![s] = 0]

\* The block of the previous step goes before the next one is allocated.
Free(s) ==
    /\ pc[s] = "free"
    /\ Release(s)
    /\ Goto(s, "alloc")
    /\ UNCHANGED <<shared, ctx, call, loop, lastAbort>>

\* make([]byte, step.MemMB*1024*1024), every page touched, and the work begins.
Alloc(s) ==
    /\ pc[s] = "alloc"
    /\ data' = [data EXCEPT ![s] = CurrentStep(s).mem]
    /\ resident' = resident + CurrentStep(s).mem
    /\ elapsed' = [elapsed EXCEPT ![s] = FALSE]
    /\ Goto(s, IF CurrentStep(s).cpu > 0 THEN "cycle" ELSE "timer")
    /\ UNCHANGED <<shared, ctx, call, idx, late, lastAbort>>

\* The duration of the current step passes.
Elapse(s) ==
    /\ pc[s] \in Working
    /\ ~ elapsed[s]
    /\ ~ CurrentStep(s).forever
    /\ elapsed' = [elapsed EXCEPT ![s] = TRUE]
    /\ UNCHANGED <<shared, pc, ctx, call, idx, late, memory, lastAbort>>

NextStep(s) ==
    /\ idx' = [idx EXCEPT ![s] = @ + 1]
    /\ Goto(s, "head")

\* A step without cpu load: a select between the timer and ctx.Done(). An
\* abort returns from runLoadSteps at once.
Timer(s) ==
    /\ pc[s] = "timer"
    /\ \/ elapsed[s] /\ NextStep(s)
       \/ ctx[s] = "cancelled" /\ Goto(s, "unwind") /\ UNCHANGED idx
    /\ UNCHANGED <<shared, ctx, call, elapsed, late, memory, lastAbort>>

\* Mutant: the block of the last step stays allocated.
UnwindKeepsData(s) ==
    /\ pc[s] = "unwind"
    /\ Goto(s, "cleanup")
    /\ data' = [data EXCEPT ![s] = 0]
    /\ UNCHANGED <<shared, ctx, call, loop, resident, lastAbort>>

\* Mutant: isRunning is released before guard has cleaned up, as it would be
\* if the two deferred calls of guard were swapped.
UnwindReleasesEarly(s) ==
    /\ pc[s] = "unwind"
    /\ isRunning' = 0
    /\ Release(s)
    /\ Goto(s, "cleanup")
    /\ UNCHANGED <<cancel, steps, stepIdx, ctx, call, loop, lastAbort>>

\* The deferred function of runLoadSteps, on a normal end and on an abort.
Unwind(s) ==
    /\ pc[s] = "unwind"
    /\ Release(s)
    /\ Goto(s, "cleanup")
    /\ UNCHANGED <<shared, ctx, call, loop, lastAbort>>

-----------------------------------------------------------------------------
(* doBusyWork: it returns to the loop of runLoadSteps in every case.       *)

OverByDeadline(s) == elapsed[s]                 \* mutant: ctx not looked at
OverByContext(s) == ctx[s] = "cancelled"        \* mutant: end time not looked at
WorkOver(s) == elapsed[s] \/ ctx[s] = "cancelled"

\* for time.Now().Before(endTime) { select { case <-ctx.Done(): return ...
Cycle(s) ==
    /\ pc[s] = "cycle"
    /\ \/ WorkOver(s) /\ NextStep(s)
       \/ ~ WorkOver(s) /\ Goto(s, "burn") /\ UNCHANGED idx
    /\ UNCHANGED <<shared, ctx, call, elapsed, late, memory, lastAbort>>

\* The busy part of a cycle. At 100 percent there is no sleeping part.
Burn(s) ==
    /\ pc[s] = "burn"
    /\ Goto(s, IF CurrentStep(s).cpu < 100 THEN "pause" ELSE "cycle")
    /\ UNCHANGED <<shared, ctx, call, loop, memory, lastAbort>>

\* The sleeping part of a cycle: a select between its timer and ctx.Done().
Pause(s) ==
    /\ pc[s] = "pause"
    /\ \/ Goto(s, "cycle") /\ UNCHANGED idx
       \/ ctx[s] = "cancelled" /\ NextStep(s)
    /\ UNCHANGED <<shared, ctx, call, elapsed, late, memory, lastAbort>>

-----------------------------------------------------------------------------
(* Abort, in one critical section of lg.mu                                 *)

Abort ==
    /\ ctx' = CancelStored
    /\ cancel' = Nobody
    /\ lastAbort' = IF cancel # Nobody THEN "aborted" ELSE "conflict"
    /\ UNCHANGED <<isRunning, steps, stepIdx, pc, call, loop, memory>>

-----------------------------------------------------------------------------

\* What a starter does once it runs, up to its return.
Run(s) ==
    \/ CompareAndSwap(s) \/ Refuse(s) \/ Install(s) \/ Announce(s)
    \/ Publish(s) \/ LoopHead(s) \/ Mark(s) \/ Free(s) \/ Alloc(s)
    \/ Timer(s) \/ Cycle(s) \/ Burn(s) \/ Pause(s)
    \/ Unwind(s) \/ Cleanup(s) \/ Store(s)

Next ==
    \/ \E s \in Starters : CallStart(s) \/ CallSchedule(s) \/ Elapse(s) \/ Run(s)
    \/ Abort

Spec == Init /\ [][Next]_vars

\* The Go scheduler runs every goroutine that can run, and time passes.
Fairness == \A s \in Starters : WF_vars(Run(s)) /\ WF_vars(Elapse(s))

FairSpec == Spec /\ Fairness

-----------------------------------------------------------------------------

TypeOK ==
    /\ isRunning \in {0, 1}
    /\ cancel \in Starters \cup {Nobody}
    /\ steps \in Seq(Step)
    /\ stepIdx \in Nat
    /\ pc \in [Starters -> Labels]
    /\ plan \in [Starters -> Seq(Step)]
    /\ ctx \in [Starters -> {"none", "live", "cancelled"}]
    /\ started \in [Starters -> {"none", "waiting", "true", "false"}]
    /\ idx \in [Starters -> Nat]
    /\ \A s \in Starters : pc[s] \in InStep => idx[s] < Len(plan[s])
    /\ elapsed \in [Starters -> BOOLEAN]
    /\ data \in [Starters -> 0 .. MemMax]
    /\ resident \in Int
    /\ late \in [Starters -> Nat]
    /\ lastAbort \in {"none", "aborted", "conflict"}

-----------------------------------------------------------------------------
(* Safety                                                                  *)

\* isRunning is a lock: at most one starter is between its CompareAndSwap and
\* its Store(0), and the flag says 1 exactly while there is one (load.go:115).
ExclusiveRun ==
    /\ \A s, t \in Starters : Holds(s) /\ Holds(t) => s = t
    /\ isRunning = 1 <=> \E s \in Starters : Holds(s)

\* The fields that guard and runLoadSteps share belong to the run in progress:
\* the late cleanup of one run never takes the cancel function or the schedule
\* of the next, and while a step executes /load/status shows that schedule and
\* that step (load.go:128-136, 143-146, 166-169).
FieldsOfTheRun ==
    /\ cancel # Nobody => pc[cancel] \in Installed
    /\ steps # <<>> => \E s \in Starters : pc[s] \in Published
    /\ \A s \in Starters :
          /\ pc[s] \in Published => steps = plan[s]
          /\ pc[s] \in InStep \ {"mark"} => stepIdx = idx[s]

\* No context outlives its guard call, and while it lives Abort can reach it:
\* the stored cancel function is the one of that context (load.go:120-136).
NoContextLeak ==
    \A s \in Starters : ctx[s] = "live" => pc[s] \in Installed /\ cancel = s

\* All that guard and runLoadSteps share is the run's own: its fields and the
\* context that Abort can reach (load.go:120-136, 143-146, 166-169).
RunOwnsItsState == FieldsOfTheRun /\ NoContextLeak

\* An abort takes effect before the second next step: the select at the head
\* of the loop lets at most one step begin after the cancellation, the one
\* whose select was already passed (load.go:159-164).
AbortLeavesAtMostOneStep == \A s \in Starters : late[s] <= 1

\* The process never holds more than MemMax for load steps, not even between
\* the block of one step and the block of the next (load.go:182-195).
MemoryBound == resident <= MemMax

\* Every path out of a run gives its memory back before the next run can be
\* admitted (load.go:150-156 runs before the deferred calls of guard).
MemoryReturned == isRunning = 0 => resident = 0

\* A start is skipped only while another load holds the generator: no flag
\* survives its run and refuses everybody afterwards (load.go:116-120).
NoSpuriousRefusal ==
    [][\A s \in Starters :
          pc[s] = "cas" /\ pc'[s] \in {"refused", "idle"}
            => \E t \in Starters \ {s} : Holds(t)]_vars

\* A context is cancelled by an answered Abort or by the end of its own run,
\* and an Abort touches no other run than the one that is installed
\* (load.go:63-72, 128-136).
CancelledByAbortOrItsEnd ==
    [][\A s \in Starters :
          ctx[s] = "live" /\ ctx'[s] = "cancelled"
            => \/ lastAbort' = "aborted" /\ cancel = s /\ UNCHANGED pc
               \/ pc[s] = "cleanup"]_vars

\* docs.html:118 says of /load/abort: "Aborts any currently running load
\* test." An abort answers "No load test running" (409) only when no load is
\* running or the one that is has already been told to stop.
AbortFindsTheLoad ==
    [][lastAbort' = "conflict" /\ lastAbort # "conflict"
         => \A s \in Starters : ~ Holds(s) \/ ctx[s] = "cancelled"]_vars

\* What /load/status prints for index i of the published schedule.
StatusOf(i) == IF i < stepIdx THEN "Completed"
               ELSE IF i = stepIdx THEN "RUNNING" ELSE "Pending"

\* docs.html:117 says of /load/status: "Returns current status and full schedule of
\* the active load test." A step that the status page calls Completed has been
\* executed by the run it shows.
CompletedMeansExecuted ==
    \A s \in Starters : pc[s] \in Published \ {"cleanup"} /\ isRunning = 1 =>
        \A i \in 0 .. Len(steps) - 1 : StatusOf(i) = "Completed" => i < idx[s]

-----------------------------------------------------------------------------
(* Liveness. A load logs when it is admitted and with each step (load.go:117, *)
(* 176). That such a line is written in the end is EverybodyReturns of         *)
(* LogBuffer: it takes clients of /logs that read on or leave.                 *)

\* A schedule without a forever step ends by itself.
FinitePlanEnds ==
    \A s \in Starters :
        Holds(s) /\ (\A i \in DOMAIN plan[s] : ~ plan[s][i].forever) ~> ~ Holds(s)

\* The caller of StartSchedule gets its answer: both branches of the goroutine
\* meet the receive on the unbuffered channel (load.go:77-88).
CallerAnswered ==
    \A s \in Starters : started[s] = "waiting" ~> started[s] # "waiting"

-----------------------------------------------------------------------------
(* The service that LoadService promises.                                  *)

\* The starter that holds the generator.
Owner == IF \E s \in Starters : Holds(s) THEN CHOOSE s \in Starters : Holds(s)
                                        ELSE Nobody

\* The run in progress was told to stop, or is on its way out by itself.
Stopping ==
    \E s \in Starters :
        Holds(s) /\ (ctx[s] = "cancelled" \/ pc[s] \in {"unwind", "cleanup", "store"})

Service == INSTANCE LoadService WITH
    owner <- Owner, stopping <- Stopping, memory <- resident

\* The load generator implements LoadService.
ServiceSpec == Service!Spec

\* An abort that found a load stops it, whatever the load is doing: waiting
\* for a timer, burning a whole cycle at 100 percent, or executing the step of
\* doStartStaticLoad that lasts forever. The generator is then free.
ServiceStops == Service!Stops
=============================================================================
