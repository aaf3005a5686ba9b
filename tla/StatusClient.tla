---------------------------- MODULE StatusClient ----------------------------
(***************************************************************************)
(* troublemaker-client status (runStatus and the end of main in             *)
(* cmd/troublemaker-client/main.go): for each step of a plan, a ticker       *)
(* starts one request per tick in a goroutine of its own, as long as the     *)
(* semaphore has room. The requests carry the context of their step; the     *)
(* step ends with its context, waits for its requests and prints its         *)
(* counters. An interrupt cancels the context of all the steps.              *)
(*                                                                         *)
(* The goroutines of a step are interchangeable: the model counts those      *)
(* that wait for their answer and those that have one but have not run       *)
(* each of their two deferred calls.                                         *)
(***************************************************************************)
EXTENDS Integers

CONSTANTS
    Steps,           \* number of steps of the plan
    MaxConcurrency,  \* the flag -max-concurrency
    UnlimitedSize,   \* size of the semaphore when the flag is 0 (10000)
    MaxTicks         \* bound on the ticks of one step

ASSUME StepsAssumption == Steps \in Nat \ {0}
ASSUME SizeAssumption == MaxConcurrency \in Int /\ UnlimitedSize \in Nat \ {0}
ASSUME TicksAssumption == MaxTicks \in Nat

VARIABLES
    usage,      \* what is wrong with the command line: "none" if nothing is
    pc,         \* where the goroutine of runStatus is
    step,       \* steps started
    cancelled,  \* ctx: an interrupt or a SIGTERM has cancelled it
    stepCtx,    \* stepCtx: "live", or the Err() it ended with
    tickC,      \* ticks in tick.C
    sem,        \* tokens in sem
    wg,         \* counter of wg
    sending,    \* goroutines whose client.Do has not returned
    answered,   \* goroutines about to run defer func() { <-sem }()
    leaving,    \* goroutines about to run defer wg.Done()
    count,      \* the counters of the step, and what no counter of it shows
    ticks,      \* history: ticks of the step so far
    err,        \* what runStatus returned
    exit        \* exit status of the process, -1 while it runs

loop     == <<usage, pc, step, stepCtx, tickC, ticks>>
limits   == <<sem, wg>>
requests == <<sending, answered, leaving>>
ended    == <<err, exit>>
vars     == <<loop, cancelled, limits, requests, count, ended>>

SemSize == IF MaxConcurrency <= 0 THEN UnlimitedSize ELSE MaxConcurrency

\* The counters of a step. "launched" and "uncounted" are history: requests
\* started, and requests that ended in a way the code counts nowhere.
Counters == {"success", "fail", "errors", "skipped", "launched", "uncounted"}
Zero == [c \in Counters |-> 0]
Bump(c) == [count EXCEPT ![c] = @ + 1]

Init ==
    /\ usage \in {"none", "arguments", "rate"}
    /\ pc = "head" /\ step = 0
    /\ cancelled = FALSE /\ stepCtx = "DeadlineExceeded" /\ tickC = 0
    /\ sem = 0 /\ wg = 0
    /\ sending = 0 /\ answered = 0 /\ leaving = 0
    /\ count = Zero /\ ticks = 0
    /\ err = "none" /\ exit = -1

Running == exit = -1

-----------------------------------------------------------------------------
(* The goroutine of runStatus. *)

\* No URL or an unknown pattern: an error before the first step.
RejectArguments ==
    /\ pc = "head" /\ step = 0 /\ usage = "arguments"
    /\ pc' = "returned" /\ err' = "Usage"
    /\ UNCHANGED <<usage, step, stepCtx, tickC, ticks, cancelled, limits, requests, count, exit>>

\* A rate that makes the interval of the ticker zero or negative (zero, a
\* negative rate, more than a tick per nanosecond): NewTicker panics.
PanicInNewTicker ==
    /\ pc = "head" /\ usage = "rate" /\ ~ cancelled
    /\ pc' = "exited" /\ exit' = 2
    /\ UNCHANGED <<usage, step, stepCtx, tickC, ticks, cancelled, limits, requests, count, err>>

\* return ctx.Err(): ctx itself has no deadline.
ReturnCtxErr ==
    /\ pc = "head" /\ usage # "arguments" /\ step < Steps /\ cancelled
    /\ pc' = "returned" /\ err' = "Canceled"
    /\ UNCHANGED <<usage, step, stepCtx, tickC, ticks, cancelled, limits, requests, count, exit>>

\* The top of the loop over the steps: a context, a ticker, counters and a
\* WaitGroup of its own for each. The semaphore is the one of all steps.
StartStep ==
    /\ pc = "head" /\ usage = "none" /\ step < Steps /\ ~ cancelled
    /\ pc' = "loop" /\ step' = step + 1
    /\ stepCtx' = "live" /\ tickC' = 0 /\ ticks' = 0
    /\ wg' = 0 /\ count' = Zero
    /\ UNCHANGED <<usage, cancelled, sem, requests, ended>>

RoomForOneMore == sem <= SemSize
HasRoom == sem < SemSize

\* case <-tick.C, with room in the semaphore: a goroutine sends a request.
Launch ==
    /\ pc = "loop" /\ tickC = 1 /\ HasRoom
    /\ tickC' = 0
    /\ sem' = sem + 1 /\ wg' = wg + 1
    /\ sending' = sending + 1
    /\ count' = Bump("launched")
    /\ UNCHANGED <<usage, pc, step, stepCtx, ticks, cancelled, answered, leaving, ended>>

\* ... and without: the tick is counted as skipped.
Skip ==
    /\ pc = "loop" /\ tickC = 1 /\ ~ HasRoom
    /\ tickC' = 0
    /\ count' = Bump("skipped")
    /\ UNCHANGED <<usage, pc, step, stepCtx, ticks, cancelled, limits, requests, ended>>

\* case <-stepCtx.Done(), tick.Stop and stepCancel. The select chooses at
\* random when a tick is there too: a request may start after its deadline.
LeaveStep ==
    /\ pc = "loop" /\ stepCtx # "live"
    /\ pc' = "wait" /\ tickC' = 0
    /\ UNCHANGED <<usage, step, stepCtx, ticks, cancelled, limits, requests, count, ended>>

NoWait == TRUE
Waited == wg = 0

\* wg.Wait returns, the counters of the step are printed.
Report ==
    /\ pc = "wait" /\ Waited
    /\ pc' = "head"
    /\ UNCHANGED <<usage, step, stepCtx, tickC, ticks, cancelled, limits, requests, count, ended>>

ReturnNil ==
    /\ pc = "head" /\ step = Steps
    /\ pc' = "returned" /\ err' = "nil"
    /\ UNCHANGED <<usage, step, stepCtx, tickC, ticks, cancelled, limits, requests, count, exit>>

StatusIgnoringCanceled(e) == IF e = "nil" THEN 0 ELSE 1
StatusOfErr(e) == IF e \in {"nil", "Canceled"} THEN 0 ELSE 1

\* The end of main: an interrupted run is no failure.
Exit ==
    /\ pc = "returned"
    /\ pc' = "exited" /\ exit' = StatusOfErr(err)
    /\ UNCHANGED <<usage, step, stepCtx, tickC, ticks, cancelled, limits, requests, count, err>>

-----------------------------------------------------------------------------
(* The goroutine of a request: sending, answered, leaving, gone.            *)

Answer(c) ==
    /\ Running /\ sending > 0
    /\ sending' = sending - 1 /\ answered' = answered + 1
    /\ count' = Bump(c)
    /\ UNCHANGED <<loop, cancelled, limits, leaving, ended>>

\* A response, with a 2xx status or another, or an error of the transport.
Respond == \E c \in {"success", "fail", "errors"} : Answer(c)

\* The context of the step is done, or the 30 s of client.Timeout are over:
\* both errors are a Canceled or a DeadlineExceeded, which no counter counts.
CutShort == Answer("uncounted")

TokenReturned == sem - 1

\* defer func() { <-sem }()
ReleaseToken ==
    /\ Running /\ answered > 0 /\ sem > 0
    /\ sem' = TokenReturned
    /\ answered' = answered - 1 /\ leaving' = leaving + 1
    /\ UNCHANGED <<loop, cancelled, wg, sending, count, ended>>

DoneForgotten == wg
OneDone == wg - 1

\* defer wg.Done()
WgDone ==
    /\ Running /\ leaving > 0
    /\ wg' = OneDone /\ leaving' = leaving - 1
    /\ UNCHANGED <<loop, cancelled, sem, sending, answered, count, ended>>

-----------------------------------------------------------------------------
(* The runtime and the user. *)

\* tick.C has room for one tick; a tick that finds it full is dropped.
Tick ==
    /\ Running /\ pc = "loop" /\ tickC = 0 /\ ticks < MaxTicks
    /\ tickC' = 1 /\ ticks' = ticks + 1
    /\ UNCHANGED <<usage, pc, step, stepCtx, cancelled, limits, requests, count, ended>>

Deadline ==
    /\ Running /\ stepCtx = "live"
    /\ stepCtx' = "DeadlineExceeded"
    /\ UNCHANGED <<usage, pc, step, tickC, ticks, cancelled, limits, requests, count, ended>>

StepDetached == stepCtx
StepCancelled == IF stepCtx = "live" THEN "Canceled" ELSE stepCtx

\* signal.NotifyContext. The cancellation reaches the context of the step.
Interrupt ==
    /\ Running /\ ~ cancelled
    /\ cancelled' = TRUE
    /\ stepCtx' = StepCancelled
    /\ UNCHANGED <<usage, pc, step, tickC, ticks, limits, requests, count, ended>>

\* The process has ended.
Ended == ~ Running /\ UNCHANGED vars

Run == \/ RejectArguments \/ PanicInNewTicker \/ ReturnCtxErr \/ StartStep
       \/ Launch \/ Skip \/ LeaveStep \/ Report \/ ReturnNil \/ Exit
Request == Respond \/ CutShort \/ ReleaseToken \/ WgDone
Next == Run \/ Request \/ Tick \/ Deadline \/ Interrupt \/ Ended

Spec == Init /\ [][Next]_vars

\* The scheduler runs every goroutine, and the timeout of the client bounds the
\* wait for an answer. No signal need come, nor need the deadline of a step.
FairSpec ==
    /\ Spec
    /\ WF_vars(Run) /\ WF_vars(LeaveStep)
    /\ WF_vars(Respond \/ CutShort) /\ WF_vars(ReleaseToken) /\ WF_vars(WgDone)

-----------------------------------------------------------------------------
(* Properties. *)

TypeOK ==
    /\ usage \in {"none", "arguments", "rate"}
    /\ pc \in {"head", "loop", "wait", "returned", "exited"}
    /\ step \in 0..Steps
    /\ cancelled \in BOOLEAN /\ tickC \in 0..1
    /\ stepCtx \in {"live", "DeadlineExceeded", "Canceled"}
    /\ sem \in 0..SemSize /\ wg \in Nat
    /\ sending \in Nat /\ answered \in Nat /\ leaving \in Nat
    /\ count \in [Counters -> Nat] /\ ticks \in 0..MaxTicks
    /\ err \in {"none", "nil", "Usage", "Canceled"}
    /\ exit \in {-1, 0, 1, 2}

(* The tokens in the semaphore are exactly the requests under way, however   *)
(* they end: none is lost to a request that was cut short, and none is       *)
(* carried over into the next step.                                          *)
TokensAreRequests == sem = sending + answered /\ sending + answered <= SemSize

(* A step begins when every request of the one before has gone, although    *)
(* answers, timeouts, the deadline and an interrupt come in any order: the   *)
(* counters a step prints are final, and no request writes into those of     *)
(* the next step.                                                            *)
StepsDoNotOverlap ==
    pc \in {"head", "returned"} => wg = 0 /\ sending + answered + leaving = 0

(* What the report of a step adds up to: every tick the loop received is a   *)
(* request or a skip, and every request ended in one of the counters or was  *)
(* cut short.                                                                *)
ReportAddsUp ==
    pc = "head" =>
        /\ count["success"] + count["fail"] + count["errors"] + count["uncounted"]
             = count["launched"]
        /\ count["launched"] + count["skipped"] <= ticks
        /\ ticks <= count["launched"] + count["skipped"] + 1

(* The exit status tells a wrong command line from everything that happens   *)
(* to a run: neither an interrupt, at whatever point of a step, nor the      *)
(* deadline of a step, nor a failed request makes the client fail.           *)
OnlyUsageFails == exit \in {1, 2} => usage # "none"

(* Every run ends if deadlines pass: that of each step is noticed, its        *)
(* requests come back and their tokens and the WaitGroup with them.          *)
RunEnds == WF_vars(Deadline) => <>(pc = "exited")

(* An interrupt ends the run even though the deadline of the step may be     *)
(* far off.                                                                  *)
InterruptEndsRun == cancelled ~> pc = "exited"

=============================================================================
