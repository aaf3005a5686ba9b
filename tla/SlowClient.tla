----------------------------- MODULE SlowClient -----------------------------
(***************************************************************************)
(* troublemaker-client slow (runSlow in cmd/troublemaker-client/main.go).    *)
(* Like the status client it starts a request per tick while a semaphore     *)
(* has room, but its requests carry the context of the whole run and         *)
(* survive the step that started them: a step neither cuts its requests nor  *)
(* waits for them, and they keep their tokens into the next. The end of the  *)
(* run waits for all of them unless it is interrupted.                       *)
(*                                                                         *)
(* The goroutines of one step are interchangeable and are counted; the       *)
(* number of the step says which counters a request writes to.               *)
(***************************************************************************)
EXTENDS Integers

CONSTANTS
    Steps,           \* number of steps of the plan
    MaxConcurrency,  \* the flag -max-concurrency
    UnlimitedSize,   \* size of the semaphore when the flag is 0 (10000)
    MaxTicks         \* bound on the ticks of one step

ASSUME StepsAssumption == Steps \in Nat \ {0}
ASSUME SizeAssumption == MaxConcurrency \in Int /\ UnlimitedSize \in Nat \ {0}
ASSUME TicksAssumption == MaxTicks \in Nat

VARIABLES
    usage,      \* what is wrong with the command line: "none" if nothing is
    pc,         \* where the goroutine of runSlow is
    step,       \* steps started
    cancelled,  \* ctx: an interrupt or a SIGTERM has cancelled it
    stepCtx,    \* stepCtx is not done
    tickC,      \* ticks in tick.C
    ticks,      \* history: ticks of the step so far
    sem,        \* tokens in sem
    wg,         \* counter of wg
    drained,    \* the channel done of the last wait is closed
    sending,    \* by step: goroutines whose client.Do has not returned
    answered,   \* goroutines about to run defer func() { <-sem }()
    leaving,    \* goroutines about to run defer wg.Done()
    count,      \* by step: the counters, and what no counter shows
    err         \* what runSlow returned

loop     == <<usage, pc, step, tickC, ticks>>
requests == <<sending, answered, leaving>>
vars     == <<loop, cancelled, stepCtx, sem, wg, drained, requests, count, err>>

StepIds == 1..Steps
SemSize == IF MaxConcurrency <= 0 THEN UnlimitedSize ELSE MaxConcurrency

\* "launched" and "uncounted" are history: requests started, and requests
\* that ended in the cancellation of ctx, which the code counts nowhere.
Counters == {"completed", "errors", "skipped", "launched", "uncounted"}
Zero == [c \in Counters |-> 0]
Bump(k, c) == [count EXCEPT ![k][c] = @ + 1]

Init ==
    /\ usage \in {"none", "arguments", "rate"}
    /\ pc = "head" /\ step = 0
    /\ cancelled = FALSE /\ stepCtx = FALSE
    /\ tickC = 0 /\ ticks = 0
    /\ sem = 0 /\ wg = 0 /\ drained = FALSE
    /\ sending = [k \in StepIds |-> 0] /\ answered = 0 /\ leaving = 0
    /\ count = [k \in StepIds |-> Zero]
    /\ err = "none"

\* runSlow has returned: the process ends with it, requests and all.
Running == err = "none"

-----------------------------------------------------------------------------
(* The goroutine of runSlow. *)

\* No URL or an unknown pattern: an error before the first step.
RejectArguments ==
    /\ pc = "head" /\ step = 0 /\ usage = "arguments"
    /\ pc' = "returned" /\ err' = "Usage"
    /\ UNCHANGED <<usage, step, tickC, ticks, cancelled, stepCtx, sem, wg, drained, requests, count>>

\* A zero or negative interval: NewTicker panics.
PanicInNewTicker ==
    /\ pc = "head" /\ usage = "rate" /\ ~ cancelled
    /\ pc' = "returned" /\ err' = "panic"
    /\ UNCHANGED <<usage, step, tickC, ticks, cancelled, stepCtx, sem, wg, drained, requests, count>>

\* return ctx.Err(), while requests may still be under way.
ReturnCtxErr ==
    /\ pc = "head" /\ usage # "arguments" /\ step < Steps /\ cancelled
    /\ pc' = "returned" /\ err' = "Canceled"
    /\ UNCHANGED <<usage, step, tickC, ticks, cancelled, stepCtx, sem, wg, drained, requests, count>>

\* A context, a ticker and counters of its own for each step; semaphore and
\* WaitGroup are those of the run.
StartStep ==
    /\ pc = "head" /\ usage = "none" /\ step < Steps /\ ~ cancelled
    /\ pc' = "loop" /\ step' = step + 1
    /\ stepCtx' = TRUE /\ tickC' = 0 /\ ticks' = 0
    /\ UNCHANGED <<usage, cancelled, sem, wg, drained, requests, count, err>>

RoomForOneMore == sem <= SemSize
HasRoom == sem < SemSize

\* case <-tick.C, with room in the semaphore: a goroutine sends a request.
Launch ==
    /\ pc = "loop" /\ tickC = 1 /\ HasRoom
    /\ tickC' = 0
    /\ sem' = sem + 1 /\ wg' = wg + 1
    /\ sending' = [sending EXCEPT ![step] = @ + 1]
    /\ count' = Bump(step, "launched")
    /\ UNCHANGED <<usage, pc, step, ticks, cancelled, stepCtx, drained, answered, leaving, err>>

\* ... and without: the tick is counted as skipped.
Skip ==
    /\ pc = "loop" /\ tickC = 1 /\ ~ HasRoom
    /\ tickC' = 0
    /\ count' = Bump(step, "skipped")
    /\ UNCHANGED <<usage, pc, step, ticks, cancelled, stepCtx, sem, wg, drained, requests, err>>

\* case <-stepCtx.Done(), tick.Stop and stepCancel.
LeaveStep ==
    /\ pc = "loop" /\ ~ stepCtx
    /\ pc' = "report" /\ tickC' = 0
    /\ UNCHANGED <<usage, step, ticks, cancelled, stepCtx, sem, wg, drained, requests, count, err>>

AfterItsRequests == wg = 0
AtOnce == TRUE

\* The line of the step is printed, at once; its requests go on.
Report ==
    /\ pc = "report" /\ AtOnce
    /\ pc' = "head"
    /\ UNCHANGED <<usage, step, tickC, ticks, cancelled, stepCtx, sem, wg, drained, requests, count, err>>

\* After the last step a goroutine waits for wg and closes done.
StartDrain ==
    /\ pc = "head" /\ step = Steps
    /\ pc' = "drain"
    /\ UNCHANGED <<usage, step, tickC, ticks, cancelled, stepCtx, sem, wg, drained, requests, count, err>>

WaitOver == wg = 0

CloseDone ==
    /\ Running /\ pc = "drain" /\ ~ drained /\ WaitOver
    /\ drained' = TRUE
    /\ UNCHANGED <<loop, cancelled, stepCtx, sem, wg, requests, count, err>>

\* select on done and ctx.Done(); nil either way.
ReturnNil ==
    /\ pc = "drain" /\ (drained \/ cancelled)
    /\ pc' = "returned" /\ err' = "nil"
    /\ UNCHANGED <<usage, step, tickC, ticks, cancelled, stepCtx, sem, wg, drained, requests, count>>

-----------------------------------------------------------------------------
(* The goroutine of a request of step k: sending, answered, leaving, gone.   *)

CountersOfTheLoop(k, c) == Bump(step, c)
CountersOfItsStep(k, c) == Bump(k, c)

Answer(k, c) ==
    /\ Running /\ sending[k] > 0
    /\ sending' = [sending EXCEPT ![k] = @ - 1] /\ answered' = answered + 1
    /\ count' = CountersOfItsStep(k, c)
    /\ UNCHANGED <<loop, cancelled, stepCtx, sem, wg, drained, leaving, err>>

\* A response, whatever its status, or an error; the timeout of the client
\* (the duration of the response and 30 s more) is an error too.
Respond == \E k \in StepIds, c \in {"completed", "errors"} : Answer(k, c)

ContextOfTheStep(k) == cancelled \/ k < step \/ ~ stepCtx
ContextOfTheRun(k) == cancelled

\* client.Do returns Canceled: no counter counts it.
CutShort == \E k \in StepIds : ContextOfTheRun(k) /\ Answer(k, "uncounted")

TokenKept == sem
TokenReturned == sem - 1

\* defer func() { <-sem }()
ReleaseToken ==
    /\ Running /\ answered > 0 /\ sem > 0
    /\ sem' = TokenReturned
    /\ answered' = answered - 1 /\ leaving' = leaving + 1
    /\ UNCHANGED <<loop, cancelled, stepCtx, wg, drained, sending, count, err>>

DoneForgotten == wg
OneDone == wg - 1

\* defer wg.Done()
WgDone ==
    /\ Running /\ leaving > 0
    /\ wg' = OneDone /\ leaving' = leaving - 1
    /\ UNCHANGED <<loop, cancelled, stepCtx, sem, drained, sending, answered, count, err>>

-----------------------------------------------------------------------------
(* The runtime and the user. *)

\* tick.C has room for one tick; a tick that finds it full is dropped.
Tick ==
    /\ pc = "loop" /\ tickC = 0 /\ ticks < MaxTicks
    /\ tickC' = 1 /\ ticks' = ticks + 1
    /\ UNCHANGED <<usage, pc, step, cancelled, stepCtx, sem, wg, drained, requests, count, err>>

Deadline ==
    /\ Running /\ stepCtx
    /\ stepCtx' = FALSE
    /\ UNCHANGED <<loop, cancelled, sem, wg, drained, requests, count, err>>

\* signal.NotifyContext. The cancellation reaches the context of the step.
Interrupt ==
    /\ Running /\ ~ cancelled
    /\ cancelled' = TRUE /\ stepCtx' = FALSE
    /\ UNCHANGED <<loop, sem, wg, drained, requests, count, err>>

Ended == ~ Running /\ UNCHANGED vars

Run == \/ RejectArguments \/ PanicInNewTicker \/ ReturnCtxErr \/ StartStep
       \/ Launch \/ Skip \/ LeaveStep \/ Report
       \/ StartDrain \/ ReturnNil
Request == Respond \/ CutShort \/ ReleaseToken \/ WgDone
Next == Run \/ CloseDone \/ Request \/ Tick \/ Deadline \/ Interrupt \/ Ended

Spec == Init /\ [][Next]_vars

\* The scheduler runs the goroutines and the deadline of a step passes, but
\* the server may never answer a request.
FairSpec ==
    /\ Spec
    /\ WF_vars(Run) /\ WF_vars(LeaveStep) /\ WF_vars(CloseDone) /\ WF_vars(Deadline)

\* The timeout of the client bounds the wait for each answer.
RequestsReturn ==
    WF_vars(Respond \/ CutShort) /\ WF_vars(ReleaseToken) /\ WF_vars(WgDone)

-----------------------------------------------------------------------------
(* Properties. *)

TypeOK ==
    /\ usage \in {"none", "arguments", "rate"}
    /\ pc \in {"head", "loop", "report", "drain", "returned"}
    /\ step \in 0..Steps
    /\ cancelled \in BOOLEAN /\ stepCtx \in BOOLEAN /\ tickC \in 0..1
    /\ ticks \in 0..MaxTicks
    /\ sem \in 0..SemSize /\ wg \in Nat /\ drained \in BOOLEAN
    /\ sending \in [StepIds -> Nat] /\ answered \in Nat /\ leaving \in Nat
    /\ count \in [StepIds -> [Counters -> Nat]]
    /\ err \in {"none", "nil", "Canceled", "Usage", "panic"}

\* Requests of the steps 1..k whose client.Do has not returned.
SendingUpTo[k \in 0..Steps] == IF k = 0 THEN 0 ELSE SendingUpTo[k - 1] + sending[k]
InFlight == SendingUpTo[Steps] + answered

(* "Semaphore shared across steps so in-flight requests from one step count  *)
(* against the limit of the next" (main.go:280-281): the tokens are the requests *)
(* under way of all the steps so far, never more than the limit, and no      *)
(* token outlives its request.                                               *)
LimitSpansSteps == sem = InFlight /\ InFlight <= SemSize

(* Nobody writes to the counters of a step but its own requests, and each of *)
(* those once: what is not yet counted is still under way.                   *)
CountersAddUp ==
    \A k \in StepIds :
        count[k]["completed"] + count[k]["errors"] + count[k]["uncounted"] + sending[k]
            = count[k]["launched"]

(* A run that was not interrupted returns when the last request of every     *)
(* step has been answered and counted; "in-flight requests survive step      *)
(* transitions" (main.go:324), none is cut short by the end of its step.     *)
NilMeansDrained ==
    err = "nil" /\ ~ cancelled =>
        InFlight + leaving = 0 /\ wg = 0
        /\ \A k \in StepIds : count[k]["completed"] + count[k]["errors"] = count[k]["launched"]

(* Slow answers hold up no step: with a server that never answers, every     *)
(* step still ends when its time is over and the next begins.                *)
StepsAreNotHeldUp == \A k \in StepIds : step = k ~> (step = k + 1 \/ pc \in {"drain", "returned"})

(* Every run ends, drained or interrupted, if its requests come back.        *)
RunEnds == RequestsReturn => <>(pc = "returned")

=============================================================================
