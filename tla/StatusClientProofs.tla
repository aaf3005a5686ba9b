------------------------- MODULE StatusClientProofs -------------------------
(***************************************************************************)
(* Proofs about StatusClient, for every number of steps, every               *)
(* -max-concurrency and every number of ticks.                               *)
(***************************************************************************)
EXTENDS StatusClient, TLAPS

\* The WaitGroup counts the goroutines that have not gone.
WgCountsGoroutines == wg = sending + answered + leaving

\* What is started in a step is counted, cut short or still under way.
Balance ==
  count["success"] + count["fail"] + count["errors"] + count["uncounted"] + sending
    = count["launched"]

\* A tick is in tick.C or became a request or a skip; the one that is in the
\* channel at the end of the step is lost.
TickBalance ==
  /\ count["launched"] + count["skipped"] <= ticks
  /\ ticks <= count["launched"] + count["skipped"] + 1
  /\ pc = "loop" => ticks = count["launched"] + count["skipped"] + tickC

\* Where an error status can come from.
ErrorOrigin ==
  /\ err = "Usage" => usage = "arguments"
  /\ pc = "returned" => err # "none"
  /\ exit = -1 <=> pc # "exited"
  /\ exit \in {1, 2} => usage # "none"

IInv ==
  /\ TypeOK
  /\ TokensAreRequests
  /\ WgCountsGoroutines
  /\ StepsDoNotOverlap
  /\ Balance
  /\ TickBalance
  /\ ErrorOrigin

LEMMA SemSizePositive == SemSize \in Nat \ {0}
  BY SizeAssumption DEF SemSize

LEMMA InitEstablishes == Init => IInv
<1> SUFFICES ASSUME Init
             PROVE  IInv
  OBVIOUS
<1>1. cancelled \in BOOLEAN
  BY Zenon DEF Init
<1>2. /\ usage \in {"none", "arguments", "rate"} /\ pc = "head" /\ step = 0
      /\ stepCtx = "DeadlineExceeded" /\ tickC = 0 /\ sem = 0 /\ wg = 0
      /\ sending = 0 /\ answered = 0 /\ leaving = 0 /\ ticks = 0 /\ err = "none" /\ exit = -1
      /\ count \in [Counters -> Nat] /\ \A c \in Counters : count[c] = 0
  BY DEF Init, Zero
<1> QED
  BY <1>1, <1>2, SemSizePositive, StepsAssumption, TicksAssumption
  DEF IInv, TypeOK, TokensAreRequests, WgCountsGoroutines, StepsDoNotOverlap, Balance,
      TickBalance, ErrorOrigin, Counters

\* A step of one counter adds one to it and leaves the others alone.
LEMMA Bumping ==
  ASSUME count \in [Counters -> Nat], NEW c \in Counters, count' = Bump(c)
  PROVE  /\ count' \in [Counters -> Nat]
         /\ count'[c] = count[c] + 1
         /\ \A d \in Counters : d # c => count'[d] = count[d]
  BY DEF Bump

LEMMA StepPreserves == IInv /\ [Next]_vars => IInv'
<1> SUFFICES ASSUME IInv, [Next]_vars
             PROVE  IInv'
  OBVIOUS
<1> USE SemSizePositive
<1> USE DEF IInv, TypeOK, TokensAreRequests, WgCountsGoroutines, StepsDoNotOverlap, Balance,
            TickBalance, ErrorOrigin
<1>1. CASE RejectArguments
  BY <1>1 DEF RejectArguments, limits, requests
<1>2. CASE PanicInNewTicker
  BY <1>2 DEF PanicInNewTicker, limits, requests
<1>3. CASE ReturnCtxErr
  BY <1>3 DEF ReturnCtxErr, limits, requests
<1>4. CASE StartStep
  <2>1. /\ sending = 0 /\ answered = 0 /\ leaving = 0
    BY <1>4 DEF StartStep
  <2>2. \A c \in Counters : count'[c] = 0
    BY <1>4 DEF StartStep, Zero
  <2>3. count' \in [Counters -> Nat]
    BY <1>4 DEF StartStep, Zero
  <2> QED
    BY <1>4, <2>1, <2>2, <2>3, TicksAssumption, StepsAssumption DEF StartStep, requests, ended, Counters
<1>5. CASE Launch
  <2>1. /\ count' \in [Counters -> Nat]
        /\ count'["launched"] = count["launched"] + 1
        /\ \A d \in Counters : d # "launched" => count'[d] = count[d]
    BY <1>5, Bumping DEF Launch, Counters
  <2> QED
    BY <1>5, <2>1 DEF Launch, HasRoom, ended, Counters
<1>6. CASE Skip
  <2>1. /\ count' \in [Counters -> Nat]
        /\ count'["skipped"] = count["skipped"] + 1
        /\ \A d \in Counters : d # "skipped" => count'[d] = count[d]
    BY <1>6, Bumping DEF Skip, Counters
  <2> QED
    BY <1>6, <2>1 DEF Skip, limits, requests, ended, Counters
<1>7. CASE LeaveStep
  BY <1>7 DEF LeaveStep, limits, requests, ended
<1>8. CASE Report
  BY <1>8 DEF Report, Waited, limits, requests, ended
<1>9. CASE ReturnNil
  BY <1>9 DEF ReturnNil, limits, requests
<1>10. CASE Exit
  BY <1>10 DEF Exit, StatusOfErr, limits, requests
<1>11. ASSUME NEW c \in {"success", "fail", "errors", "uncounted"}, Answer(c)
       PROVE  IInv'
  <2>1. /\ count' \in [Counters -> Nat]
        /\ count'[c] = count[c] + 1
        /\ \A d \in Counters : d # c => count'[d] = count[d]
    BY <1>11, Bumping DEF Answer, Counters
  <2> QED
    BY <1>11, <2>1 DEF Answer, loop, limits, ended, Counters
<1>12. CASE Respond
  BY <1>11, <1>12 DEF Respond
<1>13. CASE CutShort
  BY <1>11, <1>13 DEF CutShort
<1>14. CASE ReleaseToken
  BY <1>14 DEF ReleaseToken, TokenReturned, loop, ended
<1>15. CASE WgDone
  BY <1>15 DEF WgDone, OneDone, loop, ended
<1>16. CASE Tick
  <2>1. /\ pc = "loop" /\ tickC = 0 /\ tickC' = 1
        /\ ticks < MaxTicks /\ ticks' = ticks + 1
        /\ UNCHANGED <<usage, pc, step, stepCtx, sem, wg, sending, answered, leaving>>
        /\ UNCHANGED <<count, err, exit>>
    BY <1>16 DEF Tick, limits, requests, ended
  <2>2. cancelled' = cancelled
    BY <1>16 DEF Tick
  <2>3. ticks' \in 0..MaxTicks /\ tickC' \in 0..1 /\ cancelled' \in BOOLEAN
    BY <2>1, <2>2, TicksAssumption
  <2>4. TickBalance'
    <3>1. count["launched"] \in Nat /\ count["skipped"] \in Nat /\ ticks \in Nat
      BY DEF Counters
    <3> QED
      BY <2>1, <3>1
  <2> QED
    BY <2>1, <2>3, <2>4
<1>17. CASE Deadline
  BY <1>17 DEF Deadline, limits, requests, ended
<1>18. CASE Interrupt
  <2>1. cancelled' \in BOOLEAN
    BY <1>18, Zenon DEF Interrupt
  <2>2. /\ stepCtx' \in {"live", "DeadlineExceeded", "Canceled"}
        /\ UNCHANGED <<usage, pc, step, tickC, ticks, sem, wg, sending, answered, leaving>>
        /\ UNCHANGED <<count, err, exit>>
    BY <1>18 DEF Interrupt, StepCancelled, limits, requests, ended
  <2> QED
    BY <2>1, <2>2
<1>19. CASE UNCHANGED vars
  BY <1>19 DEF vars, loop, limits, requests, ended
<1> QED
  BY <1>1, <1>2, <1>3, <1>4, <1>5, <1>6, <1>7, <1>8, <1>9, <1>10, <1>12, <1>13, <1>14, <1>15,
     <1>16, <1>17, <1>18, <1>19
  DEF Next, Run, Request, Ended

LEMMA Inductive == Spec => []IInv
  BY InitEstablishes, StepPreserves, PTL DEF Spec

(* The types, among them the limit of the semaphore (TypeOK).                *)
THEOREM TypeCorrect == Spec => []TypeOK
<1>1. IInv => TypeOK
  BY DEF IInv
<1> QED
  BY <1>1, Inductive, PTL

(* No token of the semaphore is lost or outlives its request, and no more    *)
(* requests are under way than the limit, for every -max-concurrency.        *)
THEOREM TokensMatch == Spec => []TokensAreRequests
<1>1. IInv => TokensAreRequests
  BY DEF IInv
<1> QED
  BY <1>1, Inductive, PTL

(* No request of a step is left when the next begins or the run returns.     *)
THEOREM NoOverlap == Spec => []StepsDoNotOverlap
<1>1. IInv => StepsDoNotOverlap
  BY DEF IInv
<1> QED
  BY <1>1, Inductive, PTL

(* The report of a step accounts for its ticks and for its requests.         *)
THEOREM ReportIsComplete == Spec => []ReportAddsUp
<1>1. IInv => ReportAddsUp
  BY DEF IInv, TypeOK, StepsDoNotOverlap, Balance, TickBalance, ReportAddsUp, Counters
<1> QED
  BY <1>1, Inductive, PTL

(* Nothing but a wrong command line makes the client fail.                   *)
THEOREM InterruptIsNoFailure == Spec => []OnlyUsageFails
<1>1. IInv => OnlyUsageFails
  BY DEF IInv, ErrorOrigin, OnlyUsageFails
<1> QED
  BY <1>1, Inductive, PTL

-----------------------------------------------------------------------------
(* The promise of BoundedClient. *)

\* No request outlives its step.
Promise == INSTANCE BoundedClient WITH
    Limit <- SemSize, Carried <- FALSE,
    underWay <- sending + answered, launched <- count["launched"], skipped <- count["skipped"],
    phase <- IF exit # -1 THEN "over" ELSE IF cancelled THEN "interrupted" ELSE "running"

UnderWay == sending + answered
Phase == IF exit # -1 THEN "over" ELSE IF cancelled THEN "interrupted" ELSE "running"
View == <<UnderWay, count["launched"], count["skipped"], Phase>>

\* The steps of BoundedClient, in the terms of this client.
LEMMA PromisedSteps ==
    /\ Promise!NextStep <=>
         /\ Phase = "running" /\ UnderWay = 0
         /\ count'["launched"] = 0 /\ count'["skipped"] = 0
         /\ UnderWay' = UnderWay /\ Phase' = Phase
    /\ Promise!Launch <=>
         /\ Phase # "over" /\ UnderWay < SemSize
         /\ UnderWay' = UnderWay + 1 /\ count'["launched"] = count["launched"] + 1
         /\ count'["skipped"] = count["skipped"] /\ Phase' = Phase
    /\ Promise!Skip <=>
         /\ Phase # "over" /\ UnderWay = SemSize
         /\ count'["skipped"] = count["skipped"] + 1
         /\ UnderWay' = UnderWay /\ count'["launched"] = count["launched"] /\ Phase' = Phase
    /\ Promise!Return <=>
         /\ Phase # "over" /\ UnderWay > 0 /\ UnderWay' = UnderWay - 1
         /\ count'["launched"] = count["launched"] /\ count'["skipped"] = count["skipped"]
         /\ Phase' = Phase
    /\ Promise!Interrupt <=>
         /\ Phase = "running" /\ Phase' = "interrupted" /\ UnderWay' = UnderWay
         /\ count'["launched"] = count["launched"] /\ count'["skipped"] = count["skipped"]
    /\ Promise!Finish <=>
         /\ Phase # "over" /\ UnderWay = 0 /\ Phase' = "over" /\ UnderWay' = UnderWay
         /\ count'["launched"] = count["launched"] /\ count'["skipped"] = count["skipped"]
  BY DEF Promise!NextStep, Promise!Launch, Promise!Skip, Promise!Return, Promise!Interrupt, Promise!Finish,
         UnderWay, Phase

\* The phases in terms of the client.
LEMMA Phases ==
    /\ Phase = "running" <=> exit = -1 /\ ~ cancelled
    /\ Phase # "over" <=> exit = -1
    /\ exit' = exit /\ (cancelled' <=> cancelled) => Phase' = Phase
    /\ exit' # -1 => Phase' = "over"
    /\ exit' = -1 /\ cancelled' => Phase' = "interrupted"
  BY DEF Phase

\* Every step of this client is one of BoundedClient, or changes nothing there.
LEMMA PromiseStep ==
    ASSUME IInv, [Next]_vars
    PROVE  Promise!Next \/ View' = View
<1>. USE DEF View, UnderWay
<1>0. /\ TypeOK /\ TokensAreRequests /\ StepsDoNotOverlap /\ ErrorOrigin
      /\ count \in [Counters -> Nat] /\ sending \in Nat /\ answered \in Nat
      /\ sem = UnderWay /\ UnderWay <= SemSize /\ (pc \in {"head", "returned"} => UnderWay = 0)
  BY DEF IInv, TypeOK, TokensAreRequests, StepsDoNotOverlap
<1>1. CASE RejectArguments \/ ReturnCtxErr \/ LeaveStep \/ Report \/ ReturnNil \/ WgDone \/ Tick \/ Deadline
           \/ UNCHANGED vars
  <2>1. UNCHANGED <<sending, answered, count, exit>>
    BY <1>1 DEF RejectArguments, ReturnCtxErr, LeaveStep, Report, ReturnNil, WgDone, Tick, Deadline, vars,
                limits, requests, ended
  <2>2. cancelled' <=> cancelled
    BY <1>1 DEF RejectArguments, ReturnCtxErr, LeaveStep, Report, ReturnNil, WgDone, Tick, Deadline, vars
  <2>. QED BY <2>1, <2>2, Phases
<1>2. CASE StartStep
  <2>1. count'["launched"] = 0 /\ count'["skipped"] = 0
    BY <1>2 DEF StartStep, Zero, Counters
  <2>2. UnderWay' = UnderWay /\ UnderWay = 0 /\ exit' = exit /\ exit = -1
    BY <1>0, <1>2 DEF StartStep, requests, ended, ErrorOrigin
  <2>3. (cancelled' <=> cancelled) /\ ~ cancelled
    BY <1>2 DEF StartStep
  <2>4. Promise!NextStep
    BY <2>1, <2>2, <2>3, Phases, PromisedSteps
  <2>. QED BY <2>4 DEF Promise!Next
<1>3. CASE Launch
  <2>1. /\ count'["launched"] = count["launched"] + 1 /\ count'["skipped"] = count["skipped"]
    BY <1>0, <1>3, Bumping DEF Launch, Counters
  <2>2. UnderWay < SemSize /\ UnderWay' = UnderWay + 1 /\ exit' = exit /\ exit = -1
    BY <1>0, <1>3 DEF Launch, HasRoom, ended, ErrorOrigin
  <2>3. cancelled' <=> cancelled
    BY <1>3 DEF Launch
  <2>4. Promise!Launch
    BY <2>1, <2>2, <2>3, Phases, PromisedSteps
  <2>. QED BY <2>4 DEF Promise!Next
<1>4. CASE Skip
  <2>1. /\ count'["skipped"] = count["skipped"] + 1 /\ count'["launched"] = count["launched"]
    BY <1>0, <1>4, Bumping DEF Skip, Counters
  <2>2. UnderWay = SemSize /\ UnderWay' = UnderWay /\ exit' = exit /\ exit = -1
    BY <1>0, <1>4, SemSizePositive DEF Skip, HasRoom, requests, ended, ErrorOrigin
  <2>3. cancelled' <=> cancelled
    BY <1>4 DEF Skip
  <2>4. Promise!Skip
    BY <2>1, <2>2, <2>3, Phases, PromisedSteps
  <2>. QED BY <2>4 DEF Promise!Next
<1>5. CASE Respond \/ CutShort
  <2>1. PICK c \in Counters \ {"launched", "skipped"} : Answer(c)
    BY <1>5 DEF Respond, CutShort, Counters
  <2>2. count'["skipped"] = count["skipped"] /\ count'["launched"] = count["launched"]
    BY <1>0, <2>1, Bumping DEF Answer, Counters
  <2>3. UnderWay' = UnderWay /\ exit' = exit
    BY <1>0, <2>1 DEF Answer, ended
  <2>4. cancelled' <=> cancelled
    BY <2>1 DEF Answer
  <2>. QED BY <2>2, <2>3, <2>4, Phases
<1>6. CASE ReleaseToken
  <2>1. UnderWay > 0 /\ UnderWay' = UnderWay - 1 /\ count' = count /\ exit' = exit /\ exit = -1
    BY <1>0, <1>6 DEF ReleaseToken, ended, Running
  <2>2. cancelled' <=> cancelled
    BY <1>6 DEF ReleaseToken
  <2>3. Promise!Return
    BY <2>1, <2>2, Phases, PromisedSteps
  <2>. QED BY <2>3 DEF Promise!Next
<1>7. CASE Interrupt
  <2>1. UnderWay' = UnderWay /\ count' = count /\ exit' = exit /\ exit = -1
    BY <1>7 DEF Interrupt, requests, ended, Running
  <2>2. cancelled' /\ ~ cancelled
    BY <1>7 DEF Interrupt
  <2>3. Promise!Interrupt
    BY <2>1, <2>2, Phases, PromisedSteps
  <2>. QED BY <2>3 DEF Promise!Next
<1>8. CASE PanicInNewTicker \/ Exit
  <2>1. UnderWay = 0 /\ UnderWay' = UnderWay /\ count' = count /\ exit = -1 /\ exit' # -1
    BY <1>0, <1>8 DEF PanicInNewTicker, Exit, StatusOfErr, requests, ErrorOrigin
  <2>2. Promise!Finish
    BY <2>1, Phases, PromisedSteps
  <2>. QED BY <2>2 DEF Promise!Next
<1>. QED
  BY <1>1, <1>2, <1>3, <1>4, <1>5, <1>6, <1>7, <1>8 DEF Next, Run, Request, Ended

\* troublemaker-client status implements BoundedClient with requests that do not
\* outlive their step: the limit, the reason of a skipped tick, no step after an
\* interrupt, and nothing left behind by a step or by the process (main.go:161-261).
THEOREM ImplementsPromise == Spec => Promise!Spec
<1>1. Init => Promise!Init
  <2>1. ASSUME Init PROVE /\ sending + answered = 0 /\ count["launched"] = 0 /\ count["skipped"] = 0
                          /\ Phase = "running"
    BY <2>1, Phases DEF Init, Zero, Counters
  <2>. QED BY <2>1 DEF Promise!Init, Phase
<1>2. IInv /\ [Next]_vars => [Promise!Next]_(Promise!vars)
  BY PromiseStep DEF View, UnderWay, Phase, Promise!vars
<1>. QED BY <1>1, <1>2, Inductive, PTL DEF Spec, Promise!Spec

=============================================================================
