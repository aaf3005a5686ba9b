---------------------------- MODULE BoundedClient ----------------------------
(***************************************************************************)
(* What both load clients of troublemaker-client promise: never more        *)
(* requests under way than the limit, over all steps; a tick is skipped     *)
(* only when the limit is reached; no step begins after an interrupt; and   *)
(* requests are left behind by their step only if they may outlive it, and  *)
(* by the client only if it was interrupted besides.                        *)
(* StatusClient and SlowClient implement it.                                *)
(***************************************************************************)
EXTENDS Integers

CONSTANTS Limit,    \* the size of the semaphore
          Carried   \* requests may outlive the step that started them

VARIABLES underWay,  \* requests that hold a token of the semaphore
          launched,  \* requests that the current step started
          skipped,   \* ticks that the current step skipped
          phase      \* "running", "interrupted", or "over"

vars == <<underWay, launched, skipped, phase>>

Init ==
    /\ underWay = 0 /\ launched = 0 /\ skipped = 0
    /\ phase = "running"

\* A step begins, with counters of its own.
NextStep ==
    /\ phase = "running"
    /\ Carried \/ underWay = 0
    /\ launched' = 0 /\ skipped' = 0
    /\ UNCHANGED <<underWay, phase>>

\* A tick starts a request,
Launch ==
    /\ phase # "over" /\ underWay < Limit
    /\ underWay' = underWay + 1 /\ launched' = launched + 1
    /\ UNCHANGED <<skipped, phase>>

\* or is skipped.
Skip ==
    /\ phase # "over" /\ underWay = Limit
    /\ skipped' = skipped + 1
    /\ UNCHANGED <<underWay, launched, phase>>

\* A request ends, one way or another.
Return ==
    /\ phase # "over" /\ underWay > 0
    /\ underWay' = underWay - 1
    /\ UNCHANGED <<launched, skipped, phase>>

Interrupt ==
    /\ phase = "running"
    /\ phase' = "interrupted"
    /\ UNCHANGED <<underWay, launched, skipped>>

\* The client leaves: main ends the process, or runSlow returns to it.
Finish ==
    /\ phase # "over"
    /\ underWay = 0 \/ (Carried /\ phase = "interrupted")
    /\ phase' = "over"
    /\ UNCHANGED <<underWay, launched, skipped>>

Next == NextStep \/ Launch \/ Skip \/ Return \/ Interrupt \/ Finish

Spec == Init /\ [][Next]_vars
=============================================================================
