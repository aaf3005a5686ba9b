----------------------------- MODULE LoadService -----------------------------
(***************************************************************************)
(* What the load generator of load.go promises its callers: one load at a  *)
(* time, whose memory stays below a limit and is returned before the load   *)
(* is over, and which an abort ends. LoadGenerator implements it.           *)
(***************************************************************************)
EXTENDS Integers

CONSTANTS Starters,  \* whoever may start a load
          MemMax,    \* the most memory a load holds
          Nobody     \* the owner of an idle generator

VARIABLES owner,     \* the starter whose load is running, or Nobody
          stopping,  \* the running load was told to stop or is ending
          memory     \* what the running load holds

vars == <<owner, stopping, memory>>

Init ==
    /\ owner = Nobody
    /\ stopping = FALSE
    /\ memory = 0

\* A start that is not skipped.
Start(s) ==
    /\ owner = Nobody
    /\ owner' = s
    /\ UNCHANGED <<stopping, memory>>

\* The load takes the memory of its next step, or returns what it holds.
Hold ==
    /\ owner # Nobody
    /\ memory' \in 0 .. MemMax
    /\ UNCHANGED <<owner, stopping>>

\* An abort, or the end of the schedule.
Stop ==
    /\ owner # Nobody
    /\ stopping' = TRUE
    /\ UNCHANGED <<owner, memory>>

\* A load leaves only after it was told to stop and has returned its memory.
Finish ==
    /\ stopping
    /\ memory = 0
    /\ owner' = Nobody
    /\ stopping' = FALSE
    /\ UNCHANGED memory

Next == (\E s \in Starters : Start(s)) \/ Hold \/ Stop \/ Finish

Spec == Init /\ [][Next]_vars

\* A load that is stopping gets out of the way.
Stops == stopping ~> owner = Nobody
=============================================================================
