--------------------------- MODULE MCLoadGenerator ---------------------------
(* Small instances of LoadGenerator for TLC.                               *)
EXTENDS LoadGenerator

\* A finite step with cpu load and memory.
Busy(c, m) == [cpu |-> c, mem |-> m, forever |-> FALSE]

\* A step of doStartMemLoad: memory and no cpu load.
Wait(m) == Busy(0, m)

\* The step of doStartStaticLoad.
Static == [cpu |-> 100, mem |-> MemMax, forever |-> TRUE]

\* One schedule that ends by itself, with a step of each kind, and one that only
\* an abort ends: every branch of runLoadSteps and doBusyWork is taken.
MCPlans == {<<Wait(2), Busy(100, 1), Busy(50, 2)>>, <<Static>>}

=============================================================================
