------------------------- MODULE LoadGeneratorProofs -------------------------
(***************************************************************************)
(* Proofs about LoadGenerator, for every set of starters, every set of      *)
(* schedules and every memory limit.                                        *)
(***************************************************************************)
EXTENDS LoadGenerator, TLAPS

\* Every action keeps every variable in its type. The step that executes is
\* one of the schedule's, since the loop is entered only below its length.
THEOREM TypeCorrect == Spec => []TypeOK
<1>1. Init => TypeOK
  BY LimitAssumption DEF Init, TypeOK, Labels, InStep, Working
<1>2. TypeOK /\ [Next]_vars => TypeOK'
  <2> SUFFICES ASSUME TypeOK, [Next]_vars
               PROVE  TypeOK'
    OBVIOUS
  <2> USE DEF TypeOK, Goto, shared, call, loop, memory
  <2>1. ASSUME NEW s \in Starters, CallStart(s) \/ CallSchedule(s)
        PROVE  TypeOK'
    <3>1. PICK p \in Plans, c \in {"none", "waiting"} : NewGoroutine(s, p, c)
      BY <2>1 DEF CallStart, CallSchedule
    <3>2. p \in Seq(Step)
      BY PlansAssumption
    <3>3. plan' = [plan EXCEPT ![s] = p] /\ idx' = [idx EXCEPT ![s] = 0]
      BY <3>1 DEF NewGoroutine
    <3>4. plan' \in [Starters -> Seq(Step)] /\ idx' \in [Starters -> Nat]
      BY <3>2, <3>3
    <3>5. pc' \in [Starters -> Labels] /\ pc'[s] = "cas"
      BY <3>1 DEF NewGoroutine, Labels
    <3>6. \A t \in Starters \ {s} :
            pc'[t] = pc[t] /\ idx'[t] = idx[t] /\ plan'[t] = plan[t]
      BY <3>1 DEF NewGoroutine
    <3>7. \A t \in Starters : pc'[t] \in InStep => idx'[t] < Len(plan'[t])
      BY <3>5, <3>6 DEF InStep, Working
    <3>8. started' \in [Starters -> {"none", "waiting", "true", "false"}]
      BY <3>1 DEF NewGoroutine
    <3>9. elapsed' \in [Starters -> BOOLEAN]
      BY <3>1 DEF NewGoroutine
    <3>10. /\ ctx' \in [Starters -> {"none", "live", "cancelled"}]
           /\ late' \in [Starters -> Nat]
           /\ UNCHANGED <<shared, memory, lastAbort>>
      BY <3>1 DEF NewGoroutine
    <3> QED
      BY <3>4, <3>5, <3>7, <3>8, <3>9, <3>10
  <2>2. ASSUME NEW s \in Starters, Elapse(s)
        PROVE  TypeOK'
    BY <2>2 DEF Elapse
  <2>3. ASSUME NEW s \in Starters, CompareAndSwap(s)
        PROVE  TypeOK'
    BY <2>3 DEF CompareAndSwap, AfterRefusal, Labels, Guarded, InStep, Working
  <2>4. ASSUME NEW s \in Starters, Refuse(s)
        PROVE  TypeOK'
    BY <2>4 DEF Refuse, Answer, Labels, InStep, Working
  <2>5. ASSUME NEW s \in Starters, Install(s)
        PROVE  TypeOK'
    BY <2>5 DEF Install, Labels, Guarded, Installed, InStep, Working
  <2>6. ASSUME NEW s \in Starters, Announce(s)
        PROVE  TypeOK'
    BY <2>6 DEF Announce, Answer, Labels, Guarded, Installed, InStep, Working
  <2>7. ASSUME NEW s \in Starters, Publish(s)
        PROVE  TypeOK'
    BY <2>7 DEF Publish, Labels, Guarded, Installed, Published, InStep, Working
  <2>8. ASSUME NEW s \in Starters, LoopHead(s)
        PROVE  TypeOK'
    BY <2>8 DEF LoopHead, Continues, Labels, Guarded, Installed, Published, InStep, Working
  <2>9. ASSUME NEW s \in Starters, Mark(s)
        PROVE  TypeOK'
    BY <2>9 DEF Mark, Labels, Guarded, Installed, Published, InStep, Working
  <2>10. ASSUME NEW s \in Starters, Free(s)
         PROVE  TypeOK'
    <3>1. resident' \in Int /\ data' \in [Starters -> 0 .. MemMax]
      BY <2>10, LimitAssumption DEF Free, Release
    <3>2. UNCHANGED <<shared, ctx, call, loop, lastAbort>>
      BY <2>10 DEF Free
    <3>3. pc[s] = "free" /\ pc' = [pc EXCEPT ![s] = "alloc"]
      BY <2>10 DEF Free
    <3>4. pc' \in [Starters -> Labels]
      BY <3>3 DEF Labels, Guarded, Installed, Published, InStep, Working
    <3>5. \A t \in Starters : pc'[t] \in InStep => idx'[t] < Len(plan'[t])
      BY <3>2, <3>3 DEF InStep, Working
    <3> QED
      BY <3>1, <3>2, <3>4, <3>5
  <2>11. ASSUME NEW s \in Starters, Alloc(s)
         PROVE  TypeOK'
    <3>1. CurrentStep(s) \in Step
      BY <2>11 DEF Alloc, CurrentStep, InStep
    <3>2. CurrentStep(s).mem \in 0 .. MemMax
      BY <3>1 DEF Step
    <3>3. resident' \in Int /\ data' \in [Starters -> 0 .. MemMax]
      BY <2>11, <3>2, LimitAssumption DEF Alloc
    <3> QED
      BY <2>11, <3>3 DEF Alloc, Labels, Guarded, Installed, Published, InStep, Working
  <2>12. ASSUME NEW s \in Starters, Timer(s)
         PROVE  TypeOK'
    <3>1. pc' \in [Starters -> Labels]
      BY <2>12 DEF Timer, NextStep, Labels, Guarded, Installed, Published, InStep, Working
    <3>2. idx' \in [Starters -> Nat]
      <4>1. idx' = idx \/ idx' = [idx EXCEPT ![s] = @ + 1]
        BY <2>12, Zenon DEF Timer, NextStep
      <4>2. CASE idx' = idx
        BY <4>2
      <4>3. CASE idx' = [idx EXCEPT ![s] = @ + 1]
        BY <4>3
      <4> QED
        BY <4>1, <4>2, <4>3
    <3>3. \A t \in Starters : pc'[t] \in InStep => idx'[t] < Len(plan'[t])
      BY <2>12 DEF Timer, NextStep, InStep, Working
    <3> QED
      BY <2>12, <3>1, <3>2, <3>3 DEF Timer
  <2>13. ASSUME NEW s \in Starters, Cycle(s)
         PROVE  TypeOK'
    <3>1. pc' \in [Starters -> Labels]
      BY <2>13 DEF Cycle, NextStep, Labels, Guarded, Installed, Published, InStep, Working
    <3>2. idx' \in [Starters -> Nat]
      <4>1. idx' = idx \/ idx' = [idx EXCEPT ![s] = @ + 1]
        BY <2>13, Zenon DEF Cycle, NextStep
      <4>2. CASE idx' = idx
        BY <4>2
      <4>3. CASE idx' = [idx EXCEPT ![s] = @ + 1]
        BY <4>3
      <4> QED
        BY <4>1, <4>2, <4>3
    <3>3. \A t \in Starters : pc'[t] \in InStep => idx'[t] < Len(plan'[t])
      BY <2>13 DEF Cycle, NextStep, InStep, Working
    <3> QED
      BY <2>13, <3>1, <3>2, <3>3 DEF Cycle
  <2>14. ASSUME NEW s \in Starters, Burn(s)
         PROVE  TypeOK'
    BY <2>14 DEF Burn, Labels, Guarded, Installed, Published, InStep, Working
  <2>15. ASSUME NEW s \in Starters, Pause(s)
         PROVE  TypeOK'
    <3>1. pc' \in [Starters -> Labels]
      BY <2>15 DEF Pause, NextStep, Labels, Guarded, Installed, Published, InStep, Working
    <3>2. idx' \in [Starters -> Nat]
      <4>1. idx' = idx \/ idx' = [idx EXCEPT ![s] = @ + 1]
        BY <2>15, Zenon DEF Pause, NextStep
      <4>2. CASE idx' = idx
        BY <4>2
      <4>3. CASE idx' = [idx EXCEPT ![s] = @ + 1]
        BY <4>3
      <4> QED
        BY <4>1, <4>2, <4>3
    <3>3. \A t \in Starters : pc'[t] \in InStep => idx'[t] < Len(plan'[t])
      BY <2>15 DEF Pause, NextStep, InStep, Working
    <3> QED
      BY <2>15, <3>1, <3>2, <3>3 DEF Pause
  <2>16. ASSUME NEW s \in Starters, Unwind(s)
         PROVE  TypeOK'
    <3>1. data' \in [Starters -> 0 .. MemMax] /\ resident' \in Int
      BY <2>16, LimitAssumption DEF Unwind, Release
    <3> QED
      BY <2>16, <3>1 DEF Unwind, Labels, Guarded, Installed, Published, InStep, Working
  <2>17. ASSUME NEW s \in Starters, Cleanup(s)
         PROVE  TypeOK'
    BY <2>17 DEF Cleanup, CancelStored, Labels, Guarded, InStep, Working
  <2>18. ASSUME NEW s \in Starters, Store(s)
         PROVE  TypeOK'
    BY <2>18 DEF Store, Labels, InStep, Working
  <2>19. CASE Abort
    BY <2>19 DEF Abort, CancelStored
  <2>20. CASE UNCHANGED vars
    BY <2>20 DEF vars
  <2> QED
    BY <2>1, <2>2, <2>3, <2>4, <2>5, <2>6, <2>7, <2>8, <2>9, <2>10, <2>11, <2>12,
       <2>13, <2>14, <2>15, <2>16, <2>17, <2>18, <2>19, <2>20 DEF Next, Run
<1>3. QED
  BY <1>1, <1>2, PTL DEF Spec

-----------------------------------------------------------------------------
(* The inductive invariant. ExclusiveRun alone is inductive; the others add *)
(* what a run knows of the shared fields while it holds the generator.      *)

\* The stored cancel function and the live context are the same run's.
ContextOfRun ==
    /\ NoContextLeak
    /\ cancel # Nobody => ctx[cancel] = "live"
    /\ \A s \in Starters : /\ pc[s] \in {"cas", "install"} => ctx[s] # "cancelled"
                           /\ pc[s] \in Installed => ctx[s] # "none"

\* Only the run in progress holds memory, and only while it executes steps.
MemoryOfRun ==
    /\ \A s \in Starters :
          /\ pc[s] \notin Published \/ pc[s] \in {"alloc", "cleanup"} => data[s] = 0
          /\ Holds(s) => resident = data[s]
    /\ isRunning = 0 => resident = 0

\* A run that is about to begin a step has begun none since its cancellation,
\* nor has one that is not cancelled or has no context yet.
LateSteps ==
    \A s \in Starters :
        /\ late[s] <= 1
        /\ ctx[s] # "cancelled" \/ pc[s] \in {"cas", "install", "mark"} => late[s] = 0

IInv == ExclusiveRun /\ FieldsOfTheRun /\ ContextOfRun /\ MemoryOfRun /\ LateSteps

\* Executing a step, with or without cpu load, only moves the starter within
\* the step, back to the head of the loop, or out of it.
LEMMA WorkMoves ==
  ASSUME TypeOK, NEW s \in Starters,
         Timer(s) \/ Cycle(s) \/ Burn(s) \/ Pause(s)
  PROVE  /\ pc[s] \in Working
         /\ UNCHANGED <<shared, ctx, plan, late, memory>>
         /\ \A t \in Starters \ {s} : idx'[t] = idx[t]
         /\ \E l \in Working \cup {"head", "unwind"} :
               Goto(s, l) /\ (l \in Working => UNCHANGED idx)
<1>1. CASE Timer(s)
  <2>1. pc[s] \in Working /\ UNCHANGED <<shared, ctx, plan, late, memory>>
    BY <1>1 DEF Timer, Working, call
  <2>2. NextStep(s) \/ (Goto(s, "unwind") /\ UNCHANGED idx)
    BY <1>1, Zenon DEF Timer
  <2>3. CASE NextStep(s)
    <3>1. \A t \in Starters \ {s} : idx'[t] = idx[t]
      BY <2>3 DEF NextStep, TypeOK
    <3> QED
      BY <2>1, <2>3, <3>1 DEF NextStep, Working
  <2>4. CASE Goto(s, "unwind") /\ UNCHANGED idx
    BY <2>1, <2>4 DEF Working
  <2> QED
    BY <2>2, <2>3, <2>4
<1>2. CASE Cycle(s)
  <2>1. pc[s] \in Working /\ UNCHANGED <<shared, ctx, plan, late, memory>>
    BY <1>2 DEF Cycle, Working, call
  <2>2. NextStep(s) \/ (Goto(s, "burn") /\ UNCHANGED idx)
    BY <1>2, Zenon DEF Cycle
  <2>3. CASE NextStep(s)
    <3>1. \A t \in Starters \ {s} : idx'[t] = idx[t]
      BY <2>3 DEF NextStep, TypeOK
    <3> QED
      BY <2>1, <2>3, <3>1 DEF NextStep, Working
  <2>4. CASE Goto(s, "burn") /\ UNCHANGED idx
    BY <2>1, <2>4 DEF Working
  <2> QED
    BY <2>2, <2>3, <2>4
<1>3. CASE Burn(s)
  BY <1>3 DEF Burn, Working, call, loop
<1>4. CASE Pause(s)
  <2>1. pc[s] \in Working /\ UNCHANGED <<shared, ctx, plan, late, memory>>
    BY <1>4 DEF Pause, Working, call
  <2>2. NextStep(s) \/ (Goto(s, "cycle") /\ UNCHANGED idx)
    BY <1>4, Zenon DEF Pause
  <2>3. CASE NextStep(s)
    <3>1. \A t \in Starters \ {s} : idx'[t] = idx[t]
      BY <2>3 DEF NextStep, TypeOK
    <3> QED
      BY <2>1, <2>3, <3>1 DEF NextStep, Working
  <2>4. CASE Goto(s, "cycle") /\ UNCHANGED idx
    BY <2>1, <2>4 DEF Working
  <2> QED
    BY <2>2, <2>3, <2>4
<1> QED
  BY <1>1, <1>2, <1>3, <1>4

\* A step of the system, by what it does to control.
LEMMA ExclusiveStep == TypeOK /\ ExclusiveRun /\ [Next]_vars => ExclusiveRun'
<1> SUFFICES ASSUME TypeOK, ExclusiveRun, [Next]_vars
             PROVE  ExclusiveRun'
  OBVIOUS
<1> USE DEF ExclusiveRun, Holds, Goto, shared, Guarded, Installed, Published, InStep, Working
<1>0. pc \in [Starters -> Labels] /\ isRunning \in {0, 1}
  BY DEF TypeOK
<1>1. ASSUME NEW s \in Starters, CallStart(s) \/ CallSchedule(s)
      PROVE  ExclusiveRun'
  <2>1. pc[s] = "idle" /\ pc' = [pc EXCEPT ![s] = "cas"] /\ UNCHANGED isRunning
    BY <1>1 DEF CallStart, CallSchedule, NewGoroutine
  <2> QED
    BY <1>0, <2>1
<1>2. ASSUME NEW s \in Starters, CompareAndSwap(s)
      PROVE  ExclusiveRun'
  <2>1. CASE isRunning = 0
    <3>1. isRunning' = 1 /\ pc' = [pc EXCEPT ![s] = "install"]
      BY <1>2, <2>1 DEF CompareAndSwap, Admits
    <3> QED
      BY <1>0, <2>1, <3>1
  <2>2. CASE isRunning # 0
    <3>1. /\ pc[s] = "cas" /\ UNCHANGED isRunning
          /\ \E l \in {"refused", "idle"} : pc' = [pc EXCEPT ![s] = l]
      BY <1>2, <2>2 DEF CompareAndSwap, Admits, AfterRefusal
    <3> QED
      BY <1>0, <3>1
  <2> QED
    BY <2>1, <2>2
<1>3. ASSUME NEW s \in Starters, Refuse(s)
      PROVE  ExclusiveRun'
  BY <1>0, <1>3 DEF Refuse, Answer
<1>4. ASSUME NEW s \in Starters, Store(s)
      PROVE  ExclusiveRun'
  BY <1>0, <1>4 DEF Store
<1>5. ASSUME NEW s \in Starters,
             \/ Install(s) \/ Announce(s) \/ Publish(s) \/ LoopHead(s) \/ Mark(s)
             \/ Free(s) \/ Alloc(s) \/ Unwind(s) \/ Cleanup(s)
      PROVE  ExclusiveRun'
  <2>1. /\ pc[s] \in Guarded /\ UNCHANGED isRunning
        /\ \E l \in Guarded : pc' = [pc EXCEPT ![s] = l]
    BY <1>5 DEF Install, Announce, Answer, Publish, LoopHead, Mark, Free, Alloc,
                Unwind, Cleanup
  <2> QED
    BY <1>0, <2>1
<1>6. ASSUME NEW s \in Starters, Timer(s) \/ Cycle(s) \/ Burn(s) \/ Pause(s)
      PROVE  ExclusiveRun'
  <2>1. /\ pc[s] \in Working /\ UNCHANGED isRunning
        /\ \E l \in Guarded : pc' = [pc EXCEPT ![s] = l]
    BY <1>6, WorkMoves
  <2> QED
    BY <1>0, <2>1
<1>7. CASE Abort \/ (\E s \in Starters : Elapse(s)) \/ UNCHANGED vars
  BY <1>7 DEF Abort, Elapse, vars
<1> QED
  BY <1>1, <1>2, <1>3, <1>4, <1>5, <1>6, <1>7 DEF Next, Run

\* The shared fields stay those of the run in progress.
LEMMA FieldsStep == TypeOK /\ IInv /\ [Next]_vars => FieldsOfTheRun'
<1> SUFFICES ASSUME TypeOK, IInv, [Next]_vars
             PROVE  FieldsOfTheRun'
  OBVIOUS
<1> USE DEF FieldsOfTheRun, Goto, shared, call, loop, Guarded, Installed, Published,
            InStep, Working
<1>0. /\ pc \in [Starters -> Labels] /\ cancel \in Starters \cup {Nobody}
      /\ idx \in [Starters -> Nat] /\ plan \in [Starters -> Seq(Step)]
      /\ Nobody \notin Starters
  BY NobodyAssumption DEF TypeOK
<1>1. FieldsOfTheRun
  BY DEF IInv
<1>2. ASSUME NEW s \in Starters, pc[s] \in Guarded
      PROVE  \A t \in Starters \ {s} : pc[t] \notin Guarded
  BY <1>2 DEF IInv, ExclusiveRun, Holds
<1>3. ASSUME NEW s \in Starters, CallStart(s) \/ CallSchedule(s)
      PROVE  FieldsOfTheRun'
  <2>1. PICK p \in Plans : NewGoroutine(s, p, "none") \/ NewGoroutine(s, p, "waiting")
    BY <1>3 DEF CallStart, CallSchedule
  <2>2. /\ pc[s] = "idle" /\ pc' = [pc EXCEPT ![s] = "cas"]
        /\ plan' = [plan EXCEPT ![s] = p] /\ idx' = [idx EXCEPT ![s] = 0]
        /\ UNCHANGED <<cancel, steps, stepIdx>>
    BY <2>1 DEF NewGoroutine
  <2> QED
    BY <1>0, <1>1, <2>2
<1>4. ASSUME NEW s \in Starters, CompareAndSwap(s) \/ Refuse(s)
      PROVE  FieldsOfTheRun'
  <2>1. /\ pc[s] \in {"cas", "refused"} /\ UNCHANGED <<cancel, steps, stepIdx, plan, idx>>
        /\ \E l \in {"install", "refused", "idle"} : pc' = [pc EXCEPT ![s] = l]
    BY <1>4 DEF CompareAndSwap, Refuse, Answer, AfterRefusal
  <2> QED
    BY <1>0, <1>1, <2>1
<1>5. ASSUME NEW s \in Starters, Install(s) \/ Announce(s)
      PROVE  FieldsOfTheRun'
  <2>1. /\ pc[s] \in {"install", "announce"} /\ UNCHANGED <<steps, stepIdx, plan, idx>>
        /\ cancel' \in {s, cancel}
        /\ \E l \in {"announce", "publish"} : pc' = [pc EXCEPT ![s] = l]
    BY <1>5 DEF Install, Announce, Answer
  <2> QED
    BY <1>0, <1>1, <2>1
<1>6. ASSUME NEW s \in Starters, Publish(s)
      PROVE  FieldsOfTheRun'
  BY <1>0, <1>1, <1>2, <1>6 DEF Publish
<1>7. ASSUME NEW s \in Starters, Mark(s)
      PROVE  FieldsOfTheRun'
  <2>1. /\ pc[s] = "mark" /\ stepIdx' = idx[s] /\ pc' = [pc EXCEPT ![s] = "free"]
        /\ UNCHANGED <<cancel, steps, plan, idx>>
    BY <1>7 DEF Mark
  <2> QED
    BY <1>0, <1>1, <1>2, <2>1
<1>8. ASSUME NEW s \in Starters, LoopHead(s) \/ Free(s) \/ Alloc(s) \/ Unwind(s)
      PROVE  FieldsOfTheRun'
  <2>1. /\ UNCHANGED <<cancel, steps, stepIdx, plan, idx>>
        /\ \/ pc[s] \in {"free", "alloc"} /\ \E l \in InStep \ {"mark"} :
                 pc' = [pc EXCEPT ![s] = l]
           \/ pc[s] \in {"head", "unwind"} /\ \E l \in {"mark", "unwind", "cleanup"} :
                 pc' = [pc EXCEPT ![s] = l]
    BY <1>8 DEF LoopHead, Free, Alloc, Unwind
  <2> QED
    BY <1>0, <1>1, <2>1
<1>9. ASSUME NEW s \in Starters, Timer(s) \/ Cycle(s) \/ Burn(s) \/ Pause(s)
      PROVE  FieldsOfTheRun'
  <2>1. /\ pc[s] \in Working /\ UNCHANGED <<cancel, steps, stepIdx, plan>>
        /\ \A t \in Starters \ {s} : idx'[t] = idx[t]
    BY <1>9, WorkMoves
  <2>2. PICK l \in Working \cup {"head", "unwind"} :
          Goto(s, l) /\ (l \in Working => UNCHANGED idx)
    BY <1>9, WorkMoves
  <2> QED
    BY <1>0, <1>1, <2>1, <2>2
<1>10. ASSUME NEW s \in Starters, Cleanup(s)
       PROVE  FieldsOfTheRun'
  BY <1>0, <1>1, <1>2, <1>10 DEF Cleanup
<1>11. ASSUME NEW s \in Starters, Store(s)
       PROVE  FieldsOfTheRun'
  BY <1>0, <1>1, <1>11 DEF Store
<1>12. CASE Abort \/ (\E s \in Starters : Elapse(s)) \/ UNCHANGED vars
  BY <1>0, <1>1, <1>12 DEF Abort, Elapse, vars
<1> QED
  BY <1>3, <1>4, <1>5, <1>6, <1>7, <1>8, <1>9, <1>10, <1>11, <1>12 DEF Next, Run

\* Contexts and the stored cancel function stay in correspondence.
LEMMA ContextStep == TypeOK /\ IInv /\ [Next]_vars => ContextOfRun'
<1> SUFFICES ASSUME TypeOK, IInv, [Next]_vars
             PROVE  ContextOfRun'
  OBVIOUS
<1> USE DEF ContextOfRun, NoContextLeak, Goto, shared, call, Guarded, Installed,
            Published, InStep, Working
<1>0. /\ pc \in [Starters -> Labels] /\ cancel \in Starters \cup {Nobody}
      /\ ctx \in [Starters -> {"none", "live", "cancelled"}]
      /\ Nobody \notin Starters
  BY NobodyAssumption DEF TypeOK
<1>1. ContextOfRun /\ (cancel # Nobody => pc[cancel] \in Installed)
  BY DEF IInv, FieldsOfTheRun
<1>2. ASSUME NEW s \in Starters, pc[s] \in Guarded
      PROVE  \A t \in Starters \ {s} : pc[t] \notin Guarded
  BY <1>2 DEF IInv, ExclusiveRun, Holds
<1>3. ASSUME NEW s \in Starters, CallStart(s) \/ CallSchedule(s)
      PROVE  ContextOfRun'
  <2>1. /\ pc[s] = "idle" /\ pc' = [pc EXCEPT ![s] = "cas"]
        /\ ctx' = [ctx EXCEPT ![s] = "none"] /\ UNCHANGED cancel
    BY <1>3 DEF CallStart, CallSchedule, NewGoroutine
  <2> QED
    BY <1>0, <1>1, <2>1
<1>4. ASSUME NEW s \in Starters, Install(s)
      PROVE  ContextOfRun'
  <2>1. /\ pc[s] = "install" /\ ctx' = [ctx EXCEPT ![s] = "live"] /\ cancel' = s
        /\ \E l \in {"announce", "publish"} : pc' = [pc EXCEPT ![s] = l]
    BY <1>4 DEF Install
  <2> QED
    BY <1>0, <1>1, <1>2, <2>1
<1>5. ASSUME NEW s \in Starters, CompareAndSwap(s) \/ Refuse(s) \/ Store(s)
      PROVE  ContextOfRun'
  <2>1. /\ pc[s] \in {"cas", "refused", "store"} /\ UNCHANGED <<cancel, ctx>>
        /\ \/ pc[s] = "cas" /\ pc' = [pc EXCEPT ![s] = "install"]
           \/ \E l \in {"refused", "idle"} : pc' = [pc EXCEPT ![s] = l]
    BY <1>5 DEF CompareAndSwap, Refuse, Answer, AfterRefusal, Store
  <2> QED
    BY <1>0, <1>1, <2>1
<1>6. ASSUME NEW s \in Starters,
             \/ Announce(s) \/ Publish(s) \/ LoopHead(s) \/ Mark(s) \/ Free(s)
             \/ Alloc(s) \/ Unwind(s)
      PROVE  ContextOfRun'
  <2>1. /\ pc[s] \in Installed /\ UNCHANGED <<cancel, ctx>>
        /\ \E l \in Installed : pc' = [pc EXCEPT ![s] = l]
    BY <1>6 DEF Announce, Answer, Publish, LoopHead, Mark, Free, Alloc, Unwind
  <2> QED
    BY <1>0, <1>1, <2>1
<1>7. ASSUME NEW s \in Starters, Timer(s) \/ Cycle(s) \/ Burn(s) \/ Pause(s)
      PROVE  ContextOfRun'
  <2>1. /\ pc[s] \in Working /\ UNCHANGED <<cancel, ctx>>
        /\ \E l \in Installed : pc' = [pc EXCEPT ![s] = l]
    BY <1>7, WorkMoves
  <2> QED
    BY <1>0, <1>1, <2>1
<1>8. ASSUME NEW s \in Starters, Cleanup(s)
      PROVE  ContextOfRun'
  BY <1>0, <1>1, <1>2, <1>8 DEF Cleanup, CancelStored
<1>9. CASE Abort
  BY <1>0, <1>1, <1>9 DEF Abort, CancelStored
<1>10. CASE (\E s \in Starters : Elapse(s)) \/ UNCHANGED vars
  BY <1>0, <1>1, <1>10 DEF Elapse, vars
<1> QED
  BY <1>3, <1>4, <1>5, <1>6, <1>7, <1>8, <1>9, <1>10 DEF Next, Run

\* The memory of the process stays that of the run in progress.
LEMMA MemoryStep == TypeOK /\ IInv /\ [Next]_vars => MemoryOfRun'
<1> SUFFICES ASSUME TypeOK, IInv, [Next]_vars
             PROVE  MemoryOfRun'
  OBVIOUS
<1> USE DEF MemoryOfRun, Goto, memory, shared, Holds, Guarded, Installed, Published,
            InStep, Working
<1>0. /\ pc \in [Starters -> Labels] /\ data \in [Starters -> 0 .. MemMax]
      /\ resident \in Int /\ MemMax \in Nat
  BY LimitAssumption DEF TypeOK
<1>1. MemoryOfRun
  BY DEF IInv
<1>2. ASSUME NEW s \in Starters, pc[s] \in Guarded
      PROVE  isRunning = 1 /\ \A t \in Starters \ {s} : pc[t] \notin Guarded
  BY <1>2 DEF IInv, ExclusiveRun
<1>3. ASSUME NEW s \in Starters, CallStart(s) \/ CallSchedule(s)
      PROVE  MemoryOfRun'
  <2>1. /\ pc[s] = "idle" /\ pc' = [pc EXCEPT ![s] = "cas"]
        /\ UNCHANGED <<data, resident, isRunning>>
    BY <1>3 DEF CallStart, CallSchedule, NewGoroutine
  <2> QED
    BY <1>0, <1>1, <2>1
<1>4. ASSUME NEW s \in Starters, CompareAndSwap(s)
      PROVE  MemoryOfRun'
  <2>1. UNCHANGED <<data, resident>> /\ pc[s] = "cas"
    BY <1>4 DEF CompareAndSwap
  <2>2. \/ isRunning = 0 /\ isRunning' = 1 /\ pc' = [pc EXCEPT ![s] = "install"]
        \/ isRunning' = isRunning /\ \E l \in {"refused", "idle"} : pc' = [pc EXCEPT ![s] = l]
    BY <1>4 DEF CompareAndSwap, Admits, AfterRefusal
  <2> QED
    BY <1>0, <1>1, <2>1, <2>2
<1>5. ASSUME NEW s \in Starters, Refuse(s)
      PROVE  MemoryOfRun'
  BY <1>0, <1>1, <1>5 DEF Refuse, Answer
<1>6. ASSUME NEW s \in Starters, Free(s) \/ Unwind(s)
      PROVE  MemoryOfRun'
  <2>1. /\ pc[s] \in {"free", "unwind"} /\ UNCHANGED isRunning
        /\ resident' = resident - data[s] /\ data' = [data EXCEPT ![s] = 0]
        /\ \E l \in {"alloc", "cleanup"} : pc' = [pc EXCEPT ![s] = l]
    BY <1>6 DEF Free, Unwind, Release
  <2>2. resident' = 0 /\ isRunning' = 1
    BY <1>0, <1>1, <1>2, <2>1
  <2> QED
    BY <1>0, <1>1, <1>2, <2>1, <2>2
<1>7. ASSUME NEW s \in Starters, Alloc(s)
      PROVE  MemoryOfRun'
  <2>1. CurrentStep(s).mem \in 0 .. MemMax
    <3>1. CurrentStep(s) \in Step
      BY <1>7 DEF Alloc, CurrentStep, TypeOK
    <3> QED
      BY <3>1 DEF Step
  <2> DEFINE m == CurrentStep(s).mem
  <2>2. /\ pc[s] = "alloc" /\ UNCHANGED isRunning
        /\ data' = [data EXCEPT ![s] = m] /\ resident' = resident + m
        /\ \E l \in {"cycle", "timer"} : pc' = [pc EXCEPT ![s] = l]
    BY <1>7 DEF Alloc
  <2> HIDE DEF m
  <2>3. resident' = m /\ isRunning' = 1
    BY <1>0, <1>1, <1>2, <2>1, <2>2 DEF m
  <2> QED
    BY <1>0, <1>1, <1>2, <2>2, <2>3
<1>8. ASSUME NEW s \in Starters,
             \/ Install(s) \/ Announce(s) \/ Publish(s) \/ LoopHead(s) \/ Mark(s)
             \/ Cleanup(s)
      PROVE  MemoryOfRun'
  <2>1. /\ UNCHANGED <<data, resident, isRunning>>
        /\ \/ pc[s] \in {"install", "announce", "publish", "cleanup"} /\
                \E l \in {"announce", "publish", "head", "store"} : pc' = [pc EXCEPT ![s] = l]
           \/ pc[s] \in {"head", "mark"} /\
                \E l \in {"mark", "unwind", "free"} : pc' = [pc EXCEPT ![s] = l]
    BY <1>8 DEF Install, Announce, Answer, Publish, LoopHead, Mark, Cleanup
  <2> QED
    BY <1>0, <1>1, <1>2, <2>1
<1>9. ASSUME NEW s \in Starters, Timer(s) \/ Cycle(s) \/ Burn(s) \/ Pause(s)
      PROVE  MemoryOfRun'
  <2>1. /\ pc[s] \in Working /\ UNCHANGED <<data, resident, isRunning>>
        /\ \E l \in Working \cup {"head", "unwind"} : pc' = [pc EXCEPT ![s] = l]
    BY <1>9, WorkMoves
  <2> QED
    BY <1>0, <1>1, <1>2, <2>1
<1>10. ASSUME NEW s \in Starters, Store(s)
       PROVE  MemoryOfRun'
  BY <1>0, <1>1, <1>2, <1>10 DEF Store
<1>11. CASE Abort \/ (\E s \in Starters : Elapse(s)) \/ UNCHANGED vars
  BY <1>0, <1>1, <1>11 DEF Abort, Elapse, vars
<1> QED
  BY <1>3, <1>4, <1>5, <1>6, <1>7, <1>8, <1>9, <1>10, <1>11 DEF Next, Run

\* The count of steps begun after the cancellation never reaches two.
LEMMA LateStep == TypeOK /\ IInv /\ [Next]_vars => LateSteps'
<1> SUFFICES ASSUME TypeOK, IInv, [Next]_vars
             PROVE  LateSteps'
  OBVIOUS
<1> USE DEF LateSteps, Goto, shared, call, loop, Working
<1>0. /\ pc \in [Starters -> Labels] /\ late \in [Starters -> Nat]
      /\ cancel \in Starters \cup {Nobody} /\ Nobody \notin Starters
      /\ ctx \in [Starters -> {"none", "live", "cancelled"}]
  BY NobodyAssumption DEF TypeOK
<1>1. LateSteps
  BY DEF IInv
<1>2. ASSUME NEW s \in Starters, CallStart(s) \/ CallSchedule(s)
      PROVE  LateSteps'
  <2>1. /\ pc' = [pc EXCEPT ![s] = "cas"] /\ ctx' = [ctx EXCEPT ![s] = "none"]
        /\ late' = [late EXCEPT ![s] = 0]
    BY <1>2 DEF CallStart, CallSchedule, NewGoroutine
  <2> QED
    BY <1>0, <1>1, <2>1
<1>3. ASSUME NEW s \in Starters, LoopHead(s)
      PROVE  LateSteps'
  <2>1. /\ UNCHANGED <<late, ctx>>
        /\ \/ ctx[s] # "cancelled" /\ pc' = [pc EXCEPT ![s] = "mark"]
           \/ pc' = [pc EXCEPT ![s] = "unwind"]
    BY <1>3 DEF LoopHead, Continues
  <2> QED
    BY <1>0, <1>1, <2>1
<1>4. ASSUME NEW s \in Starters, Mark(s)
      PROVE  LateSteps'
  <2>1. CASE ctx[s] = "cancelled"
    <3>1. /\ pc[s] = "mark" /\ pc' = [pc EXCEPT ![s] = "free"] /\ UNCHANGED ctx
          /\ late' = [late EXCEPT ![s] = @ + 1]
      BY <1>4, <2>1 DEF Mark
    <3> QED
      BY <1>0, <1>1, <2>1, <3>1
  <2>2. CASE ctx[s] # "cancelled"
    <3>1. /\ pc' = [pc EXCEPT ![s] = "free"] /\ UNCHANGED ctx
          /\ late' = [late EXCEPT ![s] = @]
      BY <1>4, <2>2 DEF Mark
    <3> QED
      BY <1>0, <1>1, <3>1
  <2> QED
    BY <2>1, <2>2
<1>5. ASSUME NEW s \in Starters,
             \/ CompareAndSwap(s) \/ Refuse(s) \/ Announce(s) \/ Publish(s) \/ Free(s)
             \/ Alloc(s) \/ Unwind(s) \/ Store(s)
      PROVE  LateSteps'
  <2>1. /\ UNCHANGED <<late, ctx>>
        /\ \/ \E l \in Labels \ {"cas", "install", "mark"} : pc' = [pc EXCEPT ![s] = l]
           \/ pc[s] = "cas" /\ pc' = [pc EXCEPT ![s] = "install"]
    BY <1>5 DEF CompareAndSwap, AfterRefusal, Refuse, Announce, Answer, Publish, Free,
                Alloc, Unwind, Store, Labels, Guarded, Installed, Published, InStep
  <2> QED
    BY <1>0, <1>1, <2>1
<1>6. ASSUME NEW s \in Starters, Install(s) \/ Cleanup(s)
      PROVE  LateSteps'
  <2>1. /\ UNCHANGED late /\ pc[s] \in {"install", "cleanup"}
        /\ \E l \in {"announce", "publish", "store"} : pc' = [pc EXCEPT ![s] = l]
        /\ \/ pc[s] = "install" /\ ctx' = [ctx EXCEPT ![s] = "live"]
           \/ ctx' = CancelStored
    BY <1>6 DEF Install, Cleanup
  <2> QED
    BY <1>0, <1>1, <2>1 DEF CancelStored
<1>7. ASSUME NEW s \in Starters, Timer(s) \/ Cycle(s) \/ Burn(s) \/ Pause(s)
      PROVE  LateSteps'
  <2>1. /\ UNCHANGED <<late, ctx>>
        /\ \E l \in Working \cup {"head", "unwind"} : pc' = [pc EXCEPT ![s] = l]
    BY <1>7, WorkMoves
  <2> QED
    BY <1>0, <1>1, <2>1
<1>8. CASE Abort
  BY <1>0, <1>1, <1>8 DEF Abort, CancelStored
<1>9. CASE (\E s \in Starters : Elapse(s)) \/ UNCHANGED vars
  BY <1>0, <1>1, <1>9 DEF Elapse, vars
<1> QED
  BY <1>2, <1>3, <1>4, <1>5, <1>6, <1>7, <1>8, <1>9 DEF Next, Run

LEMMA Inductive == Spec => []IInv
<1>1. Init => IInv
  BY NobodyAssumption
     DEF Init, IInv, ExclusiveRun, FieldsOfTheRun, ContextOfRun, NoContextLeak,
         MemoryOfRun, LateSteps, Holds, Guarded, Installed, Published, InStep, Working
<1>2. TypeOK /\ IInv /\ [Next]_vars => IInv'
  BY ExclusiveStep, FieldsStep, ContextStep, MemoryStep, LateStep DEF IInv
<1>3. QED
  BY <1>1, <1>2, TypeCorrect, PTL DEF Spec

-----------------------------------------------------------------------------

\* At most one load runs, and isRunning is 1 exactly while it does.
THEOREM OneLoadAtATime == Spec => []ExclusiveRun
<1>1. IInv => ExclusiveRun
  BY DEF IInv
<1>2. QED
  BY <1>1, Inductive, PTL

\* The shared fields belong to the run in progress, and the status page shows
\* its schedule and its step while the step executes.
THEOREM FieldsAreOfTheRun == Spec => []FieldsOfTheRun
<1>1. IInv => FieldsOfTheRun
  BY DEF IInv
<1>2. QED
  BY <1>1, Inductive, PTL

\* Every live context can be reached by Abort and belongs to a guard call that
\* has not returned.
THEOREM ContextsDoNotLeak == Spec => []NoContextLeak
<1>1. IInv => NoContextLeak
  BY DEF IInv, ContextOfRun
<1>2. QED
  BY <1>1, Inductive, PTL

\* What guard and runLoadSteps share belongs to the run in progress.
THEOREM StateIsOfTheRun == Spec => []RunOwnsItsState
<1>1. FieldsOfTheRun /\ NoContextLeak => RunOwnsItsState
  BY DEF RunOwnsItsState
<1>2. QED
  BY <1>1, FieldsAreOfTheRun, ContextsDoNotLeak, PTL

\* At most one step begins after an abort.
THEOREM AbortIsPrompt == Spec => []AbortLeavesAtMostOneStep
<1>1. IInv => AbortLeavesAtMostOneStep
  BY DEF IInv, LateSteps, AbortLeavesAtMostOneStep
<1>2. QED
  BY <1>1, Inductive, PTL

\* The process never holds more than MemMax, and nothing between two runs.
THEOREM MemoryIsBounded == Spec => [](MemoryBound /\ MemoryReturned)
<1>1. TypeOK /\ IInv => MemoryBound /\ MemoryReturned
  <2> SUFFICES ASSUME TypeOK, IInv
               PROVE  MemoryBound /\ MemoryReturned
    OBVIOUS
  <2>1. CASE \E s \in Starters : Holds(s)
    <3>1. PICK s \in Starters : Holds(s)
      BY <2>1
    <3>2. resident = data[s] /\ data[s] \in 0 .. MemMax /\ isRunning = 1
      BY <3>1 DEF IInv, MemoryOfRun, ExclusiveRun, TypeOK
    <3> QED
      BY <3>2, LimitAssumption DEF MemoryBound, MemoryReturned
  <2>2. CASE ~ \E s \in Starters : Holds(s)
    <3>1. isRunning = 0 /\ resident = 0
      BY <2>2 DEF IInv, MemoryOfRun, ExclusiveRun, TypeOK
    <3> QED
      BY <3>1, LimitAssumption DEF MemoryBound, MemoryReturned
  <2> QED
    BY <2>1, <2>2
<1>2. QED
  BY <1>1, TypeCorrect, Inductive, PTL

\* A start is refused only while another starter holds the generator.
THEOREM RefusalsAreJustified == Spec => NoSpuriousRefusal
<1>1. TypeOK /\ IInv /\ [Next]_vars =>
        [\A s \in Starters :
           pc[s] = "cas" /\ pc'[s] \in {"refused", "idle"}
             => \E t \in Starters \ {s} : Holds(t)]_vars
  <2> SUFFICES ASSUME TypeOK, IInv, Next, NEW s \in Starters,
                      pc[s] = "cas", pc'[s] \in {"refused", "idle"}
               PROVE  \E t \in Starters \ {s} : Holds(t)
    BY DEF vars
  <2>0. pc \in [Starters -> Labels]
    BY DEF TypeOK
  <2>1. ~ Holds(s)
    BY DEF Holds, Guarded, Installed, Published, InStep, Working
  <2>2. isRunning = 1 => \E t \in Starters \ {s} : Holds(t)
    BY <2>1 DEF IInv, ExclusiveRun
  <2>3. CASE CompareAndSwap(s)
    <3>1. isRunning # 0
      BY <2>0, <2>3 DEF CompareAndSwap, Admits, Goto
    <3> QED
      BY <2>2, <3>1 DEF TypeOK
  <2>4. ASSUME NEW t \in Starters, Run(t), t # s
        PROVE  FALSE
    <3>1. pc'[s] = pc[s]
      <4>1. CASE Timer(t) \/ Cycle(t) \/ Burn(t) \/ Pause(t)
        BY <2>0, <2>4, <4>1, WorkMoves DEF Goto
      <4>2. CASE ~ (Timer(t) \/ Cycle(t) \/ Burn(t) \/ Pause(t))
        BY <2>0, <2>4, <4>2
           DEF Run, CompareAndSwap, Refuse, Install, Announce, Publish, LoopHead, Mark,
               Free, Alloc, Unwind, Cleanup, Store, Goto
      <4> QED
        BY <4>1, <4>2
    <3> QED
      BY <3>1
  <2>5. ASSUME NEW t \in Starters, CallStart(t) \/ CallSchedule(t)
        PROVE  FALSE
    <3>1. pc[t] = "idle" /\ pc' = [pc EXCEPT ![t] = "cas"]
      BY <2>5 DEF CallStart, CallSchedule, NewGoroutine, Goto
    <3> QED
      BY <2>0, <3>1
  <2>6. ~ (Abort \/ \E t \in Starters : Elapse(t))
    BY DEF Abort, Elapse
  <2>7. Run(s) => CompareAndSwap(s)
    BY DEF Run, Refuse, Install, Announce, Publish, LoopHead, Mark, Free, Alloc, Timer,
           Cycle, Burn, Pause, Unwind, Cleanup, Store
  <2> QED
    BY <2>2, <2>3, <2>4, <2>5, <2>6, <2>7 DEF Next
<1>2. QED
  BY <1>1, TypeCorrect, Inductive, PTL DEF Spec, NoSpuriousRefusal

\* A live context is cancelled only by an Abort that answers "aborted", and then
\* it is the installed one, or at the end of its own guard call.
THEOREM NoStrayCancel == Spec => CancelledByAbortOrItsEnd
<1>1. TypeOK /\ IInv /\ [Next]_vars =>
        [\A s \in Starters :
           ctx[s] = "live" /\ ctx'[s] = "cancelled"
             => \/ lastAbort' = "aborted" /\ cancel = s /\ UNCHANGED pc
                \/ pc[s] = "cleanup"]_vars
  <2> SUFFICES ASSUME TypeOK, IInv, Next, NEW s \in Starters,
                      ctx[s] = "live", ctx'[s] = "cancelled"
               PROVE  \/ lastAbort' = "aborted" /\ cancel = s /\ UNCHANGED pc
                      \/ pc[s] = "cleanup"
    BY DEF vars
  <2>0. /\ ctx \in [Starters -> {"none", "live", "cancelled"}]
        /\ cancel = s /\ s # Nobody /\ Nobody \notin Starters
    BY NobodyAssumption DEF TypeOK, IInv, ContextOfRun, NoContextLeak
  <2>1. CASE Abort
    BY <2>0, <2>1 DEF Abort
  <2>2. ASSUME NEW t \in Starters, Cleanup(t)
        PROVE  pc[s] = "cleanup"
    BY <2>0, <2>2
       DEF Cleanup, IInv, FieldsOfTheRun, ExclusiveRun, Holds, Guarded, Installed, Published
  <2>3. ASSUME NEW t \in Starters, Run(t), ~ Cleanup(t)
        PROVE  FALSE
    <3>1. CASE Install(t)
      BY <2>0, <3>1 DEF Install
    <3>2. CASE ~ Install(t)
      <4>1. CASE Timer(t) \/ Cycle(t) \/ Burn(t) \/ Pause(t)
        BY <4>1, WorkMoves
      <4>2. CASE ~ (Timer(t) \/ Cycle(t) \/ Burn(t) \/ Pause(t))
        BY <2>3, <3>2, <4>2
           DEF Run, CompareAndSwap, Refuse, Answer, Announce, Publish, LoopHead, Mark,
               Free, Alloc, Unwind, Store
      <4> QED
        BY <4>1, <4>2
    <3> QED
      BY <3>1, <3>2
  <2>4. ASSUME NEW t \in Starters, CallStart(t) \/ CallSchedule(t) \/ Elapse(t)
        PROVE  FALSE
    <3>1. ctx' = [ctx EXCEPT ![t] = "none"] \/ ctx' = ctx
      BY <2>4 DEF CallStart, CallSchedule, NewGoroutine, Elapse
    <3> QED
      BY <2>0, <3>1
  <2> QED
    BY <2>1, <2>2, <2>3, <2>4 DEF Next
<1>2. QED
  BY <1>1, TypeCorrect, Inductive, PTL DEF Spec, CancelledByAbortOrItsEnd

\* Where an Abort answers 409 although a load holds the generator: the load has
\* not stored its cancel function yet, has removed it, or was cancelled before.
\* This is what is left of AbortFindsTheLoad, which the run load_abort refutes.
MissedOnlyAtTheEnds ==
    cancel = Nobody => \A s \in Starters : Holds(s) => pc[s] \in {"install", "store"} \/ ctx[s] = "cancelled"

\* From the first message of a load to its cleanup, and so in every step of it, an
\* Abort finds it, whichever loads came before (load.go:63-72, 120-136).
THEOREM AbortFindsTheSteps == Spec => []MissedOnlyAtTheEnds
<1>1. TypeOK /\ IInv => MissedOnlyAtTheEnds
  <2> SUFFICES ASSUME TypeOK, IInv, cancel = Nobody, NEW s \in Starters, Holds(s)
               PROVE  pc[s] \in {"install", "store"} \/ ctx[s] = "cancelled"
    BY DEF MissedOnlyAtTheEnds
  <2>1. ctx[s] # "live"
    BY NobodyAssumption DEF IInv, ContextOfRun, NoContextLeak
  <2>2. pc[s] \in Installed => ctx[s] # "none"
    BY DEF IInv, ContextOfRun
  <2>3. ctx[s] \in {"none", "live", "cancelled"}
    BY DEF TypeOK
  <2> QED
    BY <2>1, <2>2, <2>3 DEF Holds, Guarded
<1> QED
  BY <1>1, TypeCorrect, Inductive, PTL

\* A run begins with its first step, and once that is behind it the published index
\* is no longer the one that an earlier run left over.
StepShown ==
    \A s \in Starters :
        /\ pc[s] \in {"cas", "install", "announce", "publish"} => idx[s] = 0
        /\ pc[s] \in Published /\ idx[s] > 0 => stepIdx <= idx[s]

\* Each step of the system keeps it so.
LEMMA ShownStep == TypeOK /\ IInv /\ StepShown /\ [Next]_vars => StepShown'
<1> SUFFICES ASSUME TypeOK, IInv, StepShown, [Next]_vars
             PROVE  StepShown'
  OBVIOUS
<1> USE DEF StepShown, Goto, shared, loop, Published, InStep, Working
<1>0. /\ pc \in [Starters -> Labels] /\ idx \in [Starters -> Nat] /\ stepIdx \in Nat
      /\ \A s \in Starters : pc[s] \in InStep \ {"mark"} => stepIdx = idx[s]
  BY DEF TypeOK, IInv, FieldsOfTheRun
<1>1. ASSUME NEW s \in Starters, pc[s] \in Published
      PROVE  \A t \in Starters \ {s} : pc[t] \notin Published
  BY <1>1 DEF IInv, ExclusiveRun, Holds, Guarded, Installed
<1>2. ASSUME NEW s \in Starters, CallStart(s) \/ CallSchedule(s)
      PROVE  StepShown'
  <2>1. pc' = [pc EXCEPT ![s] = "cas"] /\ idx' = [idx EXCEPT ![s] = 0] /\ UNCHANGED stepIdx
    BY <1>2 DEF CallStart, CallSchedule, NewGoroutine
  <2> QED
    BY <1>0, <2>1
<1>3. ASSUME NEW s \in Starters,
             \/ CompareAndSwap(s) \/ Refuse(s) \/ Install(s) \/ Announce(s) \/ Publish(s)
             \/ LoopHead(s) \/ Free(s) \/ Alloc(s) \/ Unwind(s) \/ Cleanup(s) \/ Store(s)
      PROVE  StepShown'
  <2>1. UNCHANGED <<idx, stepIdx>>
    BY <1>3 DEF CompareAndSwap, Refuse, Install, Announce, Answer, Publish, LoopHead, Free, Alloc,
                Unwind, Cleanup, Store
  <2>2. \/ pc' = [pc EXCEPT ![s] = "install"] /\ pc[s] = "cas"
        \/ \E l \in {"announce", "publish"} :
              pc' = [pc EXCEPT ![s] = l] /\ pc[s] \in {"install", "announce"}
        \/ \E l \in Published : pc' = [pc EXCEPT ![s] = l] /\ pc[s] \in Published \cup {"publish"}
        \/ \E l \in {"refused", "idle", "store"} : pc' = [pc EXCEPT ![s] = l]
    BY <1>3 DEF CompareAndSwap, AfterRefusal, Refuse, Install, Announce, Answer, Publish, LoopHead, Free, Alloc,
                Unwind, Cleanup, Store
  <2>3. /\ pc'[s] \in {"cas", "install", "announce", "publish"} => pc[s] \in {"cas", "install", "announce"}
        /\ pc'[s] \in Published => pc[s] \in Published \cup {"publish"}
        /\ \A t \in Starters \ {s} : pc'[t] = pc[t]
    BY <1>0, <2>2
  <2>4. ASSUME NEW t \in Starters
        PROVE  /\ pc'[t] \in {"cas", "install", "announce", "publish"} => idx'[t] = 0
               /\ pc'[t] \in Published /\ idx'[t] > 0 => stepIdx' <= idx'[t]
    <3>1. CASE t # s
      BY <2>1, <2>3, <3>1
    <3>2. CASE t = s
      BY <1>0, <2>1, <2>3, <3>2
    <3> QED
      BY <3>1, <3>2
  <2> QED
    BY <2>4
<1>4. ASSUME NEW s \in Starters, Mark(s)
      PROVE  StepShown'
  <2>1. pc[s] = "mark" /\ pc' = [pc EXCEPT ![s] = "free"] /\ stepIdx' = idx[s] /\ UNCHANGED idx
    BY <1>4 DEF Mark
  <2>2. \A t \in Starters \ {s} : pc'[t] \notin Published
    BY <1>0, <1>1, <2>1
  <2> QED
    BY <1>0, <2>1, <2>2
<1>5. ASSUME NEW s \in Starters, Timer(s) \/ Cycle(s) \/ Burn(s) \/ Pause(s)
      PROVE  StepShown'
  <2>1. /\ pc[s] \in Working /\ UNCHANGED stepIdx
        /\ \A t \in Starters \ {s} : idx'[t] = idx[t]
    BY <1>5, WorkMoves
  <2>2. PICK l \in Working \cup {"head", "unwind"} : Goto(s, l)
    BY <1>5, WorkMoves
  <2>3. idx' = idx \/ idx' = [idx EXCEPT ![s] = @ + 1]
    BY <1>5, Zenon DEF Timer, Cycle, Burn, Pause, NextStep
  <2>4. idx'[s] >= stepIdx
    BY <1>0, <2>1, <2>3
  <2>5. \A t \in Starters \ {s} : pc'[t] = pc[t]
    BY <1>0, <2>2
  <2>6. pc'[s] = l
    BY <1>0, <2>2
  <2> QED
    BY <2>1, <2>4, <2>5, <2>6
<1>6. CASE Abort \/ (\E s \in Starters : Elapse(s)) \/ UNCHANGED vars
  BY <1>6 DEF Abort, Elapse, call, vars
<1> QED
  BY <1>2, <1>3, <1>4, <1>5, <1>6 DEF Next, Run

\* What is left of CompletedMeansExecuted, which the run load_status refutes: it
\* fails only until the first step of the run has been marked.
CompletedOnceMarked ==
    \A s \in Starters :
        /\ pc[s] \in Published \ {"cleanup"} /\ isRunning = 1
        /\ idx[s] > 0 \/ pc[s] \in InStep \ {"mark"}
        => \A i \in 0 .. Len(steps) - 1 : StatusOf(i) = "Completed" => i < idx[s]

\* From the moment its first step executes until its cleanup, a run is never shown
\* with a step as Completed that it has not executed (load.go:143-169).
THEOREM StatusIsTrueOnceMarked == Spec => []CompletedOnceMarked
<1>1. Init => StepShown
  BY DEF Init, StepShown, Published, InStep, Working
<1>2. TypeOK /\ IInv /\ StepShown => CompletedOnceMarked
  <2> SUFFICES ASSUME TypeOK, IInv, StepShown, NEW s \in Starters, pc[s] \in Published,
                      idx[s] > 0 \/ pc[s] \in InStep \ {"mark"},
                      NEW i \in 0 .. Len(steps) - 1, StatusOf(i) = "Completed"
               PROVE  i < idx[s]
    BY DEF CompletedOnceMarked
  <2>1. idx[s] \in Nat /\ stepIdx \in Nat /\ i \in Int
    BY DEF TypeOK
  <2>2. stepIdx <= idx[s]
    BY <2>1 DEF StepShown, IInv, FieldsOfTheRun
  <2>3. i < stepIdx
    BY DEF StatusOf
  <2> QED
    BY <2>1, <2>2, <2>3
<1> QED
  BY <1>1, <1>2, ShownStep, TypeCorrect, Inductive, PTL DEF Spec

-----------------------------------------------------------------------------
(* The refinement of LoadService.                                          *)

LEMMA OwnerHolds ==
  ASSUME ExclusiveRun, NEW s \in Starters, Holds(s)
  PROVE  /\ Owner = s
         /\ Stopping <=> ctx[s] = "cancelled" \/ pc[s] \in {"unwind", "cleanup", "store"}
BY DEF ExclusiveRun, Owner, Stopping

LEMMA OwnerHoldsNext ==
  ASSUME ExclusiveRun', NEW s \in Starters, Holds(s)'
  PROVE  /\ Owner' = s
         /\ Stopping' <=> ctx'[s] = "cancelled" \/ pc'[s] \in {"unwind", "cleanup", "store"}
BY DEF ExclusiveRun, Owner, Stopping

LEMMA NoOwner ==
  ASSUME \A s \in Starters : ~ Holds(s)
  PROVE  Owner = Nobody /\ Stopping = FALSE
BY Zenon DEF Owner, Stopping

\* The mapped stopping is a truth value, so that not being TRUE it is FALSE.
LEMMA NotStopping == ~ Stopping' => Stopping' = FALSE
BY Zenon DEF Stopping

LEMMA NoOwnerNext ==
  ASSUME \A s \in Starters : ~ Holds(s)'
  PROVE  Owner' = Nobody /\ Stopping' = FALSE
BY Zenon DEF Owner, Stopping

\* The starter s, which may or may not hold the generator, is at a place where
\* the run counts as stopping.
EndsNow(s) == ctx[s] = "cancelled" \/ pc[s] \in {"unwind", "cleanup", "store"}

\* A step that leaves the holder the same and as far as it was.
LEMMA SameOwner ==
  ASSUME ExclusiveRun, ExclusiveRun',
         \A t \in Starters : Holds(t) <=> Holds(t)',
         \A t \in Starters : Holds(t) => (EndsNow(t) <=> EndsNow(t)')
  PROVE  Owner' = Owner /\ Stopping' = Stopping
<1>1. CASE \E s \in Starters : Holds(s)
  <2>1. PICK s \in Starters : Holds(s) /\ Holds(s)'
    BY <1>1
  <2>2. Owner = s /\ Owner' = s
    BY <2>1, OwnerHolds, OwnerHoldsNext
  <2>3. (Stopping <=> EndsNow(s)) /\ (Stopping' <=> EndsNow(s)')
    BY <2>1, OwnerHolds, OwnerHoldsNext DEF EndsNow
  <2>4. Stopping \in BOOLEAN /\ Stopping' \in BOOLEAN
    BY Zenon DEF Stopping
  <2> QED
    BY <2>1, <2>2, <2>3, <2>4
<1>2. CASE \A s \in Starters : ~ Holds(s)
  BY <1>2, NoOwner, NoOwnerNext
<1> QED
  BY <1>1, <1>2

\* A step after which the run in progress counts as stopping.
LEMMA StopStep ==
  ASSUME ExclusiveRun, ExclusiveRun', NEW s \in Starters,
         Holds(s), Holds(s)', EndsNow(s)', UNCHANGED resident
  PROVE  Service!Stop
<1>1. Owner = s /\ Owner' = s /\ s # Nobody
  BY OwnerHolds, OwnerHoldsNext, NobodyAssumption
<1>2. Stopping' <=> EndsNow(s)'
  BY OwnerHoldsNext DEF EndsNow
<1>3. Stopping' = TRUE
  BY <1>2, Zenon DEF Stopping
<1> QED
  BY <1>1, <1>3 DEF Service!Stop

\* Every step of the load generator is a step of the service or leaves it alone.
LEMMA ServiceStep ==
  TypeOK /\ IInv /\ TypeOK' /\ IInv' /\ [Next]_vars => [Service!Next]_(Service!vars)
<1> SUFFICES ASSUME TypeOK, IInv, TypeOK', IInv', [Next]_vars
             PROVE  Service!Next \/ UNCHANGED <<Owner, Stopping, resident>>
  BY DEF Service!vars
<1> USE DEF Goto, shared, call, loop, memory
<1> DEFINE Same == \A t \in Starters :
                     (Holds(t) <=> Holds(t)') /\ (Holds(t) => (EndsNow(t) <=> EndsNow(t)'))
<1>0. /\ pc \in [Starters -> Labels] /\ cancel \in Starters \cup {Nobody}
      /\ ctx \in [Starters -> {"none", "live", "cancelled"}]
      /\ Nobody \notin Starters
  BY NobodyAssumption DEF TypeOK
<1>1. ExclusiveRun /\ ExclusiveRun' /\ ContextOfRun
  BY DEF IInv
<1>2. Same => UNCHANGED <<Owner, Stopping>>
  BY <1>1, SameOwner
<1>3. ASSUME NEW s \in Starters, Holds(s), Holds(s)', Same
      PROVE  Service!Next \/ UNCHANGED <<Owner, Stopping, resident>>
  <2>1. Owner = s /\ s # Nobody
    BY <1>0, <1>1, <1>3, OwnerHolds
  <2>2. resident' = data'[s]
    BY <1>3 DEF IInv, MemoryOfRun
  <2>3. resident' \in 0 .. MemMax
    BY <2>2 DEF TypeOK
  <2> QED
    BY <1>2, <1>3, <2>1, <2>3 DEF Service!Next, Service!Hold
<1>4. ASSUME NEW s \in Starters, CallStart(s) \/ CallSchedule(s)
      PROVE  UNCHANGED <<Owner, Stopping, resident>>
  <2>1. /\ pc[s] = "idle" /\ pc' = [pc EXCEPT ![s] = "cas"]
        /\ ctx' = [ctx EXCEPT ![s] = "none"] /\ UNCHANGED resident
    BY <1>4 DEF CallStart, CallSchedule, NewGoroutine
  <2>2. Same
    BY <1>0, <2>1 DEF Holds, EndsNow, Guarded, Installed, Published, InStep, Working
  <2> QED
    BY <1>2, <2>1, <2>2
<1>5. ASSUME NEW s \in Starters, CompareAndSwap(s)
      PROVE  Service!Next \/ UNCHANGED <<Owner, Stopping, resident>>
  <2>0. pc[s] = "cas" /\ UNCHANGED <<ctx, resident>>
    BY <1>5 DEF CompareAndSwap
  <2>1. CASE isRunning = 0
    <3>1. pc' = [pc EXCEPT ![s] = "install"]
      BY <1>5, <2>1 DEF CompareAndSwap, Admits
    <3>2. Holds(s)' /\ ~ EndsNow(s)'
      BY <1>0, <1>1, <2>0, <3>1 DEF Holds, EndsNow, ContextOfRun, Guarded
    <3>3. Owner' = s /\ (Stopping' <=> EndsNow(s)')
      BY <1>1, <3>2, OwnerHoldsNext DEF EndsNow
    <3>4. Stopping' = FALSE
      BY <3>2, <3>3, NotStopping
    <3>5. Owner = Nobody /\ Stopping = FALSE
      <4>1. \A t \in Starters : ~ Holds(t)
        BY <1>1, <2>1 DEF ExclusiveRun
      <4> QED
        BY <4>1, NoOwner
    <3>6. Service!Start(s)
      BY <2>0, <3>3, <3>4, <3>5 DEF Service!Start
    <3> QED
      BY <3>6 DEF Service!Next
  <2>2. CASE isRunning # 0
    <3>1. \E l \in {"refused", "idle"} : pc' = [pc EXCEPT ![s] = l]
      BY <1>5, <2>2 DEF CompareAndSwap, Admits, AfterRefusal
    <3>2. Same
      BY <1>0, <2>0, <3>1 DEF Holds, EndsNow, Guarded, Installed, Published, InStep, Working
    <3> QED
      BY <1>2, <2>0, <3>2
  <2> QED
    BY <2>1, <2>2
<1>6. ASSUME NEW s \in Starters, Refuse(s)
      PROVE  UNCHANGED <<Owner, Stopping, resident>>
  <2>1. Same
    BY <1>0, <1>6 DEF Refuse, Answer, Holds, EndsNow, Guarded, Installed, Published,
                      InStep, Working
  <2> QED
    BY <1>2, <1>6, <2>1 DEF Refuse, Answer
<1>7. ASSUME NEW s \in Starters, Install(s)
      PROVE  UNCHANGED <<Owner, Stopping, resident>>
  <2>1. /\ pc[s] = "install" /\ ctx' = [ctx EXCEPT ![s] = "live"] /\ UNCHANGED resident
        /\ \E l \in {"announce", "publish"} : pc' = [pc EXCEPT ![s] = l]
    BY <1>7 DEF Install
  <2>2. Same
    BY <1>0, <1>1, <2>1 DEF ContextOfRun, Holds, EndsNow, Guarded, Installed, Published
  <2> QED
    BY <1>2, <2>1, <2>2
<1>8. ASSUME NEW s \in Starters,
             Announce(s) \/ Publish(s) \/ Mark(s) \/ Free(s) \/ Alloc(s) \/ Unwind(s)
      PROVE  Service!Next \/ UNCHANGED <<Owner, Stopping, resident>>
  <2>1. /\ UNCHANGED ctx
        /\ \/ /\ pc[s] \in {"announce", "publish", "mark", "free", "alloc"}
              /\ \E l \in {"publish", "head"} \cup InStep : pc' = [pc EXCEPT ![s] = l]
           \/ pc[s] = "unwind" /\ pc' = [pc EXCEPT ![s] = "cleanup"]
    BY <1>8 DEF Announce, Answer, Publish, Mark, Free, Alloc, Unwind, InStep, Working
  <2>2. Same /\ Holds(s) /\ Holds(s)'
    BY <1>0, <2>1 DEF Holds, EndsNow, Guarded, Installed, Published, InStep, Working
  <2> QED
    BY <1>3, <2>2
<1>9. ASSUME NEW s \in Starters,
             LoopHead(s) \/ Timer(s) \/ Cycle(s) \/ Burn(s) \/ Pause(s)
      PROVE  Service!Next \/ UNCHANGED <<Owner, Stopping, resident>>
  <2>1. UNCHANGED <<ctx, resident>> /\ pc[s] \in {"head"} \cup Working
    BY <1>9, WorkMoves DEF LoopHead
  <2>2. \E l \in {"head", "mark", "unwind"} \cup Working : pc' = [pc EXCEPT ![s] = l]
    <3>1. CASE LoopHead(s)
      BY <3>1 DEF LoopHead
    <3>2. CASE Timer(s) \/ Cycle(s) \/ Burn(s) \/ Pause(s)
      BY <3>2, WorkMoves
    <3> QED
      BY <1>9, <3>1, <3>2
  <2>3. Holds(s) /\ Holds(s)'
    BY <1>0, <2>1, <2>2 DEF Holds, Guarded, Installed, Published, InStep, Working
  <2>4. CASE pc'[s] = "unwind"
    <3>1. Service!Stop
      BY <1>1, <2>1, <2>3, <2>4, StopStep DEF EndsNow
    <3> QED
      BY <3>1 DEF Service!Next
  <2>5. CASE pc'[s] # "unwind"
    <3>1. Same
      BY <1>0, <2>1, <2>2, <2>5
         DEF Holds, EndsNow, Guarded, Installed, Published, InStep, Working
    <3> QED
      BY <1>3, <2>3, <3>1
  <2> QED
    BY <2>4, <2>5
<1>10. ASSUME NEW s \in Starters, Cleanup(s)
       PROVE  UNCHANGED <<Owner, Stopping, resident>>
  <2>1. /\ pc[s] = "cleanup" /\ pc' = [pc EXCEPT ![s] = "store"] /\ UNCHANGED resident
    BY <1>10 DEF Cleanup
  <2>2. \A t \in Starters \ {s} : ~ Holds(t)
    BY <1>1, <2>1 DEF ExclusiveRun, Holds, Guarded, Installed, Published
  <2>3. Same
    BY <1>0, <2>1, <2>2 DEF Holds, EndsNow, Guarded, Installed, Published, InStep, Working
  <2> QED
    BY <1>2, <2>1, <2>3
<1>11. ASSUME NEW s \in Starters, Store(s)
       PROVE  Service!Next
  <2>1. pc[s] = "store" /\ pc' = [pc EXCEPT ![s] = "idle"] /\ UNCHANGED resident
    BY <1>11 DEF Store
  <2>2. Holds(s) /\ EndsNow(s)
    BY <2>1 DEF Holds, EndsNow, Guarded
  <2>3. Stopping
    BY <1>1, <2>2, OwnerHolds DEF EndsNow
  <2>4. resident = 0
    BY <2>1, <2>2 DEF IInv, MemoryOfRun, Published, InStep, Working
  <2>5. \A t \in Starters : ~ Holds(t)'
    BY <1>0, <1>1, <2>1, <2>2 DEF ExclusiveRun, Holds, Guarded, Installed, Published,
                                InStep, Working
  <2>6. Owner' = Nobody /\ Stopping' = FALSE
    BY <2>5, NoOwnerNext
  <2>7. Service!Finish
    BY <2>1, <2>3, <2>4, <2>6 DEF Service!Finish
  <2> QED
    BY <2>7 DEF Service!Next
<1>12. CASE Abort
  <2>1. UNCHANGED <<pc, resident>>
    BY <1>12 DEF Abort
  <2>2. CASE cancel = Nobody
    <3>1. UNCHANGED ctx
      BY <1>12, <2>2 DEF Abort, CancelStored
    <3>2. Same
      BY <2>1, <3>1 DEF Holds, EndsNow
    <3> QED
      BY <1>2, <2>1, <3>2
  <2>3. CASE cancel # Nobody
    <3>1. cancel \in Starters /\ pc[cancel] \in Installed
      BY <1>0, <2>3 DEF IInv, FieldsOfTheRun
    <3>2. Holds(cancel) /\ pc'[cancel] \in Guarded
      BY <2>1, <3>1 DEF Holds, Guarded
    <3>3. ctx'[cancel] = "cancelled"
      BY <1>0, <1>12, <2>3, <3>1 DEF Abort, CancelStored
    <3>4. PICK s \in Starters : s = cancel
      BY <3>1
    <3>5. Holds(s) /\ Holds(s)' /\ EndsNow(s)'
      BY <2>1, <3>2, <3>3, <3>4 DEF Holds, EndsNow
    <3>6. Service!Stop
      BY <1>1, <2>1, <3>5, StopStep
    <3> QED
      BY <3>6 DEF Service!Next
  <2> QED
    BY <2>2, <2>3
<1>13. CASE (\E s \in Starters : Elapse(s)) \/ UNCHANGED vars
  <2>1. UNCHANGED <<pc, ctx, resident>>
    BY <1>13 DEF Elapse, vars
  <2>2. Same
    BY <2>1 DEF Holds, EndsNow
  <2> QED
    BY <1>2, <2>1, <2>2
<1> QED
  BY <1>4, <1>5, <1>6, <1>7, <1>8, <1>9, <1>10, <1>11, <1>12, <1>13 DEF Next, Run

\* The load generator implements the service of LoadService: one owner at a
\* time, memory within the limit, and none left when the owner leaves.
THEOREM ImplementsService == Spec => ServiceSpec
<1>1. Init => Service!Init
  <2> SUFFICES ASSUME Init PROVE Service!Init
    OBVIOUS
  <2>1. \A s \in Starters : ~ Holds(s)
    BY DEF Init, Holds, Guarded, Installed, Published, InStep, Working
  <2> QED
    BY <2>1, NoOwner DEF Service!Init, Init
<1>2. QED
  BY <1>1, ServiceStep, TypeCorrect, Inductive, PTL DEF Spec, ServiceSpec, Service!Spec
=============================================================================
