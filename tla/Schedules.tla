------------------------------- MODULE Schedules -------------------------------
(***************************************************************************)
(* The schedules of load.go: GenerateRandomSchedule, the loop of             *)
(* doStartSpikeLoad, the wave of doStartSineLoad and the tables of the other *)
(* load types. The pseudo random generator is a free choice over what each   *)
(* call of IntN and Float64 may return, so that the runs stand for all seeds. *)
(*                                                                         *)
(* A slice of steps is only ever appended to. The model keeps the step that  *)
(* was appended last and the length of all of them. Durations are whole      *)
(* numbers of some unit, and so small that totalDur plus the length of a     *)
(* phase fits the 64 bits of a time.Duration.                                *)
(***************************************************************************)
EXTENDS Integers, Sequences

CONSTANTS
    Inputs,           \* what the generators may be called with
    DefaultDuration,  \* RandomLoadTotalDuration
    Hour,             \* totalDuration of doStartSpikeLoad
    Floor,            \* the least cpu percentage of a sustained load: 30
    PhaseLengths,     \* random: 5 to 14 minutes
    StepLengths,      \* random: 2 to 29 seconds
    IdleLengths,      \* spike: 60 to 299 seconds
    BurstLengths,     \* spike: 5 to 15 seconds
    BurstPercents,    \* spike: 80 to 100
    WaveSteps,        \* numSteps of doStartSineLoad
    Waves             \* values of cpuSine in thousandths

Tables == {"cpu", "mem", "combined", "static"}
Kinds == {"random", "spike", "sine"} \cup Tables

ASSUME InputAssumption ==
    /\ Inputs \subseteq [kind : Kinds, duration : Int, hasCPU : BOOLEAN, hasMem : BOOLEAN,
                         cpuMax : Int, memMax : Int]
    /\ DefaultDuration \in Nat \ {0} /\ Hour \in Nat \ {0} /\ Floor \in Nat
    /\ PhaseLengths \subseteq Nat \ {0} /\ StepLengths \subseteq Nat \ {0}
    /\ IdleLengths \subseteq Nat \ {0} /\ BurstLengths \subseteq Nat \ {0}
    /\ BurstPercents \subseteq 1 .. 100
    /\ WaveSteps \in Nat /\ Waves \subseteq 0 .. 1000

VARIABLES
    kind,       \* which generator runs
    duration,   \* the length asked for, after the default has been applied
    hasCPU,     \* random: the parameter types contains "cpu"
    hasMem,     \* random: the parameter types contains "mem"
    cpuMax,     \* lg.CPUMax
    memMax,     \* lg.MemMax
    pc,         \* random: "phase", "varying"; spike: "idle", "burst"; "row"
    prevPhase,  \* random: the phase chosen last
    row,        \* tables and sine: the number of steps appended
    totalDur,   \* the length of the schedule so far
    phaseEnd,   \* where the phase in progress ends
    last        \* the step appended last

input == <<kind, duration, hasCPU, hasMem, cpuMax, memMax>>
vars  == <<input, pc, prevPhase, row, totalDur, phaseEnd, last>>

\* What r.IntN(n) returns. It panics unless n > 0.
IntN(n) == 0 .. n - 1

\* The smaller and the larger of two numbers.
Least(a, b) == IF a < b THEN a ELSE b
Most(a, b)  == IF a < b THEN b ELSE a

NoStep == [cpu |-> 0, mem |-> 0, dur |-> 1]

Init ==
    /\ \E i \in Inputs :
          /\ kind = i.kind /\ hasCPU = i.hasCPU /\ hasMem = i.hasMem
          /\ cpuMax = i.cpuMax /\ memMax = i.memMax
          /\ duration = IF i.kind # "random" THEN Hour
                        ELSE IF i.duration <= 0 THEN DefaultDuration ELSE i.duration
          /\ pc = CASE i.kind = "random" -> "phase" [] i.kind = "spike" -> "idle" [] OTHER -> "row"
    /\ prevPhase = "none"
    /\ row = 0 /\ totalDur = 0 /\ phaseEnd = 0
    /\ last = NoStep

-----------------------------------------------------------------------------

\* The two outcomes of r.Float64() < 0.5.
NextPhases ==
    IF prevPhase \in {"none", "idle"} THEN {"sustained", "varying"}
    ELSE {"idle", IF prevPhase = "sustained" THEN "varying" ELSE "sustained"}

\* mem = r.IntN(lg.MemMax + 1), 0 without "mem" in types.
MemExclusive == IF hasMem THEN IntN(memMax) ELSE {0}    \* mutant: no + 1
MemDraws == IF hasMem THEN IntN(memMax + 1) ELSE {0}

\* cpu = 30 + r.IntN(max(1, lg.CPUMax-30)), 0 without "cpu" in types.
SustainedIgnoresTypes == {Floor + k : k \in IntN(Most(1, cpuMax - Floor))}  \* mutant
SustainedDraws ==
    IF hasCPU THEN {Floor + k : k \in IntN(Most(1, cpuMax - Floor))} ELSE {0}

\* cpu = r.IntN(lg.CPUMax + 1), 0 without "cpu" in types.
VaryingDraws == IF hasCPU THEN IntN(cpuMax + 1) ELSE {0}

ClippedBackwards(n) == Least(n, totalDur - duration)  \* mutant: swapped
ClippedPhase(n) == Least(n, duration - totalDur)

ClippedStep(n) == Least(n, phaseEnd - totalDur)

\* steps = append(steps, LoadStep{...}); totalDur += ...
AppendStep(c, m, d) ==
    /\ last' = [cpu |-> c, mem |-> m, dur |-> d]
    /\ totalDur' = totalDur + d

OneMorePhase == totalDur <= duration            \* mutant: <= for <
Unfinished == totalDur < duration

-----------------------------------------------------------------------------
(* GenerateRandomSchedule.                                                 *)

\* A turn of the outer loop that chooses SustainedLoad.
Sustained ==
    /\ pc = "phase" /\ Unfinished
    /\ "sustained" \in NextPhases
    /\ prevPhase' = "sustained"
    /\ \E n \in PhaseLengths, c \in SustainedDraws, m \in MemDraws :
          AppendStep(c, m, ClippedPhase(n))
    /\ UNCHANGED <<input, pc, row, phaseEnd>>

\* A turn of the outer loop that chooses Idle.
Idle ==
    /\ pc = "phase" /\ Unfinished
    /\ "idle" \in NextPhases
    /\ prevPhase' = "idle"
    /\ \E n \in PhaseLengths : AppendStep(0, 0, ClippedPhase(n))
    /\ UNCHANGED <<input, pc, row, phaseEnd>>

\* A turn of the outer loop that chooses VaryingLoad, up to its inner loop.
Varying ==
    /\ pc = "phase" /\ Unfinished
    /\ "varying" \in NextPhases
    /\ prevPhase' = "varying"
    /\ \E n \in PhaseLengths : phaseEnd' = totalDur + ClippedPhase(n)
    /\ pc' = "varying"
    /\ UNCHANGED <<input, row, totalDur, last>>

\* A turn of the inner loop.
VaryingStep ==
    /\ pc = "varying" /\ totalDur < phaseEnd
    /\ \E n \in StepLengths, c \in VaryingDraws, m \in MemDraws :
          AppendStep(c, m, ClippedStep(n))
    /\ UNCHANGED <<input, pc, prevPhase, row, phaseEnd>>

\* The loops have no other effect than where they go on.
Goto(label) ==
    /\ pc' = label
    /\ UNCHANGED <<input, prevPhase, row, totalDur, phaseEnd, last>>

\* The inner loop ends.
EndVarying == pc = "varying" /\ totalDur >= phaseEnd /\ Goto("phase")

\* IntN panics: a limit is negative. The cpu draw of a sustained load never
\* panics, its argument is at least 1.
Panic ==
    /\ \/ pc = "phase" /\ Unfinished /\ "sustained" \in NextPhases /\ MemDraws = {}
       \/ pc = "varying" /\ totalDur < phaseEnd /\ (VaryingDraws = {} \/ MemDraws = {})
    /\ Goto("panicked")

-----------------------------------------------------------------------------
(* doStartSpikeLoad: a pause and a burst in turn, for an hour.              *)

\* The first half of a turn of its loop.
SpikeIdle ==
    /\ pc = "idle" /\ Unfinished
    /\ \E n \in IdleLengths : AppendStep(0, 0, ClippedPhase(n))
    /\ pc' = "burst"
    /\ UNCHANGED <<input, prevPhase, row, phaseEnd>>

AfterPause == TRUE                              \* mutant: no break after the pause
BurstFits == Unfinished

\* The second half, unless the pause was the end of it.
SpikeBurst ==
    /\ pc = "burst" /\ BurstFits
    /\ \E n \in BurstLengths, p \in BurstPercents : AppendStep(Least(p, cpuMax), 0, ClippedPhase(n))
    /\ pc' = "idle"
    /\ UNCHANGED <<input, prevPhase, row, phaseEnd>>

\* The outer loop of GenerateRandomSchedule or of doStartSpikeLoad ends.
Return == pc \in {"phase", "idle", "burst"} /\ ~ Unfinished /\ Goto("done")

-----------------------------------------------------------------------------
(* The tables: a row is a duration in half minutes and the percentages of the *)
(* two limits; and the wave of doStartSineLoad.                              *)

Pause(d) == <<d, 0, 0>>
Cpu(p, d) == <<d, p, 0>>
Mem(p, d) == <<d, 0, p>>
Burst(p) == Cpu(p, 1)
Normal(p) == Cpu(p, 12)

CPUTable ==
    << Burst(90), Pause(1), Burst(90), Pause(1), Normal(10), Pause(12), Normal(20), Pause(12),
       Normal(30), Pause(12), Normal(40), Pause(12), Normal(50), Pause(12), Normal(60), Pause(12),
       Normal(70), Pause(12), Burst(90), Pause(1), Burst(90), Pause(12), Normal(70), Normal(50),
       Normal(20), Pause(1), Burst(90), Pause(20), Burst(90), Pause(20), Burst(90), Pause(12),
       Burst(50), Pause(12), Burst(80), Pause(12), Burst(70), Pause(20) >>
MemTable ==
    << Mem(25, 2), Pause(2), Mem(75, 2), Pause(2), Mem(75, 10), Pause(2), Mem(100, 10), Pause(2) >>
CombinedTable == << <<2, 50, 50>>, <<2, 10, 100>>, <<2, 90, 25>>, Pause(2) >>

\* One step of a hundred years, which no load ever gets to the end of.
StaticTable == << <<105120000, 100, 100>> >>

Table == CASE kind = "cpu" -> CPUTable [] kind = "mem" -> MemTable
           [] kind = "combined" -> CombinedTable [] kind = "static" -> StaticTable

\* The float64 that stands for the full limit: cp of doStartCPULoad divides by
\* 90, the others by 100.
FullScale == IF kind = "cpu" THEN 90 ELSE 100

\* int(x) truncates towards zero.
Truncated(a, b) == IF a >= 0 THEN a \div b ELSE - ((- a) \div b)

\* int(float64(p) / whole * float64(max)). A quotient that no float64 represents
\* may come out just below a whole number.
Share(p, whole, max) ==
    LET exact == Truncated(p * max, whole)
        below == IF p * max > 0 THEN exact - 1 ELSE exact + 1
    IN  {exact} \cup IF (4 * p) % whole # 0 /\ (p * max) % whole = 0 /\ max # 0 THEN {below} ELSE {}

\* The next row of a table.
TableStep ==
    /\ pc = "row" /\ kind \in Tables /\ row < Len(Table)
    /\ LET r == Table[row + 1] IN
          \E c \in Share(r[2], FullScale, cpuMax), m \in Share(r[3], 100, memMax) : AppendStep(c, m, r[1])
    /\ row' = row + 1
    /\ UNCHANGED <<input, pc, prevPhase, phaseEnd>>

\* A limit scaled by a value of the wave.
Sample(w, max) == Truncated(w * max, 1000)

\* The next sample of the wave: sin(x) and sin(x + pi) are opposite.
WaveStep ==
    /\ pc = "row" /\ kind = "sine" /\ row < WaveSteps
    /\ \E w \in Waves : AppendStep(Sample(w, cpuMax), Sample(1000 - w, memMax), 1)
    /\ row' = row + 1
    /\ UNCHANGED <<input, pc, prevPhase, phaseEnd>>

EndRows ==
    /\ pc = "row" /\ row = (IF kind = "sine" THEN WaveSteps ELSE Len(Table))
    /\ Goto("done")

Next ==
    \/ Sustained \/ Idle \/ Varying \/ VaryingStep \/ EndVarying \/ Panic
    \/ SpikeIdle \/ SpikeBurst \/ Return \/ TableStep \/ WaveStep \/ EndRows

Spec == Init /\ [][Next]_vars

\* A generator runs in one goroutine, without waiting for anything.
FairSpec == Spec /\ WF_vars(Next)

-----------------------------------------------------------------------------
(* Properties.                                                             *)

TypeOK ==
    /\ kind \in Kinds /\ duration \in Nat \ {0}
    /\ hasCPU \in BOOLEAN /\ hasMem \in BOOLEAN
    /\ cpuMax \in Int /\ memMax \in Int
    /\ pc \in {"phase", "varying", "idle", "burst", "row", "done", "panicked"}
    /\ pc \in {"phase", "varying", "panicked"} => kind = "random"
    /\ pc \in {"idle", "burst"} => kind = "spike"
    /\ pc = "row" => kind \in Tables \cup {"sine"}
    /\ prevPhase \in {"none", "sustained", "varying", "idle"}
    /\ row \in Nat /\ totalDur \in Nat /\ phaseEnd \in Nat
    /\ last \in [cpu : Int, mem : Int, dur : Int]

\* A random or spike schedule is exactly as long as was asked for, and made of
\* steps that last: clipping phases and bursts at the end of the schedule and
\* varying steps at the end of their phase neither loses nor adds time, and no
\* boundary leaves an empty step (load.go:254-256, 278-281, 457-472).
ExactDuration ==
    /\ last.dur > 0
    /\ kind \in {"random", "spike"} =>
          /\ totalDur <= duration
          /\ pc = "varying" => totalDur <= phaseEnd /\ phaseEnd <= duration
          /\ pc = "done" => totalDur = duration

\* Every step keeps the two limits, whatever was rounded, but for a sustained
\* load whose floor lies above load.cpu.max; and a schedule makes only the kinds
\* of load that were asked for.
LimitsKept ==
    /\ last.mem <= Most(memMax, 0)
    /\ last.cpu > Most(cpuMax, 0) => kind = "random" /\ cpuMax < Floor
    /\ kind = "random" => (~ hasCPU => last.cpu = 0) /\ (~ hasMem => last.mem = 0)
    /\ kind \in {"cpu", "spike"} => last.mem = 0
    /\ kind = "mem" => last.cpu = 0

\* Only a negative limit makes IntN panic, never one that is 0 or below the
\* floor of a sustained load; and the other generators never do.
PanicNeedsNegativeLimit == pc = "panicked" => kind = "random" /\ (cpuMax < 0 \/ memMax < 0)

\* Whatever the pseudo random generator returns, the function returns.
Terminates == <>(pc \in {"done", "panicked"})
=============================================================================
