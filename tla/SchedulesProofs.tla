---------------------------- MODULE SchedulesProofs ----------------------------
(***************************************************************************)
(* Proofs about Schedules, for every duration, every pair of limits, every  *)
(* floor and every set of lengths and percentages.                          *)
(***************************************************************************)
EXTENDS Schedules, TLAPS

\* The safety properties are inductive together: what the steps ask for and how
\* long they are follows from the types and the bookkeeping of the loops.
LInv == TypeOK /\ ExactDuration /\ LimitsKept /\ PanicNeedsNegativeLimit

\* Clipping leaves a positive length that fits the time that is left.
LEMMA Clipping ==
  ASSUME NEW n \in Nat \ {0}, NEW room \in Nat \ {0}
  PROVE  Least(n, room) \in Nat \ {0} /\ Least(n, room) <= room
BY DEF Least

\* Whatever IntN returns is a natural number below its argument.
LEMMA IntNRange == ASSUME NEW n \in Int, NEW k \in IntN(n) PROVE k \in Nat /\ k < n
BY DEF IntN

LEMMA Draws ==
  ASSUME TypeOK
  PROVE  /\ \A m \in MemDraws : m \in Nat /\ m <= Most(memMax, 0) /\ (~ hasMem => m = 0)
         /\ \A c \in SustainedDraws : /\ c \in Nat
                                      /\ cpuMax >= Floor => c <= cpuMax
                                      /\ ~ hasCPU => c = 0
         /\ \A c \in VaryingDraws : /\ c \in Nat
                                    /\ cpuMax >= Floor => c <= cpuMax
                                    /\ ~ hasCPU => c = 0
<1>0. memMax \in Int /\ cpuMax \in Int /\ Floor \in Nat
  BY InputAssumption DEF TypeOK
<1>1. ASSUME NEW m \in MemDraws
      PROVE  m \in Nat /\ m <= Most(memMax, 0) /\ (~ hasMem => m = 0)
  <2>1. CASE hasMem
    BY <1>0, <1>1, <2>1 DEF MemDraws, IntN, Most
  <2>2. CASE ~ hasMem
    BY <1>0, <1>1, <2>2 DEF MemDraws, Most
  <2> QED
    BY <2>1, <2>2
<1>2. ASSUME NEW c \in SustainedDraws
      PROVE  c \in Nat /\ (cpuMax >= Floor => c <= cpuMax) /\ (~ hasCPU => c = 0)
  <2>1. CASE hasCPU
    <3>1. PICK k \in IntN(Most(1, cpuMax - Floor)) : c = Floor + k
      BY <1>2, <2>1 DEF SustainedDraws
    <3>2. k \in Nat /\ (k = 0 \/ k < cpuMax - Floor)
      BY <1>0, <3>1 DEF IntN, Most
    <3> QED
      BY <1>0, <2>1, <3>1, <3>2
  <2>2. CASE ~ hasCPU
    BY <1>0, <1>2, <2>2 DEF SustainedDraws
  <2> QED
    BY <2>1, <2>2
<1>3. ASSUME NEW c \in VaryingDraws
      PROVE  c \in Nat /\ (cpuMax >= Floor => c <= cpuMax) /\ (~ hasCPU => c = 0)
  <2>1. CASE hasCPU
    BY <1>0, <1>3, <2>1 DEF VaryingDraws, IntN
  <2>2. CASE ~ hasCPU
    BY <1>0, <1>3, <2>2 DEF VaryingDraws
  <2> QED
    BY <2>1, <2>2
<1> QED
  BY <1>1, <1>2, <1>3

\* A share of a limit lies between 0 and the limit, also where it is rounded.
LEMMA Shares ==
  ASSUME NEW whole \in {90, 100}, NEW p \in 0 .. whole, NEW max \in Int,
         NEW c \in Share(p, whole, max)
  PROVE  c \in Int /\ c <= Most(max, 0) /\ (p = 0 => c = 0)
<1> DEFINE x == p * max
<1>1. x \in Int /\ (max <= 0 => x <= 0) /\ (max >= 0 => 0 <= x /\ x <= whole * max)
  <2>1. CASE max <= 0
    BY <2>1
  <2>2. CASE max >= 0
    <3>1. (whole - p) * max >= 0 /\ p * max >= 0
      BY <2>2
    <3>2. (whole - p) * max = whole * max - p * max
      OBVIOUS
    <3> QED
      BY <2>2, <3>1, <3>2
  <2> QED
    BY <2>1, <2>2
<1> DEFINE t == Truncated(x, whole)
<1>2. c = t \/ (x > 0 /\ c = t - 1) \/ (p # 0 /\ x <= 0 /\ x % whole = 0 /\ max # 0 /\ c = t + 1)
  BY DEF Share
<1>3. (p = 0 => x = 0) /\ (p # 0 /\ max # 0 => x # 0)
  OBVIOUS
<1> HIDE DEF x
<1>4. /\ t \in Int
      /\ x >= 0 => t >= 0
      /\ x <= 0 => t <= 0
      /\ max >= 0 => t <= max
      /\ x < 0 /\ x % whole = 0 => t <= -1
  BY <1>1 DEF Truncated
<1> QED
  BY <1>1, <1>2, <1>3, <1>4 DEF Most

\* A row lasts and asks for no more than its scale.
Row(r, scale) == r[1] \in Nat \ {0} /\ r[2] \in 0 .. scale /\ r[3] \in 0 .. 100

LEMMA Rows ==
  /\ \A i \in 1 .. Len(CPUTable) : Row(CPUTable[i], 90) /\ CPUTable[i][3] = 0
  /\ \A i \in 1 .. Len(MemTable) : Row(MemTable[i], 100) /\ MemTable[i][2] = 0
  /\ \A i \in 1 .. Len(CombinedTable) : Row(CombinedTable[i], 100)
  /\ \A i \in 1 .. Len(StaticTable) : Row(StaticTable[i], 100)
<1> USE DEF Row, Pause, Cpu, Mem, Burst, Normal
<1>1. \A i \in 1 .. Len(CPUTable) : Row(CPUTable[i], 90) /\ CPUTable[i][3] = 0
  <2> DEFINE R == (Nat \ {0}) \X (0 .. 90) \X {0}
  <2>1. /\ \A d \in Nat \ {0} : Pause(d) \in R
        /\ \A p \in 0 .. 90 : Burst(p) \in R /\ Normal(p) \in R
    <3>1. ASSUME NEW d \in Nat \ {0} PROVE Pause(d) \in R
      OBVIOUS
    <3>2. ASSUME NEW p \in 0 .. 90 PROVE Burst(p) \in R
      OBVIOUS
    <3>3. ASSUME NEW p \in 0 .. 90 PROVE Normal(p) \in R
      OBVIOUS
    <3> QED
      BY <3>1, <3>2, <3>3
  <2>2. CPUTable \in Seq(R)
    <3> HIDE DEF R, Pause, Burst, Normal
    <3> QED
      BY <2>1 DEF CPUTable
  <2> QED
    BY <2>2
<1>2. \A i \in 1 .. Len(MemTable) : Row(MemTable[i], 100) /\ MemTable[i][2] = 0
  BY DEF MemTable
<1>3. \A i \in 1 .. Len(CombinedTable) : Row(CombinedTable[i], 100)
  BY DEF CombinedTable
<1>4. \A i \in 1 .. Len(StaticTable) : Row(StaticTable[i], 100)
  BY DEF StaticTable
<1> QED
  BY <1>1, <1>2, <1>3, <1>4

\* The step a table appends.
LEMMA TableSteps ==
  ASSUME TypeOK, TableStep
  PROVE  \E c, m \in Int, d \in Nat \ {0} :
            /\ AppendStep(c, m, d)
            /\ c <= Most(cpuMax, 0) /\ m <= Most(memMax, 0)
            /\ kind = "cpu" => m = 0
            /\ kind = "mem" => c = 0
<1>1. /\ kind \in Tables /\ cpuMax \in Int /\ memMax \in Int /\ row \in Nat /\ row < Len(Table)
  BY DEF TypeOK, TableStep
<1> DEFINE r == Table[row + 1]
<1>2. /\ Row(r, FullScale)
      /\ kind = "cpu" => r[3] = 0
      /\ kind = "mem" => r[2] = 0
  <2>1. CASE kind = "cpu"
    <3>1. Table = CPUTable /\ Len(CPUTable) \in Nat
      BY <2>1 DEF Table, CPUTable
    <3>2. Row(CPUTable[row + 1], 90) /\ CPUTable[row + 1][3] = 0
      BY <1>1, <3>1, Rows
    <3> QED
      BY <2>1, <3>1, <3>2 DEF FullScale
  <2>2. CASE kind = "mem"
    <3>1. Table = MemTable /\ Len(MemTable) \in Nat
      BY <2>2 DEF Table, MemTable
    <3>2. Row(MemTable[row + 1], 100) /\ MemTable[row + 1][2] = 0
      BY <1>1, <3>1, Rows
    <3> QED
      BY <2>2, <3>1, <3>2 DEF FullScale
  <2>3. CASE kind = "combined"
    <3>1. Table = CombinedTable /\ Len(CombinedTable) \in Nat
      BY <2>3 DEF Table, CombinedTable
    <3>2. Row(CombinedTable[row + 1], 100)
      BY <1>1, <3>1, Rows
    <3> QED
      BY <2>3, <3>1, <3>2 DEF FullScale
  <2>4. CASE kind = "static"
    <3>1. Table = StaticTable /\ Len(StaticTable) \in Nat
      BY <2>4 DEF Table, StaticTable
    <3>2. Row(StaticTable[row + 1], 100)
      BY <1>1, <3>1, Rows
    <3> QED
      BY <2>4, <3>1, <3>2 DEF FullScale
  <2> QED
    BY <1>1, <2>1, <2>2, <2>3, <2>4 DEF Tables
<1>3. PICK c \in Share(r[2], FullScale, cpuMax), m \in Share(r[3], 100, memMax) : AppendStep(c, m, r[1])
  BY DEF TableStep
<1>4. FullScale \in {90, 100}
  BY DEF FullScale
<1>5. r[1] \in Nat \ {0} /\ r[2] \in 0 .. FullScale /\ r[3] \in 0 .. 100
  BY <1>2 DEF Row
<1> HIDE DEF r
<1>6. c \in Int /\ c <= Most(cpuMax, 0) /\ (r[2] = 0 => c = 0)
  <2>1. CASE FullScale = 90
    <3>1. r[2] \in 0 .. 90 /\ c \in Share(r[2], 90, cpuMax)
      BY <1>3, <1>5, <2>1
    <3> QED
      BY <1>1, <3>1, Shares
  <2>2. CASE FullScale = 100
    <3>1. r[2] \in 0 .. 100 /\ c \in Share(r[2], 100, cpuMax)
      BY <1>3, <1>5, <2>2
    <3> QED
      BY <1>1, <3>1, Shares
  <2> QED
    BY <1>4, <2>1, <2>2
<1>7. m \in Int /\ m <= Most(memMax, 0) /\ (r[3] = 0 => m = 0)
  <2>1. r[3] \in 0 .. 100 /\ m \in Share(r[3], 100, memMax) /\ memMax \in Int
    BY <1>1, <1>3, <1>5
  <2> QED
    BY <2>1, Shares
<1>8. (kind = "cpu" => m = 0) /\ (kind = "mem" => c = 0)
  BY <1>2, <1>6, <1>7
<1>9. AppendStep(c, m, r[1])
  BY <1>3
<1> QED
  <2> SUFFICES /\ AppendStep(c, m, r[1])
               /\ c <= Most(cpuMax, 0) /\ m <= Most(memMax, 0)
               /\ kind = "cpu" => m = 0
               /\ kind = "mem" => c = 0
    BY <1>5, <1>6, <1>7, Zenon
  <2> QED
    BY <1>6, <1>7, <1>8, <1>9

\* A sample of the wave keeps the limits.
LEMMA Samples ==
  \A w \in 0 .. 1000 : \A max \in Int : Sample(w, max) \in Int /\ Sample(w, max) <= Most(max, 0)
<1> SUFFICES ASSUME NEW w \in 0 .. 1000, NEW max \in Int
             PROVE  Sample(w, max) \in Int /\ Sample(w, max) <= Most(max, 0)
  OBVIOUS
<1> DEFINE x == w * max
<1>1. x \in Int /\ (max <= 0 => x <= 0) /\ (max >= 0 => 0 <= x /\ x <= 1000 * max)
  <2>1. CASE max <= 0
    BY <2>1
  <2>2. CASE max >= 0
    <3>1. (1000 - w) * max >= 0 /\ w * max >= 0
      BY <2>2
    <3>2. (1000 - w) * max = 1000 * max - w * max
      OBVIOUS
    <3> QED
      BY <2>2, <3>1, <3>2
  <2> QED
    BY <2>1, <2>2
<1> HIDE DEF x
<1>2. Truncated(x, 1000) \in Int /\ Truncated(x, 1000) <= Most(max, 0)
  BY <1>1 DEF Truncated, Most
<1> QED
  BY <1>2 DEF x, Sample

-----------------------------------------------------------------------------

\* What LimitsKept asks of a step that is appended.
Within(c, m) ==
    /\ m <= Most(memMax, 0)
    /\ c > Most(cpuMax, 0) => kind = "random" /\ cpuMax < Floor
    /\ kind = "random" => (~ hasCPU => c = 0) /\ (~ hasMem => m = 0)
    /\ kind \in {"cpu", "spike"} => m = 0
    /\ kind = "mem" => c = 0

\* The label belongs to the loop of the generator that runs.
LabelOf(label) ==
    /\ label \in {"phase", "varying", "idle", "burst", "row"}
    /\ label \in {"phase", "varying"} => kind = "random"
    /\ label \in {"idle", "burst"} => kind = "spike"
    /\ label = "row" => kind \in Tables \cup {"sine"}

\* A step that lasts, fits the time left and keeps the limits keeps LInv.
LEMMA AppendKeeps ==
  ASSUME LInv,
         NEW c \in Int, NEW m \in Int, NEW d \in Nat \ {0},
         AppendStep(c, m, d),
         Within(c, m),
         UNCHANGED <<input, phaseEnd>>,
         LabelOf(pc'),
         prevPhase' \in {"none", "sustained", "varying", "idle"},
         row' \in Nat,
         kind \in {"random", "spike"} => totalDur + d <= duration,
         pc' = "varying" => totalDur + d <= phaseEnd /\ phaseEnd <= duration
  PROVE  LInv'
<1> USE DEF LInv, input
<1>1. /\ last' \in [cpu : Int, mem : Int, dur : Int]
      /\ last'.cpu = c /\ last'.mem = m /\ last'.dur = d /\ d > 0
      /\ totalDur' = totalDur + d /\ totalDur' \in Nat
  BY DEF AppendStep, TypeOK
<1>2. TypeOK'
  BY <1>1 DEF TypeOK, LabelOf
<1>3. pc' \notin {"done", "panicked"}
  BY DEF LabelOf
<1>4. ExactDuration'
  BY <1>1, <1>3 DEF ExactDuration
<1>5. LimitsKept'
  BY <1>1 DEF LimitsKept, Within
<1>6. PanicNeedsNegativeLimit'
  BY <1>3 DEF PanicNeedsNegativeLimit
<1> QED
  BY <1>2, <1>4, <1>5, <1>6

\* So does a jump to another label.
LEMMA GotoKeeps ==
  ASSUME LInv,
         NEW label,
         Goto(label),
         \/ LabelOf(label) /\ label # "varying"
         \/ label = "done" /\ (kind \in {"random", "spike"} => totalDur = duration)
         \/ label = "panicked" /\ kind = "random" /\ (cpuMax < 0 \/ memMax < 0)
  PROVE  LInv'
<1> USE DEF LInv, Goto, input
<1>1. pc' = label /\ UNCHANGED <<kind, duration, hasCPU, hasMem, cpuMax, memMax,
                                  prevPhase, row, totalDur, phaseEnd, last>>
  OBVIOUS
<1>2. TypeOK'
  BY <1>1 DEF TypeOK, LabelOf
<1>3. ExactDuration'
  BY <1>1 DEF ExactDuration, LabelOf
<1>4. LimitsKept'
  BY <1>1 DEF LimitsKept
<1>5. PanicNeedsNegativeLimit'
  BY <1>1 DEF PanicNeedsNegativeLimit, LabelOf
<1> QED
  BY <1>2, <1>3, <1>4, <1>5

\* What is left of the schedule while a loop goes on, and what a phase takes.
LEMMA Room ==
  ASSUME TypeOK, Unfinished, NEW n \in Nat \ {0}
  PROVE  ClippedPhase(n) \in Nat \ {0} /\ totalDur + ClippedPhase(n) <= duration
<1>1. duration \in Nat /\ totalDur \in Nat /\ duration - totalDur \in Nat \ {0}
  BY DEF TypeOK, Unfinished
<1> QED
  BY <1>1, Clipping DEF ClippedPhase

LEMMA LoopStep == LInv /\ [Next]_vars => LInv'
<1> SUFFICES ASSUME LInv, [Next]_vars PROVE LInv'
  OBVIOUS
<1>0. /\ TypeOK
      /\ duration \in Nat /\ totalDur \in Nat /\ phaseEnd \in Nat /\ row \in Nat
      /\ cpuMax \in Int /\ memMax \in Int /\ Floor \in Nat
      /\ pc = "varying" => phaseEnd <= duration
  BY InputAssumption DEF LInv, TypeOK, ExactDuration
<1>1. CASE Sustained
  <2>1. PICK n \in PhaseLengths, c \in SustainedDraws, m \in MemDraws :
             AppendStep(c, m, ClippedPhase(n))
    BY <1>1 DEF Sustained
  <2>2. /\ pc = "phase" /\ pc' = pc /\ Unfinished /\ kind = "random"
        /\ prevPhase' = "sustained" /\ UNCHANGED <<input, phaseEnd, row>>
    BY <1>0, <1>1 DEF Sustained, TypeOK
  <2>3. ClippedPhase(n) \in Nat \ {0} /\ totalDur + ClippedPhase(n) <= duration
    BY <1>0, <2>2, Room, InputAssumption
  <2>4. c \in Int /\ m \in Int /\ Within(c, m)
    BY <1>0, <2>2, Draws DEF Within, Most
  <2> QED
    BY <1>0, <2>1, <2>2, <2>3, <2>4, AppendKeeps DEF LabelOf
<1>2. CASE Idle
  <2>1. PICK n \in PhaseLengths : AppendStep(0, 0, ClippedPhase(n))
    BY <1>2 DEF Idle
  <2>2. /\ pc = "phase" /\ pc' = pc /\ Unfinished /\ kind = "random"
        /\ prevPhase' = "idle" /\ UNCHANGED <<input, phaseEnd, row>>
    BY <1>0, <1>2 DEF Idle, TypeOK
  <2>3. ClippedPhase(n) \in Nat \ {0} /\ totalDur + ClippedPhase(n) <= duration
    BY <1>0, <2>2, Room, InputAssumption
  <2>4. Within(0, 0)
    BY <1>0 DEF Within, Most
  <2> QED
    BY <1>0, <2>1, <2>2, <2>3, <2>4, AppendKeeps DEF LabelOf
<1>3. CASE Varying
  <2>1. PICK n \in PhaseLengths : phaseEnd' = totalDur + ClippedPhase(n)
    BY <1>3 DEF Varying
  <2>2. /\ pc = "phase" /\ pc' = "varying" /\ Unfinished /\ kind = "random"
        /\ prevPhase' = "varying"
        /\ UNCHANGED <<kind, duration, hasCPU, hasMem, cpuMax, memMax, row, totalDur, last>>
    BY <1>0, <1>3 DEF Varying, TypeOK, input
  <2>3. ClippedPhase(n) \in Nat \ {0} /\ totalDur + ClippedPhase(n) <= duration
    BY <1>0, <2>2, Room, InputAssumption
  <2>4. phaseEnd' \in Nat /\ phaseEnd' <= duration /\ totalDur <= phaseEnd'
    BY <1>0, <2>1, <2>3
  <2>5. TypeOK'
    BY <1>0, <2>2, <2>4 DEF TypeOK
  <2>6. ExactDuration'
    BY <2>2, <2>4 DEF LInv, ExactDuration
  <2>7. LimitsKept' /\ PanicNeedsNegativeLimit'
    BY <2>2 DEF LInv, LimitsKept, PanicNeedsNegativeLimit
  <2> QED
    BY <2>5, <2>6, <2>7 DEF LInv
<1>4. CASE VaryingStep
  <2>1. PICK n \in StepLengths, c \in VaryingDraws, m \in MemDraws :
             AppendStep(c, m, ClippedStep(n))
    BY <1>4 DEF VaryingStep
  <2>2. /\ pc = "varying" /\ pc' = pc /\ totalDur < phaseEnd /\ kind = "random"
        /\ UNCHANGED <<input, phaseEnd, prevPhase, row>>
    BY <1>0, <1>4 DEF VaryingStep, TypeOK
  <2>3. ClippedStep(n) \in Nat \ {0} /\ totalDur + ClippedStep(n) <= phaseEnd
    <3>1. phaseEnd - totalDur \in Nat \ {0} /\ n \in Nat \ {0}
      BY <1>0, <2>2, InputAssumption
    <3> QED
      BY <1>0, <3>1, Clipping DEF ClippedStep
  <2>4. c \in Int /\ m \in Int /\ Within(c, m)
    BY <1>0, <2>2, Draws DEF Within, Most
  <2>5. prevPhase' \in {"none", "sustained", "varying", "idle"}
    BY <1>0, <2>2 DEF TypeOK
  <2>6. totalDur + ClippedStep(n) <= duration
    BY <1>0, <2>2, <2>3
  <2> QED
    BY <1>0, <2>1, <2>2, <2>3, <2>4, <2>5, <2>6, AppendKeeps DEF LabelOf
<1>5. CASE EndVarying
  <2>1. pc = "varying" /\ kind = "random" /\ Goto("phase")
    BY <1>0, <1>5 DEF EndVarying, TypeOK
  <2>2. LabelOf("phase")
    BY <2>1 DEF LabelOf
  <2> QED
    BY <2>1, <2>2, GotoKeeps
<1>6. CASE Panic
  <2>1. Goto("panicked") /\ kind = "random" /\ (MemDraws = {} \/ VaryingDraws = {})
    BY <1>0, <1>6 DEF Panic, TypeOK
  <2>2. MemDraws = {} => memMax < 0
    <3>1. 0 \in MemDraws \/ memMax < 0
      BY <1>0 DEF MemDraws, IntN
    <3> QED
      BY <3>1
  <2>3. VaryingDraws = {} => cpuMax < 0
    <3>1. 0 \in VaryingDraws \/ cpuMax < 0
      BY <1>0 DEF VaryingDraws, IntN
    <3> QED
      BY <3>1
  <2> QED
    BY <2>1, <2>2, <2>3, GotoKeeps
<1>7. CASE SpikeIdle
  <2>1. PICK n \in IdleLengths : AppendStep(0, 0, ClippedPhase(n))
    BY <1>7 DEF SpikeIdle
  <2>2. /\ pc = "idle" /\ pc' = "burst" /\ Unfinished /\ kind = "spike"
        /\ UNCHANGED <<input, phaseEnd, prevPhase, row>>
    BY <1>0, <1>7 DEF SpikeIdle, TypeOK
  <2>3. ClippedPhase(n) \in Nat \ {0} /\ totalDur + ClippedPhase(n) <= duration
    BY <1>0, <2>2, Room, InputAssumption
  <2>4. Within(0, 0) /\ prevPhase' \in {"none", "sustained", "varying", "idle"}
    BY <1>0, <2>2 DEF Within, Most, TypeOK
  <2> QED
    BY <1>0, <2>1, <2>2, <2>3, <2>4, AppendKeeps DEF LabelOf
<1>8. CASE SpikeBurst
  <2>1. PICK n \in BurstLengths, p \in BurstPercents :
             AppendStep(Least(p, cpuMax), 0, ClippedPhase(n))
    BY <1>8 DEF SpikeBurst
  <2>2. /\ pc = "burst" /\ pc' = "idle" /\ Unfinished /\ kind = "spike"
        /\ UNCHANGED <<input, phaseEnd, prevPhase, row>>
    BY <1>0, <1>8 DEF SpikeBurst, BurstFits, TypeOK
  <2>3. ClippedPhase(n) \in Nat \ {0} /\ totalDur + ClippedPhase(n) <= duration
    BY <1>0, <2>2, Room, InputAssumption
  <2>4. /\ Least(p, cpuMax) \in Int /\ Within(Least(p, cpuMax), 0)
        /\ prevPhase' \in {"none", "sustained", "varying", "idle"}
    BY <1>0, <2>2, InputAssumption DEF Within, Most, Least, TypeOK
  <2> QED
    BY <1>0, <2>1, <2>2, <2>3, <2>4, AppendKeeps DEF LabelOf
<1>9. CASE Return
  <2>1. pc \in {"phase", "idle", "burst"} /\ ~ Unfinished /\ Goto("done")
    BY <1>9 DEF Return
  <2>2. kind \in {"random", "spike"} => totalDur = duration
    BY <1>0, <2>1 DEF LInv, ExactDuration, Unfinished
  <2> QED
    BY <2>1, <2>2, GotoKeeps
<1>10. CASE TableStep
  <2>1. PICK c \in Int, m \in Int, d \in Nat \ {0} :
            /\ AppendStep(c, m, d)
            /\ c <= Most(cpuMax, 0) /\ m <= Most(memMax, 0)
            /\ kind = "cpu" => m = 0
            /\ kind = "mem" => c = 0
    BY <1>0, <1>10, TableSteps
  <2>2. /\ pc = "row" /\ pc' = pc /\ kind \in Tables
        /\ row' = row + 1 /\ UNCHANGED <<input, phaseEnd, prevPhase>>
    BY <1>10 DEF TableStep
  <2>3. Within(c, m)
    BY <1>0, <2>1, <2>2 DEF Within, Most, Tables
  <2>4. prevPhase' \in {"none", "sustained", "varying", "idle"} /\ row' \in Nat
    BY <1>0, <2>2 DEF TypeOK
  <2>5. LabelOf(pc') /\ kind \notin {"random", "spike"} /\ pc' # "varying"
    BY <2>2 DEF LabelOf, Tables
  <2> QED
    BY <2>1, <2>2, <2>3, <2>4, <2>5, AppendKeeps
<1>11. CASE WaveStep
  <2>1. PICK w \in Waves : AppendStep(Sample(w, cpuMax), Sample(1000 - w, memMax), 1)
    BY <1>11 DEF WaveStep
  <2>2. /\ pc = "row" /\ pc' = pc /\ kind = "sine"
        /\ row' = row + 1 /\ UNCHANGED <<input, phaseEnd, prevPhase>>
    BY <1>11 DEF WaveStep
  <2>3. w \in 0 .. 1000 /\ 1000 - w \in 0 .. 1000
    BY InputAssumption
  <2>4. /\ Sample(w, cpuMax) \in Int /\ Sample(w, cpuMax) <= Most(cpuMax, 0)
        /\ Sample(1000 - w, memMax) \in Int /\ Sample(1000 - w, memMax) <= Most(memMax, 0)
    <3>0. w \in 0 .. 1000 /\ cpuMax \in Int /\ memMax \in Int
      BY <1>0, <2>3
    <3>1. Sample(w, cpuMax) \in Int /\ Sample(w, cpuMax) <= Most(cpuMax, 0)
      BY <3>0, Samples, ZenonT(60)
    <3>2. ASSUME NEW v \in 0 .. 1000 PROVE Sample(v, memMax) \in Int /\ Sample(v, memMax) <= Most(memMax, 0)
      BY <3>0, Samples, ZenonT(60)
    <3>3. Sample(1000 - w, memMax) \in Int /\ Sample(1000 - w, memMax) <= Most(memMax, 0)
      BY <2>3, <3>2
    <3> QED
      BY <3>1, <3>3
  <2>5. Within(Sample(w, cpuMax), Sample(1000 - w, memMax))
    BY <1>0, <2>2, <2>4 DEF Within, Most
  <2>6. prevPhase' \in {"none", "sustained", "varying", "idle"} /\ row' \in Nat
    BY <1>0, <2>2 DEF TypeOK
  <2>7. LabelOf(pc') /\ kind \notin {"random", "spike"} /\ pc' # "varying"
    BY <2>2 DEF LabelOf
  <2> QED
    BY <2>1, <2>2, <2>4, <2>5, <2>6, <2>7, AppendKeeps
<1>12. CASE EndRows
  <2>1. pc = "row" /\ kind \in Tables \cup {"sine"} /\ Goto("done")
    BY <1>0, <1>12 DEF EndRows, TypeOK
  <2>2. kind \notin {"random", "spike"}
    BY <2>1 DEF Tables
  <2> QED
    BY <2>1, <2>2, GotoKeeps
<1>13. CASE UNCHANGED vars
  BY <1>13 DEF vars, input, LInv, TypeOK, ExactDuration, LimitsKept, PanicNeedsNegativeLimit
<1> QED
  BY <1>1, <1>2, <1>3, <1>4, <1>5, <1>6, <1>7, <1>8, <1>9, <1>10, <1>11, <1>12, <1>13 DEF Next

LEMMA LoopStart == Init => LInv
<1> SUFFICES ASSUME Init PROVE LInv
  OBVIOUS
<1>1. PICK i \in Inputs :
          /\ kind = i.kind /\ hasCPU = i.hasCPU /\ hasMem = i.hasMem
          /\ cpuMax = i.cpuMax /\ memMax = i.memMax
          /\ duration = IF i.kind # "random" THEN Hour
                        ELSE IF i.duration <= 0 THEN DefaultDuration ELSE i.duration
          /\ pc = CASE i.kind = "random" -> "phase" [] i.kind = "spike" -> "idle" [] OTHER -> "row"
  BY DEF Init
<1>2. /\ kind \in Kinds /\ hasCPU \in BOOLEAN /\ hasMem \in BOOLEAN
      /\ cpuMax \in Int /\ memMax \in Int /\ duration \in Nat \ {0}
  BY <1>1, InputAssumption
<1>3. LabelOf(pc) /\ pc # "varying"
  BY <1>1, <1>2 DEF LabelOf, Kinds
<1>4. /\ prevPhase = "none" /\ row = 0 /\ totalDur = 0 /\ phaseEnd = 0
      /\ last = [cpu |-> 0, mem |-> 0, dur |-> 1]
  BY DEF Init, NoStep
<1>5. TypeOK
  BY <1>2, <1>3, <1>4 DEF TypeOK, LabelOf
<1>6. ExactDuration /\ PanicNeedsNegativeLimit
  BY <1>2, <1>3, <1>4 DEF ExactDuration, PanicNeedsNegativeLimit, LabelOf
<1>7. LimitsKept
  BY <1>2, <1>4 DEF LimitsKept, Most
<1> QED
  BY <1>5, <1>6, <1>7 DEF LInv

LEMMA LoopInvariant == Spec => []LInv
BY LoopStart, LoopStep, PTL DEF Spec

-----------------------------------------------------------------------------

\* The types hold of every schedule that is made.
THEOREM TypeCorrect == Spec => []TypeOK
<1>1. LInv => TypeOK
  BY DEF LInv
<1> QED
  BY <1>1, LoopInvariant, PTL

\* A random or spike schedule is exactly as long as asked for, without an empty
\* step, for every duration and every set of lengths (load.go:211-306, 455-477).
THEOREM ScheduleIsExact == Spec => []ExactDuration
<1>1. LInv => ExactDuration
  BY DEF LInv
<1> QED
  BY <1>1, LoopInvariant, PTL

\* No step exceeds a limit but for the floor of a sustained load, for every pair
\* of limits and every rounding of the shares (load.go:211-497).
THEOREM StepsKeepLimits == Spec => []LimitsKept
<1>1. LInv => LimitsKept
  BY DEF LInv
<1> QED
  BY <1>1, LoopInvariant, PTL

\* Only a negative limit makes a generator panic (load.go:262, 283, 286).
THEOREM PanicIsJustified == Spec => []PanicNeedsNegativeLimit
<1>1. LInv => PanicNeedsNegativeLimit
  BY DEF LInv
<1> QED
  BY <1>1, LoopInvariant, PTL
=============================================================================
