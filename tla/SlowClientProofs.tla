-------------------------- MODULE SlowClientProofs --------------------------
(***************************************************************************)
(* Proofs about SlowClient, for every plan, limit and number of ticks. The    *)
(* requests under way are a sum over the steps (SendingUpTo), a recursive     *)
(* function: what it returns is proved by induction, which rests here on a    *)
(* set that has no least element outside it being all of Nat.                *)
(***************************************************************************)
EXTENDS SlowClient, TLAPS, WellFoundedInduction

-----------------------------------------------------------------------------
(* Induction over the natural numbers, for a set. *)

\* A set of natural numbers that is not empty has a least element.
LEMMA LeastNumber ==
    ASSUME NEW T \in SUBSET Nat, T # {}
    PROVE  \E m \in T : \A k \in T : m <= k
<1>. DEFINE Below == OpToRel(<, Nat)
<1>1. IsWellFoundedOn(Below, Nat)
  BY NatLessThanWellFounded, Zenon
<1>2. \A k, m \in Nat : k < m => <<k, m>> \in Below
  BY DEF OpToRel
<1>. HIDE DEF Below
<1>3. PICK m \in T : \A k \in T : <<k, m>> \notin Below
  BY <1>1, WFMin
<1>4. ASSUME NEW k \in T PROVE m <= k
  <2>1. ~ (k < m)
    BY <1>2, <1>3
  <2>. QED BY <2>1
<1>. QED BY <1>4

\* A set with 0 that has the successor of each of its members is Nat.
LEMMA Induction ==
    ASSUME NEW S \in SUBSET Nat, 0 \in S, \A n \in S : n + 1 \in S
    PROVE  S = Nat
<1>1. ASSUME Nat \ S # {} PROVE FALSE
  <2>1. PICK m \in Nat \ S : \A k \in Nat \ S : m <= k
    BY <1>1, LeastNumber
  <2>2. m # 0 /\ m - 1 \in S
    BY <2>1
  <2>. QED BY <2>1, <2>2
<1>. QED BY <1>1

-----------------------------------------------------------------------------
(* The sum over the steps. *)

\* f has the sums of the first k of the numbers s, k <= n.
IsSumUpTo(f, s, n) == f[0] = 0 /\ \A k \in 1..n : f[k] = f[k - 1] + s[k]

\* SendingUpTo, for any numbers s instead of sending.
Equation(f, s) == f = [k \in 0..Steps |-> IF k = 0 THEN 0 ELSE f[k - 1] + s[k]]
SumOf(s) == CHOOSE f : Equation(f, s)

\* Sums of the first n numbers, with one more.
LEMMA OneMore ==
    ASSUME NEW s \in [StepIds -> Nat], NEW n \in Nat, n + 1 <= Steps,
           NEW f \in [0..n -> Nat], IsSumUpTo(f, s, n)
    PROVE  \E g \in [0..(n + 1) -> Nat] : IsSumUpTo(g, s, n + 1)
<1>. DEFINE g == [k \in 0..(n + 1) |-> IF k = n + 1 THEN f[n] + s[n + 1] ELSE f[k]]
<1>1. f[n] + s[n + 1] \in Nat
  BY StepsAssumption DEF StepIds
<1>2. g \in [0..(n + 1) -> Nat]
  BY <1>1
<1>3. g[0] = 0
  BY DEF IsSumUpTo
<1>4. ASSUME NEW k \in 1..(n + 1) PROVE g[k] = g[k - 1] + s[k]
  <2>1. CASE k = n + 1
    <3>1. g[k] = f[n] + s[n + 1] /\ k - 1 = n /\ g[n] = f[n]
      BY <2>1
    <3>. QED BY <2>1, <3>1
  <2>2. CASE k # n + 1
    <3>1. k \in 1..n /\ k - 1 \in 0..n
      BY <2>2
    <3>2. g[k] = f[k] /\ g[k - 1] = f[k - 1]
      BY <3>1
    <3>. QED BY <3>1, <3>2 DEF IsSumUpTo
  <2>. QED BY <2>1, <2>2
<1>. HIDE DEF g
<1>5. IsSumUpTo(g, s, n + 1)
  BY <1>3, <1>4 DEF IsSumUpTo
<1>. QED BY <1>2, <1>5

\* Any numbers have sums.
LEMMA SumsExist ==
    ASSUME NEW s \in [StepIds -> Nat]
    PROVE  \E f \in [0..Steps -> Nat] : IsSumUpTo(f, s, Steps)
<1>. DEFINE HasSums(n) == \E f \in [0..n -> Nat] : IsSumUpTo(f, s, n)
<1>. DEFINE S == {n \in Nat : n <= Steps => HasSums(n)}
<1>1. HasSums(0)
  <2>. DEFINE f == [k \in 0..0 |-> 0]
  <2>1. f \in [0..0 -> Nat] /\ IsSumUpTo(f, s, 0)
    BY DEF IsSumUpTo
  <2>. HIDE DEF f
  <2>. QED BY <2>1
<1>2. ASSUME NEW n \in Nat, HasSums(n), n + 1 <= Steps PROVE HasSums(n + 1)
  <2>1. PICK f \in [0..n -> Nat] : IsSumUpTo(f, s, n)
    BY <1>2
  <2>. QED BY <1>2, <2>1, OneMore
<1>. HIDE DEF HasSums
<1>3. 0 \in S
  BY <1>1
<1>4. ASSUME NEW n \in S PROVE n + 1 \in S
  BY <1>2, StepsAssumption
<1>5. S \in SUBSET Nat
  OBVIOUS
<1>. HIDE DEF S
<1>6. S = Nat
  BY <1>3, <1>4, <1>5, Induction
<1>7. HasSums(Steps)
  BY <1>6, StepsAssumption DEF S
<1>. QED BY <1>7 DEF HasSums

\* The recursive definition has them as its value.
LEMMA SumDefined ==
    ASSUME NEW s \in [StepIds -> Nat]
    PROVE  SumOf(s) \in [0..Steps -> Nat] /\ IsSumUpTo(SumOf(s), s, Steps)
<1>1. PICK f \in [0..Steps -> Nat] : IsSumUpTo(f, s, Steps)
  BY SumsExist
<1>2. Equation(f, s)
  <2>1. ASSUME NEW k \in 0..Steps PROVE f[k] = IF k = 0 THEN 0 ELSE f[k - 1] + s[k]
    BY <1>1, StepsAssumption DEF IsSumUpTo
  <2>. QED BY <2>1 DEF Equation
<1>3. Equation(SumOf(s), s)
  BY <1>2, Zenon DEF SumOf
<1>. DEFINE g == SumOf(s)
<1>. HIDE DEF g
<1>4. g = [k \in 0..Steps |-> IF k = 0 THEN 0 ELSE g[k - 1] + s[k]]
  BY <1>3 DEF Equation, g
<1>5. IsSumUpTo(g, s, Steps)
  <2>1. \A k \in 0..Steps : g[k] = IF k = 0 THEN 0 ELSE g[k - 1] + s[k]
    BY <1>4, Zenon
  <2>. QED BY <2>1, StepsAssumption DEF IsSumUpTo
<1>. DEFINE S == {n \in Nat : n <= Steps => g[n] \in Nat}
<1>6. 0 \in S
  BY <1>5 DEF IsSumUpTo
<1>7. ASSUME NEW n \in S PROVE n + 1 \in S
  <2>1. ASSUME n + 1 <= Steps PROVE g[n + 1] \in Nat
    <3>1. g[n] \in Nat /\ s[n + 1] \in Nat
      BY <2>1, StepsAssumption DEF StepIds
    <3>2. g[n + 1] = g[n] + s[n + 1]
      BY <1>5, <2>1, StepsAssumption DEF IsSumUpTo
    <3>. QED BY <3>1, <3>2
  <2>2. n + 1 \in Nat
    OBVIOUS
  <2>. QED BY <2>1, <2>2
<1>8. S \in SUBSET Nat
  OBVIOUS
<1>. HIDE DEF S
<1>9. S = Nat
  BY <1>6, <1>7, <1>8, Induction
<1>10. \A n \in 0..Steps : g[n] \in Nat
  BY <1>9, StepsAssumption DEF S
<1>11. g \in [0..Steps -> Nat]
  BY <1>4, <1>10
<1>. QED BY <1>5, <1>11 DEF g

\* One of the numbers changes by d, and the sum of all with it.
LEMMA SumChanges ==
    ASSUME NEW s \in [StepIds -> Nat], NEW t \in [StepIds -> Nat], NEW j \in StepIds, NEW d \in Int,
           t[j] = s[j] + d, \A k \in StepIds : k # j => t[k] = s[k]
    PROVE  SumOf(t)[Steps] = SumOf(s)[Steps] + d
<1>. DEFINE f == SumOf(s)  g == SumOf(t)
<1>. HIDE DEF f, g
<1>1. /\ f \in [0..Steps -> Nat] /\ g \in [0..Steps -> Nat]
      /\ IsSumUpTo(f, s, Steps) /\ IsSumUpTo(g, t, Steps)
  BY SumDefined DEF f, g
<1>2. f[0] = 0 /\ g[0] = 0 /\ \A k \in 1..Steps : f[k] = f[k - 1] + s[k] /\ g[k] = g[k - 1] + t[k]
  BY <1>1 DEF IsSumUpTo
<1>. DEFINE S == {n \in Nat : n <= Steps => g[n] = IF n < j THEN f[n] ELSE f[n] + d}
<1>3. 0 \in S
  BY <1>2 DEF StepIds
<1>4. ASSUME NEW n \in S PROVE n + 1 \in S
  <2>1. ASSUME n + 1 <= Steps PROVE g[n + 1] = IF n + 1 < j THEN f[n + 1] ELSE f[n + 1] + d
    <3>1. n \in 0..Steps /\ n + 1 \in StepIds /\ g[n] = IF n < j THEN f[n] ELSE f[n] + d
      BY <2>1, StepsAssumption DEF StepIds
    <3>2. f[n + 1] = f[n] + s[n + 1] /\ g[n + 1] = g[n] + t[n + 1]
      BY <1>2, <3>1 DEF StepIds
    <3>3. f[n] \in Nat /\ s[n + 1] \in Nat /\ j \in Nat
      BY <1>1, <3>1 DEF StepIds
    <3>. QED BY <3>1, <3>2, <3>3
  <2>2. n + 1 \in Nat
    OBVIOUS
  <2>. QED BY <2>1, <2>2
<1>5. S \in SUBSET Nat
  OBVIOUS
<1>. HIDE DEF S
<1>6. S = Nat
  BY <1>3, <1>4, <1>5, Induction
<1>7. g[Steps] = f[Steps] + d
  BY <1>6, StepsAssumption DEF S, StepIds
<1>. QED BY <1>7 DEF f, g

\* Numbers that are all zero have the sum zero.
LEMMA SumOfNothing ==
    ASSUME NEW s \in [StepIds -> Nat], \A k \in StepIds : s[k] = 0
    PROVE  SumOf(s)[Steps] = 0
<1>. DEFINE f == SumOf(s)
<1>. HIDE DEF f
<1>1. f[0] = 0 /\ \A k \in 1..Steps : f[k] = f[k - 1] + s[k]
  BY SumDefined DEF f, IsSumUpTo
<1>. DEFINE S == {n \in Nat : n <= Steps => f[n] = 0}
<1>2. 0 \in S
  BY <1>1
<1>3. ASSUME NEW n \in S PROVE n + 1 \in S
  BY <1>1, StepsAssumption DEF StepIds
<1>4. S \in SUBSET Nat
  OBVIOUS
<1>. HIDE DEF S
<1>5. S = Nat
  BY <1>2, <1>3, <1>4, Induction
<1>6. f[Steps] = 0
  BY <1>5, StepsAssumption DEF S
<1>. QED BY <1>6 DEF f

\* None of the numbers is larger than their sum.
LEMMA SumBounds ==
    ASSUME NEW s \in [StepIds -> Nat], NEW j \in StepIds
    PROVE  SumOf(s)[Steps] \in Nat /\ s[j] <= SumOf(s)[Steps]
<1>. DEFINE f == SumOf(s)
<1>. HIDE DEF f
<1>1. f \in [0..Steps -> Nat] /\ \A k \in 1..Steps : f[k] = f[k - 1] + s[k]
  BY SumDefined DEF f, IsSumUpTo
<1>. DEFINE S == {n \in Nat : j + n <= Steps => s[j] <= f[j + n]}
<1>2. 0 \in S
  <2>1. j \in 1..Steps /\ j - 1 \in 0..Steps /\ s[j] \in Nat
    BY StepsAssumption DEF StepIds
  <2>2. f[j] = f[j - 1] + s[j] /\ f[j - 1] \in Nat
    BY <1>1, <2>1
  <2>. QED BY <2>1, <2>2
<1>3. ASSUME NEW n \in S PROVE n + 1 \in S
  <2>1. ASSUME j + (n + 1) <= Steps PROVE s[j] <= f[j + (n + 1)]
    <3>1. j + n \in 0..Steps /\ j + (n + 1) \in StepIds /\ s[j] <= f[j + n]
      BY <2>1, StepsAssumption DEF StepIds
    <3>2. f[j + (n + 1)] = f[j + n] + s[j + (n + 1)]
      BY <1>1, <3>1 DEF StepIds
    <3>3. f[j + n] \in Nat /\ s[j + (n + 1)] \in Nat /\ s[j] \in Nat
      BY <1>1, <3>1
    <3>. QED BY <3>1, <3>2, <3>3
  <2>2. n + 1 \in Nat
    OBVIOUS
  <2>. QED BY <2>1, <2>2
<1>4. S \in SUBSET Nat
  OBVIOUS
<1>. HIDE DEF S
<1>5. S = Nat
  BY <1>2, <1>3, <1>4, Induction
<1>6. PICK n \in S : j + n = Steps
  <2>1. Steps - j \in Nat /\ j + (Steps - j) = Steps
    BY StepsAssumption DEF StepIds
  <2>. QED BY <1>5, <2>1
<1>7. s[j] <= f[Steps]
  <2>1. Steps <= Steps
    BY StepsAssumption
  <2>. QED BY <1>6, <2>1 DEF S
<1>8. f[Steps] \in Nat
  BY <1>1, StepsAssumption
<1>. QED BY <1>7, <1>8 DEF f

\* The sum of the model is one of these, before and after a step.
LEMMA SendingIsTheSum == SendingUpTo = SumOf(sending) /\ SendingUpTo' = SumOf(sending')
  BY DEF SendingUpTo, SumOf, Equation

\* The requests of all steps whose client.Do has not returned.
Total == SendingUpTo[Steps]

\* The total depends on nothing else.
LEMMA TotalKept == sending' = sending => Total' = Total
  BY SendingIsTheSum DEF Total

\* The total of natural numbers is one.
LEMMA TotalIsNat == sending \in [StepIds -> Nat] => Total \in Nat
<1>1. 1 \in StepIds
  BY StepsAssumption DEF StepIds
<1>. QED BY <1>1, SumBounds, SendingIsTheSum DEF Total

\* One request more or less is one more or less in total.
LEMMA TotalChanges ==
    ASSUME sending \in [StepIds -> Nat], NEW j \in StepIds, NEW n \in Nat, sending' = [sending EXCEPT ![j] = n]
    PROVE  /\ sending' \in [StepIds -> Nat] /\ sending'[j] = n
           /\ \A k \in StepIds : k # j => sending'[k] = sending[k]
           /\ Total \in Nat /\ Total' = Total + (n - sending[j])
<1>1. /\ sending' \in [StepIds -> Nat] /\ sending'[j] = n
      /\ \A k \in StepIds : k # j => sending'[k] = sending[k]
  OBVIOUS
<1>2. n - sending[j] \in Int /\ n = sending[j] + (n - sending[j])
  OBVIOUS
<1>3. ASSUME NEW t \in [StepIds -> Nat], t[j] = n, \A k \in StepIds : k # j => t[k] = sending[k]
      PROVE  SumOf(t)[Steps] = SumOf(sending)[Steps] + (n - sending[j])
  <2>. DEFINE d == n - sending[j]
  <2>1. d \in Int /\ t[j] = sending[j] + d
    BY <1>2, <1>3
  <2>. HIDE DEF d
  <2>2. SumOf(t)[Steps] = SumOf(sending)[Steps] + d
    BY <1>3, <2>1, SumChanges
  <2>. QED BY <2>2 DEF d
<1>. QED BY <1>1, <1>3, TotalIsNat, SendingIsTheSum DEF Total

-----------------------------------------------------------------------------
(* The inductive invariant. *)

\* A token for every request under way, whichever step it is of.
TokensAreRequests == sem = InFlight

\* The WaitGroup counts the goroutines that have not gone.
WgCountsGoroutines == wg = sem + leaving

\* Requests are sent for a step that was started.
StepStarted == pc = "loop" => step \in StepIds

\* Nobody is left, and nobody can come, once the wait at the end is over.
DrainIsFinal == drained => wg = 0 /\ pc \in {"drain", "returned"}

\* How runSlow can have returned.
ReturnOrigin ==
  /\ err = "none" <=> pc # "returned"
  /\ err = "nil" => drained \/ cancelled

\* A request is cut short by the cancellation of the run only.
CutByCancellation == \A k \in StepIds : count[k]["uncounted"] = 0 \/ cancelled

\* Before the first step nothing has happened, nor in a step that is to come.
Beginnings ==
  /\ step = 0 => sem = 0
  /\ usage # "none" => step = 0
  /\ \A k \in StepIds : k > step => count[k]["launched"] = 0 /\ count[k]["skipped"] = 0

\* TypeOK without the flags, and the flags.
PlainTypes ==
  /\ usage \in {"none", "arguments", "rate"}
  /\ pc \in {"head", "loop", "report", "drain", "returned"}
  /\ step \in 0..Steps
  /\ tickC \in 0..1 /\ ticks \in 0..MaxTicks
  /\ sem \in 0..SemSize /\ wg \in Nat
  /\ sending \in [StepIds -> Nat] /\ answered \in Nat /\ leaving \in Nat
  /\ count \in [StepIds -> [Counters -> Nat]]
  /\ err \in {"none", "nil", "Canceled", "Usage", "panic"}

Flags == cancelled \in BOOLEAN /\ stepCtx \in BOOLEAN /\ drained \in BOOLEAN

\* What counts requests, and what the labels and flags say of them.
Numbers == PlainTypes /\ TokensAreRequests /\ WgCountsGoroutines /\ CountersAddUp /\ StepStarted
Endings == DrainIsFinal /\ ReturnOrigin /\ CutByCancellation

IInv == Numbers /\ Flags /\ Endings /\ Beginnings

\* The channel of tokens has a capacity of at least one.
LEMMA SemSizePositive == SemSize \in Nat \ {0}
  BY SizeAssumption DEF SemSize

\* A step of one counter adds one to it and leaves the others alone.
LEMMA Bumping ==
  ASSUME count \in [StepIds -> [Counters -> Nat]], NEW k \in StepIds, NEW c \in Counters,
         count' = Bump(k, c)
  PROVE  /\ count' \in [StepIds -> [Counters -> Nat]]
         /\ count'[k][c] = count[k][c] + 1
         /\ \A d \in Counters : d # c => count'[k][d] = count[k][d]
         /\ \A i \in StepIds : i # k => count'[i] = count[i]
  BY DEF Bump

\* What a step that leaves the requests alone may change.
LEMMA NumbersKept ==
  ASSUME Numbers, UNCHANGED <<sem, wg, requests, count>>,
         usage' = usage, pc' \in {"head", "loop", "report", "drain", "returned"},
         step' \in 0..Steps, tickC' \in 0..1, ticks' \in 0..MaxTicks,
         err' \in {"none", "nil", "Canceled", "Usage", "panic"}, StepStarted'
  PROVE  Numbers'
<1>. USE DEF Numbers, requests
<1>1. PlainTypes'
  BY DEF PlainTypes
<1>2. TokensAreRequests'
  BY TotalKept DEF TokensAreRequests, InFlight, Total
<1>3. WgCountsGoroutines' /\ CountersAddUp'
  BY DEF WgCountsGoroutines, CountersAddUp
<1>. QED BY <1>1, <1>2, <1>3

\* The parts of the invariant hold when runSlow is called.
LEMMA InitEstablishes == Init => IInv
<1>. SUFFICES ASSUME Init PROVE IInv
  OBVIOUS
<1>1. Flags
  BY Zenon DEF Init, Flags
<1>2. sending \in [StepIds -> Nat] /\ \A k \in StepIds : sending[k] = 0
  BY DEF Init
<1>3. Total = 0
  BY <1>2, SumOfNothing, SendingIsTheSum DEF Total
<1>4. count \in [StepIds -> [Counters -> Nat]] /\ \A k \in StepIds, c \in Counters : count[k][c] = 0
  BY DEF Init, Zero
<1>5. /\ usage \in {"none", "arguments", "rate"} /\ pc = "head" /\ step = 0 /\ tickC = 0 /\ ticks = 0
      /\ sem = 0 /\ wg = 0 /\ answered = 0 /\ leaving = 0 /\ err = "none"
  BY DEF Init
<1>6. PlainTypes
  BY <1>2, <1>4, <1>5, SemSizePositive, StepsAssumption, TicksAssumption DEF PlainTypes
<1>7. TokensAreRequests /\ WgCountsGoroutines /\ StepStarted
  BY <1>3, <1>5 DEF TokensAreRequests, InFlight, Total, WgCountsGoroutines, StepStarted
<1>8. CountersAddUp
  BY <1>2, <1>4 DEF CountersAddUp, Counters
<1>9. ~ drained
  BY Zenon DEF Init
<1>10. DrainIsFinal /\ ReturnOrigin /\ CutByCancellation
  BY <1>4, <1>5, <1>9 DEF DrainIsFinal, ReturnOrigin, CutByCancellation, Counters
<1>11. Beginnings
  BY <1>4, <1>5 DEF Beginnings, Counters
<1>. QED BY <1>1, <1>6, <1>7, <1>8, <1>10, <1>11 DEF IInv, Numbers, Endings

\* The tokens in terms of the sum, before and after a step.
LEMMA TokensAndTotal ==
    /\ TokensAreRequests <=> sem = Total + answered
    /\ TokensAreRequests' <=> sem' = Total' + answered'
  BY DEF TokensAreRequests, InFlight, Total

\* Each step keeps the numbers adding up: one case per action.
LEMMA NumbersStep == ASSUME Numbers, [Next]_vars PROVE Numbers'
<1>. USE SemSizePositive, StepsAssumption
<1>0. /\ PlainTypes /\ WgCountsGoroutines /\ StepStarted /\ CountersAddUp
      /\ sending \in [StepIds -> Nat] /\ count \in [StepIds -> [Counters -> Nat]]
      /\ sem = Total + answered
  BY TokensAndTotal DEF Numbers, PlainTypes
<1>1. CASE RejectArguments
  BY <1>0, <1>1, NumbersKept DEF PlainTypes, StepStarted, RejectArguments, requests
<1>2. CASE PanicInNewTicker
  BY <1>0, <1>2, NumbersKept DEF PlainTypes, StepStarted, PanicInNewTicker, requests
<1>3. CASE ReturnCtxErr
  BY <1>0, <1>3, NumbersKept DEF PlainTypes, StepStarted, ReturnCtxErr, requests
<1>4. CASE StartStep
  <2>1. step' \in StepIds /\ step' \in 0..Steps
    BY <1>0, <1>4 DEF StartStep, StepIds, PlainTypes
  <2>2. ticks' \in 0..MaxTicks
    BY <1>4, TicksAssumption DEF StartStep
  <2>. QED BY <1>0, <1>4, <2>1, <2>2, NumbersKept DEF StartStep, requests, PlainTypes, StepStarted
<1>5. CASE Launch
  <2>1. /\ step \in StepIds /\ sem < SemSize /\ sem' = sem + 1 /\ wg' = wg + 1 /\ tickC' = 0
        /\ sending' = [sending EXCEPT ![step] = sending[step] + 1] /\ count' = Bump(step, "launched")
        /\ UNCHANGED <<usage, pc, step, ticks, answered, leaving, err>>
    BY <1>0, <1>5 DEF Launch, HasRoom, StepStarted
  <2>2. /\ sending' \in [StepIds -> Nat] /\ sending'[step] = sending[step] + 1
        /\ \A k \in StepIds : k # step => sending'[k] = sending[k]
        /\ Total \in Nat /\ Total' = Total + 1
    <3>1. sending[step] \in Nat /\ sending[step] + 1 \in Nat
      BY <1>0, <2>1
    <3>2. /\ sending' \in [StepIds -> Nat] /\ sending'[step] = sending[step] + 1
          /\ \A k \in StepIds : k # step => sending'[k] = sending[k]
          /\ Total \in Nat /\ Total' = Total + ((sending[step] + 1) - sending[step])
      BY <1>0, <2>1, <3>1, TotalChanges
    <3>. QED BY <3>1, <3>2
  <2>3. /\ count' \in [StepIds -> [Counters -> Nat]]
        /\ count'[step]["launched"] = count[step]["launched"] + 1
        /\ \A d \in Counters : d # "launched" => count'[step][d] = count[step][d]
        /\ \A i \in StepIds : i # step => count'[i] = count[i]
    BY <1>0, <2>1, Bumping DEF Counters
  <2>4. PlainTypes' /\ StepStarted'
    BY <1>0, <2>1, <2>2, <2>3 DEF PlainTypes, StepStarted
  <2>5. TokensAreRequests' /\ WgCountsGoroutines'
    BY <1>0, <2>1, <2>2, TokensAndTotal DEF WgCountsGoroutines, PlainTypes
  <2>6. ASSUME NEW k \in StepIds
        PROVE  count'[k]["completed"] + count'[k]["errors"] + count'[k]["uncounted"] + sending'[k]
                 = count'[k]["launched"]
    BY <1>0, <2>1, <2>2, <2>3 DEF CountersAddUp, Counters
  <2>. QED BY <2>4, <2>5, <2>6 DEF CountersAddUp, Numbers
<1>6. CASE Skip
  <2>1. /\ step \in StepIds /\ tickC' = 0 /\ count' = Bump(step, "skipped")
        /\ UNCHANGED <<usage, pc, step, ticks, sem, wg, sending, answered, leaving, err>>
    BY <1>0, <1>6 DEF Skip, requests, StepStarted
  <2>2. /\ count' \in [StepIds -> [Counters -> Nat]]
        /\ \A d \in Counters : d # "skipped" => count'[step][d] = count[step][d]
        /\ \A i \in StepIds : i # step => count'[i] = count[i]
    BY <1>0, <2>1, Bumping DEF Counters
  <2>3. PlainTypes' /\ StepStarted'
    BY <1>0, <2>1, <2>2 DEF PlainTypes, StepStarted
  <2>4. TokensAreRequests' /\ WgCountsGoroutines'
    BY <1>0, <2>1, TotalKept, TokensAndTotal DEF WgCountsGoroutines
  <2>5. ASSUME NEW k \in StepIds
        PROVE  count'[k]["completed"] + count'[k]["errors"] + count'[k]["uncounted"] + sending'[k]
                 = count'[k]["launched"]
    BY <1>0, <2>1, <2>2 DEF CountersAddUp, Counters
  <2>. QED BY <2>3, <2>4, <2>5 DEF CountersAddUp, Numbers
<1>7. CASE LeaveStep
  BY <1>0, <1>7, NumbersKept DEF PlainTypes, StepStarted, LeaveStep, requests
<1>8. CASE Report
  BY <1>0, <1>8, NumbersKept DEF PlainTypes, StepStarted, Report, requests
<1>9. CASE StartDrain
  BY <1>0, <1>9, NumbersKept DEF PlainTypes, StepStarted, StartDrain, requests
<1>10. CASE CloseDone
  BY <1>0, <1>10, NumbersKept DEF PlainTypes, StepStarted, CloseDone, requests, loop
<1>11. CASE ReturnNil
  BY <1>0, <1>11, NumbersKept DEF PlainTypes, StepStarted, ReturnNil, requests
<1>12. ASSUME NEW k \in StepIds, NEW c \in {"completed", "errors", "uncounted"}, Answer(k, c)
       PROVE  Numbers'
  <2>1. /\ sending[k] > 0 /\ answered' = answered + 1
        /\ sending' = [sending EXCEPT ![k] = sending[k] - 1] /\ count' = Bump(k, c)
        /\ UNCHANGED <<usage, pc, step, tickC, ticks, sem, wg, leaving, err>>
    BY <1>12 DEF Answer, CountersOfItsStep, loop
  <2>2. /\ sending' \in [StepIds -> Nat] /\ sending'[k] = sending[k] - 1
        /\ \A i \in StepIds : i # k => sending'[i] = sending[i]
        /\ Total \in Nat /\ Total' = Total - 1
    <3>1. sending[k] \in Nat /\ sending[k] - 1 \in Nat
      BY <1>0, <2>1
    <3>2. /\ sending' \in [StepIds -> Nat] /\ sending'[k] = sending[k] - 1
          /\ \A i \in StepIds : i # k => sending'[i] = sending[i]
          /\ Total \in Nat /\ Total' = Total + ((sending[k] - 1) - sending[k])
      BY <1>0, <2>1, <3>1, TotalChanges
    <3>. QED BY <3>1, <3>2
  <2>3. /\ count' \in [StepIds -> [Counters -> Nat]]
        /\ count'[k][c] = count[k][c] + 1
        /\ \A d \in Counters : d # c => count'[k][d] = count[k][d]
        /\ \A i \in StepIds : i # k => count'[i] = count[i]
    BY <1>0, <2>1, Bumping DEF Counters
  <2>4. PlainTypes' /\ StepStarted'
    BY <1>0, <2>1, <2>2, <2>3 DEF PlainTypes, StepStarted
  <2>5. TokensAreRequests' /\ WgCountsGoroutines'
    BY <1>0, <2>1, <2>2, TokensAndTotal DEF WgCountsGoroutines, PlainTypes
  <2>6. ASSUME NEW i \in StepIds
        PROVE  count'[i]["completed"] + count'[i]["errors"] + count'[i]["uncounted"] + sending'[i]
                 = count'[i]["launched"]
    BY <1>0, <2>1, <2>2, <2>3 DEF CountersAddUp, Counters
  <2>. QED BY <2>4, <2>5, <2>6 DEF CountersAddUp, Numbers
<1>13. CASE Respond
  BY <1>12, <1>13 DEF Respond
<1>14. CASE CutShort
  BY <1>12, <1>14 DEF CutShort
<1>15. CASE ReleaseToken
  <2>1. /\ sem > 0 /\ sem' = sem - 1 /\ answered > 0 /\ answered' = answered - 1
        /\ leaving' = leaving + 1 /\ UNCHANGED <<usage, pc, step, tickC, ticks, wg, sending, count, err>>
    BY <1>15 DEF ReleaseToken, TokenReturned, loop
  <2>2. PlainTypes' /\ StepStarted' /\ WgCountsGoroutines'
    BY <1>0, <2>1 DEF PlainTypes, StepStarted, WgCountsGoroutines
  <2>3. Total \in Nat /\ Total' = Total
    BY <1>0, <2>1, TotalIsNat, TotalKept
  <2>4. TokensAreRequests'
    BY <1>0, <2>1, <2>3, TokensAndTotal DEF PlainTypes
  <2>5. CountersAddUp'
    BY <1>0, <2>1 DEF CountersAddUp
  <2>. QED BY <2>2, <2>4, <2>5 DEF Numbers
<1>16. CASE WgDone
  <2>1. /\ wg' = wg - 1 /\ leaving > 0 /\ leaving' = leaving - 1
        /\ UNCHANGED <<usage, pc, step, tickC, ticks, sem, sending, answered, count, err>>
    BY <1>16 DEF WgDone, OneDone, loop
  <2>2. PlainTypes' /\ StepStarted' /\ WgCountsGoroutines'
    BY <1>0, <2>1 DEF PlainTypes, StepStarted, WgCountsGoroutines
  <2>3. TokensAreRequests' /\ CountersAddUp'
    BY <1>0, <2>1, TotalKept, TokensAndTotal DEF CountersAddUp
  <2>. QED BY <2>2, <2>3 DEF Numbers
<1>17. CASE Tick
  BY <1>0, <1>17, NumbersKept, TicksAssumption DEF PlainTypes, StepStarted, Tick, requests
<1>18. CASE Deadline
  BY <1>0, <1>18, NumbersKept DEF PlainTypes, StepStarted, Deadline, requests, loop
<1>19. CASE Interrupt
  BY <1>0, <1>19, NumbersKept DEF PlainTypes, StepStarted, Interrupt, requests, loop
<1>20. CASE UNCHANGED vars
  BY <1>0, <1>20, NumbersKept DEF PlainTypes, StepStarted, vars, requests, loop
<1>21. CASE Ended
  BY <1>20, <1>21 DEF Ended
<1>. QED
  BY <1>1, <1>2, <1>3, <1>4, <1>5, <1>6, <1>7, <1>8, <1>9, <1>10, <1>11, <1>13, <1>14, <1>15, <1>16,
     <1>17, <1>18, <1>19, <1>20, <1>21 DEF Next, Run, Request

\* Each step keeps the flags and labels what they are.
LEMMA FlagsStep == ASSUME Flags, [Next]_vars PROVE Flags'
<1>. USE DEF Flags
<1>1. CASE Run
  BY <1>1, Zenon DEF Run, RejectArguments, PanicInNewTicker, ReturnCtxErr, StartStep, Launch, Skip, LeaveStep,
     Report, StartDrain, ReturnNil
<1>2. CASE CloseDone
  BY <1>2, Zenon DEF CloseDone
<1>3. CASE Request
  BY <1>3, Zenon DEF Request, Respond, CutShort, Answer, ReleaseToken, WgDone
<1>4. CASE Tick \/ Deadline \/ Interrupt
  BY <1>4, Zenon DEF Tick, Deadline, Interrupt
<1>5. CASE UNCHANGED vars
  BY <1>5, Zenon DEF vars
<1>. QED BY <1>1, <1>2, <1>3, <1>4, <1>5, Zenon DEF Next, Ended

\* When the wait at the end is over, no request is in flight and none is left.
LEMMA NoneLeft ==
    ASSUME Numbers, wg = 0
    PROVE  sem = 0 /\ answered = 0 /\ leaving = 0 /\ Total = 0 /\ \A k \in StepIds : sending[k] = 0
<1>1. Total \in Nat /\ sem = Total + answered /\ wg = sem + leaving /\ answered \in Nat /\ leaving \in Nat
  BY TotalIsNat, TokensAndTotal DEF Numbers, PlainTypes, WgCountsGoroutines
<1>2. sem = 0 /\ answered = 0 /\ leaving = 0 /\ Total = 0
  BY <1>1
<1>3. ASSUME NEW k \in StepIds PROVE sending[k] = 0
  <2>1. sending \in [StepIds -> Nat]
    BY DEF Numbers, PlainTypes
  <2>2. sending[k] <= Total
    BY <2>1, SumBounds, SendingIsTheSum DEF Total
  <2>. QED BY <1>2, <2>1, <2>2
<1>. QED BY <1>2, <1>3

\* Counting something else leaves what was cut short as it was.
LEMMA UncountedKept ==
    ASSUME Numbers, NEW k \in StepIds, NEW c \in Counters \ {"uncounted"}, count' = Bump(k, c)
    PROVE  \A i \in StepIds : count'[i]["uncounted"] = count[i]["uncounted"]
<1>1. count \in [StepIds -> [Counters -> Nat]]
  BY DEF Numbers, PlainTypes
<1>2. "uncounted" \in Counters
  BY DEF Counters
<1>. QED BY <1>1, <1>2, Bumping

\* Each step keeps what the end of the run says of the requests.
LEMMA EndingsStep == ASSUME Numbers, Flags, Endings, [Next]_vars PROVE Endings'
<1>. USE DEF Endings, DrainIsFinal, ReturnOrigin, CutByCancellation
<1>1. CASE RejectArguments
  BY <1>1 DEF RejectArguments
<1>2. CASE PanicInNewTicker
  BY <1>2 DEF PanicInNewTicker
<1>3. CASE ReturnCtxErr
  BY <1>3 DEF ReturnCtxErr
<1>4. CASE StartStep
  BY <1>4 DEF StartStep
<1>5. CASE Launch
  <2>1. step \in StepIds /\ "launched" \in Counters \ {"uncounted"}
    BY <1>5 DEF Launch, Numbers, StepStarted, Counters
  <2>2. \A i \in StepIds : count'[i]["uncounted"] = count[i]["uncounted"]
    BY <1>5, <2>1, UncountedKept DEF Launch
  <2>. QED BY <1>5, <2>2 DEF Launch
<1>6. CASE Skip
  <2>1. step \in StepIds /\ "skipped" \in Counters \ {"uncounted"}
    BY <1>6 DEF Skip, Numbers, StepStarted, Counters
  <2>2. \A i \in StepIds : count'[i]["uncounted"] = count[i]["uncounted"]
    BY <1>6, <2>1, UncountedKept DEF Skip
  <2>. QED BY <1>6, <2>2 DEF Skip
<1>7. CASE LeaveStep
  BY <1>7 DEF LeaveStep
<1>8. CASE Report
  BY <1>8 DEF Report
<1>9. CASE StartDrain
  BY <1>9 DEF StartDrain
<1>10. CASE CloseDone
  BY <1>10 DEF CloseDone, WaitOver, Running, loop
<1>11. CASE ReturnNil
  BY <1>11 DEF ReturnNil
<1>12. CASE Respond
  <2>1. PICK k \in StepIds, c \in {"completed", "errors"} : Answer(k, c)
    BY <1>12 DEF Respond
  <2>2. \A i \in StepIds : count'[i]["uncounted"] = count[i]["uncounted"]
    BY <2>1, UncountedKept DEF Answer, CountersOfItsStep, Counters
  <2>. QED BY <2>1, <2>2 DEF Answer, loop
<1>13. CASE CutShort
  <2>1. PICK k \in StepIds : cancelled /\ Answer(k, "uncounted")
    BY <1>13 DEF CutShort, ContextOfTheRun
  <2>2. cancelled' = cancelled /\ drained' = drained
    BY <2>1, Zenon DEF Answer
  <2>. QED BY <2>1, <2>2 DEF Answer, loop
<1>14. CASE ReleaseToken
  BY <1>14 DEF ReleaseToken, loop
<1>15. CASE WgDone
  <2>1. ~ drained
    BY <1>15, NoneLeft DEF WgDone, Numbers, PlainTypes
  <2>. QED BY <1>15, <2>1 DEF WgDone, loop
<1>16. CASE Tick
  BY <1>16 DEF Tick
<1>17. CASE Deadline
  BY <1>17 DEF Deadline, loop
<1>18. CASE Interrupt
  BY <1>18 DEF Interrupt, loop
<1>19. CASE UNCHANGED vars
  BY <1>19 DEF vars, loop
<1>. QED
  BY <1>1, <1>2, <1>3, <1>4, <1>5, <1>6, <1>7, <1>8, <1>9, <1>10, <1>11, <1>12, <1>13, <1>14, <1>15, <1>16,
     <1>17, <1>18, <1>19 DEF Next, Run, Request, Ended

\* A request that ends is counted where it ends, not where it began.
LEMMA AnswersCount ==
    ASSUME Numbers, NEW k \in StepIds, NEW c \in {"completed", "errors", "uncounted"}, Answer(k, c)
    PROVE  \A i \in StepIds : /\ count'[i]["launched"] = count[i]["launched"]
                              /\ count'[i]["skipped"] = count[i]["skipped"]
<1>1. count \in [StepIds -> [Counters -> Nat]]
  BY DEF Numbers, PlainTypes
<1>2. c \in Counters /\ "launched" \in Counters \ {c} /\ "skipped" \in Counters \ {c}
  BY DEF Counters
<1>. QED BY <1>1, <1>2, Bumping DEF Answer, CountersOfItsStep

\* Each step leaves those that are to come alone.
LEMMA BeginningsStep == ASSUME Numbers, Beginnings, [Next]_vars PROVE Beginnings'
<1>0. /\ count \in [StepIds -> [Counters -> Nat]] /\ step \in 0..Steps /\ StepStarted
      /\ sem \in Nat /\ sem = Total + answered /\ answered \in Nat /\ Total \in Nat
  BY SemSizePositive, TotalIsNat, TokensAndTotal DEF Numbers, PlainTypes
<1>. USE DEF Beginnings
<1>1. CASE RejectArguments \/ PanicInNewTicker \/ ReturnCtxErr \/ LeaveStep \/ Report \/ StartDrain \/ CloseDone
           \/ ReturnNil \/ WgDone \/ Tick \/ Deadline \/ Interrupt \/ UNCHANGED vars
  <2>1. UNCHANGED <<usage, step, sem, count>>
    BY <1>1 DEF RejectArguments, PanicInNewTicker, ReturnCtxErr, LeaveStep, Report, StartDrain, CloseDone,
                ReturnNil, WgDone, Tick, Deadline, Interrupt, vars, loop
  <2>. QED BY <2>1
<1>2. CASE StartStep
  BY <1>0, <1>2 DEF StartStep, StepIds
<1>3. CASE Launch
  <2>1. /\ step \in StepIds /\ step # 0 /\ "launched" \in Counters
        /\ count' = Bump(step, "launched") /\ usage' = usage /\ step' = step
    BY <1>0, <1>3 DEF Launch, StepStarted, StepIds, Counters
  <2>2. \A i \in StepIds : i # step => count'[i] = count[i]
    BY <1>0, <2>1, Bumping
  <2>. QED BY <1>0, <2>1, <2>2 DEF StepIds
<1>4. CASE Skip
  <2>1. /\ step \in StepIds /\ step # 0 /\ "skipped" \in Counters
        /\ count' = Bump(step, "skipped") /\ usage' = usage /\ step' = step
    BY <1>0, <1>4 DEF Skip, StepStarted, StepIds, Counters
  <2>2. \A i \in StepIds : i # step => count'[i] = count[i]
    BY <1>0, <2>1, Bumping
  <2>. QED BY <1>0, <2>1, <2>2 DEF StepIds
<1>5. CASE Respond \/ CutShort
  <2>1. PICK k \in StepIds, c \in {"completed", "errors", "uncounted"} : Answer(k, c)
    BY <1>5 DEF Respond, CutShort
  <2>2. UNCHANGED <<usage, step, sem>>
    BY <2>1 DEF Answer, loop
  <2>. QED BY <2>1, <2>2, AnswersCount
<1>6. CASE ReleaseToken
  <2>1. UNCHANGED <<usage, step, count>> /\ sem > 0
    BY <1>6 DEF ReleaseToken, loop
  <2>. QED BY <1>0, <2>1
<1>. QED
  BY <1>1, <1>2, <1>3, <1>4, <1>5, <1>6 DEF Next, Run, Request, Ended

\* The invariant is inductive.
LEMMA StepPreserves == IInv /\ [Next]_vars => IInv'
  BY NumbersStep, FlagsStep, EndingsStep, BeginningsStep DEF IInv

\* It holds in every reachable state.
LEMMA Invariance == Spec => []IInv
<1>. QED BY InitEstablishes, StepPreserves, PTL DEF Spec

-----------------------------------------------------------------------------
(* The results. *)

\* Types, the bound of the semaphore and the counter of the WaitGroup, which
\* never becomes negative (that would be a panic), among them.
THEOREM TypeCorrect == Spec => []TypeOK
<1>1. IInv => TypeOK
  BY Zenon DEF IInv, Numbers, PlainTypes, Flags, TypeOK
<1>. QED BY <1>1, Invariance, PTL

\* The limit holds for the requests of all steps together, for any number of
\* steps and any -max-concurrency (main.go:280-281).
THEOREM LimitSpansTheRun == Spec => []LimitSpansSteps
<1>1. IInv => LimitSpansSteps
  BY SemSizePositive DEF IInv, Numbers, PlainTypes, TokensAreRequests, LimitSpansSteps
<1>. QED BY <1>1, Invariance, PTL

\* Every request of a step is counted once, cut short or under way.
THEOREM CountsAddUp == Spec => []CountersAddUp
<1>1. IInv => CountersAddUp
  BY DEF IInv, Numbers
<1>. QED BY <1>1, Invariance, PTL

\* A run that was not interrupted and returns nil has no request left, and has
\* counted all of them.
THEOREM NilAfterAll == Spec => []NilMeansDrained
<1>1. ASSUME IInv PROVE NilMeansDrained
  <2>1. SUFFICES ASSUME err = "nil", ~ cancelled
                 PROVE  /\ InFlight + leaving = 0 /\ wg = 0
                        /\ \A k \in StepIds : count[k]["completed"] + count[k]["errors"] = count[k]["launched"]
    BY DEF NilMeansDrained
  <2>2. wg = 0
    BY <1>1, <2>1 DEF IInv, Endings, ReturnOrigin, DrainIsFinal
  <2>3. sem = 0 /\ leaving = 0 /\ \A k \in StepIds : sending[k] = 0
    BY <1>1, <2>2, NoneLeft DEF IInv
  <2>4. InFlight = 0
    BY <1>1, <2>3 DEF IInv, Numbers, TokensAreRequests
  <2>5. ASSUME NEW k \in StepIds
        PROVE  count[k]["completed"] + count[k]["errors"] = count[k]["launched"]
    <3>1. count[k]["uncounted"] = 0 /\ sending[k] = 0
      BY <1>1, <2>1, <2>3 DEF IInv, Endings, CutByCancellation
    <3>2. count[k] \in [Counters -> Nat]
      BY <1>1 DEF IInv, Numbers, PlainTypes
    <3>3. count[k]["completed"] + count[k]["errors"] + count[k]["uncounted"] + sending[k]
            = count[k]["launched"]
      BY <1>1 DEF IInv, Numbers, CountersAddUp
    <3>. QED BY <3>1, <3>2, <3>3 DEF Counters
  <2>. QED BY <2>2, <2>3, <2>4, <2>5
<1>. QED BY <1>1, Invariance, PTL

\* A tick is skipped only while as many requests are under way, in whichever
\* steps, as the limit allows (main.go:317-345): no request is refused because of
\* tokens that nobody holds any more.
SkipsAtTheLimit ==
    [][\A k \in StepIds : count'[k]["skipped"] # count[k]["skipped"] => InFlight = SemSize]_vars

\* Once the wait at the end of the run is over nothing happens to a request or
\* a counter, neither before runSlow returns nor after.
NothingAfterDrain == [][drained => UNCHANGED <<sem, wg, requests, count>>]_vars

\* What a step does to the number of skipped ticks.
LEMMA SkippingSteps ==
    ASSUME Numbers, [Next]_vars, NEW k \in StepIds, count'[k]["skipped"] # count[k]["skipped"]
    PROVE  Skip
<1>0. count \in [StepIds -> [Counters -> Nat]]
  BY DEF Numbers, PlainTypes
<1>1. ASSUME Launch PROVE FALSE
  <2>1. step \in StepIds
    BY <1>1 DEF Launch, Numbers, StepStarted
  <2>. QED BY <1>0, <1>1, <2>1, Bumping DEF Launch, Counters
<1>2. ASSUME NEW i \in StepIds, NEW c \in {"completed", "errors", "uncounted"}, Answer(i, c) PROVE FALSE
  BY <1>0, <1>2, Bumping DEF Answer, CountersOfItsStep, Counters
<1>3. ~ Respond /\ ~ CutShort
  BY <1>2 DEF Respond, CutShort
<1>4. count' # count
  OBVIOUS
<1>. QED
  BY <1>1, <1>3, <1>4
  DEF Next, Run, Request, RejectArguments, PanicInNewTicker, ReturnCtxErr, StartStep, LeaveStep, Report,
      StartDrain, CloseDone, ReturnNil, ReleaseToken, WgDone, Tick, Deadline, Interrupt, Ended, vars

\* A tick is counted as skipped only while all SemSize tokens of the semaphore are
\* taken, by requests of this step or of earlier ones: the default branch of the
\* select is not taken for any other reason (main.go:318-345).
THEOREM SkippedForTheLimit == Spec => SkipsAtTheLimit
<1>1. ASSUME IInv, [Next]_vars, NEW k \in StepIds, count'[k]["skipped"] # count[k]["skipped"]
      PROVE  InFlight = SemSize
  <2>1. Skip
    BY <1>1, SkippingSteps DEF IInv
  <2>2. sem \in 0..SemSize /\ sem = InFlight
    BY <1>1 DEF IInv, Numbers, PlainTypes, TokensAreRequests
  <2>. QED BY <2>1, <2>2, SemSizePositive DEF Skip, HasRoom
<1>2. IInv /\ [Next]_vars
        => [\A k \in StepIds : count'[k]["skipped"] # count[k]["skipped"] => InFlight = SemSize]_vars
  BY <1>1
<1>. QED BY <1>2, Invariance, PTL DEF Spec, SkipsAtTheLimit

\* runSlow prints its totals after the wait at the end of the run; no goroutine of
\* a request can change a counter after that, whatever the plan and the limit.
THEOREM DrainIsLast == Spec => NothingAfterDrain
<1>1. ASSUME IInv, [Next]_vars, drained PROVE UNCHANGED <<sem, wg, requests, count>>
  <2>1. wg = 0 /\ pc \in {"drain", "returned"}
    BY <1>1 DEF IInv, Endings, DrainIsFinal
  <2>2. answered = 0 /\ leaving = 0 /\ \A k \in StepIds : sending[k] = 0
    BY <1>1, <2>1, NoneLeft DEF IInv
  <2>3. ~ Launch /\ ~ Skip /\ ~ ReleaseToken /\ ~ WgDone
    BY <2>1, <2>2 DEF Launch, Skip, ReleaseToken, WgDone
  <2>4. ASSUME NEW k \in StepIds, NEW c \in Counters, Answer(k, c) PROVE FALSE
    BY <2>2, <2>4 DEF Answer
  <2>5. ~ Respond /\ ~ CutShort
    BY <2>4 DEF Respond, CutShort, Counters
  <2>. QED
    BY <1>1, <2>3, <2>5
    DEF Next, Run, Request, RejectArguments, PanicInNewTicker, ReturnCtxErr, StartStep, LeaveStep, Report,
        StartDrain, CloseDone, ReturnNil, Tick, Deadline, Interrupt, Ended, vars, requests
<1>2. IInv /\ [Next]_vars => [drained => UNCHANGED <<sem, wg, requests, count>>]_vars
  BY <1>1
<1>. QED BY <1>2, Invariance, PTL DEF Spec, NothingAfterDrain

-----------------------------------------------------------------------------
(* The promise of BoundedClient. *)

\* A counter of the step that was started last.
OfTheStep(c) == IF step = 0 THEN 0 ELSE count[step][c]

\* Requests may outlive their step.
Promise == INSTANCE BoundedClient WITH
    Limit <- SemSize, Carried <- TRUE,
    underWay <- InFlight, launched <- OfTheStep("launched"), skipped <- OfTheStep("skipped"),
    phase <- IF err # "none" THEN "over" ELSE IF cancelled THEN "interrupted" ELSE "running"

Launched == OfTheStep("launched")
Skipped == OfTheStep("skipped")
Phase == IF err # "none" THEN "over" ELSE IF cancelled THEN "interrupted" ELSE "running"
View == <<InFlight, Launched, Skipped, Phase>>

\* The steps of BoundedClient, in the terms of this client.
LEMMA PromisedSteps ==
    /\ Promise!NextStep <=>
         /\ Phase = "running" /\ Launched' = 0 /\ Skipped' = 0 /\ InFlight' = InFlight /\ Phase' = Phase
    /\ Promise!Launch <=>
         /\ Phase # "over" /\ InFlight < SemSize
         /\ InFlight' = InFlight + 1 /\ Launched' = Launched + 1 /\ Skipped' = Skipped /\ Phase' = Phase
    /\ Promise!Skip <=>
         /\ Phase # "over" /\ InFlight = SemSize
         /\ Skipped' = Skipped + 1 /\ InFlight' = InFlight /\ Launched' = Launched /\ Phase' = Phase
    /\ Promise!Return <=>
         /\ Phase # "over" /\ InFlight > 0 /\ InFlight' = InFlight - 1
         /\ Launched' = Launched /\ Skipped' = Skipped /\ Phase' = Phase
    /\ Promise!Interrupt <=>
         /\ Phase = "running" /\ Phase' = "interrupted"
         /\ InFlight' = InFlight /\ Launched' = Launched /\ Skipped' = Skipped
    /\ Promise!Finish <=>
         /\ Phase # "over" /\ (InFlight = 0 \/ Phase = "interrupted") /\ Phase' = "over"
         /\ InFlight' = InFlight /\ Launched' = Launched /\ Skipped' = Skipped
  BY DEF Promise!NextStep, Promise!Launch, Promise!Skip, Promise!Return, Promise!Interrupt, Promise!Finish,
         Launched, Skipped, Phase

\* The phases in terms of the client.
LEMMA Phases ==
    /\ Phase = "running" <=> err = "none" /\ ~ cancelled
    /\ Phase = "interrupted" <=> err = "none" /\ cancelled
    /\ Phase # "over" <=> err = "none"
    /\ err' = err /\ (cancelled' <=> cancelled) => Phase' = Phase
    /\ err' # "none" => Phase' = "over"
    /\ err' = "none" /\ cancelled' => Phase' = "interrupted"
  BY DEF Phase

\* A step that leaves its number and the counters of ticks alone.
LEMMA CountersKept ==
    ASSUME step \in 0..Steps, step' = step,
           \A i \in StepIds : /\ count'[i]["launched"] = count[i]["launched"]
                             /\ count'[i]["skipped"] = count[i]["skipped"]
    PROVE  Launched' = Launched /\ Skipped' = Skipped
  BY DEF Launched, Skipped, OfTheStep, StepIds

\* The requests in terms of the sum.
LEMMA Sum == InFlight = Total + answered /\ InFlight' = Total' + answered'
  BY DEF InFlight, Total

\* Every step of this client is one of BoundedClient, or changes nothing there.
LEMMA PromiseStep ==
    ASSUME IInv, [Next]_vars
    PROVE  Promise!Next \/ View' = View
<1>. USE DEF View
<1>0. /\ Numbers /\ Endings /\ Beginnings /\ StepStarted
      /\ count \in [StepIds -> [Counters -> Nat]] /\ sending \in [StepIds -> Nat] /\ step \in 0..Steps
      /\ sem = InFlight /\ InFlight = Total + answered /\ sem \in 0..SemSize
      /\ answered \in Nat /\ Total \in Nat /\ (err = "none" <=> pc # "returned")
  BY TotalIsNat, Sum DEF IInv, Numbers, PlainTypes, TokensAreRequests, Endings, ReturnOrigin
<1>1. CASE LeaveStep \/ Report \/ StartDrain \/ CloseDone \/ WgDone \/ Tick \/ Deadline \/ UNCHANGED vars
  <2>1. UNCHANGED <<step, sending, answered, count, err>>
    BY <1>1 DEF LeaveStep, Report, StartDrain, CloseDone, WgDone, Tick, Deadline, vars, loop, requests
  <2>2. cancelled' <=> cancelled
    BY <1>1 DEF LeaveStep, Report, StartDrain, CloseDone, WgDone, Tick, Deadline, vars
  <2>3. InFlight' = InFlight
    BY <2>1, Sum, TotalKept
  <2>. QED BY <1>0, <2>1, <2>2, <2>3, Phases, CountersKept
<1>2. CASE StartStep
  <2>1. step' = step + 1 /\ step + 1 \in StepIds /\ UNCHANGED <<sending, answered, count, err>> /\ err = "none"
    BY <1>0, <1>2, StepsAssumption DEF StartStep, StepIds, requests
  <2>2. (cancelled' <=> cancelled) /\ ~ cancelled
    BY <1>2 DEF StartStep
  <2>3. Launched' = 0 /\ Skipped' = 0
    BY <1>0, <2>1 DEF Beginnings, Launched, Skipped, OfTheStep
  <2>4. InFlight' = InFlight
    BY <2>1, Sum, TotalKept
  <2>5. Promise!NextStep
    BY <2>1, <2>2, <2>3, <2>4, Phases, PromisedSteps
  <2>. QED BY <2>5 DEF Promise!Next
<1>3. CASE Launch
  <2>1. /\ step \in StepIds /\ step # 0 /\ "launched" \in Counters /\ "skipped" \in Counters \ {"launched"}
        /\ count' = Bump(step, "launched") /\ step' = step /\ answered' = answered /\ err' = err /\ err = "none"
        /\ InFlight < SemSize /\ sending' = [sending EXCEPT ![step] = sending[step] + 1]
    BY <1>0, <1>3 DEF Launch, HasRoom, StepStarted, StepIds, Counters
  <2>2. cancelled' <=> cancelled
    BY <1>3 DEF Launch
  <2>3. Launched' = Launched + 1 /\ Skipped' = Skipped
    BY <1>0, <2>1, Bumping DEF Launched, Skipped, OfTheStep
  <2>4. sending[step] \in Nat /\ sending[step] + 1 \in Nat
    BY <1>0, <2>1
  <2>5. Total' = Total + ((sending[step] + 1) - sending[step])
    BY <1>0, <2>1, <2>4, TotalChanges
  <2>6. InFlight' = InFlight + 1
    BY <1>0, <2>1, <2>4, <2>5, Sum
  <2>7. Promise!Launch
    BY <2>1, <2>2, <2>3, <2>6, Phases, PromisedSteps
  <2>. QED BY <2>7 DEF Promise!Next
<1>4. CASE Skip
  <2>1. /\ step \in StepIds /\ step # 0 /\ "skipped" \in Counters /\ "launched" \in Counters \ {"skipped"}
        /\ count' = Bump(step, "skipped") /\ err' = err /\ err = "none"
        /\ UNCHANGED <<step, sending, answered>> /\ InFlight = SemSize
    BY <1>0, <1>4, SemSizePositive DEF Skip, HasRoom, StepStarted, StepIds, Counters, requests
  <2>2. cancelled' <=> cancelled
    BY <1>4 DEF Skip
  <2>3. Skipped' = Skipped + 1 /\ Launched' = Launched
    BY <1>0, <2>1, Bumping DEF Launched, Skipped, OfTheStep
  <2>4. InFlight' = InFlight
    BY <2>1, Sum, TotalKept
  <2>5. Promise!Skip
    BY <2>1, <2>2, <2>3, <2>4, Phases, PromisedSteps
  <2>. QED BY <2>5 DEF Promise!Next
<1>5. CASE Respond \/ CutShort
  <2>1. PICK k \in StepIds, c \in {"completed", "errors", "uncounted"} : Answer(k, c)
    BY <1>5 DEF Respond, CutShort
  <2>2. /\ sending[k] > 0 /\ sending' = [sending EXCEPT ![k] = sending[k] - 1]
        /\ answered' = answered + 1 /\ err' = err /\ step' = step
    BY <2>1 DEF Answer, loop
  <2>3. cancelled' <=> cancelled
    BY <2>1 DEF Answer
  <2>4. Launched' = Launched /\ Skipped' = Skipped
    BY <1>0, <2>1, <2>2, AnswersCount, CountersKept
  <2>5. sending[k] \in Nat /\ sending[k] - 1 \in Nat
    BY <1>0, <2>2
  <2>6. Total' = Total + ((sending[k] - 1) - sending[k])
    BY <1>0, <2>2, <2>5, TotalChanges
  <2>7. Total' = Total - 1
    BY <1>0, <2>5, <2>6
  <2>8. InFlight' = InFlight
    BY <1>0, <2>2, <2>7, Sum
  <2>. QED BY <2>2, <2>3, <2>4, <2>8, Phases
<1>6. CASE ReleaseToken
  <2>1. /\ answered' = answered - 1 /\ sem > 0 /\ UNCHANGED <<step, sending, count, err>> /\ err = "none"
    BY <1>6 DEF ReleaseToken, loop, Running
  <2>2. cancelled' <=> cancelled
    BY <1>6 DEF ReleaseToken
  <2>3. InFlight' = InFlight - 1
    BY <1>0, <2>1, Sum, TotalKept
  <2>4. Launched' = Launched /\ Skipped' = Skipped
    BY <1>0, <2>1, CountersKept
  <2>5. Promise!Return
    BY <1>0, <2>1, <2>2, <2>3, <2>4, Phases, PromisedSteps
  <2>. QED BY <2>5 DEF Promise!Next
<1>7. CASE Interrupt
  <2>1. UNCHANGED <<step, sending, answered, count, err>> /\ err = "none"
    BY <1>7 DEF Interrupt, requests, loop, Running
  <2>2. cancelled' /\ ~ cancelled
    BY <1>7 DEF Interrupt
  <2>3. InFlight' = InFlight /\ Launched' = Launched /\ Skipped' = Skipped
    BY <1>0, <2>1, Sum, TotalKept, CountersKept
  <2>4. Promise!Interrupt
    BY <2>1, <2>2, <2>3, Phases, PromisedSteps
  <2>. QED BY <2>4 DEF Promise!Next
<1>8. CASE RejectArguments \/ PanicInNewTicker \/ ReturnCtxErr \/ ReturnNil
  <2>1. UNCHANGED <<step, sending, answered, count>> /\ err = "none" /\ err' # "none"
    BY <1>0, <1>8 DEF RejectArguments, PanicInNewTicker, ReturnCtxErr, ReturnNil, requests
  <2>2. InFlight' = InFlight /\ Launched' = Launched /\ Skipped' = Skipped
    BY <1>0, <2>1, Sum, TotalKept, CountersKept
  <2>3. InFlight = 0 \/ cancelled
    <3>1. CASE RejectArguments \/ PanicInNewTicker
      BY <1>0, <3>1 DEF RejectArguments, PanicInNewTicker, Beginnings
    <3>2. CASE ReturnCtxErr
      BY <3>2 DEF ReturnCtxErr
    <3>3. CASE ReturnNil
      BY <1>0, <3>3, NoneLeft DEF ReturnNil, Endings, DrainIsFinal
    <3>. QED BY <1>8, <3>1, <3>2, <3>3
  <2>4. Promise!Finish
    BY <2>1, <2>2, <2>3, Phases, PromisedSteps
  <2>. QED BY <2>4 DEF Promise!Next
<1>. QED
  BY <1>1, <1>2, <1>3, <1>4, <1>5, <1>6, <1>7, <1>8 DEF Next, Run, Request, Ended

\* troublemaker-client slow implements BoundedClient with requests that outlive
\* their step: the limit over all steps, the reason of a skipped tick, no step after
\* an interrupt, and no request left behind by a run that was not interrupted
\* (main.go:263-374).
THEOREM ImplementsPromise == Spec => Promise!Spec
<1>1. Init => Promise!Init
  <2>1. ASSUME Init PROVE InFlight = 0 /\ OfTheStep("launched") = 0 /\ OfTheStep("skipped") = 0
                          /\ Phase = "running"
    <3>1. sending \in [StepIds -> Nat] /\ (\A k \in StepIds : sending[k] = 0) /\ answered = 0
      BY <2>1 DEF Init
    <3>2. Total = 0
      BY <3>1, SumOfNothing, SendingIsTheSum DEF Total
    <3>. QED BY <2>1, <3>1, <3>2, Sum, Phases DEF Init, OfTheStep
  <2>. QED BY <2>1 DEF Promise!Init, Phase
<1>2. IInv /\ [Next]_vars => [Promise!Next]_(Promise!vars)
  BY PromiseStep DEF View, Launched, Skipped, Phase, Promise!vars
<1>. QED BY <1>1, <1>2, Invariance, PTL DEF Spec, Promise!Spec

=============================================================================
