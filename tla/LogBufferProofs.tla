---------------------------- MODULE LogBufferProofs ----------------------------
(***************************************************************************)
(* Proofs about LogBuffer, for any number of goroutines that log and of      *)
(* /logs requests, every size and every number of lines.                     *)
(***************************************************************************)
EXTENDS LogBuffer, SequenceTheorems, TLAPS

\* What Trim keeps: the newest size elements, in their order.
LEMMA Trimming ==
  ASSUME NEW s \in Seq(Nat), size \in Nat \ {0}
  PROVE  /\ Len(s) <= size => Trim(s) = s
         /\ Len(s) > size =>
              /\ Trim(s) \in Seq(Nat) /\ Len(Trim(s)) = size
              /\ \A i \in 1 .. size : Trim(s)[i] = s[Len(s) - size + i]
<1>1. CASE Len(s) > size
  <2> DEFINE m == Len(s) - size + 1
  <2>1. m \in Int /\ Len(s) \in Int /\ m <= Len(s) /\ Len(s) - m + 1 = size
    BY <1>1
  <2>2. \A i \in m .. Len(s) : s[i] \in Nat
    BY <1>1
  <2>3. Trim(s) = SubSeq(s, m, Len(s))
    BY <1>1 DEF Trim, Newest
  <2> HIDE DEF m
  <2>4. /\ Trim(s) \in Seq(Nat) /\ Len(Trim(s)) = size
        /\ \A i \in 1 .. size : Trim(s)[i] = s[m + i - 1]
    BY <2>1, <2>2, <2>3, SubSeqProperties
  <2>5. ASSUME NEW i \in 1 .. size
        PROVE  Trim(s)[i] = s[Len(s) - size + i]
    <3>1. m + i - 1 = Len(s) - size + i
      BY DEF m
    <3> QED
      BY <2>4, <3>1
  <2> QED
    BY <1>1, <2>4, <2>5
<1>2. CASE ~ (Len(s) > size)
  BY <1>2 DEF Trim
<1> QED
  BY <1>1, <1>2

\* The buffer after a line has been written: untouched if it is disabled, one
\* line longer while there is room, else the oldest line makes way.
LEMMA Writing ==
  ASSUME TypeOK, NEW l \in Loggers, Store(l)
  PROVE  /\ written' = written + 1 /\ written' \in Nat
         /\ \/ size <= 0 /\ lines' = lines
            \/ size > 0 /\ Len(lines) < size /\ lines' = Append(lines, written + 1)
            \/ /\ size > 0 /\ Len(lines) = size
               /\ lines' \in Seq(Nat) /\ Len(lines') = size
               /\ lines'[size] = written + 1
               /\ \A i \in 1 .. size - 1 : lines'[i] = lines[i + 1]
<1>1. /\ written' = written + 1 /\ written' \in Nat /\ written \in Nat
      /\ lines \in Seq(Nat) /\ size \in Int
      /\ size > 0 => Len(lines) <= size
  BY DEF Store, TypeOK, log
<1>2. CASE size <= 0
  BY <1>1, <1>2 DEF Store
<1>3. CASE size > 0
  <2> DEFINE s == Append(lines, written + 1)
  <2>1. /\ s \in Seq(Nat) /\ Len(s) = Len(lines) + 1 /\ size \in Nat \ {0}
        /\ s[Len(lines) + 1] = written + 1
        /\ \A j \in 1 .. Len(lines) : s[j] = lines[j]
    BY <1>1, <1>3
  <2>2. lines' = Trim(s)
    BY <1>1, <1>3 DEF Store
  <2> HIDE DEF s
  <2>3. CASE Len(lines) < size
    <3>1. lines' = s
      BY <1>1, <2>1, <2>2, <2>3, Trimming
    <3> QED
      BY <1>1, <1>3, <2>3, <3>1 DEF s
  <2>4. CASE Len(lines) = size
    <3>1. /\ lines' \in Seq(Nat) /\ Len(lines') = size
          /\ \A i \in 1 .. size : lines'[i] = s[Len(s) - size + i]
      BY <1>1, <2>1, <2>2, <2>4, Trimming
    <3>2. \A i \in 1 .. size : lines'[i] = s[i + 1]
      <4>1. \A i \in 1 .. size : Len(s) - size + i = i + 1
        BY <2>1, <2>4
      <4> QED
        BY <3>1, <4>1
    <3>3. lines'[size] = written + 1
      BY <2>1, <2>4, <3>2
    <3>4. \A i \in 1 .. size - 1 : lines'[i] = lines[i + 1]
      BY <2>1, <2>4, <3>2
    <3> QED
      BY <1>1, <1>3, <2>4, <3>1, <3>3, <3>4
  <2> QED
    BY <1>1, <1>3, <2>3, <2>4
<1> QED
  BY <1>1, <1>2, <1>3

\* Types, for any sizes and any number of goroutines.
THEOREM TypeCorrect == Spec => []TypeOK
<1>1. Init => TypeOK
  <2> SUFFICES ASSUME Init PROVE TypeOK
    OBVIOUS
  <2>0. limit \in Int /\ sized \in BOOLEAN /\ size = IF sized THEN limit ELSE 0
    BY SizeAssumption, Zenon DEF Init
  <2>1. size \in Int /\ lines \in Seq(Nat) /\ Len(lines) = 0 /\ written \in Nat
    BY DEF Init
  <2>2. snapshot \in [Readers -> Seq(Nat)] /\ sent \in [Readers -> Nat]
    BY DEF Init
  <2>3. Len(lines) <= IF size <= 0 THEN 0 ELSE size
    BY <2>1
  <2>4. exited \in BOOLEAN /\ writer \in Loggers \cup {None}
    BY DEF Init
  <2>5. /\ wpc \in [Loggers -> {"idle", "lock", "drain", "in", "unlock", "exit", "gone"}]
        /\ rpc \in [Readers -> {"idle", "rlock", "wait", "in"}]
        /\ section \in [Readers -> {"size", "lines"}]
        /\ client \in [Readers -> {"reads", "stalls", "gone"}]
    BY DEF Init
  <2> QED
    BY <2>0, <2>1, <2>2, <2>3, <2>4, <2>5, Zenon DEF TypeOK
<1>2. TypeOK /\ [Next]_vars => TypeOK'
  <2> SUFFICES ASSUME TypeOK, [Next]_vars
               PROVE  TypeOK'
    OBVIOUS
  <2> USE DEF TypeOK, log, read
  <2>1. ASSUME NEW l \in Loggers, Log(l) \/ Announce(l) \/ Drain(l) \/ Exit(l)
        PROVE  TypeOK'
    <3>1. UNCHANGED <<log, read, client>>
      BY <2>1 DEF Log, Announce, Drain, Exit
    <3>2. wpc' \in [Loggers -> {"idle", "lock", "drain", "in", "unlock", "exit", "gone"}]
      <4>1. \E p \in {"lock", "drain", "in", "gone"} : wpc' = [wpc EXCEPT ![l] = p]
        BY <2>1, Zenon DEF Log, Announce, Drain, Exit
      <4>2. wpc \in [Loggers -> {"idle", "lock", "drain", "in", "unlock", "exit", "gone"}]
        OBVIOUS
      <4> HIDE DEF TypeOK
      <4> QED
        BY <4>1, <4>2
    <3>3. writer' \in Loggers \cup {None} /\ exited' \in BOOLEAN
      BY <2>1 DEF Log, Announce, Drain, Exit
    <3> QED
      BY <3>1, <3>2, <3>3
  <2>2. ASSUME NEW l \in Loggers, Store(l)
        PROVE  TypeOK'
    <3>1. wpc' = [wpc EXCEPT ![l] = "unlock"]
      BY <2>2 DEF Store
    <3>2. lines' \in Seq(Nat) /\ Len(lines') <= IF size <= 0 THEN 0 ELSE size
      <4>1. CASE size <= 0 /\ lines' = lines
        BY <4>1
      <4>2. CASE size > 0 /\ Len(lines) < size /\ lines' = Append(lines, written + 1)
        <5>1. Len(lines') = Len(lines) + 1 /\ lines' \in Seq(Nat)
          BY <4>2
        <5> QED
          BY <4>2, <5>1
      <4>3. CASE size > 0 /\ lines' \in Seq(Nat) /\ Len(lines') = size
        BY <4>3
      <4> QED
        BY <2>2, <4>1, <4>2, <4>3, Writing
    <3>3. written' \in Nat
      BY <2>2, Writing
    <3> QED
      BY <2>2, <3>1, <3>2, <3>3 DEF Store
  <2>3. ASSUME NEW l \in Loggers, Unlock(l)
        PROVE  TypeOK'
    <3>1. rpc' \in [Readers -> {"idle", "rlock", "wait", "in"}]
      BY <2>3 DEF Unlock, Admitted
    <3>2. snapshot' \in [Readers -> Seq(Nat)]
      BY <2>3 DEF Unlock, Snapshots
    <3>3. wpc' \in [Loggers -> {"idle", "lock", "drain", "in", "unlock", "exit", "gone"}]
      BY <2>3 DEF Unlock
    <3> QED
      BY <2>3, <3>1, <3>2, <3>3 DEF Unlock
  <2>4. ASSUME NEW r \in Readers, Request(r) \/ CheckSize(r) \/ Send(r) \/ Finish(r)
        PROVE  TypeOK'
    <3>0. ASSUME Return(r)
          PROVE  /\ rpc' \in [Readers -> {"idle", "rlock", "wait", "in"}]
                 /\ section' \in [Readers -> {"size", "lines"}]
                 /\ sent' \in [Readers -> Nat]
                 /\ snapshot' \in [Readers -> Seq(Nat)]
                 /\ client' \in [Readers -> {"reads", "stalls", "gone"}]
      <4>1. <<>> \in Seq(Nat)
        OBVIOUS
      <4> QED
        BY <3>0, <4>1, Zenon DEF Return
    <3>1. CASE Request(r)
      BY <3>1 DEF Request
    <3>2. CASE CheckSize(r)
      <4>1. CASE Return(r)
        <5>1. UNCHANGED <<log, writer, wpc, exited>>
          BY <3>2 DEF CheckSize
        <5> QED
          BY <3>0, <4>1, <5>1
      <4>2. CASE /\ rpc' = [rpc EXCEPT ![r] = "rlock"]
                 /\ section' = [section EXCEPT ![r] = "lines"]
                 /\ UNCHANGED <<sent, snapshot, client>>
        <5>1. UNCHANGED <<log, writer, wpc, exited>>
          BY <3>2 DEF CheckSize
        <5> QED
          BY <4>2, <5>1
      <4> QED
        BY <3>2, <4>1, <4>2 DEF CheckSize
    <3>3. CASE Send(r)
      BY <3>3 DEF Send
    <3>4. CASE Finish(r)
      BY <3>4, <3>0 DEF Finish
    <3> QED
      BY <2>4, <3>1, <3>2, <3>3, <3>4
  <2>5. ASSUME NEW r \in Readers, RLock(r)
        PROVE  TypeOK'
    BY <2>5 DEF RLock, Snapshots
  <2>6. ASSUME NEW r \in Readers, Client(r)
        PROVE  TypeOK'
    BY <2>6 DEF Client, Stall, Resume, Leave
  <2>7. CASE SetSize
    <3>1. Len(lines) = 0 /\ limit \in Int
      BY <2>7 DEF SetSize
    <3>2. /\ sized' = TRUE /\ size' = limit
          /\ UNCHANGED <<limit, lines, written, writer, wpc, read, client, exited>>
      BY <2>7 DEF SetSize
    <3> QED
      BY <3>1, <3>2
  <2>8. CASE UNCHANGED vars
    BY <2>8 DEF vars
  <2> QED
    BY <2>1, <2>2, <2>3, <2>4, <2>5, <2>6, <2>7, <2>8 DEF Next, LoggerStep, ReaderStep
<1>3. QED
  BY <1>1, <1>2, PTL DEF Spec

-----------------------------------------------------------------------------
(* The lock. Go's RWMutex is in the model step by step, so that exclusion    *)
(* has to be proved like any other property of it.                          *)

\* Who was announced is on its way through Lock, Write and Unlock, a reader is
\* held back only by somebody who was announced, and one that has not entered
\* the loop of WriteTo has sent nothing.
LockInv ==
    /\ \A l \in Loggers : wpc[l] \in {"drain", "in", "unlock"} <=> writer = l
    /\ \A l \in Loggers : wpc[l] \in {"in", "unlock"} => Inside = {}
    /\ \A r \in Readers : rpc[r] = "wait" => writer # None
    /\ \A r \in Readers :
          rpc[r] \in {"idle", "rlock", "wait"} \/ section[r] = "size" => sent[r] = 0

IInv == LockInv /\ ReadsOneWindow /\ Window

LEMMA LockStep == TypeOK /\ LockInv /\ [Next]_vars => LockInv'
<1> SUFFICES ASSUME TypeOK, LockInv, [Next]_vars
             PROVE  LockInv'
  OBVIOUS
<1> USE DEF LockInv, Inside, read
<1>0. /\ wpc \in [Loggers -> {"idle", "lock", "drain", "in", "unlock", "exit", "gone"}]
      /\ rpc \in [Readers -> {"idle", "rlock", "wait", "in"}]
      /\ section \in [Readers -> {"size", "lines"}] /\ sent \in [Readers -> Nat]
      /\ writer \in Loggers \cup {None} /\ None \notin Loggers
  BY PartiesAssumption DEF TypeOK
<1>1. ASSUME NEW l \in Loggers, Log(l) \/ Exit(l)
      PROVE  LockInv'
  <2>1. /\ wpc[l] \in {"idle", "exit"} /\ UNCHANGED <<writer, read>>
        /\ \E p \in {"lock", "gone"} : wpc' = [wpc EXCEPT ![l] = p]
    BY <1>1 DEF Log, Exit
  <2> QED
    BY <1>0, <2>1
<1>2. ASSUME NEW l \in Loggers, Announce(l)
      PROVE  LockInv'
  BY <1>0, <1>2 DEF Announce
<1>3. ASSUME NEW l \in Loggers, Drain(l) \/ Store(l)
      PROVE  LockInv'
  BY <1>0, <1>3 DEF Drain, Store
<1>4. ASSUME NEW l \in Loggers, Unlock(l)
      PROVE  LockInv'
  <2>1. /\ wpc[l] = "unlock" /\ writer' = None /\ UNCHANGED <<section, sent>>
        /\ \E p \in {"exit", "idle"} : wpc' = [wpc EXCEPT ![l] = p]
    BY <1>4 DEF Unlock
  <2>2. \A r \in Readers : /\ rpc'[r] # "wait"
                           /\ rpc'[r] \in {"idle", "rlock"} => rpc[r] = rpc'[r]
    BY <1>0, <1>4 DEF Unlock, Admitted
  <2> QED
    BY <1>0, <2>1, <2>2
<1>5. ASSUME NEW r \in Readers, Request(r)
      PROVE  LockInv'
  BY <1>0, <1>5 DEF Request
<1>6. ASSUME NEW r \in Readers, RLock(r)
      PROVE  LockInv'
  <2>1. CASE writer = None
    BY <1>0, <1>6, <2>1 DEF RLock
  <2>2. CASE writer # None
    BY <1>0, <1>6, <2>2 DEF RLock
  <2> QED
    BY <2>1, <2>2
<1>7. ASSUME NEW r \in Readers, CheckSize(r)
      PROVE  LockInv'
  <2>1. /\ rpc[r] = "in" /\ UNCHANGED <<writer, wpc>>
        /\ rpc' = [rpc EXCEPT ![r] = "idle"] \/ rpc' = [rpc EXCEPT ![r] = "rlock"]
    BY <1>7 DEF CheckSize, Return
  <2>2. /\ sent'[r] = 0
        /\ \A q \in Readers \ {r} : sent'[q] = sent[q] /\ section'[q] = section[q]
    BY <1>0, <1>7 DEF CheckSize, Return
  <2> QED
    BY <1>0, <2>1, <2>2
<1>8. ASSUME NEW r \in Readers, Send(r) \/ Finish(r)
      PROVE  LockInv'
  BY <1>0, <1>8 DEF Send, Finish, Return
<1>9. CASE SetSize \/ (\E r \in Readers : Client(r)) \/ UNCHANGED vars
  BY <1>9 DEF SetSize, Client, vars
<1> QED
  BY <1>1, <1>2, <1>3, <1>4, <1>5, <1>6, <1>7, <1>8, <1>9 DEF Next, LoggerStep, ReaderStep

\* A reader in its loop keeps the window it entered with.
LEMMA ReadStep == TypeOK /\ LockInv /\ ReadsOneWindow /\ [Next]_vars => ReadsOneWindow'
<1> SUFFICES ASSUME TypeOK, LockInv, ReadsOneWindow, [Next]_vars
             PROVE  ReadsOneWindow'
  OBVIOUS
<1> USE DEF ReadsOneWindow, log, read
<1>0. /\ rpc \in [Readers -> {"idle", "rlock", "wait", "in"}] /\ lines \in Seq(Nat)
      /\ section \in [Readers -> {"size", "lines"}] /\ sent \in [Readers -> Nat]
      /\ snapshot \in [Readers -> Seq(Nat)]
  BY DEF TypeOK
<1>1. ASSUME NEW l \in Loggers, Log(l) \/ Announce(l) \/ Drain(l) \/ Exit(l)
      PROVE  ReadsOneWindow'
  BY <1>1 DEF Log, Announce, Drain, Exit
<1>2. ASSUME NEW l \in Loggers, Store(l)
      PROVE  ReadsOneWindow'
  <2>1. \A r \in Readers : rpc'[r] # "in"
    BY <1>2 DEF Store, LockInv, Inside
  <2> QED
    BY <2>1
<1>3. ASSUME NEW l \in Loggers, Unlock(l)
      PROVE  ReadsOneWindow'
  <2>1. UNCHANGED <<lines, section, sent>>
    BY <1>3 DEF Unlock
  <2>2. ASSUME NEW r \in Readers, rpc'[r] = "in", section'[r] = "lines"
        PROVE  lines = snapshot'[r] /\ sent[r] <= Len(lines)
    <3>1. rpc[r] = "wait"
      BY <1>0, <1>3, <2>2 DEF Unlock, Admitted, LockInv, Inside
    <3>2. snapshot'[r] = lines
      BY <1>3, <2>1, <2>2, <3>1 DEF Unlock, Snapshots
    <3>3. sent[r] = 0
      BY <3>1 DEF LockInv
    <3> QED
      BY <1>0, <3>2, <3>3
  <2> QED
    BY <2>1, <2>2
<1>4. ASSUME NEW r \in Readers, RLock(r)
      PROVE  ReadsOneWindow'
  <2>1. UNCHANGED <<lines, section, sent>> /\ rpc[r] = "rlock" /\ sent[r] = 0
    BY <1>4 DEF RLock, LockInv
  <2>2. CASE writer = None
    <3>1. /\ rpc' = [rpc EXCEPT ![r] = "in"] /\ snapshot' = Snapshots({r})
      BY <1>4, <2>2 DEF RLock
    <3> QED
      BY <1>0, <2>1, <3>1 DEF Snapshots
  <2>3. CASE writer # None
    BY <1>0, <1>4, <2>1, <2>3 DEF RLock
  <2> QED
    BY <2>2, <2>3
<1>5. ASSUME NEW r \in Readers, Request(r)
      PROVE  ReadsOneWindow'
  BY <1>0, <1>5 DEF Request
<1>6. ASSUME NEW r \in Readers, CheckSize(r)
      PROVE  ReadsOneWindow'
  <2>1. UNCHANGED lines /\ \E p \in {"idle", "rlock"} : rpc' = [rpc EXCEPT ![r] = p]
    BY <1>6 DEF CheckSize, Return
  <2>2. \A q \in Readers \ {r} : /\ section'[q] = section[q] /\ sent'[q] = sent[q]
                                 /\ snapshot'[q] = snapshot[q]
    BY <1>0, <1>6 DEF CheckSize, Return
  <2> QED
    BY <1>0, <2>1, <2>2
<1>7. ASSUME NEW r \in Readers, Send(r)
      PROVE  ReadsOneWindow'
  BY <1>0, <1>7 DEF Send
<1>8. ASSUME NEW r \in Readers, Finish(r)
      PROVE  ReadsOneWindow'
  BY <1>0, <1>8 DEF Finish, Return
<1>9. CASE SetSize \/ (\E r \in Readers : Client(r)) \/ UNCHANGED vars
  BY <1>9 DEF SetSize, Client, vars
<1> QED
  BY <1>1, <1>2, <1>3, <1>4, <1>5, <1>6, <1>7, <1>8, <1>9 DEF Next, LoggerStep, ReaderStep

\* The window slides by one line with every line that is written.
LEMMA WindowStep == TypeOK /\ Window /\ [Next]_vars => Window'
<1> SUFFICES ASSUME TypeOK, Window, [Next]_vars
             PROVE  Window'
  OBVIOUS
<1>0. /\ size \in Int /\ written \in Nat /\ lines \in Seq(Nat) /\ Len(lines) \in Nat
      /\ sized \in BOOLEAN /\ (~ sized => size = 0) /\ StartupLines \in Nat
  BY DEF TypeOK, StartupLines
<1> DEFINE kept == IF sized THEN written - StartupLines ELSE 0
<1>a. /\ Len(lines) = IF size <= 0 THEN 0 ELSE IF kept < size THEN kept ELSE size
      /\ \A i \in 1 .. Len(lines) : lines[i] = written - Len(lines) + i
  BY DEF Window
<1>1. ASSUME NEW l \in Loggers, Store(l)
      PROVE  Window'
  <2>0. size' = size /\ sized' = sized /\ written' = written + 1
    BY <1>1 DEF Store
  <2>1. CASE size <= 0 /\ lines' = lines
    BY <1>0, <1>a, <2>0, <2>1 DEF Window
  <2>2. CASE size > 0 /\ Len(lines) < size /\ lines' = Append(lines, written + 1)
    <3>1. sized /\ Len(lines) = written - StartupLines /\ kept < size
      BY <1>0, <1>a, <2>2
    <3>2. /\ Len(lines') = Len(lines) + 1 /\ lines'[Len(lines) + 1] = written + 1
          /\ \A i \in 1 .. Len(lines) : lines'[i] = lines[i]
      BY <1>0, <2>2
    <3>3. \A i \in 1 .. Len(lines') : lines'[i] = written' - Len(lines') + i
      <4>1. ASSUME NEW i \in 1 .. Len(lines') PROVE lines'[i] = written' - Len(lines') + i
        <5>1. CASE i = Len(lines) + 1
          BY <1>0, <2>0, <3>2, <5>1
        <5>2. CASE i \in 1 .. Len(lines)
          <6>1. lines'[i] = written - Len(lines) + i
            BY <1>a, <3>2, <5>2
          <6> QED
            BY <1>0, <2>0, <3>2, <5>2, <6>1
        <5> QED
          BY <1>0, <3>2, <5>1, <5>2
      <4> QED
        BY <4>1
    <3>4. Len(lines') = IF written' - StartupLines < size THEN written' - StartupLines ELSE size
      BY <1>0, <2>0, <2>2, <3>1, <3>2
    <3> QED
      BY <1>0, <2>0, <2>2, <3>1, <3>3, <3>4 DEF Window
  <2>3. CASE /\ size > 0 /\ Len(lines) = size
             /\ lines' \in Seq(Nat) /\ Len(lines') = size
             /\ lines'[size] = written + 1
             /\ \A i \in 1 .. size - 1 : lines'[i] = lines[i + 1]
    <3>1. sized /\ written - StartupLines >= size
      BY <1>0, <1>a, <2>3
    <3>2. \A i \in 1 .. size - 1 : lines'[i] = written - size + i + 1
      <4>1. ASSUME NEW i \in 1 .. size - 1
            PROVE  lines[i + 1] = written - size + i + 1
        <5>1. i + 1 \in 1 .. Len(lines)
          BY <1>0, <2>3
        <5>2. lines[i + 1] = written - Len(lines) + (i + 1)
          BY <1>a, <5>1
        <5> QED
          BY <1>0, <2>3, <5>2
      <4> QED
        BY <2>3, <4>1
    <3>3. \A i \in 1 .. Len(lines') : lines'[i] = written' - Len(lines') + i
      BY <1>0, <2>0, <2>3, <3>2
    <3> QED
      BY <1>0, <2>0, <2>3, <3>1, <3>3 DEF Window
  <2> QED
    BY <1>1, <2>1, <2>2, <2>3, Writing
<1>2. CASE SetSize
  \* The buffer is empty and starts with the next line.
  <2>1. sized' = TRUE /\ lines' = lines /\ written' = StartupLines /\ Len(lines) = 0
    BY <1>0, <1>a, <1>2 DEF SetSize
  <2>2. Len(lines') = IF size' <= 0 THEN 0 ELSE IF 0 < size' THEN 0 ELSE size'
    <3>1. size' \in Int
      BY <1>2 DEF SetSize, TypeOK
    <3> QED
      BY <2>1, <3>1
  <2> QED
    BY <1>0, <2>1, <2>2 DEF Window
<1>3. CASE UNCHANGED log
  BY <1>3 DEF Window, log
<1> QED
  BY <1>1, <1>2, <1>3
     DEF Next, LoggerStep, ReaderStep, Log, Announce, Drain, Unlock, Exit, Request, RLock,
         CheckSize, Send, Finish, Return, Client, vars

LEMMA Inductive == Spec => []IInv
<1>1. Init => IInv
  <2> SUFFICES ASSUME Init PROVE IInv
    OBVIOUS
  <2>1. size = 0 /\ ~ sized /\ written = 0 /\ lines = <<>>
    BY DEF Init
  <2>2. Window
    BY <2>1 DEF Window
  <2> QED
    BY <2>1, <2>2, PartiesAssumption DEF Init, IInv, LockInv, Inside, ReadsOneWindow
<1>2. TypeOK /\ IInv /\ [Next]_vars => IInv'
  BY LockStep, ReadStep, WindowStep DEF IInv
<1>3. QED
  BY <1>1, <1>2, TypeCorrect, PTL DEF Spec

\* One goroutine writes at a time and nobody reads meanwhile.
THEOREM LockExcludes == Spec => []Exclusion
<1>1. TypeOK /\ IInv => Exclusion
  BY DEF TypeOK, IInv, LockInv, Exclusion
<1>2. QED
  BY <1>1, TypeCorrect, Inductive, PTL

\* The buffer holds exactly the last size of the lines logged since main set the
\* size, in order (logging.go:23-34, main.go:482-484).
THEOREM BufferIsTheWindow == Spec => []Window
<1>1. IInv => Window
  BY DEF IInv
<1>2. QED
  BY <1>1, Inductive, PTL

\* The lines logged before main sets the size, "env" among them (main.go:463-480),
\* are never in the buffer, and so no /logs request sends them, although bucket.go:17-18
\* speaks of 'the startup "env" log line (which is exposed via /logs)'.
OnlyLaterLines == \A i \in DOMAIN lines : lines[i] > StartupLines

THEOREM StartupLinesAreLost == Spec => []OnlyLaterLines
<1>1. TypeOK /\ Window => OnlyLaterLines
  <2> SUFFICES ASSUME TypeOK, Window, NEW i \in DOMAIN lines
               PROVE  lines[i] > StartupLines
    BY DEF OnlyLaterLines
  <2>1. /\ size \in Int /\ written \in Nat /\ Len(lines) \in Nat /\ i \in 1 .. Len(lines)
        /\ sized \in BOOLEAN /\ (~ sized => size = 0)
    BY DEF TypeOK
  <2>2. sized /\ Len(lines) <= written - StartupLines
    BY <2>1 DEF Window, StartupLines
  <2>3. lines[i] = written - Len(lines) + i
    BY <2>1 DEF Window
  <2> QED
    BY <2>1, <2>2, <2>3 DEF StartupLines
<1>2. QED
  BY <1>1, TypeCorrect, BufferIsTheWindow, PTL

\* What one /logs request sends is one window, however long its client takes.
THEOREM RequestSendsOneWindow == Spec => []ReadsOneWindow
<1>1. IInv => ReadsOneWindow
  BY DEF IInv
<1>2. QED
  BY <1>1, Inductive, PTL
=============================================================================
