------------------------------ MODULE LogBuffer ------------------------------
(***************************************************************************)
(* The in-memory log of troublemaker (logging.go): a window over the last   *)
(* lines, behind a sync.RWMutex. Every goroutine that logs a line writes to *)
(* it; every /logs request reads it, and keeps the read lock while it sends *)
(* the lines to its client.                                                 *)
(*                                                                         *)
(* The RWMutex is Go's: a Lock that waits for the readers to leave holds    *)
(* back every later RLock, and an Unlock lets in all the readers that were  *)
(* held back before another Lock gets its turn.                             *)
(*                                                                         *)
(* A line is its number in the order in which the lines were written. The   *)
(* first lines are those of main before it has set the size of the buffer.  *)
(***************************************************************************)
EXTENDS Integers, Sequences

CONSTANTS
    Loggers,   \* goroutines that log: main, request handlers, the load, timers
    Main,      \* the one of main, and of any other logger once the size is set
    Exiters,   \* those of them that call os.Exit once their line is written
    Readers,   \* /logs requests
    Sizes,     \* values of log.size
    MaxLines,  \* bound on the number of lines in a behaviour
    None       \* no writer

ASSUME SizeAssumption == Sizes \subseteq Int /\ MaxLines \in Nat
ASSUME PartiesAssumption ==
    Exiters \subseteq Loggers /\ None \notin Loggers /\ Main \in Loggers \ Exiters

VARIABLES
    limit,    \* flags.LogSize
    sized,    \* main has set the size
    size,     \* lb.size
    lines,    \* lb.lines
    writer,   \* the goroutine that called Lock and keeps new readers out
    wpc,      \* where each logger is
    rpc,      \* where each reader is
    section,  \* which of its two read sections a reader is about to enter or in
    sent,     \* how many lines of the loop of WriteTo a reader has sent
    client,   \* the client of a reader: it reads, it stalls, or it has gone
    exited,   \* os.Exit was called
    written,  \* history: the number of lines written since the start
    snapshot  \* history: the window when the reader entered WriteTo

log  == <<limit, sized, size, lines, written>>
read == <<rpc, section, sent, snapshot>>
vars == <<log, writer, wpc, read, client, exited>>

\* The last n elements of a sequence.
Newest(s, n) == SubSeq(s, Len(s) - n + 1, Len(s))

\* os.Exit ends every goroutine.
Alive == ~ exited

Inside == {r \in Readers : rpc[r] = "in"}

StartupLines == 2   \* "started" and "env", logged before the size is set

Init ==
    /\ limit \in Sizes
    /\ sized = FALSE
    /\ size = 0
    /\ lines = <<>>
    /\ written = 0
    /\ writer = None
    /\ wpc = [l \in Loggers |-> "idle"]
    /\ rpc = [r \in Readers |-> "idle"]
    /\ section = [r \in Readers |-> "size"]
    /\ sent = [r \in Readers |-> 0]
    /\ snapshot = [r \in Readers |-> <<>>]
    /\ client = [r \in Readers |-> "reads"]
    /\ exited = FALSE

-----------------------------------------------------------------------------
(* Write                                                                   *)

\* main sets the size after its first lines, under the lock. No other goroutine
\* has been started yet.
SetSize ==
    /\ Alive
    /\ ~ sized /\ wpc[Main] = "idle" /\ written = StartupLines
    /\ writer = None /\ Inside = {}
    /\ sized' = TRUE /\ size' = limit
    /\ UNCHANGED <<limit, lines, written, writer, wpc, read, client, exited>>

\* A line is logged: Write is called and reaches lb.mu.Lock().
Log(l) ==
    /\ Alive
    /\ wpc[l] = "idle"
    /\ written < MaxLines
    /\ sized \/ (l = Main /\ written < StartupLines)
    /\ wpc' = [wpc EXCEPT ![l] = "lock"]
    /\ UNCHANGED <<log, writer, read, client, exited>>

\* Lock, first half: one writer at a time, and from here on no new readers.
Announce(l) ==
    /\ Alive
    /\ wpc[l] = "lock"
    /\ writer = None
    /\ writer' = l
    /\ wpc' = [wpc EXCEPT ![l] = "drain"]
    /\ UNCHANGED <<log, read, client, exited>>

DrainsNothing(l) ==                             \* mutant: no wait for the readers
    /\ Alive
    /\ wpc[l] = "drain"
    /\ wpc' = [wpc EXCEPT ![l] = "in"]
    /\ UNCHANGED <<log, writer, read, client, exited>>

\* Lock, second half: the readers that are inside have left.
Drain(l) ==
    /\ Alive
    /\ wpc[l] = "drain"
    /\ Inside = {}
    /\ wpc' = [wpc EXCEPT ![l] = "in"]
    /\ UNCHANGED <<log, writer, read, client, exited>>

KeepsTheFirst(s) == SubSeq(s, 1, IF Len(s) > size THEN size ELSE Len(s))   \* mutant
KeepsOneMore(s) == IF Len(s) > size + 1 THEN Newest(s, size + 1) ELSE s      \* mutant
Trim(s) == IF Len(s) > size THEN Newest(s, size) ELSE s

\* The body of Write: nothing is kept unless size > 0.
Store(l) ==
    /\ Alive
    /\ wpc[l] = "in"
    /\ written' = written + 1
    /\ lines' = IF size <= 0 THEN lines ELSE Trim(Append(lines, written + 1))
    /\ wpc' = [wpc EXCEPT ![l] = "unlock"]
    /\ UNCHANGED <<limit, sized, size, writer, read, client, exited>>

Admitted == [r \in Readers |-> IF rpc[r] = "wait" THEN "in" ELSE rpc[r]]

\* Readers that are let into WriteTo take the lines they will send from here.
Snapshots(entering) ==
    [r \in Readers |-> IF r \in entering /\ section[r] = "lines" THEN lines
                                                              ELSE snapshot[r]]

\* Unlock: the readers that were held back enter, then others may Lock. An
\* exiting goroutine goes on to os.Exit, the others return.
Unlock(l) ==
    /\ Alive
    /\ wpc[l] = "unlock"
    /\ writer' = None
    /\ rpc' = Admitted
    /\ snapshot' = Snapshots({r \in Readers : rpc[r] = "wait"})
    /\ wpc' = [wpc EXCEPT ![l] = IF l \in Exiters THEN "exit" ELSE "idle"]
    /\ UNCHANGED <<log, section, sent, client, exited>>

\* os.Exit, after logger.Info().Msg("exit on http request") has returned.
Exit(l) ==
    /\ Alive
    /\ wpc[l] = "exit"
    /\ exited' = TRUE
    /\ wpc' = [wpc EXCEPT ![l] = "gone"]
    /\ UNCHANGED <<log, writer, read, client>>

-----------------------------------------------------------------------------
(* newLogsHandler and WriteTo                                              *)

\* A request: the handler is about to read the size under the read lock. The
\* server is started after the size has been set.
Request(r) ==
    /\ Alive /\ sized
    /\ rpc[r] = "idle"
    /\ rpc' = [rpc EXCEPT ![r] = "rlock"]
    /\ UNCHANGED <<log, writer, wpc, section, sent, snapshot, client, exited>>

\* The handler returns, and its variables and its client are gone.
Return(r) ==
    /\ rpc' = [rpc EXCEPT ![r] = "idle"]
    /\ section' = [section EXCEPT ![r] = "size"]
    /\ sent' = [sent EXCEPT ![r] = 0]
    /\ snapshot' = [snapshot EXCEPT ![r] = <<>>]
    /\ client' = [client EXCEPT ![r] = "reads"]

\* RLock: at once, unless a writer was announced.
RLock(r) ==
    /\ Alive
    /\ rpc[r] = "rlock"
    /\ rpc' = [rpc EXCEPT ![r] = IF writer = None THEN "in" ELSE "wait"]
    /\ snapshot' = IF writer = None THEN Snapshots({r}) ELSE snapshot
    /\ UNCHANGED <<log, writer, wpc, section, sent, client, exited>>

\* The size is read and the lock released: 404 without a buffer, else WriteTo.
CheckSize(r) ==
    /\ Alive
    /\ rpc[r] = "in" /\ section[r] = "size"
    /\ \/ size <= 0 /\ Return(r)
       \/ /\ size > 0
          /\ rpc' = [rpc EXCEPT ![r] = "rlock"]
          /\ section' = [section EXCEPT ![r] = "lines"]
          /\ UNCHANGED <<sent, snapshot, client>>
    /\ UNCHANGED <<log, writer, wpc, exited>>

\* One turn of the loop: fmt.Fprint(w, line) blocks while the client stalls.
Send(r) ==
    /\ Alive
    /\ rpc[r] = "in" /\ section[r] = "lines"
    /\ sent[r] < Len(lines)
    /\ client[r] = "reads"
    /\ sent' = [sent EXCEPT ![r] = @ + 1]
    /\ UNCHANGED <<log, writer, wpc, rpc, section, snapshot, client, exited>>

FinishLeaksTheLock(r) ==                        \* mutant: no RUnlock on an error
    /\ Alive
    /\ rpc[r] = "in" /\ section[r] = "lines"
    /\ sent[r] = Len(lines)
    /\ Return(r)
    /\ UNCHANGED <<log, writer, wpc, exited>>

\* The loop ends, or Fprint fails because the client has gone: RUnlock.
Finish(r) ==
    /\ Alive
    /\ rpc[r] = "in" /\ section[r] = "lines"
    /\ sent[r] = Len(lines) \/ client[r] = "gone"
    /\ Return(r)
    /\ UNCHANGED <<log, writer, wpc, exited>>

\* The client stops reading, goes on, or closes the connection.
Stall(r)  == client[r] = "reads" /\ client' = [client EXCEPT ![r] = "stalls"]
Resume(r) == client[r] = "stalls" /\ client' = [client EXCEPT ![r] = "reads"]
Leave(r)  == client[r] # "gone" /\ client' = [client EXCEPT ![r] = "gone"]

Client(r) ==
    /\ Alive
    /\ rpc[r] # "idle"
    /\ Stall(r) \/ Resume(r) \/ Leave(r)
    /\ UNCHANGED <<log, writer, wpc, read, exited>>

-----------------------------------------------------------------------------

\* What a goroutine of the server does without waiting for a client.
LoggerStep(l) == Announce(l) \/ Drain(l) \/ Store(l) \/ Unlock(l) \/ Exit(l)
ReaderStep(r) == RLock(r) \/ CheckSize(r) \/ Send(r) \/ Finish(r)

Next ==
    \/ SetSize
    \/ \E l \in Loggers : Log(l) \/ LoggerStep(l)
    \/ \E r \in Readers : Request(r) \/ ReaderStep(r) \/ Client(r)

Spec == Init /\ [][Next]_vars

\* The Go scheduler runs every goroutine that can run. A goroutine that waits
\* for the mutex gets it if it is free again and again (the starvation mode of
\* sync.Mutex): strong fairness for Announce.
ServerFairness ==
    /\ \A l \in Loggers :
          /\ WF_vars(Drain(l) \/ Store(l) \/ Unlock(l) \/ Exit(l))
          /\ SF_vars(Announce(l))
    /\ \A r \in Readers :
          /\ WF_vars(RLock(r) \/ CheckSize(r) \/ Finish(r))
          /\ SF_vars(Send(r))

\* Clients that stalled read on or close the connection in the end.
ClientFairness == \A r \in Readers : WF_vars(client[r] = "stalls" /\ Client(r))

ServerSpec == Spec /\ ServerFairness
FairSpec == ServerSpec /\ ClientFairness

-----------------------------------------------------------------------------

TypeOK ==
    /\ limit \in Int /\ sized \in BOOLEAN /\ written \in Nat
    /\ size = IF sized THEN limit ELSE 0
    /\ lines \in Seq(Nat) /\ Len(lines) <= IF size <= 0 THEN 0 ELSE size
    /\ writer \in Loggers \cup {None}
    /\ wpc \in [Loggers -> {"idle", "lock", "drain", "in", "unlock", "exit", "gone"}]
    /\ rpc \in [Readers -> {"idle", "rlock", "wait", "in"}]
    /\ section \in [Readers -> {"size", "lines"}]
    /\ sent \in [Readers -> Nat]
    /\ snapshot \in [Readers -> Seq(Nat)]
    /\ client \in [Readers -> {"reads", "stalls", "gone"}]
    /\ exited \in BOOLEAN

\* docs.html:55: "Returns the last log.size lines of application logs". Between
\* two writes the buffer holds the last log.size of the lines that were logged
\* since main set the size, in the order in which they were written, or all of
\* those while there are fewer; nothing before, or if it is disabled. The lines
\* logged before main.go:482 are in no window (StartupLinesAreLost).
Window ==
    LET kept == IF sized THEN written - StartupLines ELSE 0
    IN  /\ Len(lines) = IF size <= 0 THEN 0 ELSE IF kept < size THEN kept ELSE size
        /\ \A i \in 1 .. Len(lines) : lines[i] = written - Len(lines) + i

\* A reader in the loop of WriteTo sends one window: no line is appended or
\* dropped between the first line it sends and the last (logging.go:37-47).
ReadsOneWindow ==
    \A r \in Readers :
        rpc[r] = "in" /\ section[r] = "lines" => lines = snapshot[r] /\ sent[r] <= Len(lines)

\* Nobody reads while a line is appended, and one line is appended at a time.
Exclusion ==
    \A l \in Loggers :
        wpc[l] \in {"in", "unlock"} =>
            /\ writer = l
            /\ Inside = {}
            /\ \A k \in Loggers \ {l} : wpc[k] \notin {"drain", "in", "unlock"}

\* Who logs a line goes on, and a /logs request is answered, however much is
\* logged or read meanwhile, if clients of /logs that stall read on or leave:
\* neither side of the lock keeps the other out for ever (logging.go:24, 37).
EverybodyReturns ==
    /\ \A l \in Loggers : wpc[l] = "lock" ~> wpc[l] \in {"idle", "exit", "gone"} \/ exited
    /\ \A r \in Readers : rpc[r] # "idle" ~> rpc[r] = "idle" \/ exited

\* docs.html:185: "Immediately terminates the troublemaker server process." The
\* process ends once /exit/ is asked to end it, whatever the clients of other
\* requests do.
ExitTerminates == \A l \in Exiters : wpc[l] = "lock" ~> exited
=============================================================================
