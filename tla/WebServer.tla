------------------------------ MODULE WebServer ------------------------------
(***************************************************************************)
(* The HTTP server (main.go, logging.go): requests that go through the       *)
(* logging middleware and the mux to a page, the view that the root page     *)
(* shows, the slow and the silent page, and the shutdown of /killhttp.       *)
(*                                                                         *)
(* A request is served by a goroutine of its own. What net/http does is      *)
(* modelled as far as it decides which status is sent and when Shutdown      *)
(* returns. Headers, bodies and what the pages of the load generator start   *)
(* (see LoadGenerator) are left out; /exit/ is in Process.                   *)
(***************************************************************************)
EXTENDS Integers

CONSTANTS
    Requests,  \* the requests of a run, each made at most once
    Asks,      \* what may be asked for
    Roots,     \* values of web.root
    None       \* no status, no line

\* Where a path leads: the slashes it has too many, its page ("" for /), and the
\* codes it lists for /status/. The root's view is one with an optional query.
Pages == {"", "plain", "cache", "status", "slow", "nothing", "set-root-handler", "logs",
          "favicon.ico", "killhttp", "debug", "load/random", "load/seed", "load/abort", "unknown"}
Places == [slashes : Nat, page : Pages, codes : SUBSET Int]
Views == [slashes : Nat, page : Pages, codes : SUBSET Int, query : BOOLEAN]

ASSUME AsksAssumption == Asks \subseteq [at : Places, post : BOOLEAN, view : Views] /\ Roots \subseteq Views
ASSUME NoneAssumption == None \notin Int

VARIABLES
    view,     \* rootHandler.view
    pc,       \* where the goroutine of a request is
    ask,      \* what a request asked for
    at,       \* its r.URL, which rootHandler rewrites in place
    resp,     \* its loggingMiddlewareResponseWriter and what net/http has sent
    client,   \* "reading", "stalled", "resumed" or "gone"
    over,     \* the context of /slow or /nothing is done
    line,     \* the log line of a request
    server,   \* "serving", "closing" or "crashed"
    killers,  \* goroutines of /killhttp that still sleep
    closers   \* goroutines of /killhttp in server.Shutdown

vars == <<view, pc, ask, at, resp, client, over, line, server, killers, closers>>

Root == [slashes |-> 0, page |-> "", codes |-> {}]

\* strings.TrimPrefix(view, "/") of SetView.
AlwaysTrimmed(v) == [v EXCEPT !.slashes = @ - 1]   \* mutant: no prefix to trim
Trimmed(v) == [v EXCEPT !.slashes = IF @ > 0 THEN @ - 1 ELSE 0]

\* view == "", and a view that is only a query: its path is / again.
IsDefault(v) == v.slashes = 0 /\ v.page = "" /\ ~ v.query
IsBareQuery(v) == v.slashes = 0 /\ v.page = "" /\ v.query

Fresh == [status |-> 200, wrote |-> FALSE, sent |-> None, hijacked |-> FALSE]

Init ==
    /\ \E v \in Roots : view = Trimmed(v)
    /\ pc = [r \in Requests |-> "none"]
    /\ ask = [r \in Requests |-> None] /\ at = [r \in Requests |-> Root]
    /\ resp = [r \in Requests |-> Fresh]
    /\ client = [r \in Requests |-> "reading"] /\ over = [r \in Requests |-> FALSE]
    /\ line = [r \in Requests |-> None]
    /\ server = "serving" /\ killers = 0 /\ closers = 0

Up == server # "crashed"

-----------------------------------------------------------------------------
(* The response. *)

\* net/http: a 1xx other than 101 is sent ahead of the status, which is the
\* first other one; it is 200 if the body or the end of the handler comes first.
Informational(code) == code \in 100 .. 199 /\ code # 101
Sending(sent, code) == IF sent = None /\ ~ Informational(code) THEN code ELSE sent

\* loggingMiddlewareResponseWriter.WriteHeader and Write.
ForgetsTheStatus(w, code) ==                       \* mutant: rw.status is not set
    IF w.wrote THEN w ELSE [w EXCEPT !.wrote = TRUE, !.sent = Sending(@, code)]
WriteHeader(w, code) ==
    IF w.wrote THEN w ELSE [w EXCEPT !.status = code, !.wrote = TRUE, !.sent = Sending(@, code)]
Write(w) ==
    LET headed == IF w.wrote THEN w ELSE WriteHeader(w, 200) IN [headed EXCEPT !.sent = Sending(@, 200)]

\* net/http, when the handler has returned.
EndOfHandler(w) == IF w.hijacked THEN w ELSE [w EXCEPT !.sent = Sending(@, 200)]

\* loggingMiddleware looks at the URL as the handlers left it; the server's
\* handler decides by the one asked for what goes past it.
LogIgnored == {"logs", "favicon.ico"}
Page(place) == IF place.slashes > 0 THEN "unclean" ELSE place.page
BypassesLog(r) == Page(ask[r].at) = "debug"
IsLogged(r) == ~ BypassesLog(r) /\ Page(at[r]) \notin LogIgnored

\* The handler of r returns, with w as the response.
Return(r, w) ==
    /\ resp' = [resp EXCEPT ![r] = EndOfHandler(w)]
    /\ line' = [line EXCEPT ![r] = IF IsLogged(r) THEN w.status ELSE None]
    /\ pc' = [pc EXCEPT ![r] = "done"]

-----------------------------------------------------------------------------
(* The pages. The mux calls the handler of the page of r.URL.               *)

\* A request arrives while the listener is open.
Arrive(r) ==
    /\ server = "serving" /\ pc[r] = "none"
    /\ \E a \in Asks : ask' = [ask EXCEPT ![r] = a] /\ at' = [at EXCEPT ![r] = a.at]
    /\ pc' = [pc EXCEPT ![r] = "mux"]
    /\ UNCHANGED <<view, resp, client, over, line, server, killers, closers>>

At(r, page) == Up /\ pc[r] = "mux" /\ Page(at[r]) = page

\* WriteHeader, the body, and the end.
Answer(r, code) ==
    /\ Return(r, Write(WriteHeader(resp[r], code)))
    /\ UNCHANGED <<ask, at, client, over, server, closers>>

\* Pages that answer with a status of their own and leave all else alone. The
\* mux redirects paths that are not clean. /debug/ without pprof.enable and
\* unknown pages lead to rootHandler, which does not find them.
Plain(r) ==
    /\ \/ At(r, "plain") /\ Answer(r, 200)
       \/ \E code \in {200, 404} : (At(r, "cache") \/ At(r, "logs")) /\ Answer(r, code)
       \/ (At(r, "favicon.ico") \/ At(r, "unknown") \/ At(r, "debug")) /\ Answer(r, 404)
       \/ At(r, "unclean") /\ Answer(r, 301)
       \/ At(r, "load/random") /\ Answer(r, 302)
       \/ \E code \in {200, 409} : At(r, "load/abort") /\ Answer(r, code)
    /\ UNCHANGED <<view, killers>>

\* rootHandler for /: the default page, or the page of the view as it is now.
ShowDefault(r) ==
    /\ At(r, "") /\ IsDefault(view)
    /\ Answer(r, 200)
    /\ UNCHANGED <<view, killers>>

Redispatch(r) ==
    /\ At(r, "") /\ ~ IsDefault(view)
    /\ at' = [at EXCEPT ![r] = [slashes |-> view.slashes, page |-> view.page, codes |-> view.codes]]
    /\ UNCHANGED <<view, pc, ask, resp, client, over, line, server, killers, closers>>

\* While the view is a bare query, mux and rootHandler call each other until the
\* stack is full, which is fatal.
Overflow(r) ==
    /\ At(r, "") /\ IsBareQuery(view)
    /\ server' = "crashed"
    /\ UNCHANGED <<view, pc, ask, at, resp, client, over, line, killers, closers>>

\* newStatusHandler: one of the codes that are in range, 200 without any.
ValidCodes(codes) == codes \cap (100 .. 599)
Status(r) ==
    /\ At(r, "status")
    /\ LET valid == ValidCodes(at[r].codes) IN
          \E code \in (IF valid = {} THEN {200} ELSE valid) : Answer(r, code)
    /\ UNCHANGED <<view, killers>>

\* newSetRootHandler.
SetRoot(r) ==
    /\ At(r, "set-root-handler")
    /\ \/ ask[r].post /\ view' = Trimmed(ask[r].view) /\ Answer(r, 302)
       \/ ~ ask[r].post /\ view' = view /\ Answer(r, 405)
    /\ UNCHANGED killers

KillHttp(r) ==
    /\ At(r, "killhttp")
    /\ killers' = killers + 1
    /\ Answer(r, 200)
    /\ UNCHANGED view

\* /load/seed/, without a seed, with a bad one, or with one whose schedule makes
\* GenerateRandomSchedule panic (Schedules): net/http recovers and closes the
\* connection, and the middleware does not get to its line.
SeedLoad(r) ==
    /\ At(r, "load/seed")
    /\ \/ \E code \in {200, 302, 400} : Answer(r, code)
       \/ /\ pc' = [pc EXCEPT ![r] = "panicked"]
          /\ UNCHANGED <<ask, at, resp, client, over, line, server, closers>>
    /\ UNCHANGED <<view, killers>>

\* A handler goes on without being done.
Goto(r, label, w) ==
    /\ pc' = [pc EXCEPT ![r] = label]
    /\ resp' = [resp EXCEPT ![r] = w]
    /\ UNCHANGED <<view, ask, at, client, over, line, server, killers, closers>>

Blocks(r) == client[r] = "stalled"

\* /slow writes its first lines: a client that does not read blocks every write.
SlowStart(r) == At(r, "slow") /\ ~ Blocks(r) /\ Goto(r, "select", Write(WriteHeader(resp[r], 200)))

\* A tick is selected; with an interval of 0 or less none ever comes. Errors of
\* Flush are only logged.
SlowTick(r) == Up /\ pc[r] = "select" /\ Goto(r, "tick", resp[r])
SlowWrite(r) == Up /\ pc[r] = "tick" /\ ~ Blocks(r) /\ Goto(r, "select", Write(resp[r]))

SlowDone(r) ==
    /\ Up /\ pc[r] = "select" /\ over[r]
    /\ Return(r, resp[r])
    /\ UNCHANGED <<view, ask, at, client, over, server, killers, closers>>

\* /nothing waits, then takes the connection from the server and closes it.
NothingStart(r) == At(r, "nothing") /\ Goto(r, "wait", resp[r])

NothingDone(r) ==
    /\ Up /\ pc[r] = "wait" /\ over[r]
    /\ \E taken \in BOOLEAN : Return(r, [resp[r] EXCEPT !.hijacked = taken])
    /\ UNCHANGED <<view, ask, at, client, over, server, killers, closers>>

CancelledByClient(r) == client[r] = "gone"         \* mutant: no timeout
Cancelled(r) == TRUE

\* The context of a long page ends with its duration or with the client.
ContextDone(r) ==
    /\ Up /\ pc[r] \in {"select", "tick", "wait"} /\ ~ over[r] /\ Cancelled(r)
    /\ over' = [over EXCEPT ![r] = TRUE]
    /\ UNCHANGED <<view, pc, ask, at, resp, client, line, server, killers, closers>>

-----------------------------------------------------------------------------
(* Clients, and the shutdown. *)

\* The client of a long page, which no other page notices, stops reading, once
\* (a bound), reads again, or goes away.
IsLong(r) == pc[r] \in {"select", "tick", "wait"} \/ (pc[r] = "mux" /\ Page(at[r]) = "slow")

Behave(r, from, to) ==
    /\ Up /\ IsLong(r) /\ client[r] \in from
    /\ client' = [client EXCEPT ![r] = to]
    /\ UNCHANGED <<view, pc, ask, at, resp, over, line, server, killers, closers>>

Stall(r) == Behave(r, {"reading"}, "stalled")
Recover(r) == Behave(r, {"stalled"}, "resumed") \/ Behave(r, {"stalled"}, "gone")
Leave(r) == Behave(r, {"reading", "resumed"}, "gone")

\* 100 ms after the answer of /killhttp. ListenAndServe returns at once.
Shutdown ==
    /\ Up /\ killers > 0
    /\ killers' = killers - 1 /\ closers' = closers + 1
    /\ server' = "closing"
    /\ UNCHANGED <<view, pc, ask, at, resp, client, over, line>>

OnlyServed(r) == pc[r] \in {"done", "panicked"}     \* mutant: unused connections count
IsIdle(r) == pc[r] \in {"none", "done", "panicked"}

\* Shutdown waits for every connection to be idle; there are no more after it.
ShutdownReturns ==
    /\ Up /\ closers > 0 /\ \A r \in Requests : IsIdle(r)
    /\ closers' = closers - 1
    /\ UNCHANGED <<view, pc, ask, at, resp, client, over, line, server, killers>>

Serve(r) ==
    \/ Plain(r) \/ ShowDefault(r) \/ Redispatch(r) \/ Overflow(r) \/ Status(r) \/ SetRoot(r)
    \/ KillHttp(r) \/ SeedLoad(r) \/ SlowStart(r) \/ SlowWrite(r) \/ NothingStart(r) \/ NothingDone(r)

Next ==
    \/ \E r \in Requests :
          \/ Arrive(r) \/ Serve(r) \/ SlowTick(r) \/ SlowDone(r) \/ ContextDone(r)
          \/ Stall(r) \/ Recover(r) \/ Leave(r)
    \/ Shutdown \/ ShutdownReturns

Spec == Init /\ [][Next]_vars

\* Goroutines run and timers fire. A select does not overlook a context that is
\* done for ever, and a client that stalls does not do so for ever.
FairSpec ==
    /\ Spec
    /\ \A r \in Requests :
          WF_vars(Serve(r)) /\ SF_vars(SlowDone(r)) /\ WF_vars(ContextDone(r)) /\ WF_vars(Recover(r))
    /\ WF_vars(Shutdown) /\ WF_vars(ShutdownReturns)

-----------------------------------------------------------------------------
(* Properties. *)

\* Types. Only a slash that is there is taken off a view.
TypeOK ==
    /\ view \in Views
    /\ \A r \in Requests :
          /\ pc[r] \in {"none", "mux", "select", "tick", "wait", "done", "panicked"}
          /\ ask[r] \in Asks \cup {None} /\ at[r] \in Places
          /\ resp[r] \in [status : 100 .. 599, wrote : BOOLEAN, sent : 100 .. 599 \cup {None},
                          hijacked : BOOLEAN]
          /\ client[r] \in {"reading", "stalled", "resumed", "gone"} /\ over[r] \in BOOLEAN
          /\ line[r] \in 100 .. 599 \cup {None}
    /\ server \in {"serving", "closing", "crashed"} /\ killers \in Nat /\ closers \in Nat

(* Every request but those for /debug/ is logged once its page has answered, *)
(* unless that page is /logs or /favicon.ico, whether it was asked for or is *)
(* the view of the root; and the line has the status that was sent, whoever  *)
(* decided on it: WriteHeader, a first Write or the end of the handler       *)
(* (logging.go:91-139). Informational codes are the exception, and /nothing  *)
(* once it has taken the connection over: its line says 200, the status it   *)
(* set, and nothing is sent (main.go:645-661).                               *)
LogTellsTheAnswer ==
    \A r \in Requests :
        /\ pc[r] = "done" => (line[r] = None <=> BypassesLog(r) \/ Page(at[r]) \in LogIgnored)
        /\ line[r] # None => line[r] = resp[r].sent \/ Informational(line[r]) \/ resp[r].hijacked

(* "Returns a random HTTP status from the provided comma-separated list of   *)
(* status codes" (docs.html:62): the answer has one of the codes of the list *)
(* that are in range.                                                        *)
StatusFromTheList ==
    \A r \in Requests :
        pc[r] = "done" /\ Page(at[r]) = "status" /\ ValidCodes(at[r].codes) # {} =>
            resp[r].sent \in at[r].codes

(* Every request ends: /slow and /nothing by their time or with their client, *)
(* whatever the view of the root is changed to meanwhile; but a root that is  *)
(* shown with a bare query as its view brings the process down.              *)
RequestsEnd ==
    \A r \in Requests : pc[r] = "mux" ~> (pc[r] \in {"done", "panicked"} \/ server = "crashed")

(* /killhttp stops the server: every Shutdown returns, however many of them   *)
(* there are and though a long page is being written when it is called.      *)
ServerDrains == (killers > 0 \/ closers > 0) ~> ((killers = 0 /\ closers = 0) \/ server = "crashed")
=============================================================================
