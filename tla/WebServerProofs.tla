-------------------------- MODULE WebServerProofs ---------------------------
(***************************************************************************)
(* Proofs about WebServer, for any set of requests, whatever they ask for    *)
(* and whatever the views of the root are.                                  *)
(***************************************************************************)
EXTENDS WebServer, TLAPS

Labels == {"none", "mux", "select", "tick", "wait", "done", "panicked"}
Codes == 100 .. 599
Responses == [status : Codes, wrote : BOOLEAN, sent : Codes \cup {None}, hijacked : BOOLEAN]
Behaviours == {"reading", "stalled", "resumed", "gone"}

\* Types, and what every array of the model is indexed by.
ServerTypes ==
    view \in Views /\ server \in {"serving", "closing", "crashed"} /\ killers \in Nat /\ closers \in Nat
RequestTypes ==
    /\ pc \in [Requests -> Labels]
    /\ ask \in [Requests -> Asks \cup {None}] /\ at \in [Requests -> Places]
    /\ resp \in [Requests -> Responses]
    /\ client \in [Requests -> Behaviours]
    /\ line \in [Requests -> Codes \cup {None}]
Contexts == over \in [Requests -> BOOLEAN]

\* The response of /slow once it writes.
Streaming == [status |-> 200, wrote |-> TRUE, sent |-> 200, hijacked |-> FALSE]

\* Only a request for the root has a URL that is not the one it asked for.
RewrittenAtRoot(r) == at[r] = ask[r].at \/ Page(ask[r].at) = ""

\* The code that the middleware saw for /status/ is one of the list.
DrawnFromTheList(r, code) ==
    LET valid == ValidCodes(at[r].codes) IN Page(at[r]) = "status" /\ valid # {} => code \in valid

\* A finished request: its line, its status, and how they relate.
Settled(r) ==
    /\ line[r] = IF IsLogged(r) THEN resp[r].status ELSE None
    /\ resp[r].sent = resp[r].status \/ Informational(resp[r].status) \/ resp[r].hijacked
    /\ Informational(resp[r].status) => resp[r].sent = 200
    /\ ~ resp[r].hijacked \/ Page(at[r]) = "nothing"
    /\ DrawnFromTheList(r, resp[r].status)

\* What the label of a request tells about its response and its URL.
Shaped(r) ==
    /\ pc[r] # "none" => ask[r] \in Asks /\ RewrittenAtRoot(r)
    /\ pc[r] \in {"none", "mux", "wait", "panicked"} => resp[r] = Fresh
    /\ pc[r] \in {"select", "tick"} => resp[r] = Streaming /\ Page(at[r]) = "slow"
    /\ pc[r] = "wait" => Page(at[r]) = "nothing"
    /\ pc[r] # "done" => line[r] = None
    /\ pc[r] = "done" => Settled(r)

Shape == \A r \in Requests : Shaped(r)

IInv == ServerTypes /\ Contexts /\ RequestTypes /\ Shape

-----------------------------------------------------------------------------
(* The response writer. *)

\* What the handlers that write a status and a body make of a new response.
Answered(code) ==
    [status |-> code, wrote |-> TRUE, sent |-> IF Informational(code) THEN 200 ELSE code, hijacked |-> FALSE]

\* 200 is a final status, and no status is None.
LEMMA FinalCodes == 200 \in Codes /\ ~ Informational(200) /\ None \notin Codes
  BY NoneAssumption DEF Codes, Informational

\* The responses the handlers make are responses.
LEMMA ResponsesOfHandlers ==
    /\ Fresh \in Responses /\ Streaming \in Responses
    /\ \A code \in Codes : Answered(code) \in Responses
  BY FinalCodes, Zenon DEF Fresh, Streaming, Answered, Responses

\* A response is what its fields are.
LEMMA SameResponse ==
    ASSUME NEW v \in Responses, NEW w \in Responses,
           v.status = w.status, v.wrote = w.wrote, v.sent = w.sent, v.hijacked = w.hijacked
    PROVE  v = w
  BY DEF Responses

\* The three updates of a response, field by field: the status line is written,
LEMMA HeaderWritten ==
    ASSUME NEW w \in Responses, NEW code \in Codes, NEW sent \in Codes \cup {None}, NEW v,
           v = [w EXCEPT !.status = code, !.wrote = TRUE, !.sent = sent]
    PROVE  v \in Responses /\ v.status = code /\ v.wrote = TRUE /\ v.sent = sent /\ v.hijacked = w.hijacked
  BY DEF Responses

\* the server sends a status,
LEMMA StatusSent ==
    ASSUME NEW w \in Responses, NEW sent \in Codes \cup {None}, NEW v, v = [w EXCEPT !.sent = sent]
    PROVE  v \in Responses /\ v.status = w.status /\ v.wrote = w.wrote /\ v.sent = sent /\ v.hijacked = w.hijacked
  BY DEF Responses

\* the handler takes the connection over.
LEMMA TakenOver ==
    ASSUME NEW w \in Responses, NEW taken \in BOOLEAN, NEW v, v = [w EXCEPT !.hijacked = taken]
    PROVE  v \in Responses /\ v.status = w.status /\ v.wrote = w.wrote /\ v.sent = w.sent /\ v.hijacked = taken
  BY DEF Responses

\* A status and a body, or the end of the handler, on a new response.
LEMMA WritingAnswers ==
    ASSUME NEW code \in Codes
    PROVE  Write(WriteHeader(Fresh, code)) = Answered(code) /\ EndOfHandler(Answered(code)) = Answered(code)
<1>. USE FinalCodes, ResponsesOfHandlers
<1>. DEFINE sent == Sending(None, code)  w == WriteHeader(Fresh, code)
<1>1. /\ Fresh.status = 200 /\ Fresh.wrote = FALSE /\ Fresh.sent = None /\ Fresh.hijacked = FALSE
      /\ Answered(code).status = code /\ Answered(code).wrote = TRUE /\ Answered(code).hijacked = FALSE
      /\ Answered(code).sent = IF Informational(code) THEN 200 ELSE code
  BY DEF Fresh, Answered
<1>2. sent = IF Informational(code) THEN None ELSE code
  BY DEF Sending
<1>3. w \in Responses /\ w.status = code /\ w.wrote = TRUE /\ w.sent = sent /\ w.hijacked = FALSE
  <2>1. w = [Fresh EXCEPT !.status = code, !.wrote = TRUE, !.sent = Sending(Fresh.sent, code)]
    BY <1>1 DEF WriteHeader
  <2>2. sent \in Codes \cup {None} /\ Sending(Fresh.sent, code) = sent
    BY <1>1, <1>2
  <2>3. w = [Fresh EXCEPT !.status = code, !.wrote = TRUE, !.sent = sent]
    BY <2>1, <2>2
  <2>. HIDE DEF w, sent
  <2>. QED BY <1>1, <2>2, <2>3, HeaderWritten DEF Responses
<1>. HIDE DEF w, sent
<1>4. Write(w) = [w EXCEPT !.sent = Sending(w.sent, 200)]
  BY <1>3 DEF Write
<1>5. Sending(w.sent, 200) = Answered(code).sent /\ Answered(code).sent \in Codes \cup {None}
  BY <1>1, <1>2, <1>3 DEF Sending
<1>6. Write(w) = Answered(code)
  <2>1. /\ Write(w) \in Responses /\ Write(w).status = code /\ Write(w).wrote = TRUE
        /\ Write(w).sent = Answered(code).sent /\ Write(w).hijacked = FALSE
    BY <1>3, <1>4, <1>5, StatusSent
  <2>. QED BY <1>1, <2>1, SameResponse DEF Responses
<1>7. EndOfHandler(Answered(code)) = Answered(code)
  BY <1>1 DEF EndOfHandler, Sending, Answered
<1>. QED BY <1>6, <1>7 DEF w

\* /slow: writing again, and the end, leave the response as the first write made it.
LEMMA StreamingGoesOn ==
    /\ Write(WriteHeader(Fresh, 200)) = Streaming
    /\ Write(Streaming) = Streaming /\ EndOfHandler(Streaming) = Streaming
<1>1. Answered(200) = Streaming
  BY FinalCodes DEF Answered, Streaming
<1>2. Write(Streaming) = Streaming
  BY FinalCodes DEF Write, Streaming, Sending
<1>. QED BY <1>1, <1>2, FinalCodes, WritingAnswers

\* /nothing: nobody wrote to the response. The server sends 200 for it, unless
\* the connection was taken over.
LEMMA EndSends ==
    ASSUME NEW w \in Responses, w.status = 200, w.sent = None
    PROVE  /\ EndOfHandler(w) \in Responses /\ EndOfHandler(w).status = 200
           /\ EndOfHandler(w).hijacked = w.hijacked
           /\ EndOfHandler(w).sent = 200 \/ EndOfHandler(w).hijacked
<1>1. CASE w.hijacked
  <2>1. EndOfHandler(w) = w
    BY <1>1 DEF EndOfHandler
  <2>2. EndOfHandler(w).hijacked = w.hijacked
    BY <2>1, Zenon
  <2>3. EndOfHandler(w).hijacked
    BY <1>1, <2>1, Zenon
  <2>. QED BY <2>1, <2>2, <2>3
<1>2. CASE ~ w.hijacked
  <2>1. EndOfHandler(w) = [w EXCEPT !.sent = 200]
    BY <1>2, FinalCodes DEF EndOfHandler, Sending
  <2>. QED BY <2>1, FinalCodes, StatusSent
<1>. QED BY <1>1, <1>2

\* /nothing: taking the connection over changes that and nothing else.
LEMMA TakingOver ==
    ASSUME NEW taken \in BOOLEAN
    PROVE  LET w == [Fresh EXCEPT !.hijacked = taken] IN w \in Responses /\ w.status = 200 /\ w.sent = None
<1>1. Fresh \in Responses /\ Fresh.status = 200 /\ Fresh.sent = None
  BY ResponsesOfHandlers DEF Fresh
<1>. QED BY <1>1, TakenOver

-----------------------------------------------------------------------------
(* The steps. *)

\* SetView leaves a view a view.
LEMMA TrimmedIsView == \A v \in Views : Trimmed(v) \in Views
  BY DEF Views, Trimmed

\* The invariant holds before the first request.
LEMMA InitEstablishes == Init => IInv
<1>. SUFFICES ASSUME Init PROVE IInv
  OBVIOUS
<1>1. Contexts
  BY Zenon DEF Init, Contexts
<1>2. ServerTypes
  <2>1. PICK v \in Roots : view = Trimmed(v)
    BY DEF Init
  <2>2. v \in Views
    BY <2>1, AsksAssumption
  <2>. QED BY <2>1, <2>2, TrimmedIsView DEF Init, ServerTypes
<1>3. Root \in Places
  <2>1. 0 \in Nat /\ {} \in SUBSET Int
    OBVIOUS
  <2>. QED BY <2>1, Zenon DEF Root, Places, Pages
<1>4. RequestTypes
  BY <1>3, ResponsesOfHandlers DEF Init, RequestTypes, Labels, Behaviours
<1>5. Shape
  BY DEF Init, Shape, Shaped
<1>. QED BY <1>1, <1>2, <1>4, <1>5 DEF IInv

\* What was said of a request holds on while the step is one of another.
LEMMA Elsewhere ==
    ASSUME NEW q \in Requests, Shaped(q),
           pc'[q] = pc[q], ask'[q] = ask[q], at'[q] = at[q], resp'[q] = resp[q], line'[q] = line[q]
    PROVE  Shaped(q)'
<1>1. RewrittenAtRoot(q) => RewrittenAtRoot(q)'
  BY DEF RewrittenAtRoot
<1>2. IsLogged(q)' <=> IsLogged(q)
  BY DEF IsLogged, BypassesLog
<1>3. Settled(q) => Settled(q)'
  BY <1>2 DEF Settled, DrawnFromTheList
<1>. QED BY <1>1, <1>3 DEF Shaped

\* A handler returns with a response that fits.
LEMMA Returns ==
    ASSUME RequestTypes, Shape, NEW r \in Requests, pc[r] # "none",
           NEW w, w.status \in Codes, NEW e \in Responses, e = EndOfHandler(w), e.status = w.status,
           Return(r, w), UNCHANGED <<ask, at, client>>,
           e.sent = e.status \/ Informational(e.status) \/ e.hijacked,
           Informational(e.status) => e.sent = 200,
           ~ e.hijacked \/ Page(at[r]) = "nothing",
           DrawnFromTheList(r, e.status)
    PROVE  RequestTypes' /\ Shape'
<1>1. /\ pc' = [pc EXCEPT ![r] = "done"] /\ resp' = [resp EXCEPT ![r] = e]
      /\ line' = [line EXCEPT ![r] = IF IsLogged(r) THEN e.status ELSE None]
  BY DEF Return
<1>2. RequestTypes'
  BY <1>1 DEF RequestTypes, Labels
<1>3. /\ pc'[r] = "done" /\ resp'[r] = e /\ line'[r] = IF IsLogged(r) THEN e.status ELSE None
      /\ \A q \in Requests : q # r => pc'[q] = pc[q] /\ resp'[q] = resp[q] /\ line'[q] = line[q]
  BY <1>1 DEF RequestTypes
<1>4. ask[r] \in Asks /\ RewrittenAtRoot(r)
  BY DEF Shape, Shaped
<1>5. Settled(r)'
  BY <1>3 DEF Settled, DrawnFromTheList, IsLogged, BypassesLog
<1>6. Shaped(r)'
  BY <1>3, <1>4, <1>5 DEF Shaped, RewrittenAtRoot
<1>7. ASSUME NEW q \in Requests, q # r PROVE Shaped(q)'
  BY <1>3, <1>7, Elsewhere DEF Shape
<1>. QED BY <1>2, <1>6, <1>7 DEF Shape

\* A page answers with a code of its own.
LEMMA AnswersFit ==
    ASSUME RequestTypes, Shape, NEW r \in Requests, pc[r] = "mux", NEW code \in Codes, Answer(r, code),
           DrawnFromTheList(r, code)
    PROVE  RequestTypes' /\ Shape'
<1>. DEFINE w == Answered(code)
<1>1. resp[r] = Fresh
  BY DEF Shape, Shaped
<1>2. Write(WriteHeader(resp[r], code)) = w /\ EndOfHandler(w) = w /\ w \in Responses
  BY <1>1, WritingAnswers, ResponsesOfHandlers
<1>3. w.status = code /\ (w.sent = IF Informational(code) THEN 200 ELSE code) /\ ~ w.hijacked
  BY DEF Answered
<1>. HIDE DEF w
<1>4. Return(r, w) /\ UNCHANGED <<ask, at, client>>
  BY <1>2 DEF Answer
<1>. QED BY <1>2, <1>3, <1>4, Returns

\* A handler goes on: at a label with the response that belongs there.
LEMMA GoesOn ==
    ASSUME RequestTypes, Shape, NEW r \in Requests, NEW label, NEW w, Goto(r, label, w),
           \/ label \in {"select", "tick"} /\ w = Streaming /\ Page(at[r]) = "slow" /\ pc[r] \in {"mux", "select", "tick"}
           \/ label = "wait" /\ w = Fresh /\ Page(at[r]) = "nothing" /\ pc[r] = "mux"
    PROVE  RequestTypes' /\ Shape'
<1>1. /\ pc' = [pc EXCEPT ![r] = label] /\ resp' = [resp EXCEPT ![r] = w]
      /\ UNCHANGED <<ask, at, client, line>>
  BY DEF Goto
<1>2. RequestTypes'
  BY <1>1, ResponsesOfHandlers DEF RequestTypes, Labels
<1>3. /\ pc'[r] = label /\ resp'[r] = w
      /\ \A q \in Requests : q # r => pc'[q] = pc[q] /\ resp'[q] = resp[q]
  BY <1>1 DEF RequestTypes
<1>4. Shaped(r)'
  BY <1>1, <1>3 DEF Shape, Shaped, RewrittenAtRoot
<1>5. ASSUME NEW q \in Requests, q # r PROVE Shaped(q)'
  BY <1>1, <1>3, <1>5, Elsewhere DEF Shape
<1>. QED BY <1>2, <1>4, <1>5 DEF Shape

\* Nothing happens to the requests but to their clients or contexts.
LEMMA RequestsKept ==
    ASSUME RequestTypes, Shape, UNCHANGED <<pc, ask, at, resp, line>>, client' \in [Requests -> Behaviours]
    PROVE  RequestTypes' /\ Shape'
<1>1. RequestTypes'
  BY DEF RequestTypes
<1>2. ASSUME NEW q \in Requests PROVE Shaped(q)'
  BY <1>2, Elsewhere DEF Shape
<1>. QED BY <1>1, <1>2 DEF Shape

\* The pages that answer at once keep the requests in shape.
LEMMA PagesStep ==
    ASSUME RequestTypes, Shape, NEW r \in Requests,
           Plain(r) \/ ShowDefault(r) \/ Status(r) \/ SetRoot(r) \/ KillHttp(r) \/ SeedLoad(r)
    PROVE  RequestTypes' /\ Shape'
<1>1. {200, 301, 302, 400, 404, 405, 409} \subseteq Codes
  BY DEF Codes
<1>2. ASSUME NEW page, page # "status", At(r, page), NEW code \in {200, 301, 302, 400, 404, 405, 409},
             Answer(r, code)
      PROVE  RequestTypes' /\ Shape'
  <2>1. pc[r] = "mux" /\ code \in Codes /\ DrawnFromTheList(r, code)
    BY <1>1, <1>2 DEF At, DrawnFromTheList
  <2>. QED BY <1>2, <2>1, AnswersFit
<1>3. CASE Plain(r)
  <2>1. CASE At(r, "plain") /\ Answer(r, 200)
    BY <1>2, <2>1
  <2>2. CASE \E code \in {200, 404} : (At(r, "cache") \/ At(r, "logs")) /\ Answer(r, code)
    BY <1>2, <2>2
  <2>3. CASE (At(r, "favicon.ico") \/ At(r, "unknown") \/ At(r, "debug")) /\ Answer(r, 404)
    BY <1>2, <2>3
  <2>4. CASE At(r, "unclean") /\ Answer(r, 301)
    BY <1>2, <2>4
  <2>5. CASE At(r, "load/random") /\ Answer(r, 302)
    BY <1>2, <2>5
  <2>6. CASE \E code \in {200, 409} : At(r, "load/abort") /\ Answer(r, code)
    BY <1>2, <2>6
  <2>. QED BY <1>3, <2>1, <2>2, <2>3, <2>4, <2>5, <2>6, Zenon DEF Plain
<1>4. CASE ShowDefault(r)
  <2>1. At(r, "") /\ Answer(r, 200)
    BY <1>4 DEF ShowDefault
  <2>2. "" # "status" /\ 200 \in {200, 301, 302, 400, 404, 405, 409}
    OBVIOUS
  <2>. QED BY <1>2, <2>1, <2>2
<1>5. CASE Status(r)
  <2>. DEFINE valid == ValidCodes(at[r].codes)
  <2>1. PICK code \in (IF valid = {} THEN {200} ELSE valid) : Answer(r, code)
    BY <1>5 DEF Status
  <2>2. pc[r] = "mux"
    BY <1>5 DEF Status, At
  <2>3. code \in Codes /\ DrawnFromTheList(r, code)
    BY <1>1, <2>1 DEF ValidCodes, DrawnFromTheList, Codes
  <2>. QED BY <2>1, <2>2, <2>3, AnswersFit
<1>6. CASE SetRoot(r)
  BY <1>2, <1>6 DEF SetRoot
<1>7. CASE KillHttp(r)
  BY <1>2, <1>7 DEF KillHttp
<1>8. CASE SeedLoad(r)
  <2>1. CASE \E code \in {200, 302, 400} : Answer(r, code)
    BY <1>2, <1>8, <2>1 DEF SeedLoad
  <2>2. CASE pc' = [pc EXCEPT ![r] = "panicked"] /\ UNCHANGED <<ask, at, resp, client, line>>
    <3>1. pc[r] = "mux"
      BY <1>8 DEF SeedLoad, At
    <3>2. RequestTypes'
      BY <2>2 DEF RequestTypes, Labels
    <3>3. pc'[r] = "panicked" /\ \A q \in Requests : q # r => pc'[q] = pc[q]
      BY <2>2 DEF RequestTypes
    <3>4. Shaped(r)'
      BY <2>2, <3>1, <3>3 DEF Shape, Shaped, RewrittenAtRoot
    <3>5. ASSUME NEW q \in Requests, q # r PROVE Shaped(q)'
      BY <2>2, <3>3, <3>5, Elsewhere DEF Shape
    <3>. QED BY <3>2, <3>4, <3>5 DEF Shape
  <2>. QED BY <1>8, <2>1, <2>2 DEF SeedLoad
<1>. QED BY <1>3, <1>4, <1>5, <1>6, <1>7, <1>8

\* So do those that take their time, /slow and /nothing.
LEMMA LongPagesStep ==
    ASSUME RequestTypes, Shape, NEW r \in Requests,
           SlowStart(r) \/ SlowTick(r) \/ SlowWrite(r) \/ SlowDone(r) \/ NothingStart(r) \/ NothingDone(r)
    PROVE  RequestTypes' /\ Shape'
<1>0. Shaped(r)
  BY DEF Shape
<1>1. CASE SlowStart(r)
  <2>1. pc[r] = "mux" /\ Page(at[r]) = "slow" /\ Goto(r, "select", Streaming)
    BY <1>0, <1>1, StreamingGoesOn DEF SlowStart, At, Shaped
  <2>. QED BY <2>1, GoesOn
<1>2. CASE SlowTick(r)
  <2>1. pc[r] = "select" /\ Page(at[r]) = "slow" /\ Goto(r, "tick", Streaming)
    BY <1>0, <1>2 DEF SlowTick, Shaped
  <2>. QED BY <2>1, GoesOn
<1>3. CASE SlowWrite(r)
  <2>1. pc[r] = "tick" /\ Page(at[r]) = "slow" /\ Goto(r, "select", Streaming)
    BY <1>0, <1>3, StreamingGoesOn DEF SlowWrite, Shaped
  <2>. QED BY <2>1, GoesOn
<1>4. CASE SlowDone(r)
  <2>1. pc[r] = "select" /\ Return(r, Streaming) /\ UNCHANGED <<ask, at, client>>
    BY <1>0, <1>4 DEF SlowDone, Shaped
  <2>2. Page(at[r]) = "slow"
    BY <1>0, <2>1 DEF Shaped
  <2>3. /\ Streaming \in Responses /\ Streaming = EndOfHandler(Streaming) /\ Streaming.status = 200
        /\ Streaming.sent = 200 /\ ~ Streaming.hijacked /\ 200 \in Codes /\ ~ Informational(200)
    BY StreamingGoesOn, ResponsesOfHandlers, FinalCodes DEF Streaming
  <2>4. DrawnFromTheList(r, 200)
    BY <2>2 DEF DrawnFromTheList
  <2>. QED BY <2>1, <2>3, <2>4, Returns
<1>5. CASE NothingStart(r)
  <2>1. pc[r] = "mux" /\ Page(at[r]) = "nothing" /\ Goto(r, "wait", Fresh)
    BY <1>0, <1>5 DEF NothingStart, At, Shaped
  <2>. QED BY <2>1, GoesOn
<1>6. CASE NothingDone(r)
  <2>1. pc[r] = "wait" /\ resp[r] = Fresh /\ Page(at[r]) = "nothing"
    BY <1>0, <1>6 DEF NothingDone, Shaped
  <2>2. PICK taken \in BOOLEAN : Return(r, [Fresh EXCEPT !.hijacked = taken])
    BY <1>6, <2>1 DEF NothingDone
  <2>. DEFINE w == [Fresh EXCEPT !.hijacked = taken]  e == EndOfHandler(w)
  <2>3. w \in Responses /\ w.status = 200 /\ w.sent = None
    BY TakingOver
  <2>4. Return(r, w) /\ UNCHANGED <<ask, at, client>>
    BY <1>6, <2>2 DEF NothingDone
  <2>. HIDE DEF w
  <2>5. e \in Responses /\ e.status = 200 /\ (e.sent = 200 \/ e.hijacked)
    BY <2>3, EndSends
  <2>6. DrawnFromTheList(r, 200) /\ 200 \in Codes /\ ~ Informational(200)
    BY <2>1, FinalCodes DEF DrawnFromTheList
  <2>. QED BY <2>1, <2>3, <2>4, <2>5, <2>6, Returns
<1>. QED BY <1>1, <1>2, <1>3, <1>4, <1>5, <1>6

\* So does everything that gives a request another URL.
LEMMA UrlStep ==
    ASSUME ServerTypes, RequestTypes, Shape, NEW r \in Requests, Arrive(r) \/ Redispatch(r)
    PROVE  RequestTypes' /\ Shape'
<1>1. CASE Arrive(r)
  <2>1. PICK a \in Asks : ask' = [ask EXCEPT ![r] = a] /\ at' = [at EXCEPT ![r] = a.at]
    BY <1>1 DEF Arrive
  <2>2. pc[r] = "none" /\ pc' = [pc EXCEPT ![r] = "mux"] /\ UNCHANGED <<resp, client, line>>
    BY <1>1 DEF Arrive
  <2>3. a.at \in Places
    BY AsksAssumption
  <2>4. RequestTypes'
    BY <2>1, <2>2, <2>3 DEF RequestTypes, Labels
  <2>5. /\ pc'[r] = "mux" /\ ask'[r] = a /\ at'[r] = a.at
        /\ \A q \in Requests : q # r => pc'[q] = pc[q] /\ ask'[q] = ask[q] /\ at'[q] = at[q]
    BY <2>1, <2>2 DEF RequestTypes
  <2>6. Shaped(r)'
    BY <2>2, <2>5 DEF Shape, Shaped, RewrittenAtRoot
  <2>7. ASSUME NEW q \in Requests, q # r PROVE Shaped(q)'
    BY <2>2, <2>5, <2>7, Elsewhere DEF Shape
  <2>. QED BY <2>4, <2>6, <2>7 DEF Shape
<1>2. CASE Redispatch(r)
  <2>. DEFINE place == [slashes |-> view.slashes, page |-> view.page, codes |-> view.codes]
  <2>1. place \in Places
    BY DEF ServerTypes, Views, Places
  <2>. HIDE DEF place
  <2>2. /\ pc[r] = "mux" /\ Page(at[r]) = "" /\ at' = [at EXCEPT ![r] = place]
        /\ UNCHANGED <<pc, ask, resp, client, line>>
    BY <1>2 DEF Redispatch, At, place
  <2>3. RequestTypes'
    BY <2>1, <2>2 DEF RequestTypes
  <2>4. at'[r] = place /\ \A q \in Requests : q # r => at'[q] = at[q]
    BY <2>2 DEF RequestTypes
  <2>5. Page(ask[r].at) = ""
    BY <2>2 DEF Shape, Shaped, RewrittenAtRoot
  <2>6. Shaped(r)'
    BY <2>2, <2>4, <2>5 DEF Shape, Shaped, RewrittenAtRoot
  <2>7. ASSUME NEW q \in Requests, q # r PROVE Shaped(q)'
    BY <2>2, <2>4, <2>7, Elsewhere DEF Shape
  <2>. QED BY <2>3, <2>6, <2>7 DEF Shape
<1>. QED BY <1>1, <1>2

\* The view, the server and its registrations stay what they are.
LEMMA ServerStep == ASSUME ServerTypes, RequestTypes, Shape, [Next]_vars PROVE ServerTypes'
<1>1. CASE \E r \in Requests : SetRoot(r)
  <2>1. PICK r \in Requests : SetRoot(r)
    BY <1>1
  <2>2. ask[r] \in Asks
    BY <2>1 DEF SetRoot, At, Shape, Shaped
  <2>3. Trimmed(ask[r].view) \in Views
    BY <2>2, AsksAssumption, TrimmedIsView
  <2>. QED BY <2>1, <2>3 DEF SetRoot, Answer, ServerTypes
<1>2. CASE Shutdown
  BY <1>2 DEF Shutdown, ServerTypes
<1>3. CASE ShutdownReturns
  BY <1>3 DEF ShutdownReturns, ServerTypes
<1>4. ASSUME NEW r \in Requests, Overflow(r) PROVE ServerTypes'
  BY <1>4 DEF Overflow, ServerTypes
<1>5. ASSUME NEW r \in Requests, KillHttp(r) PROVE ServerTypes'
  <2>1. killers' = killers + 1 /\ UNCHANGED <<view, server, closers>>
    BY <1>5 DEF KillHttp, Answer
  <2>. QED BY <2>1 DEF ServerTypes
<1>6. ASSUME NEW r \in Requests,
             \/ Plain(r) \/ ShowDefault(r) \/ Redispatch(r) \/ Status(r) \/ SeedLoad(r) \/ Arrive(r) \/ SlowStart(r)
             \/ SlowTick(r) \/ SlowWrite(r) \/ SlowDone(r) \/ NothingStart(r) \/ NothingDone(r) \/ ContextDone(r)
             \/ Stall(r) \/ Recover(r) \/ Leave(r)
      PROVE  UNCHANGED <<view, server, killers, closers>>
  BY <1>6 DEF Plain, ShowDefault, Redispatch, Status, SeedLoad, Arrive, SlowStart, SlowTick, SlowWrite, SlowDone,
     NothingStart, NothingDone, ContextDone, Stall, Recover, Leave, Answer, Goto, Behave
<1>7. CASE UNCHANGED <<view, server, killers, closers>>
  BY <1>7 DEF ServerTypes
<1>. QED BY <1>1, <1>2, <1>3, <1>4, <1>5, <1>6, <1>7 DEF Next, Serve, vars

\* A context that is over stays over, and the server's contexts end with it.
LEMMA ContextsStep == ASSUME Contexts, [Next]_vars PROVE Contexts'
<1>1. ASSUME NEW r \in Requests, ContextDone(r) PROVE Contexts'
  <2>1. over' = [over EXCEPT ![r] = TRUE]
    BY <1>1, Zenon DEF ContextDone
  <2>. QED BY <2>1, Zenon DEF Contexts
<1>2. ASSUME NEW r \in Requests,
             \/ Plain(r) \/ ShowDefault(r) \/ Redispatch(r) \/ Overflow(r) \/ Status(r) \/ SetRoot(r) \/ KillHttp(r)
             \/ SeedLoad(r) \/ Arrive(r) \/ SlowStart(r) \/ SlowTick(r) \/ SlowWrite(r) \/ SlowDone(r)
             \/ NothingStart(r) \/ NothingDone(r) \/ Stall(r) \/ Recover(r) \/ Leave(r)
      PROVE  over' = over
  BY <1>2, Zenon DEF Plain, ShowDefault, Redispatch, Overflow, Status, SetRoot, KillHttp, SeedLoad, Arrive,
     SlowStart, SlowTick, SlowWrite, SlowDone, NothingStart, NothingDone, Stall, Recover, Leave, Answer, Goto, Behave
<1>3. Shutdown \/ ShutdownReturns \/ UNCHANGED vars => over' = over
  BY Zenon DEF Shutdown, ShutdownReturns, vars
<1>4. CASE over' = over
  BY <1>4, Zenon DEF Contexts
<1>. QED BY <1>1, <1>2, <1>3, <1>4, Zenon DEF Next, Serve

\* The requests stay in shape in every step.
LEMMA RequestStep == ASSUME ServerTypes, RequestTypes, Shape, [Next]_vars PROVE RequestTypes' /\ Shape'
<1>1. ASSUME NEW r \in Requests, Serve(r) \/ SlowTick(r) \/ SlowDone(r) \/ Arrive(r), ~ Overflow(r)
      PROVE  RequestTypes' /\ Shape'
  BY <1>1, PagesStep, LongPagesStep, UrlStep, Zenon DEF Serve
<1>2. ASSUME NEW r \in Requests, Overflow(r) \/ ContextDone(r)
      PROVE  UNCHANGED <<pc, ask, at, resp, line, client>>
  BY <1>2 DEF Overflow, ContextDone
<1>3. ASSUME NEW r \in Requests, Stall(r) \/ Recover(r) \/ Leave(r)
      PROVE  UNCHANGED <<pc, ask, at, resp, line>> /\ client' \in [Requests -> Behaviours]
  BY <1>3 DEF Stall, Recover, Leave, Behave, RequestTypes, Behaviours
<1>4. ASSUME Shutdown \/ ShutdownReturns \/ UNCHANGED vars
      PROVE  UNCHANGED <<pc, ask, at, resp, line, client>>
  BY <1>4 DEF Shutdown, ShutdownReturns, vars
<1>5. CASE UNCHANGED <<pc, ask, at, resp, line, client>>
  BY <1>5, RequestsKept DEF RequestTypes
<1>6. ASSUME UNCHANGED <<pc, ask, at, resp, line>>, client' \in [Requests -> Behaviours]
      PROVE  RequestTypes' /\ Shape'
  BY <1>6, RequestsKept
<1>. QED BY <1>1, <1>2, <1>3, <1>4, <1>5, <1>6 DEF Next, Serve

\* The invariant is inductive.
LEMMA StepPreserves == IInv /\ [Next]_vars => IInv'
  BY ServerStep, ContextsStep, RequestStep, Zenon DEF IInv

\* It holds in every reachable state.
LEMMA Invariance == Spec => []IInv
<1>. QED BY InitEstablishes, StepPreserves, PTL DEF Spec

-----------------------------------------------------------------------------
(* The results. *)

\* Types: a status that is logged or sent is one that HTTP has, whatever the
\* list of /status/ contains, and views and URLs never have less than no slash.
THEOREM TypeCorrect == Spec => []TypeOK
<1>1. ASSUME IInv PROVE TypeOK
  <2>1. ASSUME NEW r \in Requests
        PROVE  /\ pc[r] \in {"none", "mux", "select", "tick", "wait", "done", "panicked"}
               /\ ask[r] \in Asks \cup {None} /\ at[r] \in Places
               /\ resp[r] \in [status : 100 .. 599, wrote : BOOLEAN, sent : 100 .. 599 \cup {None},
                               hijacked : BOOLEAN]
               /\ client[r] \in {"reading", "stalled", "resumed", "gone"}
               /\ line[r] \in 100 .. 599 \cup {None}
    BY <1>1 DEF IInv, RequestTypes, Labels, Responses, Codes, Behaviours
  <2>2. ASSUME NEW r \in Requests PROVE over[r] \in BOOLEAN
    BY <1>1, Zenon DEF IInv, Contexts
  <2>. QED BY <1>1, <2>1, <2>2 DEF IInv, ServerTypes, TypeOK
<1>. QED BY <1>1, Invariance, PTL

\* The log has a line for every request that was answered, but for the pages that
\* are not logged, and the line has the status that was sent (logging.go:91-139).
THEOREM LogIsTrue == Spec => []LogTellsTheAnswer
<1>1. ASSUME IInv, NEW r \in Requests
      PROVE  /\ pc[r] = "done" => (line[r] = None <=> BypassesLog(r) \/ Page(at[r]) \in LogIgnored)
             /\ line[r] # None => line[r] = resp[r].sent \/ Informational(line[r]) \/ resp[r].hijacked
  <2>1. Shaped(r) /\ resp[r].status \in Codes
    BY <1>1 DEF IInv, Shape, RequestTypes, Responses
  <2>2. resp[r].status # None
    BY <2>1, FinalCodes
  <2>. QED BY <2>1, <2>2 DEF Shaped, Settled, IsLogged
<1>2. IInv => LogTellsTheAnswer
  BY <1>1 DEF LogTellsTheAnswer
<1>. QED BY <1>2, Invariance, PTL

\* /status/ answers with a code of its list that is in range, whatever the root
\* shows meanwhile; but where the list has informational codes, it may be 200
\* (main.go:133-155). This is what is left of StatusFromTheList, which the run
\* web_status refutes.
FromTheListOrInformational ==
    \A r \in Requests :
        pc[r] = "done" /\ Page(at[r]) = "status" /\ ValidCodes(at[r].codes) # {} =>
            \/ resp[r].sent \in at[r].codes
            \/ resp[r].sent = 200 /\ \E code \in at[r].codes : Informational(code)

\* StatusHandler sends a status of the URL's list, or 200 when it drew an
\* informational one, for every list that has a valid status (main.go:133-155).
THEOREM StatusIsDrawn == Spec => []FromTheListOrInformational
<1>1. ASSUME IInv, NEW r \in Requests, pc[r] = "done", Page(at[r]) = "status", ValidCodes(at[r].codes) # {}
      PROVE  \/ resp[r].sent \in at[r].codes
             \/ resp[r].sent = 200 /\ \E code \in at[r].codes : Informational(code)
  <2>1. Settled(r)
    BY <1>1 DEF IInv, Shape, Shaped
  <2>2. resp[r].status \in at[r].codes /\ ~ resp[r].hijacked
    BY <1>1, <2>1 DEF Settled, DrawnFromTheList, ValidCodes
  <2>3. resp[r].sent = resp[r].status \/ (Informational(resp[r].status) /\ resp[r].sent = 200)
    BY <2>1, <2>2 DEF Settled
  <2>. QED BY <2>2, <2>3
<1>2. IInv => FromTheListOrInformational
  BY <1>1 DEF FromTheListOrInformational
<1>. QED BY <1>2, Invariance, PTL

\* Once its status has been sent nothing changes the response of a request, not
\* the next write of /slow nor the end of the handler; and its line is written
\* once.
AnswerIsFinal ==
    [][\A r \in Requests :
          /\ resp[r].sent # None => resp'[r] = resp[r]
          /\ line[r] # None => line'[r] = line[r]]_vars

\* Which labels those are.
LEMMA SentMeansWritten ==
    ASSUME IInv, NEW q \in Requests
    PROVE  /\ resp[q].sent # None => pc[q] \in {"select", "tick", "done"}
           /\ line[q] # None => pc[q] = "done"
  BY DEF IInv, RequestTypes, Labels, Shape, Shaped, Fresh

\* Every step leaves a sent response and a written line alone.
LEMMA FinalStep ==
    ASSUME IInv, [Next]_vars, NEW q \in Requests, pc[q] \in {"select", "tick", "done"}
    PROVE  resp'[q] = resp[q] /\ (pc[q] = "done" => line'[q] = line[q])
<1>0. /\ resp \in [Requests -> Responses] /\ line \in [Requests -> Codes \cup {None}]
      /\ pc[q] \in {"select", "tick"} => resp[q] = Streaming
  BY DEF IInv, RequestTypes, Shape, Shaped
<1>1. ASSUME NEW r \in Requests, NEW w, Return(r, w), r # q \/ (pc[q] # "done" /\ EndOfHandler(w) = resp[q])
      PROVE  resp'[q] = resp[q] /\ (pc[q] = "done" => line'[q] = line[q])
  BY <1>0, <1>1 DEF Return
<1>2. ASSUME NEW r \in Requests, NEW label, NEW w, Goto(r, label, w), r # q \/ w = resp[q]
      PROVE  resp'[q] = resp[q] /\ line'[q] = line[q]
  BY <1>0, <1>2 DEF Goto
<1>3. ASSUME NEW r \in Requests, NEW page, At(r, page) PROVE r # q
  BY <1>3 DEF At
<1>4. ASSUME NEW r \in Requests, NEW code, Answer(r, code), pc[r] = "mux"
      PROVE  resp'[q] = resp[q] /\ (pc[q] = "done" => line'[q] = line[q])
  <2>1. r # q
    BY <1>4
  <2>. QED BY <1>1, <1>4, <2>1 DEF Answer
<1>5. ASSUME NEW r \in Requests, Status(r) \/ ShowDefault(r) \/ SetRoot(r) \/ KillHttp(r) \/ Plain(r)
      PROVE  resp'[q] = resp[q] /\ (pc[q] = "done" => line'[q] = line[q])
  <2>1. CASE Status(r)
    BY <1>4, <2>1, Zenon DEF Status, At
  <2>2. CASE ShowDefault(r)
    BY <1>4, <2>2, Zenon DEF ShowDefault, At
  <2>3. CASE SetRoot(r)
    BY <1>4, <2>3, Zenon DEF SetRoot, At
  <2>4. CASE KillHttp(r)
    BY <1>4, <2>4, Zenon DEF KillHttp, At
  <2>5. CASE Plain(r)
    BY <1>4, <2>5, Zenon DEF Plain, At
  <2>. QED BY <1>5, <2>1, <2>2, <2>3, <2>4, <2>5
<1>6. ASSUME NEW r \in Requests, SeedLoad(r)
      PROVE  resp'[q] = resp[q] /\ (pc[q] = "done" => line'[q] = line[q])
  BY <1>1, <1>3, <1>6 DEF SeedLoad, Answer
<1>7. ASSUME NEW r \in Requests, SlowStart(r) \/ NothingStart(r)
      PROVE  resp'[q] = resp[q] /\ line'[q] = line[q]
  BY <1>2, <1>3, <1>7 DEF SlowStart, NothingStart
<1>8. ASSUME NEW r \in Requests, SlowTick(r)
      PROVE  resp'[q] = resp[q] /\ line'[q] = line[q]
  BY <1>2, <1>8 DEF SlowTick
<1>9. ASSUME NEW r \in Requests, SlowWrite(r)
      PROVE  resp'[q] = resp[q] /\ line'[q] = line[q]
  <2>1. r # q \/ Write(resp[r]) = resp[q]
    BY <1>0, <1>9, StreamingGoesOn DEF SlowWrite
  <2>. QED BY <1>2, <1>9, <2>1 DEF SlowWrite
<1>10. ASSUME NEW r \in Requests, SlowDone(r)
       PROVE  resp'[q] = resp[q] /\ (pc[q] = "done" => line'[q] = line[q])
  <2>1. r # q \/ (pc[q] # "done" /\ EndOfHandler(resp[r]) = resp[q])
    BY <1>0, <1>10, StreamingGoesOn DEF SlowDone
  <2>. QED BY <1>1, <1>10, <2>1 DEF SlowDone
<1>11. ASSUME NEW r \in Requests, NothingDone(r)
       PROVE  resp'[q] = resp[q] /\ (pc[q] = "done" => line'[q] = line[q])
  <2>1. r # q
    BY <1>11 DEF NothingDone
  <2>. QED BY <1>1, <1>11, <2>1 DEF NothingDone
<1>12. ASSUME NEW r \in Requests,
              Arrive(r) \/ Redispatch(r) \/ Overflow(r) \/ ContextDone(r) \/ Stall(r) \/ Recover(r) \/ Leave(r)
       PROVE  resp' = resp /\ line' = line
  BY <1>12 DEF Arrive, Redispatch, Overflow, ContextDone, Stall, Recover, Leave, Behave
<1>13. ASSUME Shutdown \/ ShutdownReturns \/ UNCHANGED vars
       PROVE  resp' = resp /\ line' = line
  BY <1>13 DEF Shutdown, ShutdownReturns, vars
<1>. QED BY <1>5, <1>6, <1>7, <1>8, <1>9, <1>10, <1>11, <1>12, <1>13 DEF Next, Serve

\* What was sent, and what was logged, is never sent or logged again as something
\* else (logging.go:91-139, main.go:78-199).
THEOREM SentOnce == Spec => AnswerIsFinal
<1>1. ASSUME IInv, [Next]_vars, NEW r \in Requests
      PROVE  /\ resp[r].sent # None => resp'[r] = resp[r]
             /\ line[r] # None => line'[r] = line[r]
  BY <1>1, SentMeansWritten, FinalStep
<1>2. IInv /\ [Next]_vars =>
        [\A r \in Requests :
            /\ resp[r].sent # None => resp'[r] = resp[r]
            /\ line[r] # None => line'[r] = line[r]]_vars
  BY <1>1
<1>. QED BY <1>2, Invariance, PTL DEF Spec, AnswerIsFinal
=============================================================================
