---------------------------- MODULE HttpMessages ----------------------------
(***************************************************************************)
(* One HTTP exchange (httpreadwrite.c): a client that opens a connection,  *)
(* makes a request, writes its body, and reads the answer in pieces of its *)
(* own choice; and a server that reads the request and answers.  What one  *)
(* side writes the other reads in pieces of any size.  The peer may go     *)
(* away, be silent, or cut its message short.                              *)
(***************************************************************************)
EXTENDS HttpParser

CONSTANTS Answers,      \* records: what a server may answer, see AnswerType
          Asks,         \* records [method, url, body, len]: what the client asks for
          Sizes,        \* how many bytes the client asks for in one read
          Timeout,      \* the timeout of every call
          Leftover      \* whether a new handle's memory may hold UPNP_USING_CHUNKED

VARIABLES h,      \* the connection handle
          call,   \* the call the client is in, and the timeout it has left
          ask,    \* what the client asks for
          out,    \* bytes on the way to the server
          srv,    \* the server: what it has read, and its parser
          ans,    \* what it answers
          back,   \* bytes on the way to the client
          seen,   \* bytes of the answer the client has read
          got     \* bytes of the body the client's user has been given

vars == <<h, call, ask, out, srv, ans, back, seen, got>>

CRLF == <<"CR", "LF">>

NoAnswer == [text |-> <<>>, body |-> <<>>, ends |-> "none"]

Idle == [op |-> "none", size |-> 0, t |-> 0]

\* http_connection_handle_t.  contentLength is set by nobody: whatever the
\* memory held before is the first thing it is compared with.
NoHandle == [st |-> "none", open |-> FALSE, link |-> FALSE, ex |-> FALSE, started |-> FALSE, cancel |-> FALSE,
             isChunked |-> FALSE, p |-> ParserInit(FALSE, "GET")]

Init ==
    /\ h = NoHandle
    /\ call = Idle
    /\ ask = [method |-> "GET", url |-> <<>>, body |-> <<>>, len |-> "none"]
    /\ out = <<>>
    /\ srv = [st |-> "recv", open |-> TRUE, seen |-> <<>>, p |-> ParserInit(TRUE, "GET")]
    /\ ans = NoAnswer
    /\ back = <<>>
    /\ seen = <<>>
    /\ got = <<>>

(***************************************************************************)
(* Making messages                                                         *)
(***************************************************************************)

MethodWord == [m \in {"GET", "PUT", "HEAD"} |->
                  CASE m = "GET" -> <<"get">> [] m = "PUT" -> <<"put">> [] m = "HEAD" -> <<"head">>]

DigitOf(n) == CHOOSE d \in Digits : DigitValue[d] = n

\* http_MakeMessage: what a character of its format adds to the message.  The
\* date, agent and type lines are x lines here.
MakePart(c, m) ==
    CASE c = "Q" -> MethodWord[m.method] \o <<"SP">> \o m.url \o <<"SP", "http", "/", "1.1">> \o CRLF
      [] c = "c" -> CRLF
      [] c = "N" -> <<"con", "len", ":", "SP", DigitOf(Len(m.body))>> \o CRLF
      [] c = "K" -> <<"te", ":", "SP", "ch", "unked">> \o CRLF
      [] c = "U" -> <<"x", ":", "SP", "y">> \o CRLF
      [] c = "R" -> <<"http", "/", "1.1", "SP", "200", "SP", "ok">> \o CRLF
      [] c = "B" -> <<"con", "len", ":", "SP", DigitOf(Len(m.body))>> \o CRLF \o CRLF \o m.body

MakeMessage(fmt, m) ==
    LET f[i \in 0..Len(fmt)] == IF i = 0 THEN <<>> ELSE f[i-1] \o MakePart(fmt[i], m)
    IN f[Len(fmt)]

\* MakeGenericMessage, for the three ways to tell where the body ends.
MakeGenericMessage(m) ==
    MakeMessage(<<"Q", "U">> \o (CASE m.len = "length" -> <<"N", "c">>
                                  [] m.len = "chunked" -> <<"K", "c">>
                                  [] m.len \in {"none", "close"} -> <<"c">>), m)

(***************************************************************************)
(* Sockets                                                                 *)
(***************************************************************************)

\* sock_write, which takes d seconds.  It only waits as long as the timeout
\* says before it starts to send, and then as long as the sending takes.
AfterWrite(t, d) == IF t = 0 THEN 0 ELSE t - d

WriteTakes == 0..Timeout + 1

\* sock_read, which takes d seconds, no more than it was allowed.
AfterRead(t, d) == IF t = 0 THEN 0 ELSE t - d

ReadTakes(t) == IF t < 0 THEN {0} ELSE 0..t

Pieces(s) == {SubSeq(s, 1, n) : n \in 1..Len(s)}

Without(s, piece) == SubSeq(s, Len(piece) + 1, Len(s))

(***************************************************************************)
(* The client                                                              *)
(***************************************************************************)

\* private_connect: how connect may come out.  It waits for one that is in
\* progress; one that is refused at once counts as connected.
ConnectCodes == {"connected", "late", "refused", "timeout", "failed"}

CheckConnectAndWait(r) == r \in {"connected", "late", "refused"}

Linked(r) == r \in {"connected", "late"}

\* http_OpenHttpConnection.  The handle is given to the caller in any case;
\* when there was no connection its socket is closed.
OpenHttpConnection ==
    /\ call = Idle /\ h.st = "none"
    /\ \E r \in ConnectCodes, junk \in Leftover :
         h' = [NoHandle EXCEPT !.st = IF CheckConnectAndWait(r) THEN "idle" ELSE "failed",
                  !.open = CheckConnectAndWait(r), !.link = Linked(r), !.isChunked = junk]
    /\ UNCHANGED <<call, ask, out, srv, ans, back, seen, got>>

\* What is sent gets through, or it is lost and counts as sent.
Sent(link, s) == {out} \cup IF link THEN {out \o s} ELSE {}

\* http_MakeHttpRequest
MakeHttpRequest(m) ==
    /\ call = Idle /\ h.st = "idle"
    /\ h' = [h EXCEPT !.st = IF m.body = <<>> THEN "written" ELSE "made", !.started = TRUE,
                      !.cancel = FALSE, !.p = ParserInit(FALSE, m.method)]
    /\ ask' = m
    /\ out' \in Sent(h.link, MakeGenericMessage(m))
    /\ UNCHANGED <<call, srv, ans, back, seen, got>>

\* http_WriteHttpRequest.  The caller is told when not all was written; this
\* one gives up then.
WriteHttpRequest ==
    /\ call = Idle /\ h.st = "made"
    /\ LET buf == IF h.isChunked THEN <<DigitOf(Len(ask.body))>> \o CRLF \o ask.body \o CRLF ELSE ask.body
       IN \/ h.link /\ out' = out \o buf /\ h' = [h EXCEPT !.st = "written"]
          \/ UNCHANGED out /\ h' = [h EXCEPT !.st = "failed"]
    /\ UNCHANGED <<call, ask, srv, ans, back, seen, got>>

\* http_EndHttpRequest
EndHttpRequest ==
    /\ call = Idle /\ h.st = "written" /\ h.started
    /\ h' = [h EXCEPT !.started = FALSE]
    /\ out' = IF h.isChunked /\ h.link THEN out \o <<"0">> \o CRLF \o CRLF ELSE out
    /\ UNCHANGED <<call, ask, srv, ans, back, seen, got>>

\* http_GetHttpResponse; ReadResponseLineAndHeaders first tries what it has.
GetHttpResponse ==
    /\ call = Idle /\ h.st = "written"
    /\ call' = [op |-> "head", size |-> 0, t |-> Timeout]
    /\ UNCHANGED <<h, ask, out, srv, ans, back, seen, got>>

\* A request is sent on a new connection; the reading starts.
Begin(m, st, ex, op) ==
    \E r \in ConnectCodes :
      IF CheckConnectAndWait(r)
      THEN /\ h' = [NoHandle EXCEPT !.st = st, !.open = TRUE, !.link = Linked(r), !.ex = ex,
                                    !.p = ParserInit(FALSE, m.method)]
           /\ ask' = m
           /\ out' \in Sent(Linked(r), MakeGenericMessage(m))
           /\ \E d \in WriteTakes : call' = [op |-> op, size |-> 0, t |-> AfterWrite(Timeout, d)]
      ELSE h' = [NoHandle EXCEPT !.st = "failed"] /\ UNCHANGED <<call, ask, out>>

\* http_RequestAndResponse: the whole answer is received.
RequestAndResponse(m) ==
    /\ call = Idle /\ h.st = "none" /\ m.body = <<>>
    /\ Begin(m, "oneshot", FALSE, "recv")
    /\ UNCHANGED <<srv, ans, back, seen, got>>

\* http_OpenHttpGetEx: the headers are, and the body is left to the caller.
OpenHttpGetEx(m) ==
    /\ call = Idle /\ h.st = "none" /\ m.method = "GET"
    /\ Begin(m, "written", TRUE, "head")
    /\ UNCHANGED <<srv, ans, back, seen, got>>

\* http_ReadHttpResponse begins: what is there is parsed.
ReadHttpResponse(n) ==
    /\ call = Idle /\ h.st = "answered"
    /\ call' = [op |-> "body", size |-> n, t |-> Timeout]
    /\ h' = [h EXCEPT !.p = IF @.pos = "complete" THEN [@ EXCEPT !.s = "SUCCESS"]
                            ELSE Parse(@, {"entity"})]
    /\ UNCHANGED <<ask, out, srv, ans, back, seen, got>>

\* Where a call stands: it has an error, has all it wants, or reads on.
Bad(p) == p.s \notin {"OK", "SUCCESS", "INCOMPLETE", "INCOMPLETE_ENTITY"}

HeadDone(p) == p.pos = "entity"

BodyDone(p, n) == h.cancel \/ p.pos = "complete" \/ p.discarded + n <= p.elen

Reading ==
    CASE call.op = "head" -> ~HeadDone(h.p) /\ ~Bad(h.p)
      [] call.op = "body" -> ~BodyDone(h.p, call.size) /\ ~Bad(h.p)
      [] call.op = "recv" -> h.p.s \in {"INCOMPLETE", "INCOMPLETE_ENTITY"}
      [] OTHER -> FALSE

\* What a call does with a piece that has come.
Took(p, piece) ==
    Parse([p EXCEPT !.buf = @ \o piece],
          CASE call.op = "head" -> {"line", "headers"}
            [] call.op = "body" -> {"entity"}
            [] call.op = "recv" -> {"line", "headers", "entity"})

ClientReads ==
    /\ Reading
    /\ \E piece \in Pieces(back), d \in ReadTakes(call.t) :
         /\ h' = [h EXCEPT !.p = Took(@, piece)]
         /\ back' = Without(back, piece)
         /\ seen' = seen \o piece
         /\ call' = [call EXCEPT !.t = AfterRead(@, d)]
    /\ UNCHANGED <<ask, out, srv, ans, got>>

\* The server has closed the connection: an entity that ends with the
\* connection is complete then, any other message is bad.
Closed(p) ==
    IF p.s = "INCOMPLETE_ENTITY" THEN [p EXCEPT !.pos = "complete", !.s = "SUCCESS"]
    ELSE [p EXCEPT !.s = "BAD_HTTPMSG"]

ClientSeesClose ==
    /\ Reading /\ back = <<>> /\ ~srv.open
    /\ h' = [h EXCEPT !.p = Closed(@)]
    /\ UNCHANGED <<call, ask, out, srv, ans, back, seen, got>>

\* Mutant of ClientTimesOut: a select that times out is tried again.
ClientTimesOutAgain == Reading /\ call.t >= 0 /\ UNCHANGED vars

\* A negative timeout is none at all.
ClientTimesOut ==
    /\ Reading /\ call.t >= 0
    /\ h' = [h EXCEPT !.p.s = "TIMEDOUT"]
    /\ UNCHANGED <<call, ask, out, srv, ans, back, seen, got>>

\* The end of http_GetHttpResponse; http_OpenHttpGetEx frees the handle when
\* the answer is bad, and nobody can close its socket then.
HeadReturns ==
    /\ call.op = "head" /\ ~Reading
    /\ LET q == ReadMethod(h.p) IN
       h' = IF HeadDone(h.p) /\ ~Bad(h.p) /\ q.s \in {"OK", "SUCCESS"}
            THEN [h EXCEPT !.st = "answered", !.p = q]
            ELSE [h EXCEPT !.st = IF h.ex THEN "leaked" ELSE "failed"]
    /\ call' = Idle
    /\ UNCHANGED <<ask, out, srv, ans, back, seen, got>>

\* The bytes that are given to the user are cut out of the message.
Given(p, n) ==
    [p EXCEPT !.buf = Delete(@, p.start, p.start + n), !.c = @ - n, !.discarded = @ + n]

\* The end of http_ReadHttpResponse.  "read" holds until fewer bytes than
\* asked for were there.
BodyReturns ==
    /\ call.op = "body" /\ ~Reading
    /\ LET n == IF h.p.discarded + call.size > h.p.elen THEN h.p.elen - h.p.discarded ELSE call.size
       IN IF Bad(h.p) \/ h.cancel
          THEN h' = [h EXCEPT !.st = "failed"] /\ UNCHANGED got
          ELSE /\ h' = [h EXCEPT !.p = Given(@, n), !.st = IF n < call.size THEN "read" ELSE @]
               /\ got' = got \o SubSeq(h.p.buf, h.p.start + 1, h.p.start + n)
    /\ call' = Idle
    /\ UNCHANGED <<ask, out, srv, ans, back, seen>>

\* http_Download: only an answer with the status 200 has a document.
Downloaded(p) == p.s = "SUCCESS" /\ p.status = "200"

\* The end of http_RequestAndResponse closes the connection.
RecvReturns ==
    /\ call.op = "recv" /\ ~Reading
    /\ h' = [h EXCEPT !.st = IF Downloaded(h.p) THEN "read" ELSE "failed", !.open = FALSE]
    /\ got' = IF Downloaded(h.p) THEN Body(h.p) ELSE got
    /\ call' = Idle
    /\ UNCHANGED <<ask, out, srv, ans, back, seen>>

\* http_CancelHttpGet, from another thread
CancelHttpGet ==
    /\ h.st = "answered" /\ ~h.cancel
    /\ h' = [h EXCEPT !.cancel = TRUE]
    /\ UNCHANGED <<call, ask, out, srv, ans, back, seen, got>>

\* http_CloseHttpConnection
CloseHttpConnection ==
    /\ call = Idle /\ h.open /\ h.st # "leaked"
    /\ h' = [h EXCEPT !.st = IF @ = "read" THEN @ ELSE "failed", !.open = FALSE]
    /\ UNCHANGED <<call, ask, out, srv, ans, back, seen, got>>

Client ==
    \/ OpenHttpConnection \/ \E m \in Asks : MakeHttpRequest(m) \/ RequestAndResponse(m) \/ OpenHttpGetEx(m)
    \/ WriteHttpRequest \/ EndHttpRequest \/ GetHttpResponse \/ HeadReturns
    \/ \E n \in Sizes : ReadHttpResponse(n)
    \/ ClientReads \/ ClientSeesClose \/ ClientTimesOut
    \/ BodyReturns \/ RecvReturns \/ CancelHttpGet \/ CloseHttpConnection

(***************************************************************************)
(* The server                                                              *)
(***************************************************************************)

\* http_RecvMessage
RecvMessage ==
    /\ srv.st = "recv" /\ srv.open
    /\ \E piece \in Pieces(out) :
         /\ out' = Without(out, piece)
         /\ \E p \in {ParserAppend(srv.p, piece)} :
              srv' = [srv EXCEPT !.p = p, !.seen = @ \o piece,
                        !.st = IF p.s = "SUCCESS" THEN "done"
                               ELSE IF p.s \in {"FAILURE", "NO_MATCH"} THEN "bad" ELSE "recv"]
    /\ UNCHANGED <<h, call, ask, ans, back, seen, got>>

\* It gives up when the client closes or is silent for too long, and closes.
RecvFails ==
    /\ srv.st = "recv" /\ srv.open
    /\ srv' = [srv EXCEPT !.st = "bad", !.open = FALSE]
    /\ UNCHANGED <<h, call, ask, out, ans, back, seen, got>>

\* http_SendMessage, and the close after it.  Only a part may get through.
SendMessage ==
    /\ srv.st = "done" /\ srv.open
    /\ \E a \in Answers :
         /\ a.for = ask.method
         /\ ans' = [text |-> a.text, body |-> a.body, ends |-> a.ends]
         /\ back' \in {a.text} \cup {SubSeq(a.text, 1, Len(a.text) - 2)}
    /\ srv' = [srv EXCEPT !.st = "sent", !.open = FALSE]
    /\ UNCHANGED <<h, call, ask, out, seen, got>>

\* http_SendStatusResponse, when the request was refused: a page that says so.
SendStatusResponse ==
    /\ srv.st = "bad" /\ srv.open
    /\ LET text == MakeMessage(<<"R", "U", "B">>, [body |-> <<"x">>]) IN
         ans' = [text |-> text, body |-> <<"x">>, ends |-> "length"] /\ back' = text
    /\ srv' = [srv EXCEPT !.open = FALSE]
    /\ UNCHANGED <<h, call, ask, out, seen, got>>

Server == RecvMessage \/ RecvFails \/ SendMessage \/ SendStatusResponse

Next == Client \/ Server

Spec == Init /\ [][Next]_vars

\* A select with a timeout ends, and a call that has what it wants returns;
\* nothing is asked of the server.
Fairness ==
    /\ WF_vars(ClientTimesOut)
    /\ WF_vars(HeadReturns) /\ WF_vars(BodyReturns) /\ WF_vars(RecvReturns)

FairSpec == Spec /\ Fairness

(***************************************************************************)
(* Properties                                                              *)
(***************************************************************************)

\* What a parser has found out.
Found(p) == [s |-> p.s, pos |-> p.pos, method |-> p.method, url |-> p.url, hdrs |-> p.hdrs,
             status |-> p.status, body |-> IF p.s = "SUCCESS" THEN Body(p) ELSE <<>>]

\* How a message is cut into pieces on the way makes no difference to what
\* parser_append finds in it: it is what one piece with all of it would give,
\* and what is refused early would be refused with the rest of it, too.
PiecesAgree ==
    /\ srv.seen # <<>> /\ srv.st # "sent" =>
         Found(srv.p) = Found(ParserAppend(ParserInit(TRUE, "GET"), srv.seen))
    /\ srv.p.s \in {"FAILURE", "NO_MATCH"} =>
         ParserAppend(ParserInit(TRUE, "GET"), srv.seen \o out).s = srv.p.s
    /\ call.op = "recv" /\ seen # <<>> /\ h.p.s \in {"INCOMPLETE", "INCOMPLETE_ENTITY", "FAILURE"} =>
         Found(h.p) = Found(ParserAppend(ParserInit(FALSE, ask.method), seen))

\* A request that http_RecvMessage accepts is the one the client made: the
\* method, the address and all of the body it wrote.  It refuses none but the
\* one with a body of which the client did not tell where it ends.
RequestRead ==
    /\ srv.st = "done" => /\ srv.p.method = ask.method
                          /\ srv.p.url = ask.url
                          /\ Body(srv.p) = ask.body
    /\ srv.p.s \in {"FAILURE", "NO_MATCH"} => ask.len = "close"

\* What http_ReadHttpResponse gives its user, in whatever sizes it is asked
\* for, is the body of the answer from its start; and when it gives less than
\* was asked for that is all of it, unless only the end of the connection
\* could have told.
BodyRight ==
    /\ Len(got) <= Len(ans.body) /\ got = SubSeq(ans.body, 1, Len(got))
    /\ h.st = "read" /\ ans.ends # "close" => got = ans.body

\* A call returns, whatever the server does.  One call may not: when sending
\* has taken longer than the timeout, what is left of it is negative, and that
\* means to wait for the answer without a limit.
CallEnds == (call.op # "none" /\ call.t >= 0) ~> call.op = "none"

\* Both sides of an exchange get what the other one sent.
ExchangeRight == RequestRead /\ BodyRight
=============================================================================
