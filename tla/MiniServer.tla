------------------------------ MODULE MiniServer ------------------------------
(***************************************************************************)
(* The mini server: genlib/miniserver/miniserver.c with the SSDP sockets   *)
(* of ssdp/ssdp_server.c.  StartMiniServer opens the sockets one after the *)
(* other and hands them to RunMiniServer, a persistent job, which accepts  *)
(* connections and reads datagrams until it is told to stop; each          *)
(* connection is a job of its own (handle_request).                        *)
(*                                                                         *)
(* A socket is its name.  Port numbers wrap at MaxPort + 1 (2^16 in the    *)
(* code, where they are uint16_t).                                         *)
(***************************************************************************)
EXTENDS Integers, Sequences, FiniteSets

CONSTANTS
  Conns,       \* connections clients make
  Families,    \* interfaces found: "4", "6", "6u" (ULA or GUA)
  StartPort,   \* the port asked for
  MaxPort,
  TakenSets,   \* sets of ports other programs may listen on
  Faults       \* what may fail: "socket", "listen", "pool", "slow", "stop", "read"

\* Interfaces are of the three kinds, and a port is a number that is not 0.
ASSUME MiniServerConstants ==
  /\ Families \subseteq {"4", "6", "6u"}
  /\ MaxPort \in Nat /\ StartPort \in 1 .. MaxPort

VARIABLES
  gMServState,  \* "idle", "running", "stopping"
  open,         \* sockets that are open
  start,        \* StartMiniServer: [pc, sock, try, orig, from, bound]
  taken,        \* ports in use by others
  server,       \* the job: "none", "queued", "loop"
  stopping,     \* StopMiniServer: "no", "sending", "failed"
  stopMsgs,     \* a datagram for the stop socket is on its way
  conn,         \* per connection: where it is
  blocked,      \* connections whose peer takes nothing of what is sent
  gaveUp        \* history: StartMiniServer no longer waited for the job

serverVars == <<gMServState, open, start, taken, server, stopping, stopMsgs, conn, blocked, gaveUp>>

Mini(f) == <<"mini", f>>
Stop    == <<"stop", "4">>
Req(f)  == <<"req", f>>
Ssdp(f) == <<"ssdp", f>>

\* The order in which the stream sockets are bound, and the datagram sockets made.
BindOrder == <<"4", "6", "6u">>
SsdpOrder == <<Req("4"), Req("6"), Ssdp("4"), Ssdp("6"), Ssdp("6u")>>

NoStart == [pc |-> "none", sock |-> 0, try |-> 0, orig |-> 0, from |-> 0, bound |-> FALSE]

-----------------------------------------------------------------------------
(* StartMiniServer *)

MiniSocks == {Mini(f) : f \in {"4", "6", "6u"}}

\* Mutant of SsdpMade: the last socket is forgotten.
SsdpMadeShort(s) ==
  CASE s = Req("4")  -> {}
    [] s = Req("6")  -> {Req("4")}
    [] s = Ssdp("4") -> {Req("4"), Req("6")}
    [] s = Ssdp("6") -> {Req("4"), Req("6")}
    [] s = Ssdp("6u") -> {Req("4"), Req("6"), Ssdp("4")}

\* What get_ssdp_sockets closes when it cannot make socket s.
SsdpMade(s) ==
  CASE s = Req("4")  -> {}
    [] s = Req("6")  -> {Req("4")}
    [] s = Ssdp("4") -> {Req("4"), Req("6")}
    [] s = Ssdp("6") -> {Req("4"), Req("6"), Ssdp("4")}
    [] s = Ssdp("6u") -> {Req("4"), Req("6"), Ssdp("4"), Ssdp("6")}

\* StartMiniServer returns an error.
StartFails(left) ==
  /\ start' = [NoStart EXCEPT !.pc = "failed"]
  /\ open' = left

\* init_socket_suff for each family; IPv4 may do without IPv6 and the other way round.
StartMiniServer ==
  /\ start.pc = "none" /\ gMServState = "idle"
  /\ \E made \in {Families} \cup (IF "socket" \in Faults THEN SUBSET Families ELSE {}) :
       IF "4" \notin made /\ ("6" \notin made \/ "6u" \notin made)
       THEN StartFails({})
       ELSE /\ open' = {Mini(f) : f \in made}
            /\ start' = [NoStart EXCEPT !.pc = "next", !.sock = 1]
  /\ UNCHANGED <<gMServState, taken, server, stopping, stopMsgs, conn, blocked, gaveUp>>

\* The next stream socket that was made, or the stop socket.
BindNext ==
  /\ start.pc = "next"
  /\ IF start.sock > Len(BindOrder)
     THEN start' = [start EXCEPT !.pc = "stop"]
     ELSE IF Mini(BindOrder[start.sock]) \in open
          THEN start' = [start EXCEPT !.pc = "bind", !.try = StartPort, !.orig = StartPort,
                                      !.from = StartPort, !.bound = FALSE]
          ELSE start' = [start EXCEPT !.sock = @ + 1]
  /\ UNCHANGED <<gMServState, open, taken, server, stopping, stopMsgs, conn, blocked, gaveUp>>

\* s->try_port++ of a uint16_t.
NextPort(p) == (p + 1) % (MaxPort + 1)

\* bind fails on a descriptor that is bound already or no socket any more (both are
\* `bound'), and when the port is taken; port 0 asks for any.
BindOk(p) == ~start.bound /\ (p = 0 \/ p \notin taken)

\* One turn of the loop of do_bind: it gives up when the port numbers have wrapped.
DoBind ==
  /\ start.pc = "bind"
  /\ LET try == NextPort(start.try) IN
     \/ /\ BindOk(start.try)
        /\ start' = [start EXCEPT !.pc = "listen", !.try = try, !.bound = TRUE]
        /\ UNCHANGED open
     \/ /\ ~BindOk(start.try) /\ try >= start.from
        /\ start' = [start EXCEPT !.try = try]
        /\ UNCHANGED open
     \/ /\ ~BindOk(start.try) /\ try < start.from
        /\ StartFails(open \ MiniSocks)
  /\ UNCHANGED <<gMServState, taken, server, stopping, stopMsgs, conn, blocked, gaveUp>>

\* do_bind_listen: when listen finds the port in use the socket is made anew, with
\* the port to try forgotten; when the port numbers have wrapped it starts again.
\* What do_reinit returns is ignored: without a socket every bind fails from now on.
DoListen ==
  /\ start.pc = "listen"
  /\ \/ IF start.try >= start.orig
        THEN start' = [start EXCEPT !.pc = "next", !.sock = @ + 1] /\ UNCHANGED open
        ELSE start' = [start EXCEPT !.pc = "bind", !.from = start.try] /\ UNCHANGED open
     \/ /\ "listen" \in Faults
        /\ \/ start' = [start EXCEPT !.pc = "bind", !.try = 0, !.from = 0, !.bound = FALSE]
              /\ UNCHANGED open
           \/ /\ "socket" \in Faults
              /\ start' = [start EXCEPT !.pc = "bind", !.try = 0, !.from = 0, !.bound = TRUE]
              /\ open' = open \ {Mini(BindOrder[start.sock])}
           \/ StartFails(open \ MiniSocks)
  /\ UNCHANGED <<gMServState, taken, server, stopping, stopMsgs, conn, blocked, gaveUp>>

\* get_miniserver_stopsock.
GetStopSock ==
  /\ start.pc = "stop"
  /\ \/ open' = open \cup {Stop} /\ start' = [start EXCEPT !.pc = "ssdp", !.sock = 1]
     \/ "socket" \in Faults /\ StartFails(open \ MiniSocks)
  /\ UNCHANGED <<gMServState, taken, server, stopping, stopMsgs, conn, blocked, gaveUp>>

\* get_ssdp_sockets makes socket s if there is such an interface: on failure
\* everything made so far is closed, by it and by StartMiniServer.
CreateSsdpSock(s) ==
  /\ start.pc = "ssdp" /\ start.sock <= Len(SsdpOrder) /\ SsdpOrder[start.sock] = s
  /\ \/ /\ open' = IF s[2] \in Families THEN open \cup {s} ELSE open
        /\ start' = [start EXCEPT !.sock = @ + 1]
     \/ /\ s[2] \in Families /\ "socket" \in Faults
        /\ StartFails(open \ (MiniSocks \cup {Stop} \cup SsdpMade(s)))
  /\ UNCHANGED <<gMServState, taken, server, stopping, stopMsgs, conn, blocked, gaveUp>>

CreateSsdpSockReqV4   == CreateSsdpSock(Req("4"))
CreateSsdpSockReqV6   == CreateSsdpSock(Req("6"))
CreateSsdpSockV4      == CreateSsdpSock(Ssdp("4"))
CreateSsdpSockV6      == CreateSsdpSock(Ssdp("6"))
CreateSsdpSockV6UlaGua == CreateSsdpSock(Ssdp("6u"))

SsdpSocketsMade ==
  /\ start.pc = "ssdp" /\ start.sock > Len(SsdpOrder)
  /\ start' = [start EXCEPT !.pc = "add"]
  /\ UNCHANGED <<gMServState, open, taken, server, stopping, stopMsgs, conn, blocked, gaveUp>>

\* The job is added, or refused.
AddServerJob ==
  /\ start.pc = "add"
  /\ \/ server' = "queued" /\ start' = [start EXCEPT !.pc = "wait"] /\ UNCHANGED open
     \/ "pool" \in Faults /\ StartFails({}) /\ UNCHANGED server
  /\ UNCHANGED <<gMServState, taken, stopping, stopMsgs, conn, blocked, gaveUp>>

\* It waits for the job to run; when that takes too long the sockets are closed
\* though the job will still use them.
WaitForServer ==
  /\ start.pc = "wait"
  /\ \/ /\ gMServState = "running"
        /\ start' = [NoStart EXCEPT !.pc = "done"] /\ UNCHANGED <<open, gaveUp>>
     \/ "slow" \in Faults /\ gMServState # "running" /\ StartFails({}) /\ gaveUp' = TRUE
  /\ UNCHANGED <<gMServState, taken, server, stopping, stopMsgs, conn, blocked>>

-----------------------------------------------------------------------------
(* RunMiniServer *)

ServerStarts ==
  /\ server = "queued"
  /\ server' = "loop" /\ gMServState' = "running"
  /\ UNCHANGED <<open, start, taken, stopping, stopMsgs, conn, blocked, gaveUp>>

\* select says that a socket that is open can be read.
Ready(s) == server = "loop" /\ s \in open

\* web_server_accept and schedule_request_job: a connection that cannot be given to
\* the thread pool is closed.
Accept(c) ==
  /\ \E f \in Families : Ready(Mini(f))
  /\ conn[c] = "backlog"
  /\ \E to \in {"queued"} \cup (IF "pool" \in Faults THEN {"closed"} ELSE {}) :
       conn' = [conn EXCEPT ![c] = to]
  /\ UNCHANGED <<gMServState, open, start, taken, server, stopping, stopMsgs, blocked, gaveUp>>

\* readFromSSDPSocket fails: the socket is closed and no longer looked at.
SsdpReadFails(s) ==
  /\ "read" \in Faults /\ Ready(s) /\ s[1] \in {"req", "ssdp"}
  /\ open' = open \ {s}
  /\ UNCHANGED <<gMServState, start, taken, server, stopping, stopMsgs, conn, blocked, gaveUp>>

\* receive_from_stopSock: the loop ends and everything is closed.
ServerStops ==
  /\ Ready(Stop) /\ stopMsgs
  /\ stopMsgs' = FALSE
  /\ open' = {} /\ server' = "none" /\ gMServState' = "idle"
  /\ UNCHANGED <<start, taken, stopping, conn, blocked, gaveUp>>

-----------------------------------------------------------------------------
(* StopMiniServer *)

StopMiniServer ==
  /\ gMServState = "running" /\ stopping = "no" /\ start.pc \in {"done", "failed"}
  /\ gMServState' = "stopping"
  /\ stopping' = "sending"
  /\ UNCHANGED <<open, start, taken, server, stopMsgs, conn, blocked, gaveUp>>

\* No socket to send with: the server keeps running and nothing stops it any more.
StopFails ==
  /\ "stop" \in Faults /\ stopping = "sending" /\ ~stopMsgs
  /\ stopping' = "failed"
  /\ UNCHANGED <<gMServState, open, start, taken, server, stopMsgs, conn, blocked, gaveUp>>

\* Mutant of StopSend: the datagram is sent once.
StopSendOnce ==
  /\ stopping = "sending" /\ stopMsgs' = TRUE /\ stopping' = "no"
  /\ UNCHANGED <<gMServState, open, start, taken, server, conn, blocked, gaveUp>>

\* The datagram is sent again and again until the state is idle.
StopSend ==
  /\ stopping = "sending"
  /\ IF gMServState = "idle" THEN stopping' = "no" /\ UNCHANGED stopMsgs
                             ELSE stopMsgs' = TRUE /\ UNCHANGED stopping
  /\ UNCHANGED <<gMServState, open, start, taken, server, conn, blocked, gaveUp>>

StopLost ==
  /\ stopMsgs /\ stopMsgs' = FALSE
  /\ UNCHANGED <<gMServState, open, start, taken, server, stopping, conn, blocked, gaveUp>>

-----------------------------------------------------------------------------
(* A connection *)

Connect(c) ==
  /\ conn[c] = "none" /\ \E f \in Families : Mini(f) \in open
  /\ conn' = [conn EXCEPT ![c] = "backlog"]
  /\ UNCHANGED <<gMServState, open, start, taken, server, stopping, stopMsgs, blocked, gaveUp>>

\* handle_request: http_RecvMessage comes back with a message, or with an error or
\* after the time is over.
HandleRequest(c) ==
  /\ conn[c] = "queued"
  /\ \E to \in {"dispatch", "error", "end"} : conn' = [conn EXCEPT ![c] = to]
  /\ UNCHANGED <<gMServState, open, start, taken, server, stopping, stopMsgs, blocked, gaveUp>>

\* dispatch_request: a callback for the method is called once the Host header has been
\* accepted; a request with a Host that is not numeric is redirected or dropped, one
\* without Host is dropped, one for a method without callback is an error.
Dispatched == {"callback", "redirect", "error", "end"}

DispatchRequest(c) ==
  /\ conn[c] = "dispatch"
  /\ \E to \in Dispatched : conn' = [conn EXCEPT ![c] = to]
  /\ UNCHANGED <<gMServState, open, start, taken, server, stopping, stopMsgs, blocked, gaveUp>>

Answering == {"callback", "redirect", "error"}

\* sock_read_write sends with a blocking send, in a loop without a timeout: it waits
\* for as long as the peer reads nothing, and goes on when the peer reads or closes.
SendBlocks(c) ==
  /\ conn[c] \in Answering /\ c \notin blocked
  /\ blocked' = blocked \cup {c}
  /\ UNCHANGED <<gMServState, open, start, taken, server, stopping, stopMsgs, conn, gaveUp>>

PeerReads(c) ==
  /\ c \in blocked
  /\ blocked' = blocked \ {c}
  /\ UNCHANGED <<gMServState, open, start, taken, server, stopping, stopMsgs, conn, gaveUp>>

\* The answer is sent: by the callback, as a redirection, or by handle_error.
Answer(c) ==
  /\ conn[c] \in Answering /\ c \notin blocked
  /\ conn' = [conn EXCEPT ![c] = "end"]
  /\ UNCHANGED <<gMServState, open, start, taken, server, stopping, stopMsgs, blocked, gaveUp>>

\* sock_destroy.
EndRequest(c) ==
  /\ conn[c] = "end"
  /\ conn' = [conn EXCEPT ![c] = "closed"]
  /\ UNCHANGED <<gMServState, open, start, taken, server, stopping, stopMsgs, blocked, gaveUp>>

\* free_handle_request_arg, when the pool is shut down before the job ran.
DropRequest(c) ==
  /\ conn[c] = "queued" /\ gMServState = "idle"
  /\ conn' = [conn EXCEPT ![c] = "closed"]
  /\ UNCHANGED <<gMServState, open, start, taken, server, stopping, stopMsgs, blocked, gaveUp>>

-----------------------------------------------------------------------------
ServerInit ==
  /\ gMServState = "idle" /\ open = {} /\ start = NoStart
  /\ taken \in TakenSets
  /\ server = "none" /\ stopping = "no" /\ stopMsgs = FALSE
  /\ conn = [c \in Conns |-> "none"] /\ blocked = {}
  /\ gaveUp = FALSE

StartStep == \/ BindNext \/ DoBind \/ DoListen \/ GetStopSock
             \/ CreateSsdpSockReqV4 \/ CreateSsdpSockReqV6 \/ CreateSsdpSockV4
             \/ CreateSsdpSockV6 \/ CreateSsdpSockV6UlaGua \/ SsdpSocketsMade
             \/ AddServerJob \/ WaitForServer

RequestStep(c) == \/ HandleRequest(c) \/ DispatchRequest(c) \/ Answer(c) \/ EndRequest(c)
                  \/ DropRequest(c)

ServerNext ==
  \/ StartMiniServer \/ StartStep
  \/ ServerStarts \/ ServerStops
  \/ StopMiniServer \/ StopFails \/ StopSend \/ StopLost
  \/ \E s \in open : SsdpReadFails(s)
  \/ \E c \in Conns : Accept(c) \/ Connect(c) \/ RequestStep(c) \/ SendBlocks(c) \/ PeerReads(c)

ServerSpec == ServerInit /\ [][ServerNext]_serverVars

\* Every thread runs; a datagram to the own host that is sent again and again arrives,
\* and so does an answer whose peer reads again and again.  Nobody makes a peer read.
Fairness == /\ WF_serverVars(StartStep) /\ WF_serverVars(ServerStarts) /\ WF_serverVars(StopSend)
            /\ SF_serverVars(ServerStops)
            /\ \A c \in Conns : SF_serverVars(RequestStep(c)) /\ SF_serverVars(Accept(c))

ServerFairSpec == ServerSpec /\ Fairness

-----------------------------------------------------------------------------
(* Properties *)

\* Whatever goes wrong while the server starts, and whatever state it is stopped in,
\* no socket stays open: sockets are open only while it starts, waits or runs.
NoSocketLeft ==
  /\ start.pc = "failed" /\ server = "none" => open = {}
  /\ start.pc = "done" /\ gMServState = "idle" => open = {}

\* StopMiniServer returns and the server has ended, unless there is no socket to tell
\* it with.
StopEnds == stopping = "sending" ~> gMServState = "idle" \/ stopping = "failed" \/ gaveUp

\* A connection that was accepted is closed again, or its peer lets the answer wait
\* for ever.
ConnectionsEnd ==
  \A c \in Conns : []<>(c \notin blocked) => (conn[c] \notin {"none", "backlog"} ~> conn[c] = "closed")

\* StartMiniServer returns.
StartReturns == start.pc # "none" ~> start.pc \in {"done", "failed"}

\* The server gives everything back: StopMiniServer ends, and so does every
\* connection that was accepted (RunMiniServer, handle_request), except one whose peer
\* reads nothing more of its answer (sock_read_write).
ServerEnds == StopEnds /\ ConnectionsEnd
===============================================================================
