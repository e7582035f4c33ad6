------------------------------ MODULE MCServer ------------------------------
(***************************************************************************)
(* What the mini server does on the network, in one of four scenes:        *)
(*   "server"    the mini server from start to stop (MiniServer);          *)
(*   "exchange"  one HTTP exchange over a connection (HttpMessages), with  *)
(*               answers that end in every way;                            *)
(*   "devices"   devices come and go and other hosts search (Ssdp);        *)
(*   "search"    our own control points search (Ssdp).                     *)
(* The parts share no state: what a scene is not about stays as it began.  *)
(* Our own stack answers searches in both scenes of Ssdp.                  *)
(***************************************************************************)
EXTENDS MiniServer, Ssdp

CONSTANTS Answers, Asks, Sizes, Timeout, Leftover

VARIABLES scene, h, call, ask, out, srv, ans, back, seen, got

H == INSTANCE HttpMessages

httpVars == <<h, call, ask, out, srv, ans, back, seen, got>>

CRLF == <<"CR", "LF">>

Line == <<"http", "/", "1.1", "SP", "200", "SP", "ok", "CR", "LF">>

Length(d) == <<"con", "len", ":", "SP", d, "CR", "LF">>

MCAnswers == {
    [for |-> "GET", ends |-> "length", body |-> <<"a", "b">>,
     text |-> Line \o Length("2") \o CRLF \o <<"a", "b">>],
    [for |-> "GET", ends |-> "chunk", body |-> <<"a", "b", "c">>,
     text |-> Line \o <<"te", ":", "ch", "unked">> \o CRLF \o CRLF \o <<"2">> \o CRLF
              \o <<"a", "b">> \o CRLF \o <<"1">> \o CRLF \o <<"c">> \o CRLF \o <<"0">> \o CRLF
              \o <<"y", ":", "x">> \o CRLF \o CRLF],
    [for |-> "GET", ends |-> "close", body |-> <<"a", "b", "c">>,
     text |-> Line \o <<"x", ":", "a", "CR", "LF", "SP", "b">> \o CRLF \o <<"x", ":", "c">> \o CRLF
              \o CRLF \o <<"a", "b", "c">>],
    [for |-> "GET", ends |-> "length", body |-> <<>>,
     text |-> <<"http", "/", "1.1", "SP", "204", "SP", "ok", "CR", "LF">> \o CRLF],
    [for |-> "HEAD", ends |-> "length", body |-> <<>>,
     text |-> Line \o Length("3") \o CRLF],
    [for |-> "PUT", ends |-> "length", body |-> <<"QUOTE", "a", "CR">>,
     text |-> Line \o Length("3") \o CRLF \o <<"QUOTE", "a", "CR">>]}

MCAsks == {[method |-> "GET", url |-> <<"/", "a">>, body |-> <<>>, len |-> "none"],
           [method |-> "HEAD", url |-> <<"/", "a">>, body |-> <<>>, len |-> "none"],
           [method |-> "PUT", url |-> <<"/", "b">>, body |-> <<"a", "b">>, len |-> "length"],
           [method |-> "PUT", url |-> <<"/", "b">>, body |-> <<"a">>, len |-> "close"]}

MCChunkedAsks == {[method |-> "PUT", url |-> <<"/", "b">>, body |-> <<"2", "b">>, len |-> "chunked"]}

-----------------------------------------------------------------------------
(* Two root devices of one family: one with an embedded device and a       *)
(* service of version 2, one whose type name begins with that of the other *)
(* and that has a device without UDN; a third one of the other family.     *)

MCDoc ==
  <<<<[udn |-> <<"u1">>, type |-> <<<<"tv">>, 2>>, services |-> {<<<<"ctl">>, 2>>}],
      [udn |-> <<"u2">>, type |-> <<<<"box">>, 1>>, services |-> {}]>>,
    <<[udn |-> <<"u3">>, type |-> <<<<"tv", "set">>, 1>>, services |-> {<<<<"ctl">>, 1>>}],
      [udn |-> <<>>, type |-> <<<<"box">>, 1>>, services |-> {<<<<"ctl">>, 1>>}]>>,
    <<[udn |-> <<"u4">>, type |-> <<<<"tv">>, 1>>, services |-> {}]>>>>

\* The first device is of version 10.
MCDocTen == [MCDoc EXCEPT ![1][1].type = <<<<"tv">>, 10>>]

MCDeviceAf == <<"4", "4", "6">>

MCTargets ==
  {All, RootDev, Udn(<<"u2">>), Type("device", <<<<"tv">>, 1>>), Type("service", <<<<"ctl">>, 2>>)}

-----------------------------------------------------------------------------

MCInit ==
    /\ ServerInit /\ H!Init /\ Init
    /\ scene \in {"server", "exchange", "devices", "search"}
    /\ scene # "server" => taken = {}

MCNext ==
    /\ scene' = scene
    /\ \/ scene = "server" /\ ServerNext /\ UNCHANGED <<httpVars, vars>>
       \/ scene = "exchange" /\ H!Next /\ UNCHANGED <<serverVars, vars>>
       \/ /\ \/ scene = "devices" /\ DeviceNext
             \/ scene = "search" /\ SearchNext
             \/ scene \in {"devices", "search"} /\ AnswerNext
          /\ UNCHANGED <<serverVars, httpVars>>

\* Where a part stays as it began, nothing that its fairness asks for is enabled.
MCSpec == /\ MCInit /\ [][MCNext]_<<scene, serverVars, httpVars, vars>>
          /\ Fairness /\ H!Fairness /\ SearchFairness

\* HttpMessages: the pieces in which a message comes make no difference to what
\* parser_append finds in it.
PiecesAgree == H!PiecesAgree

\* HttpMessages: http_RecvMessage reads the request the client made, and
\* http_ReadHttpResponse gives the body the server sent.
ExchangeRight == H!ExchangeRight

\* HttpMessages: a call of the client returns, whatever the server does.
CallEnds == H!CallEnds
=============================================================================
