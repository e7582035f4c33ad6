-------------------------------- MODULE MCWeb --------------------------------
(***************************************************************************)
(* The web server with a few documents, and the URL operators on every     *)
(* small text: `probe' is a text, or a base and a reference, that is only  *)
(* looked at.                                                              *)
(***************************************************************************)
EXTENDS WebServer

VARIABLE probe

NoProbe == [kind |-> "none"]

A    == <<"/", "a", ".", "html">>
Dir  == <<"/", "b">>
Index == <<"/", "b", "/", "index", ".", "html">>
V    == <<"/", "v", "/", "a">>
Desc == <<"/", "d">>
Desc2 == <<"/", "b", "/", "d">>

MCPaths == {A, Index}
MCVPaths == {V}
MCDirs == {Dir}
MCVDirs == {<<"v">>, <<"/", "v", "/">>}
MCContents == {<<1, 2, 3>>, <<4, 5>>, NoFile}
MCDirLists == {<<>>, <<<<"/", "v">>>>}
MCDescs == {[base |-> NoText, alias |-> <<"d">>],
            [base |-> <<"http", ":", "/", "/", "host", "/", "b">>, alias |-> Desc]}

Ask(method, path) == [method |-> method, path |-> path, range |-> [kind |-> "none"], te |-> FALSE,
                      minor |-> 1, body |-> <<>>]
Part(kind, f, l) == [Ask("GET", A) EXCEPT !.range = [kind |-> kind, first |-> f, last |-> l]]

\* "/v/../a.html" with the dots escaped.
Round == <<"/", "v", "/", "%", "2E", "%", "2E", "/", "a", ".", "html">>

OneRequest ==
    {Ask("GET", Desc2), Ask("GET", Dir), Ask("GET", Round), Ask("GET", V), Ask("GET", <<"b">>),
     [Ask("GET", V) EXCEPT !.minor = 0],
     [Ask("POST", V) EXCEPT !.body = <<7, 8, 9>>],
     [Ask("GET", V) EXCEPT !.range = [kind |-> "from", first |-> 0, last |-> -1]],
     Part("from-to", 1, 7), Part("from-to", 0, 2), Part("from", 2, -1), Part("suffix", -1, 2),
     Part("suffix", -1, 9), Part("from-to", 2, 0), Part("bad", -1, -1)}

MCRequests == {1 :> r @@ 2 :> NoRequest : r \in OneRequest}
              \cup {1 :> r @@ 2 :> Ask("GET", Desc) :
                      r \in {Ask("GET", Desc), Ask("HEAD", Desc)}}

\* "/../a.html": the ".." goes past the root.
MCPastRoot == {1 :> Ask("GET", <<"/", ".", ".">> \o A) @@ 2 :> NoRequest}

MCFiles == {(A :> <<1, 2, 3, 4>> @@ Index :> <<4, 5>> @@ V :> <<1, 2, 3>>)}

-----------------------------------------------------------------------------
(* Texts *)

Words(set, n) == UNION {[1 .. k -> set] : k \in 0 .. n}

PathTexts == {<<"/">> \o s : s \in Words({"a", ".", "/", "?"}, 5)}
Rels  == {s \o f : s \in Words({"g", ".", "/"}, 4), f \in {<<>>, <<"?", "y">>, <<"#", "s">>, <<"?", "y", "/", "#", "s">>}}
Bases == {[path |-> p, query |-> q] : p \in {<<"/">>, <<"/", "b">>, <<"/", "b", "/", "c">>, <<"/", "b", "/">>},
                                      q \in {<<>>, <<"?", "q", "/", "y">>}}

Probes == {[kind |-> "path", text |-> s] : s \in PathTexts}
          \cup {[kind |-> "escape", text |-> s, which |-> p] :
                  s \in Words({"a", ".", "/", "%"}, 3), p \in SUBSET (1 .. 3)}
          \cup {[kind |-> "rel", base |-> b, text |-> s] : b \in Bases, s \in Rels}

BaseText(b) == <<"http", ":", "/", "/", "host">> \o b.path \o b.query

\* The segments of a path, and what is left of them when dots are followed.
Cuts(s) == {0} \cup {k \in DOMAIN s : s[k] = "/"} \cup {Len(s) + 1}
Segments(s) ==
    LET c == SetToSortSeq(Cuts(s), <)
    IN [k \in 1 .. Len(c) - 1 |-> SubSeq(s, c[k] + 1, c[k+1] - 1)]
Stack(segs) ==
    LET st[k \in 0 .. Len(segs)] ==
          IF k = 0 THEN <<>>
          ELSE CASE segs[k] = <<".">> -> st[k-1]
                 [] segs[k] = <<".", ".">> -> IF st[k-1] = <<>> THEN <<>> ELSE Front(st[k-1])
                 [] OTHER -> Append(st[k-1], segs[k])
    IN st[Len(segs)]
Joined(segs) ==
    LET j[k \in 0 .. Len(segs)] == IF k = 0 THEN <<>> ELSE j[k-1] \o <<"/">> \o segs[k]
    IN j[Len(segs)]

\* A path that starts with a slash, with its dots followed: a last "." or ".."
\* leaves a slash.
Followed(p) ==
    LET segs == Segments(Tail(p))
        stack == Stack(segs)
    IN Joined(IF Last(segs) \in {<<".">>, <<".", ".">>} THEN Append(stack, <<>>) ELSE stack)

\* A text in two at the first of the characters in `marks'.
Head1(s, marks) == SubSeq(s, 1, Span(1, {k \in DOMAIN s : s[k] \notin marks}))
Tail1(s, marks) == From(s, Len(Head1(s, marks)) + 1)

\* What section 5.2 of RFC 3986 makes of a reference without authority.
Target(b, rel) ==
    LET path == Head1(rel, {"?", "#"})
        query == Head1(Tail1(rel, {"?", "#"}), {"#"})
        frag == Tail1(rel, {"#"})
        up == SubSeq(b.path, 1, CHOOSE k \in DOMAIN b.path : b.path[k] = "/" /\ \A j \in DOMAIN b.path : b.path[j] = "/" => j <= k)
    IN <<"http", ":", "/", "/", "host">>
       \o (IF path = <<>> THEN b.path \o (IF query = <<>> THEN b.query ELSE query)
           ELSE (IF path[1] = "/" THEN Followed(path) ELSE Followed(up \o path)) \o query)
       \o frag

Code(x) == CHOOSE h \in DOMAIN Hex : Hex[h] = x
Escaped(s, which) ==
    LET e[k \in 0 .. Len(s)] ==
          IF k = 0 THEN <<>>
          ELSE e[k-1] \o IF k \in which \/ s[k] = "%" THEN <<"%", Code(s[k])>> ELSE <<s[k]>>
    IN e[Len(s)]

\* On every small text: remove_dots follows the dots of the path, leaves none
\* and does not touch the query; remove_escaped_chars undoes any escaping and
\* undoes it once; resolve_rel_url gives what RFC 3986 says for a reference,
\* and get_hoststr the host of the base for it.
\* A reference that starts with "//" is one to another host and has to
\* resolve; one that starts with "?" is left out for a base without a query,
\* where the code follows RFC 2396.  uri.h says otherwise of dots that go past the
\* root, an error (see PastRootRefused), and of ".." in a reference, "NOT implemented".
TextsRight ==
    CASE probe.kind = "path" ->
           remove_dots(probe.text) = Followed(Head1(probe.text, {"?", "#"})) \o Tail1(probe.text, {"?", "#"})
      [] probe.kind = "escape" ->
           remove_escaped_chars(Escaped(probe.text, probe.which)) = probe.text
      [] probe.kind = "rel" ->
           LET got == resolve_rel_url(BaseText(probe.base), probe.text)
           IN IF Looking(probe.text, 1, <<"/", "/">>) THEN got = NoText
              ELSE /\ \/ got = Target(probe.base, probe.text)
                      \/ Looking(probe.text, 1, <<"?">>) /\ probe.base.query = <<>>
                   /\ get_hoststr(got) = <<"host">>
      [] OTHER -> TRUE

\* "If a '..' can not be resolved (i.e. the .. would go past the root of the path) an
\* error is returned", as uri.h says of remove_dots, which process_request answers with
\* 403: a request for a path whose dots go past the root never gets a document.
\* The code follows RFC 3986 instead, where such dots are dropped, as TextsRight says.
PastRoot(p) ==
    LET segs == Segments(Tail(Head1(p, {"?", "#"})))
        Ups(n)   == {k \in 1 .. n : segs[k] = <<".", ".">>}
        Downs(n) == {k \in 1 .. n : segs[k] \notin {<<>>, <<".">>, <<".", ".">>}}
    IN \E n \in DOMAIN segs : Cardinality(Ups(n)) > Cardinality(Downs(n))
PastRootRefused ==
    \A i \in Workers :
      w[i].pc = "done" /\ PastRoot(remove_escaped_chars(w[i].req.path)) => w[i].code # 200

-----------------------------------------------------------------------------

mcvars == <<vars, probe>>

MCInit == Init /\ probe \in {NoProbe} \cup (IF pVirtualDirList = <<>> /\ w[1].req = Ask("GET", V) THEN Probes ELSE {})

MCNext == probe = NoProbe /\ Next /\ UNCHANGED probe

MCSpec == MCInit /\ [][MCNext]_mcvars
=============================================================================
