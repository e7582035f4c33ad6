--------------------------------- MODULE Uri ---------------------------------
(***************************************************************************)
(* Uniform resource identifiers: genlib/net/uri/uri.c, the URL helpers of  *)
(* genlib/net/http/httpreadwrite.c and urlconfig/urlconfig.c.              *)
(*                                                                         *)
(* A text is a sequence of lexemes.  "/", ".", ":" and the like are one    *)
(* character; a name or a number is one lexeme; the two hexadecimal digits *)
(* after a "%" are one lexeme.                                             *)
(***************************************************************************)
EXTENDS Integers, Sequences, SequencesExt, FiniteSets

NoText == <<"none">>

Schemes == {"http", "https"}
Hosts   == {"host", "lost", "ip4"}     \* "lost" is a name nobody resolves
Ports   == "80" :> 80 @@ "8080" :> 8080 @@ "0" :> 0 @@ "65616" :> 65616
Hex     == "2E" :> "." @@ "2F" :> "/" @@ "25" :> "%" @@ "61" :> "a"
Letters == {"a", "b", "c", "d", "g", "q", "s", "v", "y", "index"} \cup Schemes \cup Hosts

-----------------------------------------------------------------------------
(* Characters *)

is_alnum(x)      == x \in Letters \cup DOMAIN Ports \cup DOMAIN Hex
is_reserved(x)   == x \in {";", "/", "?", ":", "@", "&", "=", "+", "$", ",", "{", "}"}
is_mark(x)       == x \in {"-", "_", ".", "!", "~", "*", "'", "(", ")"}
is_unreserved(x) == is_alnum(x) \/ is_mark(x)
is_escaped(s, i) == s[i] = "%" /\ i < Len(s) /\ s[i+1] \in DOMAIN Hex

From(s, i) == SubSeq(s, i, Len(s))

\* The number of positions from i on that are in `good'.
Span(i, good) == CHOOSE n \in 0 .. Cardinality(good) : i .. i + n - 1 \subseteq good /\ i + n \notin good

-----------------------------------------------------------------------------
(* Escapes and dots *)

replace_escaped(s, i) == SubSeq(s, 1, i - 1) \o <<Hex[s[i+1]]>> \o From(s, i + 2)

Text == Seq(STRING)

remove_escaped_chars(text) ==
    LET Unescape[s \in Text, i \in Nat] ==
          IF i > Len(s) THEN s
          ELSE Unescape[IF is_escaped(s, i) THEN replace_escaped(s, i) ELSE s, i + 1]
    IN Unescape[text, 1]

is_end_path(s, i) == i > Len(s) \/ s[i] \in {"?", "#"}

Looking(s, i, p) == SubSeq(s, i, IF i + Len(p) - 1 < Len(s) THEN i + Len(p) - 1 ELSE Len(s)) = p

\* Mutant of Up: the slash before the segment is kept.
UpKeepsSlash(out) ==
    LET slashes == {i \in DOMAIN out : out[i] = "/"}
    IN IF slashes = {} THEN <<>> ELSE SubSeq(out, 1, CHOOSE i \in slashes : \A j \in slashes : j <= i)

\* The output without its last segment and the slash before it.
Up(out) ==
    LET slashes == {i \in DOMAIN out : out[i] = "/"}
    IN IF slashes = {} THEN <<>>
       ELSE SubSeq(out, 1, (CHOOSE i \in slashes : \A j \in slashes : j <= i) - 1)

\* s is the text, from i on not yet read, and out what was kept of the rest.
remove_dots(text) ==
    LET Dots[s \in Text, i \in Nat, out \in Text] ==
          IF is_end_path(s, i) THEN out \o From(s, i)
          ELSE CASE Looking(s, i, <<".", "/">>)                           -> Dots[s, i + 2, out]
                 [] Looking(s, i, <<".", ".", "/">>)                      -> Dots[s, i + 3, out]
                 [] Looking(s, i, <<"/", ".", "/">>)                      -> Dots[s, i + 2, out]
                 [] Looking(s, i, <<"/", ".">>) /\ is_end_path(s, i + 2)  ->
                      Dots[[s EXCEPT ![i+1] = "/"], i + 1, out]
                 [] Looking(s, i, <<"/", ".", ".", "/">>)                 -> Dots[s, i + 3, Up(out)]
                 [] Looking(s, i, <<"/", ".", ".">>) /\ is_end_path(s, i + 3) ->
                      Dots[[s EXCEPT ![i+2] = "/"], i + 2, Up(out)]
                 [] s[i] = "." /\ is_end_path(s, i + 1)                   -> Dots[s, i + 1, out]
                 [] Looking(s, i, <<".", ".">>) /\ is_end_path(s, i + 2)  -> Dots[s, i + 2, out]
                 [] OTHER ->
                      LET lead == IF s[i] = "/" THEN 1 ELSE 0
                          n == lead + Span(i + lead, {k \in DOMAIN s : s[k] # "/" /\ ~is_end_path(s, k)})
                      IN Dots[s, i + n, out \o SubSeq(s, i, i + n - 1)]
    IN Dots[text, 1, <<>>]

-----------------------------------------------------------------------------
(* Parsing *)

parse_uric(s, i) ==
    Span(i, {k \in DOMAIN s : is_unreserved(s[k]) \/ is_reserved(s[k]) \/ is_escaped(s, k)})

\* The length of the scheme, 0 when there is none.
parse_scheme(s) ==
    IF s = <<>> \/ s[1] \notin Letters THEN 0
    ELSE LET Ended(n) == IF n < Len(s) /\ s[n+1] = ":" THEN n ELSE 0
         IN Ended(Span(1, {k \in DOMAIN s : is_alnum(s[k]) \/ s[k] \in {"+", "-", "."}}))

NoHost == [size |-> 0, host |-> NoText, port |-> 0]

\* Name resolution (getaddrinfo, inet_pton).
Resolves(name) == name \in {<<"host">>, <<"ip4">>}

\* The authority at position i, its name n lexemes long; port 0 stands for an
\* error.  A port is kept in 16 bits.
HostPort(s, i, n, defaultPort) ==
    LET Made(has, num) ==
          [size |-> n + has + num, host |-> SubSeq(s, i, i + n - 1),
           port |-> IF has = 0 THEN defaultPort
                    ELSE IF num = 0 THEN 0 ELSE Ports[s[i+n+1]] % 65536]
        Checked(h) == IF Resolves(h.host) /\ h.port # 0 THEN h ELSE NoHost
    IN Checked(IF i + n > Len(s) \/ s[i+n] # ":" THEN Made(0, 0)
               ELSE Made(1, IF i + n < Len(s) /\ s[i+n+1] \in DOMAIN Ports THEN 1 ELSE 0))

parse_hostport(s, i, defaultPort) ==
    HostPort(s, i, Span(i, {k \in DOMAIN s : is_alnum(s[k]) \/ s[k] \in {".", "-"}}), defaultPort)

BadUri == [ok |-> FALSE]

\* Scheme of length sch, authority hp, then n lexemes of path and query from
\* `path' on.
ParsedPath(s, sch, hp, path, n) ==
    [ok        |-> TRUE,
     type      |-> IF sch > 0 THEN "ABSOLUTE" ELSE "RELATIVE",
     scheme    |-> SubSeq(s, 1, sch),
     hostport  |-> SubSeq(s, path - hp.size, path - 1),
     port      |-> hp.port,
     pathquery |-> SubSeq(s, path, path + n - 1),
     path_type |-> IF n > 0 /\ s[path] = "/" THEN "ABS_PATH"
                   ELSE IF sch > 0 THEN "OPAQUE_PART" ELSE "REL_PATH",
     fragment  |-> IF path + n <= Len(s) /\ s[path+n] = "#"
                   THEN SubSeq(s, path + n + 1, path + n + parse_uric(s, path + n + 1)) ELSE <<>>]

parse_uri(s) ==
    LET Rest(sch, hp, path) == ParsedPath(s, sch, hp, path, parse_uric(s, path))
        Auth(sch, at, hp) == IF hp = NoHost THEN BadUri ELSE Rest(sch, hp, at + hp.size)
        Start(sch, at) ==
          IF Looking(s, at, <<"/", "/">>)
          THEN Auth(sch, at + 2, parse_hostport(s, at + 2, IF s[1] = "https" THEN 443 ELSE 80))
          ELSE Rest(sch, NoHost, at)
        Scheme(sch) == Start(sch, IF sch > 0 THEN sch + 2 ELSE 1)
    IN Scheme(parse_scheme(s))

\* http_FixStrUrl: the URL of a request must be http, with a host.
http_FixUrl(s) ==
    LET Fix(u) == IF ~u.ok \/ u.scheme # <<"http">> \/ u.hostport = <<>> THEN BadUri
                  ELSE [u EXCEPT !.pathquery = IF @ = <<>> THEN <<"/">> ELSE @]
    IN Fix(parse_uri(s))

\* The value of the Host header: what is between "//" and the next slash.
get_hoststr(s) ==
    LET hits  == {i \in 1 .. Len(s) - 1 : s[i] = "/" /\ s[i+1] = "/"}
        start == (CHOOSE i \in hits : \A j \in hits : i <= j) + 2
    IN IF hits = {} THEN NoText
       ELSE SubSeq(s, start, start - 1 + Span(start, {k \in DOMAIN s : s[k] # "/"}))

-----------------------------------------------------------------------------
(* References *)

\* How much of the base's path and query stands before the reference: up to
\* and with the last slash before the query; up to the query when the
\* reference is a query.
Prefix(bpq, rpq) ==
    LET quest   == {i \in DOMAIN bpq : bpq[i] = "?"}
        end     == IF quest = {} THEN Len(bpq) ELSE (CHOOSE i \in quest : \A j \in quest : i <= j) - 1
        slashes == {i \in 1 .. end : bpq[i] = "/"}
    IN IF quest # {} /\ rpq[1] = "?" THEN end
       ELSE IF slashes = {} THEN 1 ELSE CHOOSE i \in slashes : \A j \in slashes : j <= i

Fragment(b, r) == IF r.fragment # <<>> THEN <<"#">> \o r.fragment
                  ELSE IF b.fragment # <<>> THEN <<"#">> \o b.fragment ELSE <<>>

\* The path of the reference r, whose text is rel, from the base b.
MergedPath(b, r, rel) ==
    IF r.path_type = "ABS_PATH" THEN rel
    ELSE IF b.pathquery = <<>> THEN <<"/">> \o rel
    ELSE IF r.pathquery = <<>> THEN b.pathquery \o Fragment(b, r)
    ELSE SubSeq(b.pathquery, 1, Prefix(b.pathquery, r.pathquery)) \o r.pathquery \o Fragment(b, r)

resolve_rel_url(base, rel) ==
    LET With(b, r) ==
          IF ~r.ok THEN NoText
          ELSE IF r.type = "ABSOLUTE" THEN rel
          ELSE IF ~b.ok \/ b.type # "ABSOLUTE" THEN NoText
          ELSE IF rel = <<>> THEN base
          ELSE IF r.hostport # <<>> THEN b.scheme \o <<":">> \o rel
          ELSE b.scheme \o <<":">>
               \o (IF b.hostport # <<>> THEN <<"/", "/">> \o b.hostport ELSE <<>>)
               \o remove_dots(MergedPath(b, r, rel))
    IN IF base = NoText THEN rel ELSE With(parse_uri(base), parse_uri(rel))

-----------------------------------------------------------------------------
(* The URL of a device's description *)

addrToString(port) == <<"ip4", ":", port>>

calc_alias(alias, rootPath) ==
    rootPath
    \o (IF rootPath = <<>> \/ Last(rootPath) # "/" THEN <<"/">> ELSE <<>>)
    \o (IF alias[1] = "/" THEN Tail(alias) ELSE alias)

calc_descURL(ipPort, alias) == <<"http", ":", "/", "/">> \o ipPort \o alias

\* The path of URLBase, or an error.  The document gets a URLBase when it has
\* none, and otherwise the server's address in the one it has.
config_description_doc(urlbase, ipPort) ==
    LET Ended(url) == IF Last(url) = "/" THEN url ELSE url \o <<"/">>
        With(u, root) ==
          [ok |-> TRUE, root |-> root, urlbase |-> Ended(u.scheme \o <<":", "/", "/">> \o ipPort \o root)]
        Checked(u) ==
          IF ~u.ok \/ u.type # "ABSOLUTE" THEN BadUri
          ELSE With(u, (IF u.path_type = "ABS_PATH" THEN <<>> ELSE <<"/">>) \o u.pathquery)
    IN IF urlbase = NoText
       THEN [ok |-> TRUE, root |-> <<"/">>, urlbase |-> <<"http", ":", "/", "/">> \o ipPort \o <<"/">>]
       ELSE Checked(parse_uri(urlbase))

\* The name under which the web server keeps the description, and the URL that
\* is advertised for it.
configure_urlbase(urlbase, alias, port) ==
    LET Named(c, name) == [ok |-> TRUE, name |-> name, urlbase |-> c.urlbase,
                           descURL |-> calc_descURL(addrToString(port), name)]
        With(c) == IF c.ok THEN Named(c, calc_alias(alias, c.root)) ELSE BadUri
    IN With(config_description_doc(urlbase, addrToString(port)))
=============================================================================
