----------------------------- MODULE HttpParser -----------------------------
(***************************************************************************)
(* The HTTP parser (httpparser.c) as operators on a parser record.  A text *)
(* is a sequence of characters.  The letters of a word do not matter, only *)
(* where it may be cut in two: so a word is one or two characters of Word, *)
(* and the tables below say which words are methods, headers and numbers.  *)
(*                                                                         *)
(* Every matcher has a status: OK, NO_MATCH, FAILURE, or INCOMPLETE when   *)
(* the text ends before it can tell.  The parser keeps what has come so    *)
(* far and tries again from the last place it was sure of.                 *)
(***************************************************************************)
EXTENDS Integers, Sequences, FiniteSets

Digits == {"0", "1", "2", "3"}

DigitValue == [d \in Digits |-> CASE d = "0" -> 0 [] d = "1" -> 1 [] d = "2" -> 2 [] d = "3" -> 3]

\* Word characters; QUOTE, SP, CR, LF, separators; all else is no character.
Word == Digits \cup {"get", "head", "post", "not", "ify", "msearch", "put", "http",
                     "1.1", "1.0", "200", "204", "ok", "con", "len", "te", "ch", "unked",
                     "soapaction", "x", "y", "a", "b", "c"}

Separators == {":", "/", ";", ","}

MethodTable ==
    [w \in {<<"get">>, <<"head">>, <<"post">>, <<"not", "ify">>, <<"msearch">>, <<"put">>} |->
        CASE w = <<"get">>  -> "GET"     [] w = <<"head">> -> "HEAD"
          [] w = <<"post">> -> "POST"    [] w = <<"not", "ify">> -> "NOTIFY"
          [] w = <<"put">>  -> "PUT"     [] w = <<"msearch">> -> "MSEARCH"]

HeaderNames ==
    [w \in {<<"con", "len">>, <<"te">>, <<"soapaction">>} |->
        CASE w = <<"con", "len">> -> "CONTENT_LENGTH"
          [] w = <<"te">> -> "TRANSFER_ENCODING"
          [] w = <<"soapaction">> -> "SOAPACTION"]

\* The value of a negative result that is stored in an unsigned int.
Huge == 2147483647

(***************************************************************************)
(* The scanner.  c is the number of characters before the cursor.          *)
(***************************************************************************)

\* How far the characters of K go from the cursor on.
RunEnd(b, c, K) ==
    CHOOSE e \in c..Len(b) : /\ \A i \in c+1..e : b[i] \in K
                             /\ e = Len(b) \/ b[e+1] \notin K

Tok(s, t, n) == [s |-> s, t |-> t, n |-> n]

Incomplete == Tok("INCOMPLETE", "none", 0)

\* scanner_get_token
GetToken(b, c, whole) ==
    LET word == RunEnd(b, c, Word)
        space == RunEnd(b, c, {"SP"})
        quotes == {i \in c+2..Len(b) : b[i] = "QUOTE"}
        RunTok(t, e) == IF ~whole /\ e = Len(b) THEN Incomplete ELSE Tok("OK", t, e - c)
    IN CASE c = Len(b) -> Incomplete
         [] c < Len(b) /\ b[c+1] \in Word -> RunTok("word", word)
         [] c < Len(b) /\ b[c+1] = "SP" -> RunTok("space", space)
         [] c < Len(b) /\ b[c+1] = "CR" ->
              IF c + 1 = Len(b) THEN Incomplete
              ELSE IF b[c+2] = "LF" THEN Tok("OK", "crlf", 2) ELSE Tok("OK", "ctrl", 1)
         [] c < Len(b) /\ b[c+1] = "LF" -> Tok("OK", "crlf", 1)
         [] c < Len(b) /\ b[c+1] = "QUOTE" ->
              IF quotes = {} THEN Incomplete
              ELSE Tok("OK", "quoted", (CHOOSE i \in quotes : \A j \in quotes : i <= j) - c)
         [] c < Len(b) /\ b[c+1] \in Separators -> Tok("OK", "separator", 1)
         [] OTHER -> Tok("FAILURE", "none", 0)

Slice(b, c, e) == SubSeq(b, c + 1, e)

\* The result of a matcher: its status, the cursor after it, what it matched.
Res(s, c, v) == [s |-> s, c |-> c, v |-> v]

\* The tokens from c on as long as they are of the types T: the cursor after
\* the last of them, and the status of the scanner there.  k is the token at c.
RECURSIVE TokensFrom(_, _, _, _, _)
TokensFrom(b, c, k, T, whole) ==
    IF k.s = "OK" /\ k.t \in T
    THEN TokensFrom(b, c + k.n, GetToken(b, c + k.n, whole), T, whole)
    ELSE [c |-> c, k |-> k]

Tokens(b, c, T, whole) == TokensFrom(b, c, GetToken(b, c, whole), T, whole)

NotSpace == {"word", "quoted", "separator", "ctrl"}

\* skip_blank_lines
SkipBlankLines(b, c) ==
    LET Is(t) == Res(t.k.s, t.c, <<>>) IN Is(Tokens(b, c, {"space", "crlf"}, FALSE))

\* skip_lws: white space, also at the start of a continued line.  t is the
\* token at c and u the one after it.
RECURSIVE SkipLwsFrom(_, _, _, _, _)
SkipLwsFrom(b, c, t, u, whole) ==
    LET crlf == t.s = "OK" /\ t.t = "crlf"
        n == IF t.s = "OK" /\ t.t = "space" THEN t.n
             ELSE IF crlf /\ u.s = "OK" /\ u.t = "space" THEN t.n + u.n ELSE 0
        end == IF crlf THEN u.s ELSE t.s
        Again(x) == SkipLwsFrom(b, c + n, x, GetToken(b, c + n + x.n, whole), whole)
    IN IF n > 0 THEN Again(GetToken(b, c + n, whole))
       ELSE Res(IF end = "INCOMPLETE" /\ whole THEN "OK" ELSE end, c, <<>>)

SkipLws(b, c, whole) ==
    LET From(t) == SkipLwsFrom(b, c, t, GetToken(b, c + t.n, whole), whole)
    IN From(GetToken(b, c, whole))

\* match_non_ws_string
MatchNonWs(b, c, whole) ==
    LET Is(t) == IF t.k.s = "OK" \/ (t.k.s = "INCOMPLETE" /\ whole)
                 THEN Res(IF t.c = c THEN "NO_MATCH" ELSE "OK", t.c, Slice(b, c, t.c))
                 ELSE Res(t.k.s, c, <<>>)
    IN Is(Tokens(b, c, NotSpace, whole))

\* read_until_crlf
ReadUntilCrlf(b, c, whole) ==
    LET Is(t) == Res(t.k.s, t.c, Slice(b, c, t.c))
    IN Is(Tokens(b, c, NotSpace \cup {"space"}, whole))

Trimmed(v) ==
    LET n == CHOOSE k \in 0..Len(v) :
               /\ \A i \in k+1..Len(v) : v[i] \in {"SP", "CR", "LF"}
               /\ k = 0 \/ v[k] \notin {"SP", "CR", "LF"}
    IN SubSeq(v, 1, n)

\* match_raw_value: up to a line end that no white space follows.  To see
\* that, one more token is needed.  at is where the line end is, or -1.
RECURSIVE RawEnd(_, _, _, _, _)
RawEnd(b, c, t, at, whole) ==
    LET next == IF at < 0 /\ t.t = "crlf" THEN c ELSE -1 IN
    IF t.s # "OK" THEN Res(t.s, c, <<>>)
    ELSE IF at >= 0 /\ t.t # "space" THEN Res("OK", at, <<>>)
    ELSE RawEnd(b, c + t.n, GetToken(b, c + t.n, whole), next, whole)

MatchRawValue(b, c, whole) ==
    LET Is(e) == IF e.s = "OK" THEN Res("OK", e.c, Trimmed(Slice(b, c, e.c))) ELSE Res(e.s, c, <<>>)
    IN Is(RawEnd(b, c, GetToken(b, c, whole), -1, whole))

Number(v, base) ==
    LET f[i \in 0..Len(v)] == IF i = 0 THEN 0 ELSE base * f[i-1] + DigitValue[v[i]]
    IN IF v # <<>> /\ \A i \in DOMAIN v : v[i] \in Digits THEN f[Len(v)] ELSE -1

\* match_int
MatchInt(v, base) == Number(v, base) >= 0

\* match_char
MatchChar(b, c, x) ==
    IF c >= Len(b) THEN Res("INCOMPLETE", c, <<>>)
    ELSE Res(IF b[c+1] = x THEN "OK" ELSE "NO_MATCH", c + 1, <<>>)

\* The directives of vfmatch that take one token, t.
TokenDirective(b, c, d, t) ==
    LET type == CASE d \in {"%s", "%d", "%x"} -> "word" [] d = "%q" -> "quoted"
                  [] d = "%c" -> "crlf" [] d \in {"tab", "%w"} -> "space"
        v == Slice(b, c, c + t.n)
    IN IF t.s # "OK" THEN Res(t.s, c, <<>>)
       ELSE IF t.t # type THEN Res(IF d = "%w" THEN "OK" ELSE "NO_MATCH", c, <<>>)
       ELSE IF (d = "%d" /\ ~MatchInt(v, 10)) \/ (d = "%x" /\ ~MatchInt(v, 16))
       THEN Res("NO_MATCH", c, <<>>)
       ELSE Res("OK", c + t.n, v)

\* One directive of vfmatch.
Directive(b, c, d, whole) ==
    CASE d \in {"%s", "%q", "%c", "tab", "%d", "%x", "%w"} ->
           TokenDirective(b, c, d, GetToken(b, c, whole))
      [] d = "%S" -> MatchNonWs(b, c, whole)
      [] d = "%L" -> ReadUntilCrlf(b, c, whole)
      [] d = "%R" -> MatchRawValue(b, c, whole)
      [] d = "%0" -> Res(IF c = Len(b) THEN "OK" ELSE "NO_MATCH", c, <<>>)
      [] d = "lws" -> SkipLws(b, c, whole)
      [] OTHER -> MatchChar(b, c, d)

\* vfmatch: the directives one after another.  When one fails the cursor is
\* put back; v has what each of them matched.
RECURSIVE MatchFrom(_, _, _, _, _)
MatchFrom(b, last, fmt, v, whole) ==
    IF last.s # "OK" \/ fmt = <<>> THEN Res(last.s, last.c, Append(v, last.v))
    ELSE MatchFrom(b, Directive(b, last.c, Head(fmt), whole), Tail(fmt), Append(v, last.v), whole)

Match(b, c, fmt, whole) ==
    LET PutBack(e) == IF e.s = "OK" THEN Res("OK", e.c, Tail(e.v)) ELSE Res(e.s, c, <<>>)
    IN PutBack(MatchFrom(b, Res("OK", c, <<>>), fmt, <<>>, whole))

(***************************************************************************)
(* The parser                                                              *)
(***************************************************************************)

\* http_parser_t: what has come (buf), the cursor, the place in the message,
\* how the entity is read, the headers, and the status of the last attempt.
ParserInit(request, reqMethod) ==
    [buf |-> <<>>, c |-> 0, pos |-> "line", ent |-> "determine", hdrs |-> <<>>,
     request |-> request, method |-> "UNKNOWN", url |-> <<>>, reqMethod |-> reqMethod,
     status |-> "none", clen |-> 0, chunk |-> 0, start |-> 0, elen |-> 0, discarded |-> 0,
     err |-> "BAD_REQUEST", hack |-> FALSE, s |-> "INCOMPLETE"]

Fail(p, err) == [p EXCEPT !.s = "FAILURE", !.err = err]

\* Several slashes at the start of a path count as one.
OneSlash(url) ==
    LET n == RunEnd(url, 0, {"/"}) IN IF n > 1 THEN SubSeq(url, n, Len(url)) ELSE url

\* The path alone, without a version: only GET may do that.
ShortLine(p, m) ==
    CASE m.v[1] \notin DOMAIN MethodTable -> Fail([p EXCEPT !.c = m.c], "NOT_IMPLEMENTED")
      [] m.v[1] \in DOMAIN MethodTable \ {<<"get">>} -> Fail([p EXCEPT !.c = m.c], "BAD_REQUEST")
      [] OTHER -> [p EXCEPT !.c = m.c, !.method = "SIMPLEGET", !.url = OneSlash(m.v[3]),
                            !.pos = "complete", !.s = "SUCCESS"]

FullLine(p, m) ==
    LET method == MethodTable[m.v[1]]
        version == m.v[9]
        q == [p EXCEPT !.c = m.c, !.url = OneSlash(m.v[3])]
    IN IF m.s # "OK" THEN [p EXCEPT !.s = m.s]
       ELSE IF m.v[1] \notin DOMAIN MethodTable THEN Fail(q, "NOT_IMPLEMENTED")
       ELSE IF version \notin {<<"1.1">>, <<"1.0">>} \/ (method = "MSEARCH" /\ version = <<"1.0">>)
       THEN Fail(q, "VERSION_NOT_SUPPORTED")
       ELSE [q EXCEPT !.method = method, !.pos = "headers", !.s = "OK"]

\* parser_parse_requestline: "GET path" without a version, or a full line.
RequestLine(p0) ==
    LET Line(p, short) ==
            IF short.s = "OK" THEN ShortLine(p, short)
            ELSE FullLine(p, Match(p.buf, p.c, <<"%s", "tab", "%S", "tab", "http", "%w", "/", "%w", "%L", "%c">>, FALSE))
        At(p) == Line(p, Match(p.buf, p.c, <<"%s", "tab", "%S", "%w", "%c">>, FALSE))
        After(skip) == IF skip.s # "OK" THEN [p0 EXCEPT !.c = skip.c, !.s = skip.s]
                       ELSE At([p0 EXCEPT !.c = skip.c])
    IN After(SkipBlankLines(p0.buf, p0.c))

\* parser_parse_responseline: a version, a number, white space, the reason.
ResponseLine(p0) ==
    LET Status(p, m, line) ==
            IF Len(line) >= 4 /\ line[1] \in {"1.1", "1.0"} /\ line[2] = "SP"
               /\ line[3] \in {"200", "204"} /\ line[4] = "SP"
            THEN [p EXCEPT !.c = m.c, !.status = line[3], !.pos = "headers", !.s = "OK"]
            ELSE [p EXCEPT !.c = m.c, !.s = "FAILURE"]
        Line(p, m) == IF m.s # "OK" THEN [p EXCEPT !.s = m.s] ELSE Status(p, m, m.v[5])
        At(p) == Line(p, Match(p.buf, p.c, <<"http", "%w", "/", "%w", "%L", "%c">>, FALSE))
        After(skip) == IF skip.s # "OK" THEN [p0 EXCEPT !.c = skip.c, !.s = skip.s]
                       ELSE At([p0 EXCEPT !.c = skip.c])
    IN After(SkipBlankLines(p0.buf, p0.c))

HeaderId(name) == IF name \in DOMAIN HeaderNames THEN HeaderNames[name] ELSE "UNKNOWN"

\* httpmsg_find_hdr, and httpmsg_find_hdr_str for a name not in the table.
FindHeader(hdrs, name) ==
    LET hits == {i \in DOMAIN hdrs : IF HeaderId(name) = "UNKNOWN" THEN hdrs[i].name = name
                                     ELSE hdrs[i].id = HeaderId(name)}
    IN IF hits = {} THEN 0 ELSE CHOOSE i \in hits : \A j \in hits : i <= j

\* A header that was there before gets the value added to its list.
AddHeader(hdrs, name, val) ==
    LET i == FindHeader(hdrs, name) IN
    IF i = 0
    THEN Append(hdrs, [id |-> HeaderId(name), name |-> name,
                       val |-> IF val = <<>> THEN <<"NUL">> ELSE val])
    ELSE IF val = <<>> THEN hdrs
    ELSE [hdrs EXCEPT ![i].val = @ \o <<",", "SP">> \o val]

\* Mutant of NamedHeader: the cursor is not put back when a header has not come whole.
NamedHeaderLost(p, name, m) ==
    IF m.s # "OK" THEN [p EXCEPT !.s = m.s, !.c = @ + Len(name)]
    ELSE [p EXCEPT !.c = m.c, !.hdrs = AddHeader(@, name, m.v[4]), !.s = "OK",
                   !.method = IF HeaderId(name) = "SOAPACTION" THEN "SOAPPOST" ELSE @]

\* A header is added when all of it has come, and looked at again otherwise.
\* A SOAPACTION header makes any method a SOAP call.
NamedHeader(p, name, m) ==
    IF m.s # "OK" THEN [p EXCEPT !.s = m.s]
    ELSE [p EXCEPT !.c = m.c, !.hdrs = AddHeader(@, name, m.v[4]), !.s = "OK",
                   !.method = IF HeaderId(name) = "SOAPACTION" THEN "SOAPPOST" ELSE @]

\* parser_parse_headers, one header.  A POST ends here: whoever handles the
\* request reads its body.
Header(p) ==
    LET At(t) ==
          CASE t.s # "OK" -> [p EXCEPT !.s = t.s]
            [] t.s = "OK" /\ t.t = "crlf" ->
                 IF p.request /\ p.method = "POST"
                 THEN [p EXCEPT !.c = @ + t.n, !.pos = "complete", !.s = "SUCCESS"]
                 ELSE [p EXCEPT !.c = @ + t.n, !.pos = "entity", !.s = "OK"]
            [] t.s = "OK" /\ t.t \notin {"crlf", "word"} -> [p EXCEPT !.c = @ + t.n, !.s = "FAILURE"]
            [] OTHER -> NamedHeader(p, Slice(p.buf, p.c, p.c + t.n),
                            Match(p.buf, p.c + t.n, <<"lws", ":", "lws", "%R", "%c">>, FALSE))
    IN At(GetToken(p.buf, p.c, FALSE))

Value(p, id) == LET hits == {i \in DOMAIN p.hdrs : p.hdrs[i].id = id}
                IN p.hdrs[CHOOSE i \in hits : \A j \in hits : i <= j].val

Has(p, id) == \E i \in DOMAIN p.hdrs : p.hdrs[i].id = id

\* raw_find_str
Contains(v, w) == \E i \in 0..Len(v) - Len(w) : SubSeq(v, i+1, i + Len(w)) = w

NoBody == {"HEAD", "GET", "SUBSCRIBE", "UNSUBSCRIBE", "MSEARCH"}

NoBodyAnswer == {"HEAD", "MSEARCH", "SUBSCRIBE", "UNSUBSCRIBE", "NOTIFY"}

\* parser_get_entity_read_method
ReadMethod(p0) ==
    LET p == [p0 EXCEPT !.start = p0.c, !.elen = 0] IN
    IF IF p.request THEN p.method \in NoBody ELSE p.status = "204" \/ p.reqMethod \in NoBodyAnswer
    THEN [p EXCEPT !.pos = "complete", !.s = "SUCCESS"]
    ELSE IF Has(p, "TRANSFER_ENCODING") /\ Contains(Value(p, "TRANSFER_ENCODING"), <<"ch", "unked">>)
    THEN [p EXCEPT !.ent = "chunked", !.s = "OK"]
    ELSE IF Has(p, "CONTENT_LENGTH")
    THEN LET n == Number(Value(p, "CONTENT_LENGTH"), 10) IN
         [p EXCEPT !.clen = IF n < 0 THEN Huge ELSE n, !.ent = "clen", !.s = "OK"]
    ELSE IF p.request
    THEN [Fail(p, "LENGTH_REQUIRED") EXCEPT !.hack = p.method = "NOTIFY"]
    ELSE [p EXCEPT !.ent = "close", !.s = "OK"]

\* Mutant of EntityClen: an entity of which something has come is complete.
EntityClenAny(p) ==
    LET n == Len(p.buf) - p.start + p.discarded IN
    IF n = 0 THEN [p EXCEPT !.elen = n, !.s = "INCOMPLETE"]
    ELSE [p EXCEPT !.elen = IF n < p.clen THEN n ELSE p.clen, !.pos = "complete", !.s = "SUCCESS"]

\* parser_parse_entity_using_clen
EntityClen(p) ==
    LET n == Len(p.buf) - p.start + p.discarded IN
    IF n < p.clen THEN [p EXCEPT !.elen = n, !.s = "INCOMPLETE"]
    ELSE [p EXCEPT !.elen = p.clen, !.pos = "complete", !.s = "SUCCESS"]

Delete(b, from, to) == SubSeq(b, 1, from) \o SubSeq(b, to + 1, Len(b))

\* parser_parse_chunky_entity: the line before a chunk is cut out.
ChunkLine(p) ==
    LET Of(m, n) == [p EXCEPT !.buf = Delete(@, p.c, m.c), !.chunk = n, !.s = "OK",
                              !.ent = IF n = 0 THEN "trailer" ELSE "body",
                              !.elen = IF n = 0 THEN p.c - p.start + p.discarded ELSE @]
        Line(m) == IF m.s # "OK" THEN [p EXCEPT !.s = m.s] ELSE Of(m, Number(m.v[1], 16))
    IN Line(Match(p.buf, p.c, <<"%x", "%L", "%c">>, FALSE))

\* parser_parse_chunky_body: so is the line end after it.
ChunkBody(p) ==
    LET End(m) == IF m.s # "OK" THEN [p EXCEPT !.s = m.s]
                  ELSE [p EXCEPT !.buf = Delete(@, p.c + p.chunk, m.c), !.c = @ + p.chunk,
                                 !.elen = @ + p.chunk, !.ent = "chunked", !.s = "OK"]
    IN IF Len(p.buf) - p.c < p.chunk THEN [p EXCEPT !.s = "INCOMPLETE"]
       ELSE End(Match(p.buf, p.c + p.chunk, <<"%c">>, FALSE))

\* parser_parse_chunky_headers: the lines after the last chunk.  The cursor
\* stays behind the ones that were read; when the last of them has come, those
\* read in this call are cut out.
RECURSIVE Headers(_)
Headers(p) == IF p.s = "OK" /\ p.pos = "headers" THEN Headers(Header(p)) ELSE p

ChunkTrailer(p) ==
    LET After(h) ==
          CASE h.s = "OK" /\ h.pos = "entity" ->
                 [h EXCEPT !.buf = Delete(@, p.c, h.c), !.c = p.c, !.pos = "complete", !.s = "SUCCESS"]
            [] h.pos = "headers" -> [h EXCEPT !.pos = "entity"]
            [] OTHER -> h
    IN After(Headers([p EXCEPT !.pos = "headers", !.s = "OK"]))

\* parser_parse_entity_until_close
EntityUntilClose(p) ==
    [p EXCEPT !.elen = Len(p.buf) - p.start + p.discarded, !.c = Len(p.buf),
              !.s = "INCOMPLETE_ENTITY"]

\* parser_parse_entity, one turn
Entity(p) ==
    CASE p.ent = "determine" -> ReadMethod(p)
      [] p.ent = "clen" -> EntityClen(p)
      [] p.ent = "chunked" -> ChunkLine(p)
      [] p.ent = "body" -> ChunkBody(p)
      [] p.ent = "trailer" -> ChunkTrailer(p)
      [] p.ent = "close" -> EntityUntilClose(p)

\* parser_parse, one turn
ParseTurn(p) ==
    CASE p.pos = "line" -> IF p.request THEN RequestLine(p) ELSE ResponseLine(p)
      [] p.pos = "headers" -> Header(p)
      [] p.pos = "entity" -> Entity(p)

\* parser_parse: turns until one of them is not OK, in the given places only.
RECURSIVE ParseOn(_, _)
ParseOn(p, places) ==
    IF p.s = "OK" /\ p.pos \in places THEN ParseOn(ParseTurn(p), places) ELSE p

Parse(p, places) == ParseOn([p EXCEPT !.s = "OK"], places)

\* parser_append
ParserAppend(p, more) == Parse([p EXCEPT !.buf = @ \o more], {"line", "headers", "entity"})

Body(p) == SubSeq(p.buf, p.start + 1, p.start + p.elen - p.discarded)
=============================================================================
