----------------------------- MODULE IxmlParser -----------------------------
(***************************************************************************)
(* The XML parser and printer of ixml (ixmlparser.c, ixml.c) over the tree *)
(* of IxmlDom.  The text to be parsed is a sequence of lexemes: the marks  *)
(* "<" "</" ">" "/>" "=", names, quoted strings, white space, comments,    *)
(* processing instructions, CDATA sections and character data.  One step   *)
(* of the parser is one turn of the loop of Parser_parseDocument: it gets  *)
(* the next node and hangs it into the tree.                               *)
(*                                                                         *)
(* Between two parses a client calls the DOM functions (IxmlDom), prints a *)
(* document and parses what was printed.                                   *)
(***************************************************************************)
EXTENDS IxmlDom

CONSTANTS
    Inputs,     \* the texts a client parses first
    MaxCalls,   \* bound on the client's DOM calls
    ErrorChar   \* TRUE after ixmlRelaxParser: a bare "&" is read as it is

ASSUME ParserAssumption == MaxCalls \in Nat /\ ErrorChar \in BOOLEAN

VARIABLES
    inp,        \* what is left of the text: curPtr
    st,         \* "element", "attribute", "content"; "idle" between parses
    stack,      \* the open elements, the innermost first: pCurElement
    cur,        \* currentNodePtr
    lastElem,   \* name of the last start tag, or <<>>
    need,       \* pNeedPrefixNode: an element whose namespace is still open
    hasTop,     \* bHasTopLevel
    doc,        \* the document that is being built
    rc,         \* result of the last parse
    text,       \* the text that is being or was parsed last
    from,       \* the document that text was printed from, or Null
    calls       \* DOM calls so far

parserVars == <<inp, st, stack, cur, lastElem, need, hasTop, doc, rc, text, from>>

vars == <<domVars, parserVars, calls>>

(***************************************************************************)
(* Lexemes                                                                 *)
(***************************************************************************)

Mark(k) == [k |-> k, n |-> <<"", "">>, v |-> <<>>]

NameLex(name) == [k |-> "name", n |-> name, v |-> <<>>]

ValueLex(k, v) == [k |-> k, n |-> <<"", "">>, v |-> v]

First(s) == IF s = <<>> THEN "end" ELSE Head(s).k

SkipWhiteSpaces(s) == IF First(s) = "ws" THEN Tail(s) ELSE s

From(s, i) == SubSeq(s, i, Len(s))

\* The position of the first lexeme of s that is not of one of the kinds K.
FirstNot(s, K) ==
    CHOOSE i \in 1..Len(s)+1 :
       /\ i = Len(s) + 1 \/ s[i].k \notin K
       /\ \A j \in 1..i-1 : s[j].k \in K

\* Parser_skipMisc: comments and processing instructions, each with the white
\* space after it.  White space in front of the first one ends the search.
SkipMisc(s) ==
    LET rest == IF First(s) = "ws" THEN Tail(s)
                ELSE From(s, FirstNot(s, {"comment", "pi", "ws"}))
    IN [ok |-> First(s) = "ws" \/ First(rest) \notin {"badcomment", "decl"}, rest |-> rest]

\* Parser_skipProlog
SkipProlog(s) ==
    LET a == SkipWhiteSpaces(s)
        b == IF First(a) = "decl" THEN SkipWhiteSpaces(Tail(a)) ELSE a
        m == SkipMisc(b)
        c == IF First(m.rest) = "doctype" THEN Tail(m.rest) ELSE m.rest
        m2 == SkipMisc(c)
    IN [ok |-> m.ok /\ m2.ok, rest |-> m2.rest]

\* Parser_getNextToken: the next mark or name; k = "none" stands for length 0.
NoToken(s) == [k |-> "none", n |-> <<"", "">>, rest |-> s]

GetNextToken(s) ==
    LET m == SkipMisc(s)
        l == First(m.rest)
    IN IF s = <<>> \/ ~m.ok THEN NoToken(m.rest)
       ELSE IF l = "<" /\ First(Tail(m.rest)) # "name" THEN NoToken(m.rest)
       ELSE IF l \in {"<", "</", "name", "=", ">", "/>"}
            THEN [k |-> l, n |-> Head(m.rest).n, rest |-> Tail(m.rest)]
       ELSE IF l \in {"str", "badstr"} THEN [k |-> l, n |-> <<"", "">>, rest |-> m.rest]
       ELSE NoToken(m.rest)

\* copy_with_escape, and Parser_getChar, which undoes it.
EscapeChar == [c \in {"lt", "gt", "amp", "apos", "quot"} |-> <<"&", c>>]

\* Mutant of Escape: "&" is not escaped.
EscapeRaw(v) == [i \in DOMAIN v |-> IF v[i] = "amp" THEN "&"
                                   ELSE IF v[i] \in DOMAIN EscapeChar THEN EscapeChar[v[i]]
                                   ELSE v[i]]

Escape(v) == [i \in DOMAIN v |-> IF v[i] \in DOMAIN EscapeChar THEN EscapeChar[v[i]] ELSE v[i]]

GetChar(u) ==
    IF u = "&" THEN (IF ErrorChar THEN "amp" ELSE "bad")
    ELSE IF u \in {EscapeChar[c] : c \in DOMAIN EscapeChar}
         THEN CHOOSE c \in DOMAIN EscapeChar : EscapeChar[c] = u
    ELSE u

\* Parser_copyToken
CopyToken(v) == [i \in DOMAIN v |-> GetChar(v[i])]

Bad(v) == \E i \in DOMAIN v : v[i] = "bad"

(***************************************************************************)
(* Characters                                                              *)
(***************************************************************************)

\* The largest code of each length, and the lowest first byte.
Utf8Max == <<127, 2047, 65535, 2097151, 67108863, 2147483647>>
Utf8Lead == <<0, 192, 224, 240, 248, 252, 254>>

IntToUTF8(c) ==
    LET k == CHOOSE i \in 1..6 : c <= Utf8Max[i] /\ \A j \in 1..i-1 : c > Utf8Max[j]
    IN [i \in 1..k |-> IF i = 1 THEN Utf8Lead[k] + (c \div 64^(k-1))
                      ELSE 128 + ((c \div 64^(k-i)) % 64)]

\* The code and the number of bytes it takes; -1 and 0 for what is no UTF-8.
UTF8ToInt(s) ==
    LET More(i) == i <= Len(s) /\ s[i] \in 128..191
        k == {i \in 1..6 : /\ Utf8Lead[i] <= s[1] /\ s[1] < Utf8Lead[i+1]
                           /\ i = 1 => s[1] <= 127
                           /\ \A j \in 2..i : More(j)}
        v[i \in 1..Len(s)] == IF i = 1 THEN s[1] - Utf8Lead[CHOOSE x \in k : TRUE]
                              ELSE 64 * v[i-1] + (s[i] - 128)
    IN IF k = {} THEN [c |-> -1, len |-> 0]
       ELSE [c |-> v[CHOOSE x \in k : TRUE], len |-> CHOOSE x \in k : TRUE]

\* Parser_isCharInTable: a binary search in a table of ranges.
IsCharInTable(c, tbl) ==
    LET f[t \in 1..Len(tbl)+1, b \in 0..Len(tbl)] ==
          LET m == (t + b) \div 2 IN
          IF t > b THEN FALSE
          ELSE IF c < tbl[m].l THEN f[t, m-1]
          ELSE IF c > tbl[m].h THEN f[m+1, b]
          ELSE TRUE
    IN f[1, Len(tbl)]

(***************************************************************************)
(* Parser_getNextNode.  A result has the kind of node found ("none" for a  *)
(* turn that only moved on), its name and value, and what the parser       *)
(* becomes.                                                                *)
(***************************************************************************)

Got(kind, name, val, rest, state) ==
    [ok |-> TRUE, kind |-> kind, name |-> name, val |-> val, rest |-> rest, st |-> state]

SyntaxError == [ok |-> FALSE, kind |-> "error", name |-> <<"", "">>, val |-> <<>>,
                rest |-> <<>>, st |-> "element"]

NoName == <<"", "">>

\* Character data goes on to the next "<": in it every other lexeme is text.
CharData(s) ==
    LET n == FirstNot(s, {"ws", "name", "=", "str", "badstr", ">", "/>", "text"}) - 1
        w[i \in 0..n] == IF i = 0 THEN <<>>
                         ELSE w[i-1] \o (IF s[i].k = "text" THEN CopyToken(s[i].v) ELSE <<"x">>)
    IN [val |-> w[n], rest |-> From(s, n + 1)]

ProcessContent(s) ==
    LET b == SkipWhiteSpaces(s)
        l == First(b)
        t == CharData(s)
    IN CASE l = "end"     -> Got("none", NoName, <<>>, b, "content")
         [] l = "cdata"   -> Got("cdata", NoName, Head(b).v, Tail(b), "content")
         [] l \in {"comment", "pi"} -> Got("none", NoName, <<>>, Tail(b), "content")
         [] l \in {"cdataempty", "badcomment", "decl"} -> SyntaxError
         [] l \in {"<", "</", "doctype"} -> Got("none", NoName, <<>>, b, "element")
         [] OTHER -> IF First(t.rest) = "cdend" \/ Bad(t.val) THEN SyntaxError
                     ELSE Got("text", NoName, t.val, t.rest, "content")

\* Parser_processSTag, after the "<".  The token after the name is put back
\* unless it is ">".
ProcessSTag(s) ==
    LET name == GetNextToken(s)
        t == GetNextToken(name.rest)
    IN IF t.k = "none" THEN SyntaxError
       ELSE IF t.k = "/>" THEN Got("start", name.n, <<>>, name.rest, "element")
       ELSE IF t.k = ">"  THEN Got("start", name.n, <<>>, t.rest, "content")
       ELSE Got("start", name.n, <<>>, name.rest, "attribute")

\* Parser_processETag, after the "</".
ProcessETag(s) ==
    LET name == GetNextToken(s)
        t == GetNextToken(SkipWhiteSpaces(name.rest))
    IN IF name.k = "none" \/ t.k # ">" THEN SyntaxError
       ELSE Got("end", name.n, <<>>, t.rest, "content")

\* Parser_processAttribute, after the name.
ProcessAttribute(tok) ==
    LET eq == GetNextToken(tok.rest)
        q == GetNextToken(eq.rest)
        val == CopyToken(Head(q.rest).v)
        t == GetNextToken(Tail(q.rest))
    IN IF tok.k # "name" \/ eq.k # "=" \/ q.k # "str" THEN SyntaxError
       ELSE IF Bad(val) \/ t.k \in {"none", "<"} THEN SyntaxError
       ELSE IF t.k = ">" THEN Got("attribute", tok.n, val, t.rest, "content")
       ELSE Got("attribute", tok.n, val, Tail(q.rest), "attribute")

GetNextNode ==
    LET tok == GetNextToken(SkipWhiteSpaces(inp)) IN
    CASE st = "content" -> ProcessContent(inp)
      [] st # "content" /\ tok.k = "none" ->
            IF stack = <<>> /\ tok.rest = <<>>
            THEN Got("none", NoName, <<>>, <<>>, st) ELSE SyntaxError
      [] st # "content" /\ tok.k = ">"  -> Got("none", NoName, <<>>, tok.rest, st)
      [] st # "content" /\ tok.k = "</" -> ProcessETag(tok.rest)
      [] st # "content" /\ tok.k = "<"  -> ProcessSTag(tok.rest)
      [] st # "content" /\ tok.k = "/>" ->
            IF lastElem = <<>> THEN SyntaxError
            ELSE Got("end", lastElem, <<>>, tok.rest, "content")
      [] OTHER -> IF stack # <<>> /\ st = "attribute" THEN ProcessAttribute(tok)
                  ELSE SyntaxError

(***************************************************************************)
(* Namespaces                                                              *)
(***************************************************************************)

\* An entry of the stack of open elements.
StackItem(name, uri) == [el |-> name, uri |-> uri, nss |-> [p \in {} |-> NoUri]]

\* Mutant of Declares: a prefix is looked for among the elements' own prefixes only.
DeclaresOwn(item, p) == item.el[1] = p

\* Parser_ElementPrefixDefined: the innermost open element that has the prefix
\* itself or declares it.
Declares(item, p) == item.el[1] = p \/ p \in DOMAIN item.nss

PrefixUri(p) ==
    LET hits == {i \in DOMAIN stack : Declares(stack[i], p)}
        i == CHOOSE x \in hits : \A y \in hits : x <= y
    IN IF hits = {} THEN [found |-> FALSE, uri |-> NoUri]
       ELSE [found |-> TRUE,
             uri |-> IF stack[i].el[1] = p THEN stack[i].uri ELSE stack[i].nss[p]]

\* Parser_hasDefaultNamespace: the innermost open element without a prefix
\* that has a namespace.
DefaultUri ==
    LET hits == {i \in DOMAIN stack : stack[i].el[1] = "" /\ stack[i].uri # NoUri}
        i == CHOOSE x \in hits : \A y \in hits : x <= y
    IN IF hits = {} THEN [found |-> FALSE, uri |-> NoUri]
       ELSE [found |-> TRUE, uri |-> stack[i].uri]

\* Parser_xmlNamespace: xmlns="u" and xmlns:p="u" change the entry of the open
\* element.  Its own namespace changes with xmlns, whatever its prefix is.
Redeclared(item, name, uri) ==
    IF name = <<"", "xmlns">> \/ (name[1] = "xmlns" /\ name[2] = item.el[1])
    THEN [item EXCEPT !.uri = uri]
    ELSE IF name[1] = "xmlns"
    THEN [item EXCEPT !.nss = [p \in DOMAIN @ \cup {name[2]} |->
                                 IF p = name[2] THEN uri ELSE @[p]]]
    ELSE item

\* Parser_addNamespace: the node that waits for its namespace must be the
\* innermost element, or share its prefix.
AddNamespaceFails(item) ==
    /\ need # Null
    /\ \/ heap[need].name[1] = "" /\ heap[need].name # item.el
       \/ heap[need].name[1] # "" /\ item.el[1] = ""
       \/ heap[need].name[1] # "" /\ heap[need].name # item.el
                                  /\ heap[need].name[1] # item.el[1]

\* An element without a prefix stops waiting at its first attribute.
StillNeeded(item) ==
    IF need # Null /\ (heap[need].name[1] = "" \/ item.uri # NoUri) THEN Null ELSE need

Named(h, item) ==
    IF need # Null /\ item.uri # NoUri THEN [h EXCEPT ![need].ns = item.uri] ELSE h

\* A namespace name is an attribute value; one of one character stands for it.
Uri(v) == IF v = <<>> THEN "" ELSE v[1]

(***************************************************************************)
(* Parser_parseDocument                                                    *)
(***************************************************************************)

\* The error handler frees the document and all that hangs in it.
Stop(h, code) ==
    /\ heap' = Free(h, doc)
    /\ st' = "idle" /\ rc' = code
    /\ inp' = <<>> /\ stack' = <<>> /\ cur' = Null /\ need' = Null /\ doc' = Null
    /\ lastElem' = <<>> /\ hasTop' = FALSE
    /\ UNCHANGED <<held, text, from, calls>>

Fail(code) == Stop(heap, code) /\ UNCHANGED <<used, lost>>

Advance(g) ==
    /\ inp' = g.rest
    /\ st' = g.st
    /\ UNCHANGED <<rc, doc, text, from, calls>>

\* Parser_processElementName
StartElement(g) ==
    LET n == used + 1
        p == g.name[1]
        d == IF p = "" THEN DefaultUri ELSE PrefixUri(p)
        rec == [NewNode("element", g.name, NoText, doc) EXCEPT !.ns = d.uri]
        r == AppendChild(Put(heap, n, rec), cur, n)
    IN IF (hasTop /\ stack = <<>>) \/ r.rc # "SUCCESS" THEN Fail("SYNTAX")
       ELSE /\ Room(1)
            /\ heap' = r.h
            /\ used' = n /\ cur' = n /\ hasTop' = TRUE /\ lastElem' = g.name
            /\ stack' = <<StackItem(g.name, d.uri)>> \o stack
            /\ need' = IF ~d.found /\ (p # "" \/ g.st = "attribute") THEN n ELSE need
            /\ Advance(g)
            /\ UNCHANGED <<held, lost>>

\* Parser_isValidEndElement, Parser_eTagVerification
EndElement(g) ==
    IF stack = <<>> \/ Head(stack).el # g.name \/ heap[cur].name # g.name
    THEN Fail("SYNTAX")
    ELSE /\ stack' = Tail(stack)
         /\ cur' = heap[cur].par
         /\ Advance(g)
         /\ UNCHANGED <<domVars, lastElem, need, hasTop>>

CharName(kind) == IF kind = "text" THEN <<"", "#text">> ELSE <<"", "#cdata">>

\* A text or a CDATA section.  At the top level the tree refuses it, and the
\* node made for it stays behind.
CharacterNode(g) ==
    LET n == used + 1
        h == Put(heap, n, NewNode(g.kind, CharName(g.kind), g.val, doc))
        r == AppendChild(h, cur, n)
    IN /\ Room(1)
       /\ used' = n
       /\ IF r.rc # "SUCCESS" THEN Stop(h, r.rc) /\ lost' = lost \cup {n}
          ELSE /\ heap' = r.h
               /\ Advance(g)
               /\ UNCHANGED <<held, lost, stack, cur, lastElem, need, hasTop>>

\* Parser_processAttributeName, after Parser_xmlNamespace in the same turn.
AttributeNode(g) ==
    LET n == used + 1
        item == Redeclared(Head(stack), g.name, Uri(g.val))
        h == Put(Named(heap, item), n, NewNode("attribute", g.name, g.val, doc))
    IN IF AddNamespaceFails(item) THEN Fail("FAILED")
       ELSE IF FindAttr(heap, cur, g.name) # Null THEN Fail("SYNTAX")
       ELSE /\ Room(1)
            /\ heap' = SetAttributeNode(h, cur, n).h
            /\ used' = n
            /\ stack' = <<item>> \o Tail(stack)
            /\ need' = StillNeeded(item)
            /\ Advance(g)
            /\ UNCHANGED <<held, lost, cur, lastElem, hasTop>>

\* One turn of the loop.
Turn ==
    /\ st # "idle" /\ inp # <<>>
    /\ LET g == GetNextNode IN
         CASE ~g.ok -> Fail("FAILED")
           [] g.kind = "start" -> StartElement(g)
           [] g.kind = "end" -> EndElement(g)
           [] g.kind \in {"text", "cdata"} -> CharacterNode(g)
           [] g.kind = "attribute" -> AttributeNode(g)
           [] OTHER -> Advance(g) /\ UNCHANGED <<domVars, stack, cur, lastElem, need, hasTop>>

\* The end of the text: an element that is still open is an error.
FileDone ==
    /\ st # "idle" /\ inp = <<>>
    /\ IF stack # <<>> THEN Fail("SYNTAX")
       ELSE /\ st' = "idle" /\ rc' = "SUCCESS"
            /\ held' = held \cup {doc}
            /\ cur' = Null /\ need' = Null /\ lastElem' = <<>> /\ hasTop' = FALSE
            /\ UNCHANGED <<heap, used, lost, inp, stack, doc, text, from, calls>>

\* Parser_LoadDocument: a new document, and the prolog is skipped.
Load(s, d) ==
    LET n == used + 1
        p == SkipProlog(s)
    IN /\ st = "idle" /\ Room(1) /\ s # <<>>
       /\ text' = s /\ from' = d
       /\ used' = n
       /\ IF ~p.ok
          THEN /\ rc' = "SYNTAX"
               /\ UNCHANGED <<heap, inp, st, stack, cur, doc>>
          ELSE /\ heap' = Put(heap, n, NewNode("document", <<"", "#document">>, NoText, n))
               /\ doc' = n /\ cur' = n /\ inp' = p.rest /\ st' = "element" /\ stack' = <<>>
               /\ rc' = "NONE"
       /\ UNCHANGED <<held, lost, lastElem, need, hasTop, calls>>

(***************************************************************************)
(* The printer                                                             *)
(***************************************************************************)

\* ixmlPrintDomTreeRecursive: an element, then its next sibling.  Nothing
\* follows a text or a CDATA section.
PrintDomTree(h, n) ==
    LET v(x) == IF x = NoText THEN <<>> ELSE Escape(x)
        w[k \in 0..Cardinality(Live(h)), m \in Live(h) \cup {Null}] ==
            IF m = Null \/ k = 0 THEN <<>>
            ELSE LET r == h[m] IN
                 CASE r.t = "text" -> <<ValueLex("text", v(r.val))>>
                   [] r.t = "cdata" -> <<ValueLex("cdata", r.val)>>
                   [] r.t = "document" -> w[k-1, r.first]
                   [] r.t = "attribute" ->
                        <<NameLex(r.name), Mark("="), ValueLex("str", v(r.val))>>
                        \o (IF r.next = Null THEN <<>> ELSE <<Mark("ws")>> \o w[k-1, r.next])
                   [] r.t = "element" ->
                        <<Mark("<"), NameLex(r.name)>>
                        \o (IF r.attr = Null THEN <<>> ELSE <<Mark("ws")>> \o w[k-1, r.attr])
                        \o <<Mark(">")>>
                        \o (IF r.first # Null /\ h[r.first].t = "element"
                            THEN <<Mark("ws")>> ELSE <<>>)
                        \o w[k-1, r.first]
                        \o <<Mark("</"), NameLex(r.name), Mark(">")>>
                        \o (IF r.next # Null /\ h[r.next].t = "text"
                            THEN <<>> ELSE <<Mark("ws")>>)
                        \o w[k-1, r.next]
    IN w[Cardinality(Live(h)), n]

\* ixmlPrintDocument
PrintDocument(h, d) == <<Mark("decl"), Mark("ws")>> \o PrintDomTree(h, d)

(***************************************************************************)
(* The client                                                              *)
(***************************************************************************)

Init ==
    /\ DomInit
    /\ inp = <<>> /\ st = "idle" /\ stack = <<>> /\ cur = Null /\ lastElem = <<>>
    /\ need = Null /\ hasTop = FALSE /\ doc = Null /\ rc = "NONE"
    /\ text = <<>> /\ from = Null /\ calls = 0

ParseInput == used = 0 /\ \E s \in Inputs : Load(s, Null)

Parse(d) ==
    /\ d \in held /\ from = Null
    /\ Load(PrintDocument(heap, d), d)

DomCall ==
    /\ st = "idle" /\ calls < MaxCalls /\ from = Null
    /\ DomNext
    /\ calls' = calls + 1
    /\ UNCHANGED parserVars

Next ==
    \/ ParseInput
    \/ \E d \in Documents : Parse(d)
    \/ Turn
    \/ FileDone
    \/ DomCall

Spec == Init /\ [][Next]_vars

(***************************************************************************)
(* Properties                                                              *)
(***************************************************************************)

\* Every allocated node is freed exactly once, when the client frees what it
\* holds or when the parser gives up its document (Parser_parseDocument's
\* error handler), whatever is parsed and called.  Only a text after the root
\* element, which that handler forgets, is never freed (lost).
Holders == held \cup (IF st = "idle" THEN {} ELSE {doc}) \cup lost

EachFreedOnce == OwnedBy(Holders)

\* A deep copy is the same tree as what it was made from (ixmlNode_cloneNode),
\* for every tree the calls can build in which no node follows a text.
CloneFaithful ==
    st = "idle" =>
      \A n \in Live(heap) :
        LET c == Clone(heap, n, TRUE, used + 1) IN
        TextLast(heap, n) => TreeOf(c.h, c.root) = TreeOf(heap, n)

\* The ways to look something up agree, in every tree the calls can build:
\* ixmlNode_getElementsByTagName lists each element of the name once, none
\* before one it is below of; ixmlDocument_getElementById finds the first of
\* them; the child list and the attribute map have the nodes of the tree.
LookupsRight ==
    st = "idle" =>
      \A n \in Live(heap) :
        LET cs == Children(heap, n)
            Elements(name) == GetElementsByTagName(heap, n, name)
        IN /\ \A i \in 0..Len(cs) :
                NodeListItem(GetChildNodes(heap, n), i) = IF i < Len(cs) THEN cs[i+1] ELSE Null
           /\ \A name \in {heap[m].name : m \in Live(heap)} :
                /\ heap[n].t = "element" => GetNamedItem(heap, n, name) = FindAttr(heap, n, name)
                /\ heap[n].t \in {"element", "document"} =>
                     LET e == Elements(name) IN
                     /\ {e[i] : i \in DOMAIN e} = Below(heap, n, name)
                     /\ Len(e) = Cardinality(Below(heap, n, name))
                     /\ \A i, j \in DOMAIN e : i < j => e[i] \notin Below(heap, e[j], name)
                /\ heap[n].t = "document" =>
                     GetElementById(heap, n, name) =
                       (IF Elements(name) = <<>> THEN Null ELSE Head(Elements(name)))

\* The prefix of every element below d is declared on it or around it.
PrefixesDeclared(h, d) ==
    \A m \in Closure(h, h[d].first, BelowOf(h)) :
      h[m].t = "element" /\ h[m].name[1] # "" =>
        \E e \in Closure(h, m, AboveOf(h)) : FindAttr(h, e, <<"xmlns", h[m].name[1]>>) # Null

Printable(h, d) ==
    /\ Len(Children(h, d)) <= 1
    /\ TextLast(h, d)
    /\ PrefixesDeclared(h, d)

\* What is printed can be parsed, and is the same document: for every document
\* that parsing and the DOM calls can build, parsing the result of
\* ixmlPrintDocument gives back the tree that was printed.
RoundTrip ==
    st = "idle" /\ from # Null =>
      (Printable(heap, from) => rc = "SUCCESS" /\ TreeOf(heap, doc) = TreeOf(heap, from))

Measure(rest, state) == 2 * Len(rest) + (IF state = "content" THEN 1 ELSE 0)

\* Every parse ends (the loop of Parser_parseDocument): whatever
\* Parser_getNextNode finds in whatever state, it takes something off the text,
\* or leaves the content state so that the next turn does.
ParseEnds ==
    st # "idle" /\ inp # <<>> =>
      LET g == GetNextNode IN g.ok => Measure(g.rest, g.st) < Measure(inp, st)

\* The nodes form trees, and each is freed once, by whoever holds its tree.
TreeSound == TreeShape /\ EachFreedOnce

\* A deep copy, and what is parsed from a printed document, are the same tree as
\* the original (ixmlNode_cloneNode, ixmlPrintDocument, Parser_parseDocument).
CopiesFaithful == CloneFaithful /\ RoundTrip
=============================================================================
