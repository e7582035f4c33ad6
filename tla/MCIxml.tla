------------------------------- MODULE MCIxml -------------------------------
(***************************************************************************)
(* The XML parser and the DOM on a set of small documents.  Each document  *)
(* is a tree; TextOf writes it down in the shortest way, with the lexical  *)
(* variations of its prolog and of its empty elements.                     *)
(***************************************************************************)
EXTENDS IxmlParser

E(name, attrs, kids) == <<"element", name, <<>>, attrs, kids>>
T(v) == <<"text", <<"", "#text">>, v, <<>>, <<>>>>
C(v) == <<"cdata", <<"", "#cdata">>, v, <<>>, <<>>>>
D(e) == <<"document", <<"", "#document">>, <<>>, <<>>, <<e>>>>

A == <<"", "a">>
PB == <<"p", "b">>
Id == <<<<"", "id">>, <<"lt", "x">>>>
Default == <<<<"", "xmlns">>, <<"u">>>>
Prefix == <<<<"xmlns", "p">>, <<"w">>>>

Leaf == E(PB, <<Id>>, <<T(<<"amp">>)>>)

Kids == {<<>>, <<T(<<"x", "gt">>)>>, <<Leaf>>, <<E(A, <<>>, <<>>)>>,
         <<E(A, <<Default>>, <<>>), T(<<"x">>)>>, <<T(<<"x">>), Leaf, C(<<"lt">>)>>}

Roots == {E(PB, <<Prefix>>, k) : k \in Kids} \cup {E(A, <<Default, Prefix>>, k) : k \in Kids}
         \cup {E(A, <<Prefix, Id>>, <<Leaf>>)}

\* The lexemes of a tree; `short' writes an empty element as one tag.
Tag(e, end) ==
    LET w[i \in 0..Len(e[4])] ==
          IF i = 0 THEN <<>>
          ELSE w[i-1] \o <<Mark("ws"), NameLex(e[4][i][1]), Mark("="),
                           ValueLex("str", Escape(e[4][i][2]))>>
    IN <<Mark("<"), NameLex(e[2])>> \o w[Len(e[4])] \o <<Mark(end)>>

LeafText(x, short) ==
    CASE x[1] = "text" -> <<ValueLex("text", Escape(x[3]))>>
      [] x[1] = "cdata" -> <<ValueLex("cdata", x[3])>>
      [] OTHER -> IF short /\ x[5] = <<>> THEN Tag(x, "/>")
                  ELSE Tag(x, ">")
                       \o (IF x[5] = <<>> THEN <<>>
                           ELSE <<ValueLex("text", Escape(x[5][1][3]))>>)
                       \o <<Mark("</"), NameLex(x[2]), Mark(">")>>

RootText(e, short) ==
    LET w[i \in 0..Len(e[5])] ==
          IF i = 0 THEN <<>> ELSE w[i-1] \o LeafText(e[5][i], short)
    IN Tag(e, ">") \o w[Len(e[5])] \o <<Mark("</"), NameLex(e[2]), Mark(">")>>

Prolog == <<Mark("decl"), Mark("ws"), Mark("comment"), Mark("doctype"), Mark("ws"), Mark("pi")>>

Docs == {[e |-> e, pro |-> <<>>, short |-> FALSE] : e \in Roots}
        \cup {[e |-> E(A, <<Default, Prefix>>, k), pro |-> Prolog, short |-> TRUE] : k \in Kids}

TextOf(d) == d.pro \o RootText(d.e, d.short)

\* Texts that are no documents: an open element, a wrong end tag, a second
\* root, an attribute twice, a tag that is cut off, an empty CDATA section,
\* a comment that ends in "--->", a text after the root element.
Broken ==
    LET a == <<Mark("<"), NameLex(A)>>
        id == <<NameLex(Id[1]), Mark("="), ValueLex("str", <<"x">>)>>
        end == <<Mark("</"), NameLex(A), Mark(">")>>
    IN {a \o <<Mark(">")>>,
        a \o <<Mark(">"), Mark("</"), NameLex(PB), Mark(">")>>,
        a \o <<Mark("/>")>> \o a \o <<Mark("/>")>>,
        a \o id \o id \o <<Mark("/>")>>,
        a \o id,
        a \o <<Mark(">"), Mark("cdataempty")>> \o end,
        a \o <<Mark(">"), Mark("badcomment")>> \o end,
        a \o <<Mark(">"), ValueLex("text", <<"&">>)>> \o end,
        a \o <<Mark("/>"), ValueLex("text", <<"x">>)>>,
        <<Mark("decl"), Mark("ws"), Mark("badcomment")>> \o a \o <<Mark("/>")>>}

MCInputs == {TextOf(d) : d \in Docs} \cup Broken

MCNames == {<<"", "id">>}
MCValues == {<<"quot", "amp">>}

\* A text that is no document is refused, and a document is read as what it
\* says: its tree, and the namespace of each of
\* its elements, which is the one of the innermost declaration of its prefix
\* (Parser_getNextNode, Parser_processElementName, Parser_xmlNamespace).
ReadRight ==
    st = "idle" /\ calls = 0 /\ from = Null =>
      /\ text \in Broken => rc # "SUCCESS"
      /\ \A d \in Docs : TextOf(d) = text =>
          LET ns(e, p) == LET hits == {i \in DOMAIN e[4] : e[4][i][1] = p}
                          IN IF hits = {} THEN NoUri ELSE e[4][CHOOSE i \in hits : TRUE][2][1]
              Key(e) == IF e[2][1] = "" THEN <<"", "xmlns">> ELSE <<"xmlns", e[2][1]>>
              Scope(e) == IF ns(e, Key(e)) # NoUri THEN ns(e, Key(e)) ELSE ns(d.e, Key(e))
              top == heap[doc].first
          IN /\ rc = "SUCCESS"
             /\ TreeOf(heap, doc) = D(d.e)
             /\ heap[top].ns = Scope(d.e)
             /\ \A i \in DOMAIN d.e[5] :
                  d.e[5][i][1] = "element" => heap[Children(heap, top)[i]].ns = Scope(d.e[5][i])

\* Codes at both sides of every change of length.
Codes == {0, 1} \cup UNION {{Utf8Max[i], Utf8Max[i] - 1} : i \in 1..6}
                \cup {Utf8Max[i] + 1 : i \in 1..5}

Tables == {[i \in 1..n |-> [l |-> 4 * i, h |-> 4 * i + w]] : n \in 0..5, w \in 0..2}

\* Parser_UTF8ToInt reads back what Parser_intToUTF8 wrote, and refuses it when
\* a byte is missing; the binary search of Parser_isCharInTable finds what is
\* in one of the ranges, and nothing else.
CharsRight ==
    used = 0 =>
      /\ \A c \in Codes :
           LET s == IntToUTF8(c) IN
           /\ UTF8ToInt(s) = [c |-> c, len |-> Len(s)]
           /\ Len(s) > 1 => UTF8ToInt(SubSeq(s, 1, Len(s) - 1)).len = 0
      /\ \A tbl \in Tables, c \in 0..24 :
           IsCharInTable(c, tbl) <=> \E i \in DOMAIN tbl : tbl[i].l <= c /\ c <= tbl[i].h

\* A text is read as what it says, and what was read is found: the parser ends on
\* every text, refuses what is no document, builds the tree of what is one, decodes
\* its characters, and the lookups of the DOM find its nodes.
ReadsRight == ReadRight /\ LookupsRight /\ CharsRight /\ ParseEnds
=============================================================================
