------------------------------ MODULE IxmlDom ------------------------------
(***************************************************************************)
(* The document tree of ixml (node.c, element.c, document.c).  A tree is a *)
(* heap of nodes that point at each other: a node has its parent, its      *)
(* first child, its siblings on both sides and, for an element, its first  *)
(* attribute; attributes are chained through the sibling pointers too.     *)
(*                                                                         *)
(* `heap' maps every allocated node to its fields; a freed node leaves the *)
(* domain.  `held' is the set of nodes the client still has to free:       *)
(* documents, and nodes that are not (or no longer) part of a tree; `lost' *)
(* are those that nobody can free.                                         *)
(*                                                                         *)
(* A qualified name is a pair <<prefix, local name>>, with prefix "" for   *)
(* none.  Text is a sequence of characters out of a small alphabet; NoText *)
(* is the NULL string.  Allocation failure is left out.                    *)
(***************************************************************************)
EXTENDS Integers, Sequences, FiniteSets

CONSTANTS
    MaxNodes,   \* bound on the allocations of one behaviour
    Names,      \* qualified names a client gives to elements and attributes
    Values,     \* texts a client sets
    Careful     \* TRUE: the client removes a node from its place before it
                \* moves it elsewhere, never makes a node its own child or
                \* neighbour, replaces an attribute node only in a list of
                \* one, does not take an attribute node of a copy (whose
                \* ownerElement is not set) for another element, and clones
                \* a document only when it has one root

ASSUME DomAssumption == MaxNodes \in Nat \ {0} /\ Careful \in BOOLEAN

VARIABLES heap, held, used,
          lost     \* nodes that were left behind: nobody has a pointer to them

domVars == <<heap, held, used, lost>>

Null == 0

NoText == <<"NULL">>

NoUri == "NULL"

Live(h) == DOMAIN h

(***************************************************************************)
(* Reading the tree                                                        *)
(***************************************************************************)

\* The nodes S and those that f, a function that maps each node to the ones it
\* leads to, has for them.
Wider(f, S) == S \cup ((UNION {f[m] : m \in S}) \ {Null})

\* One step of f, and then what g finds.
Deeper(h, f, g) ==
    [S \in SUBSET Live(h) |-> IF Wider(f, S) = S THEN S ELSE g[Wider(f, S)]]

\* The nodes that are reached from n in any number of steps of f.
Closure(h, n, f) ==
    LET r[k \in 0..Cardinality(Live(h))] ==
            IF k = 0 THEN [S \in SUBSET Live(h) |-> S] ELSE Deeper(h, f, r[k-1])
    IN r[Cardinality(Live(h))][{n} \ {Null}]

\* What a node leads to: the next sibling, the tree below it and after it, all of
\* what ixmlNode_free visits, and the node above it.
NextOf(h) == [m \in Live(h) |-> {h[m].next}]

BelowOf(h) == [m \in Live(h) |-> {h[m].first, h[m].next}]

FreedBy(h) == [m \in Live(h) |-> {h[m].first, h[m].next, h[m].attr}]

AboveOf(h) == [m \in Live(h) |-> {h[m].par}]

Siblings(h, n) == Closure(h, n, NextOf(h))

LastOf(h, n) == CHOOSE m \in Siblings(h, n) : h[m].next = Null

\* The list that starts at n, in order.
ListFrom(h, n) ==
    LET f[k \in 0..Cardinality(Live(h)), m \in Live(h) \cup {Null}] ==
            IF m = Null \/ k = 0 THEN <<>> ELSE <<m>> \o f[k-1, h[m].next]
    IN f[Cardinality(Live(h)), n]

Children(h, n) == ListFrom(h, h[n].first)

Attributes(h, n) == ListFrom(h, h[n].attr)

\* ixmlNode_getChildNodes: of a node without children, a list of one NULL.
GetChildNodes(h, n) == IF h[n].first = Null THEN <<Null>> ELSE Children(h, n)

NodeListItem(list, i) == IF i > Len(list) - 1 THEN Null ELSE list[i+1]

\* ixmlNamedNodeMap_item, on the map made by ixmlNode_getAttributes.
MapItem(h, e, i) ==
    IF i > Len(Attributes(h, e)) - 1 THEN Null ELSE Attributes(h, e)[i+1]

\* ixmlNamedNodeMap_getItemNumber: how many attributes come before that one.
ItemNumber(h, e, name) ==
    LET f[k \in 0..Cardinality(Live(h)), m \in Live(h) \cup {Null}] ==
            IF m = Null \/ h[m].name = name THEN 0 ELSE 1 + f[k-1, h[m].next]
    IN f[Cardinality(Live(h)), h[e].attr]

GetNamedItem(h, e, name) == MapItem(h, e, ItemNumber(h, e, name))

\* ixmlElement_getAttributeNode, hasAttribute and the searches of the other
\* attribute functions: the first attribute of that name, or Null.
FindAttr(h, e, name) ==
    LET hits == {a \in Siblings(h, h[e].attr) : h[a].name = name}
    IN IF hits = {} THEN Null
       ELSE CHOOSE a \in hits : hits \subseteq Siblings(h, a)

\* ixmlNode_getElementsByTagName: the node itself if it is an element, then
\* its first child and the child's next siblings, each before its own children.
GetElementsByTagName(h, n, name) ==
    LET Hit(m) == IF h[m].t = "element" /\ h[m].name = name THEN <<m>> ELSE <<>>
        w[k \in 0..Cardinality(Live(h)), m \in Live(h) \cup {Null}] ==
            IF m = Null \/ k = 0 THEN <<>>
            ELSE Hit(m) \o w[k-1, h[m].first] \o w[k-1, h[m].next]
    IN Hit(n) \o w[Cardinality(Live(h)), h[n].first]

\* ixmlDocument_getElementById: the first element of that name, itself, then
\* below it, then among its next siblings.
GetElementById(h, n, name) ==
    LET w[k \in 0..Cardinality(Live(h)), m \in Live(h) \cup {Null}] ==
            IF m = Null \/ k = 0 THEN Null
            ELSE IF h[m].t = "element" /\ h[m].name = name THEN m
            ELSE LET below == w[k-1, h[m].first]
                 IN IF below # Null THEN below ELSE w[k-1, h[m].next]
    IN w[Cardinality(Live(h)), n]

(***************************************************************************)
(* Changing the tree: each operator maps a heap to the heap after the call *)
(***************************************************************************)

NewNode(t, name, val, doc) ==
    [t |-> t, name |-> name, val |-> val, ns |-> NoUri, doc |-> doc,
     par |-> Null, first |-> Null, next |-> Null, prev |-> Null,
     attr |-> Null, own |-> Null]

Put(h, n, rec) == [m \in Live(h) \cup {n} |-> IF m = n THEN rec ELSE h[m]]

\* ixmlNode_isAncestor(a, n): a or a later sibling of a, or a node below one
\* of them, is the parent of n.
IsAncestor(h, a, n) == h[n].par \in Closure(h, a, BelowOf(h))

AllowChildren(h, p, c) ==
    CASE h[p].t \in {"attribute", "text", "cdata"} -> FALSE
      [] h[p].t = "element" -> h[c].t \notin {"attribute", "document"}
      [] h[p].t = "document" -> h[c].t = "element"

\* Mutant of Unlink: the next sibling keeps pointing back at the child.
UnlinkForward(h, p, c) ==
    [n \in Live(h) |->
        IF n = c
        THEN [h[n] EXCEPT !.par = Null, !.next = Null, !.prev = Null]
        ELSE [h[n] EXCEPT
                !.next = IF n = h[c].prev THEN h[c].next ELSE @,
                !.first = IF n = p /\ @ = c THEN h[c].next ELSE @]]

\* ixmlNode_removeChild, for a child of p.
Unlink(h, p, c) ==
    [n \in Live(h) |->
        IF n = c
        THEN [h[n] EXCEPT !.par = Null, !.next = Null, !.prev = Null]
        ELSE [h[n] EXCEPT
                !.next = IF n = h[c].prev THEN h[c].next ELSE @,
                !.first = IF n = p /\ @ = c THEN h[c].next ELSE @,
                !.prev = IF n = h[c].next THEN h[c].prev ELSE @]]

Detach(h, p, c) == IF h[c].par = p THEN Unlink(h, p, c) ELSE h

\* A child is looked for under its old parent only when that is p itself.
AppendTo(h0, p, c) ==
    LET h == Detach(h0, p, c)
        last == IF h[p].first = Null THEN Null ELSE LastOf(h, h[p].first)
    IN [n \in Live(h) |->
          IF n = c
          THEN [h[n] EXCEPT !.par = p, !.doc = h[p].doc,
                            !.prev = IF last = Null THEN @ ELSE last]
          ELSE [h[n] EXCEPT !.first = IF n = p /\ last = Null THEN c ELSE @,
                            !.next = IF n = last THEN c ELSE @]]

AppendChild(h, p, c) ==
    CASE h[c].doc # Null /\ h[p].doc # h[c].doc -> [rc |-> "WRONG_DOCUMENT", h |-> h]
      [] IsAncestor(h, c, p)       -> [rc |-> "HIERARCHY", h |-> h]
      [] ~AllowChildren(h, p, c)   -> [rc |-> "HIERARCHY", h |-> h]
      [] OTHER -> [rc |-> "SUCCESS", h |-> AppendTo(h, p, c)]

InsertAt(h0, p, c, r) ==
    LET h == Detach(h0, p, c)
        before == h[r].prev
    IN [n \in Live(h) |->
          [h[n] EXCEPT
             !.next = IF n = c THEN r ELSE IF n = before THEN c ELSE @,
             !.prev = IF n = r THEN c
                      ELSE IF n = c /\ before # Null THEN before ELSE @,
             !.first = IF n = p /\ before = Null THEN c ELSE @,
             !.par = IF n = c THEN p ELSE @]]

InsertBefore(h, p, c, r) ==
    CASE ~AllowChildren(h, p, c)   -> [rc |-> "HIERARCHY", h |-> h]
      [] IsAncestor(h, c, p)       -> [rc |-> "HIERARCHY", h |-> h]
      [] h[p].doc # h[c].doc       -> [rc |-> "WRONG_DOCUMENT", h |-> h]
      [] h[r].par # p              -> [rc |-> "NOT_FOUND", h |-> h]
      [] OTHER -> [rc |-> "SUCCESS", h |-> InsertAt(h, p, c, r)]

\* ixmlNode_free: the node, its later siblings, and all that is below them.
Freed(h, n) == Closure(h, n, FreedBy(h))

Free(h, n) == [m \in Live(h) \ Freed(h, n) |-> h[m]]

\* ixmlElement_setAttributeNode: the new attribute takes the place of one of
\* the same name, or goes to the end of the list.
SetAttributeNode(h, e, a) ==
    LET old == FindAttr(h, e, h[a].name)
        last == IF h[e].attr = Null THEN Null ELSE LastOf(h, h[e].attr)
        Owned(n, rec) == IF n = a THEN [rec EXCEPT !.own = e] ELSE rec
    IN CASE h[a].doc # h[e].doc -> [rc |-> "WRONG_DOCUMENT", old |-> Null, h |-> h]
         [] h[a].own # Null     -> [rc |-> "INUSE", old |-> Null, h |-> h]
         [] h[a].own = Null /\ h[a].doc = h[e].doc /\ old # Null ->
              [rc |-> "SUCCESS", old |-> old,
               h |-> [n \in Live(h) |-> Owned(n,
                        [h[n] EXCEPT
                           !.next = IF n = h[old].prev THEN a ELSE @,
                           !.prev = IF n = h[old].next THEN a ELSE @,
                           !.attr = IF n = e /\ @ = old THEN a ELSE @])]]
         [] OTHER ->
              [rc |-> "SUCCESS", old |-> Null,
               h |-> [n \in Live(h) |-> Owned(n,
                        [h[n] EXCEPT
                           !.next = IF n = last THEN a ELSE @,
                           !.prev = IF n = a THEN last ELSE @,
                           !.attr = IF n = e /\ @ = Null THEN a ELSE @])]]

\* ixmlElement_removeAttributeNode, for an attribute of e.  The attribute
\* keeps its ownerElement.
UnlinkAttr(h, e, a) ==
    [n \in Live(h) |->
        IF n = a
        THEN [h[n] EXCEPT !.par = Null, !.next = Null, !.prev = Null]
        ELSE [h[n] EXCEPT
                !.next = IF n = h[a].prev THEN h[a].next ELSE @,
                !.prev = IF n = h[a].next THEN h[a].prev ELSE @,
                !.attr = IF n = e /\ @ = a THEN h[a].next ELSE @]]

(***************************************************************************)
(* Copies                                                                  *)
(***************************************************************************)

\* What ixmlNode_cloneNodeTreeRecursive visits: of an element its attributes
\* and, for a deep copy, its children and its next sibling; of a text or a
\* CDATA section nothing, so a sibling after one is not visited.
Visited(h, n, deep) ==
    LET F(m) ==
          {IF h[m].t = "element" THEN h[m].attr ELSE Null,
           IF h[m].t \in {"element", "document"} /\ deep THEN h[m].first ELSE Null,
           IF h[m].t = "attribute" \/ (h[m].t = "element" /\ deep) THEN h[m].next ELSE Null}
    IN Closure(h, n, [m \in Live(h) |-> IF m = n THEN F(m) \ {h[m].next} ELSE F(m)])

\* ixmlNode_cloneNode: the copies are new nodes from `base' on.  They belong
\* to no document.  Of a document's children only the first gets its parent.
Clone(h, n, deep, base) ==
    LET V == Visited(h, n, deep)
        Id(m) == base + Cardinality({x \in V : x < m})
        Img(m) == IF m \in V THEN Id(m) ELSE Null
        Copy(m) == [h[m] EXCEPT
                      !.doc = Null, !.own = Null,
                      !.par = IF m = n \/ @ \notin V
                                 \/ (h[@].t = "document" /\ h[m].prev # Null)
                              THEN Null ELSE Img(@),
                      !.first = Img(@), !.attr = Img(@),
                      !.next = IF m = n THEN Null ELSE Img(@),
                      !.prev = IF m = n THEN Null ELSE Img(@)]
        Src(i) == CHOOSE m \in V : Id(m) = i
    IN [root |-> Id(n),
        h |-> [i \in Live(h) \cup {Id(m) : m \in V} |->
                 IF i \in Live(h) THEN h[i] ELSE Copy(Src(i))]]

\* ixmlDocument_setOwnerDocument: a node, what is below it and its siblings,
\* but none of their attributes.
SetOwner(h, d, n) ==
    LET S == Closure(h, n, BelowOf(h))
    IN [m \in Live(h) |-> IF m \in S THEN [h[m] EXCEPT !.doc = d] ELSE h[m]]

(***************************************************************************)
(* The client's calls                                                      *)
(***************************************************************************)

DomInit ==
    /\ heap = [n \in {} |-> 0]
    /\ held = {}
    /\ used = 0
    /\ lost = {}

Room(k) == used + k <= MaxNodes

Create(rec) ==
    /\ Room(1)
    /\ heap' = Put(heap, used + 1, rec)
    /\ held' = held \cup {used + 1}
    /\ used' = used + 1
    /\ UNCHANGED lost

CreateDocument == Create(NewNode("document", <<"", "#document">>, NoText, used + 1))

Documents == {n \in Live(heap) : heap[n].t = "document"}

CreateElement(d, name) == Create(NewNode("element", name, NoText, d))

CreateTextNode(d, v) == Create(NewNode("text", <<"", "#text">>, v, d))

CreateCDATASection(d, v) == Create(NewNode("cdata", <<"", "#cdata">>, v, d))

CreateAttribute(d, name) == Create(NewNode("attribute", name, NoText, d))

\* A careful client does not hand in a node that sits elsewhere in a tree.
Movable(p, c) == Careful => (c # p /\ heap[c].par \in {Null, p})

Call(r, c) ==
    /\ heap' = r.h
    /\ held' = IF r.rc = "SUCCESS" THEN held \ {c} ELSE held
    /\ UNCHANGED <<used, lost>>

CallAppendChild(p, c) ==
    /\ Movable(p, c)
    /\ Call(AppendChild(heap, p, c), c)

CallInsertBefore(p, c, r) ==
    /\ Movable(p, c)
    /\ Careful => c # r
    /\ Call(InsertBefore(heap, p, c, r), c)

\* ixmlNode_replaceChild inserts the new child before the old one and then
\* removes the old one, which the caller gets.
CallReplaceChild(p, c, o) ==
    /\ Movable(p, c)
    /\ Careful => c # o
    /\ LET r == InsertBefore(heap, p, c, o) IN
         IF r.rc = "SUCCESS"
         THEN /\ heap' = Unlink(r.h, p, o)
              /\ held' = (held \ {c}) \cup {o}
              /\ UNCHANGED <<used, lost>>
         ELSE UNCHANGED domVars

\* ixmlNode_removeChild: without a place to put the child, it is freed.
CallRemoveChild(p, c, keep) ==
    /\ heap[c].par = p
    /\ LET h == Unlink(heap, p, c) IN
         IF keep
         THEN heap' = h /\ held' = held \cup {c}
         ELSE heap' = Free(h, c) /\ UNCHANGED held
    /\ UNCHANGED <<used, lost>>

CallFree(n) ==
    /\ n \in held
    /\ heap' = Free(heap, n)
    /\ held' = held \ {n}
    /\ UNCHANGED <<used, lost>>

CallCloneNode(n, deep) ==
    /\ Careful /\ heap[n].t = "document" =>
         Cardinality(Siblings(heap, heap[n].first)) <= 1
    /\ Room(Cardinality(Visited(heap, n, deep)))
    /\ LET c == Clone(heap, n, deep, used + 1) IN
         /\ heap' = c.h
         /\ held' = held \cup {c.root}
    /\ used' = used + Cardinality(Visited(heap, n, deep))
    /\ UNCHANGED lost

CallImportNode(d, n, deep) ==
    /\ heap[n].t # "document"
    /\ Room(Cardinality(Visited(heap, n, deep)))
    /\ LET c == Clone(heap, n, deep, used + 1) IN
         /\ heap' = SetOwner(c.h, d, c.root)
         /\ held' = held \cup {c.root}
    /\ used' = used + Cardinality(Visited(heap, n, deep))
    /\ UNCHANGED lost

CallSetNodeValue(n, v) ==
    /\ heap' = [heap EXCEPT ![n].val = v]
    /\ UNCHANGED <<held, used, lost>>

\* ixmlElement_setAttribute changes the attribute of that name, or makes one.
\* An element that belongs to no document is left alone: there the call frees
\* a node it has not initialised yet.
CallSetAttribute(e, name, v) ==
    LET a == FindAttr(heap, e, name)
        n == used + 1
        h == Put(heap, n, NewNode("attribute", name, v, heap[e].doc))
    IN IF a # Null
       THEN heap' = [heap EXCEPT ![a].val = v] /\ UNCHANGED <<held, used, lost>>
       ELSE /\ Room(1) /\ heap[e].doc # Null
            /\ heap' = SetAttributeNode(h, e, n).h
            /\ used' = n
            /\ UNCHANGED <<held, lost>>

\* ixmlElement_removeAttribute only drops the value.
CallRemoveAttribute(e, name) ==
    /\ FindAttr(heap, e, name) # Null
    /\ heap' = [heap EXCEPT ![FindAttr(heap, e, name)].val = NoText]
    /\ UNCHANGED <<held, used, lost>>

CallSetAttributeNode(e, a, keep) ==
    LET r == SetAttributeNode(heap, e, a) IN
    /\ Careful => a \in held \/ heap[a].own # Null
    /\ Careful /\ r.old # Null => Siblings(heap, heap[e].attr) = {r.old}
    /\ heap' = IF r.old # Null /\ ~keep THEN Free(r.h, r.old) ELSE r.h
    /\ held' = IF r.rc # "SUCCESS" THEN held
               ELSE (held \ {a}) \cup (IF r.old # Null /\ keep THEN {r.old} ELSE {})
    /\ UNCHANGED <<used, lost>>

CallRemoveAttributeNode(e, a) ==
    /\ a \in Siblings(heap, heap[e].attr)
    /\ heap' = UnlinkAttr(heap, e, a)
    /\ held' = held \cup {a}
    /\ UNCHANGED <<used, lost>>

\* The nodes a client can get at.
Known == Live(heap) \ lost

OfType(t) == {n \in Known : heap[n].t = t}

DomNext ==
    \/ CreateDocument
    \/ \E d \in Documents, name \in Names :
          CreateElement(d, name) \/ CreateAttribute(d, name)
    \/ \E d \in Documents, v \in Values :
          CreateTextNode(d, v) \/ CreateCDATASection(d, v)
    \/ \E p, c \in Known : CallAppendChild(p, c)
    \/ \E p, c, r \in Known : CallInsertBefore(p, c, r) \/ CallReplaceChild(p, c, r)
    \/ \E p, c \in Known, keep \in BOOLEAN : CallRemoveChild(p, c, keep)
    \/ \E n \in held : CallFree(n)
    \/ \E n \in Known, deep \in BOOLEAN : CallCloneNode(n, deep)
    \/ \E d \in Documents, n \in Known, deep \in BOOLEAN : CallImportNode(d, n, deep)
    \/ \E n \in OfType("text"), v \in Values : CallSetNodeValue(n, v)
    \/ \E e \in OfType("element"), name \in Names, v \in Values : CallSetAttribute(e, name, v)
    \/ \E e \in OfType("element"), name \in Names : CallRemoveAttribute(e, name)
    \/ \E e \in OfType("element"), a \in OfType("attribute"), keep \in BOOLEAN :
          CallSetAttributeNode(e, a, keep)
    \/ \E e \in OfType("element"), a \in OfType("attribute") : CallRemoveAttributeNode(e, a)

(***************************************************************************)
(* Properties                                                              *)
(***************************************************************************)

\* The pointers of the heap form trees, whatever calls were made in whatever
\* order (node.c, element.c): every pointer leads to a node that is still
\* allocated, the two sibling chains agree, a child is in the list of the node
\* it calls its parent, and no node is below itself.
TreeShape ==
    \A n \in Live(heap) :
      LET r == heap[n] IN
      /\ {r.par, r.first, r.next, r.prev, r.attr} \subseteq Live(heap) \cup {Null}
      /\ r.next # Null => heap[r.next].prev = n /\ heap[r.next].par = r.par
      /\ r.prev # Null => heap[r.prev].next = n
      /\ r.first # Null => heap[r.first].prev = Null /\ heap[r.first].par = n
      /\ r.attr # Null => heap[r.attr].prev = Null /\ heap[r.attr].t = "attribute"
      /\ r.par # Null => n \in Siblings(heap, heap[r.par].first)
      /\ n \notin Closure(heap, r.first, BelowOf(heap))
      /\ n \notin Closure(heap, r.par, AboveOf(heap))

\* What ixml.h says of ixmlNode_appendChild and ixmlNode_insertBefore: a node
\* that is already in the tree is removed first, so that it is never in the
\* child lists of two nodes.
RemovedFirst ==
    \A p, q \in Live(heap) :
      p # q => Siblings(heap, heap[p].first) \cap Siblings(heap, heap[q].first) = {}

\* Every allocated node is below one, and only one, of the nodes R.
OwnedBy(R) ==
    /\ R \subseteq Live(heap)
    /\ \A n \in Live(heap) : Cardinality({x \in R : n \in Freed(heap, x)}) = 1

\* The tree below n as a value: kinds, names, texts, attributes, children.
TreeOf(h, n) ==
    LET Text(v) == IF v = NoText THEN <<>> ELSE v
        w[k \in 0..Cardinality(Live(h)), m \in Live(h)] ==
          LET as == Attributes(h, m)
              cs == Children(h, m)
          IN IF k = 0 THEN <<>>
             ELSE <<h[m].t, h[m].name, Text(h[m].val),
                    [i \in DOMAIN as |-> <<h[as[i]].name, Text(h[as[i]].val)>>],
                    [i \in DOMAIN cs |-> w[k-1, cs[i]]]>>
    IN w[Cardinality(Live(h)), n]

\* Below n a text or a CDATA section is always the last child.
TextLast(h, n) ==
    \A m \in Closure(h, h[n].first, BelowOf(h)) :
       h[m].t \in {"text", "cdata"} => h[m].next = Null

\* The elements of a name at or below n, by their parents.
Below(h, n, name) ==
    {m \in Live(h) : /\ h[m].t = "element" /\ h[m].name = name
                     /\ n \in Closure(h, m, AboveOf(h))}
=============================================================================
