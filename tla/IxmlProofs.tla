---------------------------- MODULE IxmlProofs ----------------------------
(***************************************************************************)
(* The trees of ixml stay sound, whatever is parsed and called (IxmlDom,   *)
(* IxmlParser), for every value of the constants.                          *)
(*                                                                         *)
(* The heap is seen as a forest: a node hangs at the one node whose first  *)
(* child, next sibling or first attribute it is.  What the calls do to the *)
(* pointers is first shown to be one of few changes (a node is taken out   *)
(* of its list, a root is hung in after a node, as a first child or as an  *)
(* attribute, a part is copied, a root is freed); each of them keeps the   *)
(* forest.                                                                 *)
(***************************************************************************)
EXTENDS IxmlParser, FiniteSetTheorems, WellFoundedInduction, TLAPS

-----------------------------------------------------------------------------
(* What the searches find *)

\* A set of numbers has a least one.
LEMMA LeastNumber ==
  ASSUME NEW S, S \subseteq Nat, S # {}
  PROVE  \E x \in S : \A y \in S : x <= y
<1> DEFINE R == {ss \in Nat \X Nat : ss[1] < ss[2]}
<1>1. IsWellFoundedOn(R, Nat)
  BY NatLessThanWellFounded DEF OpToRel
<1> HIDE DEF R
<1>2. PICK x \in S : \A y \in S : ~ (<<y, x>> \in R)
  BY <1>1, WFMin
<1>3. ASSUME NEW y \in S PROVE x <= y
  <2>1. y < x => <<y, x>> \in R
    BY DEF R
  <2> QED BY <1>2, <2>1
<1> QED BY <1>3

\* r is the table that Closure makes, up to n steps.
Search(r, q, h, f, n) == r = [k \in 0..n |-> IF k = 0 THEN q ELSE Deeper(h, f, r[k-1])]

\* There is such a table, by the least number that would have none.
LEMMA SearchExists ==
  ASSUME NEW q, NEW h, NEW f, NEW n \in Nat
  PROVE  \E r : Search(r, q, h, f, n)
<1> DEFINE S == {k \in Nat : ~ \E r : Search(r, q, h, f, k)}
<1>1. ASSUME S # {} PROVE FALSE
  <2>1. PICK m \in S : \A y \in S : m <= y
    BY <1>1, LeastNumber
  <2>2. m # 0
    <3>1. Search([k \in 0..0 |-> q], q, h, f, 0)
      BY DEF Search
    <3> QED BY <3>1, <2>1
  <2>3. PICK r : Search(r, q, h, f, m - 1)
    BY <2>1, <2>2
  <2>4. Search([k \in 0..m |-> IF k = m THEN Deeper(h, f, r[m-1]) ELSE r[k]], q, h, f, m)
    <3>1. \A k \in 0..m-1 : r[k] = IF k = 0 THEN q ELSE Deeper(h, f, r[k-1])
      BY <2>3 DEF Search
    <3> DEFINE p == [k \in 0..m |-> IF k = m THEN Deeper(h, f, r[m-1]) ELSE r[k]]
    <3>2. p = [k \in 0..m |-> IF k = 0 THEN q ELSE Deeper(h, f, p[k-1])]
      BY <2>1, <2>2, <3>1
    <3> QED BY <3>2 DEF Search
  <2> QED BY <2>4, <2>1
<1> QED BY <1>1

\* The recursive function of Closure is that table.
LEMMA SearchDefined ==
  ASSUME NEW q, NEW h, NEW f, NEW n \in Nat
  PROVE  LET r[k \in 0..n] == IF k = 0 THEN q ELSE Deeper(h, f, r[k-1])
         IN  Search(r, q, h, f, n)
<1> DEFINE r[k \in 0..n] == IF k = 0 THEN q ELSE Deeper(h, f, r[k-1])
<1>1. Search(r, q, h, f, n)
  BY SearchExists DEF Search
<1> QED BY <1>1

\* Closure reads its result from that table.
LEMMA ClosureSearch ==
  ASSUME NEW h, NEW n, NEW f, IsFiniteSet(Live(h))
  PROVE  \E r : /\ Search(r, [S \in SUBSET Live(h) |-> S], h, f, Cardinality(Live(h)))
               /\ Closure(h, n, f) = r[Cardinality(Live(h))][{n} \ {Null}]
<1> DEFINE c == Cardinality(Live(h))
           q == [S \in SUBSET Live(h) |-> S]
           r[k \in 0..c] == IF k = 0 THEN q ELSE Deeper(h, f, r[k-1])
<1>0. Cardinality(Live(h)) \in Nat
  BY FS_CardinalityType
<1>1. Search(r, q, h, f, c)
  <2> HIDE DEF c, q
  <2>1. c \in Nat
    BY <1>0 DEF c
  <2> QED BY <2>1, SearchDefined
<1>2. Closure(h, n, f) = r[c][{n} \ {Null}]
  BY DEF Closure
<1> HIDE DEF r
<1> QED BY <1>1, <1>2

\* The nodes S lead only to nodes of S.
ClosedUnder(f, S) == \A m \in S : f[m] \subseteq S \cup {Null}

\* What the table has for S after k steps.
Found(L, f, S, T, enough) ==
    /\ T \subseteq L /\ S \subseteq T
    /\ \A U : S \subseteq U /\ ClosedUnder(f, U) => T \subseteq U
    /\ enough => ClosedUnder(f, T)

\* One step of f stays in every closed set, and changes nothing once the set is closed.
LEMMA WiderIn ==
  ASSUME NEW L, Null \notin L, NEW f \in [L -> SUBSET (L \cup {Null})], NEW S \in SUBSET L
  PROVE  /\ Wider(f, S) \in SUBSET L
         /\ S \subseteq Wider(f, S)
         /\ Wider(f, S) = S => ClosedUnder(f, S)
         /\ \A U : S \subseteq U /\ ClosedUnder(f, U) => Wider(f, S) \subseteq U
<1>1. \A x : x \in Wider(f, S) <=> x \in S \/ (x # Null /\ \E m \in S : x \in f[m])
  <2>1. PICK Z : Z = UNION {f[m] : m \in S}
    OBVIOUS
  <2>2. \A x : x \in Z <=> \E m \in S : x \in f[m]
    BY <2>1, Zenon
  <2>3. Wider(f, S) = S \cup (Z \ {Null})
    BY <2>1 DEF Wider
  <2> QED BY <2>2, <2>3
<1>2. Wider(f, S) \in SUBSET L
  BY <1>1
<1>3. Wider(f, S) = S => ClosedUnder(f, S)
  BY <1>1 DEF ClosedUnder
<1>4. \A U : S \subseteq U /\ ClosedUnder(f, U) => Wider(f, S) \subseteq U
  BY <1>1 DEF ClosedUnder
<1>5. S \subseteq Wider(f, S)
  BY <1>1
<1> QED BY <1>2, <1>3, <1>4, <1>5

\* After k steps the table has the closure of S, unless S and k are too small for that.
LEMMA SearchFound ==
  ASSUME NEW h, NEW f, NEW r, IsFiniteSet(Live(h)), Null \notin Live(h),
         f \in [Live(h) -> SUBSET (Live(h) \cup {Null})],
         Search(r, [S \in SUBSET Live(h) |-> S], h, f, Cardinality(Live(h))),
         NEW k \in 0..Cardinality(Live(h)), NEW S \in SUBSET Live(h)
  PROVE  Found(Live(h), f, S, r[k][S], Cardinality(S) + k >= Cardinality(Live(h)))
<1> DEFINE L == Live(h)
           c == Cardinality(L)
           Ok(i) == \A X \in SUBSET L : Found(L, f, X, r[i][X], Cardinality(X) + i >= c)
           B == {i \in 0..c : ~ Ok(i)}
<1>0. c \in Nat /\ \A X \in SUBSET L : IsFiniteSet(X) /\ Cardinality(X) \in Nat /\ Cardinality(X) <= c
  BY FS_CardinalityType, FS_Subset
<1>1. ASSUME B # {} PROVE FALSE
  <2>0. B \subseteq Nat
    BY <1>0
  <2>1. PICK m \in B : \A y \in B : m <= y
    <3> HIDE DEF B
    <3> QED BY <1>1, <2>0, LeastNumber
  <2>2. m \in 0..c /\ ~ Ok(m)
    OBVIOUS
  <2>3. CASE m = 0
    <3>1. \A X \in SUBSET L : r[0][X] = X
      BY <1>0 DEF Search
    <3>2. ASSUME NEW X \in SUBSET L PROVE Found(L, f, X, r[0][X], Cardinality(X) + 0 >= c)
      <4>1. ASSUME Cardinality(X) + 0 >= c PROVE ClosedUnder(f, X)
        <5>1. Cardinality(X) = c
          BY <1>0, <4>1
        <5>2. X = L
          BY <5>1, FS_Subset
        <5> QED BY <5>2 DEF ClosedUnder
      <4> QED BY <3>1, <4>1 DEF Found
    <3> QED BY <3>2, <2>2, <2>3
  <2>4. CASE m # 0
    <3>1. m - 1 \in 0..c /\ m - 1 \notin B
      BY <2>1, <2>2, <2>4, <1>0
    <3>2. Ok(m - 1)
      BY <3>1
    <3>3. \A X \in SUBSET L : r[m][X] = IF Wider(f, X) = X THEN X ELSE r[m-1][Wider(f, X)]
      <4>1. r[m] = Deeper(h, f, r[m-1])
        BY <2>2, <2>4, <1>0 DEF Search
      <4> QED BY <4>1 DEF Deeper
    <3>4. ASSUME NEW X \in SUBSET L PROVE Found(L, f, X, r[m][X], Cardinality(X) + m >= c)
      <4> DEFINE W == Wider(f, X)
      <4>1. W \in SUBSET L /\ X \subseteq W /\ (W = X => ClosedUnder(f, X))
            /\ \A U : X \subseteq U /\ ClosedUnder(f, U) => W \subseteq U
        BY WiderIn
      <4>2. CASE W = X
        BY <4>1, <4>2, <3>3 DEF Found
      <4>3. CASE W # X
        <5>1. Found(L, f, W, r[m-1][W], Cardinality(W) + (m - 1) >= c) /\ r[m][X] = r[m-1][W]
          BY <3>2, <3>3, <4>1, <4>3
        <5>2. Cardinality(X) < Cardinality(W)
          <6>1. IsFiniteSet(W) /\ X \subseteq W
            BY <1>0, <4>1
          <6> HIDE DEF W
          <6> QED BY <6>1, <4>3, FS_Subset, FS_CardinalityType
        <5>3. Cardinality(X) \in Nat /\ Cardinality(W) \in Nat /\ m \in Nat
          BY <1>0, <4>1, <2>2
        <5> HIDE DEF W, c
        <5>4. Cardinality(X) + m >= c => Cardinality(W) + (m - 1) >= c
          BY <5>2, <5>3, <1>0
        <5> QED BY <5>1, <5>4, <4>1 DEF Found
      <4> QED BY <4>2, <4>3
    <3> QED BY <3>4, <2>2
  <2> QED BY <2>3, <2>4
<1> QED BY <1>1

\* What Closure is: the least set that has n and all that its nodes lead to.
LEMMA ClosureIs ==
  ASSUME NEW h, NEW n, NEW f, IsFiniteSet(Live(h)), Null \notin Live(h),
         f \in [Live(h) -> SUBSET (Live(h) \cup {Null})], n \in Live(h) \cup {Null}
  PROVE  /\ Closure(h, n, f) \subseteq Live(h)
         /\ n # Null => n \in Closure(h, n, f)
         /\ n = Null => Closure(h, n, f) = {}
         /\ \A x, y : x \in Closure(h, n, f) /\ y \in f[x] /\ y # Null => y \in Closure(h, n, f)
         /\ \A U : {n} \ {Null} \subseteq U /\ ClosedUnder(f, U) => Closure(h, n, f) \subseteq U
<1> DEFINE c == Cardinality(Live(h))
           S == {n} \ {Null}
<1>1. PICK r : /\ Search(r, [X \in SUBSET Live(h) |-> X], h, f, c)
               /\ Closure(h, n, f) = r[c][S]
  BY ClosureSearch
<1>2. c \in 0..c /\ S \in SUBSET Live(h)
  BY FS_CardinalityType
<1>3. Found(Live(h), f, S, r[c][S], Cardinality(S) + c >= c)
  <2> HIDE DEF S
  <2> QED BY <1>1, <1>2, SearchFound
<1>4. Cardinality(S) + c >= c
  <2>1. Cardinality(S) \in Nat /\ c \in Nat
    BY <1>2, FS_Subset, FS_CardinalityType
  <2> HIDE DEF S, c
  <2> QED BY <2>1
<1>5. ClosedUnder(f, {}) /\ (n = Null => S \subseteq {})
  BY DEF ClosedUnder
<1>6. /\ r[c][S] \subseteq Live(h) /\ S \subseteq r[c][S]
      /\ \A U : S \subseteq U /\ ClosedUnder(f, U) => r[c][S] \subseteq U
      /\ ClosedUnder(f, r[c][S])
  BY <1>3, <1>4 DEF Found
<1>7. n = Null => r[c][S] = {}
  BY <1>5, <1>6
<1> HIDE DEF c
<1> QED BY <1>1, <1>6, <1>7 DEF ClosedUnder

-----------------------------------------------------------------------------
(* Forests *)

\* The fields of a node.
Fields == {"t", "name", "val", "ns", "doc", "par", "first", "next", "prev", "attr", "own"}

\* Every pointer leads to an allocated node.
Wf(h) ==
    /\ IsFiniteSet(Live(h)) /\ Live(h) \subseteq Nat /\ Null \notin Live(h)
    /\ \A n \in Live(h) :
         /\ DOMAIN h[n] = Fields
         /\ h[n].t \in {"document", "element", "attribute", "text", "cdata"}
         /\ h[n].par \in Live(h) \cup {Null}
         /\ h[n].first \in Live(h) \cup {Null}
         /\ h[n].next \in Live(h) \cup {Null}
         /\ h[n].prev \in Live(h) \cup {Null}
         /\ h[n].attr \in Live(h) \cup {Null}

\* b hangs at a: it is its first child, its next sibling or its first attribute.
Edge(h, a, b) == b # Null /\ (b = h[a].first \/ b = h[a].next \/ b = h[a].attr)

\* Attributes are in the attribute lists, all other nodes in the child lists.
IsAttr(h, n) == h[n].t = "attribute"

\* Lists are linked in both directions, have nodes of one kind and one parent, and are
\* reached from one node only.
Links(h) ==
    /\ \A n \in Live(h) : h[n].next # Null =>
         /\ h[h[n].next].prev = n
         /\ h[h[n].next].par = h[n].par
         /\ IsAttr(h, h[n].next) <=> IsAttr(h, n)
    /\ \A n \in Live(h) : h[n].prev # Null => h[h[n].prev].next = n
    /\ \A n \in Live(h) : h[n].first # Null =>
         /\ h[h[n].first].prev = Null
         /\ h[h[n].first].par = n
         /\ ~ IsAttr(h, h[n].first)
    /\ \A n \in Live(h) : h[n].attr # Null =>
         /\ h[h[n].attr].prev = Null
         /\ IsAttr(h, h[n].attr)
    /\ \A n \in Live(h) : IsAttr(h, n) =>
         h[n].par = Null /\ h[n].first = Null /\ h[n].attr = Null
    /\ \A n, k \in Live(h) : h[n].attr # Null /\ h[n].attr = h[k].attr => n = k
    /\ \A n \in Live(h) : h[n].par # Null /\ h[n].prev = Null => h[h[n].par].first = n

\* The roots R hang nowhere; every other node hangs somewhere.
Rooted(h, R) ==
    /\ R \subseteq Live(h)
    /\ \A n \in R :
         /\ h[n].par = Null /\ h[n].next = Null /\ h[n].prev = Null
         /\ \A k \in Live(h) : h[k].attr # n
    /\ \A n \in Live(h) : ~ IsAttr(h, n) /\ h[n].par = Null => n \in R
    /\ \A n \in Live(h) : IsAttr(h, n) /\ n \notin R /\ h[n].prev = Null =>
         \E k \in Live(h) : h[k].attr = n

\* No node is below itself: in every set of nodes there is one that hangs at none of them.
Acyclic(h) ==
    \A S \in SUBSET Live(h) : S # {} => \E s \in S : \A a \in S : ~ Edge(h, a, s)

\* The heap h is a forest with the roots R.
Tree(h, R) == Wf(h) /\ Links(h) /\ Rooted(h, R) /\ Acyclic(h)

\* What ixmlNode_free visits from n: the least set with n that is closed under Edge.
LEMMA SubIs ==
  ASSUME NEW h, Wf(h), NEW n \in Live(h)
  PROVE  /\ Freed(h, n) \subseteq Live(h) /\ n \in Freed(h, n)
         /\ \A a \in Freed(h, n) : \A b \in Live(h) : Edge(h, a, b) => b \in Freed(h, n)
         /\ \A U \in SUBSET Live(h) :
              n \in U /\ (\A a \in U : \A b \in Live(h) : Edge(h, a, b) => b \in U)
              => Freed(h, n) \subseteq U
<1> DEFINE f == FreedBy(h)
<1>1. IsFiniteSet(Live(h)) /\ Null \notin Live(h) /\ n # Null
  BY DEF Wf
<1>2. \A a \in Live(h) : f[a] = {h[a].first, h[a].next, h[a].attr}
  BY DEF FreedBy
<1>3. \A a \in Live(h) : \A b : b # Null => (b \in f[a] <=> Edge(h, a, b))
  BY <1>2 DEF Edge
<1>4. f \in [Live(h) -> SUBSET (Live(h) \cup {Null})]
  <2>1. ASSUME NEW a \in Live(h)
        PROVE {h[a].first, h[a].next, h[a].attr} \in SUBSET (Live(h) \cup {Null})
    BY DEF Wf
  <2> QED BY <2>1 DEF FreedBy
<1> HIDE DEF f
<1>5. /\ Closure(h, n, f) \subseteq Live(h)
      /\ n \in Closure(h, n, f)
      /\ \A x, y : x \in Closure(h, n, f) /\ y \in f[x] /\ y # Null => y \in Closure(h, n, f)
      /\ \A U : {n} \ {Null} \subseteq U /\ ClosedUnder(f, U) => Closure(h, n, f) \subseteq U
  BY <1>1, <1>4, ClosureIs
<1>6. Freed(h, n) = Closure(h, n, f)
  BY DEF Freed, f
<1>7. ASSUME NEW U \in SUBSET Live(h), n \in U,
             \A a \in U : \A b \in Live(h) : Edge(h, a, b) => b \in U
      PROVE  Freed(h, n) \subseteq U
  <2>1. ClosedUnder(f, U)
    BY <1>3, <1>4, <1>7 DEF ClosedUnder
  <2> QED BY <2>1, <1>5, <1>6, <1>7
<1>8. \A a \in Freed(h, n) : \A b \in Live(h) : Edge(h, a, b) => b \in Freed(h, n)
  BY <1>3, <1>5, <1>6, <1>1
<1> QED BY <1>5, <1>6, <1>7, <1>8

\* What hangs at a node is allocated.
LEMMA EdgeLive ==
  ASSUME NEW h, Wf(h), NEW a \in Live(h), NEW b, Edge(h, a, b)
  PROVE  b \in Live(h)
BY DEF Wf, Edge

\* What is below a node below n is below n.
LEMMA SubTrans ==
  ASSUME NEW h, Wf(h), NEW n \in Live(h), NEW m \in Freed(h, n)
  PROVE  m \in Live(h) /\ Freed(h, m) \subseteq Freed(h, n)
<1>1. m \in Live(h)
  BY SubIs
<1> QED BY <1>1, SubIs

\* A node below n, other than n, hangs at a node below n.
LEMMA SubPred ==
  ASSUME NEW h, Wf(h), NEW n \in Live(h), NEW m \in Freed(h, n), m # n
  PROVE  \E a \in Freed(h, n) : Edge(h, a, m)
<1> DEFINE U == {x \in Freed(h, n) : x = n \/ \E a \in Freed(h, n) : Edge(h, a, x)}
<1>1. U \in SUBSET Live(h) /\ n \in U
  BY SubIs
<1>2. \A a \in U : \A b \in Live(h) : Edge(h, a, b) => b \in U
  BY SubIs
<1>3. Freed(h, n) \subseteq U
  <2> HIDE DEF U
  <2> QED BY <1>1, <1>2, SubIs
<1> QED BY <1>3

\* A node hangs at one node only.
LEMMA OnePred ==
  ASSUME NEW h, Wf(h), Links(h), NEW a \in Live(h), NEW b \in Live(h), NEW m \in Live(h),
         Edge(h, a, m), Edge(h, b, m)
  PROVE  a = b
<1>1. Null \notin Live(h)
  BY DEF Wf
<1>2. m = h[a].next => h[m].prev = a
  BY <1>1 DEF Links
<1>3. m = h[b].next => h[m].prev = b
  BY <1>1 DEF Links
<1>4. m = h[a].first => h[m].prev = Null /\ h[m].par = a /\ ~ IsAttr(h, m)
  BY <1>1 DEF Links
<1>5. m = h[b].first => h[m].prev = Null /\ h[m].par = b /\ ~ IsAttr(h, m)
  BY <1>1 DEF Links
<1>6. m = h[a].attr => h[m].prev = Null /\ IsAttr(h, m)
  BY <1>1 DEF Links
<1>7. m = h[b].attr => h[m].prev = Null /\ IsAttr(h, m)
  BY <1>1 DEF Links
<1>8. m = h[a].attr /\ m = h[b].attr => a = b
  <2>1. \A n, k \in Live(h) : h[n].attr # Null /\ h[n].attr = h[k].attr => n = k
    BY DEF Links
  <2> QED BY <2>1, <1>1
<1> QED BY <1>1, <1>2, <1>3, <1>4, <1>5, <1>6, <1>7, <1>8 DEF Edge

\* The roots are the nodes that hang nowhere.
LEMMA HasPred ==
  ASSUME NEW h, NEW R, Tree(h, R), NEW m \in Live(h)
  PROVE  m \notin R <=> \E a \in Live(h) : Edge(h, a, m)
<1>0. Wf(h) /\ Links(h) /\ Rooted(h, R)
  BY DEF Tree
<1>1. Null \notin Live(h)
  BY <1>0 DEF Wf
<1>2. ASSUME m \notin R PROVE \E a \in Live(h) : Edge(h, a, m)
  <2>1. CASE h[m].prev # Null
    <3>1. h[m].prev \in Live(h) /\ h[h[m].prev].next = m
      BY <1>0, <2>1 DEF Wf, Links
    <3> QED BY <3>1, <1>1 DEF Edge
  <2>2. CASE h[m].prev = Null /\ ~ IsAttr(h, m)
    <3>1. h[m].par \in Live(h) /\ h[h[m].par].first = m
      BY <1>0, <1>2, <2>2 DEF Wf, Links, Rooted
    <3> QED BY <3>1, <1>1 DEF Edge
  <2>3. CASE h[m].prev = Null /\ IsAttr(h, m)
    <3>1. PICK k \in Live(h) : h[k].attr = m
      BY <1>0, <1>2, <2>3 DEF Rooted
    <3> QED BY <3>1, <1>1 DEF Edge
  <2> QED BY <2>1, <2>2, <2>3
<1>3. ASSUME m \in R, NEW a \in Live(h), Edge(h, a, m) PROVE FALSE
  <2>1. m # Null /\ h[m].par = Null /\ h[m].prev = Null /\ h[a].attr # m
    BY <1>0, <1>1, <1>3 DEF Rooted
  <2>2. CASE m = h[a].next
    BY <1>0, <1>1, <2>1, <2>2 DEF Links
  <2>3. CASE m = h[a].first
    BY <1>0, <1>1, <2>1, <2>3 DEF Links
  <2> QED BY <2>1, <2>2, <2>3, <1>3 DEF Edge
<1> QED BY <1>2, <1>3

\* Of two nodes only one is below the other.
LEMMA Antisym ==
  ASSUME NEW h, NEW R, Tree(h, R), NEW x \in Live(h), NEW y \in Freed(h, x), x \in Freed(h, y)
  PROVE  x = y
<1>0. Wf(h) /\ Links(h) /\ Acyclic(h)
  BY DEF Tree
<1> DEFINE S == {z \in Freed(h, x) : x \in Freed(h, z)}
<1>1. S \in SUBSET Live(h) /\ x \in S /\ y \in S /\ y \in Live(h)
  BY <1>0, SubIs
<1>2. SUFFICES ASSUME x # y PROVE FALSE
  OBVIOUS
<1>3. PICK s \in S : \A a \in S : ~ Edge(h, a, s)
  <2>1. S \in SUBSET Live(h) /\ S # {}
    BY <1>1
  <2> HIDE DEF S
  <2> QED BY <2>1, <1>0 DEF Acyclic
<1>4. CASE s # x
  <2>1. PICK a \in Freed(h, x) : Edge(h, a, s)
    BY <1>0, <1>4, SubPred
  <2>2. a \in Live(h) /\ s \in Live(h)
    BY <1>0, SubIs
  <2>3. s \in Freed(h, a)
    BY <1>0, <2>1, <2>2, SubIs
  <2>4. x \in Freed(h, a)
    BY <1>0, <2>3, <2>2, SubTrans
  <2> QED BY <2>1, <2>4, <1>3
<1>5. CASE s = x
  <2>1. PICK a \in Freed(h, y) : Edge(h, a, x)
    BY <1>0, <1>1, <1>2, SubPred
  <2>2. a \in Live(h) /\ a \in Freed(h, x)
    BY <1>0, <1>1, SubTrans, SubIs
  <2>3. x \in Freed(h, a)
    BY <1>0, <2>1, <2>2, SubIs
  <2> QED BY <2>1, <2>2, <2>3, <1>3, <1>5
<1> QED BY <1>4, <1>5

\* A node is not below what hangs at it.
LEMMA NotBack ==
  ASSUME NEW h, NEW R, Tree(h, R), NEW a \in Live(h), NEW b, Edge(h, a, b)
  PROVE  b \in Live(h) /\ b # a /\ a \notin Freed(h, b)
<1>0. Wf(h) /\ Acyclic(h)
  BY DEF Tree
<1>1. b \in Live(h) /\ b \in Freed(h, a)
  BY <1>0, EdgeLive, SubIs
<1>2. b # a
  <2>1. {a} \in SUBSET Live(h) /\ {a} # {}
    OBVIOUS
  <2>2. PICK s \in {a} : \A z \in {a} : ~ Edge(h, z, s)
    BY <2>1, <1>0 DEF Acyclic
  <2> QED BY <2>2
<1> QED BY <1>1, <1>2, Antisym

\* Every node is below exactly one root.
LEMMA OneRoot ==
  ASSUME NEW h, NEW R, Tree(h, R), NEW n \in Live(h)
  PROVE  Cardinality({x \in R : n \in Freed(h, x)}) = 1
<1>0. Wf(h) /\ Links(h) /\ Acyclic(h) /\ R \subseteq Live(h)
  BY DEF Tree, Rooted
<1>1. \E x \in R : n \in Freed(h, x)
  <2> DEFINE S == {m \in Live(h) : ~ \E x \in R : m \in Freed(h, x)}
  <2>1. SUFFICES ASSUME S # {} PROVE FALSE
    OBVIOUS
  <2>2. PICK s \in S : \A a \in S : ~ Edge(h, a, s)
    <3>1. S \in SUBSET Live(h)
      OBVIOUS
    <3> HIDE DEF S
    <3> QED BY <3>1, <2>1, <1>0 DEF Acyclic
  <2>3. s \notin R
    BY <1>0, SubIs
  <2>4. PICK a \in Live(h) : Edge(h, a, s)
    BY <2>3, HasPred
  <2>5. PICK x \in R : a \in Freed(h, x)
    BY <2>2, <2>4
  <2> QED BY <1>0, <2>4, <2>5, SubIs
<1>2. ASSUME NEW x \in R, NEW y \in R, n \in Freed(h, x), n \in Freed(h, y), x # y
      PROVE  FALSE
  <2> DEFINE S == Freed(h, x) \cap Freed(h, y)
  <2>1. S \in SUBSET Live(h) /\ S # {}
    BY <1>0, <1>2, SubIs
  <2>2. PICK s \in S : \A a \in S : ~ Edge(h, a, s)
    <3> HIDE DEF S
    <3> QED BY <2>1, <1>0 DEF Acyclic
  <2>3. x \in Live(h) /\ y \in Live(h) /\ s \in Live(h)
    BY <1>0, <2>1
  <2>4. s # x
    <3>1. SUFFICES ASSUME x \in Freed(h, y) PROVE FALSE
      BY <2>2
    <3>2. PICK a \in Freed(h, y) : Edge(h, a, x)
      BY <3>1, <1>0, <1>2, <2>3, SubPred
    <3> QED BY <3>2, <1>0, <2>3, HasPred, SubIs
  <2>5. s # y
    <3>1. SUFFICES ASSUME y \in Freed(h, x) PROVE FALSE
      BY <2>2
    <3>2. PICK a \in Freed(h, x) : Edge(h, a, y)
      BY <3>1, <1>0, <1>2, <2>3, SubPred
    <3> QED BY <3>2, <1>0, <2>3, HasPred, SubIs
  <2>6. PICK a \in Freed(h, x) : Edge(h, a, s)
    BY <2>2, <2>3, <2>4, <1>0, SubPred
  <2>7. PICK b \in Freed(h, y) : Edge(h, b, s)
    BY <2>2, <2>3, <2>5, <1>0, SubPred
  <2>8. a \in Live(h) /\ b \in Live(h)
    BY <1>0, <2>3, SubIs
  <2>9. a = b
    BY <2>3, <2>6, <2>7, <2>8, <1>0, OnePred
  <2> QED BY <2>6, <2>7, <2>9, <2>2
<1>3. PICK x \in R : {z \in R : n \in Freed(h, z)} = {x}
  BY <1>1, <1>2
<1> QED BY <1>3, FS_Singleton

\* What the searches along one or two pointers find.
LEMMA LineIs ==
  ASSUME NEW h, Wf(h), NEW n \in Live(h) \cup {Null}, NEW f,
         f \in {NextOf(h), BelowOf(h), AboveOf(h)}
  PROVE  /\ Closure(h, n, f) \subseteq Live(h)
         /\ n # Null => n \in Closure(h, n, f)
         /\ n = Null => Closure(h, n, f) = {}
         /\ \A x, y : x \in Closure(h, n, f) /\ y \in f[x] /\ y # Null => y \in Closure(h, n, f)
         /\ \A U \in SUBSET Live(h) :
              (n # Null => n \in U)
              /\ (\A x \in U : \A y \in Live(h) : y \in f[x] => y \in U)
              => Closure(h, n, f) \subseteq U
<1>1. IsFiniteSet(Live(h)) /\ Null \notin Live(h)
  BY DEF Wf
<1>2. f \in [Live(h) -> SUBSET (Live(h) \cup {Null})]
  <2>1. ASSUME NEW a \in Live(h)
        PROVE /\ {h[a].first, h[a].next} \in SUBSET (Live(h) \cup {Null})
              /\ {h[a].next} \in SUBSET (Live(h) \cup {Null})
              /\ {h[a].par} \in SUBSET (Live(h) \cup {Null})
    BY DEF Wf
  <2> QED BY <2>1 DEF NextOf, BelowOf, AboveOf
<1>3. /\ Closure(h, n, f) \subseteq Live(h)
      /\ n # Null => n \in Closure(h, n, f)
      /\ n = Null => Closure(h, n, f) = {}
      /\ \A x, y : x \in Closure(h, n, f) /\ y \in f[x] /\ y # Null => y \in Closure(h, n, f)
      /\ \A U : {n} \ {Null} \subseteq U /\ ClosedUnder(f, U) => Closure(h, n, f) \subseteq U
  BY <1>1, <1>2, ClosureIs
<1>4. ASSUME NEW U \in SUBSET Live(h), n # Null => n \in U,
             \A x \in U : \A y \in Live(h) : y \in f[x] => y \in U
      PROVE  Closure(h, n, f) \subseteq U
  <2>1. ClosedUnder(f, U)
    BY <1>2, <1>4 DEF ClosedUnder
  <2> QED BY <2>1, <1>3, <1>4
<1> QED BY <1>3, <1>4

\* The siblings: the least set with n that is closed under next.
LEMMA SiblingsIs ==
  ASSUME NEW h, Wf(h), NEW n \in Live(h) \cup {Null}
  PROVE  /\ Siblings(h, n) \subseteq Live(h)
         /\ n # Null => n \in Siblings(h, n)
         /\ n = Null => Siblings(h, n) = {}
         /\ \A x \in Siblings(h, n) : h[x].next # Null => h[x].next \in Siblings(h, n)
         /\ \A U \in SUBSET Live(h) :
              (n # Null => n \in U) /\ (\A x \in U : h[x].next # Null => h[x].next \in U)
              => Siblings(h, n) \subseteq U
<1> DEFINE f == NextOf(h)
<1>1. \A x \in Live(h) : f[x] = {h[x].next}
  BY DEF NextOf
<1>2. Siblings(h, n) = Closure(h, n, f)
  BY DEF Siblings
<1>3. f \in {NextOf(h), BelowOf(h), AboveOf(h)} /\ Null \notin Live(h)
  BY DEF Wf
<1> HIDE DEF f
<1>4. /\ Closure(h, n, f) \subseteq Live(h)
      /\ n # Null => n \in Closure(h, n, f)
      /\ n = Null => Closure(h, n, f) = {}
      /\ \A x, y : x \in Closure(h, n, f) /\ y \in f[x] /\ y # Null => y \in Closure(h, n, f)
      /\ \A U \in SUBSET Live(h) :
           (n # Null => n \in U)
           /\ (\A x \in U : \A y \in Live(h) : y \in f[x] => y \in U)
           => Closure(h, n, f) \subseteq U
  BY <1>3, LineIs
<1>5. \A x \in Closure(h, n, f) : h[x].next # Null => h[x].next \in Closure(h, n, f)
  BY <1>1, <1>4
<1>6. ASSUME NEW U \in SUBSET Live(h), n # Null => n \in U, \A x \in U : h[x].next # Null => h[x].next \in U
      PROVE  Closure(h, n, f) \subseteq U
  <2>1. \A x \in U : \A y \in Live(h) : y \in f[x] => y \in U
    BY <1>1, <1>3, <1>6
  <2> QED BY <2>1, <1>4, <1>6
<1> QED BY <1>2, <1>4, <1>5, <1>6

\* The same for the first child and the next sibling.
LEMMA BelowIs ==
  ASSUME NEW h, Wf(h), NEW n \in Live(h) \cup {Null}
  PROVE  /\ Closure(h, n, BelowOf(h)) \subseteq Live(h)
         /\ n # Null => n \in Closure(h, n, BelowOf(h))
         /\ n = Null => Closure(h, n, BelowOf(h)) = {}
         /\ \A x \in Closure(h, n, BelowOf(h)) :
              /\ h[x].next # Null => h[x].next \in Closure(h, n, BelowOf(h))
              /\ h[x].first # Null => h[x].first \in Closure(h, n, BelowOf(h))
         /\ \A U \in SUBSET Live(h) :
              (n # Null => n \in U)
              /\ (\A x \in U : (h[x].next # Null => h[x].next \in U)
                              /\ (h[x].first # Null => h[x].first \in U))
              => Closure(h, n, BelowOf(h)) \subseteq U
<1> DEFINE f == BelowOf(h)
<1>1. \A x \in Live(h) : f[x] = {h[x].first, h[x].next}
  BY DEF BelowOf
<1>2. Closure(h, n, BelowOf(h)) = Closure(h, n, f)
  OBVIOUS
<1>3. f \in {NextOf(h), BelowOf(h), AboveOf(h)} /\ Null \notin Live(h)
  BY DEF Wf
<1> HIDE DEF f
<1>4. /\ Closure(h, n, f) \subseteq Live(h)
      /\ n # Null => n \in Closure(h, n, f)
      /\ n = Null => Closure(h, n, f) = {}
      /\ \A x, y : x \in Closure(h, n, f) /\ y \in f[x] /\ y # Null => y \in Closure(h, n, f)
      /\ \A U \in SUBSET Live(h) :
           (n # Null => n \in U)
           /\ (\A x \in U : \A y \in Live(h) : y \in f[x] => y \in U)
           => Closure(h, n, f) \subseteq U
  BY <1>3, LineIs
<1>5. \A x \in Closure(h, n, f) :
        /\ h[x].next # Null => h[x].next \in Closure(h, n, f)
        /\ h[x].first # Null => h[x].first \in Closure(h, n, f)
  BY <1>1, <1>4
<1>6. ASSUME NEW U \in SUBSET Live(h), n # Null => n \in U,
             \A x \in U : (h[x].next # Null => h[x].next \in U)
                          /\ (h[x].first # Null => h[x].first \in U)
      PROVE  Closure(h, n, f) \subseteq U
  <2>1. \A x \in U : \A y \in Live(h) : y \in f[x] => y \in U
    BY <1>1, <1>3, <1>6
  <2> QED BY <2>1, <1>4, <1>6
<1> QED BY <1>2, <1>4, <1>5, <1>6

\* The nodes above n are in every set that has n and its nodes' parents.
LEMMA AboveIs ==
  ASSUME NEW h, Wf(h), NEW n \in Live(h) \cup {Null}
  PROVE  \A U \in SUBSET Live(h) :
              (n # Null => n \in U) /\ (\A x \in U : h[x].par # Null => h[x].par \in U)
              => Closure(h, n, AboveOf(h)) \subseteq U
<1> DEFINE f == AboveOf(h)
<1>1. \A x \in Live(h) : f[x] = {h[x].par}
  BY DEF AboveOf
<1>2. Closure(h, n, AboveOf(h)) = Closure(h, n, f)
  OBVIOUS
<1>3. f \in {NextOf(h), BelowOf(h), AboveOf(h)} /\ Null \notin Live(h)
  BY DEF Wf
<1> HIDE DEF f
<1> QED BY <1>1, <1>2, <1>3, LineIs

\* The siblings, and what is below them, are freed with a node.
LEMMA LinesInSub ==
  ASSUME NEW h, Wf(h), NEW n \in Live(h)
  PROVE  Siblings(h, n) \subseteq Freed(h, n) /\ Closure(h, n, BelowOf(h)) \subseteq Freed(h, n)
<1>1. Freed(h, n) \in SUBSET Live(h) /\ n \in Freed(h, n)
  BY SubIs
<1>2. ASSUME NEW x \in Freed(h, n)
      PROVE  /\ h[x].next # Null => h[x].next \in Freed(h, n)
             /\ h[x].first # Null => h[x].first \in Freed(h, n)
  <2>1. x \in Live(h)
    BY <1>1
  <2> QED BY <2>1, SubIs DEF Edge, Wf
<1> QED BY <1>1, <1>2, SiblingsIs, BelowIs

\* A child is in the list of the node it calls its parent, and not above it.
LEMMA ChildListed ==
  ASSUME NEW h, NEW R, Tree(h, R), NEW c \in Live(h), h[c].par # Null
  PROVE  /\ h[c].par \in Live(h) /\ h[h[c].par].first \in Live(h)
         /\ c \in Siblings(h, h[h[c].par].first)
         /\ c \in Freed(h, h[c].par) /\ h[c].par \notin Freed(h, c) /\ h[c].par # c
<1>0. Wf(h) /\ Links(h) /\ Acyclic(h)
  BY DEF Tree
<1> DEFINE p == h[c].par
<1>1. p \in Live(h) /\ Null \notin Live(h)
  BY <1>0 DEF Wf
<1> DEFINE F == h[p].first
           S == {x \in Live(h) : h[x].par = p /\ x \notin Siblings(h, F)}
<1>2. F \in Live(h) \cup {Null}
  BY <1>0, <1>1 DEF Wf
<1>3. c \in Siblings(h, F)
  <2>1. SUFFICES ASSUME S # {} PROVE FALSE
    OBVIOUS
  <2>2. PICK s \in S : \A a \in S : ~ Edge(h, a, s)
    <3>1. S \in SUBSET Live(h)
      OBVIOUS
    <3> HIDE DEF S
    <3> QED BY <3>1, <2>1, <1>0 DEF Acyclic
  <2>3. s \in Live(h) /\ h[s].par = p /\ s \notin Siblings(h, F)
    OBVIOUS
  <2>4. CASE h[s].prev = Null
    <3>1. F = s
      BY <2>3, <2>4, <1>0, <1>1 DEF Links
    <3> HIDE DEF F
    <3> QED BY <3>1, <2>3, <1>0, <1>1, <1>2, SiblingsIs
  <2>5. CASE h[s].prev # Null
    <3>1. PICK y \in Live(h) : y = h[s].prev
      BY <2>3, <2>5, <1>0 DEF Wf
    <3>2. h[y].next = s /\ h[y].par = p
      <4>1. h[y].next = s
        BY <3>1, <2>3, <2>5, <1>0 DEF Links
      <4> QED BY <4>1, <2>3, <1>0, <1>1 DEF Links
    <3>3. Edge(h, y, s)
      BY <3>2, <2>3, <1>1 DEF Edge
    <3>4. y \in Siblings(h, F)
      BY <3>2, <3>3, <2>2
    <3> HIDE DEF F
    <3> QED BY <3>2, <3>4, <2>3, <1>0, <1>1, <1>2, SiblingsIs
  <2> QED BY <2>4, <2>5
<1>4. F # Null /\ F \in Live(h)
  <2> HIDE DEF F
  <2> QED BY <1>3, <1>2, <1>0, SiblingsIs
<1>5. c \in Freed(h, F)
  <2> HIDE DEF F
  <2> QED BY <1>3, <1>4, <1>0, LinesInSub
<1>6. Edge(h, p, F)
  BY <1>4 DEF Edge
<1>7. F \in Freed(h, p) /\ p \notin Freed(h, F)
  <2> HIDE DEF F
  <2> QED BY <1>6, <1>4, <1>1, <1>0, SubIs, NotBack
<1>8. c \in Freed(h, p)
  <2> HIDE DEF F
  <2> QED BY <1>5, <1>7, <1>1, <1>0, SubTrans
<1>9. p \notin Freed(h, c)
  <2> HIDE DEF F
  <2> QED BY <1>5, <1>7, <1>4, <1>0, SubTrans
<1>10. p # c
  BY <1>9, <1>0, SubIs
<1> QED BY <1>1, <1>3, <1>4, <1>8, <1>9, <1>10

\* A forest has the shape that TreeShape states, and each node is freed by one root.
LEMMA TreeShaped ==
  ASSUME NEW R, Tree(heap, R)
  PROVE  TreeShape /\ OwnedBy(R)
<1>0. Wf(heap) /\ Links(heap) /\ Rooted(heap, R) /\ Null \notin Live(heap)
  BY DEF Tree, Wf
<1>1. ASSUME NEW n \in Live(heap), heap[n].par # Null
      PROVE  n \notin Closure(heap, heap[n].par, AboveOf(heap))
  <2> DEFINE p == heap[n].par
             U == {x \in Live(heap) : p \in Freed(heap, x)}
  <2>1. p \in Live(heap) /\ p \in U /\ p \notin Freed(heap, n)
    BY <1>0, <1>1, ChildListed, SubIs
  <2>2. ASSUME NEW x \in U, heap[x].par # Null PROVE heap[x].par \in U
    <3>1. x \in Live(heap) /\ p \in Freed(heap, x)
      OBVIOUS
    <3>2. heap[x].par \in Live(heap) /\ x \in Freed(heap, heap[x].par)
      BY <2>2, <3>1, ChildListed
    <3>3. p \in Freed(heap, heap[x].par)
      BY <3>1, <3>2, <1>0, SubTrans
    <3> QED BY <3>2, <3>3
  <2>3. U \in SUBSET Live(heap) /\ n \notin U
    BY <2>1
  <2>4. Closure(heap, p, AboveOf(heap)) \subseteq U
    <3> HIDE DEF U, p
    <3> QED BY <2>1, <2>2, <2>3, <1>0, AboveIs
  <2> QED BY <2>3, <2>4
<1>2. ASSUME NEW n \in Live(heap), heap[n].par = Null
      PROVE  n \notin Closure(heap, heap[n].par, AboveOf(heap))
  <2>1. Closure(heap, Null, AboveOf(heap)) \subseteq {}
    <3>1. {} \in SUBSET Live(heap) /\ Null \in Live(heap) \cup {Null}
      OBVIOUS
    <3>2. \A U \in SUBSET Live(heap) :
             (Null # Null => Null \in U) /\ (\A x \in U : heap[x].par # Null => heap[x].par \in U)
             => Closure(heap, Null, AboveOf(heap)) \subseteq U
      BY <3>1, <1>0, AboveIs
    <3> QED BY <3>1, <3>2
  <2> QED BY <1>2, <2>1
<1>3. ASSUME NEW n \in Live(heap)
      PROVE  n \notin Closure(heap, heap[n].first, BelowOf(heap))
  <2>1. CASE heap[n].first = Null
    BY <2>1, <1>0, BelowIs
  <2>2. CASE heap[n].first # Null
    <3>1. Edge(heap, n, heap[n].first)
      BY <2>2 DEF Edge
    <3>2. heap[n].first \in Live(heap) /\ n \notin Freed(heap, heap[n].first)
      BY <3>1, NotBack
    <3> QED BY <3>2, <1>0, LinesInSub
  <2> QED BY <2>1, <2>2
<1>4. ASSUME NEW n \in Live(heap)
      PROVE  LET r == heap[n] IN
             /\ {r.par, r.first, r.next, r.prev, r.attr} \subseteq Live(heap) \cup {Null}
             /\ r.next # Null => heap[r.next].prev = n /\ heap[r.next].par = r.par
             /\ r.prev # Null => heap[r.prev].next = n
             /\ r.first # Null => heap[r.first].prev = Null /\ heap[r.first].par = n
             /\ r.attr # Null => heap[r.attr].prev = Null /\ heap[r.attr].t = "attribute"
  BY <1>0 DEF Wf, Links, IsAttr
<1>5. TreeShape
  BY <1>1, <1>2, <1>3, <1>4, ChildListed DEF TreeShape
<1>6. OwnedBy(R)
  BY <1>0, OneRoot DEF OwnedBy, Rooted
<1> QED BY <1>5, <1>6

-----------------------------------------------------------------------------
(* Changes of a forest *)

\* Node n is the same in h and g, as far as its kind and its pointers go.
Alike(h, g, n) ==
    /\ DOMAIN g[n] = Fields /\ g[n].t = h[n].t
    /\ g[n].par = h[n].par /\ g[n].first = h[n].first /\ g[n].next = h[n].next
    /\ g[n].prev = h[n].prev /\ g[n].attr = h[n].attr

\* A change of other fields leaves the forest as it is.
LEMMA SameTree ==
  ASSUME NEW h, NEW R, Tree(h, R), NEW g, Live(g) = Live(h), \A n \in Live(h) : Alike(h, g, n)
  PROVE  Tree(g, R)
<1>1. Wf(h) /\ Links(h) /\ Rooted(h, R) /\ Acyclic(h)
  BY DEF Tree
<1>2. Wf(g)
  BY <1>1 DEF Wf, Alike
<1>3. Links(g)
  BY <1>1 DEF Links, Alike, Wf, IsAttr
<1>4. Rooted(g, R)
  BY <1>1 DEF Rooted, Alike, IsAttr
<1>5. Acyclic(g)
  <2>1. \A a, b \in Live(h) : Edge(g, a, b) <=> Edge(h, a, b)
    BY DEF Edge, Alike
  <2> QED BY <2>1, <1>1 DEF Acyclic
<1> QED BY <1>2, <1>3, <1>4, <1>5 DEF Tree

\* A new node is a new root.
LEMMA PutTree ==
  ASSUME NEW h, NEW R, Tree(h, R), NEW g, NEW n \in Nat, n # Null, n \notin Live(h),
         Live(g) = Live(h) \cup {n}, \A m \in Live(h) : Alike(h, g, m),
         DOMAIN g[n] = Fields, g[n].t \in {"document", "element", "attribute", "text", "cdata"},
         g[n].par = Null, g[n].first = Null, g[n].next = Null, g[n].prev = Null, g[n].attr = Null
  PROVE  Tree(g, R \cup {n})
<1>1. Wf(h) /\ Links(h) /\ Rooted(h, R) /\ Acyclic(h)
  BY DEF Tree
<1>0. \A m \in Live(h) : /\ h[m].par # n /\ h[m].first # n /\ h[m].next # n
                         /\ h[m].prev # n /\ h[m].attr # n
  BY <1>1 DEF Wf
<1>2. Wf(g)
  <2>1. IsFiniteSet(Live(g))
    BY <1>1, FS_AddElement DEF Wf
  <2> QED BY <2>1, <1>1 DEF Wf, Alike
<1>3. Links(g)
  BY <1>1 DEF Links, Alike, Wf, IsAttr
<1>4. Rooted(g, R \cup {n})
  <2>1. ASSUME NEW m \in R \cup {n}
        PROVE /\ g[m].par = Null /\ g[m].next = Null /\ g[m].prev = Null
              /\ \A k \in Live(g) : g[k].attr # m
    BY <1>1, <1>0 DEF Rooted, Alike, Wf
  <2>2. ASSUME NEW m \in Live(g), ~ IsAttr(g, m), g[m].par = Null PROVE m \in R \cup {n}
    BY <2>2, <1>1 DEF Rooted, Alike, IsAttr
  <2>3. ASSUME NEW m \in Live(g), IsAttr(g, m), m \notin R \cup {n}, g[m].prev = Null
        PROVE  \E k \in Live(g) : g[k].attr = m
    <3>1. m \in Live(h) /\ IsAttr(h, m) /\ m \notin R /\ h[m].prev = Null
      BY <2>3 DEF Alike, IsAttr
    <3>2. PICK k \in Live(h) : h[k].attr = m
      BY <3>1, <1>1 DEF Rooted
    <3> QED BY <3>2 DEF Alike
  <2> QED BY <2>1, <2>2, <2>3, <1>1 DEF Rooted
<1>5. Acyclic(g)
  <2>1. \A a, b \in Live(g) : Edge(g, a, b) => a \in Live(h) /\ b \in Live(h) /\ Edge(h, a, b)
    BY <1>0 DEF Edge, Alike
  <2>2. ASSUME NEW S \in SUBSET Live(g), S # {} PROVE \E s \in S : \A a \in S : ~ Edge(g, a, s)
    <3>1. CASE n \in S
      BY <3>1, <2>1
    <3>2. CASE n \notin S
      <4>1. S \in SUBSET Live(h)
        BY <3>2
      <4>2. PICK s \in S : \A a \in S : ~ Edge(h, a, s)
        BY <4>1, <2>2, <1>1 DEF Acyclic
      <4> QED BY <4>2, <2>1
    <3> QED BY <3>1, <3>2
  <2> QED BY <2>2 DEF Acyclic
<1> QED BY <1>2, <1>3, <1>4, <1>5 DEF Tree

\* c is taken out of its list: what pointed at it points at its neighbour.
Out(h, g, c) ==
    /\ Live(g) = Live(h)
    /\ \A n \in Live(h) :
         /\ DOMAIN g[n] = Fields /\ g[n].t = h[n].t
         /\ g[n].par = IF n = c THEN Null ELSE h[n].par
         /\ g[n].next = IF n = c THEN Null ELSE IF n = h[c].prev THEN h[c].next ELSE h[n].next
         /\ g[n].prev = IF n = c THEN Null ELSE IF n = h[c].next THEN h[c].prev ELSE h[n].prev
         /\ g[n].first = IF h[n].first = c THEN h[c].next ELSE h[n].first
         /\ g[n].attr = IF h[n].attr = c THEN h[c].next ELSE h[n].attr

\* A node that is taken out of its list is a new root.
LEMMA OutTree ==
  ASSUME NEW h, NEW R, Tree(h, R), NEW c \in Live(h), NEW g, Out(h, g, c)
  PROVE  Tree(g, R \cup {c})
<1>1. Wf(h) /\ Links(h) /\ Rooted(h, R) /\ Acyclic(h) /\ Live(g) = Live(h) /\ Null \notin Live(h)
  BY DEF Tree, Out, Wf
<1>0. h[c].next # c /\ h[c].prev # c /\ h[c].first # c /\ h[c].attr # c
  <2>1. ~ Edge(h, c, c)
    BY NotBack
  <2>2. h[c].next # c /\ h[c].first # c /\ h[c].attr # c
    BY <2>1, <1>1 DEF Edge
  <2> QED BY <2>2, <1>1 DEF Links
<1>2. Wf(g)
  BY <1>1 DEF Wf, Out
<1> DEFINE x == h[c].next
           y == h[c].prev
<1>3. /\ x \in Live(h) \cup {Null} /\ y \in Live(h) \cup {Null}
      /\ x # Null => h[x].prev = c /\ h[x].par = h[c].par /\ (IsAttr(h, x) <=> IsAttr(h, c))
      /\ y # Null => h[y].next = c /\ h[y].par = h[c].par /\ (IsAttr(h, y) <=> IsAttr(h, c))
  BY <1>1 DEF Wf, Links
<1>4. \A n \in Live(h) : IsAttr(g, n) <=> IsAttr(h, n)
  BY DEF IsAttr, Out
<1>5. ASSUME NEW n \in Live(h), g[n].next # Null
      PROVE  /\ g[g[n].next].prev = n /\ g[g[n].next].par = g[n].par
             /\ IsAttr(g, g[n].next) <=> IsAttr(g, n)
  BY <1>0, <1>1, <1>3, <1>4, <1>5 DEF Out, Links, Wf
<1>6. ASSUME NEW n \in Live(h), g[n].prev # Null PROVE g[g[n].prev].next = n
  BY <1>0, <1>1, <1>3, <1>6 DEF Out, Links, Wf
<1>7. ASSUME NEW n \in Live(h), g[n].first # Null
      PROVE  g[g[n].first].prev = Null /\ g[g[n].first].par = n /\ ~ IsAttr(g, g[n].first)
  BY <1>0, <1>1, <1>3, <1>4, <1>7 DEF Out, Links, Wf
<1>8. ASSUME NEW n \in Live(h), g[n].attr # Null
      PROVE  g[g[n].attr].prev = Null /\ IsAttr(g, g[n].attr)
  BY <1>0, <1>1, <1>3, <1>4, <1>8 DEF Out, Links, Wf
<1>9. ASSUME NEW n \in Live(h), IsAttr(g, n)
      PROVE  g[n].par = Null /\ g[n].first = Null /\ g[n].attr = Null
  BY <1>1, <1>4, <1>9 DEF Out, Links
<1>10. ASSUME NEW n \in Live(h), NEW k \in Live(h), g[n].attr # Null, g[n].attr = g[k].attr
       PROVE  n = k
  BY <1>0, <1>1, <1>3, <1>10 DEF Out, Links, Wf
<1>11. ASSUME NEW n \in Live(h), g[n].par # Null, g[n].prev = Null PROVE g[g[n].par].first = n
  BY <1>0, <1>1, <1>3, <1>11 DEF Out, Links, Wf
<1>12. Links(g)
  BY <1>1, <1>5, <1>6, <1>7, <1>8, <1>9, <1>10, <1>11 DEF Links
<1>13. Rooted(g, R \cup {c})
  <2>1. ASSUME NEW n \in R \cup {c}
        PROVE /\ g[n].par = Null /\ g[n].next = Null /\ g[n].prev = Null
              /\ \A k \in Live(h) : g[k].attr # n
    BY <1>0, <1>1, <1>3 DEF Out, Rooted, Links, Wf
  <2>2. ASSUME NEW n \in Live(h), ~ IsAttr(g, n), g[n].par = Null PROVE n \in R \cup {c}
    BY <2>2, <1>1, <1>4 DEF Out, Rooted
  <2>3. ASSUME NEW n \in Live(h), IsAttr(g, n), n \notin R \cup {c}, g[n].prev = Null
        PROVE  \E k \in Live(h) : g[k].attr = n
    <3>1. IsAttr(h, n) /\ n \notin R
      BY <2>3, <1>4
    <3>2. CASE h[n].prev = Null
      BY <3>1, <3>2, <2>3, <1>1 DEF Out, Rooted
    <3>3. CASE h[n].prev # Null
      <4>1. n = x /\ y = Null /\ IsAttr(h, c) /\ c \notin R
        BY <3>1, <3>3, <2>3, <1>1, <1>3 DEF Out, Rooted
      <4>2. PICK k \in Live(h) : h[k].attr = c
        BY <4>1, <1>1 DEF Rooted
      <4> QED BY <4>1, <4>2 DEF Out
    <3> QED BY <3>2, <3>3
  <2> QED BY <2>1, <2>2, <2>3, <1>1 DEF Rooted
<1>14. Acyclic(g)
  <2>1. \A a \in Live(h) : ~ Edge(g, a, c)
    BY <1>0, <1>1, <1>3 DEF Edge, Out, Links
  <2>2. ASSUME NEW a \in Live(h), NEW b \in Live(h), Edge(g, a, b), b # c
        PROVE  Edge(h, a, b) \/ (Edge(h, a, c) /\ Edge(h, c, b))
    BY <1>0, <1>1, <1>3, <2>2 DEF Edge, Out
  <2>3. ASSUME NEW S \in SUBSET Live(h), S # {} PROVE \E s \in S : \A a \in S : ~ Edge(g, a, s)
    <3>1. CASE c \in S
      BY <3>1, <2>1
    <3>2. CASE c \notin S /\ \E a \in S : Edge(h, a, c)
      <4>1. S \cup {c} \in SUBSET Live(h) /\ S \cup {c} # {}
        OBVIOUS
      <4>2. PICK s \in S \cup {c} : \A a \in S \cup {c} : ~ Edge(h, a, s)
        BY <4>1, <1>1 DEF Acyclic
      <4> QED BY <4>2, <3>2, <2>2
    <3>3. CASE c \notin S /\ ~ \E a \in S : Edge(h, a, c)
      <4>2. PICK s \in S : \A a \in S : ~ Edge(h, a, s)
        BY <2>3, <1>1 DEF Acyclic
      <4> QED BY <4>2, <3>3, <2>2
    <3> QED BY <3>1, <3>2, <3>3
  <2> QED BY <2>3, <1>1 DEF Acyclic
<1> QED BY <1>2, <1>12, <1>13, <1>14 DEF Tree

\* Hanging c at a, which is not below c, makes no cycle.
LEMMA Grafted ==
  ASSUME NEW h, Wf(h), Acyclic(h), NEW g, Live(g) = Live(h),
         NEW a \in Live(h), NEW c \in Live(h), a \notin Freed(h, c),
         \A x, y \in Live(h) : Edge(g, x, y) =>
            IF y = c THEN x = a ELSE Edge(h, x, y) \/ (x = c /\ Edge(h, a, y))
  PROVE  Acyclic(g)
<1>1. ASSUME NEW S \in SUBSET Live(h), S # {} PROVE \E s \in S : \A x \in S : ~ Edge(g, x, s)
  <2>1. CASE c \notin S
    <3>1. PICK s \in S : \A x \in S : ~ Edge(h, x, s)
      BY <1>1 DEF Acyclic
    <3> QED BY <3>1, <2>1
  <2>2. CASE c \in S /\ a \notin S
    BY <2>2
  <2>3. CASE c \in S /\ a \in S
    <3> DEFINE T == S \ Freed(h, c)
    <3>1. T \in SUBSET Live(h) /\ a \in T
      BY <2>3
    <3>2. PICK s \in T : \A x \in T : ~ Edge(h, x, s)
      <4> HIDE DEF T
      <4> QED BY <3>1 DEF Acyclic
    <3>3. s # c
      BY SubIs
    <3>4. ASSUME NEW x \in S, Edge(g, x, s) PROVE FALSE
      <4>1. Edge(h, x, s) \/ (x = c /\ Edge(h, a, s))
        BY <3>3, <3>4
      <4>2. ~ Edge(h, a, s)
        BY <3>1, <3>2
      <4>3. x \in Freed(h, c)
        BY <3>2, <4>1, <4>2
      <4> QED BY <4>1, <4>2, <4>3, SubIs
    <3> QED BY <3>4
  <2> QED BY <2>1, <2>2, <2>3
<1> QED BY <1>1 DEF Acyclic

\* The root c is put behind a, in front of what followed a.
After(h, g, a, c) ==
    /\ Live(g) = Live(h)
    /\ \A n \in Live(h) :
         /\ DOMAIN g[n] = Fields /\ g[n].t = h[n].t
         /\ g[n].par = IF n = c THEN h[a].par ELSE h[n].par
         /\ g[n].next = IF n = c THEN h[a].next ELSE IF n = a THEN c ELSE h[n].next
         /\ g[n].prev = IF n = c THEN a ELSE IF n = h[a].next THEN c ELSE h[n].prev
         /\ g[n].first = h[n].first /\ g[n].attr = h[n].attr

\* A root that is put behind a node is no root any more.
LEMMA AfterTree ==
  ASSUME NEW h, NEW R, Tree(h, R), NEW c \in R, NEW a \in Live(h), a \notin R,
         a \notin Freed(h, c), IsAttr(h, a) <=> IsAttr(h, c), NEW g, After(h, g, a, c)
  PROVE  Tree(g, R \ {c})
<1>1. /\ Wf(h) /\ Links(h) /\ Rooted(h, R) /\ Acyclic(h) /\ Live(g) = Live(h)
      /\ Null \notin Live(h) /\ c \in Live(h) /\ c # a
  BY DEF Tree, After, Wf, Rooted
<1> DEFINE x == h[a].next
<1>2. /\ h[c].next = Null /\ h[c].prev = Null /\ h[c].par = Null /\ \A k \in Live(h) : h[k].attr # c
      /\ \A k \in Live(h) : h[k].next # c /\ h[k].prev # c /\ h[k].first # c
      /\ x # a /\ x \in Live(h) \cup {Null}
      /\ x # Null => h[x].prev = a /\ h[x].par = h[a].par /\ (IsAttr(h, x) <=> IsAttr(h, a))
  <2>1. h[c].next = Null /\ h[c].prev = Null /\ h[c].par = Null /\ \A k \in Live(h) : h[k].attr # c
    BY <1>1 DEF Rooted
  <2>2. \A k \in Live(h) : h[k].next # c /\ h[k].prev # c /\ h[k].first # c
    BY <2>1, <1>1 DEF Links
  <2>3. x # a
    <3>1. ~ Edge(h, a, a)
      BY NotBack
    <3> QED BY <3>1, <1>1 DEF Edge
  <2> QED BY <2>1, <2>2, <2>3, <1>1 DEF Links, Wf
<1>3. Wf(g)
  BY <1>1, <1>2 DEF Wf, After
<1>4. \A n \in Live(h) : IsAttr(g, n) <=> IsAttr(h, n)
  BY DEF IsAttr, After
<1>5. ASSUME NEW n \in Live(h), g[n].next # Null
      PROVE  /\ g[g[n].next].prev = n /\ g[g[n].next].par = g[n].par
             /\ IsAttr(g, g[n].next) <=> IsAttr(g, n)
  BY <1>1, <1>2, <1>4, <1>5 DEF After, Links, Wf
<1>6. ASSUME NEW n \in Live(h), g[n].prev # Null PROVE g[g[n].prev].next = n
  BY <1>1, <1>2, <1>6 DEF After, Links, Wf
<1>7. ASSUME NEW n \in Live(h), g[n].first # Null
      PROVE  g[g[n].first].prev = Null /\ g[g[n].first].par = n /\ ~ IsAttr(g, g[n].first)
  BY <1>1, <1>2, <1>4, <1>7 DEF After, Links, Wf
<1>8. ASSUME NEW n \in Live(h), g[n].attr # Null
      PROVE  g[g[n].attr].prev = Null /\ IsAttr(g, g[n].attr)
  BY <1>1, <1>2, <1>4, <1>8 DEF After, Links, Wf
<1>9. ASSUME NEW n \in Live(h), IsAttr(g, n)
      PROVE  g[n].par = Null /\ g[n].first = Null /\ g[n].attr = Null
  BY <1>1, <1>4, <1>9 DEF After, Links
<1>10. ASSUME NEW n \in Live(h), NEW k \in Live(h), g[n].attr # Null, g[n].attr = g[k].attr
       PROVE  n = k
  BY <1>1, <1>10 DEF After, Links
<1>11. ASSUME NEW n \in Live(h), g[n].par # Null, g[n].prev = Null PROVE g[g[n].par].first = n
  BY <1>1, <1>2, <1>11 DEF After, Links, Wf
<1>12. Links(g)
  BY <1>1, <1>5, <1>6, <1>7, <1>8, <1>9, <1>10, <1>11 DEF Links
<1>13. Rooted(g, R \ {c})
  <2>1. ASSUME NEW n \in R \ {c}
        PROVE /\ g[n].par = Null /\ g[n].next = Null /\ g[n].prev = Null
              /\ \A k \in Live(h) : g[k].attr # n
    BY <1>1, <1>2 DEF After, Rooted
  <2>2. ASSUME NEW n \in Live(h), ~ IsAttr(g, n), g[n].par = Null PROVE n \in R \ {c}
    BY <2>2, <1>1, <1>4 DEF After, Rooted
  <2>3. ASSUME NEW n \in Live(h), IsAttr(g, n), n \notin R \ {c}, g[n].prev = Null
        PROVE  \E k \in Live(h) : g[k].attr = n
    <3>1. n # c /\ IsAttr(h, n) /\ n \notin R /\ h[n].prev = Null
      BY <2>3, <1>1, <1>4 DEF After
    <3>2. PICK k \in Live(h) : h[k].attr = n
      BY <3>1, <1>1 DEF Rooted
    <3> QED BY <3>2 DEF After
  <2> QED BY <2>1, <2>2, <2>3, <1>1 DEF Rooted
<1>14. Acyclic(g)
  <2>1. ASSUME NEW u \in Live(h), NEW v \in Live(h), Edge(g, u, v)
        PROVE  IF v = c THEN u = a ELSE Edge(h, u, v) \/ (u = c /\ Edge(h, a, v))
    BY <2>1, <1>1, <1>2 DEF Edge, After
  <2> QED BY <2>1, <1>1, Grafted
<1> QED BY <1>3, <1>12, <1>13, <1>14 DEF Tree

\* The root c becomes the first child of p.
AsFirst(h, g, p, c) ==
    /\ Live(g) = Live(h)
    /\ \A n \in Live(h) :
         /\ DOMAIN g[n] = Fields /\ g[n].t = h[n].t
         /\ g[n].par = IF n = c THEN p ELSE h[n].par
         /\ g[n].next = IF n = c THEN h[p].first ELSE h[n].next
         /\ g[n].prev = IF n = h[p].first THEN c ELSE h[n].prev
         /\ g[n].first = IF n = p THEN c ELSE h[n].first
         /\ g[n].attr = h[n].attr

\* So is one that becomes a first child.
LEMMA FirstTree ==
  ASSUME NEW h, NEW R, Tree(h, R), NEW c \in R, NEW p \in Live(h),
         p \notin Freed(h, c), ~ IsAttr(h, p), ~ IsAttr(h, c), NEW g, AsFirst(h, g, p, c)
  PROVE  Tree(g, R \ {c})
<1>1. /\ Wf(h) /\ Links(h) /\ Rooted(h, R) /\ Acyclic(h) /\ Live(g) = Live(h)
      /\ Null \notin Live(h) /\ c \in Live(h)
  BY DEF Tree, AsFirst, Wf, Rooted
<1>0. c # p
  BY <1>1, SubIs
<1> DEFINE x == h[p].first
<1>2. /\ h[c].next = Null /\ h[c].prev = Null /\ h[c].par = Null /\ \A k \in Live(h) : h[k].attr # c
      /\ \A k \in Live(h) : h[k].next # c /\ h[k].prev # c /\ h[k].first # c
      /\ x # p /\ x \in Live(h) \cup {Null}
      /\ x # Null => h[x].prev = Null /\ h[x].par = p /\ ~ IsAttr(h, x)
  <2>1. h[c].next = Null /\ h[c].prev = Null /\ h[c].par = Null /\ \A k \in Live(h) : h[k].attr # c
    BY <1>1 DEF Rooted
  <2>2. \A k \in Live(h) : h[k].next # c /\ h[k].prev # c /\ h[k].first # c
    BY <2>1, <1>1 DEF Links
  <2>3. x # p
    <3>1. ~ Edge(h, p, p)
      BY NotBack
    <3> QED BY <3>1, <1>1 DEF Edge
  <2> QED BY <2>1, <2>2, <2>3, <1>1 DEF Links, Wf
<1>3. Wf(g)
  BY <1>1, <1>2 DEF Wf, AsFirst
<1>4. \A n \in Live(h) : IsAttr(g, n) <=> IsAttr(h, n)
  BY DEF IsAttr, AsFirst
<1>5. ASSUME NEW n \in Live(h), g[n].next # Null
      PROVE  /\ g[g[n].next].prev = n /\ g[g[n].next].par = g[n].par
             /\ IsAttr(g, g[n].next) <=> IsAttr(g, n)
  BY <1>0, <1>1, <1>2, <1>4, <1>5 DEF AsFirst, Links, Wf
<1>6. ASSUME NEW n \in Live(h), g[n].prev # Null PROVE g[g[n].prev].next = n
  BY <1>0, <1>1, <1>2, <1>6 DEF AsFirst, Links, Wf
<1>7. ASSUME NEW n \in Live(h), g[n].first # Null
      PROVE  g[g[n].first].prev = Null /\ g[g[n].first].par = n /\ ~ IsAttr(g, g[n].first)
  BY <1>0, <1>1, <1>2, <1>4, <1>7 DEF AsFirst, Links, Wf
<1>8. ASSUME NEW n \in Live(h), g[n].attr # Null
      PROVE  g[g[n].attr].prev = Null /\ IsAttr(g, g[n].attr)
  BY <1>1, <1>2, <1>4, <1>8 DEF AsFirst, Links, Wf
<1>9. ASSUME NEW n \in Live(h), IsAttr(g, n)
      PROVE  g[n].par = Null /\ g[n].first = Null /\ g[n].attr = Null
  BY <1>1, <1>4, <1>9 DEF AsFirst, Links
<1>10. ASSUME NEW n \in Live(h), NEW k \in Live(h), g[n].attr # Null, g[n].attr = g[k].attr
       PROVE  n = k
  BY <1>1, <1>10 DEF AsFirst, Links
<1>11. ASSUME NEW n \in Live(h), g[n].par # Null, g[n].prev = Null PROVE g[g[n].par].first = n
  BY <1>0, <1>1, <1>2, <1>11 DEF AsFirst, Links, Wf
<1>12. Links(g)
  BY <1>1, <1>5, <1>6, <1>7, <1>8, <1>9, <1>10, <1>11 DEF Links
<1>13. Rooted(g, R \ {c})
  <2>1. ASSUME NEW n \in R \ {c}
        PROVE /\ g[n].par = Null /\ g[n].next = Null /\ g[n].prev = Null
              /\ \A k \in Live(h) : g[k].attr # n
    BY <1>1, <1>2 DEF AsFirst, Rooted
  <2>2. ASSUME NEW n \in Live(h), ~ IsAttr(g, n), g[n].par = Null PROVE n \in R \ {c}
    BY <2>2, <1>1, <1>4 DEF AsFirst, Rooted
  <2>3. ASSUME NEW n \in Live(h), IsAttr(g, n), n \notin R \ {c}, g[n].prev = Null
        PROVE  \E k \in Live(h) : g[k].attr = n
    <3>1. n # c /\ IsAttr(h, n) /\ n \notin R /\ h[n].prev = Null
      BY <2>3, <1>1, <1>4 DEF AsFirst
    <3>2. PICK k \in Live(h) : h[k].attr = n
      BY <3>1, <1>1 DEF Rooted
    <3> QED BY <3>2 DEF AsFirst
  <2> QED BY <2>1, <2>2, <2>3, <1>1 DEF Rooted
<1>14. Acyclic(g)
  <2>1. ASSUME NEW u \in Live(h), NEW v \in Live(h), Edge(g, u, v)
        PROVE  IF v = c THEN u = p ELSE Edge(h, u, v) \/ (u = c /\ Edge(h, p, v))
    BY <2>1, <1>0, <1>1, <1>2 DEF Edge, AsFirst
  <2> QED BY <2>1, <1>1, Grafted
<1> QED BY <1>3, <1>12, <1>13, <1>14 DEF Tree

\* The root c becomes the only attribute of e.
AsAttr(h, g, e, c) ==
    /\ Live(g) = Live(h)
    /\ \A n \in Live(h) :
         /\ DOMAIN g[n] = Fields /\ g[n].t = h[n].t
         /\ g[n].par = h[n].par /\ g[n].next = h[n].next
         /\ g[n].prev = h[n].prev /\ g[n].first = h[n].first
         /\ g[n].attr = IF n = e THEN c ELSE h[n].attr

\* So is one that becomes an attribute.
LEMMA AttrTree ==
  ASSUME NEW h, NEW R, Tree(h, R), NEW c \in R, NEW e \in Live(h), h[e].attr = Null,
         e \notin Freed(h, c), ~ IsAttr(h, e), IsAttr(h, c), NEW g, AsAttr(h, g, e, c)
  PROVE  Tree(g, R \ {c})
<1>1. /\ Wf(h) /\ Links(h) /\ Rooted(h, R) /\ Acyclic(h) /\ Live(g) = Live(h)
      /\ Null \notin Live(h) /\ c \in Live(h)
  BY DEF Tree, AsAttr, Wf, Rooted
<1>0. c # e
  BY <1>1, SubIs
<1>2. /\ h[c].next = Null /\ h[c].prev = Null /\ h[c].par = Null /\ \A k \in Live(h) : h[k].attr # c
      /\ \A k \in Live(h) : h[k].next # c /\ h[k].prev # c /\ h[k].first # c
  <2>1. h[c].next = Null /\ h[c].prev = Null /\ h[c].par = Null /\ \A k \in Live(h) : h[k].attr # c
    BY <1>1 DEF Rooted
  <2>2. \A k \in Live(h) : h[k].next # c /\ h[k].prev # c /\ h[k].first # c
    BY <2>1, <1>1 DEF Links
  <2> QED BY <2>1, <2>2
<1>3. Wf(g)
  BY <1>1, <1>2 DEF Wf, AsAttr
<1>4. \A n \in Live(h) : IsAttr(g, n) <=> IsAttr(h, n)
  BY DEF IsAttr, AsAttr
<1>5. ASSUME NEW n \in Live(h), g[n].next # Null
      PROVE  /\ g[g[n].next].prev = n /\ g[g[n].next].par = g[n].par
             /\ IsAttr(g, g[n].next) <=> IsAttr(g, n)
  BY <1>1, <1>4, <1>5 DEF AsAttr, Links, Wf
<1>6. ASSUME NEW n \in Live(h), g[n].prev # Null PROVE g[g[n].prev].next = n
  BY <1>1, <1>6 DEF AsAttr, Links, Wf
<1>7. ASSUME NEW n \in Live(h), g[n].first # Null
      PROVE  g[g[n].first].prev = Null /\ g[g[n].first].par = n /\ ~ IsAttr(g, g[n].first)
  BY <1>1, <1>4, <1>7 DEF AsAttr, Links, Wf
<1>8. ASSUME NEW n \in Live(h), g[n].attr # Null
      PROVE  g[g[n].attr].prev = Null /\ IsAttr(g, g[n].attr)
  BY <1>1, <1>2, <1>4, <1>8 DEF AsAttr, Links, Wf
<1>9. ASSUME NEW n \in Live(h), IsAttr(g, n)
      PROVE  g[n].par = Null /\ g[n].first = Null /\ g[n].attr = Null
  BY <1>1, <1>4, <1>9 DEF AsAttr, Links
<1>10. ASSUME NEW n \in Live(h), NEW k \in Live(h), g[n].attr # Null, g[n].attr = g[k].attr
       PROVE  n = k
  BY <1>1, <1>2, <1>10 DEF AsAttr, Links
<1>11. ASSUME NEW n \in Live(h), g[n].par # Null, g[n].prev = Null PROVE g[g[n].par].first = n
  BY <1>1, <1>11 DEF AsAttr, Links, Wf
<1>12. Links(g)
  BY <1>1, <1>5, <1>6, <1>7, <1>8, <1>9, <1>10, <1>11 DEF Links
<1>13. Rooted(g, R \ {c})
  <2>1. ASSUME NEW n \in R \ {c}
        PROVE /\ g[n].par = Null /\ g[n].next = Null /\ g[n].prev = Null
              /\ \A k \in Live(h) : g[k].attr # n
    BY <1>1, <1>2 DEF AsAttr, Rooted
  <2>2. ASSUME NEW n \in Live(h), ~ IsAttr(g, n), g[n].par = Null PROVE n \in R \ {c}
    BY <2>2, <1>1, <1>4 DEF AsAttr, Rooted
  <2>3. ASSUME NEW n \in Live(h), IsAttr(g, n), n \notin R \ {c}, g[n].prev = Null
        PROVE  \E k \in Live(h) : g[k].attr = n
    <3>1. CASE n = c
      BY <3>1 DEF AsAttr
    <3>2. CASE n # c
      <4>1. IsAttr(h, n) /\ n \notin R /\ h[n].prev = Null
        BY <2>3, <3>2, <1>1, <1>4 DEF AsAttr
      <4>2. PICK k \in Live(h) : h[k].attr = n
        BY <4>1, <1>1 DEF Rooted
      <4>3. k # e
        BY <4>2, <1>1
      <4> QED BY <4>2, <4>3 DEF AsAttr
    <3> QED BY <3>1, <3>2
  <2> QED BY <2>1, <2>2, <2>3, <1>1 DEF Rooted
<1>14. Acyclic(g)
  <2>1. ASSUME NEW u \in Live(h), NEW v \in Live(h), Edge(g, u, v)
        PROVE  IF v = c THEN u = e ELSE Edge(h, u, v) \/ (u = c /\ Edge(h, e, v))
    BY <2>1, <1>0, <1>1, <1>2 DEF Edge, AsAttr
  <2> QED BY <2>1, <1>1, Grafted
<1> QED BY <1>3, <1>12, <1>13, <1>14 DEF Tree

\* ixmlNode_free on a root leaves the forest of the other roots.
LEMMA FreeTree ==
  ASSUME NEW h, NEW R, Tree(h, R), NEW n \in R
  PROVE  /\ Tree(Free(h, n), R \ {n})
         /\ Live(Free(h, n)) = Live(h) \ Freed(h, n)
         /\ \A m \in Live(h) \ Freed(h, n) : Free(h, n)[m] = h[m]
<1>1. /\ Wf(h) /\ Links(h) /\ Rooted(h, R) /\ Acyclic(h)
      /\ Null \notin Live(h) /\ n \in Live(h)
  BY DEF Tree, Wf, Rooted
<1> DEFINE g == Free(h, n)
           L == Live(h) \ Freed(h, n)
<1>2. Live(g) = L /\ \A m \in L : g[m] = h[m]
  BY DEF Free, Live
<1>3. ASSUME NEW a \in L, NEW b \in Live(h), Edge(h, a, b) PROVE b \in L
  <2>1. SUFFICES ASSUME b \in Freed(h, n) PROVE FALSE
    OBVIOUS
  <2>2. b # n
    BY <1>3, <1>1, HasPred
  <2>3. PICK k \in Freed(h, n) : Edge(h, k, b)
    BY <2>1, <2>2, <1>1, SubPred
  <2>4. k = a
    BY <2>3, <1>3, <1>1, SubIs, OnePred
  <2> QED BY <2>3, <2>4
<1>4. ASSUME NEW m \in L
      PROVE  /\ h[m].par \in L \cup {Null} /\ h[m].first \in L \cup {Null}
             /\ h[m].next \in L \cup {Null} /\ h[m].prev \in L \cup {Null}
             /\ h[m].attr \in L \cup {Null}
  <2>1. /\ h[m].par \in Live(h) \cup {Null} /\ h[m].first \in Live(h) \cup {Null}
        /\ h[m].next \in Live(h) \cup {Null} /\ h[m].prev \in Live(h) \cup {Null}
        /\ h[m].attr \in Live(h) \cup {Null}
    BY <1>1 DEF Wf
  <2>2. /\ h[m].first \in L \cup {Null}
        /\ h[m].next \in L \cup {Null} /\ h[m].attr \in L \cup {Null}
    BY <2>1, <1>3 DEF Edge
  <2>3. ASSUME h[m].prev \in Freed(h, n) PROVE FALSE
    <3>1. h[m].prev \in Live(h) /\ h[h[m].prev].next = m
      BY <2>1, <2>3, <1>1, SubIs DEF Links
    <3>2. Edge(h, h[m].prev, m)
      BY <3>1, <1>1 DEF Edge
    <3> QED BY <3>2, <2>3, <1>1, SubIs
  <2>4. ASSUME h[m].par \in Freed(h, n) PROVE FALSE
    <3>1. h[m].par # Null
      BY <2>4, <1>1, SubIs
    <3>2. m \in Freed(h, h[m].par)
      BY <3>1, ChildListed
    <3> QED BY <3>2, <2>4, <1>1, SubTrans
  <2> QED BY <2>1, <2>2, <2>3, <2>4
<1>5. IsFiniteSet(L)
  BY <1>1, FS_Subset DEF Wf
<1> HIDE DEF g, L
<1>6. L \subseteq Live(h)
  BY DEF L
<1>7. Wf(g)
  BY <1>1, <1>2, <1>4, <1>5, <1>6 DEF Wf
<1>8. Links(g)
  BY <1>1, <1>2, <1>4, <1>6 DEF Links, IsAttr
<1>9. Rooted(g, R \ {n})
  <2>1. R \ {n} \subseteq L
    <3>1. ASSUME NEW m \in R, m # n, m \in Freed(h, n) PROVE FALSE
      <4>1. PICK a \in Freed(h, n) : Edge(h, a, m)
        BY <3>1, <1>1, SubPred
      <4> QED BY <4>1, <1>1, SubIs, HasPred DEF Rooted
    <3> QED BY <3>1, <1>1 DEF L, Rooted
  <2>2. \A m \in R \ {n} :
          /\ g[m].par = Null /\ g[m].next = Null /\ g[m].prev = Null
          /\ \A k \in L : g[k].attr # m
    BY <2>1, <1>1, <1>2, <1>6 DEF Rooted
  <2>3. \A m \in L : ~ IsAttr(g, m) /\ g[m].par = Null => m \in R \ {n}
    <3>1. n \notin L
      BY <1>1, SubIs DEF L
    <3> QED BY <3>1, <1>1, <1>2, <1>6 DEF Rooted, IsAttr
  <2>4. ASSUME NEW m \in L, IsAttr(g, m), m \notin R \ {n}, g[m].prev = Null
        PROVE  \E k \in L : g[k].attr = m
    <3>1. m # n
      BY <1>1, SubIs DEF L
    <3>2. PICK k \in Live(h) : h[k].attr = m
      BY <2>4, <3>1, <1>1, <1>2, <1>6 DEF Rooted, IsAttr
    <3>3. Edge(h, k, m)
      BY <3>2, <1>1, <1>6 DEF Edge
    <3>4. k \in L
      BY <3>3, <1>1, SubIs DEF L
    <3> QED BY <3>2, <3>4, <1>2
  <2> QED BY <2>1, <2>2, <2>3, <2>4, <1>2 DEF Rooted
<1>10. Acyclic(g)
  <2>1. \A a, b \in L : Edge(g, a, b) <=> Edge(h, a, b)
    BY <1>2 DEF Edge
  <2>2. \A S \in SUBSET L : S \in SUBSET Live(h)
    BY <1>6
  <2> QED BY <2>1, <2>2, <1>1, <1>2 DEF Acyclic
<1>11. Tree(g, R \ {n})
  BY <1>7, <1>8, <1>9, <1>10 DEF Tree
<1> QED BY <1>11, <1>2 DEF g, L

-----------------------------------------------------------------------------
(* Lists *)

\* ixmlNode_removeChild takes the child out of its list.
LEMMA UnlinkOut ==
  ASSUME NEW h, NEW R, Tree(h, R), NEW c \in Live(h), NEW p \in Live(h), h[c].par = p
  PROVE  Out(h, Unlink(h, p, c), c) /\ c \notin R /\ ~ IsAttr(h, c)
<1>1. Wf(h) /\ Links(h) /\ Rooted(h, R) /\ Null \notin Live(h)
  BY DEF Tree, Wf
<1>2. c \notin R /\ ~ IsAttr(h, c)
  BY <1>1 DEF Rooted, Links
<1>3. \A n \in Live(h) : h[n].attr # c /\ (h[n].first = c => n = p) /\ DOMAIN h[n] = Fields
  BY <1>1, <1>2 DEF Links, Wf
<1>4. h[c].first # c
  <2>1. ~ Edge(h, c, c)
    BY NotBack
  <2> QED BY <2>1, <1>1 DEF Edge
<1> DEFINE g == Unlink(h, p, c)
<1>5. Live(g) = Live(h)
  BY DEF Unlink, Live
<1>6. ASSUME NEW n \in Live(h)
      PROVE  /\ DOMAIN g[n] = Fields /\ g[n].t = h[n].t
             /\ g[n].par = IF n = c THEN Null ELSE h[n].par
             /\ g[n].next = IF n = c THEN Null ELSE IF n = h[c].prev THEN h[c].next ELSE h[n].next
             /\ g[n].prev = IF n = c THEN Null ELSE IF n = h[c].next THEN h[c].prev ELSE h[n].prev
             /\ g[n].first = IF h[n].first = c THEN h[c].next ELSE h[n].first
             /\ g[n].attr = IF h[n].attr = c THEN h[c].next ELSE h[n].attr
  BY <1>3, <1>4 DEF Unlink, Fields
<1> QED BY <1>2, <1>5, <1>6 DEF Out

\* The nodes of a list are alike, and its first one is the only one without a previous one.
LEMMA ListHead ==
  ASSUME NEW h, NEW R, Tree(h, R), NEW n \in Live(h), h[n].prev = Null, n \notin R
  PROVE  \A x \in Siblings(h, n) :
           /\ h[x].par = h[n].par /\ (IsAttr(h, x) <=> IsAttr(h, n))
           /\ x \notin R /\ (x # n => h[x].prev # Null)
<1>1. Wf(h) /\ Links(h) /\ Rooted(h, R) /\ Null \notin Live(h)
  BY DEF Tree, Wf
<1> DEFINE U == {x \in Live(h) :
                   /\ h[x].par = h[n].par /\ (IsAttr(h, x) <=> IsAttr(h, n))
                   /\ x \notin R /\ (x # n => h[x].prev # Null)}
<1>2. ASSUME NEW x \in U, h[x].next # Null PROVE h[x].next \in U
  <2>1. PICK y \in Live(h) : y = h[x].next
    BY <1>1, <1>2 DEF Wf
  <2>2. h[y].prev = x /\ h[y].par = h[x].par /\ (IsAttr(h, y) <=> IsAttr(h, x))
    BY <2>1, <1>1, <1>2 DEF Links
  <2>3. y \notin R
    BY <2>2, <1>1 DEF Rooted
  <2> QED BY <2>1, <2>2, <2>3, <1>1
<1>3. n \in U /\ U \in SUBSET Live(h)
  OBVIOUS
<1>4. Siblings(h, n) \subseteq U
  <2> HIDE DEF U
  <2> QED BY <1>2, <1>3, <1>1, SiblingsIs
<1> QED BY <1>4

\* The siblings of y are y and those of the next node.
LEMMA NextSiblings ==
  ASSUME NEW h, Wf(h), NEW y \in Live(h)
  PROVE  /\ h[y].next \in Live(h) \cup {Null}
         /\ Siblings(h, y) \subseteq {y} \cup Siblings(h, h[y].next)
         /\ Siblings(h, h[y].next) \subseteq Siblings(h, y)
<1> DEFINE x == h[y].next
<1>1. x \in Live(h) \cup {Null} /\ Null \notin Live(h)
  BY DEF Wf
<1>2. PICK z : z = x
  OBVIOUS
<1>3. /\ Siblings(h, z) \subseteq Live(h) /\ (z # Null => z \in Siblings(h, z))
      /\ \A u \in Siblings(h, z) : h[u].next # Null => h[u].next \in Siblings(h, z)
      /\ \A U \in SUBSET Live(h) :
              (z # Null => z \in U) /\ (\A u \in U : h[u].next # Null => h[u].next \in U)
              => Siblings(h, z) \subseteq U
  BY <1>1, <1>2, SiblingsIs
<1>4. /\ Siblings(h, y) \subseteq Live(h) /\ y \in Siblings(h, y)
      /\ \A u \in Siblings(h, y) : h[u].next # Null => h[u].next \in Siblings(h, y)
      /\ \A U \in SUBSET Live(h) :
              y \in U /\ (\A u \in U : h[u].next # Null => h[u].next \in U)
              => Siblings(h, y) \subseteq U
  BY <1>1, SiblingsIs
<1>5. Siblings(h, y) \subseteq {y} \cup Siblings(h, z)
  <2>1. {y} \cup Siblings(h, z) \in SUBSET Live(h)
    BY <1>3
  <2>2. \A u \in {y} \cup Siblings(h, z) : h[u].next # Null => h[u].next \in {y} \cup Siblings(h, z)
    BY <1>3, <1>2
  <2> QED BY <2>1, <2>2, <1>4
<1>6. Siblings(h, z) \subseteq Siblings(h, y)
  BY <1>3, <1>4, <1>2
<1> QED BY <1>1, <1>2, <1>5, <1>6

\* A list has a last node.
LEMMA LastIs ==
  ASSUME NEW h, NEW R, Tree(h, R), NEW n \in Live(h)
  PROVE  LastOf(h, n) \in Siblings(h, n) /\ h[LastOf(h, n)].next = Null
<1>1. Wf(h) /\ Null \notin Live(h) /\ IsFiniteSet(Live(h))
  BY DEF Tree, Wf
<1>2. Siblings(h, n) \subseteq Live(h) /\ n \in Siblings(h, n)
      /\ \A x \in Siblings(h, n) : h[x].next # Null => h[x].next \in Siblings(h, n)
  BY <1>1, SiblingsIs
<1> DEFINE C(m) == Cardinality(Siblings(h, m))
           N == {C(m) : m \in Siblings(h, n)}
<1>3. \A m \in Live(h) : IsFiniteSet(Siblings(h, m)) /\ C(m) \in Nat
  BY <1>1, SiblingsIs, FS_Subset, FS_CardinalityType
<1>4. N \subseteq Nat /\ N # {}
  BY <1>2, <1>3
<1>5. PICK c \in N : \A y \in N : c <= y
  <2> HIDE DEF N
  <2> QED BY <1>4, LeastNumber
<1>6. PICK m \in Siblings(h, n) : c = C(m)
  OBVIOUS
<1>7. \A k \in Siblings(h, n) : C(m) <= C(k)
  BY <1>5, <1>6
<1>8. ASSUME h[m].next # Null PROVE FALSE
  <2>1. PICK k \in Siblings(h, n) : k = h[m].next
    BY <1>2, <1>8
  <2>2. m \in Live(h) /\ k \in Live(h)
    BY <1>2
  <2>3. Edge(h, m, k)
    BY <2>1, <1>8 DEF Edge
  <2>4. m \notin Siblings(h, k)
    BY <2>3, <2>2, <1>1, NotBack, LinesInSub
  <2>5. m \in Siblings(h, m) /\ Siblings(h, k) \subseteq Siblings(h, m)
    BY <2>1, <2>2, <1>1, NextSiblings, SiblingsIs
  <2>6. C(k) < C(m)
    BY <2>2, <2>4, <2>5, <1>3, FS_Subset
  <2>7. C(k) \in Nat /\ C(m) \in Nat /\ C(m) <= C(k)
    BY <1>3, <1>7, <2>2
  <2> HIDE DEF C
  <2> QED BY <2>6, <2>7
<1>9. \E x \in Siblings(h, n) : h[x].next = Null
  BY <1>8
<1> QED BY <1>9 DEF LastOf

\* The parent of a node below the root c is below c.
LEMMA ParentIn ==
  ASSUME NEW h, NEW R, Tree(h, R), NEW c \in R, ~ IsAttr(h, c), NEW p \in Live(h), p # c,
         p \in Freed(h, c)
  PROVE  h[p].par # Null => h[p].par \in Freed(h, c)
<1>1. Wf(h) /\ Links(h) /\ Rooted(h, R) /\ Null \notin Live(h) /\ c \in Live(h)
  BY DEF Tree, Wf, Rooted
<1> DEFINE U == {x \in Freed(h, c) : x = c \/ h[x].par = Null \/ h[x].par \in Freed(h, c)}
<1>2. c \in U /\ U \in SUBSET Live(h)
  BY <1>1, SubIs
<1>3. ASSUME NEW x \in U, NEW y \in Live(h), Edge(h, x, y) PROVE y \in U
  <2>1. x \in Live(h) /\ x \in Freed(h, c) /\ y \in Freed(h, c)
    BY <1>1, <1>3, SubIs
  <2>2. CASE y = h[x].first
    BY <2>1, <2>2, <1>1 DEF Links
  <2>3. CASE y = h[x].attr
    <3>1. h[y].par = Null
      BY <2>1, <2>3, <1>1 DEF Links
    <3> QED BY <3>1, <2>1
  <2>4. CASE y = h[x].next
    <3>1. x # c /\ h[y].par = h[x].par
      BY <2>1, <2>4, <1>1 DEF Links, Rooted
    <3> QED BY <3>1, <2>1
  <2> QED BY <2>2, <2>3, <2>4, <1>3 DEF Edge
<1>4. Freed(h, c) \subseteq U
  <2> HIDE DEF U
  <2> QED BY <1>1, <1>2, <1>3, SubIs
<1> QED BY <1>4

\* When ixmlNode_isAncestor does not find c above p, p is not below c.
LEMMA NoAncestor ==
  ASSUME NEW h, NEW R, Tree(h, R), NEW c \in R, ~ IsAttr(h, c), NEW p \in Live(h), p # c,
         ~ IsAttr(h, p), ~ IsAncestor(h, c, p)
  PROVE  p \notin Freed(h, c)
<1>1. Wf(h) /\ Links(h) /\ Rooted(h, R) /\ Null \notin Live(h) /\ c \in Live(h)
  BY DEF Tree, Wf, Rooted
<1> DEFINE B == Closure(h, c, BelowOf(h))
           U == {x \in Freed(h, c) : IsAttr(h, x) \/ (x \in B /\ (x = c \/ h[x].par \in B))}
<1>0. /\ B \subseteq Live(h) /\ c \in B
      /\ \A x \in B : (h[x].next # Null => h[x].next \in B) /\ (h[x].first # Null => h[x].first \in B)
  BY <1>1, BelowIs
<1>2. c \in U /\ U \in SUBSET Live(h)
  BY <1>0, <1>1, SubIs
<1>3. ASSUME NEW x \in U, NEW y \in Live(h), Edge(h, x, y) PROVE y \in U
  <2>1. x \in Live(h) /\ x \in Freed(h, c) /\ y \in Freed(h, c)
    BY <1>1, <1>3, SubIs
  <2>2. CASE y = h[x].first
    <3>1. ~ IsAttr(h, x) /\ h[y].par = x
      BY <2>1, <2>2, <1>1 DEF Links
    <3>2. x \in B
      BY <3>1
    <3>3. y \in B
      BY <3>2, <2>2, <1>0, <1>1
    <3> QED BY <3>1, <3>2, <3>3, <2>1
  <2>3. CASE y = h[x].attr
    <3>1. IsAttr(h, y)
      BY <2>1, <2>3, <1>1 DEF Links
    <3> QED BY <3>1, <2>1
  <2>4. CASE y = h[x].next
    <3>1. x # c /\ h[y].par = h[x].par /\ (IsAttr(h, y) <=> IsAttr(h, x))
      BY <2>1, <2>4, <1>1 DEF Links, Rooted
    <3>2. CASE IsAttr(h, x)
      BY <3>1, <3>2, <2>1
    <3>3. CASE ~ IsAttr(h, x)
      <4>1. x \in B /\ h[x].par \in B
        BY <3>1, <3>3
      <4>2. y \in B
        BY <4>1, <2>4, <1>0, <1>1
      <4> QED BY <4>1, <4>2, <3>1, <2>1
    <3> QED BY <3>2, <3>3
  <2> QED BY <2>2, <2>3, <2>4, <1>3 DEF Edge
<1>4. Freed(h, c) \subseteq U
  <2> HIDE DEF U
  <2> QED BY <1>1, <1>2, <1>3, SubIs
<1>5. h[p].par \notin B
  BY DEF IsAncestor
<1> QED BY <1>4, <1>5

\* The root that a careful caller hands in, and the heap with it taken out of p.
LEMMA DetachTree ==
  ASSUME NEW h, NEW R, Tree(h, R), NEW p \in Live(h), NEW c \in Live(h), c # p,
         h[c].par \in {Null, p}, ~ IsAttr(h, c), ~ IsAttr(h, p), ~ IsAncestor(h, c, p)
  PROVE  /\ Tree(Detach(h, p, c), R \cup {c})
         /\ Live(Detach(h, p, c)) = Live(h)
         /\ p \notin Freed(Detach(h, p, c), c)
         /\ \A n \in Live(h) : /\ Detach(h, p, c)[n].t = h[n].t
                               /\ n # c => Detach(h, p, c)[n].par = h[n].par
                               /\ Detach(h, p, c)[n].doc = h[n].doc
<1>1. Wf(h) /\ Links(h) /\ Rooted(h, R) /\ Null \notin Live(h)
  BY DEF Tree, Wf
<1> DEFINE g == Detach(h, p, c)
<1>2. CASE h[c].par # p
  <2>1. c \in R /\ g = h
    BY <1>1, <1>2 DEF Rooted, Detach
  <2>2. R \cup {c} = R
    BY <2>1
  <2>3. p \notin Freed(h, c)
    BY <2>1, NoAncestor
  <2> QED BY <2>1, <2>2, <2>3
<1>3. CASE h[c].par = p
  <2>1. g = Unlink(h, p, c)
    BY <1>3 DEF Detach
  <2>2. Out(h, g, c)
    BY <2>1, <1>3, UnlinkOut
  <2> HIDE DEF g
  <2>3. Tree(g, R \cup {c}) /\ Live(g) = Live(h)
    BY <2>2, OutTree DEF Out
  <2>4. \A n \in Live(h) : g[n].t = h[n].t /\ (n # c => g[n].par = h[n].par)
    BY <2>2 DEF Out
  <2>5. \A n \in Live(h) : g[n].doc = h[n].doc
    <3>1. \A n \in Live(h) : DOMAIN h[n] = Fields
      BY <1>1 DEF Wf
    <3> QED BY <3>1, <2>1 DEF Unlink, Fields
  <2>6. p \notin Freed(h, c)
    BY <1>1, <1>3, ChildListed
  <2>7. Freed(g, c) \subseteq Freed(h, c)
    <3>1. Freed(h, c) \in SUBSET Live(g) /\ c \in Freed(h, c) /\ Wf(g)
      BY <1>1, <2>3, SubIs DEF Tree
    <3>2. ASSUME NEW a \in Freed(h, c), NEW b \in Live(h), Edge(g, a, b) PROVE b \in Freed(h, c)
      <4>1. a \in Live(h) /\ (h[c].next # Null => h[c].next \in Freed(h, c))
        BY <1>1, SubIs DEF Edge, Wf
      <4>2. CASE Edge(h, a, b)
        BY <4>1, <4>2, <1>1, SubIs
      <4>3. CASE ~ Edge(h, a, b)
        <5>1. b = h[c].next
          BY <4>1, <4>3, <3>2, <2>2 DEF Edge, Out
        <5> QED BY <5>1, <4>1, <3>2 DEF Edge
      <4> QED BY <4>2, <4>3
    <3> QED BY <3>1, <3>2, <2>3, SubIs
  <2>8. g = Detach(h, p, c)
    BY DEF g
  <2> QED BY <2>3, <2>4, <2>5, <2>6, <2>7, <2>8
<1> QED BY <1>2, <1>3

-----------------------------------------------------------------------------
(* Children and attributes *)

\* Only nodes of the child lists get children, and are children.
LEMMA Allowed ==
  ASSUME NEW h, Wf(h), NEW p \in Live(h), NEW c \in Live(h), AllowChildren(h, p, c)
  PROVE  ~ IsAttr(h, p) /\ ~ IsAttr(h, c)
<1>1. h[p].t \in {"document", "element", "attribute", "text", "cdata"}
  BY DEF Wf
<1>2. CASE h[p].t = "element"
  BY <1>2 DEF AllowChildren, IsAttr
<1>3. CASE h[p].t = "document"
  BY <1>3 DEF AllowChildren, IsAttr
<1>4. CASE h[p].t \in {"attribute", "text", "cdata"}
  BY <1>4 DEF AllowChildren
<1> QED BY <1>1, <1>2, <1>3, <1>4

\* Where the nodes other than c are after a call that moves c.
Kept(h, g, c) ==
    /\ Live(g) = Live(h)
    /\ \A n \in Live(h) : /\ g[n].t = h[n].t
                          /\ n # c => g[n].par = h[n].par /\ g[n].doc = h[n].doc

\* The last child of p is the node that was handed in.
LEMMA AppendToTree ==
  ASSUME NEW h0, NEW R, Tree(h0, R), NEW p \in Live(h0), NEW c \in Live(h0), c # p,
         h0[c].par \in {Null, p}, AllowChildren(h0, p, c), ~ IsAncestor(h0, c, p)
  PROVE  /\ Tree(AppendTo(h0, p, c), R \ {c})
         /\ Kept(h0, AppendTo(h0, p, c), c)
         /\ AppendTo(h0, p, c)[c].par = p /\ AppendTo(h0, p, c)[c].doc = h0[p].doc
<1>0. Wf(h0) /\ ~ IsAttr(h0, p) /\ ~ IsAttr(h0, c)
  BY Allowed DEF Tree
<1> DEFINE h == Detach(h0, p, c)
           Q == R \cup {c}
           last == IF h[p].first = Null THEN Null ELSE LastOf(h, h[p].first)
           g == AppendTo(h0, p, c)
<1>1. /\ Tree(h, Q) /\ Live(h) = Live(h0) /\ p \notin Freed(h, c)
      /\ \A n \in Live(h0) : /\ h[n].t = h0[n].t /\ (n # c => h[n].par = h0[n].par)
                             /\ h[n].doc = h0[n].doc
  BY <1>0, DetachTree
<1>2. g = [n \in Live(h) |->
          IF n = c
          THEN [h[n] EXCEPT !.par = p, !.doc = h[p].doc,
                            !.prev = IF last = Null THEN @ ELSE last]
          ELSE [h[n] EXCEPT !.first = IF n = p /\ last = Null THEN c ELSE @,
                            !.next = IF n = last THEN c ELSE @]]
  BY DEF AppendTo
<1> HIDE DEF h, g, last
<1>3. /\ Wf(h) /\ Links(h) /\ Rooted(h, Q) /\ Null \notin Live(h)
      /\ \A n \in Live(h) : DOMAIN h[n] = Fields
  BY <1>1 DEF Tree, Wf
<1>4. h[c].next = Null /\ h[c].par = Null /\ h[c].prev = Null /\ c \in Q
  BY <1>3 DEF Rooted
<1>5. ~ IsAttr(h, p) /\ ~ IsAttr(h, c)
  BY <1>0, <1>1 DEF IsAttr
<1>6. Live(g) = Live(h)
  BY <1>2 DEF Live
<1>7. ASSUME NEW n \in Live(h)
      PROVE  /\ DOMAIN g[n] = Fields /\ g[n].t = h[n].t
             /\ g[n].par = IF n = c THEN p ELSE h[n].par
             /\ g[n].doc = IF n = c THEN h[p].doc ELSE h[n].doc
             /\ g[n].prev = IF n = c /\ last # Null THEN last ELSE h[n].prev
             /\ g[n].first = IF n # c /\ n = p /\ last = Null THEN c ELSE h[n].first
             /\ g[n].next = IF n # c /\ n = last THEN c ELSE h[n].next
             /\ g[n].attr = h[n].attr
  BY <1>2, <1>3 DEF Fields
<1>8. Tree(g, Q \ {c})
  <2>1. CASE h[p].first = Null
    <3>1. last = Null
      BY <2>1 DEF last
    <3>2. AsFirst(h, g, p, c)
      BY <2>1, <3>1, <1>3, <1>4, <1>6, <1>7 DEF AsFirst
    <3> QED BY <3>2, <1>1, <1>4, <1>5, FirstTree
  <2>2. CASE h[p].first # Null
    <3>1. PICK f \in Live(h) : f = h[p].first
      BY <2>2, <1>1, <1>3 DEF Wf
    <3>2. last = LastOf(h, f)
      BY <2>2, <3>1 DEF last
    <3>3. h[f].prev = Null /\ h[f].par = p /\ ~ IsAttr(h, f) /\ f \notin Q
      BY <3>1, <2>2, <1>1, <1>3 DEF Links, Rooted
    <3>4. last \in Siblings(h, f) /\ h[last].next = Null
      BY <3>2, <1>1, LastIs
    <3>5. last \in Live(h) /\ h[last].par = p /\ ~ IsAttr(h, last) /\ last \notin Q
      BY <3>3, <3>4, <1>1, <1>3, SiblingsIs, ListHead
    <3>6. last \notin Freed(h, c)
      BY <3>5, <1>1, <1>3, <1>4, <1>5, ParentIn
    <3>7. After(h, g, last, c)
      BY <3>4, <3>5, <1>3, <1>4, <1>6, <1>7 DEF After
    <3> QED BY <3>5, <3>6, <3>7, <1>1, <1>4, <1>5, AfterTree
  <2> QED BY <2>1, <2>2
<1>9. Q \ {c} = R \ {c}
  OBVIOUS
<1>10. Kept(h0, g, c) /\ g[c].par = p /\ g[c].doc = h0[p].doc
  BY <1>1, <1>6, <1>7 DEF Kept
<1>11. g = AppendTo(h0, p, c)
  BY DEF g
<1> QED BY <1>8, <1>9, <1>10, <1>11

\* ixmlNode_appendChild keeps the forest; the child is no root any more.
LEMMA AppendChildTree ==
  ASSUME NEW h, NEW R, Tree(h, R), NEW p \in Live(h), NEW c \in Live(h), c # p,
         h[c].par \in {Null, p}
  PROVE  /\ AppendChild(h, p, c).rc # "SUCCESS" => AppendChild(h, p, c).h = h
         /\ AppendChild(h, p, c).rc = "SUCCESS" =>
              /\ Tree(AppendChild(h, p, c).h, R \ {c})
              /\ Kept(h, AppendChild(h, p, c).h, c)
              /\ AppendChild(h, p, c).h[c].par = p
              /\ AppendChild(h, p, c).h[c].doc = h[p].doc
<1>1. CASE h[c].doc # Null /\ h[p].doc # h[c].doc
  BY <1>1 DEF AppendChild
<1>2. CASE ~ (h[c].doc # Null /\ h[p].doc # h[c].doc) /\ (IsAncestor(h, c, p) \/ ~ AllowChildren(h, p, c))
  BY <1>2 DEF AppendChild
<1>3. CASE ~ (h[c].doc # Null /\ h[p].doc # h[c].doc) /\ ~ IsAncestor(h, c, p) /\ AllowChildren(h, p, c)
  <2>1. AppendChild(h, p, c) = [rc |-> "SUCCESS", h |-> AppendTo(h, p, c)]
    BY <1>3 DEF AppendChild
  <2> QED BY <2>1, <1>3, AppendToTree
<1> QED BY <1>1, <1>2, <1>3

\* ixmlNode_insertBefore puts the child between the reference and what was before it.
LEMMA InsertAtTree ==
  ASSUME NEW h0, NEW R, Tree(h0, R), NEW p \in Live(h0), NEW c \in Live(h0), c # p,
         h0[c].par \in {Null, p}, AllowChildren(h0, p, c), ~ IsAncestor(h0, c, p),
         NEW r \in Live(h0), r # c, h0[r].par = p
  PROVE  Tree(InsertAt(h0, p, c, r), R \ {c}) /\ Kept(h0, InsertAt(h0, p, c, r), c)
<1>0. Wf(h0) /\ ~ IsAttr(h0, p) /\ ~ IsAttr(h0, c)
  BY Allowed DEF Tree
<1> DEFINE h == Detach(h0, p, c)
           Q == R \cup {c}
           before == h[r].prev
           g == InsertAt(h0, p, c, r)
<1>1. /\ Tree(h, Q) /\ Live(h) = Live(h0) /\ p \notin Freed(h, c)
      /\ \A n \in Live(h0) : /\ h[n].t = h0[n].t /\ (n # c => h[n].par = h0[n].par)
                             /\ h[n].doc = h0[n].doc
  BY <1>0, DetachTree
<1>2. g = [n \in Live(h) |->
          [h[n] EXCEPT
             !.next = IF n = c THEN r ELSE IF n = before THEN c ELSE @,
             !.prev = IF n = r THEN c
                      ELSE IF n = c /\ before # Null THEN before ELSE @,
             !.first = IF n = p /\ before = Null THEN c ELSE @,
             !.par = IF n = c THEN p ELSE @]]
  BY DEF InsertAt
<1> HIDE DEF h, g
<1>3. /\ Wf(h) /\ Links(h) /\ Rooted(h, Q) /\ Null \notin Live(h)
      /\ \A n \in Live(h) : DOMAIN h[n] = Fields
  BY <1>1 DEF Tree, Wf
<1>4. h[c].next = Null /\ h[c].par = Null /\ h[c].prev = Null /\ c \in Q
  BY <1>3 DEF Rooted
<1>5. ~ IsAttr(h, p) /\ ~ IsAttr(h, c) /\ h[r].par = p /\ r \in Live(h)
  BY <1>0, <1>1 DEF IsAttr
<1>6. Live(g) = Live(h)
  BY <1>2 DEF Live
<1>7. ASSUME NEW n \in Live(h)
      PROVE  /\ DOMAIN g[n] = Fields /\ g[n].t = h[n].t
             /\ g[n].par = IF n = c THEN p ELSE h[n].par
             /\ g[n].doc = h[n].doc
             /\ g[n].prev = IF n = r THEN c ELSE IF n = c /\ before # Null THEN before ELSE h[n].prev
             /\ g[n].first = IF n = p /\ before = Null THEN c ELSE h[n].first
             /\ g[n].next = IF n = c THEN r ELSE IF n = before THEN c ELSE h[n].next
             /\ g[n].attr = h[n].attr
  BY <1>2, <1>3 DEF Fields
<1>8. Tree(g, Q \ {c})
  <2>1. CASE before = Null
    <3>1. h[p].first = r
      BY <2>1, <1>1, <1>3, <1>5 DEF Links
    <3>2. AsFirst(h, g, p, c)
      BY <2>1, <3>1, <1>3, <1>4, <1>6, <1>7 DEF AsFirst
    <3> QED BY <3>2, <1>1, <1>4, <1>5, FirstTree
  <2>2. CASE before # Null
    <3>1. PICK b \in Live(h) : b = before
      BY <2>2, <1>3, <1>5 DEF Wf
    <3>2. h[b].next = r
      BY <3>1, <2>2, <1>3, <1>5 DEF Links
    <3>3. h[b].par = p /\ b \notin Q
      BY <3>2, <1>1, <1>3, <1>5 DEF Links, Rooted
    <3>4. ~ IsAttr(h, b)
      BY <3>3, <1>1, <1>3 DEF Links
    <3>5. b \notin Freed(h, c)
      BY <3>3, <1>1, <1>3, <1>4, <1>5, ParentIn
    <3>6. After(h, g, b, c)
      <4> HIDE DEF before
      <4> QED BY <3>1, <3>2, <3>3, <1>3, <1>4, <1>6, <1>7 DEF After
    <3> QED BY <3>3, <3>4, <3>5, <3>6, <1>1, <1>4, <1>5, AfterTree
  <2> QED BY <2>1, <2>2
<1>9. Q \ {c} = R \ {c}
  OBVIOUS
<1>10. Kept(h0, g, c)
  BY <1>1, <1>6, <1>7 DEF Kept
<1>11. g = InsertAt(h0, p, c, r)
  BY DEF g
<1> QED BY <1>8, <1>9, <1>10, <1>11

\* An attribute that is a root has nothing below it.
LEMMA AttrAlone ==
  ASSUME NEW h, NEW R, Tree(h, R), NEW a \in R, IsAttr(h, a)
  PROVE  Freed(h, a) = {a}
<1>1. Wf(h) /\ Links(h) /\ Rooted(h, R) /\ Null \notin Live(h) /\ a \in Live(h)
  BY DEF Tree, Wf, Rooted
<1>2. h[a].first = Null /\ h[a].attr = Null /\ h[a].next = Null
  BY <1>1 DEF Links, Rooted
<1>3. \A x \in {a} : \A b \in Live(h) : Edge(h, x, b) => b \in {a}
  BY <1>2 DEF Edge
<1>4. {a} \in SUBSET Live(h)
  BY <1>1
<1> QED BY <1>1, <1>3, <1>4, SubIs

\* The attributes of e.
LEMMA AttrList ==
  ASSUME NEW h, NEW R, Tree(h, R), NEW e \in Live(h)
  PROVE  /\ h[e].attr \in Live(h) \cup {Null} /\ Siblings(h, h[e].attr) \subseteq Live(h)
         /\ \A x \in Siblings(h, h[e].attr) :
              /\ IsAttr(h, x) /\ x \notin R
              /\ \A k \in Live(h) : h[k].attr = x => k = e
<1>1. Wf(h) /\ Links(h) /\ Rooted(h, R) /\ Null \notin Live(h)
  BY DEF Tree, Wf
<1>2. h[e].attr \in Live(h) \cup {Null}
  BY <1>1 DEF Wf
<1>3. CASE h[e].attr = Null
  BY <1>1, <1>2, <1>3, SiblingsIs
<1>4. CASE h[e].attr # Null
  <2>1. PICK n \in Live(h) : n = h[e].attr
    BY <1>2, <1>4
  <2>2. h[n].prev = Null /\ IsAttr(h, n) /\ n \notin R
    BY <2>1, <1>1, <1>4 DEF Links, Rooted
  <2>3. ASSUME NEW x \in Siblings(h, n)
        PROVE IsAttr(h, x) /\ x \notin R /\ \A k \in Live(h) : h[k].attr = x => k = e
    <3>1. IsAttr(h, x) /\ x \notin R /\ (x # n => h[x].prev # Null) /\ x \in Live(h)
      BY <2>2, <1>1, ListHead, SiblingsIs
    <3>2. ASSUME NEW k \in Live(h), h[k].attr = x PROVE k = e
      <4>1. h[x].prev = Null
        BY <3>1, <3>2, <1>1 DEF Links
      <4>2. x = n
        BY <3>1, <4>1
      <4> QED BY <4>2, <3>2, <2>1, <1>1 DEF Links
    <3> QED BY <3>1, <3>2
  <2> QED BY <2>1, <2>3, <1>1, SiblingsIs
<1> QED BY <1>2, <1>3, <1>4

\* ixmlElement_removeAttributeNode takes the attribute out of its list.
LEMMA UnlinkAttrOut ==
  ASSUME NEW h, NEW R, Tree(h, R), NEW e \in Live(h), NEW a \in Siblings(h, h[e].attr)
  PROVE  /\ Out(h, UnlinkAttr(h, e, a), a) /\ a \in Live(h)
         /\ \A n \in Live(h) : UnlinkAttr(h, e, a)[n].doc = h[n].doc
<1>1. Wf(h) /\ Links(h) /\ Rooted(h, R) /\ Null \notin Live(h)
  BY DEF Tree, Wf
<1>2. a \in Live(h) /\ IsAttr(h, a) /\ a \notin R /\ \A k \in Live(h) : h[k].attr = a => k = e
  BY AttrList
<1>3. \A n \in Live(h) : h[n].first # a /\ DOMAIN h[n] = Fields
  BY <1>1, <1>2 DEF Links, Wf
<1>4. h[a].par = Null /\ h[a].attr = Null
  BY <1>1, <1>2 DEF Links
<1> DEFINE g == UnlinkAttr(h, e, a)
<1>5. Live(g) = Live(h)
  BY DEF UnlinkAttr, Live
<1>6. ASSUME NEW n \in Live(h)
      PROVE  /\ DOMAIN g[n] = Fields /\ g[n].t = h[n].t /\ g[n].doc = h[n].doc
             /\ g[n].par = IF n = a THEN Null ELSE h[n].par
             /\ g[n].next = IF n = a THEN Null ELSE IF n = h[a].prev THEN h[a].next ELSE h[n].next
             /\ g[n].prev = IF n = a THEN Null ELSE IF n = h[a].next THEN h[a].prev ELSE h[n].prev
             /\ g[n].first = IF h[n].first = a THEN h[a].next ELSE h[n].first
             /\ g[n].attr = IF h[n].attr = a THEN h[a].next ELSE h[n].attr
  BY <1>1, <1>2, <1>3, <1>4 DEF UnlinkAttr, Fields
<1> QED BY <1>2, <1>5, <1>6 DEF Out

\* The search finds an attribute when the list has one of the name.
LEMMA FindAttrIs ==
  ASSUME NEW h, NEW R, Tree(h, R), NEW e \in Live(h), NEW name
  PROVE  FindAttr(h, e, name) # Null <=> \E a \in Siblings(h, h[e].attr) : h[a].name = name
<1>1. Wf(h) /\ Null \notin Live(h) /\ h[e].attr \in Live(h) \cup {Null}
  BY DEF Tree, Wf
<1> DEFINE n == h[e].attr
           hits == {a \in Siblings(h, n) : h[a].name = name}
           G == {y \in Siblings(h, n) : hits \subseteq Siblings(h, y)}
<1>2. Siblings(h, n) \subseteq Live(h)
      /\ \A x \in Siblings(h, n) : h[x].next # Null => h[x].next \in Siblings(h, n)
  BY <1>1, SiblingsIs
<1>3. ASSUME hits # {} PROVE \E a \in hits : hits \subseteq Siblings(h, a)
  <2>1. SUFFICES ASSUME hits \cap G = {} PROVE FALSE
    OBVIOUS
  <2>2. n # Null
    BY <1>3, <1>1, SiblingsIs
  <2>3. n \in G
    BY <2>2, <1>1, SiblingsIs
  <2>4. ASSUME NEW y \in G, h[y].next # Null PROVE h[y].next \in G
    <3>1. y \in Live(h) /\ y \notin hits /\ hits \subseteq Siblings(h, y)
      BY <2>1, <1>2
    <3>2. hits \subseteq Siblings(h, h[y].next)
      BY <3>1, <1>1, NextSiblings
    <3> QED BY <3>2, <2>4, <1>2
  <2>5. G \in SUBSET Live(h)
    BY <1>2
  <2>6. Siblings(h, n) \subseteq G
    <3> HIDE DEF G, n
    <3> QED BY <2>3, <2>4, <2>5, <1>1, SiblingsIs DEF n
  <2> QED BY <2>6, <2>1, <1>3
<1>4. hits # {} => FindAttr(h, e, name) \in hits
  BY <1>3 DEF FindAttr
<1>5. hits = {} => FindAttr(h, e, name) = Null
  BY DEF FindAttr
<1> QED BY <1>4, <1>5, <1>2, <1>1

\* A new attribute at the end of the list.
LEMMA AttrAppended ==
  ASSUME NEW h, NEW R, Tree(h, R), NEW e \in Live(h), ~ IsAttr(h, e), NEW a \in R, IsAttr(h, a),
         NEW g, NEW last, last = (IF h[e].attr = Null THEN Null ELSE LastOf(h, h[e].attr)),
         Live(g) = Live(h),
         \A n \in Live(h) :
            /\ DOMAIN g[n] = Fields /\ g[n].t = h[n].t /\ g[n].doc = h[n].doc
            /\ g[n].par = h[n].par /\ g[n].first = h[n].first
            /\ g[n].next = IF n = last THEN a ELSE h[n].next
            /\ g[n].prev = IF n = a THEN last ELSE h[n].prev
            /\ g[n].attr = IF n = e /\ h[n].attr = Null THEN a ELSE h[n].attr
  PROVE  Tree(g, R \ {a})
<1>1. Wf(h) /\ Links(h) /\ Rooted(h, R) /\ Null \notin Live(h) /\ a \in Live(h)
  BY DEF Tree, Wf, Rooted
<1>2. h[a].next = Null /\ h[a].par = Null /\ h[a].prev = Null
  BY <1>1 DEF Rooted
<1>3. Freed(h, a) = {a} /\ a # e
  BY AttrAlone
<1>4. CASE h[e].attr = Null
  <2>1. last = Null
    BY <1>4
  <2>2. AsAttr(h, g, e, a)
    BY <2>1, <1>1, <1>2, <1>4 DEF AsAttr
  <2> QED BY <2>2, <1>3, <1>4, AttrTree
<1>5. CASE h[e].attr # Null
  <2>1. PICK n \in Live(h) : n = h[e].attr
    BY <1>1, <1>5 DEF Wf
  <2>2. last = LastOf(h, n)
    BY <2>1, <1>5
  <2>3. last \in Siblings(h, n) /\ h[last].next = Null
    BY <2>2, LastIs
  <2>4. last \in Live(h) /\ IsAttr(h, last) /\ last \notin R
    BY <2>1, <2>3, AttrList
  <2>5. h[last].par = Null
    BY <2>4, <1>1 DEF Links
  <2>6. After(h, g, last, a)
    BY <2>3, <2>4, <2>5, <1>1, <1>2, <1>5 DEF After
  <2> QED BY <2>4, <2>6, <1>3, AfterTree
<1> QED BY <1>4, <1>5

\* A new attribute in the place of the only one.
LEMMA AttrReplaced ==
  ASSUME NEW h, NEW R, Tree(h, R), NEW e \in Live(h), ~ IsAttr(h, e), NEW a \in R, IsAttr(h, a),
         NEW g, NEW old, Siblings(h, h[e].attr) = {old}, Live(g) = Live(h),
         \A n \in Live(h) :
            /\ DOMAIN g[n] = Fields /\ g[n].t = h[n].t /\ g[n].doc = h[n].doc
            /\ g[n].par = h[n].par /\ g[n].first = h[n].first
            /\ g[n].next = IF n = h[old].prev THEN a ELSE h[n].next
            /\ g[n].prev = IF n = h[old].next THEN a ELSE h[n].prev
            /\ g[n].attr = IF n = e /\ h[n].attr = old THEN a ELSE h[n].attr
  PROVE  Tree(g, (R \ {a}) \cup {old}) /\ old \in Live(h) /\ old \notin R
<1>1. Wf(h) /\ Links(h) /\ Rooted(h, R) /\ Null \notin Live(h) /\ a \in Live(h)
  BY DEF Tree, Wf, Rooted
<1>2. old \in Live(h) /\ IsAttr(h, old) /\ old \notin R /\ \A k \in Live(h) : h[k].attr = old => k = e
  BY AttrList
<1>3. h[e].attr = old
  BY <1>1, AttrList, SiblingsIs
<1>4. h[old].next = Null /\ h[old].prev = Null /\ h[old].par = Null
  <2>1. h[old].next # Null => h[old].next = old
    BY <1>1, <1>2, AttrList, SiblingsIs
  <2>2. h[old].next = Null
    <3>1. ~ Edge(h, old, old)
      BY <1>2, NotBack
    <3> QED BY <2>1, <3>1 DEF Edge
  <2> QED BY <2>2, <1>1, <1>2, <1>3 DEF Links
<1> DEFINE k == UnlinkAttr(h, e, old)
           Q == R \cup {old}
<1>5. Out(h, k, old)
  BY UnlinkAttrOut
<1> HIDE DEF k
<1>6. Tree(k, Q) /\ Live(k) = Live(h)
  BY <1>5, <1>2, OutTree DEF Out
<1>7. \A n \in Live(h) :
         /\ k[n].t = h[n].t /\ k[n].par = h[n].par /\ k[n].first = h[n].first
         /\ k[n].next = h[n].next /\ k[n].prev = h[n].prev
         /\ k[n].attr = IF n = e THEN Null ELSE h[n].attr
  BY <1>1, <1>2, <1>3, <1>4, <1>5 DEF Out, Links
<1>8. AsAttr(k, g, e, a)
  BY <1>1, <1>2, <1>3, <1>4, <1>6, <1>7 DEF AsAttr
<1>9. a \in Q /\ IsAttr(k, a) /\ ~ IsAttr(k, e) /\ k[e].attr = Null
  BY <1>1, <1>7 DEF IsAttr
<1>10. Freed(k, a) = {a} /\ a # e
  BY <1>6, <1>9, AttrAlone
<1>11. Tree(g, Q \ {a})
  BY <1>6, <1>8, <1>9, <1>10, AttrTree
<1>12. Q \ {a} = (R \ {a}) \cup {old}
  BY <1>2
<1> QED BY <1>2, <1>11, <1>12

\* ixmlElement_setAttributeNode keeps the forest; the attribute it replaces is a root.
LEMMA SetAttributeNodeTree ==
  ASSUME NEW h, NEW R, Tree(h, R), NEW e \in Live(h), ~ IsAttr(h, e), NEW a \in Live(h),
         IsAttr(h, a), a \in R \/ h[a].own # Null, NEW r, r = SetAttributeNode(h, e, a),
         r.old # Null => Siblings(h, h[e].attr) = {r.old}
  PROVE  /\ r.rc # "SUCCESS" => r.h = h /\ r.old = Null
         /\ r.rc = "SUCCESS" => /\ Tree(r.h, (R \ {a}) \cup ({r.old} \ {Null})) /\ Kept(h, r.h, a)
                                /\ a \in R /\ r.h[a].doc = h[a].doc
                                /\ r.old # Null => r.old \in Live(h) /\ r.old \notin R
         /\ h[a].doc = h[e].doc /\ h[a].own = Null => r.rc = "SUCCESS"
         /\ h[a].doc = h[e].doc /\ h[a].own = Null /\ FindAttr(h, e, h[a].name) = Null => r.old = Null
<1>0. \A n \in Live(h) : DOMAIN h[n] = Fields
  BY DEF Tree, Wf
<1> DEFINE old == FindAttr(h, e, h[a].name)
           last == IF h[e].attr = Null THEN Null ELSE LastOf(h, h[e].attr)
<1>1. CASE h[a].doc # h[e].doc
  BY <1>1 DEF SetAttributeNode
<1>2. CASE h[a].doc = h[e].doc /\ h[a].own # Null
  BY <1>2 DEF SetAttributeNode
<1>3. CASE h[a].doc = h[e].doc /\ h[a].own = Null /\ old # Null
  <2> DEFINE g == [n \in Live(h) |->
                     IF n = a
                     THEN [[h[n] EXCEPT
                           !.next = IF n = h[old].prev THEN a ELSE @,
                           !.prev = IF n = h[old].next THEN a ELSE @,
                           !.attr = IF n = e /\ @ = old THEN a ELSE @] EXCEPT !.own = e]
                     ELSE [h[n] EXCEPT
                           !.next = IF n = h[old].prev THEN a ELSE @,
                           !.prev = IF n = h[old].next THEN a ELSE @,
                           !.attr = IF n = e /\ @ = old THEN a ELSE @]]
  <2>1. r = [rc |-> "SUCCESS", old |-> old, h |-> g]
    BY <1>3 DEF SetAttributeNode
  <2> HIDE DEF old
  <2>2. Live(g) = Live(h)
    BY DEF Live
  <2>3. ASSUME NEW n \in Live(h)
        PROVE /\ DOMAIN g[n] = Fields /\ g[n].t = h[n].t /\ g[n].doc = h[n].doc
              /\ g[n].par = h[n].par /\ g[n].first = h[n].first
              /\ g[n].next = IF n = h[old].prev THEN a ELSE h[n].next
              /\ g[n].prev = IF n = h[old].next THEN a ELSE h[n].prev
              /\ g[n].attr = IF n = e /\ h[n].attr = old THEN a ELSE h[n].attr
    BY <1>0 DEF Fields
  <2> HIDE DEF g
  <2>4. a \in R /\ Siblings(h, h[e].attr) = {old}
    BY <2>1, <1>3
  <2>5. Tree(g, (R \ {a}) \cup {old}) /\ old \in Live(h) /\ old \notin R
    BY <2>2, <2>3, <2>4, AttrReplaced
  <2>6. {old} = {old} \ {Null}
    BY <1>3
  <2>7. Kept(h, g, a)
    BY <2>2, <2>3 DEF Kept
  <2>8. r.old = old /\ r.h = g /\ r.rc = "SUCCESS"
    BY <2>1
  <2> QED BY <2>3, <2>4, <2>5, <2>6, <2>7, <2>8, <1>3 DEF old
<1>4. CASE h[a].doc = h[e].doc /\ h[a].own = Null /\ old = Null
  <2> DEFINE g == [n \in Live(h) |->
                     IF n = a
                     THEN [[h[n] EXCEPT
                           !.next = IF n = last THEN a ELSE @,
                           !.prev = IF n = a THEN last ELSE @,
                           !.attr = IF n = e /\ @ = Null THEN a ELSE @] EXCEPT !.own = e]
                     ELSE [h[n] EXCEPT
                           !.next = IF n = last THEN a ELSE @,
                           !.prev = IF n = a THEN last ELSE @,
                           !.attr = IF n = e /\ @ = Null THEN a ELSE @]]
  <2>1. r = [rc |-> "SUCCESS", old |-> Null, h |-> g]
    BY <1>4 DEF SetAttributeNode
  <2> HIDE DEF last
  <2>2. Live(g) = Live(h)
    BY DEF Live
  <2>3. ASSUME NEW n \in Live(h)
        PROVE /\ DOMAIN g[n] = Fields /\ g[n].t = h[n].t /\ g[n].doc = h[n].doc
              /\ g[n].par = h[n].par /\ g[n].first = h[n].first
              /\ g[n].next = IF n = last THEN a ELSE h[n].next
              /\ g[n].prev = IF n = a THEN last ELSE h[n].prev
              /\ g[n].attr = IF n = e /\ h[n].attr = Null THEN a ELSE h[n].attr
    BY <1>0 DEF Fields
  <2> HIDE DEF g
  <2>4. a \in R
    BY <1>4
  <2>5. Tree(g, R \ {a})
    BY <2>2, <2>3, <2>4, AttrAppended DEF last
  <2>6. (R \ {a}) \cup ({Null} \ {Null}) = R \ {a}
    OBVIOUS
  <2>7. Kept(h, g, a)
    BY <2>2, <2>3 DEF Kept
  <2>8. r.old = Null /\ r.h = g /\ r.rc = "SUCCESS"
    BY <2>1
  <2> QED BY <2>3, <2>4, <2>5, <2>6, <2>7, <2>8, <1>4
<1> QED BY <1>1, <1>2, <1>3, <1>4

-----------------------------------------------------------------------------
(* Copies *)

\* V is a part of the tree below n: with a node, n apart, V has what is before and above it.
Part(h, R, n, V) ==
    /\ V \subseteq Live(h) /\ n \in V /\ h[n].next \notin V
    /\ \A a \in V : ~ Edge(h, a, n)
    /\ \A m \in V : m # n =>
         /\ m \notin R
         /\ h[m].prev # Null => h[m].prev \in V
         /\ h[m].par # Null => h[m].par \in V
         /\ \A k \in Live(h) : h[k].attr = m => k \in V

\* g has a copy of V, in which id maps each node to its copy.
Copied(h, g, n, V, id) ==
    /\ id \in [V -> Nat] /\ \A m \in V : id[m] # Null /\ id[m] \notin Live(h)
    /\ \A m, k \in V : id[m] = id[k] => m = k
    /\ IsFiniteSet(Live(g)) /\ Live(h) \subseteq Live(g)
    /\ \A i \in Live(g) : i \in Live(h) \/ \E m \in V : i = id[m]
    /\ \A m \in V : id[m] \in Live(g)
    /\ \A m \in Live(h) : Alike(h, g, m)
    /\ \A m \in V :
         /\ DOMAIN g[id[m]] = Fields /\ g[id[m]].t = h[m].t
         /\ g[id[m]].par = IF m = n \/ h[m].par \notin V THEN Null ELSE id[h[m].par]
         /\ g[id[m]].first = IF h[m].first \in V THEN id[h[m].first] ELSE Null
         /\ g[id[m]].attr = IF h[m].attr \in V THEN id[h[m].attr] ELSE Null
         /\ g[id[m]].next = IF m = n \/ h[m].next \notin V THEN Null ELSE id[h[m].next]
         /\ g[id[m]].prev = IF m = n \/ h[m].prev \notin V THEN Null ELSE id[h[m].prev]

\* A copy of a part of a tree is a tree of its own.
LEMMA CopyTree ==
  ASSUME NEW h, NEW R, Tree(h, R), NEW n, NEW V, Part(h, R, n, V),
         NEW g, NEW id, Copied(h, g, n, V, id)
  PROVE  Tree(g, R \cup {id[n]})
<1>1. /\ Wf(h) /\ Links(h) /\ Rooted(h, R) /\ Acyclic(h)
      /\ Null \notin Live(h) /\ Null \notin V /\ V \subseteq Live(h) /\ n \in V
  BY DEF Tree, Wf, Part
<1>2. \A m \in Live(h) : m \notin V \/ id[m] \notin Live(h)
  BY DEF Copied
<1>3. Wf(g)
  <2>1. ASSUME NEW i \in Live(g)
        PROVE /\ i \in Nat /\ i # Null /\ DOMAIN g[i] = Fields
              /\ g[i].t \in {"document", "element", "attribute", "text", "cdata"}
              /\ g[i].par \in Live(g) \cup {Null}
              /\ g[i].first \in Live(g) \cup {Null}
              /\ g[i].next \in Live(g) \cup {Null}
              /\ g[i].prev \in Live(g) \cup {Null}
              /\ g[i].attr \in Live(g) \cup {Null}
    <3>1. CASE i \in Live(h)
      BY <3>1, <1>1 DEF Copied, Alike, Wf
    <3>2. CASE i \notin Live(h)
      <4>1. PICK m \in V : i = id[m]
        BY <3>2 DEF Copied
      <4> QED BY <4>1, <1>1 DEF Copied, Wf
    <3> QED BY <3>1, <3>2
  <2> QED BY <2>1 DEF Wf, Copied
<1>4. /\ \A m \in Live(h) : IsAttr(g, m) <=> IsAttr(h, m)
      /\ \A m \in V : IsAttr(g, id[m]) <=> IsAttr(h, m)
  BY DEF IsAttr, Copied, Alike
<1>5. \A m \in Live(h) :
         /\ g[m].par = h[m].par /\ g[m].first = h[m].first /\ g[m].next = h[m].next
         /\ g[m].prev = h[m].prev /\ g[m].attr = h[m].attr
  BY DEF Copied, Alike
<1>6. \A i \in Live(g) : i \notin Live(h) => \E m \in V : i = id[m]
  BY DEF Copied
<1>7. \A m \in V :
         /\ id[m] \in Live(g) /\ id[m] \notin Live(h) /\ id[m] # Null
         /\ g[id[m]].par = IF m = n \/ h[m].par \notin V THEN Null ELSE id[h[m].par]
         /\ g[id[m]].first = IF h[m].first \in V THEN id[h[m].first] ELSE Null
         /\ g[id[m]].attr = IF h[m].attr \in V THEN id[h[m].attr] ELSE Null
         /\ g[id[m]].next = IF m = n \/ h[m].next \notin V THEN Null ELSE id[h[m].next]
         /\ g[id[m]].prev = IF m = n \/ h[m].prev \notin V THEN Null ELSE id[h[m].prev]
  BY DEF Copied
<1>8. \A m, k \in V : id[m] = id[k] => m = k
  BY DEF Copied
<1>9. /\ h[n].next \notin V
      /\ \A a \in V : h[a].first # n /\ h[a].next # n /\ h[a].attr # n
      /\ \A m \in V : m # n =>
           /\ m \notin R
           /\ h[m].prev # Null => h[m].prev \in V
           /\ h[m].par # Null => h[m].par \in V
           /\ \A k \in Live(h) : h[k].attr = m => k \in V
  BY <1>1 DEF Part, Edge
<1>10. Live(h) \subseteq Live(g)
  BY DEF Copied
<1>11. Links(g)
  <2>1. ASSUME NEW i \in Live(g), g[i].next # Null
        PROVE  /\ g[g[i].next].prev = i /\ g[g[i].next].par = g[i].par
               /\ IsAttr(g, g[i].next) <=> IsAttr(g, i)
    <3>1. CASE i \in Live(h)
      BY <3>1, <2>1, <1>1, <1>4, <1>5 DEF Links, Wf
    <3>2. CASE i \notin Live(h)
      <4>1. PICK m \in V : i = id[m]
        BY <3>2, <1>6
      <4>2. PICK k \in V : k = h[m].next /\ g[i].next = id[k] /\ m # n
        BY <4>1, <2>1, <1>7
      <4>3. h[k].prev = m /\ h[k].par = h[m].par /\ (IsAttr(h, k) <=> IsAttr(h, m)) /\ k # n
        BY <4>2, <1>1, <1>9 DEF Links
      <4> QED BY <4>1, <4>2, <4>3, <1>4, <1>7, <1>1
    <3> QED BY <3>1, <3>2
  <2>2. ASSUME NEW i \in Live(g), g[i].prev # Null PROVE g[g[i].prev].next = i
    <3>1. CASE i \in Live(h)
      BY <3>1, <2>2, <1>1, <1>5 DEF Links, Wf
    <3>2. CASE i \notin Live(h)
      <4>1. PICK m \in V : i = id[m]
        BY <3>2, <1>6
      <4>2. PICK k \in V : k = h[m].prev /\ g[i].prev = id[k] /\ m # n
        BY <4>1, <2>2, <1>7
      <4>3. h[k].next = m /\ k # n
        BY <4>2, <1>1, <1>9 DEF Links
      <4> QED BY <4>1, <4>2, <4>3, <1>7, <1>1
    <3> QED BY <3>1, <3>2
  <2>3. ASSUME NEW i \in Live(g), g[i].first # Null
        PROVE  g[g[i].first].prev = Null /\ g[g[i].first].par = i /\ ~ IsAttr(g, g[i].first)
    <3>1. CASE i \in Live(h)
      BY <3>1, <2>3, <1>1, <1>4, <1>5 DEF Links, Wf
    <3>2. CASE i \notin Live(h)
      <4>1. PICK m \in V : i = id[m]
        BY <3>2, <1>6
      <4>2. PICK k \in V : k = h[m].first /\ g[i].first = id[k]
        BY <4>1, <2>3, <1>7
      <4>3. h[k].prev = Null /\ h[k].par = m /\ ~ IsAttr(h, k) /\ k # n
        BY <4>2, <1>1, <1>9 DEF Links
      <4> QED BY <4>1, <4>2, <4>3, <1>4, <1>7, <1>1
    <3> QED BY <3>1, <3>2
  <2>4. ASSUME NEW i \in Live(g), g[i].attr # Null
        PROVE  g[g[i].attr].prev = Null /\ IsAttr(g, g[i].attr)
    <3>1. CASE i \in Live(h)
      BY <3>1, <2>4, <1>1, <1>4, <1>5 DEF Links, Wf
    <3>2. CASE i \notin Live(h)
      <4>1. PICK m \in V : i = id[m]
        BY <3>2, <1>6
      <4>2. PICK k \in V : k = h[m].attr /\ g[i].attr = id[k]
        BY <4>1, <2>4, <1>7
      <4>3. h[k].prev = Null /\ IsAttr(h, k)
        BY <4>2, <1>1 DEF Links
      <4> QED BY <4>1, <4>2, <4>3, <1>4, <1>7, <1>1
    <3> QED BY <3>1, <3>2
  <2>5. ASSUME NEW i \in Live(g), IsAttr(g, i)
        PROVE  g[i].par = Null /\ g[i].first = Null /\ g[i].attr = Null
    <3>1. CASE i \in Live(h)
      BY <3>1, <2>5, <1>1, <1>4, <1>5 DEF Links
    <3>2. CASE i \notin Live(h)
      <4>1. PICK m \in V : i = id[m]
        BY <3>2, <1>6
      <4>2. h[m].par = Null /\ h[m].first = Null /\ h[m].attr = Null
        BY <4>1, <2>5, <1>1, <1>4 DEF Links
      <4> QED BY <4>1, <4>2, <1>7, <1>1
    <3> QED BY <3>1, <3>2
  <2>6. ASSUME NEW i \in Live(g), NEW j \in Live(g), g[i].attr # Null, g[i].attr = g[j].attr
        PROVE  i = j
    <3>1. CASE i \in Live(h) /\ j \in Live(h)
      BY <3>1, <2>6, <1>1, <1>5 DEF Links
    <3>2. CASE i \notin Live(h) /\ j \notin Live(h)
      <4>1. PICK m \in V : i = id[m]
        BY <3>2, <1>6
      <4>2. PICK k \in V : j = id[k]
        BY <3>2, <1>6
      <4>3. h[m].attr \in V /\ h[k].attr \in V /\ id[h[m].attr] = id[h[k].attr]
        BY <4>1, <4>2, <2>6, <1>7
      <4>4. h[m].attr = h[k].attr
        BY <4>3, <1>8
      <4>5. m = k
        BY <4>3, <4>4, <1>1 DEF Links
      <4> QED BY <4>1, <4>2, <4>5
    <3>3. CASE i \in Live(h) /\ j \notin Live(h)
      <4>1. PICK k \in V : j = id[k]
        BY <3>3, <1>6
      <4>2. g[i].attr \in Live(h)
        BY <3>3, <2>6, <1>1, <1>5 DEF Wf
      <4> QED BY <4>1, <4>2, <2>6, <1>7, <1>1
    <3>4. CASE i \notin Live(h) /\ j \in Live(h)
      <4>1. PICK k \in V : i = id[k]
        BY <3>4, <1>6
      <4>2. g[j].attr \in Live(h)
        BY <3>4, <2>6, <1>1, <1>5 DEF Wf
      <4> QED BY <4>1, <4>2, <2>6, <1>7, <1>1
    <3> QED BY <3>1, <3>2, <3>3, <3>4
  <2>7. ASSUME NEW i \in Live(g), g[i].par # Null, g[i].prev = Null PROVE g[g[i].par].first = i
    <3>1. CASE i \in Live(h)
      BY <3>1, <2>7, <1>1, <1>5 DEF Links, Wf
    <3>2. CASE i \notin Live(h)
      <4>1. PICK m \in V : i = id[m]
        BY <3>2, <1>6
      <4>2. PICK k \in V : k = h[m].par /\ g[i].par = id[k] /\ m # n
        BY <4>1, <2>7, <1>7
      <4>3. h[m].prev = Null
        BY <4>1, <4>2, <2>7, <1>7, <1>9
      <4>4. h[k].first = m
        BY <4>2, <4>3, <1>1 DEF Links
      <4> QED BY <4>1, <4>2, <4>4, <1>7, <1>1
    <3> QED BY <3>1, <3>2
  <2> QED BY <2>1, <2>2, <2>3, <2>4, <2>5, <2>6, <2>7 DEF Links
<1>12. Rooted(g, R \cup {id[n]})
  <2>1. R \cup {id[n]} \subseteq Live(g)
    BY <1>1, <1>7, <1>10 DEF Rooted
  <2>2. ASSUME NEW i \in R \cup {id[n]}
        PROVE /\ g[i].par = Null /\ g[i].next = Null /\ g[i].prev = Null
              /\ \A j \in Live(g) : g[j].attr # i
    <3>1. CASE i \in R
      <4>1. i \in Live(h) /\ g[i].par = Null /\ g[i].next = Null /\ g[i].prev = Null
        BY <3>1, <1>1, <1>5 DEF Rooted
      <4>2. ASSUME NEW j \in Live(g), g[j].attr = i PROVE FALSE
        <5>1. CASE j \in Live(h)
          BY <5>1, <4>2, <3>1, <1>1, <1>5 DEF Rooted
        <5>2. CASE j \notin Live(h)
          <6>1. PICK k \in V : j = id[k]
            BY <5>2, <1>6
          <6> QED BY <6>1, <4>1, <4>2, <1>7, <1>1
        <5> QED BY <5>1, <5>2
      <4> QED BY <4>1, <4>2
    <3>2. CASE i = id[n]
      <4>1. g[i].par = Null /\ g[i].next = Null /\ g[i].prev = Null
        BY <3>2, <1>1, <1>7
      <4>2. ASSUME NEW j \in Live(g), g[j].attr = i PROVE FALSE
        <5>1. CASE j \in Live(h)
          BY <5>1, <4>2, <3>2, <1>1, <1>5, <1>7 DEF Wf
        <5>2. CASE j \notin Live(h)
          <6>1. PICK k \in V : j = id[k]
            BY <5>2, <1>6
          <6>2. h[k].attr \in V /\ id[h[k].attr] = id[n]
            BY <6>1, <4>2, <3>2, <1>7, <1>1
          <6>3. h[k].attr = n
            BY <6>2, <1>8, <1>1
          <6> QED BY <6>3, <1>9
        <5> QED BY <5>1, <5>2
      <4> QED BY <4>1, <4>2
    <3> QED BY <3>1, <3>2
  <2>3. ASSUME NEW i \in Live(g), ~ IsAttr(g, i), g[i].par = Null PROVE i \in R \cup {id[n]}
    <3>1. CASE i \in Live(h)
      BY <3>1, <2>3, <1>1, <1>4, <1>5 DEF Rooted
    <3>2. CASE i \notin Live(h)
      <4>1. PICK m \in V : i = id[m]
        BY <3>2, <1>6
      <4>2. SUFFICES ASSUME m # n PROVE FALSE
        BY <4>1
      <4>3. ~ IsAttr(h, m) /\ h[m].par = Null
        BY <4>1, <4>2, <2>3, <1>4, <1>7, <1>9
      <4> QED BY <4>2, <4>3, <1>1, <1>9 DEF Rooted
    <3> QED BY <3>1, <3>2
  <2>4. ASSUME NEW i \in Live(g), IsAttr(g, i), i \notin R \cup {id[n]}, g[i].prev = Null
        PROVE  \E j \in Live(g) : g[j].attr = i
    <3>1. CASE i \in Live(h)
      <4>1. PICK k \in Live(h) : h[k].attr = i
        BY <3>1, <2>4, <1>1, <1>4, <1>5 DEF Rooted
      <4> QED BY <4>1, <1>5, <1>10
    <3>2. CASE i \notin Live(h)
      <4>1. PICK m \in V : i = id[m]
        BY <3>2, <1>6
      <4>2. m # n /\ m \notin R /\ IsAttr(h, m)
        BY <4>1, <2>4, <1>4, <1>9
      <4>3. h[m].prev = Null
        BY <4>1, <4>2, <2>4, <1>7, <1>9
      <4>4. PICK k \in Live(h) : h[k].attr = m
        BY <4>2, <4>3, <1>1 DEF Rooted
      <4>5. k \in V
        BY <4>2, <4>4, <1>9
      <4> QED BY <4>1, <4>4, <4>5, <1>7
    <3> QED BY <3>1, <3>2
  <2> QED BY <2>1, <2>2, <2>3, <2>4 DEF Rooted
<1>13. Acyclic(g)
  <2>1. ASSUME NEW a \in Live(g), NEW b \in Live(h), Edge(g, a, b)
        PROVE  a \in Live(h) /\ Edge(h, a, b)
    <3>1. CASE a \in Live(h)
      BY <3>1, <2>1, <1>5 DEF Edge
    <3>2. CASE a \notin Live(h)
      <4>1. PICK m \in V : a = id[m]
        BY <3>2, <1>6
      <4> QED BY <4>1, <2>1, <1>7, <1>1 DEF Edge
    <3> QED BY <3>1, <3>2
  <2>2. ASSUME NEW a \in V, NEW b \in V, Edge(g, id[a], id[b]) PROVE Edge(h, a, b)
    BY <2>2, <1>7, <1>8, <1>1 DEF Edge
  <2>3. ASSUME NEW S \in SUBSET Live(g), S # {} PROVE \E s \in S : \A a \in S : ~ Edge(g, a, s)
    <3>1. CASE S \cap Live(h) # {}
      <4>1. S \cap Live(h) \in SUBSET Live(h)
        OBVIOUS
      <4>2. PICK s \in S \cap Live(h) : \A a \in S \cap Live(h) : ~ Edge(h, a, s)
        BY <4>1, <3>1, <1>1 DEF Acyclic
      <4> QED BY <4>2, <2>1
    <3>2. CASE S \cap Live(h) = {}
      <4> DEFINE T == {m \in V : id[m] \in S}
      <4>0. \A i \in S : \E m \in T : i = id[m]
        BY <3>2, <1>6
      <4>1. T \in SUBSET Live(h) /\ T # {}
        BY <1>1, <2>3, <4>0
      <4>2. PICK s \in T : \A a \in T : ~ Edge(h, a, s)
        <5> HIDE DEF T
        <5> QED BY <4>1, <1>1 DEF Acyclic
      <4>3. ASSUME NEW i \in S, Edge(g, i, id[s]) PROVE FALSE
        <5>1. PICK m \in T : i = id[m]
          BY <4>0
        <5> QED BY <5>1, <4>2, <4>3, <2>2
      <4> QED BY <4>2, <4>3
    <3> QED BY <3>1, <3>2
  <2> QED BY <2>3 DEF Acyclic
<1> QED BY <1>3, <1>11, <1>12, <1>13 DEF Tree

\* Documents have no parent.
DocTop(h) == \A n \in Live(h) : h[n].t = "document" => h[n].par = Null

\* What the recursion of ixmlNode_cloneNode visits.
LEMMA VisitedIs ==
  ASSUME NEW h, Wf(h), NEW n \in Live(h), NEW deep \in BOOLEAN, NEW V, V = Visited(h, n, deep)
  PROVE  /\ V \subseteq Live(h) /\ n \in V
         /\ \A U \in SUBSET Live(h) :
              n \in U /\ (\A a \in U : \A b \in Live(h) :
                             Edge(h, a, b) /\ (a = n => b # h[n].next) => b \in U)
              => V \subseteq U
         /\ \A U \in SUBSET V :
              n \in U /\ (\A a \in U : \A b \in V :
                             Edge(h, a, b) /\ (a = n => b # h[n].next) => b \in U)
              => V \subseteq U
<1> DEFINE F(m) ==
          {IF h[m].t = "element" THEN h[m].attr ELSE Null,
           IF h[m].t \in {"element", "document"} /\ deep THEN h[m].first ELSE Null,
           IF h[m].t = "attribute" \/ (h[m].t = "element" /\ deep) THEN h[m].next ELSE Null}
           f == [m \in Live(h) |-> IF m = n THEN F(m) \ {h[m].next} ELSE F(m)]
<1>1. IsFiniteSet(Live(h)) /\ Null \notin Live(h) /\ n # Null
  BY DEF Wf
<1>2. V = Closure(h, n, f)
  BY DEF Visited
<1>3. ASSUME NEW a \in Live(h)
      PROVE  /\ F(a) \in SUBSET (Live(h) \cup {Null})
             /\ \A b \in F(a) : b # Null => Edge(h, a, b)
  BY DEF Wf, Edge
<1>4. \A a \in Live(h) : /\ f[a] \in SUBSET (Live(h) \cup {Null})
                         /\ \A b \in f[a] : b # Null => Edge(h, a, b) /\ (a = n => b # h[n].next)
  <2> HIDE DEF F
  <2> QED BY <1>3
<1>5. f \in [Live(h) -> SUBSET (Live(h) \cup {Null})]
  <2>1. f = [m \in Live(h) |-> f[m]]
    OBVIOUS
  <2> HIDE DEF f
  <2> QED BY <1>4, <2>1
<1> HIDE DEF f
<1>6. /\ Closure(h, n, f) \subseteq Live(h)
      /\ n \in Closure(h, n, f)
      /\ \A x, y : x \in Closure(h, n, f) /\ y \in f[x] /\ y # Null => y \in Closure(h, n, f)
      /\ \A U : {n} \ {Null} \subseteq U /\ ClosedUnder(f, U) => Closure(h, n, f) \subseteq U
  BY <1>1, <1>5, ClosureIs
<1>7. ASSUME NEW U \in SUBSET Live(h), n \in U,
             \A a \in U : \A b \in Live(h) : Edge(h, a, b) /\ (a = n => b # h[n].next) => b \in U
      PROVE  V \subseteq U
  <2>1. ClosedUnder(f, U)
    BY <1>4, <1>7 DEF ClosedUnder
  <2> QED BY <2>1, <1>2, <1>6, <1>7
<1>8. ASSUME NEW U \in SUBSET V, n \in U,
             \A a \in U : \A b \in V : Edge(h, a, b) /\ (a = n => b # h[n].next) => b \in U
      PROVE  V \subseteq U
  <2>1. ClosedUnder(f, U)
    BY <1>2, <1>4, <1>6, <1>8 DEF ClosedUnder
  <2> QED BY <2>1, <1>2, <1>6, <1>8
<1> QED BY <1>2, <1>6, <1>7, <1>8

\* What it visits is such a part.
LEMMA VisitedPart ==
  ASSUME NEW h, NEW R, Tree(h, R), NEW n \in Live(h), NEW deep \in BOOLEAN,
         NEW V, V = Visited(h, n, deep)
  PROVE  Part(h, R, n, V)
<1>1. /\ Wf(h) /\ Links(h) /\ Rooted(h, R) /\ Null \notin Live(h)
      /\ V \subseteq Live(h) /\ n \in V
  BY VisitedIs DEF Tree, Wf
<1>2. V \subseteq Freed(h, n)
  BY <1>1, SubIs, VisitedIs
<1>3. \A a \in V : ~ Edge(h, a, n)
  BY <1>1, <1>2, NotBack
<1>4. ASSUME NEW m \in V, m # n PROVE \E a \in V : Edge(h, a, m) /\ (a = n => m # h[n].next)
  <2> DEFINE U == {x \in V : x = n \/ \E a \in V : Edge(h, a, x) /\ (a = n => x # h[n].next)}
  <2>1. U \in SUBSET V /\ n \in U
    BY <1>1
  <2>2. \A a \in U : \A b \in V : Edge(h, a, b) /\ (a = n => b # h[n].next) => b \in U
    OBVIOUS
  <2>3. V \subseteq U
    <3> HIDE DEF U
    <3> QED BY <2>1, <2>2, <1>1, VisitedIs
  <2> QED BY <2>3, <1>4
<1>5. ASSUME NEW m \in V, m # n, NEW a \in Live(h), Edge(h, a, m)
      PROVE  a \in V /\ (a = n => m # h[n].next)
  BY <1>1, <1>4, <1>5, OnePred
<1>6. h[n].next \notin V
  <2>1. SUFFICES ASSUME h[n].next \in V PROVE FALSE
    OBVIOUS
  <2>2. Edge(h, n, h[n].next)
    BY <2>1, <1>1 DEF Edge
  <2>3. h[n].next # n
    BY <2>2, NotBack
  <2> QED BY <2>1, <2>2, <2>3, <1>1, <1>5
<1>7. ASSUME NEW m \in V, m # n PROVE h[m].par # Null => h[m].par \in V
  <2> DEFINE U == {x \in V : x = n \/ h[x].par = Null \/ h[x].par \in V}
  <2>1. U \in SUBSET V /\ n \in U
    BY <1>1
  <2>2. ASSUME NEW a \in U, NEW b \in V, Edge(h, a, b), a = n => b # h[n].next PROVE b \in U
    <3>1. a \in V /\ a \in Live(h) /\ b \in Live(h)
      BY <1>1
    <3>2. CASE b = h[a].first
      BY <3>1, <3>2, <1>1 DEF Links
    <3>3. CASE b = h[a].attr
      <4>1. h[b].par = Null
        BY <3>1, <3>3, <1>1 DEF Links
      <4> QED BY <4>1
    <3>4. CASE b = h[a].next
      <4>1. a # n /\ h[b].par = h[a].par
        BY <3>1, <3>4, <2>2, <1>1 DEF Links
      <4> QED BY <4>1
    <3> QED BY <3>2, <3>3, <3>4, <2>2 DEF Edge
  <2>3. V \subseteq U
    <3> HIDE DEF U
    <3> QED BY <2>1, <2>2, <1>1, VisitedIs
  <2> QED BY <2>3, <1>7
<1>8. ASSUME NEW m \in V, m # n
      PROVE  /\ m \notin R
             /\ h[m].prev # Null => h[m].prev \in V
             /\ \A k \in Live(h) : h[k].attr = m => k \in V
  <2>1. m \in Live(h) /\ m # Null
    BY <1>1
  <2>2. m \notin R
    BY <2>1, <1>1, <1>4, <1>8, HasPred
  <2>3. h[m].prev # Null => h[m].prev \in Live(h) /\ Edge(h, h[m].prev, m)
    BY <2>1, <1>1 DEF Links, Wf, Edge
  <2>4. \A k \in Live(h) : h[k].attr = m => Edge(h, k, m)
    BY <2>1 DEF Edge
  <2> QED BY <2>2, <2>3, <2>4, <1>5, <1>8
<1> QED BY <1>1, <1>3, <1>6, <1>7, <1>8 DEF Part

\* A proper subset has fewer elements.
LEMMA Smaller ==
  ASSUME NEW S, IsFiniteSet(S), NEW T \in SUBSET S, T # S
  PROVE  Cardinality(T) < Cardinality(S)
<1>1. IsFiniteSet(T) /\ Cardinality(T) <= Cardinality(S) /\ Cardinality(T) # Cardinality(S)
  BY FS_Subset
<1>2. Cardinality(T) \in Nat /\ Cardinality(S) \in Nat
  BY <1>1, FS_CardinalityType
<1> QED BY <1>1, <1>2

\* The new nodes get numbers of their own.
LEMMA Numbering ==
  ASSUME NEW V, IsFiniteSet(V), V \subseteq Nat, NEW base \in Nat, NEW id,
         id = [m \in V |-> base + Cardinality({x \in V : x < m})]
  PROVE  /\ id \in [V -> Nat]
         /\ \A m \in V : base <= id[m] /\ id[m] < base + Cardinality(V)
         /\ \A m, k \in V : id[m] = id[k] => m = k
         /\ Cardinality(V) \in Nat
<1> DEFINE B(m) == {x \in V : x < m}
<1>1. \A m \in V : B(m) \subseteq V /\ IsFiniteSet(B(m)) /\ Cardinality(B(m)) \in Nat /\ m \notin B(m)
  BY FS_Subset, FS_CardinalityType
<1>2. Cardinality(V) \in Nat
  BY FS_CardinalityType
<1>3. ASSUME NEW m \in V PROVE Cardinality(B(m)) < Cardinality(V)
  <2> HIDE DEF B
  <2>1. B(m) \subseteq V /\ B(m) # V
    BY <1>1
  <2> QED BY <2>1, Smaller
<1>4. ASSUME NEW m \in V, NEW k \in V, m < k PROVE Cardinality(B(m)) < Cardinality(B(k))
  <2>1. ASSUME NEW x \in B(m) PROVE x \in B(k)
    <3>1. x \in Nat /\ m \in Nat /\ k \in Nat /\ x < m /\ x \in V
      OBVIOUS
    <3>2. x < k
      BY <3>1, <1>4
    <3> QED BY <3>1, <3>2
  <2>2. m \in B(k)
    BY <1>4
  <2> HIDE DEF B
  <2>3. IsFiniteSet(B(k)) /\ B(m) \in SUBSET B(k) /\ B(m) # B(k)
    BY <2>1, <2>2, <1>1
  <2> QED BY <2>3, Smaller
<1>5. \A m \in V : id[m] = base + Cardinality(B(m))
  OBVIOUS
<1>6. id \in [V -> Nat]
  <2> HIDE DEF B
  <2>1. \A m \in V : id[m] \in Nat
    BY <1>1, <1>5
  <2>2. DOMAIN id = V /\ id = [m \in V |-> id[m]]
    OBVIOUS
  <2> QED BY <2>1, <2>2
<1> HIDE DEF B
<1>7. \A m \in V : base <= id[m] /\ id[m] < base + Cardinality(V)
  BY <1>1, <1>2, <1>3, <1>5
<1>8. ASSUME NEW m \in V, NEW k \in V, id[m] = id[k] PROVE m = k
  <2>1. Cardinality(B(m)) = Cardinality(B(k))
    BY <1>1, <1>5, <1>8
  <2>2. ~ (m < k) /\ ~ (k < m)
    BY <2>1, <1>1, <1>4
  <2>3. m \in Nat /\ k \in Nat
    OBVIOUS
  <2> QED BY <2>2, <2>3
<1> QED BY <1>2, <1>6, <1>7, <1>8

\* Of a set of at most one element.
LEMMA AtMostOne ==
  ASSUME NEW S, IsFiniteSet(S), Cardinality(S) <= 1, NEW x \in S, NEW y \in S
  PROVE  x = y
<1>1. SUFFICES ASSUME x # y PROVE FALSE
  OBVIOUS
<1>2. IsFiniteSet({x}) /\ Cardinality({x}) = 1
  BY FS_Singleton
<1>3. Cardinality({x}) < Cardinality(S)
  <2>1. {x} \subseteq S /\ {x} # S
    BY <1>1
  <2> QED BY <2>1, Smaller
<1>4. Cardinality(S) \in Nat
  BY FS_CardinalityType
<1> QED BY <1>2, <1>3, <1>4

\* ixmlNode_cloneNode makes a tree of its own.
LEMMA CloneTree ==
  ASSUME NEW h, NEW R, Tree(h, R), DocTop(h), NEW n \in Live(h), NEW deep \in BOOLEAN,
         NEW base \in Nat, base # Null, \A m \in Live(h) : m < base,
         h[n].t = "document" => Cardinality(Siblings(h, h[n].first)) <= 1,
         NEW c, c = Clone(h, n, deep, base)
  PROVE  /\ Tree(c.h, R \cup {c.root}) /\ DocTop(c.h)
         /\ c.root \in Live(c.h) /\ c.root \notin Live(h) /\ Live(h) \subseteq Live(c.h)
         /\ \A i \in Live(c.h) : i < base + Cardinality(Visited(h, n, deep))
         /\ Cardinality(Visited(h, n, deep)) \in Nat
<1> DEFINE V == Visited(h, n, deep)
           Id(m) == base + Cardinality({x \in V : x < m})
           id == [m \in V |-> Id(m)]
           Img(m) == IF m \in V THEN Id(m) ELSE Null
           Copy(m) == [h[m] EXCEPT
                         !.doc = Null, !.own = Null,
                         !.par = IF m = n \/ @ \notin V
                                    \/ (h[@].t = "document" /\ h[m].prev # Null)
                                 THEN Null ELSE Img(@),
                         !.first = Img(@), !.attr = Img(@),
                         !.next = IF m = n THEN Null ELSE Img(@),
                         !.prev = IF m = n THEN Null ELSE Img(@)]
           Src(i) == CHOOSE m \in V : Id(m) = i
           g == [i \in Live(h) \cup {Id(m) : m \in V} |->
                   IF i \in Live(h) THEN h[i] ELSE Copy(Src(i))]
<1>0. c.root = Id(n) /\ c.h = g
  BY DEF Clone
<1>1. /\ Wf(h) /\ Links(h) /\ Rooted(h, R) /\ Null \notin Live(h) /\ IsFiniteSet(Live(h))
      /\ Live(h) \subseteq Nat /\ \A m \in Live(h) : DOMAIN h[m] = Fields
  BY DEF Tree, Wf
<1>2. V \subseteq Live(h) /\ n \in V
  BY <1>1, VisitedIs
<1>3. Part(h, R, n, V)
  BY VisitedPart
<1>4. IsFiniteSet(V) /\ V \subseteq Nat
  BY <1>1, <1>2, FS_Subset
<1>5. /\ id \in [V -> Nat]
      /\ \A m \in V : base <= id[m] /\ id[m] < base + Cardinality(V)
      /\ \A m, k \in V : id[m] = id[k] => m = k
      /\ Cardinality(V) \in Nat
  <2> HIDE DEF V
  <2> QED BY <1>4, Numbering
<1>6. \A m \in V : Id(m) = id[m]
  OBVIOUS
<1>7. \A m \in V : id[m] \notin Live(h) /\ id[m] # Null
  <2> HIDE DEF id, V
  <2>1. \A m \in V : id[m] \in Nat /\ base <= id[m]
    BY <1>5
  <2>2. ASSUME NEW m \in V, id[m] \in Live(h) PROVE FALSE
    <3>1. id[m] < base /\ base <= id[m] /\ id[m] \in Nat
      BY <2>1, <2>2
    <3> QED BY <3>1
  <2>3. ASSUME NEW m \in V PROVE id[m] # Null
    <3>1. base <= id[m] /\ id[m] \in Nat /\ base # 0
      BY <2>1 DEF Null
    <3> QED BY <3>1 DEF Null
  <2> QED BY <2>2, <2>3
<1> HIDE DEF V
<1>8. \A m \in V : Src(id[m]) = m
  <2>1. ASSUME NEW m \in V PROVE Src(id[m]) = m
    <3>1. \A k \in V : Id(k) = id[m] => k = m
      BY <1>5, <1>6
    <3>2. Id(m) = id[m]
      BY <1>6
    <3> HIDE DEF Id, id
    <3> QED BY <3>1, <3>2
  <2> QED BY <2>1
<1>22. Live(g) = Live(h) \cup {Id(m) : m \in V}
  BY DEF Live
<1>9. /\ \A i \in Live(h) : g[i] = h[i]
      /\ \A m \in V : g[id[m]] = Copy(m)
  <2>2. \A i \in Live(h) : g[i] = h[i]
    OBVIOUS
  <2>3. ASSUME NEW m \in V PROVE g[id[m]] = Copy(m)
    <3>1. id[m] \in {Id(k) : k \in V}
      BY <1>6
    <3>2. id[m] \notin Live(h) /\ Src(id[m]) = m
      BY <1>7, <1>8
    <3> HIDE DEF Id, id, Src, Copy
    <3> QED BY <3>1, <3>2
  <2> QED BY <2>2, <2>3
<1>10. \A i \in Live(g) : i \in Live(h) \/ \E m \in V : i = id[m]
  <2> HIDE DEF g, id, Id
  <2> QED BY <1>6, <1>22
<1>11. \A m \in V : id[m] \in Live(g)
  <2> HIDE DEF g, id, Id
  <2> QED BY <1>6, <1>22
<1>12. Live(h) \subseteq Live(g)
  BY <1>22
<1>13. \A i \in Live(g) : i \in Nat /\ i < base + Cardinality(V)
  <2>1. \A m \in V : id[m] \in Nat
    BY <1>5
  <2> HIDE DEF id, g
  <2> QED BY <2>1, <1>1, <1>5, <1>10
<1>14. IsFiniteSet(Live(g))
  <2>1. Live(g) \subseteq 0..(base + Cardinality(V))
    <3> HIDE DEF g
    <3> QED BY <1>5, <1>13
  <2>2. IsFiniteSet(0..(base + Cardinality(V)))
    BY <1>5, FS_Interval
  <2> HIDE DEF g
  <2> QED BY <2>1, <2>2, FS_Subset
<1>15. ASSUME NEW m \in V, m # n, h[m].par \in V, h[h[m].par].t = "document" PROVE h[m].prev = Null
  <2>1. m \in Live(h) /\ h[m].par \in Live(h) /\ h[m].par # Null
    BY <1>1, <1>2, <1>15
  <2>2. h[h[m].par].par = Null /\ ~ IsAttr(h, h[m].par)
    BY <2>1, <1>15 DEF DocTop, IsAttr
  <2>3. h[m].par \in R
    BY <2>1, <2>2, <1>1 DEF Rooted
  <2>4. h[m].par = n
    BY <2>3, <1>3, <1>15 DEF Part
  <2>5. h[n].first \in Live(h) /\ m \in Siblings(h, h[n].first)
    BY <2>1, <2>4, ChildListed
  <2>6. /\ Siblings(h, h[n].first) \subseteq Live(h) /\ h[n].first \in Siblings(h, h[n].first)
    BY <2>5, <1>1, SiblingsIs
  <2>7. IsFiniteSet(Siblings(h, h[n].first)) /\ Cardinality(Siblings(h, h[n].first)) <= 1
    BY <2>6, <2>4, <1>1, <1>15, FS_Subset
  <2>8. m = h[n].first
    BY <2>5, <2>6, <2>7, AtMostOne
  <2> QED BY <2>8, <2>1, <1>1 DEF Links
<1>16. ASSUME NEW m \in V
       PROVE  /\ DOMAIN g[id[m]] = Fields /\ g[id[m]].t = h[m].t
              /\ g[id[m]].par = IF m = n \/ h[m].par \notin V THEN Null ELSE id[h[m].par]
              /\ g[id[m]].first = IF h[m].first \in V THEN id[h[m].first] ELSE Null
              /\ g[id[m]].attr = IF h[m].attr \in V THEN id[h[m].attr] ELSE Null
              /\ g[id[m]].next = IF m = n \/ h[m].next \notin V THEN Null ELSE id[h[m].next]
              /\ g[id[m]].prev = IF m = n \/ h[m].prev \notin V THEN Null ELSE id[h[m].prev]
  <2>1. g[id[m]] = Copy(m) /\ DOMAIN h[m] = Fields
    BY <1>1, <1>2, <1>9
  <2>2. \A x : Img(x) = IF x \in V THEN id[x] ELSE Null
    BY <1>6
  <2>3. m # n /\ h[m].par \in V => ~ (h[h[m].par].t = "document" /\ h[m].prev # Null)
    BY <1>15
  <2> HIDE DEF g, id, Img
  <2>4. /\ DOMAIN Copy(m) = Fields /\ Copy(m).t = h[m].t
        /\ Copy(m).par = IF m = n \/ h[m].par \notin V
                                \/ (h[h[m].par].t = "document" /\ h[m].prev # Null)
                         THEN Null ELSE Img(h[m].par)
        /\ Copy(m).first = Img(h[m].first) /\ Copy(m).attr = Img(h[m].attr)
        /\ Copy(m).next = (IF m = n THEN Null ELSE Img(h[m].next))
        /\ Copy(m).prev = (IF m = n THEN Null ELSE Img(h[m].prev))
    BY <2>1 DEF Fields
  <2> HIDE DEF Copy
  <2> QED BY <2>1, <2>2, <2>3, <2>4
<1> HIDE DEF g, id, Copy, Src, Img, Id
<1>17. \A m \in Live(h) : Alike(h, g, m)
  BY <1>1, <1>9 DEF Alike
<1>18. Copied(h, g, n, V, id)
  BY <1>5, <1>7, <1>10, <1>11, <1>12, <1>14, <1>16, <1>17 DEF Copied
<1>19. Tree(g, R \cup {id[n]})
  BY <1>3, <1>18, CopyTree
<1>20. DocTop(g)
  <2>1. ASSUME NEW i \in Live(g), g[i].t = "document" PROVE g[i].par = Null
    <3>1. CASE i \in Live(h)
      BY <3>1, <2>1, <1>9 DEF DocTop
    <3>2. CASE i \notin Live(h)
      <4>1. PICK m \in V : i = id[m]
        BY <3>2, <1>10
      <4>2. h[m].par = Null
        BY <4>1, <2>1, <1>2, <1>16 DEF DocTop
      <4> QED BY <4>1, <4>2, <1>1, <1>2, <1>16
    <3> QED BY <3>1, <3>2
  <2> QED BY <2>1 DEF DocTop
<1>21. c.root = id[n]
  BY <1>0, <1>2, <1>6
<1> QED BY <1>0, <1>2, <1>5, <1>7, <1>11, <1>12, <1>13, <1>19, <1>20, <1>21 DEF V

-----------------------------------------------------------------------------
(* Sound heaps *)

\* The heap is a forest with the roots R, made by u allocations.
Good(h, R, u) == Tree(h, R) /\ DocTop(h) /\ u \in Nat /\ \A n \in Live(h) : n <= u

\* Between two parses: the roots are what the client holds and what was left behind.
DomOk == Good(heap, held \cup lost, used) /\ held \cap lost = {}

\* A new node.
Fresh(rec) ==
    /\ DOMAIN rec = Fields /\ rec.t \in {"document", "element", "attribute", "text", "cdata"}
    /\ rec.par = Null /\ rec.first = Null /\ rec.next = Null /\ rec.prev = Null /\ rec.attr = Null

\* A node that was just made hangs nowhere.
LEMMA NewFresh ==
  ASSUME NEW t \in {"document", "element", "attribute", "text", "cdata"}, NEW name, NEW v, NEW d
  PROVE  /\ Fresh(NewNode(t, name, v, d)) /\ NewNode(t, name, v, d).doc = d
         /\ NewNode(t, name, v, d).own = Null /\ NewNode(t, name, v, d).t = t
         /\ NewNode(t, name, v, d).name = name
BY DEF NewNode, Fresh, Fields

\* A new node is a new root.
LEMMA PutGood ==
  ASSUME NEW h, NEW R, NEW u, Good(h, R, u), NEW rec, Fresh(rec),
         NEW n, n = u + 1, NEW g, g = Put(h, n, rec)
  PROVE  /\ Good(g, R \cup {n}, n) /\ n \notin Live(h) /\ n # Null
         /\ Live(g) = Live(h) \cup {n} /\ g[n] = rec
         /\ \A m \in Live(h) : g[m] = h[m]
<1>1. Tree(h, R) /\ u \in Nat /\ DocTop(h) /\ \A m \in Live(h) : m <= u
  BY DEF Good
<1>2. Wf(h) /\ Live(h) \subseteq Nat /\ \A m \in Live(h) : DOMAIN h[m] = Fields
  BY <1>1 DEF Tree, Wf
<1>3. n \in Nat /\ n # Null /\ n \notin Live(h)
  BY <1>1, <1>2 DEF Null
<1>4. Live(g) = Live(h) \cup {n} /\ g[n] = rec /\ \A m \in Live(h) : g[m] = h[m]
  BY <1>3 DEF Put, Live
<1>5. \A m \in Live(h) : Alike(h, g, m)
  BY <1>2, <1>4 DEF Alike
<1>6. Tree(g, R \cup {n})
  BY <1>1, <1>3, <1>4, <1>5, PutTree DEF Fresh
<1>7. DocTop(g)
  BY <1>1, <1>4 DEF DocTop, Fresh
<1>8. \A m \in Live(g) : m <= n
  BY <1>1, <1>2, <1>3, <1>4
<1> QED BY <1>3, <1>4, <1>6, <1>7, <1>8 DEF Good

\* A change of other fields leaves the forest as it is.
LEMMA SameGood ==
  ASSUME NEW h, NEW R, NEW u, Good(h, R, u), NEW g, Live(g) = Live(h),
         \A n \in Live(h) : Alike(h, g, n)
  PROVE  Good(g, R, u)
<1>1. Tree(g, R)
  BY SameTree DEF Good
<1> QED BY <1>1 DEF Good, DocTop, Alike

\* Freeing a root.
LEMMA FreeGood ==
  ASSUME NEW h, NEW R, NEW u, Good(h, R, u), NEW n \in R
  PROVE  /\ Good(Free(h, n), R \ {n}, u) /\ Live(Free(h, n)) \subseteq Live(h)
<1>1. /\ Tree(Free(h, n), R \ {n})
      /\ Live(Free(h, n)) = Live(h) \ Freed(h, n)
      /\ \A m \in Live(h) \ Freed(h, n) : Free(h, n)[m] = h[m]
  BY FreeTree DEF Good
<1> QED BY <1>1 DEF Good, DocTop

\* A change of one field that is no pointer.
LEMMA FieldGood ==
  ASSUME NEW h, NEW R, NEW u, Good(h, R, u), NEW n, NEW v, NEW g,
         g = [h EXCEPT ![n].val = v] \/ g = [h EXCEPT ![n].ns = v]
  PROVE  /\ Good(g, R, u) /\ Live(g) = Live(h)
         /\ \A m \in Live(h) : /\ g[m].t = h[m].t /\ g[m].par = h[m].par /\ g[m].doc = h[m].doc
                               /\ g[m].name = h[m].name /\ g[m].next = h[m].next
                               /\ g[m].attr = h[m].attr
<1>1. \A m \in Live(h) : DOMAIN h[m] = Fields
  BY DEF Good, Tree, Wf
<1>2. Live(g) = Live(h)
  BY DEF Live
<1>3. ASSUME NEW m \in Live(h)
      PROVE  /\ Alike(h, g, m) /\ g[m].t = h[m].t /\ g[m].par = h[m].par /\ g[m].doc = h[m].doc
             /\ g[m].name = h[m].name /\ g[m].next = h[m].next /\ g[m].attr = h[m].attr
  <2>1. g[m] = h[m] \/ g[m] = [h[m] EXCEPT !.val = v] \/ g[m] = [h[m] EXCEPT !.ns = v]
    BY DEF Live
  <2> QED BY <1>1, <2>1 DEF Alike, Fields
<1> QED BY <1>2, <1>3, SameGood

\* A call that moves one node.
LEMMA KeptGood ==
  ASSUME NEW h, NEW R, NEW u, Good(h, R, u), NEW g, NEW Q, NEW c \in Live(h), Kept(h, g, c),
         Tree(g, Q), h[c].t # "document"
  PROVE  Good(g, Q, u)
BY DEF Good, Kept, DocTop

\* Taking a node out of its list.
LEMMA OutGood ==
  ASSUME NEW h, NEW R, NEW u, Good(h, R, u), NEW g, NEW c \in Live(h), Out(h, g, c)
  PROVE  Good(g, R \cup {c}, u) /\ Live(g) = Live(h)
<1>1. Tree(g, R \cup {c}) /\ Live(g) = Live(h)
  BY OutTree DEF Good, Out
<1>2. DocTop(g)
  BY <1>1 DEF Good, Out, DocTop
<1> QED BY <1>1, <1>2 DEF Good

\* A document is nobody's child.
LEMMA NotDocument ==
  ASSUME NEW h, Wf(h), NEW p \in Live(h), NEW c \in Live(h), AllowChildren(h, p, c)
  PROVE  h[c].t # "document"
<1>1. h[p].t \in {"document", "element", "attribute", "text", "cdata"}
  BY DEF Wf
<1>2. CASE h[p].t = "element"
  BY <1>2 DEF AllowChildren
<1>3. CASE h[p].t = "document"
  BY <1>3 DEF AllowChildren
<1>4. CASE h[p].t \in {"attribute", "text", "cdata"}
  BY <1>4 DEF AllowChildren
<1> QED BY <1>1, <1>2, <1>3, <1>4

\* Appending a child.
LEMMA AppendGood ==
  ASSUME NEW h, NEW R, NEW u, Good(h, R, u), NEW p \in Live(h), NEW c \in Live(h), c # p,
         h[c].par \in {Null, p}
  PROVE  /\ AppendChild(h, p, c).rc # "SUCCESS" => AppendChild(h, p, c).h = h
         /\ AppendChild(h, p, c).rc = "SUCCESS" =>
              /\ Good(AppendChild(h, p, c).h, R \ {c}, u)
              /\ Kept(h, AppendChild(h, p, c).h, c)
              /\ AppendChild(h, p, c).h[c].par = p
              /\ AppendChild(h, p, c).h[c].doc = h[p].doc
<1>1. Tree(h, R) /\ Wf(h)
  BY DEF Good, Tree
<1>2. /\ AppendChild(h, p, c).rc # "SUCCESS" => AppendChild(h, p, c).h = h
      /\ AppendChild(h, p, c).rc = "SUCCESS" =>
           /\ Tree(AppendChild(h, p, c).h, R \ {c})
           /\ Kept(h, AppendChild(h, p, c).h, c)
           /\ AppendChild(h, p, c).h[c].par = p
           /\ AppendChild(h, p, c).h[c].doc = h[p].doc
  BY <1>1, AppendChildTree
<1>3. AppendChild(h, p, c).rc = "SUCCESS" => AllowChildren(h, p, c)
  BY DEF AppendChild
<1> QED BY <1>1, <1>2, <1>3, NotDocument, KeptGood

\* Inserting a child.
LEMMA InsertGood ==
  ASSUME NEW h, NEW R, NEW u, Good(h, R, u), NEW p \in Live(h), NEW c \in Live(h), c # p,
         h[c].par \in {Null, p}, NEW o \in Live(h), o # c
  PROVE  /\ InsertBefore(h, p, c, o).rc # "SUCCESS" => InsertBefore(h, p, c, o).h = h
         /\ InsertBefore(h, p, c, o).rc = "SUCCESS" =>
              /\ Good(InsertBefore(h, p, c, o).h, R \ {c}, u)
              /\ Kept(h, InsertBefore(h, p, c, o).h, c)
              /\ h[o].par = p
<1>1. CASE ~ AllowChildren(h, p, c) \/ IsAncestor(h, c, p) \/ h[p].doc # h[c].doc \/ h[o].par # p
  BY <1>1 DEF InsertBefore
<1>2. CASE ~ (~ AllowChildren(h, p, c) \/ IsAncestor(h, c, p) \/ h[p].doc # h[c].doc \/ h[o].par # p)
  <2>1. InsertBefore(h, p, c, o) = [rc |-> "SUCCESS", h |-> InsertAt(h, p, c, o)]
    BY <1>2 DEF InsertBefore
  <2>2. Tree(h, R) /\ Wf(h)
    BY DEF Good, Tree
  <2>3. Tree(InsertAt(h, p, c, o), R \ {c}) /\ Kept(h, InsertAt(h, p, c, o), c)
    BY <2>2, <1>2, InsertAtTree
  <2>4. Good(InsertAt(h, p, c, o), R \ {c}, u)
    BY <2>2, <2>3, <1>2, NotDocument, KeptGood
  <2> QED BY <2>1, <2>3, <2>4, <1>2
<1> QED BY <1>1, <1>2

-----------------------------------------------------------------------------
(* The client's calls *)

\* ixmlDocument_createElement and the other ways to make a node.
LEMMA CreateOk ==
  ASSUME DomOk, NEW rec, Fresh(rec), Create(rec)
  PROVE  DomOk'
<1>1. Good(heap, held \cup lost, used) /\ held \cap lost = {} /\ held \cup lost \subseteq Live(heap)
  BY DEF DomOk, Good, Tree, Rooted
<1>2. /\ heap' = Put(heap, used + 1, rec) /\ held' = held \cup {used + 1}
      /\ used' = used + 1 /\ lost' = lost
  BY DEF Create
<1>3. Good(heap', (held \cup lost) \cup {used'}, used') /\ used' \notin Live(heap)
  BY <1>1, <1>2, PutGood
<1>4. (held \cup lost) \cup {used'} = held' \cup lost'
  BY <1>2
<1>5. held' \cap lost' = {}
  BY <1>1, <1>2, <1>3
<1>6. Good(heap', held' \cup lost', used')
  BY <1>3, <1>4
<1> QED BY <1>5, <1>6 DEF DomOk

\* The roots have no parent.
LEMMA RootFree ==
  ASSUME DomOk
  PROVE  /\ Good(heap, held \cup lost, used) /\ held \cap lost = {}
         /\ held \subseteq Live(heap) /\ lost \subseteq Live(heap)
         /\ \A n \in held \cup lost : heap[n].par = Null
BY DEF DomOk, Good, Tree, Rooted

\* A call that hangs the client's node c into a tree, or fails.
LEMMA CallOk ==
  ASSUME DomOk, NEW c \in Known, NEW r, Call(r, c),
         r.rc # "SUCCESS" => r.h = heap,
         r.rc = "SUCCESS" => Good(r.h, (held \cup lost) \ {c}, used)
  PROVE  DomOk'
<1>1. c \notin lost
  BY DEF Known
<1>2. /\ Good(heap, held \cup lost, used) /\ held \cap lost = {}
  BY RootFree
<1>3. CASE r.rc = "SUCCESS"
  <2>1. heap' = r.h /\ held' = held \ {c} /\ used' = used /\ lost' = lost
    BY <1>3 DEF Call
  <2>2. (held \cup lost) \ {c} = held' \cup lost' /\ held' \cap lost' = {}
    BY <1>1, <1>2, <2>1
  <2>3. Good(heap', held' \cup lost', used')
    BY <2>1, <2>2, <1>3
  <2> QED BY <2>2, <2>3 DEF DomOk
<1>4. CASE r.rc # "SUCCESS"
  <2>1. heap' = heap /\ held' = held /\ used' = used /\ lost' = lost
    BY <1>4 DEF Call
  <2> QED BY <2>1 DEF DomOk
<1> QED BY <1>3, <1>4

\* ixmlNode_appendChild
LEMMA AppendOk ==
  ASSUME DomOk, Careful, NEW p \in Known, NEW c \in Known, CallAppendChild(p, c)
  PROVE  DomOk'
<1>1. p \in Live(heap) /\ c \in Live(heap) /\ c # p /\ heap[c].par \in {Null, p}
  BY DEF Known, CallAppendChild, Movable
<1> DEFINE r == AppendChild(heap, p, c)
<1>2. Call(r, c)
  BY DEF CallAppendChild
<1> HIDE DEF r
<1>3. r = AppendChild(heap, p, c)
  BY DEF r
<1>4. /\ r.rc # "SUCCESS" => r.h = heap
      /\ r.rc = "SUCCESS" => Good(r.h, (held \cup lost) \ {c}, used)
  <2>1. PICK R : R = held \cup lost
    OBVIOUS
  <2>2. Good(heap, R, used)
    BY <2>1, RootFree
  <2> QED BY <1>1, <1>3, <2>1, <2>2, AppendGood
<1> QED BY <1>2, <1>4, CallOk

\* ixmlNode_insertBefore
LEMMA InsertOk ==
  ASSUME DomOk, Careful, NEW p \in Known, NEW c \in Known, NEW o \in Known, CallInsertBefore(p, c, o)
  PROVE  DomOk'
<1>1. p \in Live(heap) /\ c \in Live(heap) /\ o \in Live(heap)
      /\ c # p /\ c # o /\ heap[c].par \in {Null, p}
  BY DEF Known, CallInsertBefore, Movable
<1> DEFINE r == InsertBefore(heap, p, c, o)
<1>2. Call(r, c)
  BY DEF CallInsertBefore
<1> HIDE DEF r
<1>3. r = InsertBefore(heap, p, c, o)
  BY DEF r
<1>4. /\ r.rc # "SUCCESS" => r.h = heap
      /\ r.rc = "SUCCESS" => Good(r.h, (held \cup lost) \ {c}, used)
  <2>1. PICK R : R = held \cup lost
    OBVIOUS
  <2>2. Good(heap, R, used)
    BY <2>1, RootFree
  <2> QED BY <1>1, <1>3, <2>1, <2>2, InsertGood
<1> QED BY <1>2, <1>4, CallOk

\* ixmlNode_replaceChild
LEMMA ReplaceOk ==
  ASSUME DomOk, Careful, NEW p \in Known, NEW c \in Known, NEW o \in Known, CallReplaceChild(p, c, o)
  PROVE  DomOk'
<1>1. /\ p \in Live(heap) /\ c \in Live(heap) /\ o \in Live(heap) /\ c # p /\ c # o
      /\ heap[c].par \in {Null, p} /\ c \notin lost /\ o \notin lost
  BY DEF Known, CallReplaceChild, Movable
<1> DEFINE r == InsertBefore(heap, p, c, o)
<1>2. IF r.rc = "SUCCESS"
      THEN heap' = Unlink(r.h, p, o) /\ held' = (held \ {c}) \cup {o} /\ used' = used /\ lost' = lost
      ELSE heap' = heap /\ held' = held /\ used' = used /\ lost' = lost
  BY DEF CallReplaceChild, domVars
<1> HIDE DEF r
<1>3. r = InsertBefore(heap, p, c, o)
  BY DEF r
<1>4. CASE r.rc = "SUCCESS"
  <2> DEFINE k == r.h
             Q == (held \cup lost) \ {c}
  <2>1. Good(k, Q, used) /\ Kept(heap, k, c) /\ heap[o].par = p
    <3>1. PICK R : R = held \cup lost
      OBVIOUS
    <3>2. Good(heap, R, used)
      BY <3>1, RootFree
    <3> QED BY <1>1, <1>3, <1>4, <3>1, <3>2, InsertGood
  <2>2. Live(k) = Live(heap) /\ k[o].par = p
    BY <2>1, <1>1 DEF Kept
  <2>3. Out(k, heap', o)
    BY <2>1, <2>2, <1>1, <1>2, <1>4, UnlinkOut DEF Good
  <2> HIDE DEF k
  <2>4. Good(heap', Q \cup {o}, used)
    BY <2>1, <2>2, <2>3, <1>1, OutGood
  <2>5. Q \cup {o} = held' \cup lost' /\ held' \cap lost' = {} /\ used' = used
    BY <1>1, <1>2, <1>4, RootFree
  <2>6. Good(heap', held' \cup lost', used')
    BY <2>4, <2>5
  <2> QED BY <2>5, <2>6 DEF DomOk
<1>5. CASE r.rc # "SUCCESS"
  BY <1>2, <1>5 DEF DomOk
<1> QED BY <1>4, <1>5

\* ixmlNode_removeChild
LEMMA RemoveOk ==
  ASSUME DomOk, NEW p \in Known, NEW c \in Known, NEW keep \in BOOLEAN, CallRemoveChild(p, c, keep)
  PROVE  DomOk'
<1>1. p \in Live(heap) /\ c \in Live(heap) /\ heap[c].par = p /\ c \notin lost
  BY DEF Known, CallRemoveChild
<1> DEFINE h == Unlink(heap, p, c)
           R == held \cup lost
<1>2. /\ used' = used /\ lost' = lost
      /\ IF keep THEN heap' = h /\ held' = held \cup {c} ELSE heap' = Free(h, c) /\ held' = held
  BY DEF CallRemoveChild
<1>3. Good(heap, R, used) /\ held \cap lost = {}
  BY RootFree
<1>4. Out(heap, h, c) /\ c \notin R
  BY <1>1, <1>3, UnlinkOut DEF Good
<1> HIDE DEF h
<1>5. Good(h, R \cup {c}, used)
  BY <1>1, <1>3, <1>4, OutGood
<1>6. CASE keep
  <2>1. R \cup {c} = held' \cup lost' /\ held' \cap lost' = {} /\ heap' = h /\ used' = used
    BY <1>1, <1>2, <1>3, <1>6
  <2>2. Good(heap', held' \cup lost', used')
    BY <2>1, <1>5
  <2> QED BY <2>1, <2>2 DEF DomOk
<1>7. CASE ~ keep
  <2>1. heap' = Free(h, c) /\ held' = held /\ used' = used /\ lost' = lost
    BY <1>2, <1>7
  <2>2. Good(Free(h, c), (R \cup {c}) \ {c}, used)
    BY <1>5, FreeGood
  <2>3. (R \cup {c}) \ {c} = held' \cup lost'
    BY <2>1, <1>4
  <2>4. Good(heap', held' \cup lost', used')
    BY <2>1, <2>2, <2>3
  <2> QED BY <2>1, <2>4, <1>3 DEF DomOk
<1> QED BY <1>6, <1>7

\* ixmlNode_free, ixmlDocument_free
LEMMA FreeOk ==
  ASSUME DomOk, NEW n \in held, CallFree(n)
  PROVE  DomOk'
<1>1. heap' = Free(heap, n) /\ held' = held \ {n} /\ used' = used /\ lost' = lost
  BY DEF CallFree
<1>2. Good(heap, held \cup lost, used) /\ held \cap lost = {} /\ n \in held \cup lost
  BY RootFree
<1>3. Good(heap', (held \cup lost) \ {n}, used)
  BY <1>1, <1>2, FreeGood
<1>4. (held \cup lost) \ {n} = held' \cup lost' /\ held' \cap lost' = {}
  BY <1>1, <1>2
<1>5. Good(heap', held' \cup lost', used')
  BY <1>1, <1>3, <1>4
<1> QED BY <1>4, <1>5 DEF DomOk

\* The copy is one more root.
LEMMA CloneGood ==
  ASSUME DomOk, NEW n \in Live(heap), NEW deep \in BOOLEAN,
         heap[n].t = "document" => Cardinality(Siblings(heap, heap[n].first)) <= 1,
         NEW k, k = used + Cardinality(Visited(heap, n, deep)),
         NEW c, c = Clone(heap, n, deep, used + 1)
  PROVE  /\ Good(c.h, (held \cup lost) \cup {c.root}, k)
         /\ (held \cup {c.root}) \cap lost = {}
<1> DEFINE R == held \cup lost
           w == Cardinality(Visited(heap, n, deep))
<1>1. Good(heap, R, used) /\ held \cap lost = {} /\ lost \subseteq Live(heap)
  BY RootFree
<1> HIDE DEF R
<1>2. Tree(heap, R) /\ DocTop(heap) /\ used \in Nat /\ \A m \in Live(heap) : m <= used
  BY <1>1 DEF Good
<1>3. Live(heap) \subseteq Nat
  BY <1>2 DEF Tree, Wf
<1>4. used + 1 \in Nat /\ used + 1 # Null /\ \A m \in Live(heap) : m < used + 1
  BY <1>2, <1>3 DEF Null
<1>5. /\ Tree(c.h, R \cup {c.root}) /\ DocTop(c.h)
      /\ c.root \in Live(c.h) /\ c.root \notin Live(heap)
      /\ \A i \in Live(c.h) : i < (used + 1) + w
      /\ w \in Nat
  <2>1. PICK b : b = used + 1
    OBVIOUS
  <2>2. b \in Nat /\ b # Null /\ \A m \in Live(heap) : m < b
    BY <2>1, <1>4
  <2>3. c = Clone(heap, n, deep, b)
    BY <2>1
  <2>4. /\ Tree(c.h, R \cup {c.root}) /\ DocTop(c.h)
        /\ c.root \in Live(c.h) /\ c.root \notin Live(heap)
        /\ \A i \in Live(c.h) : i < b + w
        /\ w \in Nat
    BY <1>2, <2>2, <2>3, CloneTree
  <2> QED BY <2>1, <2>4
<1> HIDE DEF w
<1>6. k = used + w
  BY DEF w
<1>7. Live(c.h) \subseteq Nat
  BY <1>5 DEF Tree, Wf
<1>8. k \in Nat /\ \A i \in Live(c.h) : i <= k
  BY <1>2, <1>5, <1>6, <1>7
<1>9. Good(c.h, R \cup {c.root}, k)
  BY <1>5, <1>8 DEF Good
<1> QED BY <1>1, <1>5, <1>9 DEF R

\* ixmlNode_cloneNode
LEMMA CloneOk ==
  ASSUME DomOk, Careful, NEW n \in Known, NEW deep \in BOOLEAN, CallCloneNode(n, deep)
  PROVE  DomOk'
<1>1. n \in Live(heap)
  BY DEF Known
<1> DEFINE c == Clone(heap, n, deep, used + 1)
<1>2. /\ heap[n].t = "document" => Cardinality(Siblings(heap, heap[n].first)) <= 1
      /\ heap' = c.h /\ held' = held \cup {c.root} /\ lost' = lost
      /\ used' = used + Cardinality(Visited(heap, n, deep))
  BY DEF CallCloneNode
<1>3. Good(c.h, (held \cup lost) \cup {c.root}, used') /\ (held \cup {c.root}) \cap lost = {}
  BY <1>1, <1>2, CloneGood
<1> HIDE DEF c
<1>4. (held \cup lost) \cup {c.root} = held' \cup lost'
  BY <1>2
<1>5. Good(heap', held' \cup lost', used')
  BY <1>2, <1>3, <1>4
<1> QED BY <1>2, <1>3, <1>5 DEF DomOk

\* ixmlDocument_setOwnerDocument moves nothing.
LEMMA OwnerGood ==
  ASSUME NEW h, NEW R, NEW u, Good(h, R, u), NEW d, NEW n
  PROVE  Good(SetOwner(h, d, n), R, u)
<1> DEFINE g == SetOwner(h, d, n)
<1>1. \A m \in Live(h) : DOMAIN h[m] = Fields
  BY DEF Good, Tree, Wf
<1>2. Live(g) = Live(h) /\ \A m \in Live(h) : g[m] = h[m] \/ g[m] = [h[m] EXCEPT !.doc = d]
  BY DEF Live, SetOwner
<1>3. \A m \in Live(h) : Alike(h, g, m)
  BY <1>1, <1>2 DEF Alike, Fields
<1> HIDE DEF g
<1>4. Good(g, R, u)
  BY <1>2, <1>3, SameGood
<1> QED BY <1>4 DEF g

\* ixmlDocument_importNode
LEMMA ImportOk ==
  ASSUME DomOk, NEW d, NEW n \in Known, NEW deep \in BOOLEAN, CallImportNode(d, n, deep)
  PROVE  DomOk'
<1>1. n \in Live(heap)
  BY DEF Known
<1> DEFINE c == Clone(heap, n, deep, used + 1)
<1>2. /\ heap[n].t # "document"
      /\ heap' = SetOwner(c.h, d, c.root) /\ held' = held \cup {c.root} /\ lost' = lost
      /\ used' = used + Cardinality(Visited(heap, n, deep))
  BY DEF CallImportNode
<1>3. Good(c.h, (held \cup lost) \cup {c.root}, used') /\ (held \cup {c.root}) \cap lost = {}
  BY <1>1, <1>2, CloneGood
<1> HIDE DEF c
<1>4. (held \cup lost) \cup {c.root} = held' \cup lost'
  BY <1>2
<1>5. Good(c.h, held' \cup lost', used')
  BY <1>2, <1>3, <1>4
<1>6. Good(SetOwner(c.h, d, c.root), held' \cup lost', used')
  BY <1>5, OwnerGood
<1>7. Good(heap', held' \cup lost', used')
  BY <1>2, <1>6
<1> QED BY <1>2, <1>3, <1>7 DEF DomOk

\* ixmlNode_setNodeValue, and the attribute functions that change a value only.
LEMMA ValueOk ==
  ASSUME DomOk, NEW n, NEW v, heap' = [heap EXCEPT ![n].val = v],
         held' = held, used' = used, lost' = lost
  PROVE  DomOk'
<1>1. PICK R : R = held \cup lost
  OBVIOUS
<1>2. Good(heap, R, used) /\ held \cap lost = {}
  BY <1>1, RootFree
<1>3. Good(heap', R, used)
  BY <1>2, FieldGood
<1>4. Good(heap', held' \cup lost', used')
  BY <1>1, <1>3
<1> QED BY <1>2, <1>4 DEF DomOk

\* The list at x has the same names when no pointer of it changes.
LEMMA SameNames ==
  ASSUME NEW h, NEW R, Tree(h, R), NEW g, NEW Q, Tree(g, Q), Live(h) \subseteq Live(g),
         NEW e \in Live(h), NEW name, g[e].attr = h[e].attr,
         \A m \in Live(h) : g[m].next = h[m].next /\ g[m].name = h[m].name
  PROVE  FindAttr(h, e, name) = Null => FindAttr(g, e, name) = Null
<1> DEFINE x == h[e].attr
<1>0. Wf(h) /\ Wf(g)
  BY DEF Tree
<1>1. x \in Live(h) \cup {Null} /\ x \in Live(g) \cup {Null}
  BY <1>0 DEF Wf
<1>2. Siblings(h, x) \subseteq Live(h) /\ (x # Null => x \in Siblings(h, x))
      /\ \A y \in Siblings(h, x) : h[y].next # Null => h[y].next \in Siblings(h, x)
  BY <1>0, <1>1, SiblingsIs
<1>3. \A U \in SUBSET Live(g) :
        (x # Null => x \in U) /\ (\A y \in U : g[y].next # Null => g[y].next \in U)
        => Siblings(g, x) \subseteq U
  BY <1>0, <1>1, SiblingsIs
<1>4. \A y \in Siblings(h, x) : g[y].next # Null => g[y].next \in Siblings(h, x)
  BY <1>2
<1>5. Siblings(h, x) \in SUBSET Live(g)
  BY <1>2
<1>6. Siblings(g, x) \subseteq Siblings(h, x)
  BY <1>2, <1>3, <1>4, <1>5
<1>7. FindAttr(h, e, name) # Null <=> \E a \in Siblings(h, x) : h[a].name = name
  BY FindAttrIs
<1>8. FindAttr(g, e, name) # Null <=> \E a \in Siblings(g, x) : g[a].name = name
  BY FindAttrIs
<1> QED BY <1>2, <1>6, <1>7, <1>8

\* An attribute node that replaces none goes into the list.
LEMMA AddedNode ==
  ASSUME NEW h, NEW R, Tree(h, R), NEW e \in Live(h), ~ IsAttr(h, e), NEW a \in Live(h), a \in R,
         IsAttr(h, a), h[a].own = Null, h[a].doc = h[e].doc, FindAttr(h, e, h[a].name) = Null
  PROVE  /\ Tree(SetAttributeNode(h, e, a).h, R \ {a}) /\ Kept(h, SetAttributeNode(h, e, a).h, a)
         /\ SetAttributeNode(h, e, a).h[a].doc = h[a].doc
<1> DEFINE r == SetAttributeNode(h, e, a)
<1>1. r.old = Null
  BY DEF SetAttributeNode
<1>2. /\ r.rc = "SUCCESS" => /\ Tree(r.h, (R \ {a}) \cup ({r.old} \ {Null})) /\ Kept(h, r.h, a)
                             /\ r.h[a].doc = h[a].doc
  BY <1>1, SetAttributeNodeTree
<1>3. r.rc = "SUCCESS"
  BY DEF SetAttributeNode
<1>4. (R \ {a}) \cup ({r.old} \ {Null}) = R \ {a}
  BY <1>1
<1> QED BY <1>1, <1>2, <1>3, <1>4

\* A new attribute on an element that has none of its name.
LEMMA NewAttribute ==
  ASSUME NEW h, NEW R, Tree(h, R), NEW e \in Live(h), ~ IsAttr(h, e),
         NEW n, n \notin Live(h), NEW g, Good(g, R \cup {n}, n), Live(g) = Live(h) \cup {n},
         \A m \in Live(h) : g[m] = h[m],
         IsAttr(g, n), g[n].own = Null, g[n].doc = h[e].doc, FindAttr(h, e, g[n].name) = Null
  PROVE  /\ Good(SetAttributeNode(g, e, n).h, R, n)
         /\ Kept(g, SetAttributeNode(g, e, n).h, n)
         /\ SetAttributeNode(g, e, n).h[n].doc = g[n].doc
<1>1. PICK Q : Q = R \cup {n}
  OBVIOUS
<1>2. Good(g, Q, n) /\ Tree(g, Q) /\ n \in Q /\ n \in Live(g) /\ e \in Live(g)
  BY <1>1 DEF Good
<1>3. FindAttr(g, e, g[n].name) = Null
  BY <1>2, SameNames
<1>4. ~ IsAttr(g, e) /\ g[n].doc = g[e].doc
  BY DEF IsAttr
<1>5. /\ Tree(SetAttributeNode(g, e, n).h, Q \ {n})
      /\ Kept(g, SetAttributeNode(g, e, n).h, n)
      /\ SetAttributeNode(g, e, n).h[n].doc = g[n].doc
  BY <1>2, <1>3, <1>4, AddedNode
<1>6. Q \ {n} = R
  BY <1>1 DEF Tree, Rooted
<1>7. Good(SetAttributeNode(g, e, n).h, R, n)
  BY <1>2, <1>5, <1>6, KeptGood DEF IsAttr
<1> QED BY <1>5, <1>7

\* ixmlElement_setAttribute
LEMMA SetAttributeOk ==
  ASSUME DomOk, NEW e \in OfType("element"), NEW name, NEW v, CallSetAttribute(e, name, v)
  PROVE  DomOk'
<1>1. e \in Live(heap) /\ ~ IsAttr(heap, e)
  BY DEF OfType, Known, IsAttr
<1>2. CASE FindAttr(heap, e, name) # Null
  <2>1. /\ heap' = [heap EXCEPT ![FindAttr(heap, e, name)].val = v]
        /\ held' = held /\ used' = used /\ lost' = lost
    BY <1>2 DEF CallSetAttribute
  <2> QED BY <2>1, ValueOk
<1>3. CASE FindAttr(heap, e, name) = Null
  <2> DEFINE n == used + 1
             rec == NewNode("attribute", name, v, heap[e].doc)
             h == Put(heap, n, rec)
  <2>1. heap' = SetAttributeNode(h, e, n).h /\ used' = n /\ held' = held /\ lost' = lost
    BY <1>3 DEF CallSetAttribute
  <2>2. Fresh(rec) /\ rec.t = "attribute" /\ rec.own = Null /\ rec.doc = heap[e].doc /\ rec.name = name
    BY NewFresh
  <2> HIDE DEF rec
  <2>3. PICK R : R = held \cup lost
    OBVIOUS
  <2>4. Good(heap, R, used) /\ held \cap lost = {}
    BY <2>3, RootFree
  <2>5. Good(SetAttributeNode(h, e, n).h, R, n)
    <3> HIDE DEF n
    <3>1. n = used + 1 /\ h = Put(heap, n, rec)
      BY DEF n
    <3> HIDE DEF h
    <3>2. /\ Good(h, R \cup {n}, n) /\ n \notin Live(heap)
          /\ Live(h) = Live(heap) \cup {n} /\ h[n] = rec
          /\ \A m \in Live(heap) : h[m] = heap[m]
      BY <2>2, <2>4, <3>1, PutGood
    <3>3. Tree(heap, R) /\ IsAttr(h, n) /\ h[n].own = Null /\ h[n].doc = heap[e].doc
          /\ FindAttr(heap, e, h[n].name) = Null
      BY <1>3, <2>2, <2>4, <3>2 DEF Good, IsAttr
    <3> QED BY <1>1, <3>2, <3>3, NewAttribute
  <2>6. Good(heap', held' \cup lost', used')
    BY <2>1, <2>3, <2>5
  <2> QED BY <2>1, <2>4, <2>6 DEF DomOk
<1> QED BY <1>2, <1>3

\* ixmlElement_setAttributeNode
LEMMA SetAttributeNodeOk ==
  ASSUME DomOk, Careful, NEW e \in OfType("element"), NEW a \in OfType("attribute"),
         NEW keep \in BOOLEAN, CallSetAttributeNode(e, a, keep)
  PROVE  DomOk'
<1>1. e \in Live(heap) /\ ~ IsAttr(heap, e) /\ a \in Live(heap) /\ IsAttr(heap, a) /\ a \notin lost
  BY DEF OfType, Known, IsAttr
<1> DEFINE r == SetAttributeNode(heap, e, a)
<1>2. /\ a \in held \/ heap[a].own # Null
      /\ r.old # Null => Siblings(heap, heap[e].attr) = {r.old}
      /\ heap' = (IF r.old # Null /\ ~ keep THEN Free(r.h, r.old) ELSE r.h)
      /\ held' = (IF r.rc # "SUCCESS" THEN held
                  ELSE (held \ {a}) \cup (IF r.old # Null /\ keep THEN {r.old} ELSE {}))
      /\ used' = used /\ lost' = lost
  BY DEF CallSetAttributeNode
<1> HIDE DEF r
<1>3. r = SetAttributeNode(heap, e, a)
  BY DEF r
<1> DEFINE R == held \cup lost
<1>4. Good(heap, R, used) /\ held \cap lost = {} /\ lost \subseteq R /\ held \subseteq R
  BY RootFree
<1>5. a \in R \/ heap[a].own # Null
  BY <1>2
<1> HIDE DEF R
<1>6. /\ r.rc # "SUCCESS" => r.h = heap /\ r.old = Null
      /\ r.rc = "SUCCESS" => /\ Tree(r.h, (R \ {a}) \cup ({r.old} \ {Null})) /\ Kept(heap, r.h, a)
                             /\ a \in R
                             /\ r.old # Null => r.old \in Live(heap) /\ r.old \notin R
  BY <1>1, <1>2, <1>3, <1>4, <1>5, SetAttributeNodeTree DEF Good
<1>7. CASE r.rc # "SUCCESS"
  <2>1. heap' = heap /\ held' = held /\ used' = used /\ lost' = lost
    BY <1>2, <1>6, <1>7
  <2> QED BY <2>1 DEF DomOk
<1>8. CASE r.rc = "SUCCESS"
  <2>1. Good(r.h, (R \ {a}) \cup ({r.old} \ {Null}), used)
    BY <1>1, <1>4, <1>6, <1>8, KeptGood DEF IsAttr
  <2>2. CASE r.old = Null
    <3>1. heap' = r.h /\ held' = held \ {a} /\ used' = used /\ lost' = lost
      BY <1>2, <1>8, <2>2
    <3>2. (R \ {a}) \cup ({r.old} \ {Null}) = held' \cup lost' /\ held' \cap lost' = {}
      BY <3>1, <2>2, <1>1, <1>4 DEF R
    <3>3. Good(heap', held' \cup lost', used')
      BY <2>1, <3>1, <3>2
    <3> QED BY <3>2, <3>3 DEF DomOk
  <2>3. CASE r.old # Null /\ keep
    <3>1. heap' = r.h /\ held' = (held \ {a}) \cup {r.old} /\ used' = used /\ lost' = lost
      BY <1>2, <1>8, <2>3
    <3>2. (R \ {a}) \cup ({r.old} \ {Null}) = held' \cup lost' /\ held' \cap lost' = {}
      BY <3>1, <2>3, <1>1, <1>4, <1>6, <1>8 DEF R
    <3>3. Good(heap', held' \cup lost', used')
      BY <2>1, <3>1, <3>2
    <3> QED BY <3>2, <3>3 DEF DomOk
  <2>4. CASE r.old # Null /\ ~ keep
    <3>1. heap' = Free(r.h, r.old) /\ held' = held \ {a} /\ used' = used /\ lost' = lost
      BY <1>2, <1>8, <2>4
    <3>2. PICK Q : Q = (R \ {a}) \cup ({r.old} \ {Null})
      OBVIOUS
    <3>3. Good(r.h, Q, used) /\ r.old \in Q
      BY <2>1, <2>4, <3>2
    <3>4. Good(Free(r.h, r.old), Q \ {r.old}, used)
      BY <3>3, FreeGood
    <3>5. Q \ {r.old} = held' \cup lost' /\ held' \cap lost' = {}
      BY <3>1, <3>2, <2>4, <1>1, <1>4, <1>6, <1>8 DEF R
    <3>6. Good(heap', held' \cup lost', used')
      BY <3>1, <3>4, <3>5
    <3> QED BY <3>5, <3>6 DEF DomOk
  <2> QED BY <2>2, <2>3, <2>4
<1> QED BY <1>7, <1>8

\* ixmlElement_removeAttributeNode
LEMMA RemoveAttributeNodeOk ==
  ASSUME DomOk, NEW e \in OfType("element"), NEW a \in OfType("attribute"),
         CallRemoveAttributeNode(e, a)
  PROVE  DomOk'
<1>1. e \in Live(heap) /\ a \in Live(heap) /\ a \notin lost
  BY DEF OfType, Known
<1>2. /\ a \in Siblings(heap, heap[e].attr) /\ heap' = UnlinkAttr(heap, e, a)
      /\ held' = held \cup {a} /\ used' = used /\ lost' = lost
  BY DEF CallRemoveAttributeNode
<1>3. PICK R : R = held \cup lost
  OBVIOUS
<1>4. Good(heap, R, used) /\ held \cap lost = {}
  BY <1>3, RootFree
<1>5. Out(heap, heap', a)
  BY <1>1, <1>2, <1>4, UnlinkAttrOut DEF Good
<1>6. Good(heap', R \cup {a}, used)
  BY <1>1, <1>4, <1>5, OutGood
<1>7. R \cup {a} = held' \cup lost' /\ held' \cap lost' = {}
  BY <1>1, <1>2, <1>3, <1>4
<1>8. Good(heap', held' \cup lost', used')
  BY <1>2, <1>6, <1>7
<1> QED BY <1>7, <1>8 DEF DomOk

\* Every call of a careful client keeps the forest.
LEMMA DomNextOk ==
  ASSUME DomOk, Careful, DomNext
  PROVE  DomOk'
<1>1. CASE CreateDocument
  <2>1. PICK rec : rec = NewNode("document", <<"", "#document">>, NoText, used + 1)
    OBVIOUS
  <2>2. Fresh(rec) /\ Create(rec)
    BY <1>1, <2>1, NewFresh DEF CreateDocument
  <2> QED BY <2>2, CreateOk
<1>2. ASSUME NEW d, NEW name, CreateElement(d, name) \/ CreateAttribute(d, name)
      PROVE  DomOk'
  <2>1. PICK t \in {"element", "attribute"} : Create(NewNode(t, name, NoText, d))
    BY <1>2 DEF CreateElement, CreateAttribute
  <2>2. PICK rec : rec = NewNode(t, name, NoText, d)
    OBVIOUS
  <2>3. Fresh(rec) /\ Create(rec)
    BY <2>1, <2>2, NewFresh
  <2> QED BY <2>3, CreateOk
<1>3. ASSUME NEW d, NEW v, CreateTextNode(d, v) \/ CreateCDATASection(d, v)
      PROVE  DomOk'
  <2>1. PICK t \in {"text", "cdata"}, name \in {<<"", "#text">>, <<"", "#cdata">>} :
          Create(NewNode(t, name, v, d))
    BY <1>3 DEF CreateTextNode, CreateCDATASection
  <2>2. PICK rec : rec = NewNode(t, name, v, d)
    OBVIOUS
  <2>3. Fresh(rec) /\ Create(rec)
    BY <2>1, <2>2, NewFresh
  <2> QED BY <2>3, CreateOk
<1>4. ASSUME NEW p \in Known, NEW c \in Known, CallAppendChild(p, c)
      PROVE  DomOk'
  BY <1>4, AppendOk
<1>5. ASSUME NEW p \in Known, NEW c \in Known, NEW r \in Known,
             CallInsertBefore(p, c, r) \/ CallReplaceChild(p, c, r)
      PROVE  DomOk'
  BY <1>5, InsertOk, ReplaceOk
<1>6. ASSUME NEW p \in Known, NEW c \in Known, NEW keep \in BOOLEAN, CallRemoveChild(p, c, keep)
      PROVE  DomOk'
  BY <1>6, RemoveOk
<1>7. ASSUME NEW n \in held, CallFree(n)
      PROVE  DomOk'
  BY <1>7, FreeOk
<1>8. ASSUME NEW n \in Known, NEW deep \in BOOLEAN, CallCloneNode(n, deep)
      PROVE  DomOk'
  BY <1>8, CloneOk
<1>9. ASSUME NEW d, NEW n \in Known, NEW deep \in BOOLEAN, CallImportNode(d, n, deep)
      PROVE  DomOk'
  BY <1>9, ImportOk
<1>10. ASSUME NEW n, NEW v, CallSetNodeValue(n, v)
       PROVE  DomOk'
  BY <1>10, ValueOk DEF CallSetNodeValue
<1>11. ASSUME NEW e \in OfType("element"), NEW name, NEW v, CallSetAttribute(e, name, v)
       PROVE  DomOk'
  BY <1>11, SetAttributeOk
<1>12. ASSUME NEW e, NEW name, CallRemoveAttribute(e, name)
       PROVE  DomOk'
  BY <1>12, ValueOk DEF CallRemoveAttribute
<1>13. ASSUME NEW e \in OfType("element"), NEW a \in OfType("attribute"), NEW keep \in BOOLEAN,
              CallSetAttributeNode(e, a, keep)
       PROVE  DomOk'
  BY <1>13, SetAttributeNodeOk
<1>14. ASSUME NEW e \in OfType("element"), NEW a \in OfType("attribute"),
              CallRemoveAttributeNode(e, a)
       PROVE  DomOk'
  BY <1>14, RemoveAttributeNodeOk
<1> QED
  BY <1>1, <1>2, <1>3, <1>4, <1>5, <1>6, <1>7, <1>8, <1>9, <1>10, <1>11, <1>12, <1>13, <1>14
  DEF DomNext

-----------------------------------------------------------------------------
(* The parser *)

\* What Parser_getNextNode returns.
LEMMA GotIs ==
  ASSUME NEW kind, NEW name, NEW val, NEW rest, NEW state
  PROVE  Got(kind, name, val, rest, state).st = state /\ Got(kind, name, val, rest, state).kind = kind
BY DEF Got

\* What it returns on an error.
LEMMA ErrorIs == SyntaxError.st = "element" /\ SyntaxError.kind = "error"
BY DEF SyntaxError

\* Content is no attribute, and the parser stays busy.
LEMMA ContentIs ==
  ASSUME NEW s
  PROVE  ProcessContent(s).st # "idle" /\ ProcessContent(s).kind # "attribute"
<1> DEFINE b == SkipWhiteSpaces(s)
           l == First(b)
           t == CharData(s)
           v == Head(b).v
           e == Tail(b)
<1> HIDE DEF b, l, t, v, e
<1>1. ProcessContent(s) \in {SyntaxError, Got("none", NoName, <<>>, b, "content"),
                             Got("cdata", NoName, v, e, "content"),
                             Got("none", NoName, <<>>, e, "content"),
                             Got("none", NoName, <<>>, b, "element"),
                             Got("text", NoName, t.val, t.rest, "content")}
  <2>1. CASE l = "end"
    BY <2>1 DEF ProcessContent, b, l, t, v, e
  <2>2. CASE l = "cdata"
    BY <2>2 DEF ProcessContent, b, l, t, v, e
  <2>3. CASE l \in {"comment", "pi"}
    BY <2>3 DEF ProcessContent, b, l, t, v, e
  <2>4. CASE l \in {"cdataempty", "badcomment", "decl"}
    BY <2>4 DEF ProcessContent, b, l, t, v, e
  <2>5. CASE l \in {"<", "</", "doctype"}
    BY <2>5 DEF ProcessContent, b, l, t, v, e
  <2>6. CASE l \notin {"end", "cdata", "comment", "pi", "cdataempty", "badcomment", "decl",
                       "<", "</", "doctype"}
    BY <2>6 DEF ProcessContent, b, l, t, v, e
  <2> QED BY <2>1, <2>2, <2>3, <2>4, <2>5, <2>6
<1>2. PICK w : w = ProcessContent(s)
  OBVIOUS
<1>3. w = SyntaxError \/ w = Got("none", NoName, <<>>, b, "content")
      \/ w = Got("cdata", NoName, v, e, "content") \/ w = Got("none", NoName, <<>>, e, "content")
      \/ w = Got("none", NoName, <<>>, b, "element") \/ w = Got("text", NoName, t.val, t.rest, "content")
  BY <1>1, <1>2
<1>4. w.st # "idle" /\ w.kind # "attribute"
  BY <1>3, GotIs, ErrorIs
<1> QED BY <1>2, <1>4

\* The same for a start tag.
LEMMA STagIs ==
  ASSUME NEW s
  PROVE  ProcessSTag(s).st # "idle" /\ ProcessSTag(s).kind # "attribute"
BY DEF ProcessSTag, Got, SyntaxError

\* The same for an end tag.
LEMMA ETagIs ==
  ASSUME NEW s
  PROVE  ProcessETag(s).st # "idle" /\ ProcessETag(s).kind # "attribute"
BY DEF ProcessETag, Got, SyntaxError

\* The parser stays busy after an attribute.
LEMMA AttributeIs ==
  ASSUME NEW tok
  PROVE  ProcessAttribute(tok).st # "idle"
BY DEF ProcessAttribute, Got, SyntaxError

\* The parser stays busy, and finds attributes only while an element is open.
LEMMA NextNodeIs ==
  ASSUME st # "idle"
  PROVE  GetNextNode.st # "idle" /\ (GetNextNode.kind = "attribute" => stack # <<>>)
<1> DEFINE tok == GetNextToken(SkipWhiteSpaces(inp))
<1>1. CASE st = "content"
  <2>1. GetNextNode = ProcessContent(inp)
    BY <1>1 DEF GetNextNode
  <2> QED BY <2>1, ContentIs
<1> HIDE DEF tok
<1>2. CASE st # "content" /\ tok.k \in {"none", ">", "/>"}
  <2>1. GetNextNode \in {SyntaxError, Got("none", NoName, <<>>, <<>>, st),
                         Got("none", NoName, <<>>, tok.rest, st),
                         Got("end", lastElem, <<>>, tok.rest, "content")}
    BY <1>2 DEF GetNextNode, tok
  <2>2. PICK w : w = GetNextNode
    OBVIOUS
  <2>3. w = SyntaxError \/ w = Got("none", NoName, <<>>, <<>>, st)
        \/ w = Got("none", NoName, <<>>, tok.rest, st)
        \/ w = Got("end", lastElem, <<>>, tok.rest, "content")
    BY <2>1, <2>2
  <2>4. w.st # "idle" /\ w.kind # "attribute"
    BY <2>3, GotIs, ErrorIs
  <2> QED BY <2>2, <2>4
<1>3. CASE st # "content" /\ tok.k = "</"
  <2>1. GetNextNode = ProcessETag(tok.rest)
    BY <1>3 DEF GetNextNode, tok
  <2> QED BY <2>1, ETagIs
<1>4. CASE st # "content" /\ tok.k = "<"
  <2>1. GetNextNode = ProcessSTag(tok.rest)
    BY <1>4 DEF GetNextNode, tok
  <2> QED BY <2>1, STagIs
<1>5. CASE st # "content" /\ tok.k \notin {"none", ">", "/>", "</", "<"}
  <2>1. GetNextNode = (IF stack # <<>> /\ st = "attribute" THEN ProcessAttribute(tok) ELSE SyntaxError)
    BY <1>5 DEF GetNextNode, tok
  <2>2. CASE stack # <<>> /\ st = "attribute"
    BY <2>1, <2>2, AttributeIs
  <2>3. CASE ~ (stack # <<>> /\ st = "attribute")
    BY <2>1, <2>3 DEF SyntaxError
  <2> QED BY <2>2, <2>3
<1> QED BY <1>1, <1>2, <1>3, <1>4, <1>5

\* s are the open elements: their nodes are the ones from c up to the document d.
Opened(h, c, d, s) ==
    \E S : /\ s \in Seq(S)
           /\ \E p \in [0..Len(s) -> Live(h)] :
                /\ p[0] = c /\ p[Len(s)] = d
                /\ \A i \in 0..Len(s) : h[p[i]].doc = d
                /\ \A i \in 0..Len(s) : i < Len(s) => h[p[i]].par = p[i+1]

\* The current node is allocated and of the document; below the root element it has a parent.
LEMMA OpenedIs ==
  ASSUME NEW h, NEW c, NEW d, NEW s, Opened(h, c, d, s)
  PROVE  /\ c \in Live(h) /\ d \in Live(h) /\ h[c].doc = d
         /\ s # <<>> => h[c].par \in Live(h)
<1>1. PICK S : s \in Seq(S) /\ \E p \in [0..Len(s) -> Live(h)] :
                /\ p[0] = c /\ p[Len(s)] = d
                /\ \A i \in 0..Len(s) : h[p[i]].doc = d
                /\ \A i \in 0..Len(s) : i < Len(s) => h[p[i]].par = p[i+1]
  BY DEF Opened
<1>2. PICK p \in [0..Len(s) -> Live(h)] :
                /\ p[0] = c /\ p[Len(s)] = d
                /\ \A i \in 0..Len(s) : h[p[i]].doc = d
                /\ \A i \in 0..Len(s) : i < Len(s) => h[p[i]].par = p[i+1]
  BY <1>1
<1>3. Len(s) \in Nat /\ (s # <<>> => Len(s) > 0)
  BY <1>1
<1>4. 0 \in 0..Len(s) /\ Len(s) \in 0..Len(s) /\ (s # <<>> => 0 + 1 \in 0..Len(s))
  BY <1>3
<1> QED BY <1>2, <1>3, <1>4

\* A step that keeps parents and owner documents keeps the open elements.
LEMMA OpenedKept ==
  ASSUME NEW h, NEW c, NEW d, NEW s, Opened(h, c, d, s), NEW g, Live(h) \subseteq Live(g),
         \A n \in Live(h) : g[n].par = h[n].par /\ g[n].doc = h[n].doc
  PROVE  Opened(g, c, d, s)
<1>1. PICK S : s \in Seq(S) /\ \E p \in [0..Len(s) -> Live(h)] :
                /\ p[0] = c /\ p[Len(s)] = d
                /\ \A i \in 0..Len(s) : h[p[i]].doc = d
                /\ \A i \in 0..Len(s) : i < Len(s) => h[p[i]].par = p[i+1]
  BY DEF Opened
<1>2. PICK p \in [0..Len(s) -> Live(h)] :
                /\ p[0] = c /\ p[Len(s)] = d
                /\ \A i \in 0..Len(s) : h[p[i]].doc = d
                /\ \A i \in 0..Len(s) : i < Len(s) => h[p[i]].par = p[i+1]
  BY <1>1
<1>3. p \in [0..Len(s) -> Live(g)]
  BY <1>2
<1>4. /\ \A i \in 0..Len(s) : g[p[i]].doc = d
      /\ \A i \in 0..Len(s) : i < Len(s) => g[p[i]].par = p[i+1]
  BY <1>2
<1> QED BY <1>1, <1>2, <1>3, <1>4 DEF Opened

\* A start tag opens one more.
LEMMA OpenedPush ==
  ASSUME NEW h, NEW c, NEW d, NEW s, Opened(h, c, d, s), NEW n \in Live(h),
         h[n].par = c, h[n].doc = d, NEW x
  PROVE  Opened(h, n, d, <<x>> \o s)
<1>1. PICK S : s \in Seq(S) /\ \E p \in [0..Len(s) -> Live(h)] :
                /\ p[0] = c /\ p[Len(s)] = d
                /\ \A i \in 0..Len(s) : h[p[i]].doc = d
                /\ \A i \in 0..Len(s) : i < Len(s) => h[p[i]].par = p[i+1]
  BY DEF Opened
<1>2. PICK p \in [0..Len(s) -> Live(h)] :
                /\ p[0] = c /\ p[Len(s)] = d
                /\ \A i \in 0..Len(s) : h[p[i]].doc = d
                /\ \A i \in 0..Len(s) : i < Len(s) => h[p[i]].par = p[i+1]
  BY <1>1
<1> DEFINE T == S \cup {x}
           z == <<x>> \o s
<1>3. s \in Seq(T) /\ <<x>> \in Seq(T) /\ Len(s) \in Nat
  BY <1>1
<1>4. z \in Seq(T) /\ Len(z) = Len(s) + 1
  BY <1>3
<1> DEFINE q == [i \in 0..Len(s)+1 |-> IF i = 0 THEN n ELSE p[i-1]]
<1>5. q \in [0..Len(s)+1 -> Live(h)]
  BY <1>2, <1>3
<1>6. q[0] = n /\ q[Len(s)+1] = d
  BY <1>2, <1>3
<1>7. ASSUME NEW i \in 0..Len(s)+1
      PROVE  h[q[i]].doc = d /\ (i < Len(s)+1 => h[q[i]].par = q[i+1])
  <2>1. CASE i = 0
    BY <2>1, <1>2, <1>3
  <2>2. CASE i # 0
    <3>1. /\ i-1 \in 0..Len(s) /\ q[i] = p[i-1]
          /\ i < Len(s)+1 => /\ i-1 < Len(s) /\ i+1 \in 0..Len(s)+1
                             /\ q[i+1] = p[i] /\ (i-1)+1 = i
      BY <2>2, <1>3
    <3> QED BY <3>1, <1>2
  <2> QED BY <2>1, <2>2
<1> HIDE DEF q, T, z
<1>8. q \in [0..Len(z) -> Live(h)] /\ q[0] = n /\ q[Len(z)] = d
      /\ (\A i \in 0..Len(z) : h[q[i]].doc = d)
      /\ (\A i \in 0..Len(z) : i < Len(z) => h[q[i]].par = q[i+1])
  BY <1>4, <1>5, <1>6, <1>7
<1>9. Opened(h, n, d, z)
  BY <1>4, <1>8 DEF Opened
<1> QED BY <1>9 DEF z

\* An end tag closes the innermost.
LEMMA OpenedPop ==
  ASSUME NEW h, NEW c, NEW d, NEW s, Opened(h, c, d, s), s # <<>>
  PROVE  Opened(h, h[c].par, d, Tail(s))
<1>1. PICK S : s \in Seq(S) /\ \E p \in [0..Len(s) -> Live(h)] :
                /\ p[0] = c /\ p[Len(s)] = d
                /\ \A i \in 0..Len(s) : h[p[i]].doc = d
                /\ \A i \in 0..Len(s) : i < Len(s) => h[p[i]].par = p[i+1]
  BY DEF Opened
<1>2. PICK p \in [0..Len(s) -> Live(h)] :
                /\ p[0] = c /\ p[Len(s)] = d
                /\ \A i \in 0..Len(s) : h[p[i]].doc = d
                /\ \A i \in 0..Len(s) : i < Len(s) => h[p[i]].par = p[i+1]
  BY <1>1
<1> DEFINE z == Tail(s)
<1>3. z \in Seq(S) /\ Len(s) \in Nat /\ Len(s) > 0 /\ Len(z) = Len(s) - 1
  BY <1>1
<1> DEFINE q == [i \in 0..Len(z) |-> p[i+1]]
<1>4. \A i \in 0..Len(z) : i+1 \in 0..Len(s) /\ (i < Len(z) => i+1 < Len(s) /\ i+1 \in 0..Len(z))
  BY <1>3
<1>5. q \in [0..Len(z) -> Live(h)]
  BY <1>2, <1>4
<1>6. 0 \in 0..Len(z) /\ Len(z) \in 0..Len(z) /\ 0 \in 0..Len(s) /\ 0 < Len(s) /\ Len(z) + 1 = Len(s)
  BY <1>3
<1>7. q[0] = h[c].par /\ q[Len(z)] = d
  BY <1>2, <1>6
<1>8. \A i \in 0..Len(z) : h[q[i]].doc = d /\ (i < Len(z) => h[q[i]].par = q[i+1])
  BY <1>2, <1>4
<1> HIDE DEF q, z
<1>9. Opened(h, h[c].par, d, z)
  BY <1>3, <1>5, <1>7, <1>8 DEF Opened
<1> QED BY <1>9 DEF z

\* A namespace declaration changes the entry of the innermost.
LEMMA OpenedTop ==
  ASSUME NEW h, NEW c, NEW d, NEW s, Opened(h, c, d, s), s # <<>>, NEW x
  PROVE  Opened(h, c, d, <<x>> \o Tail(s))
<1>1. PICK S : s \in Seq(S) /\ \E p \in [0..Len(s) -> Live(h)] :
                /\ p[0] = c /\ p[Len(s)] = d
                /\ \A i \in 0..Len(s) : h[p[i]].doc = d
                /\ \A i \in 0..Len(s) : i < Len(s) => h[p[i]].par = p[i+1]
  BY DEF Opened
<1> DEFINE T == S \cup {x}
           z == <<x>> \o Tail(s)
<1>2. Tail(s) \in Seq(T) /\ <<x>> \in Seq(T) /\ Len(Tail(s)) = Len(s) - 1 /\ Len(s) \in Nat
  BY <1>1
<1>3. z \in Seq(T) /\ Len(z) = Len(s)
  BY <1>2
<1> HIDE DEF z, T
<1>4. Opened(h, c, d, z)
  BY <1>1, <1>3 DEF Opened
<1> QED BY <1>4 DEF z

\* The inductive invariant: a forest whose roots are what the client holds, what was left
\* behind and the document that is being parsed, and the open elements are a path in it.
ParserOk ==
    /\ Good(heap, Holders, used) /\ held \cap lost = {}
    /\ st # "idle" => doc \notin held \cup lost /\ Opened(heap, cur, doc, stack)

\* While the parser runs, its document is one more root.
LEMMA Running ==
  ASSUME ParserOk, st # "idle"
  PROVE  /\ Good(heap, (held \cup lost) \cup {doc}, used) /\ held \cap lost = {}
         /\ doc \notin held \cup lost /\ Opened(heap, cur, doc, stack)
         /\ held \cup lost \subseteq Live(heap) /\ cur \in Live(heap) /\ doc \in Live(heap)
         /\ heap[cur].doc = doc
<1>1. Holders = (held \cup lost) \cup {doc}
  BY DEF Holders
<1>2. Good(heap, (held \cup lost) \cup {doc}, used)
  BY <1>1 DEF ParserOk
<1>3. (held \cup lost) \cup {doc} \subseteq Live(heap)
  BY <1>2 DEF Good, Tree, Rooted
<1> QED BY <1>2, <1>3, OpenedIs DEF ParserOk

\* That is what a step that goes on has to show.
LEMMA StillRunning ==
  ASSUME Good(heap', (held' \cup lost') \cup {doc'}, used'), held' \cap lost' = {}, st' # "idle",
         doc' \notin held' \cup lost', Opened(heap', cur', doc', stack')
  PROVE  ParserOk'
<1>1. Holders' = (held' \cup lost') \cup {doc'}
  BY DEF Holders
<1>2. Good(heap', Holders', used')
  BY <1>1
<1> QED BY <1>2 DEF ParserOk

\* And this a step that ends the parse.
LEMMA Idle ==
  ASSUME Good(heap', held' \cup lost', used'), held' \cap lost' = {}, st' = "idle"
  PROVE  ParserOk'
<1>1. Holders' = held' \cup lost'
  BY DEF Holders
<1>2. Good(heap', Holders', used')
  BY <1>1
<1> QED BY <1>2 DEF ParserOk

\* The error handler frees the document, and nothing else.
LEMMA StopOk ==
  ASSUME NEW h, NEW R, Good(h, R \cup {doc}, used'), doc \notin R, NEW code, Stop(h, code),
         held' \cup lost' = R, held' \cap lost' = {}
  PROVE  ParserOk'
<1>1. heap' = Free(h, doc) /\ st' = "idle"
  BY DEF Stop
<1>2. PICK Q : Q = R \cup {doc}
  OBVIOUS
<1>3. Good(Free(h, doc), Q \ {doc}, used')
  BY <1>2, FreeGood
<1>4. Q \ {doc} = held' \cup lost'
  BY <1>2
<1>5. Good(heap', held' \cup lost', used')
  BY <1>1, <1>3, <1>4
<1> QED BY <1>1, <1>5, Idle

\* A parse that fails.
LEMMA FailOk ==
  ASSUME ParserOk, st # "idle", NEW code, Fail(code)
  PROVE  ParserOk'
<1>1. Stop(heap, code) /\ used' = used /\ lost' = lost /\ held' = held
  BY DEF Fail, Stop
<1>2. PICK R : R = held \cup lost
  OBVIOUS
<1>3. Good(heap, R \cup {doc}, used') /\ doc \notin R /\ held' \cup lost' = R /\ held' \cap lost' = {}
  BY <1>1, <1>2, Running
<1> QED BY <1>1, <1>3, StopOk

\* A node made for the document, under its current node.
LEMMA Hung ==
  ASSUME ParserOk, st # "idle", NEW rec, Fresh(rec), NEW n, n = used + 1, NEW h, h = Put(heap, n, rec)
  PROVE  /\ Good(h, ((held \cup lost) \cup {doc}) \cup {n}, n)
         /\ n \notin Live(heap) /\ cur \in Live(h) /\ n \in Live(h) /\ n # cur
         /\ Opened(h, cur, doc, stack) /\ h[cur].doc = doc
         /\ AppendChild(h, cur, n).rc = "SUCCESS" =>
              /\ Good(AppendChild(h, cur, n).h, (held \cup lost) \cup {doc}, n)
              /\ Opened(AppendChild(h, cur, n).h, cur, doc, stack)
              /\ n \in Live(AppendChild(h, cur, n).h)
              /\ AppendChild(h, cur, n).h[n].par = cur /\ AppendChild(h, cur, n).h[n].doc = doc
<1>1. PICK R : R = (held \cup lost) \cup {doc}
  OBVIOUS
<1>2. /\ Good(heap, R, used) /\ R \subseteq Live(heap) /\ cur \in Live(heap) /\ heap[cur].doc = doc
      /\ Opened(heap, cur, doc, stack)
  BY <1>1, Running
<1>3. /\ Good(h, R \cup {n}, n) /\ n \notin Live(heap) /\ n # Null
      /\ Live(h) = Live(heap) \cup {n} /\ h[n] = rec
      /\ \A m \in Live(heap) : h[m] = heap[m]
  BY <1>2, PutGood
<1>4. Opened(h, cur, doc, stack)
  BY <1>2, <1>3, OpenedKept
<1>5. cur \in Live(h) /\ n \in Live(h) /\ n # cur /\ h[n].par = Null /\ h[cur].doc = doc
  BY <1>2, <1>3 DEF Fresh
<1>6. ASSUME AppendChild(h, cur, n).rc = "SUCCESS"
      PROVE  /\ Good(AppendChild(h, cur, n).h, R, n)
             /\ Opened(AppendChild(h, cur, n).h, cur, doc, stack)
             /\ n \in Live(AppendChild(h, cur, n).h)
             /\ AppendChild(h, cur, n).h[n].par = cur /\ AppendChild(h, cur, n).h[n].doc = doc
  <2>1. PICK k : k = AppendChild(h, cur, n).h
    OBVIOUS
  <2>2. PICK Q : Q = R \cup {n}
    OBVIOUS
  <2>3. /\ Good(k, Q \ {n}, n) /\ Kept(h, k, n) /\ k[n].par = cur /\ k[n].doc = h[cur].doc
    BY <1>3, <1>5, <1>6, <2>1, <2>2, AppendGood
  <2>4. Q \ {n} = R
    BY <2>2, <1>2, <1>3
  <2>5. Live(heap) \subseteq Live(k) /\ \A m \in Live(heap) : k[m].par = heap[m].par /\ k[m].doc = heap[m].doc
    BY <2>3, <1>3 DEF Kept
  <2>6. Opened(k, cur, doc, stack)
    BY <2>5, <1>2, OpenedKept
  <2>7. n \in Live(k)
    BY <2>3, <1>5 DEF Kept
  <2>8. Good(k, R, n)
    BY <2>3, <2>4
  <2> QED BY <2>1, <2>3, <2>6, <2>7, <2>8, <1>5
<1> QED BY <1>1, <1>3, <1>4, <1>5, <1>6

\* Parser_processElementName
LEMMA StartOk ==
  ASSUME ParserOk, st # "idle", NEW g, g.st # "idle", StartElement(g)
  PROVE  ParserOk'
<1> DEFINE n == used + 1
           p == g.name[1]
           d == IF p = "" THEN DefaultUri ELSE PrefixUri(p)
           rec == [NewNode("element", g.name, NoText, doc) EXCEPT !.ns = d.uri]
           h == Put(heap, n, rec)
           r == AppendChild(h, cur, n)
           x == StackItem(g.name, d.uri)
<1>1. CASE (hasTop /\ stack = <<>>) \/ r.rc # "SUCCESS"
  BY <1>1, FailOk DEF StartElement
<1>2. CASE ~ ((hasTop /\ stack = <<>>) \/ r.rc # "SUCCESS")
  <2>1. /\ heap' = r.h /\ used' = n /\ cur' = n /\ stack' = <<x>> \o stack
        /\ held' = held /\ lost' = lost /\ doc' = doc /\ st' = g.st
    BY <1>2 DEF StartElement, Advance
  <2>2. Fresh(rec)
    BY DEF Fresh, NewNode, Fields
  <2>3. r.rc = "SUCCESS"
    BY <1>2
  <2> HIDE DEF rec, x, n
  <2>4. n = used + 1
    BY DEF n
  <2>5. /\ Good(r.h, (held \cup lost) \cup {doc}, n) /\ Opened(r.h, cur, doc, stack)
        /\ n \in Live(r.h) /\ r.h[n].par = cur /\ r.h[n].doc = doc
    <3> HIDE DEF h
    <3>1. h = Put(heap, n, rec)
      BY DEF h
    <3>2. Good(r.h, (held \cup lost) \cup {doc}, n) /\ Opened(r.h, cur, doc, stack)
      BY <2>2, <2>3, <2>4, <3>1, Hung
    <3>3. n \in Live(r.h)
      BY <2>2, <2>3, <2>4, <3>1, Hung
    <3>4. r.h[n].par = cur
      BY <2>2, <2>3, <2>4, <3>1, Hung
    <3>5. r.h[n].doc = doc
      BY <2>2, <2>3, <2>4, <3>1, Hung
    <3> QED BY <3>2, <3>3, <3>4, <3>5
  <2> HIDE DEF r
  <2>6. Opened(r.h, n, doc, <<x>> \o stack)
    BY <2>5, OpenedPush
  <2> QED BY <2>1, <2>5, <2>6, Running, StillRunning
<1> QED BY <1>1, <1>2

\* Parser_eTagVerification
LEMMA EndOk ==
  ASSUME ParserOk, st # "idle", NEW g, g.st # "idle", EndElement(g)
  PROVE  ParserOk'
<1>1. CASE stack = <<>> \/ Head(stack).el # g.name \/ heap[cur].name # g.name
  BY <1>1, FailOk DEF EndElement
<1>2. CASE ~ (stack = <<>> \/ Head(stack).el # g.name \/ heap[cur].name # g.name)
  <2>1. /\ stack' = Tail(stack) /\ cur' = heap[cur].par /\ heap' = heap /\ held' = held
        /\ used' = used /\ lost' = lost /\ doc' = doc /\ st' = g.st
    BY <1>2 DEF EndElement, Advance, domVars
  <2>2. Opened(heap, heap[cur].par, doc, Tail(stack))
    BY <1>2, Running, OpenedPop
  <2> QED BY <2>1, <2>2, Running, StillRunning
<1> QED BY <1>1, <1>2

\* A text or a CDATA section, hung into the tree or left behind.
LEMMA CharacterOk ==
  ASSUME ParserOk, st # "idle", NEW g, g.st # "idle", g.kind \in {"text", "cdata"}, CharacterNode(g)
  PROVE  ParserOk'
<1> DEFINE n == used + 1
           rec == NewNode(g.kind, CharName(g.kind), g.val, doc)
           h == Put(heap, n, rec)
           r == AppendChild(h, cur, n)
<1>1. Fresh(rec)
  <2>1. g.kind \in {"document", "element", "attribute", "text", "cdata"}
    OBVIOUS
  <2> QED BY <2>1, NewFresh
<1>2. used' = n
  BY DEF CharacterNode
<1>3. CASE r.rc # "SUCCESS"
  <2>1. Stop(h, r.rc) /\ lost' = lost \cup {n} /\ held' = held
    BY <1>3 DEF CharacterNode, Stop
  <2> HIDE DEF rec, n
  <2>2. n = used + 1
    BY DEF n
  <2>3. Good(h, ((held \cup lost) \cup {doc}) \cup {n}, n) /\ n \notin Live(heap)
    BY <1>1, <2>2, Hung
  <2> HIDE DEF h, r
  <2>4. PICK R : R = (held \cup lost) \cup {n}
    OBVIOUS
  <2>5. R \cup {doc} = ((held \cup lost) \cup {doc}) \cup {n}
    BY <2>4
  <2>6. Good(h, R \cup {doc}, used')
    BY <1>2, <2>3, <2>5
  <2>7. doc \notin R /\ held' \cup lost' = R /\ held' \cap lost' = {}
    BY <2>1, <2>3, <2>4, Running
  <2> QED BY <2>1, <2>6, <2>7, StopOk
<1>4. CASE r.rc = "SUCCESS"
  <2>1. /\ heap' = r.h /\ held' = held /\ lost' = lost /\ stack' = stack /\ cur' = cur
        /\ doc' = doc /\ st' = g.st
    BY <1>4 DEF CharacterNode, Advance
  <2> HIDE DEF rec, n
  <2>2. n = used + 1
    BY DEF n
  <2>3. Good(r.h, (held \cup lost) \cup {doc}, n) /\ Opened(r.h, cur, doc, stack)
    BY <1>1, <1>4, <2>2, Hung
  <2> HIDE DEF r
  <2> QED BY <1>2, <2>1, <2>3, Running, StillRunning
<1> QED BY <1>3, <1>4

\* Parser_processAttributeName
LEMMA AttributeOk ==
  ASSUME ParserOk, st # "idle", NEW g, g.st # "idle", stack # <<>>, AttributeNode(g)
  PROVE  ParserOk'
<1> DEFINE n == used + 1
           item == Redeclared(Head(stack), g.name, Uri(g.val))
           k == Named(heap, item)
           rec == NewNode("attribute", g.name, g.val, doc)
           h == Put(k, n, rec)
<1>1. CASE AddNamespaceFails(item) \/ FindAttr(heap, cur, g.name) # Null
  BY <1>1, FailOk DEF AttributeNode
<1>2. CASE ~ (AddNamespaceFails(item) \/ FindAttr(heap, cur, g.name) # Null)
  <2>1. /\ heap' = SetAttributeNode(h, cur, n).h /\ used' = n /\ stack' = <<item>> \o Tail(stack)
        /\ held' = held /\ lost' = lost /\ cur' = cur /\ doc' = doc /\ st' = g.st
    BY <1>2 DEF AttributeNode, Advance
  <2>2. Fresh(rec) /\ rec.t = "attribute" /\ rec.own = Null /\ rec.doc = doc /\ rec.name = g.name
    BY NewFresh
  <2>3. FindAttr(heap, cur, g.name) = Null
    BY <1>2
  <2> HIDE DEF rec, item, n
  <2>4. n = used + 1
    BY DEF n
  <2>5. PICK R : R = (held \cup lost) \cup {doc}
    OBVIOUS
  <2>6. /\ Good(heap, R, used) /\ cur \in Live(heap) /\ heap[cur].doc = doc
        /\ Opened(heap, cur, doc, stack) /\ heap[cur].par \in Live(heap)
    BY <2>5, Running, OpenedIs
  <2>7. Tree(heap, R) /\ ~ IsAttr(heap, cur)
    BY <2>6 DEF Good, Tree, Wf, Links
  <2>8. /\ Good(k, R, used) /\ Live(k) = Live(heap)
        /\ \A m \in Live(heap) : /\ k[m].t = heap[m].t /\ k[m].par = heap[m].par
                                 /\ k[m].doc = heap[m].doc /\ k[m].name = heap[m].name
                                 /\ k[m].next = heap[m].next /\ k[m].attr = heap[m].attr
    <3>1. k = heap \/ k = [heap EXCEPT ![need].ns = item.uri]
      BY DEF Named
    <3>2. CASE k = heap
      BY <3>2, <2>6
    <3> HIDE DEF k
    <3>3. CASE k = [heap EXCEPT ![need].ns = item.uri]
      <4>1. PICK v, m : k = [heap EXCEPT ![m].ns = v]
        BY <3>3
      <4>2. Good(k, R, used)
        BY <4>1, <2>6, FieldGood
      <4>3. Live(k) = Live(heap) /\ \A x \in Live(heap) : DOMAIN heap[x] = Fields
        BY <4>1, <2>7 DEF Live, Tree, Wf
      <4>4. ASSUME NEW x \in Live(heap)
            PROVE  /\ k[x].t = heap[x].t /\ k[x].par = heap[x].par
                   /\ k[x].doc = heap[x].doc /\ k[x].name = heap[x].name
                   /\ k[x].next = heap[x].next /\ k[x].attr = heap[x].attr
        <5>1. k[x] = heap[x] \/ k[x] = [heap[x] EXCEPT !.ns = v]
          BY <4>1 DEF Live
        <5> QED BY <4>3, <5>1 DEF Fields
      <4> QED BY <4>2, <4>3, <4>4
    <3> QED BY <3>1, <3>2, <3>3
  <2> HIDE DEF k
  <2>9. Tree(k, R) /\ ~ IsAttr(k, cur) /\ FindAttr(k, cur, g.name) = Null
    <3>1. Tree(k, R)
      BY <2>8 DEF Good
    <3>2. FindAttr(k, cur, g.name) = Null
      BY <2>3, <2>6, <2>7, <2>8, <3>1, SameNames
    <3> QED BY <3>1, <3>2, <2>6, <2>7, <2>8 DEF IsAttr
  <2>10. /\ Good(h, R \cup {n}, n) /\ n \notin Live(k)
         /\ Live(h) = Live(k) \cup {n} /\ h[n] = rec /\ \A m \in Live(k) : h[m] = k[m]
    <3> HIDE DEF h
    <3>1. h = Put(k, n, rec)
      BY DEF h
    <3> QED BY <2>2, <2>4, <2>8, <3>1, PutGood
  <2> HIDE DEF h
  <2>11. /\ Good(SetAttributeNode(h, cur, n).h, R, n) /\ Kept(h, SetAttributeNode(h, cur, n).h, n)
    <3>1. IsAttr(h, n) /\ h[n].own = Null /\ h[n].doc = k[cur].doc /\ FindAttr(k, cur, h[n].name) = Null
          /\ cur \in Live(k)
      BY <2>2, <2>6, <2>8, <2>9, <2>10 DEF IsAttr
    <3> QED BY <2>9, <2>10, <3>1, NewAttribute
  <2>12. /\ Live(heap) \subseteq Live(heap')
         /\ \A m \in Live(heap) : heap'[m].par = heap[m].par /\ heap'[m].doc = heap[m].doc
    <3>1. Kept(h, heap', n)
      BY <2>1, <2>11
    <3> QED BY <3>1, <2>8, <2>10 DEF Kept
  <2>13. Opened(heap', cur, doc, stack)
    BY <2>6, <2>12, OpenedKept
  <2>14. Opened(heap', cur, doc, <<item>> \o Tail(stack))
    BY <2>13, OpenedTop
  <2>15. Good(heap', (held' \cup lost') \cup {doc'}, used')
    BY <2>1, <2>5, <2>11
  <2> QED BY <2>1, <2>14, <2>15, Running, StillRunning
<1> QED BY <1>1, <1>2

\* One turn of the loop.
LEMMA TurnOk ==
  ASSUME ParserOk, Turn
  PROVE  ParserOk'
<1> DEFINE g == GetNextNode
<1>1. st # "idle"
  BY DEF Turn
<1>2. g.st # "idle" /\ (g.kind = "attribute" => stack # <<>>)
  BY <1>1, NextNodeIs
<1>3. \/ Fail("FAILED")
      \/ g.kind = "start" /\ StartElement(g)
      \/ g.kind = "end" /\ EndElement(g)
      \/ g.kind \in {"text", "cdata"} /\ CharacterNode(g)
      \/ g.kind = "attribute" /\ AttributeNode(g)
      \/ Advance(g) /\ UNCHANGED <<domVars, stack, cur, lastElem, need, hasTop>>
  BY DEF Turn
<1> HIDE DEF g
<1>4. CASE Advance(g) /\ UNCHANGED <<domVars, stack, cur, lastElem, need, hasTop>>
  <2>1. /\ heap' = heap /\ held' = held /\ used' = used /\ lost' = lost /\ stack' = stack
        /\ cur' = cur /\ doc' = doc /\ st' = g.st
    BY <1>4 DEF Advance, domVars
  <2> QED BY <1>1, <1>2, <2>1, Running, StillRunning
<1> QED BY <1>1, <1>2, <1>3, <1>4, FailOk, StartOk, EndOk, CharacterOk, AttributeOk

\* The end of the text: the client gets the document.
LEMMA FileDoneOk ==
  ASSUME ParserOk, FileDone
  PROVE  ParserOk'
<1>1. st # "idle"
  BY DEF FileDone
<1>2. CASE stack # <<>>
  BY <1>1, <1>2, FailOk DEF FileDone
<1>3. CASE stack = <<>>
  <2>1. st' = "idle" /\ held' = held \cup {doc} /\ heap' = heap /\ used' = used /\ lost' = lost
    BY <1>3 DEF FileDone
  <2>2. (held \cup lost) \cup {doc} = held' \cup lost' /\ held' \cap lost' = {}
    BY <1>1, <2>1, Running
  <2>3. Good(heap', held' \cup lost', used')
    BY <1>1, <2>1, <2>2, Running
  <2> QED BY <2>1, <2>2, <2>3, Idle
<1> QED BY <1>2, <1>3

\* Between two parses the invariant is that of the calls.
LEMMA Between ==
  ASSUME ParserOk, st = "idle"
  PROVE  DomOk
<1>1. Holders = held \cup lost
  BY DEF Holders
<1>2. Good(heap, held \cup lost, used)
  BY <1>1 DEF ParserOk
<1> QED BY <1>2 DEF ParserOk, DomOk

\* A new document has no open elements.
LEMMA OpenedNew ==
  ASSUME NEW h, NEW n \in Live(h), h[n].doc = n
  PROVE  Opened(h, n, n, <<>>)
<1> DEFINE p == [i \in 0..0 |-> n]
<1>1. p \in [0..0 -> Live(h)] /\ p[0] = n
  OBVIOUS
<1>2. \A i \in 0..0 : i = 0
  OBVIOUS
<1>3. Len(<<>>) = 0 /\ <<>> \in Seq({})
  OBVIOUS
<1> HIDE DEF p
<1>4. p \in [0..Len(<<>>) -> Live(h)] /\ p[0] = n /\ p[Len(<<>>)] = n
  BY <1>1, <1>3
<1>5. /\ \A i \in 0..Len(<<>>) : h[p[i]].doc = n
      /\ \A i \in 0..Len(<<>>) : i < Len(<<>>) => h[p[i]].par = p[i+1]
  BY <1>1, <1>2, <1>3
<1> QED BY <1>3, <1>4, <1>5 DEF Opened

\* Parser_LoadDocument
LEMMA LoadOk ==
  ASSUME ParserOk, NEW s, NEW d, Load(s, d)
  PROVE  ParserOk'
<1> DEFINE n == used + 1
           rec == NewNode("document", <<"", "#document">>, NoText, n)
<1>1. st = "idle" /\ used' = n /\ held' = held /\ lost' = lost
  BY DEF Load
<1>2. PICK R : R = held \cup lost
  OBVIOUS
<1>3. Good(heap, R, used) /\ held \cap lost = {} /\ R \subseteq Live(heap)
  BY <1>1, <1>2, Between, RootFree
<1>4. CASE ~ SkipProlog(s).ok
  <2>1. heap' = heap /\ st' = st
    BY <1>4 DEF Load
  <2>2. used \in Nat /\ Live(heap) \subseteq Nat /\ \A m \in Live(heap) : m <= used
    BY <1>3 DEF Good, Tree, Wf
  <2>3. n \in Nat /\ \A m \in Live(heap) : m <= n
    BY <2>2
  <2>4. Good(heap, R, n)
    BY <1>3, <2>3 DEF Good
  <2>5. Good(heap', held' \cup lost', used')
    BY <1>1, <1>2, <2>1, <2>4
  <2> QED BY <1>1, <1>3, <2>1, <2>5, Idle
<1>5. CASE SkipProlog(s).ok
  <2>1. heap' = Put(heap, n, rec) /\ doc' = n /\ cur' = n /\ st' = "element" /\ stack' = <<>>
    BY <1>5 DEF Load
  <2>2. Fresh(rec) /\ rec.doc = n
    BY DEF NewNode, Fresh, Fields
  <2> HIDE DEF rec, n
  <2>3. n = used + 1
    BY DEF n
  <2>4. /\ Good(heap', R \cup {n}, n) /\ n \notin Live(heap)
        /\ Live(heap') = Live(heap) \cup {n} /\ heap'[n] = rec
    BY <1>3, <2>1, <2>2, <2>3, PutGood
  <2>5. Opened(heap', n, n, <<>>)
    BY <2>2, <2>4, OpenedNew
  <2>6. Good(heap', (held' \cup lost') \cup {doc'}, used')
    BY <1>1, <1>2, <2>1, <2>4
  <2>7. doc' \notin held' \cup lost'
    BY <1>1, <1>2, <1>3, <2>1, <2>4
  <2> QED BY <1>1, <1>3, <2>1, <2>5, <2>6, <2>7, StillRunning
<1> QED BY <1>4, <1>5

\* A DOM call between two parses.
LEMMA CallsOk ==
  ASSUME ParserOk, Careful, DomCall
  PROVE  ParserOk'
<1>1. st = "idle" /\ st' = st /\ DomNext
  BY DEF DomCall, parserVars
<1>2. DomOk'
  BY <1>1, Between, DomNextOk
<1> QED BY <1>1, <1>2, Idle DEF DomOk

\* At first there is no node.
LEMMA InitOk ==
  ASSUME Init
  PROVE  ParserOk
<1>1. heap = [n \in {} |-> 0] /\ held = {} /\ used = 0 /\ lost = {} /\ st = "idle"
  BY DEF Init, DomInit
<1>2. Live(heap) = {} /\ IsFiniteSet(Live(heap))
  BY <1>1, FS_EmptySet DEF Live
<1>3. Holders = {}
  BY <1>1 DEF Holders
<1>4. Wf(heap) /\ Links(heap) /\ Rooted(heap, {}) /\ Acyclic(heap)
  BY <1>2 DEF Wf, Links, Rooted, Acyclic
<1>5. Good(heap, {}, used)
  BY <1>1, <1>2, <1>4 DEF Good, Tree, DocTop
<1> QED BY <1>1, <1>3, <1>5 DEF ParserOk

\* For every text, every size of the heap and every sequence of calls: as long as the
\* client is careful (IxmlDom, Careful), the pointers of the nodes form trees, and each
\* node is freed once, by whoever holds its tree (node.c, element.c, document.c,
\* Parser_parseDocument).
THEOREM TreesStaySound ==
  ASSUME Careful
  PROVE  Spec => []TreeSound
<1>1. Init => ParserOk
  BY InitOk
<1>2. ParserOk /\ [Next]_vars => ParserOk'
  <2> SUFFICES ASSUME ParserOk, [Next]_vars
               PROVE  ParserOk'
    OBVIOUS
  <2>1. CASE ParseInput
    BY <2>1, LoadOk DEF ParseInput
  <2>2. ASSUME NEW d \in Documents, Parse(d)
        PROVE  ParserOk'
    BY <2>2, LoadOk DEF Parse
  <2>3. CASE UNCHANGED vars
    <3>1. /\ heap' = heap /\ held' = held /\ used' = used /\ lost' = lost /\ st' = st
          /\ stack' = stack /\ cur' = cur /\ doc' = doc
      BY <2>3 DEF vars, domVars, parserVars
    <3> QED BY <3>1 DEF ParserOk, Holders
  <2> QED BY <2>1, <2>2, <2>3, TurnOk, FileDoneOk, CallsOk DEF Next
<1>3. ParserOk => TreeSound
  BY TreeShaped DEF ParserOk, Good, TreeSound, EachFreedOnce
<1> QED BY <1>1, <1>2, <1>3, PTL DEF Spec
=============================================================================
