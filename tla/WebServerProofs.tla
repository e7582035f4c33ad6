--------------------------- MODULE WebServerProofs ---------------------------
(***************************************************************************)
(* What is true of the web server for every value of the constants.        *)
(***************************************************************************)
EXTENDS WebServer, FiniteSetTheorems, SequenceTheorems, TLAPS

-----------------------------------------------------------------------------
(* Content types *)

\* What the search finds is in the table.
Finds(x, s) == /\ s.top \in Int /\ s.bot \in Int /\ s.found \in Int
               /\ s \in [top : Int, bot : Int, found : Int]
               /\ s.top >= 1 /\ s.bot <= 5
               /\ s.found # 0 => s.found \in 1 .. 5 /\ gMediaTypeList[s.found] = x

LEMMA HalveFinds ==
  ASSUME NEW x, NEW s, Finds(x, s)
  PROVE  Finds(x, Halve(x, s))
<1> DEFINE mid == (s.top + s.bot) \div 2
           cmp == Rank(x) - Rank(gMediaTypeList[mid])
<1>1. CASE s.top > s.bot \/ s.found # 0
  <2>1. Halve(x, s) = s
    BY <1>1 DEF Halve, Finds
  <2> QED BY <2>1
<1>2. CASE s.top <= s.bot /\ s.found = 0
  <2>1. mid \in 1 .. 5
    BY <1>2 DEF Finds
  <2>2. Rank(gMediaTypeList[mid]) \in Int /\ Rank(x) \in Int
    BY <2>1 DEF gMediaTypeList, Rank
  <2>3. cmp = 0 => gMediaTypeList[mid] = x
    BY <2>1, <2>2 DEF gMediaTypeList, Rank
  <2> DEFINE m == mid
             c == cmp
  <2>4. Halve(x, s) = CASE s.top > s.bot \/ s.found # 0 -> s
                        [] s.top <= s.bot /\ s.found = 0 /\ c > 0 -> [s EXCEPT !.top = m + 1]
                        [] s.top <= s.bot /\ s.found = 0 /\ c < 0 -> [s EXCEPT !.bot = m - 1]
                        [] s.top <= s.bot /\ s.found = 0 /\ c = 0 -> [s EXCEPT !.found = m]
    BY DEF Halve
  <2>5. c \in Int /\ m \in 1 .. 5 /\ (c = 0 => gMediaTypeList[m] = x)
    BY <2>1, <2>2, <2>3
  <2> HIDE DEF m, c
  <2>6. CASE c > 0
    BY <1>2, <2>4, <2>5, <2>6 DEF Finds
  <2>7. CASE c < 0
    BY <1>2, <2>4, <2>5, <2>7 DEF Finds
  <2>8. CASE c = 0
    BY <1>2, <2>4, <2>5, <2>8 DEF Finds
  <2> QED BY <2>5, <2>6, <2>7, <2>8
<1> QED BY <1>1, <1>2 DEF Finds

LEMMA ExtensionFound ==
  ASSUME NEW x, search_extension(x) # 0
  PROVE  search_extension(x) \in 1 .. 5 /\ gMediaTypeList[search_extension(x)] = x
<1> DEFINE s0 == [top |-> 1, bot |-> Len(gMediaTypeList), found |-> 0]
<1>1. Finds(x, s0)
  BY DEF Finds, gMediaTypeList
<1>2. search_extension(x) = Halve(x, Halve(x, Halve(x, s0))).found
  BY DEF search_extension
<1> HIDE DEF s0
<1>3. Finds(x, Halve(x, Halve(x, Halve(x, s0))))
  BY <1>1, HalveFinds
<1> QED BY <1>2, <1>3 DEF Finds


-----------------------------------------------------------------------------
(* The state of a worker *)

\* Workers' records, with these fields.
Shape(r) ==
  /\ r \in [pc : {r.pc}, req : {r.req}, file : {r.file}, virt : BOOLEAN, alias : Nat,
            using : BOOLEAN, len : {r.len}, index : BOOLEAN, instr : {r.instr}, code : {r.code},
            head : {r.head}, pos : {r.pos}, left : {r.left}, out : {r.out}, end : BOOLEAN,
            have : {r.have}, buf : {r.buf}, calm : BOOLEAN, same : BOOLEAN, cut : BOOLEAN,
            src : {r.src}, loc : {r.loc}]

\* The names under which the description document is kept.
Configured == {configure_urlbase(d.base, d.alias, "8080") : d \in Descs}
AliasNames == {WithSlash(c.name) : c \in {c \in Configured : c.ok}}

\* No TE header, and no range of the description document.
Plain(req) == ~req.te /\ (req.range.kind # "none" => request_doc(req) \notin AliasNames)
PlainRequests == \A asked \in Requests : \A i \in Workers : asked[i] # NoRequest => Plain(asked[i])

\* What the headers say of a document of length len: the bytes from off on, size
\* of them, the ones that the range rg is about.
InstrOk(rg, instr, len) ==
  /\ instr \in [range : BOOLEAN, chunk : BOOLEAN, off : Nat, size : Int]
  /\ ~instr.range => instr.off = 0 /\ instr.size = len
  /\ instr.chunk => instr.size < 0
  /\ rg.kind = "none" => ~instr.range
  /\ instr.range =>
       /\ instr.size \in Nat /\ instr.off + instr.size <= len
       /\ instr.off = IF rg.kind = "suffix" THEN (IF rg.last > len THEN 0 ELSE len - rg.last)
                      ELSE rg.first
       /\ instr.off + instr.size = IF rg.kind = "from-to" /\ rg.last < len THEN rg.last + 1 ELSE len

TypeRight(type, file) ==
  type \notin {"xml", "octet-stream"} =>
    \E k \in DOMAIN gMediaTypeList : gMediaTypeList[k] = type /\ Last(file) = type

\* The headers of r were made; f are the files.
Headed(r, f) ==
  /\ r.req.method # "POST" /\ r.src \in Seq(Nat)
  /\ r.head = MakeHeaders(r.instr, r.head.type) /\ TypeRight(r.head.type, r.file)
  /\ \E len \in {Len(r.src), USING_CHUNKED, UNTIL_CLOSE} : InstrOk(r.req.range, r.instr, len)
  /\ r.using => r.src = DocText(r.alias) /\ r.instr.size = Len(r.src) /\ ~r.instr.range
  /\ ~r.using => r.file \in DOMAIN f /\ r.src # NoFile /\ (r.same => f[r.file] = r.src)

\* A file is being copied.
Copying(r) ==
  LET at == r.instr.off
      n == r.instr.size
  IN /\ r.pos \in Nat /\ r.pos >= at /\ r.out \in Seq(Nat) /\ Len(r.out) = r.pos - at
     /\ n >= 0 => r.left = n - Len(r.out) /\ r.left >= 0 /\ r.buf = Lesser(n, BufSize)
     /\ n < 0 => r.left = BufSize /\ r.buf = BufSize
     /\ r.same => r.pos <= Len(r.src) /\ r.out = SubSeq(r.src, at + 1, r.pos)

\* What was sent after the headers, at the end.
Sent(r) ==
  /\ r.out \in Seq(Nat)
  /\ ~r.instr.chunk /\ r.instr.size >= 0 => Len(r.out) <= r.instr.size
  /\ r.same /\ ~r.cut /\ r.req.method # "HEAD" =>
       /\ r.out = SubSeq(r.src, r.instr.off + 1,
                         IF r.instr.size >= 0 THEN r.instr.off + r.instr.size ELSE Len(r.src))
       /\ r.instr.chunk => r.end

\* What was written of the body of a POST.
Written(r) ==
  /\ r.req.method = "POST" /\ r.head = NoHead
  /\ r.pos \in 0 .. Len(r.req.body) /\ r.out = SubSeq(r.req.body, 1, r.pos)

Blank(r) == r.head = NoHead /\ r.out = <<>> /\ r.pos = 0

Phase(r, f) ==
  \/ r.pc = "idle" /\ Blank(r)
  \/ /\ r.pc \in {"look", "grab", "info"} /\ r.req # NoRequest /\ Blank(r)
     /\ r.have = 0 /\ r.buf = BufSize /\ r.code = 0
     /\ r.pc = "grab" => r.file = request_doc(r.req)
     /\ r.virt => r.pc = "info" /\ ~r.using
     /\ r.using => r.pc = "info" /\ r.req.range.kind = "none"
  \/ r.pc = "fail" /\ r.req # NoRequest /\ Blank(r) /\ r.code # 200
  \/ /\ r.pc \in {"post", "recv"} /\ r.req # NoRequest /\ Written(r)
     /\ r.have \in r.pos .. Len(r.req.body) /\ r.buf \in Nat
  \/ r.pc \in {"head", "doc", "open"} /\ r.req # NoRequest /\ Headed(r, f) /\ r.out = <<>>
     /\ (r.pc = "doc" => r.using) /\ (r.pc = "open" => ~r.using)
  \/ r.pc = "copy" /\ r.req # NoRequest /\ Headed(r, f) /\ ~r.using /\ Copying(r)
  \/ /\ r.pc = "release" /\ r.req # NoRequest /\ Headed(r, f) /\ r.using
     /\ r.out \in {<<>>, DocText(r.alias)} /\ (~r.cut => r.out = DocText(r.alias))
  \/ /\ r.pc = "done" /\ r.req # NoRequest
     /\ \/ Written(r) /\ (r.code = 200 => r.pos = Len(r.req.body))
        \/ r.req.method # "POST" /\ r.head = NoHead
        \/ Headed(r, f) /\ Sent(r)

WorkerOk(r, f) ==
  /\ Shape(r) /\ (r.req # NoRequest => RequestOk(r.req) /\ Plain(r.req))
  /\ Phase(r, f)

NamesKnown ==
  /\ sets \in Nat /\ gAliasDoc.doc \in Nat
  /\ Valid(gAliasDoc) => gAliasDoc.name \in AliasNames
  /\ setter.pc = "assign" => WithSlash(setter.name) \in AliasNames
  /\ setter \in [pc : {setter.pc}, name : {setter.name}, loc : {setter.loc}]

SendInv ==
  /\ w = [j \in Workers |-> w[j]] /\ fs \in [Paths \cup VPaths -> Seq(Nat)]
  /\ NamesKnown
  /\ \A j \in Workers : WorkerOk(w[j], fs)

-----------------------------------------------------------------------------
(* The headers *)

\* Headers for a document of length len without a range.
Whole(len) == [range |-> FALSE, chunk |-> FALSE, off |-> 0, size |-> len]

LEMMA PartialOk ==
  ASSUME NEW len \in Int, NEW off \in Nat, NEW size \in Nat, NEW rg, rg.kind # "none",
         off + size <= len,
         off = IF rg.kind = "suffix" THEN (IF rg.last > len THEN 0 ELSE len - rg.last) ELSE rg.first,
         off + size = IF rg.kind = "from-to" /\ rg.last < len THEN rg.last + 1 ELSE len,
         NEW instr, instr = Whole(len)
  PROVE  InstrOk(rg, Partial(instr, off, size).instr, len)
<1> DEFINE p == Partial(instr, off, size).instr
<1>1. p = [range |-> TRUE, chunk |-> FALSE, off |-> off, size |-> size]
  BY DEF Partial, Whole
<1> HIDE DEF p
<1>2. InstrOk(rg, p, len)
  BY <1>1 DEF InstrOk
<1> QED BY <1>2 DEF p

LEMMA WholeOk ==
  ASSUME NEW len \in Int, NEW rg, NEW instr,
         instr = Whole(len)
  PROVE  InstrOk(rg, instr, len)
BY DEF InstrOk, Whole

LEMMA RangeRight ==
  ASSUME NEW rg, RangeOk(rg), rg.kind # "none", NEW len \in Int,
         NEW instr, instr = Whole(len),
         NEW c, c = CreateHTTPRangeResponseHeader(rg, len, instr)
  PROVE  c.code \in {200, 400, 416} /\ (c.code = 200 => InstrOk(rg, c.instr, len))
<1> DEFINE f == GetNextRange(rg)[1]
           l == GetNextRange(rg)[2]
<1>1. CASE rg.kind = "bad"
  BY <1>1 DEF CreateHTTPRangeResponseHeader, RangeError
<1>2. CASE rg.kind # "bad" /\ len < 0
  <2>1. c = RangeError(instr, 416) \/ c = [code |-> 200, instr |-> instr]
    BY <1>2 DEF CreateHTTPRangeResponseHeader
  <2>2. InstrOk(rg, instr, len)
    BY WholeOk
  <2> QED BY <2>1, <2>2 DEF RangeError
<1>3. CASE rg.kind # "bad" /\ len >= 0
  <2>1. f \in Int /\ l \in Int
    BY <1>3 DEF GetNextRange, RangeOk
  <2>2. c = IF len < f THEN RangeError(instr, 416)
            ELSE IF f >= 0 /\ l >= f THEN Partial(instr, f, (IF l >= len THEN len - 1 ELSE l) - f + 1)
            ELSE IF f >= 0 /\ l = -1 /\ f < len THEN Partial(instr, f, len - f)
            ELSE IF f = -1 /\ l > 0
                 THEN IF l >= len THEN Partial(instr, 0, len) ELSE Partial(instr, len - l, l)
            ELSE RangeError(instr, 416)
    BY <1>3 DEF CreateHTTPRangeResponseHeader
  <2>3. \/ c = RangeError(instr, 416)
        \/ \E off \in Nat, size \in Nat :
             /\ c = Partial(instr, off, size) /\ off + size <= len
             /\ off = IF rg.kind = "suffix" THEN (IF rg.last > len THEN 0 ELSE len - rg.last) ELSE rg.first
             /\ off + size = IF rg.kind = "from-to" /\ rg.last < len THEN rg.last + 1 ELSE len
    <3>1. CASE rg.kind = "from-to"
      <4>1. f = rg.first /\ l = rg.last /\ f \in Nat /\ l \in Nat
        BY <3>1 DEF GetNextRange, RangeOk
      <4>2. CASE len < f \/ ~(l >= f)
        BY <1>3, <2>2, <4>1, <4>2
      <4>3. CASE len >= f /\ l >= f
        <5> DEFINE size == (IF l >= len THEN len - 1 ELSE l) - f + 1
        <5>1. c = Partial(instr, f, size) /\ size \in Nat /\ f + size <= len
              /\ f + size = IF rg.last < len THEN rg.last + 1 ELSE len
          BY <1>3, <2>2, <4>1, <4>3
        <5> HIDE DEF size
        <5> QED BY <3>1, <4>1, <5>1
      <4> QED BY <1>3, <2>1, <4>2, <4>3
    <3>2. CASE rg.kind = "from"
      <4>1. f = rg.first /\ l = -1 /\ f \in Nat
        BY <3>2 DEF GetNextRange, RangeOk
      <4>2. CASE f < len
        <5>1. c = Partial(instr, f, len - f) /\ len - f \in Nat /\ f + (len - f) = len
          BY <1>3, <2>2, <4>1, <4>2
        <5> QED BY <3>2, <4>1, <5>1
      <4> QED BY <1>3, <2>2, <4>1, <4>2
    <3>3. CASE rg.kind = "suffix"
      <4>1. f = -1 /\ l = rg.last /\ l \in Nat
        BY <3>3 DEF GetNextRange, RangeOk
      <4>2. CASE l > 0 /\ l >= len
        <5>1. c = Partial(instr, 0, len)
          BY <1>3, <2>2, <4>1, <4>2
        <5> QED BY <1>3, <3>3, <4>1, <4>2, <5>1
      <4>3. CASE l > 0 /\ l < len
        <5>1. c = Partial(instr, len - l, l) /\ len - l \in Nat /\ (len - l) + l = len
          BY <1>3, <2>2, <4>1, <4>3
        <5> QED BY <1>3, <3>3, <4>1, <4>3, <5>1
      <4> QED BY <1>3, <2>2, <4>1, <4>2, <4>3
    <3> QED BY <1>3, <3>1, <3>2, <3>3 DEF RangeOk
  <2>4. CASE c = RangeError(instr, 416)
    BY <2>4 DEF RangeError
  <2>5. ASSUME NEW off \in Nat, NEW size \in Nat,
               c = Partial(instr, off, size), off + size <= len,
               off = IF rg.kind = "suffix" THEN (IF rg.last > len THEN 0 ELSE len - rg.last) ELSE rg.first,
               off + size = IF rg.kind = "from-to" /\ rg.last < len THEN rg.last + 1 ELSE len
        PROVE  c.code = 200 /\ InstrOk(rg, c.instr, len)
    <3>1. InstrOk(rg, c.instr, len)
      BY <2>5, PartialOk
    <3>2. c.code = 200
      BY <2>5 DEF Partial
    <3> QED BY <3>1, <3>2
  <2> QED BY <2>3, <2>4, <2>5
<1> QED BY <1>1, <1>2, <1>3

LEMMA CheckRight ==
  ASSUME NEW req, RequestOk(req), ~req.te, NEW len \in Int, NEW c, c = CheckOtherHTTPHeaders(req, len)
  PROVE  /\ c.code \in {200, 400, 416} /\ (c.code = 200 => InstrOk(req.range, c.instr, len))
         /\ req.range.kind = "none" => c.code = 200
<1> DEFINE instr == [Instr0 EXCEPT !.size = len, !.chunk = req.te]
<1>1. instr = Whole(len)
  <2>1. req.te = FALSE
    BY DEF RequestOk
  <2>2. instr = [Instr0 EXCEPT !.size = len, !.chunk = FALSE]
    BY <2>1
  <2> HIDE DEF instr
  <2> QED BY <2>2 DEF Instr0, Whole
<1>2. c = IF req.range.kind = "none" THEN [code |-> 200, instr |-> instr]
          ELSE CreateHTTPRangeResponseHeader(req.range, len, instr)
  BY DEF CheckOtherHTTPHeaders
<1>4. RangeOk(req.range)
  BY DEF RequestOk
<1> HIDE DEF instr
<1>3. InstrOk(req.range, instr, len)
  BY <1>1, WholeOk
<1>5. CASE req.range.kind = "none"
  BY <1>2, <1>3, <1>5
<1>6. CASE req.range.kind # "none"
  <2>1. c = CreateHTTPRangeResponseHeader(req.range, len, instr)
    BY <1>2, <1>6
  <2>2. c.code \in {200, 400, 416} /\ (c.code = 200 => InstrOk(req.range, c.instr, len))
    BY <1>1, <1>4, <1>6, <2>1, RangeRight
  <2> QED BY <1>6, <2>2
<1> QED BY <1>5, <1>6

LEMMA ChunkOk ==
  ASSUME NEW rg, NEW len \in Int, NEW instr, InstrOk(rg, instr, len), NEW chunks \in BOOLEAN,
         chunks => len < 0, NEW ins, ins = [instr EXCEPT !.chunk = @ \/ chunks]
  PROVE  InstrOk(rg, ins, len)
<1>1. ins = [range |-> instr.range, chunk |-> instr.chunk \/ chunks, off |-> instr.off, size |-> instr.size]
  BY DEF InstrOk
<1>2. chunks => instr.size < 0
  BY DEF InstrOk
<1> QED BY <1>1, <1>2 DEF InstrOk

\* What process_request makes of a document whose length is known.
Made(r, len, type, ins) ==
  [r EXCEPT !.pc = "head", !.instr = ins, !.len = len, !.code = 200, !.head = MakeHeaders(ins, type)]

\* What Answer may decide.
Answered(r, len, type, a) ==
  \/ /\ \E code \in {400, 406, 416} : a = Failed(r, code)
     /\ r.req.range.kind = "none" => r.virt
  \/ r.req.method = "POST" /\ \E ins : a = [r EXCEPT !.pc = "post", !.instr = ins]
  \/ /\ r.req.method # "POST"
     /\ \E ins : InstrOk(r.req.range, ins, len) /\ a = Made(r, len, type, ins)

LEMMA AnswerRight ==
  ASSUME NEW r, RequestOk(r.req), Plain(r.req), r.virt \in BOOLEAN, NEW len \in Int, NEW type
  PROVE  Answered(r, len, type, Answer(r, len, type))
<1>0. SUFFICES ASSUME NEW a, a = Answer(r, len, type) PROVE Answered(r, len, type, a)
  OBVIOUS
<1> DEFINE chunks == r.virt /\ len = USING_CHUNKED
           c == CheckOtherHTTPHeaders(r.req, len)
           ins == [c.instr EXCEPT !.chunk = @ \/ chunks]
<1>1. /\ c.code \in {200, 400, 416} /\ (c.code = 200 => InstrOk(r.req.range, c.instr, len))
      /\ r.req.range.kind = "none" => c.code = 200
  BY CheckRight DEF Plain
<1>2. a = IF c.code # 200 THEN Failed(r, c.code)
          ELSE IF r.req.method = "POST" THEN [r EXCEPT !.pc = "post", !.instr = c.instr]
          ELSE IF chunks /\ r.req.minor = 0 THEN Failed(r, 406)
          ELSE Made(r, len, type, ins)
  BY <1>0 DEF Answer, Made
<1>3. chunks \in BOOLEAN /\ (chunks => len < 0 /\ r.virt)
  BY DEF USING_CHUNKED
<1> HIDE DEF chunks, c
<1>4. c.code = 200 => InstrOk(r.req.range, ins, len)
  BY <1>1, <1>3, ChunkOk
<1> HIDE DEF ins
<1>5. CASE c.code # 200
  <2>1. c.code \in {400, 406, 416} /\ a = Failed(r, c.code) /\ r.req.range.kind # "none"
    BY <1>1, <1>2, <1>5
  <2>2. (\E code \in {400, 406, 416} : a = Failed(r, code)) /\ r.req.range.kind # "none"
    BY <2>1
  <2> QED BY <2>2, Zenon DEF Answered
<1>6. CASE c.code = 200 /\ r.req.method = "POST"
  <2>1. a = [r EXCEPT !.pc = "post", !.instr = c.instr]
    BY <1>2, <1>6
  <2> QED BY <1>6, <2>1 DEF Answered
<1>7. CASE c.code = 200 /\ r.req.method # "POST" /\ chunks /\ r.req.minor = 0
  <2>1. a = Failed(r, 406) /\ r.virt
    BY <1>2, <1>3, <1>7
  <2>2. (\E code \in {400, 406, 416} : a = Failed(r, code)) /\ r.virt
    BY <2>1
  <2> QED BY <2>2, Zenon DEF Answered
<1>8. CASE c.code = 200 /\ r.req.method # "POST" /\ ~(chunks /\ r.req.minor = 0)
  <2>1. a = Made(r, len, type, ins)
    BY <1>2, <1>8
  <2> HIDE DEF Made
  <2> QED BY <1>4, <1>8, <2>1 DEF Answered
<1> QED BY <1>5, <1>6, <1>7, <1>8

LEMMA LastOf ==
  ASSUME NEW n \in Nat, NEW ks, ks \subseteq 1 .. n, ks # {}
  PROVE  \E k \in ks : \A j \in ks : j <= k
<1> DEFINE rest == {x \in Nat : n - x \in ks}
           R == {ss \in Nat \X Nat : ss[1] < ss[2]}
<1>1. rest \subseteq Nat /\ rest # {}
  <2>1. PICK k \in ks : TRUE
    OBVIOUS
  <2>2. n - k \in Nat /\ n - (n - k) = k
    OBVIOUS
  <2> QED BY <2>1, <2>2
<1>2. IsWellFoundedOn(R, Nat)
  BY NatLessThanWellFounded DEF OpToRel
<1> HIDE DEF R
<1>3. PICK x \in rest : \A y \in rest : ~ (<<y, x>> \in R)
  BY <1>1, <1>2, WFMin
<1> DEFINE k == n - x
<1>4. x \in Nat /\ k \in ks /\ k \in 1 .. n
  OBVIOUS
<1>5. ASSUME NEW j \in ks PROVE j <= k
  <2>1. n - j \in Nat /\ n - (n - j) = j
    BY <1>5
  <2>2. n - j \in rest
    BY <1>5, <2>1
  <2>3. n - j < x => <<n - j, x>> \in R
    BY <1>4, <2>1 DEF R
  <2>4. ~(n - j < x)
    BY <1>3, <2>2, <2>3
  <2> QED BY <1>4, <1>5, <2>1, <2>4
<1> QED BY <1>4, <1>5

LEMMA FromLast ==
  ASSUME NEW S, NEW s \in Seq(S), NEW i \in 1 .. Len(s) + 1, Len(From(s, i)) = 1
  PROVE  From(s, i)[1] = Last(s)
<1>1. From(s, i) = SubSeq(s, i, Len(s))
  BY DEF From
<1>2. CASE i = Len(s) + 1
  <2>1. Len(SubSeq(s, i, Len(s))) = 0
    BY <1>2
  <2> QED BY <1>1, <2>1
<1>3. CASE i <= Len(s)
  <2>1. Len(SubSeq(s, i, Len(s))) = Len(s) - i + 1 /\ SubSeq(s, i, Len(s))[1] = s[i]
    BY <1>3
  <2>2. Len(s) - i + 1 = 1
    BY <1>1, <2>1
  <2>3. i = Len(s)
    BY <2>2
  <2> QED BY <1>1, <2>1, <2>3 DEF Last
<1> QED BY <1>2, <1>3

\* The content type is the one of the extension.
LEMMA TypeOfPath == ASSUME NEW path \in Seq(STRING) PROVE TypeRight(get_content_type(path), path)
<1> DEFINE dots == {k \in DOMAIN path : path[k] = "."}
           dot == CHOOSE k \in dots : \A j \in dots : j <= k
           ext == From(path, dot + 1)
<1>1. CASE dots = {} \/ Len(ext) # 1 \/ search_extension(ext[1]) = 0
  BY <1>1 DEF get_content_type, TypeRight
<1>2. CASE dots # {} /\ Len(ext) = 1 /\ search_extension(ext[1]) # 0
  <2>0. dots \subseteq 1 .. Len(path) /\ Len(path) \in Nat
    OBVIOUS
  <2> HIDE DEF dots
  <2>1. dot \in dots /\ dot \in 1 .. Len(path)
    BY <1>2, <2>0, LastOf
  <2> HIDE DEF dot
  <2>2. dot + 1 \in 1 .. Len(path) + 1
    BY <2>0, <2>1
  <2>3. ext[1] = Last(path)
    BY <1>2, <2>2, FromLast
  <2> HIDE DEF ext
  <2>4. get_content_type(path) = gMediaTypeList[search_extension(ext[1])]
    BY <1>2 DEF get_content_type, dot, dots, ext
  <2>5. /\ search_extension(ext[1]) \in DOMAIN gMediaTypeList
        /\ gMediaTypeList[search_extension(ext[1])] = ext[1]
    BY <1>2, ExtensionFound DEF gMediaTypeList
  <2> QED BY <2>3, <2>4, <2>5 DEF TypeRight
<1> QED BY <1>1, <1>2


-----------------------------------------------------------------------------
(* The steps of a request *)

LEMMA GoesKeeps ==
  ASSUME SendInv, NEW i \in Workers, NEW q, WorkerOk(q, fs), w' = [w EXCEPT ![i] = q],
         fs' = fs, gAliasDoc' = gAliasDoc, setter' = setter, sets' = sets
  PROVE  SendInv'
<1>1. w' = [j \in Workers |-> w'[j]] /\ \A j \in Workers : w'[j] = IF j = i THEN q ELSE w[j]
  BY DEF SendInv
<1>2. \A j \in Workers : WorkerOk(w'[j], fs)
  BY <1>1 DEF SendInv
<1>3. NamesKnown'
  BY DEF SendInv, NamesKnown, Valid, AliasNames, Configured
<1>4. \A j \in Workers : WorkerOk(w'[j], fs')
  BY <1>2
<1>5. fs' \in [Paths \cup VPaths -> Seq(Nat)]
  BY DEF SendInv
<1> QED BY <1>1, <1>3, <1>4, <1>5 DEF SendInv

LEMMA FailedOk ==
  ASSUME NEW r, Shape(r), Blank(r), r.req # NoRequest, RequestOk(r.req), Plain(r.req),
         NEW code, code # 200, NEW f
  PROVE  WorkerOk(Failed(r, code), f)
<1> DEFINE p == Failed(r, code)
<1>1. p = [r EXCEPT !.pc = "fail", !.code = code]
  BY DEF Failed
<1>2. p.req = r.req /\ p.pc = "fail" /\ p.code = code
  BY <1>1 DEF Shape
<1>3. Shape(p) /\ Blank(p)
  BY <1>1 DEF Shape, Blank
<1> HIDE DEF p
<1>4. WorkerOk(p, f)
  BY <1>2, <1>3 DEF WorkerOk, Phase
<1> QED BY <1>4 DEF p

LEMMA LookKeeps == ASSUME SendInv, NEW i \in Workers, Look(i) PROVE SendInv'
<1> DEFINE r == w[i]
           doc == request_doc(r.req)
           s == [r EXCEPT !.file = doc]
<1>1. WorkerOk(r, fs) /\ r.pc = "look"
  BY DEF SendInv, Look, Steps
<1>2. PICK p : /\ w' = [w EXCEPT ![i] = p] /\ fs' = fs /\ gAliasDoc' = gAliasDoc
               /\ setter' = setter /\ sets' = sets
               /\ \/ p = Failed(s, 400)
                  \/ p = [s EXCEPT !.pc = "info", !.virt = TRUE]
                  \/ p = [s EXCEPT !.pc = "grab"]
                  \/ p = [s EXCEPT !.pc = "info"]
  BY DEF Look, Goes, bounds
<1>3. Shape(r) /\ r.req # NoRequest /\ RequestOk(r.req) /\ Plain(r.req) /\ Blank(r)
      /\ ~r.virt /\ ~r.using /\ r.have = 0 /\ r.buf = BufSize /\ r.code = 0
  BY <1>1 DEF WorkerOk, Phase
<1> HIDE DEF r
<1>4. Shape(s) /\ s.req = r.req /\ Blank(s) /\ s.file = request_doc(s.req)
      /\ ~s.virt /\ ~s.using /\ s.have = 0 /\ s.buf = BufSize /\ s.code = 0
  <2> HIDE DEF doc
  <2> QED BY <1>3 DEF Shape, Blank, doc
<1> HIDE DEF s
<1>5. CASE p = Failed(s, 400)
  <2>1. WorkerOk(p, fs)
    BY <1>3, <1>4, <1>5, FailedOk
  <2> QED BY <1>2, <2>1, GoesKeeps
<1>6. CASE p # Failed(s, 400)
  <2>1. /\ Shape(p) /\ p.req = s.req /\ Blank(p) /\ ~p.using /\ p.file = s.file
        /\ p.pc \in {"grab", "info"} /\ p.have = 0 /\ p.buf = BufSize /\ p.code = 0
        /\ p.virt => p.pc = "info"
    <3>1. CASE p = [s EXCEPT !.pc = "info", !.virt = TRUE]
      BY <1>4, <3>1 DEF Shape, Blank
    <3>2. CASE p = [s EXCEPT !.pc = "grab"]
      BY <1>4, <3>2 DEF Shape, Blank
    <3>3. CASE p = [s EXCEPT !.pc = "info"]
      BY <1>4, <3>3 DEF Shape, Blank
    <3> QED BY <1>2, <1>6, <3>1, <3>2, <3>3
  <2>2. WorkerOk(p, fs)
    BY <1>3, <1>4, <2>1 DEF WorkerOk, Phase
  <2> QED BY <1>2, <2>2, GoesKeeps
<1> QED BY <1>5, <1>6

LEMMA GrabKeeps == ASSUME SendInv, NEW i \in Workers, alias_grab(i) PROVE SendInv'
<1> DEFINE r == w[i]
<1>1. WorkerOk(r, fs) /\ r.pc = "grab"
  BY DEF SendInv, alias_grab, Steps
<1>2. Shape(r) /\ r.req # NoRequest /\ RequestOk(r.req) /\ Plain(r.req) /\ Blank(r)
      /\ ~r.virt /\ r.have = 0 /\ r.buf = BufSize /\ r.code = 0 /\ r.file = request_doc(r.req)
  BY <1>1 DEF WorkerOk, Phase
<1>3. UNCHANGED <<gAliasDoc, setter, fs, sets>>
  BY DEF alias_grab, bounds
<1>4. CASE Valid(gAliasDoc) /\ docs[gAliasDoc.doc] > 0
  <2> DEFINE p == [r EXCEPT !.pc = "info", !.alias = gAliasDoc.doc,
                            !.using = (gAliasDoc.name = r.file)]
  <2>1. w' = [w EXCEPT ![i] = p]
    BY <1>4 DEF alias_grab, SendInv
  <2>2. gAliasDoc.doc \in Nat /\ gAliasDoc.name \in AliasNames
    BY <1>4 DEF SendInv, NamesKnown
  <2>3. gAliasDoc.name = r.file => r.req.range.kind = "none"
    BY <1>2, <2>2 DEF Plain
  <2> HIDE DEF r
  <2>4. /\ Shape(p) /\ p.req = r.req /\ Blank(p) /\ ~p.virt /\ p.pc = "info"
        /\ p.have = 0 /\ p.buf = BufSize /\ p.code = 0
        /\ p.using = (gAliasDoc.name = r.file)
    BY <1>2, <2>2 DEF Shape, Blank
  <2> HIDE DEF p
  <2>5. WorkerOk(p, fs)
    BY <1>2, <2>3, <2>4 DEF WorkerOk, Phase
  <2> QED BY <1>3, <2>1, <2>5, GoesKeeps
<1>5. CASE ~(Valid(gAliasDoc) /\ docs[gAliasDoc.doc] > 0)
  <2>1. w' = w
    BY <1>5 DEF alias_grab
  <2> QED BY <1>3, <2>1 DEF SendInv, NamesKnown, Valid, AliasNames, Configured
<1> QED BY <1>4, <1>5


\* A request whose document is known goes on rightly, whatever Answer decides.
LEMMA AnswerKeeps ==
  ASSUME SendInv, NEW i \in Workers, NEW r, NEW len \in Int, NEW type,
         Shape(r), r.req # NoRequest, RequestOk(r.req), Plain(r.req), Blank(r),
         r.have = 0, r.buf = BufSize, r.code = 0,
         Goes(i, Answer(r, len, type)),
         r.req.method # "POST" =>
           /\ r.src \in Seq(Nat) /\ TypeRight(type, r.file)
           /\ len \in {Len(r.src), USING_CHUNKED, UNTIL_CLOSE}
           /\ r.using => r.src = DocText(r.alias) /\ len = Len(r.src)
                         /\ r.req.range.kind = "none" /\ ~r.virt
           /\ ~r.using => r.file \in DOMAIN fs /\ r.src # NoFile /\ (r.same => fs[r.file] = r.src)
  PROVE  SendInv'
<1>0. PICK a : a = Answer(r, len, type)
  OBVIOUS
<1>1. w' = [w EXCEPT ![i] = a] /\ UNCHANGED <<fs, gAliasDoc, setter, sets>>
  BY <1>0 DEF Goes, bounds
<1>2. Answered(r, len, type, a)
  <2>1. r.virt \in BOOLEAN
    BY DEF Shape
  <2> QED BY <1>0, <2>1, AnswerRight
<1>3. CASE \E code \in {400, 406, 416} : a = Failed(r, code)
  <2>1. PICK code \in {400, 406, 416} : a = Failed(r, code)
    BY <1>3
  <2>2. WorkerOk(a, fs)
    BY <2>1, FailedOk
  <2> QED BY <1>1, <2>2, GoesKeeps
<1>4. ASSUME r.req.method = "POST", NEW ins, a = [r EXCEPT !.pc = "post", !.instr = ins]
      PROVE  SendInv'
  <2>1. /\ Shape(a) /\ a.req = r.req /\ Blank(a) /\ a.pc = "post"
        /\ a.have = 0 /\ a.buf = BufSize
    BY <1>4 DEF Shape, Blank
  <2>2. Written(a) /\ a.have \in a.pos .. Len(a.req.body) /\ a.buf \in Nat
    <3>1. a.req.body \in Seq(Nat) /\ SubSeq(a.req.body, 1, 0) = <<>> /\ Len(a.req.body) \in Nat
      BY <2>1 DEF RequestOk
    <3>2. a.pos = 0 /\ a.out = <<>> /\ a.head = NoHead
      BY <2>1 DEF Blank
    <3>3. BufSize \in Nat
      BY WebServerConstants
    <3>5. a.req.method = "POST"
      BY <1>4, <2>1
    <3>6. a.pos \in 0 .. Len(a.req.body) /\ a.out = SubSeq(a.req.body, 1, a.pos)
      BY <3>1, <3>2
    <3>4. Written(a)
      BY <3>2, <3>5, <3>6 DEF Written
    <3> QED BY <2>1, <3>1, <3>2, <3>3, <3>4
  <2>3. WorkerOk(a, fs)
    BY <2>1, <2>2 DEF WorkerOk, Phase
  <2> QED BY <1>1, <2>3, GoesKeeps
<1>5. ASSUME r.req.method # "POST", NEW ins, InstrOk(r.req.range, ins, len),
             a = Made(r, len, type, ins)
      PROVE  SendInv'
  <2>1. a = [r EXCEPT !.pc = "head", !.instr = ins, !.len = len, !.code = 200,
                      !.head = MakeHeaders(ins, type)]
    BY <1>5 DEF Made
  <2> DEFINE hd == MakeHeaders(ins, type)
  <2>2. hd.type = type
    BY DEF MakeHeaders
  <2> HIDE DEF hd
  <2>3. /\ Shape(a) /\ a.req = r.req /\ a.pc = "head" /\ a.instr = ins /\ a.src = r.src
        /\ a.file = r.file /\ a.head = hd /\ a.using = r.using /\ a.same = r.same
        /\ a.alias = r.alias /\ a.out = r.out /\ a.virt = r.virt
    BY <2>1 DEF Shape, hd
  <2>4. r.using => ins.size = Len(r.src) /\ ~ins.range
    BY <1>5 DEF InstrOk
  <2>5. Headed(a, fs)
    <3>1. a.head = MakeHeaders(a.instr, a.head.type)
      BY <2>2, <2>3 DEF hd
    <3> QED BY <1>5, <2>2, <2>3, <2>4, <3>1 DEF Headed
  <2>6. a.out = <<>>
    BY <2>3 DEF Blank
  <2>7. WorkerOk(a, fs)
    BY <2>3, <2>5, <2>6 DEF WorkerOk, Phase
  <2> QED BY <1>1, <2>7, GoesKeeps
<1>6. CASE r.req.method = "POST" /\ \E ins : a = [r EXCEPT !.pc = "post", !.instr = ins]
  <2>1. PICK ins : a = [r EXCEPT !.pc = "post", !.instr = ins]
    BY <1>6
  <2> QED BY <1>4, <1>6, <2>1
<1>7. CASE /\ r.req.method # "POST"
           /\ \E ins : InstrOk(r.req.range, ins, len) /\ a = Made(r, len, type, ins)
  <2>1. PICK ins : InstrOk(r.req.range, ins, len) /\ a = Made(r, len, type, ins)
    BY <1>7
  <2> QED BY <1>5, <1>7, <2>1
<1>8. \/ \E code \in {400, 406, 416} : a = Failed(r, code)
      \/ r.req.method = "POST" /\ \E ins : a = [r EXCEPT !.pc = "post", !.instr = ins]
      \/ /\ r.req.method # "POST"
         /\ \E ins : InstrOk(r.req.range, ins, len) /\ a = Made(r, len, type, ins)
  BY <1>2 DEF Answered
<1> QED BY <1>3, <1>6, <1>7, <1>8

\* What "info" knows of a request.
Looked(r) ==
  /\ Shape(r) /\ r.req # NoRequest /\ RequestOk(r.req) /\ Plain(r.req) /\ Blank(r)
  /\ r.pc = "info" /\ r.have = 0 /\ r.buf = BufSize /\ r.code = 0
  /\ r.virt => ~r.using
  /\ r.using => r.req.range.kind = "none"

LEMMA InfoLooked ==
  ASSUME SendInv, NEW i \in Workers, Steps(i, "info") PROVE Looked(w[i])
<1>1. WorkerOk(w[i], fs) /\ w[i].pc = "info"
  BY DEF SendInv, Steps
<1> QED BY <1>1 DEF WorkerOk, Phase, Looked

LEMMA InfoAliasKeeps == ASSUME SendInv, NEW i \in Workers, InfoAlias(i) PROVE SendInv'
<1> DEFINE r == w[i]
           d == DocText(r.alias)
           s == [r EXCEPT !.src = d]
<1>1. Looked(r) /\ r.using /\ Goes(i, Answer(s, Len(d), "xml"))
  BY InfoLooked DEF InfoAlias
<1> HIDE DEF r
<1>2. d \in Seq(Nat) /\ Len(d) = 3
  BY <1>1 DEF Looked, Shape, DocText
<1> HIDE DEF d
<1>3. Shape(s) /\ s.req = r.req /\ Blank(s) /\ s.have = 0 /\ s.buf = BufSize /\ s.code = 0
      /\ s.src = d /\ s.using = r.using /\ s.alias = r.alias /\ s.virt = r.virt
  BY <1>1 DEF Looked, Shape, Blank
<1> HIDE DEF s
<1>4. TypeRight("xml", s.file)
  BY DEF TypeRight
<1>5. s.src = DocText(s.alias)
  BY <1>3 DEF d
<1>6. s.using /\ ~s.virt /\ s.req.range.kind = "none" /\ s.req # NoRequest /\ RequestOk(s.req)
      /\ Plain(s.req)
  BY <1>1, <1>3 DEF Looked
<1>7. Len(d) \in Int /\ s.src \in Seq(Nat) /\ Len(d) = Len(s.src)
  BY <1>2, <1>3
<1> QED BY <1>1, <1>3, <1>4, <1>5, <1>6, <1>7, AnswerKeeps


\* A path that was looked up.
LEMMA FoundKeeps ==
  ASSUME SendInv, NEW i \in Workers, Looked(w[i]), ~w[i].using, NEW path, NEW names, NEW info,
         names \subseteq Paths \cup VPaths, Found(i, path, info),
         info.there => path \in names /\ fs[path] # NoFile,
         info.there => info.len \in {Len(fs[path]), USING_CHUNKED, UNTIL_CLOSE},
         info.type = get_content_type(path)
  PROVE  SendInv'
<1> DEFINE r == w[i]
           s == [r EXCEPT !.file = path]
           d == [s EXCEPT !.file = IndexOf(path), !.index = TRUE]
           t == [s EXCEPT !.src = fs[path], !.same = TRUE]
<1>1. \/ Goes(i, Failed(s, 404)) \/ Goes(i, d)
      \/ info.there /\ Goes(i, Answer(t, info.len, info.type))
  BY DEF Found
<1>2. Looked(r) /\ ~r.using
  OBVIOUS
<1>9. r = w[i]
  OBVIOUS
<1> HIDE DEF r
<1>3. Looked(s) /\ ~s.using /\ s.file = path
  BY <1>2 DEF Looked, Shape, Blank
<1>4. CASE Goes(i, Failed(s, 404))
  <2> HIDE DEF s
  <2>1. WorkerOk(Failed(s, 404), fs)
    BY <1>3, FailedOk DEF Looked
  <2> QED BY <1>4, <2>1, GoesKeeps DEF Goes, bounds
<1>5. CASE Goes(i, d)
  <2> HIDE DEF s
  <2>1. Looked(d) /\ ~d.using
    BY <1>3 DEF Looked, Shape, Blank
  <2> HIDE DEF d
  <2>2. WorkerOk(d, fs)
    BY <2>1 DEF WorkerOk, Phase, Looked
  <2> QED BY <1>5, <2>2, GoesKeeps DEF Goes, bounds
<1>6. CASE info.there /\ Goes(i, Answer(t, info.len, info.type))
  <2> HIDE DEF s
  <2>1. Looked(t) /\ ~t.using /\ t.file = path /\ t.src = fs[path]
    BY <1>3 DEF Looked, Shape, Blank
  <2> HIDE DEF t
  <2>2. /\ path \in DOMAIN fs /\ path \in Seq(STRING) /\ fs[path] \in Seq(Nat)
    BY <1>6, WebServerConstants DEF SendInv
  <2>3. TypeRight(info.type, path)
    BY <2>2, TypeOfPath
  <2>4. info.len \in Int
    BY <1>6, <2>2 DEF USING_CHUNKED, UNTIL_CLOSE
  <2>5. fs[path] # NoFile /\ info.len \in {Len(fs[path]), USING_CHUNKED, UNTIL_CLOSE}
    BY <1>6
  <2> QED BY <1>6, <2>1, <2>2, <2>3, <2>4, <2>5, AnswerKeeps DEF Looked
<1> QED BY <1>1, <1>4, <1>5, <1>6

LEMMA PostAsked ==
  ASSUME SendInv, NEW i \in Workers, Looked(w[i]), w[i].req.method = "POST",
         Goes(i, Answer(w[i], 0, "none"))
  PROVE  SendInv'
BY AnswerKeeps DEF Looked

LEMMA InfoVirtualKeeps == ASSUME SendInv, NEW i \in Workers, InfoVirtual(i) PROVE SendInv'
<1> DEFINE path == w[i].file
           info == get_file_info(path, VPaths)
<1>1. Looked(w[i]) /\ ~w[i].using
  BY InfoLooked DEF InfoVirtual, Looked
<1>2. \/ w[i].req.method = "POST" /\ Goes(i, Answer(w[i], 0, "none"))
      \/ \E len \in {info.len, USING_CHUNKED, UNTIL_CLOSE} : Found(i, path, [info EXCEPT !.len = len])
      \/ Goes(i, Failed(w[i], 403))
  BY DEF InfoVirtual
<1>3. CASE w[i].req.method = "POST" /\ Goes(i, Answer(w[i], 0, "none"))
  BY <1>1, <1>3, PostAsked
<1>4. ASSUME NEW len \in {info.len, USING_CHUNKED, UNTIL_CLOSE}, Found(i, path, [info EXCEPT !.len = len])
      PROVE  SendInv'
  <2> DEFINE found == [info EXCEPT !.len = len]
  <2>1. /\ found.there => path \in VPaths /\ fs[path] # NoFile /\ info.len = Len(fs[path])
        /\ found.len = len /\ found.type = get_content_type(path)
    BY DEF get_file_info
  <2>2. VPaths \subseteq Paths \cup VPaths
    OBVIOUS
  <2>3. Found(i, path, found)
    BY <1>4
  <2> HIDE DEF found, info, path
  <2> QED BY <1>1, <1>4, <2>1, <2>2, <2>3, FoundKeeps
<1>5. CASE Goes(i, Failed(w[i], 403))
  <2>1. WorkerOk(Failed(w[i], 403), fs)
    BY <1>1, FailedOk DEF Looked
  <2> QED BY <1>5, <2>1, GoesKeeps DEF Goes, bounds
<1> HIDE DEF info, path
<1> QED BY <1>2, <1>3, <1>4, <1>5

LEMMA InfoFileKeeps == ASSUME SendInv, NEW i \in Workers, InfoFile(i) PROVE SendInv'
<1> DEFINE path == NoTrailingSlash(w[i].file)
           info == get_file_info(path, Paths)
<1>1. Looked(w[i]) /\ ~w[i].using
  BY InfoLooked DEF InfoFile
<1>2. \/ Goes(i, Failed(w[i], 500))
      \/ w[i].req.method = "POST" /\ Goes(i, Answer(w[i], 0, "none"))
      \/ Found(i, path, info)
  BY DEF InfoFile
<1>3. CASE Goes(i, Failed(w[i], 500))
  <2>1. WorkerOk(Failed(w[i], 500), fs)
    BY <1>1, FailedOk DEF Looked
  <2> QED BY <1>3, <2>1, GoesKeeps DEF Goes, bounds
<1>4. CASE w[i].req.method = "POST" /\ Goes(i, Answer(w[i], 0, "none"))
  BY <1>1, <1>4, PostAsked
<1>5. CASE Found(i, path, info)
  <2> HIDE DEF path
  <2>1. /\ info.there => path \in Paths /\ fs[path] # NoFile /\ info.len = Len(fs[path])
        /\ info.type = get_content_type(path)
    BY DEF get_file_info
  <2>2. Paths \subseteq Paths \cup VPaths
    OBVIOUS
  <2> HIDE DEF info
  <2> QED BY <1>1, <1>5, <2>1, <2>2, FoundKeeps
<1> QED BY <1>2, <1>3, <1>4, <1>5


LEMMA FailKeeps == ASSUME SendInv, NEW i \in Workers, Fail(i) PROVE SendInv'
<1> DEFINE r == w[i]
           p == [r EXCEPT !.pc = "done"]
<1>1. WorkerOk(r, fs) /\ r.pc = "fail"
  BY DEF SendInv, Fail, Steps
<1>2. w' = [w EXCEPT ![i] = p] /\ UNCHANGED <<fs, gAliasDoc, setter, sets>>
  BY DEF Fail, SendInv, bounds
<1>3. Shape(r) /\ r.req # NoRequest /\ RequestOk(r.req) /\ Plain(r.req) /\ Blank(r) /\ r.code # 200
  BY <1>1 DEF WorkerOk, Phase
<1> HIDE DEF r
<1>4. Shape(p) /\ p.req = r.req /\ Blank(p) /\ p.code # 200 /\ p.pc = "done"
  BY <1>3 DEF Shape, Blank
<1> HIDE DEF p
<1>5. p.req.method = "POST" => Written(p)
  <2>1. p.req.body \in Seq(Nat) /\ SubSeq(p.req.body, 1, 0) = <<>> /\ 0 \in 0 .. Len(p.req.body)
    BY <1>3, <1>4 DEF RequestOk
  <2> QED BY <1>4, <2>1 DEF Written, Blank
<1>6. WorkerOk(p, fs)
  BY <1>3, <1>4, <1>5 DEF WorkerOk, Phase, Blank
<1> QED BY <1>2, <1>6, GoesKeeps

\* What is known of a request whose headers were made.
Heading(r, f) ==
  Shape(r) /\ r.req # NoRequest /\ RequestOk(r.req) /\ Plain(r.req) /\ Headed(r, f)

\* The headers do not change any more.
LEMMA HeadingKept ==
  ASSUME NEW r, NEW f, Heading(r, f), NEW q, Shape(q), q.req = r.req, q.src = r.src, q.head = r.head,
         q.instr = r.instr, q.file = r.file, q.using = r.using, q.alias = r.alias, q.same = r.same
  PROVE  Heading(q, f)
BY DEF Heading, Headed

\* Nothing was sent, and that is all there is to it.
LEMMA NothingSent ==
  ASSUME NEW r, NEW f, Heading(r, f), r.out = <<>>, r.cut \/ r.req.method = "HEAD"
  PROVE  Sent(r)
<1>1. r.out \in Seq(Nat) /\ Len(r.out) = 0
  OBVIOUS
<1>2. r.instr.size \in Int
  BY DEF Heading, Headed, InstrOk
<1> QED BY <1>1, <1>2 DEF Sent

LEMMA SendHeadKeeps == ASSUME SendInv, NEW i \in Workers, SendHead(i) PROVE SendInv'
<1> DEFINE r == w[i]
<1>1. WorkerOk(r, fs) /\ r.pc = "head"
  BY DEF SendInv, SendHead, Steps
<1>2. PICK ok \in BOOLEAN : Goes(i, [r EXCEPT !.pc = AfterHead(r, ok), !.cut = ~ok])
  BY DEF SendHead
<1>3. Heading(r, fs) /\ r.out = <<>>
  BY <1>1 DEF WorkerOk, Phase, Heading
<1> DEFINE a == AfterHead(r, ok)
           p == [r EXCEPT !.pc = a, !.cut = ~ok]
<1>4. \/ a = "done" /\ (r.req.method = "HEAD" \/ ~ok)
      \/ a = "doc" /\ r.using
      \/ a = "release" /\ r.using /\ ~ok
      \/ a = "open" /\ ~r.using
  BY <1>3 DEF AfterHead, Heading, Shape
<1>5. w' = [w EXCEPT ![i] = p] /\ UNCHANGED <<fs, gAliasDoc, setter, sets>>
  BY <1>2 DEF Goes, bounds
<1> HIDE DEF r, a
<1>6. /\ Shape(p) /\ p.req = r.req /\ p.src = r.src /\ p.head = r.head /\ p.instr = r.instr
      /\ p.file = r.file /\ p.using = r.using /\ p.alias = r.alias /\ p.same = r.same
      /\ p.out = <<>> /\ p.pc = a /\ p.cut = ~ok
  BY <1>3 DEF Heading, Shape
<1> HIDE DEF p
<1>7. Heading(p, fs)
  BY <1>3, <1>6, HeadingKept
<1>8. p.pc = "done" => Sent(p)
  BY <1>4, <1>6, <1>7, NothingSent
<1>9. WorkerOk(p, fs)
  BY <1>4, <1>6, <1>7, <1>8 DEF WorkerOk, Phase, Heading
<1> QED BY <1>5, <1>9, GoesKeeps

LEMMA SendDocKeeps == ASSUME SendInv, NEW i \in Workers, SendDoc(i) PROVE SendInv'
<1> DEFINE r == w[i]
           d == DocText(r.alias)
<1>1. WorkerOk(r, fs) /\ r.pc = "doc"
  BY DEF SendInv, SendDoc, Steps
<1>3. Heading(r, fs) /\ r.using /\ r.out = <<>>
  BY <1>1 DEF WorkerOk, Phase, Heading
<1>2. PICK ok \in BOOLEAN : Goes(i, [r EXCEPT !.pc = "release", !.cut = ~ok,
                                              !.out = IF ok THEN d ELSE <<>>])
  BY <1>3 DEF SendDoc
<1> DEFINE p == [r EXCEPT !.pc = "release", !.cut = ~ok, !.out = IF ok THEN d ELSE <<>>]
<1>5. w' = [w EXCEPT ![i] = p] /\ UNCHANGED <<fs, gAliasDoc, setter, sets>>
  BY <1>2 DEF Goes, bounds
<1>9. d = DocText(r.alias)
  OBVIOUS
<1> HIDE DEF r, d
<1>6. /\ Shape(p) /\ p.req = r.req /\ p.src = r.src /\ p.head = r.head /\ p.instr = r.instr
      /\ p.file = r.file /\ p.using = r.using /\ p.alias = r.alias /\ p.same = r.same
      /\ p.out = (IF ok THEN d ELSE <<>>) /\ p.pc = "release" /\ p.cut = ~ok
  BY <1>3 DEF Heading, Shape
<1> HIDE DEF p
<1>7. Heading(p, fs)
  BY <1>3, <1>6, HeadingKept
<1>8. WorkerOk(p, fs)
  BY <1>3, <1>6, <1>7 DEF WorkerOk, Phase, Heading, d
<1> QED BY <1>5, <1>8, GoesKeeps

LEMMA ReleaseKeeps == ASSUME SendInv, NEW i \in Workers, Release(i) PROVE SendInv'
<1> DEFINE r == w[i]
           p == [r EXCEPT !.pc = "done"]
<1>1. WorkerOk(r, fs) /\ r.pc = "release"
  BY DEF SendInv, Release, Steps
<1>2. w' = [w EXCEPT ![i] = p] /\ UNCHANGED <<fs, gAliasDoc, setter, sets>>
  BY DEF Release, SendInv, bounds
<1>3. Heading(r, fs) /\ r.using /\ r.out \in {<<>>, DocText(r.alias)}
      /\ (~r.cut => r.out = DocText(r.alias))
  BY <1>1 DEF WorkerOk, Phase, Heading
<1> HIDE DEF r
<1>4. /\ Shape(p) /\ p.req = r.req /\ p.src = r.src /\ p.head = r.head /\ p.instr = r.instr
      /\ p.file = r.file /\ p.using = r.using /\ p.alias = r.alias /\ p.same = r.same
      /\ p.out = r.out /\ p.pc = "done" /\ p.cut = r.cut
  BY <1>3 DEF Heading, Shape
<1> HIDE DEF p
<1>5. Heading(p, fs)
  BY <1>3, <1>4, HeadingKept
<1>6. Sent(p)
  <2> DEFINE d == DocText(p.alias)
  <2>1. d \in Seq(Nat) /\ Len(d) = 3 /\ SubSeq(d, 1, 3) = d
    <3>1. p.alias \in Nat
      BY <1>4 DEF Shape
    <3>2. d \in Seq(Nat) /\ Len(d) = 3
      BY <3>1 DEF DocText
    <3> QED BY <3>2, SubSeqFull
  <2>6. Headed(p, fs) /\ p.using
    BY <1>3, <1>4, <1>5 DEF Heading
  <2>7. p.src = d /\ p.instr.size = Len(p.src) /\ ~p.instr.range
    BY <2>6 DEF Headed
  <2>8. p.instr.off = 0 /\ (p.instr.chunk => p.instr.size < 0)
    BY <2>6, <2>7 DEF Headed, InstrOk
  <2>3. p.out \in {<<>>, d} /\ (~p.cut => p.out = d)
    BY <1>3, <1>4
  <2> HIDE DEF d
  <2>2. p.src = d /\ p.instr.size = 3 /\ p.instr.off = 0 /\ ~p.instr.chunk
    BY <2>1, <2>7, <2>8
  <2>4. p.out \in Seq(Nat) /\ Len(p.out) <= 3
    <3>1. CASE p.out = <<>>
      BY <3>1
    <3>2. CASE p.out = d
      <4>1. p.out \in Seq(Nat) /\ Len(p.out) = 3
        BY <2>1, <3>2, Zenon
      <4> QED BY <4>1
    <3> QED BY <2>3, <3>1, <3>2
  <2>5. SubSeq(p.src, p.instr.off + 1, p.instr.off + p.instr.size) = d
    BY <2>1, <2>2
  <2> QED BY <2>1, <2>2, <2>3, <2>4, <2>5 DEF Sent
<1>7. WorkerOk(p, fs)
  BY <1>4, <1>5, <1>6 DEF WorkerOk, Phase, Heading
<1> QED BY <1>2, <1>7, GoesKeeps


LEMMA LesserOf ==
  ASSUME NEW a \in Int, NEW b \in Int
  PROVE  Lesser(a, b) \in {a, b} /\ Lesser(a, b) <= a /\ Lesser(a, b) <= b
BY DEF Lesser

\* The slice that the headers promise is one of the document.
LEMMA SliceOk ==
  ASSUME NEW r, NEW f, Headed(r, f)
  PROVE  /\ r.instr.off \in Nat /\ r.instr.size \in Int /\ r.src \in Seq(Nat)
         /\ r.instr.size >= 0 => ~r.instr.chunk /\ r.instr.off + r.instr.size <= Len(r.src)
         /\ r.instr.off <= Len(r.src)
<1>1. PICK len \in {Len(r.src), USING_CHUNKED, UNTIL_CLOSE} : InstrOk(r.req.range, r.instr, len)
  BY DEF Headed
<1>2. r.src \in Seq(Nat) /\ Len(r.src) \in Nat
  BY DEF Headed
<1>3. len \in Int /\ (len >= 0 => len = Len(r.src))
  BY <1>1, <1>2 DEF USING_CHUNKED, UNTIL_CLOSE
<1> QED BY <1>1, <1>2, <1>3 DEF InstrOk

LEMMA OpenKeeps == ASSUME SendInv, NEW i \in Workers, Open(i) PROVE SendInv'
<1> DEFINE r == w[i]
           n == r.instr.size
           lost == [r EXCEPT !.pc = "done", !.cut = TRUE]
           pos == IF r.instr.range THEN r.instr.off ELSE 0
           left == IF n >= 0 THEN n ELSE BufSize
           buf == IF n >= 0 THEN Lesser(n, BufSize) ELSE BufSize
           p == [r EXCEPT !.pc = "copy", !.pos = pos, !.left = left, !.buf = buf]
<1>1. WorkerOk(r, fs) /\ r.pc = "open"
  BY DEF SendInv, Open, Steps
<1>2. Goes(i, lost) \/ Goes(i, p)
  BY DEF Open
<1>3. Heading(r, fs) /\ ~r.using /\ r.out = <<>>
  BY <1>1 DEF WorkerOk, Phase, Heading
<1> HIDE DEF r, pos, left, buf
<1>4. CASE Goes(i, lost)
  <2>1. /\ Shape(lost) /\ lost.req = r.req /\ lost.src = r.src /\ lost.head = r.head
        /\ lost.instr = r.instr /\ lost.file = r.file /\ lost.using = r.using
        /\ lost.alias = r.alias /\ lost.same = r.same
        /\ lost.out = <<>> /\ lost.pc = "done" /\ lost.cut
    BY <1>3 DEF Heading, Shape
  <2> HIDE DEF lost
  <2>2. Heading(lost, fs)
    BY <1>3, <2>1, HeadingKept
  <2>3. Sent(lost)
    BY <2>1, <2>2, NothingSent
  <2>4. WorkerOk(lost, fs)
    BY <2>1, <2>2, <2>3 DEF WorkerOk, Phase, Heading
  <2> QED BY <1>4, <2>4, GoesKeeps DEF Goes, bounds
<1>5. CASE Goes(i, p)
  <2>1. /\ Shape(p) /\ p.req = r.req /\ p.src = r.src /\ p.head = r.head
        /\ p.instr = r.instr /\ p.file = r.file /\ p.using = r.using
        /\ p.alias = r.alias /\ p.same = r.same
        /\ p.out = <<>> /\ p.pc = "copy" /\ p.pos = pos /\ p.left = left /\ p.buf = buf
    BY <1>3 DEF Heading, Shape
  <2> HIDE DEF p
  <2>2. Heading(p, fs)
    BY <1>3, <2>1, HeadingKept
  <2>3. Copying(p)
    <3>1. /\ p.instr.off \in Nat /\ p.instr.size \in Int /\ p.src \in Seq(Nat)
          /\ p.instr.off <= Len(p.src) /\ Len(p.src) \in Nat
      BY <2>2, SliceOk DEF Heading
    <3>2. p.pos = p.instr.off
      BY <2>1, <2>2 DEF pos, Heading, Headed, InstrOk
    <3>3. p.out \in Seq(Nat) /\ Len(p.out) = 0 /\ p.out = SubSeq(p.src, p.instr.off + 1, p.instr.off)
      BY <2>1, <3>1
    <3>4. p.left = (IF p.instr.size >= 0 THEN p.instr.size ELSE BufSize)
          /\ p.buf = (IF p.instr.size >= 0 THEN Lesser(p.instr.size, BufSize) ELSE BufSize)
      BY <2>1 DEF left, buf
    <3>5. p.pos \in Nat /\ p.pos >= p.instr.off /\ p.out \in Seq(Nat)
          /\ Len(p.out) = p.pos - p.instr.off
      BY <3>1, <3>2, <3>3
    <3>6. p.instr.size >= 0 => p.left = p.instr.size - Len(p.out) /\ p.left >= 0
      BY <3>1, <3>3, <3>4
    <3>7. p.same => p.pos <= Len(p.src) /\ p.out = SubSeq(p.src, p.instr.off + 1, p.pos)
      BY <3>1, <3>2, <3>3
    <3>8. p.instr.size >= 0 => p.buf = Lesser(p.instr.size, BufSize)
      BY <3>4
    <3>9. p.instr.size < 0 => p.left = BufSize /\ p.buf = BufSize
      BY <3>1, <3>4
    <3> QED BY <3>5, <3>6, <3>7, <3>8, <3>9 DEF Copying
  <2>4. WorkerOk(p, fs)
    BY <1>3, <2>1, <2>2, <2>3 DEF WorkerOk, Phase, Heading
  <2> QED BY <1>5, <2>4, GoesKeeps DEF Goes, bounds
<1> QED BY <1>2, <1>4, <1>5


\* One read and one write of a copy.
LEMMA CopyKeeps == ASSUME SendInv, NEW i \in Workers, Copy(i) PROVE SendInv'
<1> DEFINE r == w[i]
           text == IF fs[r.file] = NoFile THEN r.src ELSE fs[r.file]
           rest == IF r.pos > Len(text) THEN 0 ELSE Len(text) - r.pos
           most == Lesser(Wanted(r), rest)
           n == r.instr.size
           at == r.instr.off
<1>1. WorkerOk(r, fs) /\ r.pc = "copy"
  BY DEF SendInv, Copy, Steps
<1>2. Heading(r, fs) /\ ~r.using /\ Copying(r) /\ Headed(r, fs)
  BY <1>1 DEF WorkerOk, Phase, Heading
<1>3. /\ at \in Nat /\ n \in Int /\ r.src \in Seq(Nat) /\ at <= Len(r.src) /\ Len(r.src) \in Nat
      /\ n >= 0 => ~r.instr.chunk /\ at + n <= Len(r.src)
  BY <1>2, SliceOk
<1>4. /\ text \in Seq(Nat) /\ Len(text) \in Nat
      /\ r.same => text = r.src
  <2>1. fs[r.file] \in Seq(Nat) /\ (r.same => fs[r.file] = r.src /\ fs[r.file] # NoFile)
    BY <1>2 DEF Headed, SendInv
  <2>2. text \in Seq(Nat) /\ (r.same => text = r.src)
    BY <1>3, <2>1
  <2> QED BY <2>2
<1>5. /\ r.pos \in Nat /\ r.pos >= at /\ r.out \in Seq(Nat) /\ Len(r.out) = r.pos - at
      /\ n >= 0 => r.left = n - Len(r.out) /\ r.left >= 0 /\ r.buf = Lesser(n, BufSize)
      /\ n < 0 => r.left = BufSize /\ r.buf = BufSize
      /\ r.same => r.pos <= Len(r.src) /\ r.out = SubSeq(r.src, at + 1, r.pos)
  BY <1>2 DEF Copying
<1>6. BufSize \in Nat /\ BufSize > 0
  BY WebServerConstants
<1>7. r.left \in Nat /\ r.buf \in Nat /\ (r.left > 0 => r.buf > 0) /\ (n >= 0 => r.left = n - Len(r.out))
  <2>1. Len(r.out) \in Nat
    BY <1>5
  <2>2. CASE n >= 0
    <3>1. r.left = n - Len(r.out) /\ r.left >= 0 /\ r.buf \in {n, BufSize}
      BY <1>3, <1>5, <1>6, <2>2, LesserOf
    <3> QED BY <1>3, <1>6, <2>1, <2>2, <3>1
  <2>3. CASE n < 0
    <3>1. r.left = BufSize /\ r.buf = BufSize
      BY <1>5, <2>3
    <3> QED BY <1>3, <1>6, <2>3, <3>1
  <2> QED BY <1>3, <2>2, <2>3
<1>15. r.pos \in Nat /\ r.pos >= at /\ r.out \in Seq(Nat) /\ Len(r.out) \in Nat
       /\ Len(r.out) = r.pos - at
  BY <1>5
<1>8. \/ r.left = 0 /\ Goes(i, [r EXCEPT !.pc = "done"])
      \/ r.left # 0 /\ most = 0 /\ Goes(i, [r EXCEPT !.pc = "done", !.end = r.instr.chunk])
      \/ /\ r.left # 0 /\ most > 0
         /\ \E k \in IF r.virt THEN 1 .. most ELSE {most}, ok \in BOOLEAN :
              Goes(i, [r EXCEPT !.pc = IF ok THEN "copy" ELSE "done", !.cut = ~ok,
                                !.pos = @ + k, !.left = IF r.instr.size < 0 THEN BufSize ELSE @ - k,
                                !.out = IF ok THEN @ \o SubSeq(text, r.pos + 1, r.pos + k) ELSE @])
  BY DEF Copy
<1> HIDE DEF r, text
<1>9. rest \in Nat /\ (rest = 0 => r.pos >= Len(text)) /\ (rest > 0 => r.pos + rest = Len(text))
  BY <1>4, <1>5
<1> HIDE DEF rest
<1>10. most \in Nat /\ most <= r.left /\ most <= rest /\ (most = 0 /\ r.left > 0 => rest = 0)
  BY <1>7, <1>9, LesserOf DEF Wanted, Lesser
<1> HIDE DEF most
<1>11. CASE r.left = 0 /\ Goes(i, [r EXCEPT !.pc = "done"])
  <2> DEFINE p == [r EXCEPT !.pc = "done"]
  <2>1. /\ Shape(p) /\ p.req = r.req /\ p.src = r.src /\ p.head = r.head
        /\ p.instr = r.instr /\ p.file = r.file /\ p.using = r.using
        /\ p.alias = r.alias /\ p.same = r.same /\ p.out = r.out /\ p.pc = "done"
    BY <1>2 DEF Heading, Shape
  <2>9. Goes(i, p)
    BY <1>11
  <2> HIDE DEF p
  <2>2. Heading(p, fs)
    BY <1>2, <2>1, HeadingKept
  <2>3. n >= 0 /\ Len(r.out) = n /\ r.pos = at + n
    BY <1>3, <1>5, <1>6, <1>11
  <2>4. Sent(p)
    BY <1>3, <1>5, <2>1, <2>3 DEF Sent
  <2>5. WorkerOk(p, fs)
    BY <2>1, <2>2, <2>4 DEF WorkerOk, Phase, Heading
  <2> QED BY <2>5, <2>9, GoesKeeps DEF Goes, bounds
<1>12. CASE r.left # 0 /\ most = 0 /\ Goes(i, [r EXCEPT !.pc = "done", !.end = r.instr.chunk])
  <2> DEFINE p == [r EXCEPT !.pc = "done", !.end = r.instr.chunk]
  <2>0. r.instr.chunk \in BOOLEAN
    BY <1>2 DEF Headed, InstrOk
  <2>1. /\ Shape(p) /\ p.req = r.req /\ p.src = r.src /\ p.head = r.head
        /\ p.instr = r.instr /\ p.file = r.file /\ p.using = r.using
        /\ p.alias = r.alias /\ p.same = r.same /\ p.out = r.out /\ p.pc = "done"
        /\ p.end = r.instr.chunk
    BY <1>2, <2>0 DEF Heading, Shape
  <2>9. Goes(i, p)
    BY <1>12
  <2> HIDE DEF p
  <2>2. Heading(p, fs)
    BY <1>2, <2>1, HeadingKept
  <2>3. n >= 0 => Len(r.out) <= n
    BY <1>3, <1>5, <1>7
  <2>4. r.same => n < 0 /\ r.pos = Len(r.src)
    <3>1. r.same => r.pos = Len(r.src)
      BY <1>3, <1>4, <1>5, <1>7, <1>9, <1>10, <1>12
    <3>2. n >= 0 => r.pos < at + n
      BY <1>3, <1>5, <1>7, <1>12
    <3> QED BY <1>3, <1>5, <3>1, <3>2
  <2>5. Sent(p)
    BY <1>3, <1>5, <2>1, <2>3, <2>4 DEF Sent
  <2>6. WorkerOk(p, fs)
    BY <2>1, <2>2, <2>5 DEF WorkerOk, Phase, Heading
  <2> QED BY <2>6, <2>9, GoesKeeps DEF Goes, bounds
<1>13. ASSUME r.left # 0, most > 0, NEW k \in 1 .. most, NEW ok \in BOOLEAN,
              Goes(i, [r EXCEPT !.pc = IF ok THEN "copy" ELSE "done", !.cut = ~ok,
                                !.pos = @ + k, !.left = IF r.instr.size < 0 THEN BufSize ELSE @ - k,
                                !.out = IF ok THEN @ \o SubSeq(text, r.pos + 1, r.pos + k) ELSE @])
       PROVE  SendInv'
  <2> DEFINE read == SubSeq(text, r.pos + 1, r.pos + k)
             pc == IF ok THEN "copy" ELSE "done"
             left == IF r.instr.size < 0 THEN BufSize ELSE r.left - k
             out == IF ok THEN r.out \o read ELSE r.out
             pos == r.pos + k
             p == [r EXCEPT !.pc = pc, !.cut = ~ok, !.pos = pos, !.left = left, !.out = out]
  <2>9. Goes(i, p)
    BY <1>2, <1>13 DEF Heading, Shape
  <2> HIDE DEF pc, left, out, pos
  <2>1. /\ Shape(p) /\ p.req = r.req /\ p.src = r.src /\ p.head = r.head
        /\ p.instr = r.instr /\ p.file = r.file /\ p.using = r.using
        /\ p.alias = r.alias /\ p.same = r.same /\ p.out = out /\ p.pc = pc
        /\ p.cut = ~ok /\ p.pos = pos /\ p.left = left /\ p.buf = r.buf
    BY <1>2 DEF Heading, Shape
  <2> HIDE DEF p
  <2>2. Heading(p, fs)
    BY <1>2, <2>1, HeadingKept
  <2>3. k \in Nat /\ k >= 1 /\ k <= r.left /\ r.pos + k <= Len(text)
    BY <1>4, <1>15, <1>7, <1>9, <1>10, <1>13
  <2>4. CASE ok
    <3>1. read \in Seq(Nat) /\ Len(read) = k
      <4>1. \A j \in r.pos + 1 .. r.pos + k : text[j] \in Nat
        BY <1>4, <1>15, <2>3
      <4> QED BY <1>15, <2>3, <4>1, SubSeqProperties
    <3> HIDE DEF read
    <3>2. out \in Seq(Nat) /\ Len(out) = Len(r.out) + k /\ out = r.out \o read
      <4>1. out = r.out \o read
        BY <2>4 DEF out
      <4> QED BY <1>15, <3>1, <4>1, ConcatProperties
    <3>3. r.same => out = SubSeq(r.src, at + 1, pos) /\ pos <= Len(r.src)
      <4>1. SUFFICES ASSUME r.same PROVE out = SubSeq(r.src, at + 1, pos) /\ pos <= Len(r.src)
        OBVIOUS
      <4>2. text = r.src /\ r.out = SubSeq(r.src, at + 1, r.pos) /\ r.pos <= Len(r.src)
        BY <1>4, <1>5, <4>1
      <4>3. at + 1 \in 1 .. Len(r.src) + 1 /\ r.pos \in (at + 1) - 1 .. Len(r.src)
            /\ pos \in r.pos .. Len(r.src)
        <5>1. pos = r.pos + k /\ r.pos + k <= Len(r.src) /\ r.pos \in Nat /\ k \in Nat
          BY <1>15, <2>3, <4>2 DEF pos
        <5>2. at \in Nat /\ at <= r.pos /\ Len(r.src) \in Nat
          BY <1>3, <1>15
        <5> QED BY <5>1, <5>2
      <4>4. SubSeq(r.src, at + 1, r.pos) \o SubSeq(r.src, r.pos + 1, pos) = SubSeq(r.src, at + 1, pos)
        BY <1>3, <4>3, ConcatAdjacentSubSeq
      <4>5. read = SubSeq(r.src, r.pos + 1, pos)
        BY <4>2 DEF read, pos
      <4>6. pos <= Len(r.src)
        BY <4>3
      <4> QED BY <3>2, <4>2, <4>4, <4>5, <4>6
    <3>4. pos \in Nat /\ pos >= at /\ Len(out) = pos - at
      <4>1. pos = r.pos + k
        BY DEF pos
      <4>2. Len(out) = (r.pos - at) + k
        BY <1>15, <3>2
      <4>3. at \in Nat /\ r.pos \in Nat /\ at <= r.pos /\ k \in Nat
        BY <1>3, <1>15, <2>3
      <4> QED BY <4>1, <4>2, <4>3
    <3>5. /\ n >= 0 => left = n - Len(out) /\ left >= 0
          /\ n < 0 => left = BufSize
      <4>1. left = IF n < 0 THEN BufSize ELSE r.left - k
        BY DEF left
      <4>2. Len(out) = Len(r.out) + k /\ Len(r.out) \in Nat
        BY <1>15, <3>2
      <4>3. (n >= 0 => r.left = n - Len(r.out)) /\ k <= r.left /\ k \in Nat /\ r.left \in Nat /\ n \in Int
        BY <1>3, <1>7, <2>3
      <4> QED BY <4>1, <4>2, <4>3
    <3>6. Copying(p)
      BY <1>5, <2>1, <3>2, <3>3, <3>4, <3>5 DEF Copying
    <3>7. p.pc = "copy"
      BY <2>1, <2>4 DEF pc
    <3>8. WorkerOk(p, fs)
      BY <1>2, <2>1, <2>2, <3>6, <3>7 DEF WorkerOk, Phase, Heading
    <3> QED BY <2>9, <3>8, GoesKeeps DEF Goes, bounds
  <2>5. CASE ~ok
    <3>1. p.pc = "done" /\ p.cut /\ p.out = r.out
      BY <2>1, <2>5 DEF pc, out
    <3>2. n >= 0 => Len(r.out) <= n
      BY <1>3, <1>5, <1>7
    <3>3. Sent(p)
      BY <1>3, <1>5, <2>1, <3>1, <3>2 DEF Sent
    <3>4. WorkerOk(p, fs)
      BY <2>1, <2>2, <3>1, <3>3 DEF WorkerOk, Phase, Heading
    <3> QED BY <2>9, <3>4, GoesKeeps DEF Goes, bounds
  <2> QED BY <2>4, <2>5
<1>14. ASSUME r.left # 0, most > 0,
              \E k \in IF r.virt THEN 1 .. most ELSE {most}, ok \in BOOLEAN :
                Goes(i, [r EXCEPT !.pc = IF ok THEN "copy" ELSE "done", !.cut = ~ok,
                                  !.pos = @ + k, !.left = IF r.instr.size < 0 THEN BufSize ELSE @ - k,
                                  !.out = IF ok THEN @ \o SubSeq(text, r.pos + 1, r.pos + k) ELSE @])
       PROVE  SendInv'
  <2>1. (IF r.virt THEN 1 .. most ELSE {most}) \subseteq 1 .. most
    BY <1>10, <1>14
  <2> QED BY <1>13, <1>14, <2>1
<1> QED BY <1>8, <1>11, <1>12, <1>14


-----------------------------------------------------------------------------
(* Receiving *)

\* What is known of a POST.
Posting(r) ==
  Shape(r) /\ r.req # NoRequest /\ RequestOk(r.req) /\ Plain(r.req) /\ Written(r)

Ended(r, code) == [r EXCEPT !.pc = "done", !.code = code]

LEMMA EndedOk ==
  ASSUME NEW r, Posting(r), NEW code, code # 200, NEW f
  PROVE  WorkerOk(Ended(r, code), f)
<1> DEFINE e == Ended(r, code)
<1>1. Posting(e) /\ e.pc = "done" /\ e.code = code
  BY DEF Posting, Shape, Written, Ended
<1> HIDE DEF e
<1>2. WorkerOk(e, f)
  BY <1>1 DEF WorkerOk, Phase, Posting
<1> QED BY <1>2 DEF e

LEMMA PostOpensKeeps == ASSUME SendInv, NEW i \in Workers, PostOpens(i) PROVE SendInv'
<1> DEFINE r == w[i]
           p == [r EXCEPT !.pc = "recv"]
<1>1. WorkerOk(r, fs) /\ r.pc = "post"
  BY DEF SendInv, PostOpens, Steps
<1>2. Posting(r) /\ r.have \in r.pos .. Len(r.req.body) /\ r.buf \in Nat
  BY <1>1 DEF WorkerOk, Phase, Posting
<1>3. Goes(i, Ended(r, 404)) \/ Goes(i, p) \/ Goes(i, Ended(r, 500))
  BY DEF PostOpens, Ended
<1> HIDE DEF r
<1>4. ASSUME NEW code, code # 200, Goes(i, Ended(r, code)) PROVE SendInv'
  <2>1. WorkerOk(Ended(r, code), fs)
    BY <1>2, <1>4, EndedOk
  <2> QED BY <1>4, <2>1, GoesKeeps DEF Goes, bounds
<1>5. CASE Goes(i, p)
  <2>1. Posting(p) /\ p.pc = "recv" /\ p.have = r.have /\ p.pos = r.pos /\ p.req = r.req /\ p.buf = r.buf
    BY <1>2 DEF Posting, Shape, Written
  <2> HIDE DEF p
  <2>2. WorkerOk(p, fs)
    BY <1>2, <2>1 DEF WorkerOk, Phase, Posting
  <2> QED BY <1>5, <2>2, GoesKeeps DEF Goes, bounds
<1> HIDE DEF p
<1> QED BY <1>3, <1>4, <1>5

LEMMA PostReceivesKeeps == ASSUME SendInv, NEW i \in Workers, PostReceives(i) PROVE SendInv'
<1> DEFINE r == w[i]
           More(k) == [r EXCEPT !.have = @ + k]
<1>1. WorkerOk(r, fs) /\ r.pc = "recv"
  BY DEF SendInv, PostReceives, Steps
<1>2. Posting(r) /\ r.have \in r.pos .. Len(r.req.body) /\ r.buf \in Nat /\ r.pos \in Nat
      /\ Len(r.req.body) \in Nat
  BY <1>1 DEF WorkerOk, Phase, Posting, Written, RequestOk
<1>3. \/ \E k \in 1 .. Len(r.req.body) - r.have : Goes(i, More(k))
      \/ \E code \in {400, 503} : Goes(i, Ended(r, code))
  BY DEF PostReceives, Ended
<1> HIDE DEF r
<1>4. ASSUME NEW k \in 1 .. Len(r.req.body) - r.have, Goes(i, More(k))
      PROVE  SendInv'
  <2> DEFINE have == r.have + k
             p == [r EXCEPT !.have = have]
  <2>1. Goes(i, p)
    BY <1>2, <1>4 DEF Posting, Shape
  <2>2. have \in r.pos .. Len(r.req.body)
    BY <1>2, <1>4
  <2> HIDE DEF have
  <2>3. Posting(p) /\ p.pc = r.pc /\ p.have = have /\ p.pos = r.pos /\ p.req = r.req /\ p.buf = r.buf
    BY <1>2 DEF Posting, Shape, Written
  <2> HIDE DEF p
  <2>4. p.pc = "recv"
    BY <1>1, <2>3 DEF r
  <2>5. WorkerOk(p, fs)
    BY <1>2, <2>2, <2>3, <2>4 DEF WorkerOk, Phase, Posting
  <2> QED BY <2>1, <2>5, GoesKeeps DEF Goes, bounds
<1>5. ASSUME NEW code \in {400, 503}, Goes(i, Ended(r, code)) PROVE SendInv'
  <2>1. WorkerOk(Ended(r, code), fs)
    BY <1>2, <1>5, EndedOk
  <2> QED BY <1>5, <2>1, GoesKeeps DEF Goes, bounds
<1> HIDE DEF More
<1> QED BY <1>3, <1>4, <1>5

LEMMA PostWritesKeeps == ASSUME SendInv, NEW i \in Workers, PostWrites(i) PROVE SendInv'
<1> DEFINE r == w[i]
           body == r.req.body
           n == PostSize(r)
           at == r.pos + n
           pc == IF Complete(r) /\ at = r.have THEN "done" ELSE "recv"
           out == r.out \o SubSeq(body, r.pos + 1, Lesser(at, Len(body)))
           p == [r EXCEPT !.pc = pc, !.code = 200, !.pos = at, !.buf = n, !.out = out]
           e == Ended(r, 500)
<1>1. WorkerOk(r, fs) /\ r.pc = "recv" /\ ~NeedsMore(r)
  BY DEF SendInv, PostWrites, Steps
<1>2. Posting(r) /\ r.have \in r.pos .. Len(body) /\ r.buf \in Nat /\ r.pos \in Nat
      /\ Len(body) \in Nat /\ body \in Seq(Nat) /\ r.out = SubSeq(body, 1, r.pos)
  BY <1>1 DEF WorkerOk, Phase, Posting, Written, RequestOk
<1>3. Goes(i, p) \/ Goes(i, e)
  BY <1>2 DEF PostWrites, Posting, Shape, Ended
<1>4. n \in Nat /\ at \in r.pos .. r.have
  BY <1>1, <1>2 DEF PostSize, NeedsMore
<1>5. pc = "done" => at = Len(body)
  BY <1>2, <1>4 DEF Complete
<1>6. out = SubSeq(body, 1, at)
  <2>1. Lesser(at, Len(body)) = at
    BY <1>2, <1>4 DEF Lesser
  <2>2. SubSeq(body, 1, r.pos) \o SubSeq(body, r.pos + 1, at) = SubSeq(body, 1, at)
    <3> HIDE DEF at, n, r, body
    <3>1. 1 \in 1 .. Len(body) + 1 /\ r.pos \in 1 - 1 .. Len(body) /\ at \in r.pos .. Len(body)
      BY <1>2, <1>4
    <3> QED BY <1>2, <3>1, ConcatAdjacentSubSeq
  <2> QED BY <1>2, <2>1, <2>2
<1>7. pc \in {"done", "recv"}
  OBVIOUS
<1>20. body = r.req.body
  OBVIOUS
<1> HIDE DEF r, pc, out, at, n, body
<1>8. CASE Goes(i, p)
  <2>1. /\ Shape(p) /\ p.req = r.req /\ p.head = r.head /\ p.pos = at /\ p.out = out /\ p.pc = pc
        /\ p.code = 200 /\ p.buf = n /\ p.have = r.have
    BY <1>2 DEF Posting, Shape
  <2> HIDE DEF p
  <2>2. at \in 0 .. Len(body) /\ r.have \in at .. Len(body)
    BY <1>2, <1>4
  <2>3. Written(p)
    <3>1. p.req.method = "POST" /\ p.head = NoHead /\ p.req.body = body
      BY <1>2, <1>20, <2>1 DEF Posting, Written
    <3> QED BY <1>6, <2>1, <2>2, <3>1 DEF Written
  <2>4. WorkerOk(p, fs)
    <3>1. p.have \in p.pos .. Len(p.req.body) /\ p.buf \in Nat
      BY <1>4, <1>20, <2>1, <2>2
    <3>2. p.pc = "done" => p.pos = Len(p.req.body)
      BY <1>5, <1>20, <2>1
    <3> QED BY <1>2, <1>7, <2>1, <2>3, <3>1, <3>2 DEF WorkerOk, Phase, Posting
  <2> QED BY <1>8, <2>4, GoesKeeps DEF Goes, bounds
<1>9. CASE Goes(i, e)
  <2>1. WorkerOk(e, fs)
    BY <1>2, EndedOk
  <2> HIDE DEF e
  <2> QED BY <1>9, <2>1, GoesKeeps DEF Goes, bounds
<1> QED BY <1>3, <1>8, <1>9


-----------------------------------------------------------------------------
(* The steps that are not a request's own *)

\* Which configuration the request has seen does not matter for what is sent,
\* and neither does what becomes of a file that is not its own.
LEMMA NotCalm == ASSUME NEW r, NEW f, WorkerOk(r, f) PROVE WorkerOk([r EXCEPT !.calm = FALSE], f)
<1> DEFINE q == [r EXCEPT !.calm = FALSE]
<1>1. /\ Shape(q) /\ q.pc = r.pc /\ q.req = r.req /\ q.file = r.file /\ q.virt = r.virt
      /\ q.alias = r.alias /\ q.using = r.using /\ q.instr = r.instr /\ q.code = r.code
      /\ q.head = r.head /\ q.pos = r.pos /\ q.left = r.left /\ q.out = r.out /\ q.end = r.end
      /\ q.have = r.have /\ q.buf = r.buf /\ q.same = r.same /\ q.cut = r.cut /\ q.src = r.src
  BY DEF WorkerOk, Shape
<1> HIDE DEF q
<1>2. Phase(q, f)
  BY <1>1 DEF WorkerOk, Phase, Blank, Written, Headed, Copying, Sent
<1>3. WorkerOk(q, f)
  BY <1>1, <1>2 DEF WorkerOk
<1> QED BY <1>3 DEF q

LEMMA CalmKeeps ==
  ASSUME SendInv, w' = [j \in Workers |-> [w[j] EXCEPT !.calm = FALSE]], fs' = fs, NamesKnown'
  PROVE  SendInv'
<1>1. \A j \in Workers : WorkerOk(w'[j], fs')
  BY NotCalm DEF SendInv
<1>2. w' = [j \in Workers |-> w'[j]] /\ fs' \in [Paths \cup VPaths -> Seq(Nat)]
  BY DEF SendInv
<1> QED BY <1>1, <1>2 DEF SendInv

LEMMA SetAliasReleasesKeeps ==
  ASSUME SendInv, NEW name, NEW loc, SetAliasReleases(name, loc),
         sets' \in {sets, sets + 1}, name # NoText => WithSlash(name) \in AliasNames
  PROVE  SendInv'
<1>1. gAliasDoc' \in {gAliasDoc, NoAlias} /\ sets' \in {sets, sets + 1}
  BY DEF SetAliasReleases
<1>2. setter' = [pc |-> IF name = NoText THEN "none" ELSE "assign", name |-> name, loc |-> loc]
  BY DEF SetAliasReleases
<1>3. NamesKnown'
  <2>1. NamesKnown /\ (Valid(gAliasDoc)' => Valid(gAliasDoc) /\ gAliasDoc' = gAliasDoc)
    BY <1>1 DEF Valid, NoAlias, NoDoc, SendInv
  <2>2. sets' \in Nat /\ gAliasDoc'.doc \in Nat
    BY <1>1, <2>1 DEF NamesKnown, NoAlias, NoDoc
  <2>3. AliasNames' = AliasNames
    BY DEF AliasNames, Configured
  <2>4. setter'.pc = "assign" => WithSlash(setter'.name) \in AliasNames
    BY <1>2
  <2>5. setter' \in [pc : {setter'.pc}, name : {setter'.name}, loc : {setter'.loc}]
    BY <1>2
  <2> QED BY <2>1, <2>2, <2>3, <2>4, <2>5 DEF NamesKnown
<1> QED BY <1>3, CalmKeeps DEF SetAliasReleases

LEMMA RegisterKeeps == ASSUME SendInv, Register PROVE SendInv'
<1>1. PICK d \in Descs :
        LET c == configure_urlbase(d.base, d.alias, "8080")
        IN c.ok /\ SetAliasReleases(c.name, http_FixUrl(c.descURL).pathquery)
  BY DEF Register
<1> DEFINE c == configure_urlbase(d.base, d.alias, "8080")
<1>2. c \in Configured /\ c.ok /\ SetAliasReleases(c.name, http_FixUrl(c.descURL).pathquery)
  BY <1>1 DEF Configured
<1> HIDE DEF c
<1>3. WithSlash(c.name) \in AliasNames
  BY <1>2 DEF AliasNames
<1> QED BY <1>2, <1>3, SetAliasReleasesKeeps DEF Register

LEMMA UnregisterKeeps == ASSUME SendInv, Unregister PROVE SendInv'
BY SetAliasReleasesKeeps DEF Unregister

LEMMA AssignKeeps == ASSUME SendInv, SetAliasAssigns PROVE SendInv'
<1>1. /\ gAliasDoc' = [doc |-> sets, name |-> WithSlash(setter.name)] /\ sets' = sets
      /\ setter' = [setter EXCEPT !.pc = "none", !.loc = NoText] /\ setter.pc = "assign"
  BY DEF SetAliasAssigns
<1>2. NamesKnown'
  <2>1. AliasNames' = AliasNames
    BY DEF AliasNames, Configured
  <2>2. /\ setter'.pc = "none"
        /\ setter' \in [pc : {setter'.pc}, name : {setter'.name}, loc : {setter'.loc}]
    BY <1>1 DEF SendInv, NamesKnown
  <2>3. gAliasDoc'.doc \in Nat /\ gAliasDoc'.name \in AliasNames /\ sets' \in Nat
    BY <1>1 DEF SendInv, NamesKnown
  <2> QED BY <2>1, <2>2, <2>3 DEF NamesKnown
<1> QED BY <1>2, CalmKeeps DEF SetAliasAssigns

\* A step that leaves the requests and the files alone.
LEMMA AsideKeeps ==
  ASSUME SendInv, UNCHANGED <<w, fs, setter, sets>>, gAliasDoc' \in {gAliasDoc, NoAlias}
  PROVE  SendInv'
<1>1. NamesKnown /\ (Valid(gAliasDoc)' => Valid(gAliasDoc) /\ gAliasDoc' = gAliasDoc)
  BY DEF Valid, NoAlias, NoDoc, SendInv
<1>2. sets' \in Nat /\ gAliasDoc'.doc \in Nat
  BY <1>1 DEF NamesKnown, NoAlias, NoDoc
<1>3. AliasNames' = AliasNames
  BY DEF AliasNames, Configured
<1>4. NamesKnown'
  BY <1>1, <1>2, <1>3 DEF NamesKnown
<1> QED BY <1>4 DEF SendInv

LEMMA DestroyKeeps == ASSUME SendInv, web_server_destroy PROVE SendInv'
<1>1. gAliasDoc' = NoAlias /\ UNCHANGED <<setter, sets>>
  BY DEF web_server_destroy
<1>2. NamesKnown'
  BY <1>1 DEF SendInv, NamesKnown, Valid, NoAlias, NoDoc, AliasNames, Configured
<1> QED BY <1>2, CalmKeeps DEF web_server_destroy

LEMMA VirtualDirsKeep ==
  ASSUME SendInv, UpnpAddVirtualDir \/ UpnpRemoveVirtualDir \/ UpnpRemoveAllVirtualDirs
  PROVE  SendInv'
<1>1. /\ w' = [j \in Workers |-> [w[j] EXCEPT !.calm = FALSE]]
      /\ UNCHANGED <<fs, gAliasDoc, setter, sets>>
  BY DEF UpnpAddVirtualDir, UpnpRemoveVirtualDir, UpnpRemoveAllVirtualDirs
<1>2. NamesKnown'
  BY <1>1 DEF SendInv, NamesKnown, Valid, AliasNames, Configured
<1> QED BY <1>1, <1>2, CalmKeeps

LEMMA ArriveKeeps == ASSUME SendInv, NEW i \in Workers, Arrive(i) PROVE SendInv'
<1> DEFINE req == w[i].req
           p == [Idle EXCEPT !.pc = "look", !.req = req, !.loc = location]
<1>1. WorkerOk(w[i], fs) /\ req # NoRequest
  BY DEF SendInv, Arrive
<1>2. w' = [w EXCEPT ![i] = p] /\ UNCHANGED <<fs, gAliasDoc, setter, sets>>
  BY DEF Arrive
<1>3. RequestOk(req) /\ Plain(req)
  BY <1>1 DEF WorkerOk
<1> HIDE DEF req
<1>4. /\ Shape(p) /\ p.req = req /\ Blank(p) /\ ~p.virt /\ ~p.using /\ p.pc = "look"
      /\ p.have = 0 /\ p.buf = BufSize /\ p.code = 0
  BY DEF Idle, Shape, Blank, NoDoc
<1> HIDE DEF p
<1>5. WorkerOk(p, fs)
  BY <1>1, <1>3, <1>4 DEF WorkerOk, Phase, req
<1> QED BY <1>2, <1>5, GoesKeeps

LEMMA FileChangesKeeps == ASSUME SendInv, FileChanges PROVE SendInv'
<1>1. PICK f \in DOMAIN fs : \E c \in Contents :
        /\ fs' = [fs EXCEPT ![f] = c]
        /\ w' = [j \in Workers |-> [w[j] EXCEPT !.same = @ /\ w[j].file # f]]
  BY DEF FileChanges
<1>2. PICK c \in Contents :
        /\ fs' = [fs EXCEPT ![f] = c]
        /\ w' = [j \in Workers |-> [w[j] EXCEPT !.same = @ /\ w[j].file # f]]
  BY <1>1
<1>3. fs' \in [Paths \cup VPaths -> Seq(Nat)] /\ DOMAIN fs' = DOMAIN fs
  BY <1>2, WebServerConstants DEF SendInv
<1>4. UNCHANGED <<gAliasDoc, setter, sets>>
  BY DEF FileChanges
<1>5. NamesKnown'
  BY <1>4 DEF SendInv, NamesKnown, Valid, AliasNames, Configured
<1>6. ASSUME NEW j \in Workers PROVE WorkerOk(w'[j], fs')
  <2> DEFINE r == w[j]
             same == r.same /\ r.file # f
             q == [r EXCEPT !.same = same]
  <2>1. WorkerOk(r, fs) /\ Shape(r) /\ same \in BOOLEAN
    BY DEF SendInv, WorkerOk
  <2>2. w'[j] = q
    BY <1>2, <2>1 DEF Shape
  <2> HIDE DEF r
  <2>3. /\ Shape(q) /\ q.pc = r.pc /\ q.req = r.req /\ q.file = r.file /\ q.virt = r.virt
        /\ q.alias = r.alias /\ q.using = r.using /\ q.instr = r.instr /\ q.code = r.code
        /\ q.head = r.head /\ q.pos = r.pos /\ q.left = r.left /\ q.out = r.out /\ q.end = r.end
        /\ q.have = r.have /\ q.buf = r.buf /\ q.same = same /\ q.cut = r.cut /\ q.src = r.src
    <3> HIDE DEF same
    <3> QED BY <2>1 DEF Shape
  <2> HIDE DEF q
  <2>4. q.same => r.same /\ (r.file \in DOMAIN fs => fs'[r.file] = fs[r.file])
    BY <1>2, <2>3
  <2>5. Headed(r, fs) => Headed(q, fs')
    BY <1>3, <2>3, <2>4 DEF Headed
  <2>6. (Copying(r) => Copying(q)) /\ (Sent(r) => Sent(q)) /\ (Written(r) => Written(q))
        /\ (Blank(r) => Blank(q))
    BY <2>3, <2>4 DEF Copying, Sent, Written, Blank
  <2>7. Phase(q, fs')
    <3> HIDE DEF same
    <3> QED BY <2>1, <2>3, <2>5, <2>6 DEF WorkerOk, Phase
  <2>8. WorkerOk(q, fs')
    BY <2>1, <2>3, <2>7 DEF WorkerOk
  <2> QED BY <2>2, <2>8
<1>7. w' = [j \in Workers |-> w'[j]]
  BY <1>2
<1> QED BY <1>3, <1>5, <1>6, <1>7 DEF SendInv


-----------------------------------------------------------------------------
(* Transfers *)

LEMMA SendInvInit == ASSUME PlainRequests, Init PROVE SendInv
<1>1. PICK asked \in Requests : w = [i \in Workers |-> [Idle EXCEPT !.req = asked[i]]]
  BY DEF Init
<1>2. ASSUME NEW i \in Workers PROVE WorkerOk(w[i], fs)
  <2> DEFINE req == asked[i]
             p == [Idle EXCEPT !.req = req]
  <2>1. req # NoRequest => RequestOk(req) /\ Plain(req)
    BY WebServerConstants DEF PlainRequests
  <2>2. w[i] = p
    BY <1>1
  <2> HIDE DEF req
  <2>3. Shape(p) /\ p.req = req /\ Blank(p) /\ p.pc = "idle"
    BY DEF Idle, Shape, Blank, NoDoc
  <2> HIDE DEF p
  <2>4. WorkerOk(p, fs)
    BY <2>1, <2>3 DEF WorkerOk, Phase
  <2> QED BY <2>2, <2>4
<1>3. w = [j \in Workers |-> w[j]]
  BY <1>1
<1>4. NamesKnown
  BY DEF Init, NamesKnown, NoAlias, NoDoc, Valid
<1>5. fs \in [Paths \cup VPaths -> Seq(Nat)]
  BY WebServerConstants DEF Init
<1> QED BY <1>2, <1>3, <1>4, <1>5 DEF SendInv

LEMMA SendInvStep == ASSUME SendInv, [Next]_vars PROVE SendInv'
<1>1. CASE UpnpAddVirtualDir \/ UpnpRemoveVirtualDir \/ UpnpRemoveAllVirtualDirs
  BY <1>1, VirtualDirsKeep
<1>2. CASE Register
  BY <1>2, RegisterKeeps
<1>3. CASE Unregister
  BY <1>3, UnregisterKeeps
<1>4. CASE SetAliasAssigns
  BY <1>4, AssignKeeps
<1>5. CASE web_server_destroy
  BY <1>5, DestroyKeeps
<1>10. CASE web_server_init
  BY <1>10, AsideKeeps DEF web_server_init
<1>6. CASE web_server_set_root_dir
  BY <1>6, AsideKeeps DEF web_server_set_root_dir, bounds
<1>7. CASE FileChanges
  BY <1>7, FileChangesKeeps
<1>8. ASSUME NEW i \in Workers, Arrive(i) \/ Work(i) PROVE SendInv'
  BY <1>8, ArriveKeeps, LookKeeps, GrabKeeps, InfoAliasKeeps, InfoVirtualKeeps, InfoFileKeeps, FailKeeps,
     SendHeadKeeps, SendDocKeeps, ReleaseKeeps, OpenKeeps, CopyKeeps, PostOpensKeeps,
     PostReceivesKeeps, PostWritesKeeps DEF Work
<1>9. CASE UNCHANGED vars
  BY <1>9, AsideKeeps DEF vars
<1> QED BY <1>1, <1>2, <1>3, <1>4, <1>5, <1>10, <1>6, <1>7, <1>8, <1>9 DEF Next

LEMMA SliceLength ==
  ASSUME NEW s \in Seq(Nat), NEW a \in Nat, NEW k \in Nat, a + k <= Len(s)
  PROVE  Len(SubSeq(s, a + 1, a + k)) = k
OBVIOUS

LEMMA RequestsAnsweredRight == ASSUME SendInv PROVE ResponseRight
<1> SUFFICES ASSUME NEW i \in Workers, w[i].head # NoHead
             PROVE  LET r == w[i]
                        h == r.head
                    IN /\ h.how = "length" => Len(r.out) <= h.length
                       /\ h.type # "xml" /\ h.type # "octet-stream" =>
                            \E k \in DOMAIN gMediaTypeList : gMediaTypeList[k] = h.type /\ Last(r.file) = h.type
                       /\ r.pc = "done" /\ r.same /\ ~r.cut /\ r.req.method \notin {"HEAD", "POST"} =>
                            /\ h.how = "length" => Len(r.out) = h.length
                            /\ h.how = "chunked" => r.end
                            /\ r.out = SubSeq(r.src, h.off + 1, IF h.how = "length" THEN h.off + h.length ELSE Len(r.src))
                            /\ h.status = 206 =>
                                 LET rg == r.req.range
                                     n == Len(r.src)
                                 IN r.out = SubSeq(r.src,
                                                   IF rg.kind = "suffix" THEN (IF rg.last > n THEN 1 ELSE n - rg.last + 1)
                                                   ELSE rg.first + 1,
                                                   IF rg.kind = "from-to" /\ rg.last < n THEN rg.last + 1 ELSE n)
  BY DEF ResponseRight
<1> DEFINE r == w[i]
           h == r.head
           off == r.instr.off
           size == r.instr.size
           n == Len(r.src)
           rg == r.req.range
<1>1. WorkerOk(r, fs) /\ h # NoHead
  BY DEF SendInv
<1>2. Headed(r, fs)
  BY <1>1 DEF WorkerOk, Phase, Blank, Written
<1>3. \/ r.out = <<>> /\ r.pc # "done"
      \/ r.pc = "copy" /\ Copying(r)
      \/ r.pc = "release" /\ r.using /\ r.out = DocText(r.alias)
      \/ r.pc = "done" /\ Sent(r)
  BY <1>1 DEF WorkerOk, Phase, Blank, Written
<1>4. /\ off \in Nat /\ size \in Int /\ r.src \in Seq(Nat) /\ n \in Nat
      /\ size >= 0 => ~r.instr.chunk /\ off + size <= n
  BY <1>2, SliceOk
<1>5. /\ h.status = 206 => r.instr.range
      /\ h.how = "length" <=> ~r.instr.chunk /\ size >= 0
      /\ h.how = "chunked" => r.instr.chunk
      /\ h.length = size /\ h.off = off
  <2> DEFINE hd == MakeHeaders(r.instr, h.type)
  <2>1. /\ hd.status = 206 => r.instr.range
        /\ hd.how = "length" <=> ~r.instr.chunk /\ size >= 0
        /\ hd.how = "chunked" => r.instr.chunk
        /\ hd.length = size /\ hd.off = off
    BY DEF MakeHeaders
  <2>2. hd = h
    BY <1>2 DEF Headed
  <2> HIDE DEF hd, h
  <2> QED BY <2>1, <2>2
<1>6. TypeRight(h.type, r.file)
  BY <1>2 DEF Headed
<1>7. h.how = "length" => Len(r.out) <= h.length
  <2>1. SUFFICES ASSUME size >= 0, ~r.instr.chunk PROVE Len(r.out) <= size
    BY <1>5
  <2>2. CASE r.out = <<>>
    BY <1>4, <2>1, <2>2
  <2>3. CASE r.pc = "copy" /\ Copying(r)
    <3>1. r.left = size - Len(r.out) /\ r.left >= 0 /\ Len(r.out) \in Int
      BY <1>4, <2>1, <2>3 DEF Copying
    <3> QED BY <1>4, <3>1
  <2>4. CASE r.using /\ r.out = DocText(r.alias)
    <3>1. r.out = r.src /\ size = n
      BY <1>2, <2>4 DEF Headed
    <3> QED BY <1>4, <3>1
  <2>5. CASE Sent(r)
    BY <1>4, <2>1, <2>5 DEF Sent
  <2> QED BY <1>3, <2>2, <2>3, <2>4, <2>5
<1>8. ASSUME r.pc = "done", r.same, ~r.cut, r.req.method # "HEAD"
      PROVE  /\ h.how = "length" => Len(r.out) = h.length
             /\ h.how = "chunked" => r.end
             /\ r.out = SubSeq(r.src, off + 1, IF h.how = "length" THEN off + size ELSE n)
             /\ h.status = 206 =>
                  r.out = SubSeq(r.src,
                                 IF rg.kind = "suffix" THEN (IF rg.last > n THEN 1 ELSE n - rg.last + 1)
                                 ELSE rg.first + 1,
                                 IF rg.kind = "from-to" /\ rg.last < n THEN rg.last + 1 ELSE n)
  <2>1. /\ r.out = SubSeq(r.src, off + 1, IF size >= 0 THEN off + size ELSE n)
        /\ r.instr.chunk => r.end
    BY <1>3, <1>8 DEF Sent
  <2>2. r.out = SubSeq(r.src, off + 1, IF h.how = "length" THEN off + size ELSE n)
    BY <1>4, <1>5, <2>1
  <2>3. h.how = "length" => Len(r.out) = h.length
    <3>1. SUFFICES ASSUME h.how = "length" PROVE Len(r.out) = size
      BY <1>5
    <3>2. size >= 0 /\ off + size <= n /\ r.out = SubSeq(r.src, off + 1, off + size)
      BY <1>4, <1>5, <2>2, <3>1
    <3>3. Len(SubSeq(r.src, off + 1, off + size)) = size
      <4>1. off \in Nat /\ size \in Nat /\ r.src \in Seq(Nat) /\ off + size <= Len(r.src)
        BY <1>4, <3>2
      <4> HIDE DEF off, size, r
      <4> QED BY <4>1, SliceLength
    <3> QED BY <3>2, <3>3, Zenon
  <2>4. ASSUME h.status = 206
        PROVE  r.out = SubSeq(r.src,
                              IF rg.kind = "suffix" THEN (IF rg.last > n THEN 1 ELSE n - rg.last + 1)
                              ELSE rg.first + 1,
                              IF rg.kind = "from-to" /\ rg.last < n THEN rg.last + 1 ELSE n)
    <3>1. PICK len \in {n, USING_CHUNKED, UNTIL_CLOSE} : InstrOk(rg, r.instr, len)
      BY <1>2 DEF Headed
    <3>2. r.instr.range /\ size \in Nat /\ off + size <= len
      BY <1>5, <2>4, <3>1 DEF InstrOk
    <3>3. len = n
      BY <1>4, <3>2 DEF USING_CHUNKED, UNTIL_CLOSE
    <3>4. /\ off = IF rg.kind = "suffix" THEN (IF rg.last > n THEN 0 ELSE n - rg.last) ELSE rg.first
          /\ off + size = IF rg.kind = "from-to" /\ rg.last < n THEN rg.last + 1 ELSE n
      BY <3>1, <3>2, <3>3 DEF InstrOk
    <3>5. off + 1 = IF rg.kind = "suffix" THEN (IF rg.last > n THEN 1 ELSE n - rg.last + 1) ELSE rg.first + 1
      BY <1>4, <3>4
    <3>6. r.out = SubSeq(r.src, off + 1, off + size)
      <4>1. size >= 0
        BY <3>2
      <4> QED BY <2>1, <4>1, Zenon
    <3> QED BY <3>4, <3>5, <3>6
  <2> QED BY <1>5, <2>1, <2>2, <2>3, <2>4
<1> QED BY <1>5, <1>6, <1>7, <1>8 DEF TypeRight

LEMMA PostsWrittenRight == ASSUME SendInv PROVE PostWritten
<1> SUFFICES ASSUME NEW i \in Workers, w[i].req.method = "POST"
             PROVE  /\ IsPrefix(w[i].out, w[i].req.body) /\ Len(w[i].out) = w[i].pos
                    /\ w[i].pc = "done" /\ w[i].code = 200 => w[i].out = w[i].req.body
  BY DEF PostWritten
<1> DEFINE r == w[i]
           body == r.req.body
<1>1. WorkerOk(r, fs) /\ r.req.method = "POST"
  BY DEF SendInv
<1>2. r.req # NoRequest
  BY <1>1 DEF NoRequest
<1>3. body \in Seq(Nat) /\ Len(body) \in Nat
  BY <1>1, <1>2 DEF WorkerOk, RequestOk
<1>4. \/ Blank(r) /\ r.pc # "done"
      \/ Written(r) /\ (r.pc = "done" /\ r.code = 200 => r.pos = Len(body))
  BY <1>1 DEF WorkerOk, Phase, Headed
<1>5. r.pos \in 0 .. Len(body) /\ r.out = SubSeq(body, 1, r.pos)
  <2>1. CASE Blank(r)
    <3>1. SubSeq(body, 1, 0) = <<>> /\ 0 \in 0 .. Len(body)
      BY <1>3
    <3> QED BY <2>1, <3>1 DEF Blank
  <2>2. CASE Written(r)
    BY <2>2 DEF Written
  <2> QED BY <1>4, <2>1, <2>2
<1>6. Len(r.out) = r.pos /\ \A j \in 1 .. r.pos : r.out[j] = body[j]
  BY <1>3, <1>5
<1>7. IsPrefix(r.out, body)
  BY <1>3, <1>5, <1>6 DEF IsPrefix
<1>8. r.pc = "done" /\ r.code = 200 => r.out = body
  BY <1>3, <1>4, <1>5, SubSeqFull
<1> QED BY <1>6, <1>7, <1>8

\* The bytes that a transfer moves are the ones it says, in both directions
\* (http_SendMessage, http_RecvPostMessage), as long as no client sends a TE
\* header or asks for a range of the description document: the code answers these
\* two wrongly.
THEOREM TransfersAreRight == ASSUME PlainRequests PROVE Spec => []TransfersRight
<1>1. Init => SendInv
  BY SendInvInit
<1>2. SendInv /\ [Next]_vars => SendInv'
  BY SendInvStep
<1>3. SendInv => TransfersRight
  BY RequestsAnsweredRight, PostsWrittenRight DEF TransfersRight
<1> QED BY <1>1, <1>2, <1>3, PTL DEF Spec


-----------------------------------------------------------------------------
(* The description document: who holds it *)

\* The requests that hold document d, and whether gAliasDoc does.
Holders(d) == {i \in Workers : Busy(i) /\ w[i].alias = d}
AliasHolds(d) == gAliasDoc.doc = d /\ ~stale

\* No document is counted less often than it is held, unless gAliasDoc dropped
\* its reference twice.  It may be counted more often: a request for another
\* path keeps its count when it ends.
Counted ==
  \A d \in (1 .. MaxSets) \ overdrawn :
    docs[d] >= Cardinality(Holders(d)) + (IF AliasHolds(d) THEN 1 ELSE 0)

\* What is kept of the documents.  While one is about to be assigned nobody
\* holds it.
Documents ==
  /\ docs \in [1 .. MaxSets -> Nat] /\ sets \in 0 .. MaxSets
  /\ gAliasDoc.doc \in 0 .. sets /\ (setter.pc = "assign" => gAliasDoc.doc < sets)
  /\ setter \in [pc : {"none", "assign"}, name : {setter.name}, loc : {setter.loc}]

Rooted(path) == path # <<>> /\ path[1] = "/"

\* The path that stands for what a device advertises is the one of the alias.
Leads(url, name) == request_doc([path |-> url]) = name /\ Rooted(name)

Advertised ==
  /\ location.doc # NoDoc =>
       setter.pc = "none" /\ gAliasDoc.doc = location.doc /\ Leads(location.path, gAliasDoc.name)
  /\ setter.pc = "assign" => location.doc = NoDoc /\ Leads(setter.loc, WithSlash(setter.name))
  /\ ~enabled => location.doc = NoDoc /\ setter.pc = "none"

\* The alias of every description is a name that its URL leads to.
AliasesPlain ==
  \A d \in Descs :
    LET c == configure_urlbase(d.base, d.alias, "8080")
    IN c.ok => /\ c.name \in Seq(STRING) \ {<<>>, NoText}
               /\ request_doc([path |-> http_FixUrl(c.descURL).pathquery]) = WithSlash(c.name)

\* Records of workers, as far as the description matters.
DocShape(r) ==
  r \in [pc : {r.pc}, req : {r.req}, file : {r.file}, virt : BOOLEAN, alias : Nat,
         using : BOOLEAN, len : {r.len}, index : {r.index}, instr : {r.instr}, code : {r.code},
         head : {r.head}, pos : {r.pos}, left : {r.left}, out : {r.out}, end : {r.end},
         have : {r.have}, buf : {r.buf}, calm : BOOLEAN, same : {r.same}, cut : BOOLEAN,
         src : {r.src}, loc : {r.loc}]

\* r asks for what was advertised when it came, and nothing has changed since.
Asks(r) ==
  /\ r.calm /\ r.loc.doc # NoDoc /\ ~r.virt
  /\ r.req.method = "GET" /\ r.req.range.kind = "none" /\ r.req.path = r.loc.path

\* The way of such a request.
Served(r) ==
  \/ r.pc \in {"idle", "look", "grab"}
  \/ r.pc \in {"info", "head", "doc", "release"} /\ r.using /\ r.alias = r.loc.doc
  \/ r.pc = "done" /\ (~r.cut => r.out = DocText(r.loc.doc))

DocWorker(r) ==
  /\ DocShape(r)
  /\ r.pc \in {"idle", "look", "grab"} => r.alias = NoDoc /\ ~r.virt /\ ~r.using
  /\ r.pc = "grab" => r.file = request_doc(r.req)
  /\ r.pc = "release" /\ ~r.cut => r.out = DocText(r.alias)
  /\ Asks(r) => Served(r)

DocInv ==
  /\ w = [j \in Workers |-> w[j]]
  /\ Documents /\ Counted /\ Advertised
  /\ \A j \in Workers :
       /\ DocWorker(w[j])
       /\ w[j].alias <= sets /\ (setter.pc = "assign" => w[j].alias < sets)
       /\ Busy(j) /\ w[j].calm => w[j].loc = location

LEMMA HoldersCount == ASSUME NEW d PROVE IsFiniteSet(Holders(d)) /\ Cardinality(Holders(d)) \in Nat
<1>1. Holders(d) \in SUBSET Workers /\ IsFiniteSet(Workers)
  BY WebServerConstants DEF Holders
<1>2. IsFiniteSet(Holders(d))
  BY <1>1, FS_Subset
<1> QED BY <1>2, FS_CardinalityType

\* The counts are enough as long as no request takes a document.
LEMMA CountKept ==
  ASSUME DocInv, \A d \in 1 .. MaxSets : Holders(d)' \subseteq Holders(d),
         UNCHANGED <<docs, gAliasDoc, stale, overdrawn>>
  PROVE  Counted'
<1> SUFFICES ASSUME NEW d \in (1 .. MaxSets) \ overdrawn
             PROVE  docs'[d] >= Cardinality(Holders(d)') + (IF AliasHolds(d)' THEN 1 ELSE 0)
  BY DEF Counted
<1> DEFINE h == Cardinality(Holders(d))
           h2 == Cardinality(Holders(d)')
<1>1. Holders(d)' \in SUBSET Holders(d) /\ IsFiniteSet(Holders(d)) /\ h \in Nat
  BY HoldersCount
<1>2. h2 <= h /\ h2 \in Nat
  <2>1. IsFiniteSet(Holders(d)') /\ h2 <= h
    BY <1>1, FS_Subset
  <2> QED BY <2>1, FS_CardinalityType
<1>3. AliasHolds(d)' <=> AliasHolds(d)
  BY DEF AliasHolds
<1>4. docs'[d] = docs[d] /\ docs[d] \in Nat /\ docs[d] >= h + (IF AliasHolds(d) THEN 1 ELSE 0)
  BY DEF DocInv, Documents, Counted
<1> HIDE DEF h, h2
<1>5. docs'[d] >= h2 + (IF AliasHolds(d)' THEN 1 ELSE 0)
  BY <1>1, <1>2, <1>3, <1>4
<1> QED BY <1>5 DEF h2

LEMMA DocGoes ==
  ASSUME DocInv, NEW i \in Workers, NEW q, w' = [w EXCEPT ![i] = q], DocWorker(q),
         UNCHANGED <<enabled, gAliasDoc, docs, stale, overdrawn, setter, location, sets>>,
         (Busy(i) /\ q.alias = w[i].alias) \/ q.alias = NoDoc,
         q.pc \notin {"idle", "done"} /\ q.calm => q.loc = location
  PROVE  DocInv'
<1>1. w' = [j \in Workers |-> w'[j]] /\ \A j \in Workers : w'[j] = IF j = i THEN q ELSE w[j]
  BY DEF DocInv
<1>2. \A d \in 1 .. MaxSets : Holders(d)' \subseteq Holders(d)
  BY <1>1 DEF Holders, Busy, NoDoc
<1>3. Counted'
  BY <1>2, CountKept
<1>4. Documents' /\ Advertised'
  BY DEF DocInv, Documents, Advertised
<1>5. ASSUME NEW j \in Workers
      PROVE  /\ DocWorker(w[j])'
             /\ w'[j].alias <= sets' /\ (setter'.pc = "assign" => w'[j].alias < sets')
             /\ Busy(j)' /\ w'[j].calm => w'[j].loc = location'
  <2>1. CASE j = i
    <3>1. w'[j] = q
      BY <1>1, <2>1
    <3>2. q.alias <= sets /\ (setter.pc = "assign" => q.alias < sets)
      BY DEF DocInv, Documents, NoDoc
    <3> QED BY <3>1, <3>2 DEF Busy, DocWorker
  <2>2. CASE j # i
    BY <1>1, <2>2 DEF DocInv, Busy
  <2> QED BY <2>1, <2>2
<1> QED BY <1>1, <1>3, <1>4, <1>5 DEF DocInv

\* A request that does not ask for the description, or that goes on with it
\* as before.
Onward(r, q) ==
  /\ DocShape(q) /\ q.req = r.req /\ q.loc = r.loc /\ q.calm = r.calm /\ q.virt = r.virt
  /\ q.alias = r.alias /\ q.using = r.using
  /\ q.pc \notin {"idle", "look", "grab", "release"}

LEMMA OnwardOk ==
  ASSUME NEW r, NEW q, Onward(r, q), ~Asks(r) \/ (q.pc \in {"info", "head", "doc"} /\ Served(r) /\ r.pc \in {"info", "head", "doc"})
  PROVE  DocWorker(q)
<1>1. Asks(q) <=> Asks(r)
  BY DEF Onward, Asks
<1>2. Asks(q) => Served(q)
  BY <1>1 DEF Onward, Served
<1> QED BY <1>2 DEF DocWorker, Onward

LEMMA OnwardGoes ==
  ASSUME DocInv, NEW i \in Workers, NEW q, Onward(w[i], q), Busy(i), Goes(i, q),
         \/ ~Asks(w[i])
         \/ q.pc \in {"info", "head", "doc"} /\ w[i].pc \in {"info", "head", "doc"}
  PROVE  DocInv'
<1>1. DocWorker(w[i]) /\ (Busy(i) /\ w[i].calm => w[i].loc = location)
  BY DEF DocInv
<1>2. DocWorker(q)
  <2>1. CASE ~Asks(w[i])
    BY <2>1, OnwardOk
  <2>2. CASE Asks(w[i])
    BY <1>1, <2>2, OnwardOk DEF DocWorker
  <2> QED BY <2>1, <2>2
<1>3. q.calm => q.loc = location
  BY <1>1 DEF Onward
<1>4. q.alias = w[i].alias
  BY DEF Onward
<1>5. w' = [w EXCEPT ![i] = q] /\ UNCHANGED <<enabled, gAliasDoc, docs, stale, overdrawn, setter, location, sets>>
  BY DEF Goes, setup, bounds, history
<1> QED BY <1>2, <1>3, <1>4, <1>5, DocGoes


\* Answer goes on, with the headers when the description is asked for.
LEMMA AnswerOnward ==
  ASSUME NEW r, DocShape(r), NEW len, NEW type
  PROVE  /\ Onward(r, Answer(r, len, type))
         /\ r.req.method = "GET" /\ r.req.range.kind = "none" /\ ~r.virt => Answer(r, len, type).pc = "head"
<1> DEFINE chunks == r.virt /\ len = USING_CHUNKED
           c == CheckOtherHTTPHeaders(r.req, len)
           ins == [c.instr EXCEPT !.chunk = @ \/ chunks]
<1>0. PICK a : a = Answer(r, len, type)
  OBVIOUS
<1>1. a = IF c.code # 200 THEN Failed(r, c.code)
          ELSE IF r.req.method = "POST" THEN [r EXCEPT !.pc = "post", !.instr = c.instr]
          ELSE IF chunks /\ r.req.minor = 0 THEN Failed(r, 406)
          ELSE Made(r, len, type, ins)
  BY <1>0 DEF Answer, Made
<1>2. r.req.range.kind = "none" => c.code = 200
  BY DEF CheckOtherHTTPHeaders
<1>3. chunks => r.virt
  OBVIOUS
<1> HIDE DEF chunks, c, ins
<1>4. ASSUME NEW code, a = Failed(r, code) PROVE Onward(r, a) /\ a.pc = "fail"
  BY <1>4 DEF Failed, Onward, DocShape
<1>5. ASSUME a = [r EXCEPT !.pc = "post", !.instr = c.instr] PROVE Onward(r, a)
  BY <1>5 DEF Onward, DocShape
<1>6. ASSUME a = Made(r, len, type, ins) PROVE Onward(r, a) /\ a.pc = "head"
  BY <1>6 DEF Made, Onward, DocShape
<1>7. Onward(r, a)
  BY <1>1, <1>4, <1>5, <1>6
<1>8. r.req.method = "GET" /\ r.req.range.kind = "none" /\ ~r.virt => a = Made(r, len, type, ins)
  BY <1>1, <1>2, <1>3
<1> QED BY <1>0, <1>6, <1>7, <1>8

LEMMA FailedOnward == ASSUME NEW r, DocShape(r), NEW code PROVE Onward(r, Failed(r, code))
<1>1. PICK p : p = [r EXCEPT !.pc = "fail", !.code = code]
  OBVIOUS
<1>2. Onward(r, p)
  BY <1>1 DEF Onward, DocShape
<1> QED BY <1>1, <1>2 DEF Failed

LEMMA DocAt ==
  ASSUME DocInv, NEW i \in Workers
  PROVE  DocWorker(w[i]) /\ DocShape(w[i]) /\ (Busy(i) /\ w[i].calm => w[i].loc = location)
BY DEF DocInv, DocWorker

LEMMA DocInfoAlias == ASSUME DocInv, NEW i \in Workers, InfoAlias(i) PROVE DocInv'
<1> DEFINE r == w[i]
           s == [r EXCEPT !.src = DocText(r.alias)]
           a == Answer(s, Len(DocText(r.alias)), "xml")
<1>1. r.pc = "info" /\ Busy(i) /\ Goes(i, a)
  BY DEF InfoAlias, Steps, Busy
<1>2. DocShape(r)
  BY DocAt
<1>3. DocShape(s) /\ s.req = r.req /\ s.loc = r.loc /\ s.calm = r.calm /\ s.virt = r.virt
      /\ s.alias = r.alias /\ s.using = r.using
  BY <1>2 DEF DocShape
<1> HIDE DEF s
<1>4. Onward(s, a) /\ (s.req.method = "GET" /\ s.req.range.kind = "none" /\ ~s.virt => a.pc = "head")
  BY <1>3, AnswerOnward
<1> HIDE DEF a
<1>5. Onward(r, a)
  BY <1>3, <1>4 DEF Onward
<1>6. Asks(r) => a.pc = "head"
  BY <1>3, <1>4 DEF Asks
<1> QED BY <1>1, <1>5, <1>6, OnwardGoes

\* What becomes of another document.
LEMMA DocFound ==
  ASSUME DocInv, NEW i \in Workers, w[i].pc = "info", ~Asks(w[i]), NEW path, NEW info, Found(i, path, info)
  PROVE  DocInv'
<1> DEFINE r == w[i]
           s == [r EXCEPT !.file = path]
           d == [s EXCEPT !.file = IndexOf(path), !.index = TRUE]
           t == [s EXCEPT !.src = fs[path], !.same = TRUE]
           a == Answer(t, info.len, info.type)
<1>1. Busy(i) /\ (Goes(i, Failed(s, 404)) \/ Goes(i, d) \/ Goes(i, a))
  BY DEF Found, Busy
<1>2. DocShape(r) /\ r.pc = "info"
  BY DocAt
<1>9. r = w[i]
  OBVIOUS
<1> HIDE DEF r
<1>3. Onward(r, s) /\ DocShape(s) /\ s.pc = "info"
  BY <1>2 DEF DocShape, Onward
<1> HIDE DEF s
<1>4. Onward(r, Failed(s, 404))
  <2>1. Onward(s, Failed(s, 404))
    BY <1>3, FailedOnward
  <2> QED BY <1>3, <2>1 DEF Onward
<1>5. Onward(r, d)
  BY <1>3 DEF DocShape, Onward
<1>6. Onward(r, t) /\ DocShape(t)
  BY <1>3 DEF DocShape, Onward
<1> HIDE DEF t, d
<1>7. Onward(t, a)
  BY <1>6, AnswerOnward
<1> HIDE DEF a
<1>8. Onward(r, a)
  BY <1>6, <1>7 DEF Onward
<1> QED BY <1>1, <1>4, <1>5, <1>8, <1>9, OnwardGoes

LEMMA DocPostAsked ==
  ASSUME DocInv, NEW i \in Workers, w[i].pc = "info", ~Asks(w[i]), Goes(i, Answer(w[i], 0, "none"))
  PROVE  DocInv'
<1>1. Onward(w[i], Answer(w[i], 0, "none"))
  BY DocAt, AnswerOnward
<1>2. Busy(i)
  BY DEF Busy
<1> QED BY <1>1, <1>2, OnwardGoes

LEMMA DocFailed ==
  ASSUME DocInv, NEW i \in Workers, w[i].pc = "info", ~Asks(w[i]), NEW code, Goes(i, Failed(w[i], code))
  PROVE  DocInv'
<1>1. Onward(w[i], Failed(w[i], code))
  BY DocAt, FailedOnward
<1>2. Busy(i)
  BY DEF Busy
<1> QED BY <1>1, <1>2, OnwardGoes

LEMMA DocInfoVirtual == ASSUME DocInv, NEW i \in Workers, InfoVirtual(i) PROVE DocInv'
<1>1. w[i].pc = "info" /\ ~Asks(w[i])
  BY DEF InfoVirtual, Steps, Asks
<1> QED BY <1>1, DocFound, DocPostAsked, DocFailed DEF InfoVirtual

LEMMA DocInfoFile == ASSUME DocInv, NEW i \in Workers, InfoFile(i) PROVE DocInv'
<1>1. w[i].pc = "info" /\ ~w[i].using
  BY DEF InfoFile, Steps
<1>2. ~Asks(w[i])
  BY <1>1, DocAt DEF DocWorker, Served
<1> QED BY <1>1, <1>2, DocFound, DocPostAsked, DocFailed DEF InfoFile


LEMMA DocLook == ASSUME DocInv, NEW i \in Workers, Look(i) PROVE DocInv'
<1> DEFINE r == w[i]
           doc == request_doc(r.req)
           s == [r EXCEPT !.file = doc]
<1>1. r.pc = "look" /\ Busy(i)
  BY DEF Look, Steps, Busy
<1>2. PICK p : /\ Goes(i, p)
               /\ \/ p = Failed(s, 400) /\ ~Rooted(doc)
                  \/ p = [s EXCEPT !.pc = "info", !.virt = TRUE]
                  \/ p = [s EXCEPT !.pc = "grab"]
                  \/ p = [s EXCEPT !.pc = "info"] /\ ~Valid(gAliasDoc)
  BY DEF Look, Rooted
<1>3. DocWorker(r) /\ DocShape(r) /\ (r.calm => r.loc = location) /\ r.alias = NoDoc /\ ~r.virt /\ ~r.using
  BY <1>1, DocAt DEF DocWorker
<1>4. Asks(r) => Rooted(doc) /\ Valid(gAliasDoc)
  BY <1>3 DEF Asks, DocInv, Advertised, Leads, Rooted, Valid, request_doc
<1>9. r = w[i]
  OBVIOUS
<1> HIDE DEF r
<1>5. DocShape(s) /\ s.pc = "look" /\ s.req = r.req /\ s.loc = r.loc /\ s.calm = r.calm
      /\ ~s.virt /\ s.alias = NoDoc /\ ~s.using /\ s.file = doc
  <2> HIDE DEF doc
  <2> QED BY <1>1, <1>3, <1>9 DEF DocShape
<1> HIDE DEF s
<1>6. CASE p = Failed(s, 400) /\ ~Rooted(doc)
  <2>1. Onward(s, p) /\ ~Asks(s)
    BY <1>3, <1>4, <1>5, <1>6, FailedOnward DEF Asks
  <2>2. DocWorker(p) /\ p.alias = NoDoc /\ p.loc = r.loc /\ p.calm = r.calm
    BY <1>5, <2>1, OnwardOk DEF Onward
  <2> QED BY <1>2, <1>3, <2>2, DocGoes DEF Goes, setup, bounds, history
<1>7. ASSUME p = [s EXCEPT !.pc = "info", !.virt = TRUE]
      PROVE  DocWorker(p) /\ p.alias = NoDoc /\ p.loc = r.loc /\ p.calm = r.calm
  <2>1. DocShape(p) /\ p.pc = "info" /\ p.virt /\ p.loc = r.loc /\ p.calm = r.calm /\ p.alias = NoDoc
    BY <1>5, <1>7 DEF DocShape
  <2> QED BY <2>1 DEF DocWorker, Asks
<1>8. ASSUME p = [s EXCEPT !.pc = "grab"]
      PROVE  DocWorker(p) /\ p.alias = NoDoc /\ p.loc = r.loc /\ p.calm = r.calm
  <2>1. DocShape(p) /\ p.pc = "grab" /\ ~p.virt /\ ~p.using /\ p.loc = r.loc /\ p.calm = r.calm
        /\ p.alias = NoDoc /\ p.file = doc /\ p.req = r.req
    BY <1>5, <1>8 DEF DocShape
  <2> QED BY <2>1 DEF DocWorker, Served
<1>10. ASSUME p = [s EXCEPT !.pc = "info"], ~Valid(gAliasDoc)
       PROVE  DocWorker(p) /\ p.alias = NoDoc /\ p.loc = r.loc /\ p.calm = r.calm
  <2>1. DocShape(p) /\ p.pc = "info" /\ ~p.virt /\ p.loc = r.loc /\ p.calm = r.calm
        /\ p.alias = NoDoc /\ p.req = r.req
    BY <1>5, <1>10 DEF DocShape
  <2>2. ~Asks(p)
    BY <1>3, <1>4, <1>10, <2>1 DEF Asks
  <2> QED BY <2>1, <2>2 DEF DocWorker
<1>11. CASE DocWorker(p) /\ p.alias = NoDoc /\ p.loc = r.loc /\ p.calm = r.calm
  BY <1>2, <1>3, <1>11, DocGoes DEF Goes, setup, bounds, history
<1> QED BY <1>2, <1>6, <1>7, <1>8, <1>10, <1>11

LEMMA DocSendHead == ASSUME DocInv, NEW i \in Workers, SendHead(i) PROVE DocInv'
<1> DEFINE r == w[i]
<1>1. r.pc = "head" /\ Busy(i)
  BY DEF SendHead, Steps, Busy
<1>2. PICK ok \in BOOLEAN : Goes(i, [r EXCEPT !.pc = AfterHead(r, ok), !.cut = ~ok])
  BY DEF SendHead
<1> DEFINE a == AfterHead(r, ok)
           p == [r EXCEPT !.pc = a, !.cut = ~ok]
<1>3. DocWorker(r) /\ DocShape(r) /\ (r.calm => r.loc = location)
  BY <1>1, DocAt
<1>4. a \in {"done", "doc", "release", "open"}
      /\ (a = "release" => ~ok) /\ (r.using /\ r.req.method = "GET" => a \in {"doc", "release"})
  BY <1>3 DEF AfterHead, DocShape
<1>5. Goes(i, p)
  BY <1>2
<1>9. r = w[i]
  OBVIOUS
<1> HIDE DEF r, a
<1>6. DocShape(p) /\ p.pc = a /\ p.cut = ~ok /\ p.req = r.req /\ p.loc = r.loc /\ p.calm = r.calm
      /\ p.virt = r.virt /\ p.alias = r.alias /\ p.using = r.using
  BY <1>3 DEF DocShape
<1> HIDE DEF p
<1>7. Asks(p) => Served(p)
  <2>1. Asks(p) <=> Asks(r)
    BY <1>6 DEF Asks
  <2>2. Asks(r) => r.using /\ r.alias = r.loc.doc
    BY <1>1, <1>3 DEF DocWorker, Served
  <2> QED BY <1>4, <1>6, <2>1, <2>2 DEF Served, Asks
<1>8. DocWorker(p)
  BY <1>4, <1>6, <1>7 DEF DocWorker
<1> QED BY <1>1, <1>3, <1>5, <1>6, <1>8, <1>9, DocGoes DEF Goes, setup, bounds, history

LEMMA DocSendDoc == ASSUME DocInv, NEW i \in Workers, SendDoc(i) PROVE DocInv'
<1> DEFINE r == w[i]
           d == DocText(r.alias)
<1>1. r.pc = "doc" /\ Busy(i)
  BY DEF SendDoc, Steps, Busy
<1>3. DocWorker(r) /\ DocShape(r) /\ (r.calm => r.loc = location)
  BY <1>1, DocAt
<1>2. PICK ok \in BOOLEAN : Goes(i, [r EXCEPT !.pc = "release", !.cut = ~ok,
                                              !.out = IF ok THEN d ELSE r.out])
  BY <1>3 DEF SendDoc, DocShape
<1> DEFINE out == IF ok THEN d ELSE r.out
           p == [r EXCEPT !.pc = "release", !.cut = ~ok, !.out = out]
<1>5. Goes(i, p)
  BY <1>2
<1>9. r = w[i] /\ d = DocText(r.alias) /\ (ok => out = d)
  OBVIOUS
<1> HIDE DEF r, d, out
<1>6. DocShape(p) /\ p.pc = "release" /\ p.cut = ~ok /\ p.req = r.req /\ p.loc = r.loc /\ p.calm = r.calm
      /\ p.virt = r.virt /\ p.alias = r.alias /\ p.using = r.using /\ p.out = out
  BY <1>3 DEF DocShape
<1> HIDE DEF p
<1>7. Asks(p) => Served(p)
  <2>1. Asks(p) <=> Asks(r)
    BY <1>6 DEF Asks
  <2>2. Asks(r) => r.using /\ r.alias = r.loc.doc
    BY <1>1, <1>3 DEF DocWorker, Served
  <2> QED BY <1>6, <2>1, <2>2 DEF Served
<1>8. DocWorker(p)
  BY <1>6, <1>7, <1>9 DEF DocWorker
<1> QED BY <1>1, <1>3, <1>5, <1>6, <1>8, <1>9, DocGoes DEF Goes, setup, bounds, history

\* What the steps of the other transfers make of a request.
Reads(r, pc, cut, pos, left, out) ==
  [r EXCEPT !.pc = pc, !.cut = cut, !.pos = pos, !.left = left, !.out = out]
Writes(r, pc, pos, buf, out) ==
  [r EXCEPT !.pc = pc, !.code = 200, !.pos = pos, !.buf = buf, !.out = out]

LEMMA DocOpen ==
  ASSUME NEW i \in Workers, DocShape(w[i]), Open(i)
  PROVE  \E q : Goes(i, q) /\ Onward(w[i], q)
<1> DEFINE r == w[i]
<1>1. \/ Goes(i, [r EXCEPT !.pc = "done", !.cut = TRUE])
      \/ \E pos, left, buf : Goes(i, [r EXCEPT !.pc = "copy", !.pos = pos, !.left = left, !.buf = buf])
  BY DEF Open
<1>2. DocShape(r)
  OBVIOUS
<1> HIDE DEF r
<1>3. ASSUME NEW q, q = [r EXCEPT !.pc = "done", !.cut = TRUE] PROVE Onward(r, q)
  BY <1>2, <1>3 DEF DocShape, Onward
<1>4. ASSUME NEW pos, NEW left, NEW buf, NEW q,
             q = [r EXCEPT !.pc = "copy", !.pos = pos, !.left = left, !.buf = buf]
      PROVE  Onward(r, q)
  BY <1>2, <1>4 DEF DocShape, Onward
<1>5. \E q : Goes(i, q) /\ Onward(r, q)
  BY <1>1, <1>3, <1>4
<1> QED BY <1>5 DEF r

LEMMA DocCopy ==
  ASSUME NEW i \in Workers, DocShape(w[i]), Copy(i)
  PROVE  \E q : Goes(i, q) /\ Onward(w[i], q)
<1> DEFINE r == w[i]
           text == IF fs[r.file] = NoFile THEN r.src ELSE fs[r.file]
<1>1. \/ Goes(i, [r EXCEPT !.pc = "done"])
      \/ Goes(i, [r EXCEPT !.pc = "done", !.end = r.instr.chunk])
      \/ \E k : \E ok \in BOOLEAN :
           Goes(i, [r EXCEPT !.pc = IF ok THEN "copy" ELSE "done", !.cut = ~ok,
                             !.pos = @ + k, !.left = IF r.instr.size < 0 THEN BufSize ELSE @ - k,
                             !.out = IF ok THEN @ \o SubSeq(text, r.pos + 1, r.pos + k) ELSE @])
  BY DEF Copy
<1>2. DocShape(r)
  OBVIOUS
<1> HIDE DEF r, text
<1>3. ASSUME NEW q, q = [r EXCEPT !.pc = "done"] PROVE Onward(r, q)
  BY <1>2, <1>3 DEF DocShape, Onward
<1>4. ASSUME NEW q, q = [r EXCEPT !.pc = "done", !.end = r.instr.chunk] PROVE Onward(r, q)
  BY <1>2, <1>4 DEF DocShape, Onward
<1>5. ASSUME NEW pc \in {"copy", "done"}, NEW cut \in BOOLEAN, NEW pos, NEW left, NEW out
      PROVE  Onward(r, Reads(r, pc, cut, pos, left, out))
  <2>1. PICK q : q = Reads(r, pc, cut, pos, left, out)
    OBVIOUS
  <2>2. Onward(r, q)
    BY <1>2, <2>1 DEF DocShape, Onward, Reads
  <2> QED BY <2>1, <2>2
<1>6. ASSUME NEW k, NEW ok \in BOOLEAN,
             Goes(i, [r EXCEPT !.pc = IF ok THEN "copy" ELSE "done", !.cut = ~ok,
                               !.pos = @ + k, !.left = IF r.instr.size < 0 THEN BufSize ELSE @ - k,
                               !.out = IF ok THEN @ \o SubSeq(text, r.pos + 1, r.pos + k) ELSE @])
      PROVE  \E q : Goes(i, q) /\ Onward(r, q)
  <2> DEFINE pc == IF ok THEN "copy" ELSE "done"
             cut == ~ok
             pos == r.pos + k
             left == IF r.instr.size < 0 THEN BufSize ELSE r.left - k
             out == IF ok THEN r.out \o SubSeq(text, r.pos + 1, r.pos + k) ELSE r.out
  <2>1. Goes(i, Reads(r, pc, cut, pos, left, out))
    BY <1>2, <1>6 DEF DocShape, Reads
  <2>2. pc \in {"copy", "done"} /\ cut \in BOOLEAN
    OBVIOUS
  <2> HIDE DEF pc, cut, pos, left, out
  <2> QED BY <1>5, <2>1, <2>2
<1>7. \E q : Goes(i, q) /\ Onward(r, q)
  <2>1. CASE Goes(i, [r EXCEPT !.pc = "done"])
    BY <1>3, <2>1
  <2>2. CASE Goes(i, [r EXCEPT !.pc = "done", !.end = r.instr.chunk])
    BY <1>4, <2>2
  <2> QED BY <1>1, <1>6, <2>1, <2>2
<1> QED BY <1>7 DEF r

LEMMA DocPost ==
  ASSUME NEW i \in Workers, DocShape(w[i]), PostOpens(i) \/ PostReceives(i) \/ PostWrites(i)
  PROVE  \E q : Goes(i, q) /\ Onward(w[i], q)
<1> DEFINE r == w[i]
<1>1. r.pc \in {"post", "recv"} /\ DocShape(r)
  BY DEF PostOpens, PostReceives, PostWrites, Steps
<1>2. ASSUME NEW code PROVE Onward(r, Ended(r, code))
  <2> HIDE DEF r
  <2>1. PICK q : q = Ended(r, code)
    OBVIOUS
  <2>2. Onward(r, q)
    BY <1>1, <2>1 DEF Ended, DocShape, Onward
  <2> QED BY <2>1, <2>2
<1>3. CASE PostOpens(i)
  <2>1. \/ Goes(i, [r EXCEPT !.pc = "recv"])
        \/ \E code : Goes(i, Ended(r, code))
    BY <1>3 DEF PostOpens, Ended
  <2> HIDE DEF r
  <2>2. ASSUME NEW q, q = [r EXCEPT !.pc = "recv"] PROVE Onward(r, q)
    BY <1>1, <2>2 DEF DocShape, Onward
  <2>3. \E q : Goes(i, q) /\ Onward(r, q)
    BY <1>2, <2>1, <2>2
  <2> QED BY <2>3 DEF r
<1>4. CASE PostReceives(i)
  <2>1. \/ \E have : Goes(i, [r EXCEPT !.have = have])
        \/ \E code : Goes(i, Ended(r, code))
    BY <1>4 DEF PostReceives, Ended
  <2> HIDE DEF r
  <2>2. ASSUME NEW have, NEW q, q = [r EXCEPT !.have = have] PROVE Onward(r, q)
    BY <1>1, <2>2 DEF DocShape, Onward
  <2>3. \E q : Goes(i, q) /\ Onward(r, q)
    BY <1>2, <2>1, <2>2
  <2> QED BY <2>3 DEF r
<1>5. CASE PostWrites(i)
  <2> DEFINE pos == r.pos + PostSize(r)
             pc == IF Complete(r) /\ pos = r.have THEN "done" ELSE "recv"
             buf == PostSize(r)
             out == r.out \o SubSeq(r.req.body, r.pos + 1, Lesser(pos, Len(r.req.body)))
  <2>1. Goes(i, Writes(r, pc, pos, buf, out)) \/ Goes(i, Ended(r, 500))
    BY <1>1, <1>5 DEF PostWrites, DocShape, Writes, Ended
  <2>2. pc \in {"done", "recv"}
    OBVIOUS
  <2> HIDE DEF pos, pc, buf, out, r
  <2>3. PICK q : q = Writes(r, pc, pos, buf, out)
    OBVIOUS
  <2>4. Onward(r, q)
    BY <1>1, <2>2, <2>3 DEF DocShape, Onward, Writes
  <2>5. \E p : Goes(i, p) /\ Onward(r, p)
    BY <1>2, <2>1, <2>3, <2>4
  <2> QED BY <2>5 DEF r
<1> QED BY <1>3, <1>4, <1>5

\* The steps of the other transfers.
LEMMA DocOther ==
  ASSUME DocInv, NEW i \in Workers, Open(i) \/ Copy(i) \/ PostOpens(i) \/ PostReceives(i) \/ PostWrites(i)
  PROVE  DocInv'
<1>1. w[i].pc \in {"open", "copy", "post", "recv"} /\ Busy(i)
  BY DEF Open, Copy, PostOpens, PostReceives, PostWrites, Steps, Busy
<1>2. DocShape(w[i]) /\ ~Asks(w[i])
  BY <1>1, DocAt DEF DocWorker, Served
<1>3. \E q : Goes(i, q) /\ Onward(w[i], q)
  BY <1>2, DocOpen, DocCopy, DocPost
<1> QED BY <1>1, <1>2, <1>3, OnwardGoes


LEMMA DocArrive == ASSUME DocInv, NEW i \in Workers, Arrive(i) PROVE DocInv'
<1> DEFINE req == w[i].req
           loc == location
           p == [Idle EXCEPT !.pc = "look", !.req = req, !.loc = loc]
<1>1. /\ w' = [w EXCEPT ![i] = p]
      /\ UNCHANGED <<enabled, gAliasDoc, docs, stale, overdrawn, setter, location, sets>>
  BY DEF Arrive, setup, history
<1> HIDE DEF req, loc
<1>2. DocShape(p) /\ p.alias = NoDoc /\ ~p.virt /\ ~p.using /\ p.pc = "look" /\ p.loc = loc
  BY DEF Idle, DocShape, NoDoc
<1> HIDE DEF p
<1>3. DocWorker(p)
  BY <1>2 DEF DocWorker, Served
<1> QED BY <1>1, <1>2, <1>3, DocGoes DEF loc

\* Document d is released by request i, which ends.
LEMMA ReleasedCount ==
  ASSUME DocInv, NEW i \in Workers, Busy(i), NEW q, q.pc = "done", q.alias = w[i].alias,
         w' = [w EXCEPT ![i] = q], alias_release(w[i].alias),
         UNCHANGED <<gAliasDoc, stale, overdrawn, sets>>
  PROVE  Counted' /\ docs' \in [1 .. MaxSets -> Nat]
<1> DEFINE a == w[i].alias
<1>1. \A j \in Workers : w'[j] = IF j = i THEN q ELSE w[j]
  BY DEF DocInv
<1>2. a \in Nat /\ a <= sets /\ sets \in 0 .. MaxSets /\ MaxSets \in Nat /\ docs \in [1 .. MaxSets -> Nat]
  BY WebServerConstants DEF DocInv, DocWorker, DocShape, Documents
<1>3. ASSUME NEW d \in (1 .. MaxSets) \ overdrawn
      PROVE  docs'[d] >= Cardinality(Holders(d)') + (IF AliasHolds(d)' THEN 1 ELSE 0)
  <2> DEFINE h == Cardinality(Holders(d))
             h2 == Cardinality(Holders(d)')
             g == IF AliasHolds(d) THEN 1 ELSE 0
  <2>1. /\ docs[d] \in Nat /\ docs[d] >= h + g /\ h \in Nat /\ g \in {0, 1}
        /\ g = IF AliasHolds(d)' THEN 1 ELSE 0
    BY <1>2, HoldersCount DEF DocInv, Counted, AliasHolds
  <2>2. CASE d = a
    <3>1. Holders(d)' = Holders(d) \ {i} /\ i \in Holders(d)
      BY <1>1, <2>2 DEF Holders, Busy
    <3>2. h2 = h - 1 /\ h2 \in Nat
      <4>1. Cardinality(Holders(d) \ {i}) = h - 1 /\ IsFiniteSet(Holders(d) \ {i})
        BY <3>1, HoldersCount, FS_RemoveElement
      <4>2. Cardinality(Holders(d) \ {i}) \in Nat
        BY <4>1, FS_CardinalityType
      <4> QED BY <3>1, <4>1, <4>2
    <3>3. docs[d] # 0
      <4> HIDE DEF h, h2, g
      <4> QED BY <2>1, <3>2
    <3>4. docs'[d] = docs[d] - 1
      BY <1>2, <2>2, <3>3 DEF alias_release, NoDoc
    <3> HIDE DEF h, h2, g
    <3>5. docs'[d] >= h2 + g
      BY <2>1, <3>2, <3>4
    <3> QED BY <2>1, <3>5 DEF h2
  <2>3. CASE d # a
    <3>1. Holders(d)' = Holders(d)
      BY <1>1, <2>3 DEF Holders, Busy
    <3>2. docs'[d] = docs[d]
      BY <1>2, <2>3 DEF alias_release, NoDoc
    <3> QED BY <2>1, <3>1, <3>2
  <2> QED BY <2>2, <2>3
<1>4. docs' \in [1 .. MaxSets -> Nat]
  BY <1>2 DEF alias_release, NoDoc
<1> QED BY <1>3, <1>4 DEF Counted

Over(r) == [r EXCEPT !.pc = "done"]

LEMMA DocReleases == ASSUME DocInv, NEW i \in Workers, Fail(i) \/ Release(i) PROVE DocInv'
<1> DEFINE r == w[i]
<1>0. PICK q : q = Over(r)
  OBVIOUS
<1>9. /\ r.pc \in {"fail", "release"} /\ w' = [w EXCEPT ![i] = q] /\ alias_release(r.alias)
      /\ UNCHANGED <<enabled, gAliasDoc, stale, overdrawn, setter, location, sets>>
  BY <1>0 DEF Fail, Release, Steps, DocInv, Over, setup, bounds, history
<1>1. Busy(i) /\ DocWorker(r) /\ DocShape(r)
  BY <1>9, DocAt DEF Busy
<1>2. DocShape(q) /\ q.pc = "done" /\ q.alias = r.alias /\ q.req = r.req /\ q.loc = r.loc
      /\ q.calm = r.calm /\ q.virt = r.virt /\ q.using = r.using /\ q.out = r.out /\ q.cut = r.cut
  BY <1>0, <1>1 DEF DocShape, Over
<1>3. DocWorker(q)
  <2>1. Asks(q) <=> Asks(r)
    BY <1>2 DEF Asks
  <2>2. Asks(r) => r.pc = "release" /\ r.alias = r.loc.doc
    BY <1>1, <1>9 DEF DocWorker, Served
  <2>3. r.pc = "release" /\ ~r.cut => r.out = DocText(r.alias)
    BY <1>1 DEF DocWorker
  <2>4. Asks(q) => Served(q)
    BY <1>2, <2>1, <2>2, <2>3 DEF Served
  <2> QED BY <1>2, <2>4 DEF DocWorker
<1>4. Counted' /\ docs' \in [1 .. MaxSets -> Nat]
  BY <1>1, <1>2, <1>9, ReleasedCount
<1>5. w' = [j \in Workers |-> w'[j]] /\ \A j \in Workers : w'[j] = IF j = i THEN q ELSE w[j]
  BY <1>9 DEF DocInv
<1>6. Documents' /\ Advertised'
  BY <1>4, <1>9 DEF DocInv, Documents, Advertised
<1>7. ASSUME NEW j \in Workers
      PROVE  /\ DocWorker(w[j])'
             /\ w'[j].alias <= sets' /\ (setter'.pc = "assign" => w'[j].alias < sets')
             /\ Busy(j)' /\ w'[j].calm => w'[j].loc = location'
  <2>1. CASE j = i
    <3>1. w'[j] = q
      BY <1>5, <2>1
    <3>2. q.alias <= sets /\ (setter.pc = "assign" => q.alias < sets)
      BY <1>2, <1>9 DEF DocInv
    <3> QED BY <1>2, <1>3, <1>9, <3>1, <3>2 DEF Busy, DocWorker
  <2>2. CASE j # i
    BY <1>5, <1>9, <2>2 DEF DocInv, Busy
  <2> QED BY <2>1, <2>2
<1> QED BY <1>4, <1>5, <1>6, <1>7 DEF DocInv

LEMMA GrabbedCount ==
  ASSUME DocInv, NEW i \in Workers, w[i].pc = "grab", Valid(gAliasDoc), NEW q,
         q.pc = "info", q.alias = gAliasDoc.doc,
         w' = [w EXCEPT ![i] = q], docs' = Grabbed(gAliasDoc.doc),
         UNCHANGED <<gAliasDoc, stale, overdrawn>>
  PROVE  Counted' /\ docs' \in [1 .. MaxSets -> Nat]
<1> DEFINE a == gAliasDoc.doc
<1>1. \A j \in Workers : w'[j] = IF j = i THEN q ELSE w[j]
  BY DEF DocInv
<1>2. a \in 1 .. MaxSets /\ docs \in [1 .. MaxSets -> Nat] /\ w[i].alias = NoDoc
  BY WebServerConstants DEF DocInv, DocWorker, Documents, Valid, NoDoc
<1>3. ASSUME NEW d \in (1 .. MaxSets) \ overdrawn
      PROVE  docs'[d] >= Cardinality(Holders(d)') + (IF AliasHolds(d)' THEN 1 ELSE 0)
  <2> DEFINE h == Cardinality(Holders(d))
             h2 == Cardinality(Holders(d)')
             g == IF AliasHolds(d) THEN 1 ELSE 0
  <2>1. /\ docs[d] \in Nat /\ docs[d] >= h + g /\ h \in Nat /\ g \in {0, 1}
        /\ g = IF AliasHolds(d)' THEN 1 ELSE 0
    BY <1>2, HoldersCount DEF DocInv, Counted, AliasHolds
  <2>2. CASE d = a
    <3>1. Holders(d)' = Holders(d) \cup {i} /\ i \notin Holders(d)
      BY <1>1, <1>2, <2>2 DEF Holders, Busy, NoDoc
    <3>2. h2 = h + 1
      BY <3>1, HoldersCount, FS_AddElement
    <3>3. docs'[d] = docs[d] + 1
      BY <1>2, <2>2 DEF Grabbed
    <3> HIDE DEF h, h2, g
    <3>4. docs'[d] >= h2 + g
      BY <2>1, <3>2, <3>3
    <3> QED BY <2>1, <3>4 DEF h2
  <2>3. CASE d # a
    <3>1. Holders(d)' = Holders(d)
      BY <1>1, <1>2, <2>3 DEF Holders, Busy, NoDoc
    <3>2. docs'[d] = docs[d]
      BY <1>2, <2>3 DEF Grabbed
    <3> QED BY <2>1, <3>1, <3>2
  <2> QED BY <2>2, <2>3
<1>4. docs' \in [1 .. MaxSets -> Nat]
  BY <1>2 DEF Grabbed
<1> QED BY <1>3, <1>4 DEF Counted

LEMMA DocGrab == ASSUME DocInv, NEW i \in Workers, alias_grab(i) PROVE DocInv'
<1> DEFINE r == w[i]
<1>1. r.pc = "grab" /\ Busy(i) /\ UNCHANGED <<setup, gAliasDoc, history, setter, location, fs, bounds>>
  BY DEF alias_grab, Steps, Busy
<1>2. DocWorker(r) /\ DocShape(r) /\ (r.calm => r.loc = location) /\ r.file = request_doc(r.req)
      /\ ~r.virt
  BY <1>1, DocAt DEF DocWorker
<1>3. CASE Valid(gAliasDoc) /\ docs[gAliasDoc.doc] > 0
  <2> DEFINE d == gAliasDoc.doc
             same == gAliasDoc.name = r.file
  <2>1. PICK q : q = [r EXCEPT !.pc = "info", !.alias = d, !.using = same]
    OBVIOUS
  <2>2. w' = [w EXCEPT ![i] = q] /\ docs' = Grabbed(d)
    BY <1>3, <2>1 DEF alias_grab, DocInv
  <2>3. d \in Nat /\ d <= sets /\ (setter.pc = "assign" => d < sets)
    BY DEF DocInv, Documents
  <2>9. r = w[i] /\ d = gAliasDoc.doc
    OBVIOUS
  <2>11. same \in BOOLEAN /\ d \in Nat
    BY <2>3
  <2> HIDE DEF r, d, same
  <2>4. DocShape(q) /\ q.pc = "info" /\ q.alias = d /\ q.using = same /\ q.req = r.req /\ q.loc = r.loc
        /\ q.calm = r.calm /\ q.virt = r.virt
    BY <1>2, <2>1, <2>11 DEF DocShape
  <2>5. DocWorker(q)
    <3>1. ASSUME Asks(r) PROVE same /\ d = r.loc.doc
      <4>1. r.loc = location /\ location.doc # NoDoc /\ r.req.path = location.path
        BY <1>2, <3>1 DEF Asks
      <4>2. gAliasDoc.doc = location.doc /\ Leads(location.path, gAliasDoc.name)
        BY <4>1 DEF DocInv, Advertised
      <4>3. gAliasDoc.name = request_doc(r.req)
        BY <4>1, <4>2 DEF Leads, request_doc
      <4> QED BY <1>2, <4>1, <4>2, <4>3 DEF same, d
    <3>2. Asks(q) <=> Asks(r)
      BY <2>4 DEF Asks
    <3>3. Asks(q) => Served(q)
      BY <2>4, <3>1, <3>2 DEF Served
    <3> QED BY <2>4, <3>3 DEF DocWorker
  <2>6. Counted' /\ docs' \in [1 .. MaxSets -> Nat]
    BY <1>1, <1>3, <2>2, <2>4, <2>9, GrabbedCount DEF history
  <2>7. w' = [j \in Workers |-> w'[j]] /\ \A j \in Workers : w'[j] = IF j = i THEN q ELSE w[j]
    BY <2>2 DEF DocInv
  <2>8. Documents' /\ Advertised'
    BY <1>1, <2>6 DEF DocInv, Documents, Advertised, setup, bounds
  <2>10. ASSUME NEW j \in Workers
         PROVE  /\ DocWorker(w[j])'
                /\ w'[j].alias <= sets' /\ (setter'.pc = "assign" => w'[j].alias < sets')
                /\ Busy(j)' /\ w'[j].calm => w'[j].loc = location'
    <3>1. CASE j = i
      <4>1. w'[j] = q
        BY <2>7, <3>1
      <4> QED BY <1>1, <1>2, <2>3, <2>4, <2>5, <4>1 DEF Busy, DocWorker, bounds
    <3>2. CASE j # i
      BY <1>1, <2>7, <3>2 DEF DocInv, Busy, bounds
    <3> QED BY <3>1, <3>2
  <2> QED BY <2>6, <2>7, <2>8, <2>10 DEF DocInv
<1>4. CASE ~(Valid(gAliasDoc) /\ docs[gAliasDoc.doc] > 0)
  <2>1. UNCHANGED <<enabled, gAliasDoc, docs, stale, overdrawn, setter, location, sets, w>>
    BY <1>1, <1>4 DEF alias_grab, setup, bounds, history
  <2> QED BY <2>1 DEF DocInv, Documents, Counted, Advertised, Holders, Busy, AliasHolds
<1> QED BY <1>3, <1>4

-----------------------------------------------------------------------------
(* The description document: how it is set *)

LEMMA DocNotCalm ==
  ASSUME NEW r, DocWorker(r), NEW q, q = [r EXCEPT !.calm = FALSE]
  PROVE  DocWorker(q) /\ q.pc = r.pc /\ q.alias = r.alias /\ ~q.calm
<1>1. DocShape(q) /\ q.pc = r.pc /\ q.alias = r.alias /\ ~q.calm /\ q.virt = r.virt /\ q.using = r.using
      /\ q.file = r.file /\ q.req = r.req /\ q.cut = r.cut /\ q.out = r.out
  BY DEF DocWorker, DocShape
<1>2. ~Asks(q)
  BY <1>1 DEF Asks
<1> QED BY <1>1, <1>2 DEF DocWorker

\* Every request learns of a change; who holds what stays as it is.
LEMMA DocCalm ==
  ASSUME DocInv, w' = [j \in Workers |-> [w[j] EXCEPT !.calm = FALSE]]
  PROVE  /\ w' = [j \in Workers |-> w'[j]]
         /\ \A j \in Workers : DocWorker(w[j])' /\ w'[j].alias = w[j].alias /\ (Busy(j)' <=> Busy(j))
                               /\ ~w'[j].calm
         /\ \A d : Holders(d)' = Holders(d)
<1>1. ASSUME NEW j \in Workers
      PROVE  DocWorker(w'[j]) /\ w'[j].pc = w[j].pc /\ w'[j].alias = w[j].alias /\ ~w'[j].calm
  BY DocNotCalm DEF DocInv
<1>2. \A j \in Workers : Busy(j)' <=> Busy(j)
  BY <1>1 DEF Busy
<1>3. \A d : Holders(d)' = Holders(d)
  BY <1>1, <1>2 DEF Holders
<1>4. \A j \in Workers : DocWorker(w[j])'
  BY <1>1 DEF DocWorker
<1> QED BY <1>1, <1>2, <1>3, <1>4

LEMMA DocVirtualDirs ==
  ASSUME DocInv, UpnpAddVirtualDir \/ UpnpRemoveVirtualDir \/ UpnpRemoveAllVirtualDirs
  PROVE  DocInv'
<1>1. /\ w' = [j \in Workers |-> [w[j] EXCEPT !.calm = FALSE]]
      /\ UNCHANGED <<enabled, gAliasDoc, docs, stale, overdrawn, setter, location, sets>>
  BY DEF UpnpAddVirtualDir, UpnpRemoveVirtualDir, UpnpRemoveAllVirtualDirs, history
<1>2. Documents' /\ Advertised'
  BY <1>1 DEF DocInv, Documents, Advertised
<1>3. \A d \in 1 .. MaxSets : Holders(d)' \subseteq Holders(d)
  BY <1>1, DocCalm
<1>4. Counted'
  BY <1>1, <1>3, CountKept
<1>5. ASSUME NEW j \in Workers
      PROVE  /\ DocWorker(w[j])'
             /\ w'[j].alias <= sets' /\ (setter'.pc = "assign" => w'[j].alias < sets')
             /\ Busy(j)' /\ w'[j].calm => w'[j].loc = location'
  BY <1>1, DocCalm DEF DocInv
<1>6. w' = [j \in Workers |-> w'[j]]
  BY <1>1, DocCalm
<1> QED BY <1>2, <1>4, <1>5, <1>6 DEF DocInv

\* A file that is being sent changes.
LEMMA DocFileChanges == ASSUME DocInv, FileChanges PROVE DocInv'
<1>1. PICK f \in DOMAIN fs : w' = [j \in Workers |-> [w[j] EXCEPT !.same = @ /\ w[j].file # f]]
  BY DEF FileChanges
<1>2. UNCHANGED <<enabled, gAliasDoc, docs, stale, overdrawn, setter, location, sets>>
  BY DEF FileChanges, setup, history
<1>3. ASSUME NEW j \in Workers
      PROVE  /\ DocWorker(w'[j]) /\ w'[j].alias = w[j].alias /\ w'[j].calm = w[j].calm
             /\ w'[j].pc = w[j].pc /\ w'[j].loc = w[j].loc
  <2> DEFINE r == w[j]
             same == r.same /\ r.file # f
             q == [r EXCEPT !.same = same]
  <2>1. DocWorker(r) /\ DocShape(r)
    BY DEF DocInv, DocWorker
  <2>2. w'[j] = q
    BY <1>1, <2>1 DEF DocShape
  <2> HIDE DEF r, same
  <2>3. /\ DocShape(q) /\ q.pc = r.pc /\ q.req = r.req /\ q.loc = r.loc /\ q.calm = r.calm
        /\ q.virt = r.virt /\ q.alias = r.alias /\ q.using = r.using /\ q.file = r.file
        /\ q.cut = r.cut /\ q.out = r.out
    BY <2>1 DEF DocShape
  <2> HIDE DEF q
  <2>4. (Asks(q) <=> Asks(r)) /\ (Served(q) <=> Served(r))
    BY <2>3 DEF Asks, Served
  <2>5. DocWorker(q)
    BY <2>1, <2>3, <2>4 DEF DocWorker
  <2> QED BY <2>2, <2>3, <2>5 DEF r
<1>4. \A j \in Workers : Busy(j)' <=> Busy(j)
  BY <1>3 DEF Busy
<1>5. \A d \in 1 .. MaxSets : Holders(d)' \subseteq Holders(d)
  BY <1>3, <1>4 DEF Holders
<1>6. Counted'
  BY <1>2, <1>5, CountKept
<1>7. Documents' /\ Advertised'
  BY <1>2 DEF DocInv, Documents, Advertised
<1>8. w' = [j \in Workers |-> w'[j]]
  BY <1>1
<1>9. ASSUME NEW j \in Workers
      PROVE  /\ DocWorker(w[j])'
             /\ w'[j].alias <= sets' /\ (setter'.pc = "assign" => w'[j].alias < sets')
             /\ Busy(j)' /\ w'[j].calm => w'[j].loc = location'
  <2>1. DocWorker(w[j])'
    BY <1>3 DEF DocWorker
  <2> QED BY <1>2, <1>3, <1>4, <2>1 DEF DocInv
<1> QED BY <1>6, <1>7, <1>8, <1>9 DEF DocInv

\* The reference of gAliasDoc is dropped: it had one to give, or the document is
\* overdrawn.
LEMMA ReleasesCount ==
  ASSUME DocInv, AliasDropped, \A d : Holders(d)' = Holders(d), gAliasDoc'.doc \in {NoDoc, gAliasDoc.doc},
         stale' \/ gAliasDoc'.doc = NoDoc
  PROVE  Counted' /\ docs' \in [1 .. MaxSets -> Nat]
<1> DEFINE g == gAliasDoc.doc
<1>1. g \in 0 .. MaxSets /\ docs \in [1 .. MaxSets -> Nat]
  BY WebServerConstants DEF DocInv, Documents
<1>2. ASSUME NEW d \in (1 .. MaxSets) \ overdrawn'
      PROVE  docs'[d] >= Cardinality(Holders(d)') + (IF AliasHolds(d)' THEN 1 ELSE 0)
  <2> DEFINE h == Cardinality(Holders(d))
  <2>0. d \notin overdrawn
    BY DEF AliasDropped
  <2>1. /\ docs[d] \in Nat /\ docs[d] >= h + (IF AliasHolds(d) THEN 1 ELSE 0) /\ h \in Nat
        /\ Cardinality(Holders(d)') = h
    BY <1>1, <2>0, HoldersCount DEF DocInv, Counted
  <2>2. ~AliasHolds(d)'
    BY DEF AliasHolds, NoDoc
  <2>3. CASE d = g
    <3>1. AliasHolds(d)
      BY <2>3 DEF AliasDropped, AliasHolds
    <3>2. docs[d] >= h + 1 /\ docs[d] # 0
      <4> HIDE DEF h
      <4> QED BY <2>1, <3>1
    <3>3. docs'[d] = docs[d] - 1
      BY <1>1, <2>3, <3>2 DEF AliasDropped, alias_release, NoDoc
    <3> HIDE DEF h
    <3>4. docs'[d] >= h
      BY <2>1, <3>2, <3>3
    <3> QED BY <2>1, <2>2, <3>4
  <2>4. CASE d # g
    <3>1. docs'[d] = docs[d]
      BY <1>1, <2>4 DEF AliasDropped, alias_release, NoDoc
    <3> HIDE DEF h
    <3>2. docs[d] >= h
      BY <2>1
    <3> QED BY <2>1, <2>2, <3>1, <3>2
  <2> QED BY <2>3, <2>4
<1>3. docs' \in [1 .. MaxSets -> Nat]
  BY <1>1 DEF AliasDropped, alias_release, NoDoc
<1> QED BY <1>2, <1>3 DEF Counted

LEMMA DocSetReleases ==
  ASSUME DocInv, NEW name, NEW loc, SetAliasReleases(name, loc),
         \/ name # NoText /\ Leads(loc, WithSlash(name)) /\ sets < MaxSets /\ sets' = sets + 1
         \/ name = NoText /\ sets' = sets
  PROVE  DocInv'
<1>1. /\ setter.pc = "none" /\ AliasDropped /\ enabled /\ enabled' = enabled
      /\ location' = NoLocation
      /\ setter' = [pc |-> IF name = NoText THEN "none" ELSE "assign", name |-> name, loc |-> loc]
      /\ w' = [j \in Workers |-> [w[j] EXCEPT !.calm = FALSE]]
  BY DEF SetAliasReleases, setup
<1>2. gAliasDoc' \in {NoAlias, gAliasDoc} /\ (stale' \/ gAliasDoc' = NoAlias)
  BY DEF SetAliasReleases
<1>3. /\ gAliasDoc.doc \in 0 .. sets /\ sets \in 0 .. MaxSets /\ MaxSets \in Nat
      /\ gAliasDoc'.doc \in {NoDoc, gAliasDoc.doc} /\ (stale' \/ gAliasDoc'.doc = NoDoc)
  BY <1>2, WebServerConstants DEF DocInv, Documents, NoAlias
<1>4. /\ setter' \in [pc : {"none", "assign"}, name : {setter'.name}, loc : {setter'.loc}]
      /\ setter'.pc = "assign" <=> name # NoText
      /\ setter'.name = name /\ setter'.loc = loc
  BY <1>1
<1>5. Counted' /\ docs' \in [1 .. MaxSets -> Nat]
  <2>1. \A d : Holders(d)' = Holders(d)
    BY <1>1, DocCalm
  <2> QED BY <1>1, <1>3, <2>1, ReleasesCount
<1>6. /\ sets' \in 0 .. MaxSets /\ gAliasDoc'.doc \in 0 .. sets'
      /\ setter'.pc = "assign" => gAliasDoc'.doc < sets' /\ sets' = sets + 1
      /\ sets <= sets'
  BY <1>3, <1>4 DEF NoDoc
<1>7. Documents'
  BY <1>4, <1>5, <1>6 DEF Documents
<1>8. Advertised'
  BY <1>1, <1>4 DEF Advertised, NoLocation
<1>9. ASSUME NEW j \in Workers
      PROVE  /\ DocWorker(w[j])'
             /\ w'[j].alias <= sets' /\ (setter'.pc = "assign" => w'[j].alias < sets')
             /\ Busy(j)' /\ w'[j].calm => w'[j].loc = location'
  <2>1. w[j].alias \in Nat /\ w[j].alias <= sets
    BY DEF DocInv, DocWorker, DocShape
  <2>2. w'[j].alias <= sets' /\ (setter'.pc = "assign" => w'[j].alias < sets')
    <3>1. w'[j].alias = w[j].alias
      BY <1>1, DocCalm
    <3> QED BY <1>3, <1>6, <2>1, <3>1
  <2> QED BY <1>1, <2>2, DocCalm
<1>10. w' = [j \in Workers |-> w'[j]]
  BY <1>1, DocCalm
<1> QED BY <1>5, <1>7, <1>8, <1>9, <1>10 DEF DocInv

LEMMA DocRegister == ASSUME DocInv, AliasesPlain, Register PROVE DocInv'
<1>1. PICK d \in Descs :
        LET c == configure_urlbase(d.base, d.alias, "8080")
        IN c.ok /\ SetAliasReleases(c.name, http_FixUrl(c.descURL).pathquery)
  BY DEF Register
<1> DEFINE c == configure_urlbase(d.base, d.alias, "8080")
           loc == http_FixUrl(c.descURL).pathquery
<1>2. /\ c.name \in Seq(STRING) \ {<<>>, NoText} /\ request_doc([path |-> loc]) = WithSlash(c.name)
      /\ SetAliasReleases(c.name, loc) /\ sets < MaxSets /\ sets' = sets + 1
  BY <1>1 DEF AliasesPlain, Register
<1> HIDE DEF c, loc
<1>3. Rooted(WithSlash(c.name))
  <2>1. c.name \in Seq(STRING) /\ c.name # <<>>
    BY <1>2
  <2>2. CASE c.name[1] = "/"
    BY <2>1, <2>2 DEF Rooted, WithSlash
  <2>3. CASE c.name[1] # "/"
    <3>1. (<<"/">> \o c.name)[1] = "/" /\ Len(<<"/">> \o c.name) > 0
      BY <2>1
    <3> QED BY <2>1, <2>3, <3>1 DEF Rooted, WithSlash
  <2> QED BY <2>2, <2>3
<1>4. Leads(loc, WithSlash(c.name))
  BY <1>2, <1>3 DEF Leads
<1> QED BY <1>2, <1>4, DocSetReleases

LEMMA DocUnregister == ASSUME DocInv, Unregister PROVE DocInv'
BY DocSetReleases DEF Unregister

\* The new document takes its place, with the reference of gAliasDoc.
LEMMA DocAssigns == ASSUME DocInv, SetAliasAssigns PROVE DocInv'
<1>1. /\ setter.pc = "assign" /\ gAliasDoc' = [doc |-> sets, name |-> WithSlash(setter.name)]
      /\ docs' = [docs EXCEPT ![sets] = 1] /\ location' = [path |-> setter.loc, doc |-> sets]
      /\ setter' = [setter EXCEPT !.pc = "none", !.loc = NoText]
      /\ w' = [j \in Workers |-> [w[j] EXCEPT !.calm = FALSE]]
      /\ enabled' = enabled /\ sets' = sets /\ overdrawn' = overdrawn
  BY DEF SetAliasAssigns, setup
<1>2. sets \in 1 .. MaxSets /\ docs \in [1 .. MaxSets -> Nat] /\ gAliasDoc.doc < sets
  BY <1>1, WebServerConstants DEF DocInv, Documents
<1>3. /\ setter' \in [pc : {"none", "assign"}, name : {setter'.name}, loc : {setter'.loc}]
      /\ setter'.pc = "none"
  <2>1. setter \in [pc : {"none", "assign"}, name : {setter.name}, loc : {setter.loc}]
    BY DEF DocInv, Documents
  <2>2. setter' = [pc |-> "none", name |-> setter.name, loc |-> NoText]
    BY <1>1, <2>1
  <2> QED BY <2>2
<1>4. docs' \in [1 .. MaxSets -> Nat]
  BY <1>1, <1>2
<1>5. Counted'
  <2> SUFFICES ASSUME NEW d \in (1 .. MaxSets) \ overdrawn
               PROVE  docs'[d] >= Cardinality(Holders(d)') + (IF AliasHolds(d)' THEN 1 ELSE 0)
    BY <1>1 DEF Counted
  <2>1. Holders(d)' = Holders(d)
    BY <1>1, DocCalm
  <2>2. CASE d = sets
    <3>1. Holders(d) = {}
      <4>1. \A j \in Workers : w[j].alias \in Nat /\ w[j].alias < sets
        BY <1>1 DEF DocInv, DocWorker, DocShape
      <4> QED BY <1>2, <2>2, <4>1 DEF Holders
    <3>2. Cardinality(Holders(d)') = 0
      BY <2>1, <3>1, FS_EmptySet
    <3>3. docs'[d] = 1
      BY <1>1, <1>2, <2>2
    <3> QED BY <3>2, <3>3
  <2>3. CASE d # sets
    <3>1. docs'[d] = docs[d] /\ docs[d] \in Nat
      BY <1>1, <1>2, <2>3
    <3>2. ~AliasHolds(d)'
      BY <1>1, <2>3 DEF AliasHolds
    <3>3. docs[d] >= Cardinality(Holders(d)) + (IF AliasHolds(d) THEN 1 ELSE 0)
      BY DEF DocInv, Counted
    <3>4. Cardinality(Holders(d)) \in Nat
      BY HoldersCount
    <3>5. docs[d] >= Cardinality(Holders(d))
      BY <3>1, <3>3, <3>4
    <3> QED BY <2>1, <3>1, <3>2, <3>4, <3>5
  <2> QED BY <2>2, <2>3
<1>6. Documents'
  BY <1>1, <1>2, <1>3, <1>4 DEF Documents
<1>7. Advertised'
  <2>1. enabled /\ Leads(setter.loc, WithSlash(setter.name))
    BY <1>1 DEF DocInv, Advertised
  <2>2. Leads(location'.path, gAliasDoc'.name) /\ gAliasDoc'.doc = location'.doc
    BY <1>1, <2>1
  <2> QED BY <1>1, <1>3, <2>1, <2>2 DEF Advertised
<1>8. ASSUME NEW j \in Workers
      PROVE  /\ DocWorker(w[j])'
             /\ w'[j].alias <= sets' /\ (setter'.pc = "assign" => w'[j].alias < sets')
             /\ Busy(j)' /\ w'[j].calm => w'[j].loc = location'
  <2>1. w[j].alias <= sets
    BY DEF DocInv
  <2>2. w'[j].alias <= sets'
    <3>1. w'[j].alias = w[j].alias
      BY <1>1, DocCalm
    <3> QED BY <1>1, <2>1, <3>1
  <2> QED BY <1>1, <1>3, <2>2, DocCalm
<1>9. w' = [j \in Workers |-> w'[j]]
  BY <1>1, DocCalm
<1> QED BY <1>5, <1>6, <1>7, <1>8, <1>9 DEF DocInv

\* The web server ends, whatever requests are handled.
LEMMA DocDestroys == ASSUME DocInv, web_server_destroy PROVE DocInv'
<1>1. /\ setter.pc = "none" /\ AliasDropped /\ gAliasDoc' = NoAlias
      /\ location' = NoLocation /\ UNCHANGED <<setter, sets>>
      /\ w' = [j \in Workers |-> [w[j] EXCEPT !.calm = FALSE]]
  BY DEF web_server_destroy
<1>2. gAliasDoc'.doc = NoDoc
  BY <1>1 DEF NoAlias
<1>3. Counted' /\ docs' \in [1 .. MaxSets -> Nat]
  <2>1. \A d : Holders(d)' = Holders(d)
    BY <1>1, DocCalm
  <2> QED BY <1>1, <1>2, <2>1, ReleasesCount
<1>4. gAliasDoc'.doc = 0 /\ sets \in 0 .. MaxSets /\ MaxSets \in Nat
  BY <1>1, WebServerConstants DEF NoAlias, NoDoc, DocInv, Documents
<1>5. Documents'
  BY <1>1, <1>3, <1>4 DEF Documents, DocInv
<1>6. Advertised'
  BY <1>1 DEF Advertised, NoLocation
<1>7. ASSUME NEW j \in Workers
      PROVE  /\ DocWorker(w[j])'
             /\ w'[j].alias <= sets' /\ (setter'.pc = "assign" => w'[j].alias < sets')
             /\ Busy(j)' /\ w'[j].calm => w'[j].loc = location'
  <2>1. w'[j].alias <= sets'
    <3>1. w'[j].alias = w[j].alias
      BY <1>1, DocCalm
    <3> QED BY <1>1, <3>1 DEF DocInv
  <2> QED BY <1>1, <2>1, DocCalm
<1>8. w' = [j \in Workers |-> w'[j]]
  BY <1>1, DocCalm
<1> QED BY <1>3, <1>5, <1>6, <1>7, <1>8 DEF DocInv

\* ... and is started again.
LEMMA DocStarts == ASSUME DocInv, web_server_init PROVE DocInv'
<1>1. ~enabled /\ gAliasDoc' = NoAlias /\ UNCHANGED <<docs, stale, overdrawn, setter, location, w, sets>>
  BY DEF web_server_init
<1>2. setter.pc = "none" /\ location.doc = NoDoc
  BY <1>1 DEF DocInv, Advertised
<1>3. gAliasDoc'.doc = 0 /\ sets \in 0 .. MaxSets /\ MaxSets \in Nat
  BY <1>1, WebServerConstants DEF NoAlias, NoDoc, DocInv, Documents
<1>4. Documents'
  BY <1>1, <1>2, <1>3 DEF Documents, DocInv
<1>5. Advertised'
  BY <1>1, <1>2 DEF Advertised
<1>6. Counted'
  <2> SUFFICES ASSUME NEW d \in (1 .. MaxSets) \ overdrawn
               PROVE  docs'[d] >= Cardinality(Holders(d)') + (IF AliasHolds(d)' THEN 1 ELSE 0)
    BY <1>1 DEF Counted
  <2>1. Holders(d)' = Holders(d)
    BY <1>1 DEF Holders, Busy
  <2>2. docs[d] >= Cardinality(Holders(d)) + (IF AliasHolds(d) THEN 1 ELSE 0) /\ docs[d] \in Nat
    BY DEF DocInv, Counted, Documents
  <2>3. Cardinality(Holders(d)) \in Nat /\ ~AliasHolds(d)'
    BY <1>3, HoldersCount DEF AliasHolds
  <2> QED BY <1>1, <2>1, <2>2, <2>3
<1> QED BY <1>1, <1>4, <1>5, <1>6 DEF DocInv, Busy, DocWorker

\* Steps that touch nothing of this.
LEMMA DocAside ==
  ASSUME DocInv, UNCHANGED <<enabled, gAliasDoc, docs, stale, overdrawn, setter, location, w, sets>>
  PROVE  DocInv'
BY DEF DocInv, Documents, Counted, Advertised, Holders, Busy, AliasHolds, DocWorker

LEMMA DocInvInit == ASSUME Init PROVE DocInv
<1>1. PICK asked \in Requests : w = [j \in Workers |-> [Idle EXCEPT !.req = asked[j]]]
  BY DEF Init
<1>2. ASSUME NEW j \in Workers PROVE DocWorker(w[j]) /\ w[j].alias = 0 /\ ~Busy(j)
  <2> DEFINE req == asked[j]
             p == [Idle EXCEPT !.req = req]
  <2>1. w[j] = p
    BY <1>1
  <2> HIDE DEF req
  <2>2. DocShape(p) /\ p.alias = NoDoc /\ ~p.virt /\ ~p.using /\ p.pc = "idle"
    BY DEF Idle, DocShape, NoDoc
  <2> HIDE DEF p
  <2> QED BY <2>1, <2>2 DEF DocWorker, Served, NoDoc, Busy
<1>3. w = [j \in Workers |-> w[j]]
  BY <1>1
<1>4. /\ gAliasDoc.doc = 0 /\ sets = 0 /\ docs = [d \in 1 .. MaxSets |-> 0] /\ location.doc = NoDoc
      /\ overdrawn = {}
      /\ setter = [pc |-> "none", name |-> NoText, loc |-> NoText] /\ MaxSets \in Nat
  BY WebServerConstants DEF Init, NoAlias, NoDoc, NoLocation
<1>5. Documents /\ Advertised
  BY <1>4 DEF Documents, Advertised
<1>6. Counted
  <2>1. \A d : Cardinality(Holders(d)) = 0
    BY <1>2, FS_EmptySet DEF Holders
  <2> QED BY <1>4, <2>1 DEF Counted, AliasHolds
<1> QED BY <1>2, <1>3, <1>4, <1>5, <1>6 DEF DocInv

LEMMA DocInvStep == ASSUME AliasesPlain, DocInv, [Next]_vars PROVE DocInv'
<1>1. CASE UpnpAddVirtualDir \/ UpnpRemoveVirtualDir \/ UpnpRemoveAllVirtualDirs
  BY <1>1, DocVirtualDirs
<1>2. CASE Register
  BY <1>2, DocRegister
<1>3. CASE Unregister
  BY <1>3, DocUnregister
<1>4. CASE SetAliasAssigns
  BY <1>4, DocAssigns
<1>5. CASE web_server_destroy
  BY <1>5, DocDestroys
<1>6. CASE web_server_init
  BY <1>6, DocStarts
<1>7. CASE web_server_set_root_dir
  BY <1>7, DocAside DEF web_server_set_root_dir, bounds, history
<1>8. CASE FileChanges
  BY <1>8, DocFileChanges
<1>9. ASSUME NEW i \in Workers, Arrive(i) \/ Work(i) PROVE DocInv'
  <2>1. CASE Fail(i) \/ Release(i)
    BY <2>1, DocReleases
  <2>2. CASE Open(i) \/ Copy(i) \/ PostOpens(i) \/ PostReceives(i) \/ PostWrites(i)
    BY <2>2, DocOther
  <2>3. CASE Arrive(i) \/ Look(i) \/ alias_grab(i)
    BY <2>3, DocArrive, DocLook, DocGrab
  <2>4. CASE InfoAlias(i) \/ InfoVirtual(i) \/ InfoFile(i) \/ SendHead(i) \/ SendDoc(i)
    BY <2>4, DocInfoAlias, DocInfoVirtual, DocInfoFile, DocSendHead, DocSendDoc
  <2> QED BY <1>9, <2>1, <2>2, <2>3, <2>4 DEF Work
<1>10. CASE UNCHANGED vars
  BY <1>10, DocAside DEF vars, history
<1> QED BY <1>1, <1>2, <1>3, <1>4, <1>5, <1>6, <1>7, <1>8, <1>9, <1>10 DEF Next

\* A document that is held is counted.
LEMMA HeldUsable == ASSUME DocInv PROVE DocUsable
<1> SUFFICES ASSUME NEW i \in Workers, w[i].alias \notin {NoDoc} \cup overdrawn, Busy(i) PROVE docs[w[i].alias] > 0
  BY DEF DocUsable
<1> DEFINE d == w[i].alias
           h == Cardinality(Holders(d))
<1>1. d \in (1 .. MaxSets) \ overdrawn
  BY WebServerConstants DEF DocInv, Documents, DocWorker, DocShape, NoDoc
<1>2. docs[d] >= h + (IF AliasHolds(d) THEN 1 ELSE 0) /\ docs[d] \in Nat /\ h \in Nat
  BY <1>1, HoldersCount DEF DocInv, Counted, Documents
<1>3. h # 0
  <2>1. i \in Holders(d)
    BY DEF Holders
  <2> QED BY <2>1, HoldersCount, FS_EmptySet
<1> HIDE DEF d, h
<1>4. docs[d] > 0
  BY <1>2, <1>3
<1> QED BY <1>4 DEF d

LEMMA AdvertisedServed == ASSUME DocInv PROVE LocationServed
<1> SUFFICES ASSUME NEW i \in Workers, w[i].pc = "done", w[i].calm, ~w[i].cut, w[i].loc.doc # NoDoc,
                    w[i].req.method = "GET", w[i].req.range.kind = "none",
                    w[i].req.path = w[i].loc.path, ~w[i].virt
             PROVE  w[i].out = DocText(w[i].loc.doc)
  BY DEF LocationServed
<1>1. Asks(w[i]) /\ DocWorker(w[i])
  BY DEF Asks, DocInv
<1> QED BY <1>1 DEF DocWorker, Served

\* A document that a request has taken from gAliasDoc is not freed before the
\* request releases it, whatever is registered, unregistered or ended meanwhile,
\* unless gAliasDoc dropped its reference twice (alias_grab, alias_release,
\* web_server_set_alias, web_server_destroy), and who asks for the URL that is
\* advertised while nothing changes gets the description and all of it
\* (configure_urlbase, process_request, http_SendMessage).  The URLs of the
\* descriptions lead to their aliases.
THEOREM DocIsServed == ASSUME AliasesPlain PROVE Spec => []DocServed
<1>1. Init => DocInv
  BY DocInvInit
<1>2. DocInv /\ [Next]_vars => DocInv'
  BY DocInvStep
<1>3. DocInv => DocServed
  BY HeldUsable, AdvertisedServed DEF DocServed
<1> QED BY <1>1, <1>2, <1>3, PTL DEF Spec
==============================================================================
