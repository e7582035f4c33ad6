------------------------------ MODULE WebServer ------------------------------
(***************************************************************************)
(* The web server: genlib/net/http/webserver.c, the part of                *)
(* http_SendMessage that sends files, and the calls of api/upnpapi.c that  *)
(* set it up.  Requests are handled by jobs of the pool, several at a      *)
(* time; the description document of a device (the alias) is shared by     *)
(* them and counted.  Files change while they are being sent.              *)
(***************************************************************************)
EXTENDS Uri

CONSTANTS
  Workers,       \* jobs of the pool, each handles one request
  Requests,      \* what clients ask together: per worker [method, path, range, te,
                 \* minor, body], or NoRequest
  Files,         \* what the files hold at first
  Descs,         \* descriptions that are registered: [base, alias]
  Contents,      \* what a file may hold, sequences of bytes, or NoFile
  Paths,         \* names of files below the root
  VPaths,        \* names of files in virtual directories
  Dirs,          \* names of directories
  VDirs,         \* virtual directories that are added
  DirLists,      \* the ones there are at first
  BufSize,       \* WEB_SERVER_BUF_SIZE, and the buffer of http_RecvPostMessage
  MaxSets, MaxChanges

VARIABLES
  enabled,          \* bWebServerState, and the callback of the mini server
  gDocumentRootDir, \* a root directory is set
  pVirtualDirList,  \* the virtual directories, in order
  gAliasDoc,        \* [doc, name]
  docs,             \* per document: its count, 0 when it was freed
  installed,        \* how many registered devices have an alias (aliasInstalled)
  stale,            \* history: gAliasDoc names a document whose reference it dropped
  overdrawn,        \* history: documents whose reference gAliasDoc dropped twice
  setter,           \* the thread that changes the alias
  location,         \* what was advertised: [path, doc], NoLocation
  fs,               \* the files: per path its contents
  w,                \* the workers
  sets, changes,
  crashed           \* an assertion failed, or a freed document was used

vars == <<enabled, gDocumentRootDir, pVirtualDirList, gAliasDoc, docs, installed, stale, overdrawn,
          setter, location, fs, w, sets, changes, crashed>>
history == <<installed, stale, overdrawn>>
setup == <<enabled, gDocumentRootDir, pVirtualDirList>>
bounds == <<sets, changes>>

NoFile == <<0>>
NoDoc == 0
NoLocation == [path |-> NoText, doc |-> NoDoc]
NoAlias == [doc |-> NoDoc, name |-> NoText]
DocText(d) == <<9, 10 + d, 9>>

USING_CHUNKED == -3
UNTIL_CLOSE   == -2

Instr0 == [range |-> FALSE, chunk |-> FALSE, off |-> 0, size |-> 0]
NoHead == [status |-> 0]
NoRequest == [method |-> "none"]

\* The ranges a client may ask for, and what it may ask.
RangeOk(rg) == \/ rg.kind \in {"none", "bad"}
               \/ rg.kind = "from-to" /\ rg.first \in Nat /\ rg.last \in Nat
               \/ rg.kind = "from" /\ rg.first \in Nat /\ rg.last = -1
               \/ rg.kind = "suffix" /\ rg.first = -1 /\ rg.last \in Nat
RequestOk(r) == /\ r.method # "none" /\ RangeOk(r.range) /\ r.te \in BOOLEAN
                /\ r.minor \in Nat /\ r.body \in Seq(Nat)

ASSUME WebServerConstants ==
  /\ IsFiniteSet(Workers) /\ BufSize \in Nat \ {0} /\ MaxSets \in Nat
  /\ Paths \cup VPaths \subseteq Seq(STRING)
  /\ Files \subseteq [Paths \cup VPaths -> Seq(Nat)] /\ Contents \subseteq Seq(Nat)
  /\ \A asked \in Requests : \A i \in Workers : asked[i] = NoRequest \/ RequestOk(asked[i])

Idle == [pc |-> "idle", req |-> NoRequest, file |-> NoText, virt |-> FALSE, alias |-> NoDoc,
         using |-> FALSE, len |-> 0, index |-> FALSE, instr |-> Instr0, code |-> 0, head |-> NoHead,
         pos |-> 0, left |-> 0, out |-> <<>>, end |-> FALSE, have |-> 0, buf |-> BufSize,
         calm |-> TRUE, same |-> TRUE, cut |-> FALSE, src |-> NoFile, loc |-> NoLocation]

Busy(i) == w[i].pc \notin {"idle", "done"}
Valid(a) == a.doc # NoDoc
Lesser(a, b) == IF a < b THEN a ELSE b

-----------------------------------------------------------------------------
(* Content types *)

gMediaTypeList == <<"aif", "htm", "html", "txt", "xml">>
Rank(x) == CASE x = "aif" -> 1 [] x = "htm" -> 2 [] x = "html" -> 3 [] x = "jpg" -> 4
             [] x = "txt" -> 5 [] x = "xml" -> 6 [] OTHER -> 7

\* One turn of the loop that looks for extension x between `top' and `bot'.
Halve(x, s) ==
    LET mid == (s.top + s.bot) \div 2
        cmp == Rank(x) - Rank(gMediaTypeList[mid])
    IN CASE s.top > s.bot \/ s.found # 0 -> s
         [] s.top <= s.bot /\ s.found = 0 /\ cmp > 0 -> [s EXCEPT !.top = mid + 1]
         [] s.top <= s.bot /\ s.found = 0 /\ cmp < 0 -> [s EXCEPT !.bot = mid - 1]
         [] s.top <= s.bot /\ s.found = 0 /\ cmp = 0 -> [s EXCEPT !.found = mid]

\* The index of the extension, or 0.  Three turns are enough for five entries.
search_extension(x) ==
    Halve(x, Halve(x, Halve(x, [top |-> 1, bot |-> Len(gMediaTypeList), found |-> 0]))).found

get_content_type(path) ==
    LET dots == {k \in DOMAIN path : path[k] = "."}
        ext == From(path, (CHOOSE k \in dots : \A j \in dots : j <= k) + 1)
    IN IF dots = {} \/ Len(ext) # 1 \/ search_extension(ext[1]) = 0 THEN "octet-stream"
       ELSE gMediaTypeList[search_extension(ext[1])]

-----------------------------------------------------------------------------
(* Virtual directories *)

WithSlash(dir) == IF dir[1] = "/" THEN dir ELSE <<"/">> \o dir

isFileInVirtualDir(path) ==
    \E k \in DOMAIN pVirtualDirList :
      LET dir == pVirtualDirList[k]
      IN /\ IsPrefix(dir, path)
         /\ \/ Last(dir) = "/"
            \/ Len(path) = Len(dir)
            \/ path[Len(dir) + 1] \in {"/", "?"}

UpnpAddVirtualDir ==
    /\ changes < MaxChanges /\ ~crashed
    /\ \E dir \in VDirs :
         pVirtualDirList' = IF \E k \in DOMAIN pVirtualDirList : pVirtualDirList[k] = WithSlash(dir)
                            THEN pVirtualDirList
                            ELSE Append(pVirtualDirList, WithSlash(dir))
    /\ changes' = changes + 1
    /\ w' = [i \in Workers |-> [w[i] EXCEPT !.calm = FALSE]]
    /\ UNCHANGED <<enabled, gDocumentRootDir, gAliasDoc, docs, history, setter, location, fs, sets, crashed>>

\* The name must be the one in the list: no slash is put before it.
UpnpRemoveVirtualDir ==
    /\ changes < MaxChanges /\ ~crashed
    /\ \E dir \in VDirs : pVirtualDirList' = SelectSeq(pVirtualDirList, LAMBDA d : d # dir)
    /\ changes' = changes + 1
    /\ w' = [i \in Workers |-> [w[i] EXCEPT !.calm = FALSE]]
    /\ UNCHANGED <<enabled, gDocumentRootDir, gAliasDoc, docs, history, setter, location, fs, sets, crashed>>

UpnpRemoveAllVirtualDirs ==
    /\ pVirtualDirList # <<>> /\ changes < MaxChanges /\ ~crashed
    /\ pVirtualDirList' = <<>> /\ changes' = changes + 1
    /\ w' = [i \in Workers |-> [w[i] EXCEPT !.calm = FALSE]]
    /\ UNCHANGED <<enabled, gDocumentRootDir, gAliasDoc, docs, history, setter, location, fs, sets, crashed>>

-----------------------------------------------------------------------------
(* The alias *)

\* Mutant of Grabbed: the copy is not counted.
GrabbedUncounted(d) == docs

Grabbed(d) == [docs EXCEPT ![d] = @ + 1]

\* A reference is dropped.  Whoever drops one of a document that was freed runs
\* into the assertion on its count, or reads freed memory.
alias_release(d) ==
    /\ docs' = IF d = NoDoc \/ docs[d] = 0 THEN docs ELSE [docs EXCEPT ![d] = @ - 1]
    /\ crashed' = (d # NoDoc /\ docs[d] = 0)

\* The reference of gAliasDoc is dropped, a second time when it is stale.
\* gAliasDoc itself is emptied only if that freed the document.
AliasDropped ==
    /\ alias_release(gAliasDoc.doc)
    /\ overdrawn' = IF stale THEN overdrawn \cup {gAliasDoc.doc} ELSE overdrawn

\* web_server_set_alias, first half.
SetAliasReleases(name, loc) ==
    LET freed == Valid(gAliasDoc) => docs[gAliasDoc.doc] = 1
    IN /\ setter.pc = "none" /\ ~crashed /\ enabled
       /\ AliasDropped
       /\ gAliasDoc' = IF freed THEN NoAlias ELSE gAliasDoc
       /\ stale' = ~freed
       /\ setter' = [pc |-> IF name = NoText THEN "none" ELSE "assign", name |-> name, loc |-> loc]
       /\ location' = NoLocation
       /\ w' = [i \in Workers |-> [w[i] EXCEPT !.calm = FALSE]]
       /\ UNCHANGED <<setup, fs, changes>>

\* A device is registered with its description: configure_urlbase.
Register ==
    LET With(c) == c.ok /\ SetAliasReleases(c.name, http_FixUrl(c.descURL).pathquery)
    IN /\ sets < MaxSets /\ sets' = sets + 1
       /\ \E d \in Descs : With(configure_urlbase(d.base, d.alias, "8080"))
       /\ UNCHANGED installed

\* A device that has installed an alias is unregistered, at any time.
Unregister ==
    /\ installed > 0
    /\ SetAliasReleases(NoText, NoText)
    /\ installed' = installed - 1
    /\ UNCHANGED sets

\* ... second half: the new document takes its place.
SetAliasAssigns ==
    /\ setter.pc = "assign" /\ ~crashed
    /\ gAliasDoc' = [doc |-> sets, name |-> WithSlash(setter.name)]
    /\ docs' = [docs EXCEPT ![sets] = 1]
    /\ installed' = installed + 1 /\ stale' = FALSE
    /\ location' = [path |-> setter.loc, doc |-> sets]
    /\ setter' = [setter EXCEPT !.pc = "none", !.loc = NoText]
    /\ w' = [i \in Workers |-> [w[i] EXCEPT !.calm = FALSE]]
    /\ UNCHANGED <<setup, overdrawn, fs, sets, changes, crashed>>

\* UpnpFinish ends the web server while jobs of the mini server's pool still run.
web_server_destroy ==
    /\ enabled /\ setter.pc = "none" /\ ~crashed
    /\ AliasDropped
    /\ gAliasDoc' = NoAlias /\ stale' = FALSE /\ location' = NoLocation
    /\ enabled' = FALSE /\ gDocumentRootDir' = FALSE
    /\ w' = [i \in Workers |-> [w[i] EXCEPT !.calm = FALSE]]
    /\ UNCHANGED <<installed, pVirtualDirList, setter, fs, sets, changes>>

\* The next UpnpInit, after UpnpFinish has waited for the jobs.  The list of
\* virtual directories is forgotten, not freed.
web_server_init ==
    /\ ~enabled /\ changes < MaxChanges /\ ~crashed /\ \A i \in Workers : ~Busy(i)
    /\ enabled' = TRUE /\ gAliasDoc' = NoAlias /\ pVirtualDirList' = <<>> /\ gDocumentRootDir' = FALSE
    /\ installed' = 0 /\ changes' = changes + 1
    /\ UNCHANGED <<docs, stale, overdrawn, setter, location, fs, w, sets, crashed>>

web_server_set_root_dir ==
    /\ enabled /\ ~gDocumentRootDir /\ ~crashed
    /\ gDocumentRootDir' = TRUE
    /\ UNCHANGED <<enabled, pVirtualDirList, gAliasDoc, docs, history, setter, location, fs, w, bounds, crashed>>

\* Somebody writes a file that is being sent.
FileChanges ==
    /\ changes < MaxChanges /\ ~crashed
    /\ \E f \in {w[i].file : i \in {j \in Workers : Busy(j)}} \cap DOMAIN fs :
        \E c \in Contents \ {fs[f]} :
         /\ fs' = [fs EXCEPT ![f] = c]
         /\ w' = [i \in Workers |-> [w[i] EXCEPT !.same = @ /\ w[i].file # f]]
    /\ changes' = changes + 1
    /\ UNCHANGED <<setup, gAliasDoc, docs, history, setter, location, sets, crashed>>

-----------------------------------------------------------------------------
(* process_request *)

Steps(i, from) == ~crashed /\ w[i].pc = from

\* Worker i goes on as r; nothing else changes.
Goes(i, r) ==
    /\ w' = [w EXCEPT ![i] = r]
    /\ UNCHANGED <<setup, gAliasDoc, docs, history, setter, location, fs, bounds, crashed>>

Arrive(i) ==
    /\ ~crashed /\ w[i].pc = "idle"
    /\ w[i].req # NoRequest
    /\ w' = [w EXCEPT ![i] = [Idle EXCEPT !.pc = "look", !.req = w[i].req, !.loc = location]]
    /\ UNCHANGED <<setup, gAliasDoc, docs, history, setter, location, fs, sets, changes, crashed>>

request_doc(r) == remove_dots(remove_escaped_chars(r.path))

Failed(r, code) == [r EXCEPT !.pc = "fail", !.code = code]

\* Where the document is.  gAliasDoc is looked at without the mutex.
Look(i) ==
    LET At(doc, r) == IF doc = <<>> \/ doc[1] # "/" THEN Failed(r, 400)
                      ELSE IF isFileInVirtualDir(doc) THEN [r EXCEPT !.pc = "info", !.virt = TRUE]
                      ELSE [r EXCEPT !.pc = IF Valid(gAliasDoc) THEN "grab" ELSE "info"]
        Asked(doc) == At(doc, [w[i] EXCEPT !.file = doc])
    IN Steps(i, "look") /\ Goes(i, Asked(request_doc(w[i].req)))

\* alias_grab, and get_alias on the copy.  The alias must be there, and its
\* document not freed, which gAliasDoc does not show.
alias_grab(i) ==
    /\ Steps(i, "grab")
    /\ IF Valid(gAliasDoc) /\ docs[gAliasDoc.doc] > 0
       THEN /\ docs' = Grabbed(gAliasDoc.doc)
            /\ w' = [w EXCEPT ![i].pc = "info", ![i].alias = gAliasDoc.doc,
                              ![i].using = (gAliasDoc.name = w[i].file)]
            /\ crashed' = crashed
       ELSE crashed' = TRUE /\ UNCHANGED <<docs, w>>
    /\ UNCHANGED <<setup, gAliasDoc, history, setter, location, fs, bounds>>

\* What sscanf makes of a range: <<first, last>>, -1 for none.
GetNextRange(rg) == IF rg.kind = "suffix" THEN <<-1, rg.last>> ELSE <<rg.first, rg.last>>

Partial(instr, off, size) == [code |-> 200, instr |-> [instr EXCEPT !.range = TRUE, !.off = off, !.size = size]]
RangeError(instr, code) == [code |-> code, instr |-> instr]

\* Mutant of CreateHTTPRangeResponseHeader: a last byte beyond the file is kept.
RangeUnclipped(rg, len, instr) ==
    LET f == GetNextRange(rg)[1]
        l == GetNextRange(rg)[2]
    IN CASE rg.kind = "bad" -> RangeError(instr, 400)
         [] rg.kind # "bad" /\ len < 0 -> RangeError(instr, 416)
         [] rg.kind # "bad" /\ len >= 0 /\ f >= 0 /\ l >= f -> Partial(instr, f, l - f + 1)
         [] OTHER -> RangeError(instr, 416)

CreateHTTPRangeResponseHeader(rg, len, instr) ==
    LET f == GetNextRange(rg)[1]
        l == GetNextRange(rg)[2]
    IN IF rg.kind = "bad" THEN RangeError(instr, 400)
       ELSE IF len < 0 THEN IF rg.kind = "from" /\ f = 0 THEN [code |-> 200, instr |-> instr]
                            ELSE RangeError(instr, 416)
       ELSE IF len < f THEN RangeError(instr, 416)
       ELSE IF f >= 0 /\ l >= f THEN Partial(instr, f, (IF l >= len THEN len - 1 ELSE l) - f + 1)
       ELSE IF f >= 0 /\ l = -1 /\ f < len THEN Partial(instr, f, len - f)
       ELSE IF f = -1 /\ l > 0 THEN IF l >= len THEN Partial(instr, 0, len) ELSE Partial(instr, len - l, l)
       ELSE RangeError(instr, 416)

CheckOtherHTTPHeaders(req, len) ==
    LET instr == [Instr0 EXCEPT !.size = len, !.chunk = req.te]
    IN IF req.range.kind = "none" THEN [code |-> 200, instr |-> instr]
       ELSE CreateHTTPRangeResponseHeader(req.range, len, instr)

\* The headers of the answer: the length when it is known and the body is not chunked.
MakeHeaders(instr, type) ==
    [status |-> IF instr.range THEN 206 ELSE 200,
     how    |-> IF instr.chunk THEN "chunked" ELSE IF instr.size >= 0 THEN "length" ELSE "close",
     length |-> instr.size, off |-> instr.off, type |-> type]

\* The rest of process_request, once the length is known.
Answer(r, len, type) ==
    LET chunks == r.virt /\ len = USING_CHUNKED
        Ready(instr) == [r EXCEPT !.pc = "head", !.instr = instr, !.len = len, !.code = 200,
                                  !.head = MakeHeaders(instr, type)]
        With(c) == IF c.code # 200 THEN Failed(r, c.code)
                   ELSE IF r.req.method = "POST" THEN [r EXCEPT !.pc = "post", !.instr = c.instr]
                   ELSE IF chunks /\ r.req.minor = 0 THEN Failed(r, 406)
                   ELSE Ready([c.instr EXCEPT !.chunk = @ \/ chunks])
    IN With(CheckOtherHTTPHeaders(r.req, len))

InfoAlias(i) ==
    /\ Steps(i, "info") /\ w[i].using
    /\ Goes(i, Answer([w[i] EXCEPT !.src = DocText(w[i].alias)], Len(DocText(w[i].alias)), "xml"))

IndexOf(path) == IF path # <<>> /\ Last(path) = "/" THEN path \o <<"index", ".", "html">>
                 ELSE path \o <<"/", "index", ".", "html">>

\* What fopen and fstat, or the application's callback, say of a path among
\* `names', and get_content_type of its extension.
get_file_info(path, names) ==
    [isDir |-> path \in Dirs, there |-> path \in names /\ fs[path] # NoFile,
     len |-> IF path \in names THEN Len(fs[path]) ELSE 0, type |-> get_content_type(path)]

\* A directory is answered by its index, a directory in that place by 404.
Found(i, path, info) ==
    LET r == [w[i] EXCEPT !.file = path]
    IN IF info.isDir
       THEN Goes(i, IF r.index THEN Failed(r, 404) ELSE [r EXCEPT !.file = IndexOf(path), !.index = TRUE])
       ELSE IF ~info.there THEN Goes(i, Failed(r, 404))
       ELSE Goes(i, Answer([r EXCEPT !.src = fs[path], !.same = TRUE], info.len, info.type))

\* The application's callback: it may give no length, and forbid reading.
InfoVirtual(i) ==
    /\ Steps(i, "info") /\ w[i].virt
    /\ IF w[i].req.method = "POST" THEN Goes(i, Answer(w[i], 0, "none"))
       ELSE \/ LET info == get_file_info(w[i].file, VPaths)
               IN \E len \in {info.len, USING_CHUNKED, UNTIL_CLOSE} :
                    Found(i, w[i].file, [info EXCEPT !.len = len])
            \/ Goes(i, Failed(w[i], 403))

NoTrailingSlash(p) ==
    LET keep == {n \in 0 .. Len(p) : \A k \in n + 1 .. Len(p) : p[k] = "/"}
    IN SubSeq(p, 1, CHOOSE n \in keep : \A m \in keep : n <= m)

\* A file below the root.
InfoFile(i) ==
    LET path == NoTrailingSlash(w[i].file)
    IN /\ Steps(i, "info") /\ ~w[i].virt /\ ~w[i].using
       /\ IF ~gDocumentRootDir THEN Goes(i, Failed(w[i], 500))
          ELSE IF w[i].req.method = "POST" THEN Goes(i, Answer(w[i], 0, "none"))
          ELSE Found(i, path, get_file_info(path, Paths))

\* The error path: the document that was grabbed is released, the status is sent.
Fail(i) ==
    /\ Steps(i, "fail")
    /\ alias_release(w[i].alias)
    /\ w' = [w EXCEPT ![i].pc = "done"]
    /\ UNCHANGED <<setup, gAliasDoc, history, setter, location, fs, bounds>>

-----------------------------------------------------------------------------
(* Sending: http_SendMessage.  A write to the socket may fail at any time. *)

AfterHead(r, ok) ==
    CASE r.req.method = "HEAD" -> "done"
      [] r.req.method # "HEAD" /\ r.using -> IF ok THEN "doc" ELSE "release"
      [] OTHER -> IF ok THEN "open" ELSE "done"

SendHead(i) ==
    /\ Steps(i, "head")
    /\ \E ok \in BOOLEAN : Goes(i, [w[i] EXCEPT !.pc = AfterHead(w[i], ok), !.cut = ~ok])

\* "b": the document as a whole.
SendDoc(i) ==
    /\ Steps(i, "doc")
    /\ \E ok \in BOOLEAN :
         Goes(i, [w[i] EXCEPT !.pc = "release", !.cut = ~ok,
                              !.out = IF ok THEN DocText(w[i].alias) ELSE @])

Release(i) ==
    /\ Steps(i, "release")
    /\ alias_release(w[i].alias)
    /\ w' = [w EXCEPT ![i].pc = "done"]
    /\ UNCHANGED <<setup, gAliasDoc, history, setter, location, fs, bounds>>

\* "If": the file is opened and the position set.
Open(i) ==
    LET n == w[i].instr.size
    IN /\ Steps(i, "open")
       /\ IF fs[w[i].file] = NoFile THEN Goes(i, [w[i] EXCEPT !.pc = "done", !.cut = TRUE])
          ELSE Goes(i, [w[i] EXCEPT !.pc = "copy", !.pos = IF w[i].instr.range THEN w[i].instr.off ELSE 0,
                                    !.left = IF n >= 0 THEN n ELSE BufSize,
                                    !.buf = IF n >= 0 THEN Lesser(n, BufSize) ELSE BufSize])

\* How much one read asks for.
Wanted(r) == Lesser(r.left, r.buf)

\* One read and one write.  A virtual file's callback may return less than
\* was asked for.
Copy(i) ==
    LET r == w[i]
        text == IF fs[r.file] = NoFile THEN r.src ELSE fs[r.file]
        most == Lesser(Wanted(r), IF r.pos > Len(text) THEN 0 ELSE Len(text) - r.pos)
    IN /\ Steps(i, "copy")
       /\ \/ /\ r.left = 0 /\ Goes(i, [r EXCEPT !.pc = "done"])
          \/ /\ r.left # 0 /\ most = 0
             /\ Goes(i, [r EXCEPT !.pc = "done", !.end = r.instr.chunk])
          \/ /\ r.left # 0 /\ most > 0
             /\ \E k \in IF r.virt THEN 1 .. most ELSE {most}, ok \in BOOLEAN :
                  Goes(i, [r EXCEPT !.pc = IF ok THEN "copy" ELSE "done", !.cut = ~ok,
                                    !.pos = @ + k, !.left = IF r.instr.size < 0 THEN BufSize ELSE @ - k,
                                    !.out = IF ok THEN @ \o SubSeq(text, r.pos + 1, r.pos + k) ELSE @])

-----------------------------------------------------------------------------
(* Receiving: http_RecvPostMessage *)

PostOpens(i) ==
    /\ Steps(i, "post")
    /\ IF ~w[i].virt THEN Goes(i, [w[i] EXCEPT !.pc = "done", !.code = 404])
       ELSE \/ Goes(i, [w[i] EXCEPT !.pc = "recv"])
            \/ Goes(i, [w[i] EXCEPT !.pc = "done", !.code = 500])

Complete(r) == r.have = Len(r.req.body)

NeedsMore(r) == r.pos + r.buf > r.have /\ ~Complete(r)

\* Some bytes of the body come in, or the connection ends.
PostReceives(i) ==
    LET r == w[i]
    IN /\ Steps(i, "recv") /\ NeedsMore(r)
       /\ \/ \E k \in 1 .. Len(r.req.body) - r.have : Goes(i, [r EXCEPT !.have = @ + k])
          \/ \E code \in {400, 503} : Goes(i, [r EXCEPT !.pc = "done", !.code = code])

\* How much is written: the buffer, or what is left of the body.
PostSize(r) == IF r.pos + r.buf > r.have THEN r.have - r.pos ELSE r.buf

PostWrites(i) ==
    LET r == w[i]
        n == PostSize(r)
        at == r.pos + n
    IN /\ Steps(i, "recv") /\ ~NeedsMore(r)
       /\ \/ Goes(i, [r EXCEPT !.pc = IF Complete(r) /\ at = r.have THEN "done" ELSE "recv",
                               !.code = 200, !.pos = at, !.buf = n,
                               !.out = @ \o SubSeq(r.req.body, r.pos + 1, Lesser(at, Len(r.req.body)))])
          \/ Goes(i, [r EXCEPT !.pc = "done", !.code = 500])

-----------------------------------------------------------------------------

Init ==
    /\ enabled = TRUE /\ gDocumentRootDir = FALSE /\ pVirtualDirList \in DirLists
    /\ gAliasDoc = NoAlias /\ docs = [d \in 1 .. MaxSets |-> 0]
    /\ installed = 0 /\ stale = FALSE /\ overdrawn = {}
    /\ setter = [pc |-> "none", name |-> NoText, loc |-> NoText] /\ location = NoLocation
    /\ fs \in Files
    /\ \E asked \in Requests : w = [i \in Workers |-> [Idle EXCEPT !.req = asked[i]]]
    /\ sets = 0 /\ changes = 0
    /\ crashed = FALSE

Work(i) ==
    \/ Look(i) \/ alias_grab(i) \/ InfoAlias(i) \/ InfoVirtual(i) \/ InfoFile(i) \/ Fail(i)
    \/ SendHead(i) \/ SendDoc(i) \/ Release(i) \/ Open(i) \/ Copy(i)
    \/ PostOpens(i) \/ PostReceives(i) \/ PostWrites(i)

Next ==
    \/ UpnpAddVirtualDir \/ UpnpRemoveVirtualDir \/ UpnpRemoveAllVirtualDirs
    \/ Register \/ Unregister \/ SetAliasAssigns
    \/ web_server_destroy \/ web_server_init \/ web_server_set_root_dir
    \/ FileChanges
    \/ \E i \in Workers : Arrive(i) \/ Work(i)

Spec == Init /\ [][Next]_vars

-----------------------------------------------------------------------------
(* Properties *)

\* A document that a request has taken from gAliasDoc is not freed before the
\* request released it, whatever is registered, unregistered or ended
\* meanwhile, unless gAliasDoc gave its reference up twice: it keeps naming a
\* document that a request still holds when its own reference is dropped, and
\* the next web_server_set_alias or web_server_destroy drops it again
\* (alias_grab, alias_release, web_server_set_alias).
DocUsable ==
    \A i \in Workers :
      w[i].alias \notin {NoDoc} \cup overdrawn /\ Busy(i) => docs[w[i].alias] > 0

\* The bytes that follow the headers are the ones the headers promise: the
\* slice of the document that Content-Range names, as long as Content-Length
\* says, never more of it, and all of it unless the file changed or the
\* connection broke; a chunked body has its last chunk exactly when it is
\* complete; Content-Type is the entry of the table for the extension.
ResponseRight ==
    \A i \in Workers :
      LET r == w[i]
          h == r.head
      IN h # NoHead =>
           /\ h.how = "length" => Len(r.out) <= h.length
           /\ h.type # "xml" /\ h.type # "octet-stream" =>
                \E k \in DOMAIN gMediaTypeList : gMediaTypeList[k] = h.type /\ Last(r.file) = h.type
           /\ r.pc = "done" /\ r.same /\ ~r.cut /\ r.req.method \notin {"HEAD", "POST"} =>
                /\ h.how = "length" => Len(r.out) = h.length
                /\ h.how = "chunked" => r.end
                /\ r.out = SubSeq(r.src, h.off + 1, IF h.how = "length" THEN h.off + h.length ELSE Len(r.src))
                /\ h.status = 206 =>
                     LET rg == r.req.range
                         n == Len(r.src)
                     IN r.out = SubSeq(r.src,
                                       IF rg.kind = "suffix" THEN (IF rg.last > n THEN 1 ELSE n - rg.last + 1)
                                       ELSE rg.first + 1,
                                       IF rg.kind = "from-to" /\ rg.last < n THEN rg.last + 1 ELSE n)

\* What is written to a virtual file is what the client has posted, in order
\* and once, and the answer is 200 only when it is all there
\* (http_RecvPostMessage).
PostWritten ==
    \A i \in Workers :
      w[i].req.method = "POST" =>
        /\ IsPrefix(w[i].out, w[i].req.body)
        /\ Len(w[i].out) = w[i].pos
        /\ w[i].pc = "done" /\ w[i].code = 200 => w[i].out = w[i].req.body

\* The URL that a device advertises for its description is one the web server
\* answers with that description, unless a virtual directory covers it
\* (configure_urlbase, process_request).
LocationServed ==
    \A i \in Workers :
      LET r == w[i]
      IN /\ r.pc = "done" /\ r.calm /\ ~r.cut /\ r.loc.doc # NoDoc
         /\ r.req.method = "GET" /\ r.req.range.kind = "none" /\ r.req.path = r.loc.path /\ ~r.virt
         => r.out = DocText(r.loc.doc)

\* The bytes that a transfer moves are right, in both directions
\* (http_SendMessage, http_RecvPostMessage).
TransfersRight == ResponseRight /\ PostWritten

\* The description document is there where the device says it is, for as long as a
\* request uses it (alias_grab, web_server_set_alias, configure_urlbase).
DocServed == DocUsable /\ LocationServed
=============================================================================
