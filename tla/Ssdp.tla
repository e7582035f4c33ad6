--------------------------------- MODULE Ssdp ---------------------------------
(***************************************************************************)
(* Discovery: the device side (ssdp/ssdp_device.c, AdvertiseAndReply of    *)
(* ssdp/ssdp_server.c), the control point side (ssdp/ssdp_ctrlpt.c) and    *)
(* the datagrams between them.                                             *)
(*                                                                         *)
(* A datagram that was sent stays in sent: it may arrive late, several     *)
(* times or never (NUM_SSDP_COPY copies are sent of most).  A type is a    *)
(* name, a sequence of parts so that one name can be the beginning of      *)
(* another, with a version; a search target and the ST or NT of a message  *)
(* are [kind, name, ver], with the UDN as name for kind "udn".             *)
(***************************************************************************)
EXTENDS Integers, Sequences, SequencesExt, FiniteSets, FiniteSetsExt

CONSTANTS
  Clients,        \* handles of control points
  Devices,        \* handles of root devices, numbers
  Doc,            \* per device handle: its devices, the root device first
  AddressFamilies,       \* address families: "4", "6"
  DeviceAf,       \* per device handle: its address family
  Targets,        \* what is searched for
  Mxs,            \* times an application asks for
  ForeignMxs,     \* MX of searches other control points make
  MinSearchTime, MaxSearchTime, DefaultMx,
  MaxSearches,    \* bound: searches made
  MaxAsks         \* bound: M-SEARCH requests that arrive

\* A handle is that of a control point or of a device.  What is searched for has a
\* name, and a version if it is a type; types in a description end in a version.
HandlesRight == /\ Devices \subseteq Nat \ {0} /\ Clients \cap Devices = {}
                /\ DeviceAf \in [Devices -> AddressFamilies]
TargetsRight ==
  \A t \in Targets : /\ t.kind \in {"all", "root", "udn", "device", "service"}
                     /\ t.name \in Seq(STRING) /\ t.ver \in Nat
DocRight ==
  \A h \in Devices : \A i \in DOMAIN Doc[h] :
    Doc[h][i].type[2] \in Nat /\ \A s \in Doc[h][i].services : s[2] \in Nat

ASSUME SsdpConstants ==
  /\ HandlesRight /\ TargetsRight /\ DocRight
  /\ Mxs \subseteq Int /\ ForeignMxs \subseteq Int /\ DefaultMx \in Int
  /\ MaxSearches \in Nat /\ MaxAsks \in Nat
  /\ MinSearchTime \in Nat \ {0} /\ MaxSearchTime \in Nat /\ MaxSearchTime >= MinSearchTime

VARIABLES
  registered,  \* handles, of control points and of root devices
  leaving,     \* handles of devices that said byebye and are not freed yet
  flags,       \* families whose UpnpSdkDeviceRegistered flag is set
  searches,    \* SsdpSearchList of all control points: [id, c, target]
  searchTimers,\* ids of searches with an event on gTimerThread
  sending,     \* searches in the list whose request is not sent yet
  expiring,    \* searches taken from the list whose last callback is due
  asks,        \* threads in ssdp_handle_device_request: [target, mx, asked, start, af],
               \* and as history the devices that are to be found yet, due
  replyTimers, \* replies on gTimerThread: [h, target, asked, delay]
  sent,        \* requests and replies that were sent (advertisements: see announced)
  jobs,        \* results in gRecvThreadPool: [id, c, udn]
  lastId, asked, \* counters: searches made, requests arrived
  answered,    \* history: replies made, [h, target, replies]
  announced,   \* history, per device handle: what was made known and not taken back
  raced,       \* history: devices that were made known between byebye and free
  torn,        \* history: families that lost a device since they last got one
  timedOut,    \* history: searches the application was told are over
  late,        \* history: of these, the ones a result was reported for afterwards
  untimed      \* history: searches whose event the timer refused or lost

handles == <<registered, leaving, flags, torn>>
known == <<announced, raced>>
searching == <<timedOut, late, untimed>>
side == <<answered, known, searching>>
vars == <<handles, searches, searchTimers, sending, expiring, asks, replyTimers, sent, jobs,
          lastId, asked, side>>

-----------------------------------------------------------------------------
(* Messages of a device *)

All      == [kind |-> "all", name |-> <<>>, ver |-> 0]
RootDev  == [kind |-> "root", name |-> <<>>, ver |-> 0]
Udn(u)   == [kind |-> "udn", name |-> u, ver |-> 0]
Type(k, tv) == [kind |-> k, name |-> tv[1], ver |-> tv[2]]

\* CreateServicePacket: NT or ST, the UDN of the USN, and which description it is in.
ReplyPacket(st, udn, location) == [what |-> "reply", st |-> st, udn |-> udn, location |-> location]
NotifyPacket(nts, nt, udn) == [what |-> nts, st |-> nt, udn |-> udn, location |-> "desc"]

\* A device without a deviceType or a UDN is passed over, with its services.
Usable(d) == d.udn # <<>> /\ d.type[1] # <<>>

\* Mutant of DeviceShutdown: the message for the type of the root device is not sent.
DeviceShutdownShort(d, root) ==
  {NotifyPacket("byebye", x, d.udn) :
     x \in {Udn(d.udn)} \cup (IF root THEN {RootDev} ELSE {Type("device", d.type)})}

\* DeviceAdvertisement, DeviceShutdown and DeviceReply: three messages for a root
\* device, two for an embedded one.
DeviceAdvertisement(d, root) ==
  {NotifyPacket("alive", x, d.udn) :
     x \in {Udn(d.udn), Type("device", d.type)} \cup (IF root THEN {RootDev} ELSE {})}

DeviceShutdown(d, root) ==
  {NotifyPacket("byebye", x, d.udn) :
     x \in {Udn(d.udn), Type("device", d.type)} \cup (IF root THEN {RootDev} ELSE {})}

DeviceReply(d, root) ==
  {ReplyPacket(x, d.udn, "desc") :
     x \in {Udn(d.udn), Type("device", d.type)} \cup (IF root THEN {RootDev} ELSE {})}

ServiceAdvertisement(d, s) == {NotifyPacket("alive", Type("service", s), d.udn)}
ServiceShutdown(d, s)      == {NotifyPacket("byebye", Type("service", s), d.udn)}
ServiceReply(d, s)         == {ReplyPacket(Type("service", s), d.udn, "desc")}

\* SendReply: ST is what was asked for.
SendReply(t, d, location) == {ReplyPacket(t, d.udn, location)}

-----------------------------------------------------------------------------
(* AdvertiseAndReply *)

\* Mutant of TypeReply: only the version that was asked for is answered.
TypeReplyExact(t, d, tv) ==
  IF t.name = tv[1] /\ t.ver = tv[2] THEN SendReply(t, d, "desc") ELSE {}

\* The names are compared without the last two characters of the target, which are
\* a colon and a digit or two digits; of the device's version only the last digit
\* is looked at.
SameName(t, tv) == IF t.ver < 10 THEN IsPrefix(t.name, tv[1]) ELSE t.name = tv[1]

TypeReply(t, d, tv) ==
  IF ~SameName(t, tv) \/ t.ver > tv[2] % 10 THEN {}
  ELSE SendReply(t, d, IF t.ver < tv[2] % 10 THEN "lower" ELSE "desc")

\* The devices of the description of handle h, with whether it is the root, and the
\* services of each: AdvertiseAndReply walks over both.
DevicesIn(h) ==
  {<<Doc[h][i], i = 1>> : i \in {i \in DOMAIN Doc[h] : Usable(Doc[h][i])}}
ServicesIn(h) == UNION {{<<x[1], s>> : s \in x[1].services} : x \in DevicesIn(h)}

Replies(h, t) ==
  UNION ({CASE t.kind = "all"    -> DeviceReply(x[1], x[2])
            [] t.kind = "device" -> TypeReply(t, x[1], x[1].type)
            [] (t.kind = "root" /\ x[2]) \/ (t.kind = "udn" /\ x[1].udn = t.name) ->
                 SendReply(t, x[1], "desc")
            [] OTHER -> {} : x \in DevicesIn(h)}
         \cup {CASE t.kind = "all"     -> ServiceReply(x[1], x[2])
                [] t.kind = "service" -> TypeReply(t, x[1], x[2])
                [] OTHER -> {} : x \in ServicesIn(h)})

\* Something of device h goes out under the read lock: nobody takes it back if the
\* device has said byebye already.
MadeKnown(h, what) ==
  /\ announced' = [announced EXCEPT ![h] = @ \cup what]
  /\ raced' = IF h \in leaving /\ what # {} THEN raced \cup {h} ELSE raced

\* UpnpSendAdvertisement, and the automatic advertisement: AdvertiseAndReply(1, ...).
\* Of a walk over the description the moment of its last copy counts.
Advertise(h) ==
  /\ h \in registered
  /\ LET ads == UNION ({DeviceAdvertisement(x[1], x[2]) : x \in DevicesIn(h)}
                    \cup {ServiceAdvertisement(x[1], x[2]) : x \in ServicesIn(h)}) IN
     MadeKnown(h, {<<m.st, m.udn>> : m \in ads})
  /\ UNCHANGED <<handles, searches, searchTimers, sending, expiring, asks, replyTimers, sent,
                 jobs, lastId, asked, answered, searching>>

\* UpnpUnRegisterRootDeviceLowPower: AdvertiseAndReply(-1, ...) under the read lock ...
Shutdown(h) ==
  /\ h \in registered
  /\ LET byes == UNION ({DeviceShutdown(x[1], x[2]) : x \in DevicesIn(h)}
                     \cup {ServiceShutdown(x[1], x[2]) : x \in ServicesIn(h)}) IN
     announced' = [announced EXCEPT ![h] = @ \ {<<m.st, m.udn>> : m \in byes}]
  /\ leaving' = leaving \cup {h} /\ raced' = raced \ {h}
  /\ UNCHANGED <<registered, flags, torn, searches, searchTimers, sending, expiring, asks,
                 replyTimers, sent, jobs, lastId, asked, answered, searching>>

\* ... and in a section of its own the handle is freed and the flag of its family
\* cleared, whoever else is of that family.
FreeHandle(h) ==
  /\ h \in leaving
  /\ registered' = registered \ {h} /\ leaving' = leaving \ {h}
  /\ flags' = flags \ {DeviceAf[h]} /\ torn' = torn \cup {DeviceAf[h]}
  /\ asks' = {[a EXCEPT !.due = IF a.af = DeviceAf[h] THEN {} ELSE @] : a \in asks}
  /\ UNCHANGED <<searches, searchTimers, sending, expiring, replyTimers, sent, jobs, lastId,
                 asked, side>>

\* UpnpRegisterRootDevice and its variants.
RegisterRootDevice(h) ==
  /\ h \notin registered
  /\ registered' = registered \cup {h}
  /\ flags' = flags \cup {DeviceAf[h]} /\ torn' = torn \ {DeviceAf[h]}
  /\ UNCHANGED <<leaving, searches, searchTimers, sending, expiring, asks, replyTimers, sent,
                 jobs, lastId, asked, side>>

-----------------------------------------------------------------------------
(* ssdp_handle_device_request *)

OfFamily(af) == {h \in registered \cap Devices : DeviceAf[h] = af}

\* An M-SEARCH arrives, from one of our control points or from another one.
SearchMsg(t, mx) == [what |-> "search", st |-> t, udn |-> <<>>, location |-> mx]

Ask(t, mx, af) ==
  /\ asked < MaxAsks /\ asked' = asked + 1
  /\ asks' = asks \cup {[target |-> t, mx |-> mx, asked |-> mx, start |-> 0, af |-> af,
                         due |-> IF af \in torn THEN {} ELSE OfFamily(af)]}
  /\ UNCHANGED <<handles, searches, searchTimers, sending, expiring, replyTimers, sent, jobs,
                 lastId, side>>

SearchArrives(m, af) == m \in sent /\ m.what = "search" /\ Ask(m.st, m.location, af)

ForeignSearch(t, mx, af) == Ask(t, mx, af)

MxFudgeFactor == 10

\* A tenth, at least a second, is left for the network: for each handle again.
Fudged(mx) == IF mx >= 2 THEN mx - Max({1, mx \div MxFudgeFactor}) ELSE 1

\* GetDeviceHandleInfo: the devices of the family after start, if its flag is set.
NextDevices(start, af) == IF af \in flags THEN {h \in OfFamily(af) : h > start} ELSE {}

\* One turn of the loop: the reply for the next handle is put on the timer, at a
\* random time below the limit (the model takes the least or the greatest).  That the
\* timer refuses it is not noticed.
AskNext(a) ==
  /\ a \in asks
  /\ IF NextDevices(a.start, a.af) = {}
     THEN asks' = asks \ {a} /\ UNCHANGED replyTimers
     ELSE LET h  == Min(NextDevices(a.start, a.af))
              mx == Fudged(a.mx)
          IN /\ asks' = (asks \ {a}) \cup {[a EXCEPT !.mx = mx, !.start = h, !.due = @ \ {h}]}
             /\ \/ \E delay \in {0, mx - 1} :
                     replyTimers' = replyTimers \cup
                       {[h |-> h, target |-> a.target, asked |-> a.asked, delay |-> delay]}
                \/ UNCHANGED replyTimers
  /\ UNCHANGED <<handles, searches, searchTimers, sending, expiring, sent, jobs, lastId,
                 asked, side>>

\* malloc fails: the rest of the devices do not answer.
AskGivenUp(a) ==
  /\ a \in asks /\ NextDevices(a.start, a.af) # {}
  /\ asks' = asks \ {a}
  /\ UNCHANGED <<handles, searches, searchTimers, sending, expiring, replyTimers, sent, jobs,
                 lastId, asked, side>>

\* advertiseAndReplyThread: nothing is sent when the handle has gone.
ReplyDue(r) ==
  /\ r \in replyTimers
  /\ replyTimers' = replyTimers \ {r}
  /\ IF r.h \in registered
     THEN LET replies == Replies(r.h, r.target) IN
          /\ sent' = sent \cup replies
          /\ MadeKnown(r.h, {<<Udn(m.udn), m.udn>> : m \in replies})
          /\ answered' = answered \cup {[h |-> r.h, target |-> r.target, replies |-> replies]}
     ELSE UNCHANGED <<sent, known, answered>>
  /\ UNCHANGED <<handles, searches, searchTimers, sending, expiring, asks, jobs, lastId,
                 asked, searching>>

\* The timer thread frees an event that the thread pool does not take.
ReplyLost(r) ==
  /\ r \in replyTimers
  /\ replyTimers' = replyTimers \ {r}
  /\ UNCHANGED <<handles, searches, searchTimers, sending, expiring, asks, sent, jobs, lastId,
                 asked, side>>

-----------------------------------------------------------------------------
(* Searching: UpnpSearchAsync, SearchByTarget, searchExpired *)

\* The time is brought into the range; the request carries it as MX.
SearchTime(mx) ==
  IF mx < MinSearchTime THEN MinSearchTime ELSE IF mx > MaxSearchTime THEN MaxSearchTime ELSE mx

\* The search is put into the list and on the timer in one section; that the timer
\* refuses it is not noticed.
SearchByTarget(c, t, time) ==
  /\ c \in registered /\ lastId < MaxSearches
  /\ lastId' = lastId + 1
  /\ searches' = searches \cup {[id |-> lastId', c |-> c, target |-> t]}
  /\ \/ searchTimers' = searchTimers \cup {[id |-> lastId', c |-> c]} /\ UNCHANGED untimed
     \/ UNCHANGED searchTimers /\ untimed' = untimed \cup {lastId'}
  /\ sending' = sending \cup {SearchMsg(t, time)}
  /\ UNCHANGED <<handles, expiring, asked, asks, replyTimers, sent, jobs, answered, known,
                 timedOut, late>>

UpnpSearchAsync(c, t, mx) == SearchByTarget(c, t, SearchTime(IF mx < 1 THEN DefaultMx ELSE mx))

\* The request goes out without the lock.
SearchSend(m) ==
  /\ m \in sending
  /\ sending' = sending \ {m} /\ sent' = sent \cup {m}
  /\ UNCHANGED <<handles, searches, searchTimers, expiring, asks, replyTimers, jobs, lastId,
                 asked, side>>

\* Mutant of Expired: the handle alone does not tell which search it is.
ExpiredNewer(e) == {s \in searches : s.c = e.c /\ s.id > e.id}

\* The search the event e is about, if its control point is still there.
Expired(e) == IF e.c \in registered THEN {s \in searches : s.c = e.c /\ s.id = e.id} ELSE {}

\* searchExpired takes the search from the list ...
SearchExpired(e) ==
  /\ e \in searchTimers
  /\ searchTimers' = searchTimers \ {e}
  /\ searches' = searches \ Expired(e)
  /\ expiring' = expiring \cup {s.id : s \in Expired(e)}
  /\ UNCHANGED <<handles, sending, asks, replyTimers, sent, jobs, lastId, asked, side>>

\* The timer thread frees an event that the thread pool does not take: the search stays.
SearchExpiryLost(e) ==
  /\ e \in searchTimers
  /\ searchTimers' = searchTimers \ {e}
  /\ untimed' = untimed \cup {e.id}
  /\ UNCHANGED <<handles, searches, sending, expiring, asks, replyTimers, sent, jobs, lastId,
                 asked, answered, known, timedOut, late>>

\* ... and tells the application without the lock.
SearchTimeout(id) ==
  /\ id \in expiring
  /\ expiring' = expiring \ {id}
  /\ timedOut' = timedOut \cup {id}
  /\ UNCHANGED <<handles, searches, searchTimers, sending, asks, replyTimers, sent, jobs,
                 lastId, asked, answered, known, late, untimed>>

UpnpUnRegisterClient(c) ==
  /\ c \in registered
  /\ registered' = registered \ {c}
  /\ searches' = {s \in searches : s.c # c}
  /\ UNCHANGED <<leaving, flags, torn, searchTimers, sending, expiring, asks, replyTimers, sent, jobs, lastId, asked,
                 side>>

-----------------------------------------------------------------------------
(* ssdp_handle_ctrlpt_msg for a reply *)

\* Types are compared over the length of the shorter one, so a version is the same
\* as, or the beginning of, the other.
Matches(t, st) ==
  \/ t.kind = "all"
  \/ t.kind = "root" /\ st.kind = "root"
  \/ t.kind = "udn" /\ st = t
  \/ t.kind \in {"device", "service"} /\ st.kind = t.kind /\ st.name = t.name
     /\ (st.ver = t.ver \/ st.ver \div 10 = t.ver \/ t.ver \div 10 = st.ver)

\* One control point's list is gone through under the lock; each match is a job.
HandleReply(c, m) ==
  /\ c \in registered /\ m \in sent /\ m.what = "reply"
  /\ jobs' = jobs \cup {[id |-> s.id, c |-> c, udn |-> m.udn] :
                          s \in {s \in searches : s.c = c /\ Matches(s.target, m.st)}}
  /\ UNCHANGED <<handles, searches, searchTimers, sending, expiring, asks, replyTimers, sent,
                 lastId, asked, side>>

\* send_search_result.
SendSearchResult(j) ==
  /\ j \in jobs
  /\ jobs' = jobs \ {j}
  /\ late' = late \cup ({j.id} \cap timedOut)
  /\ UNCHANGED <<handles, searches, searchTimers, sending, expiring, asks, replyTimers, sent,
                 lastId, asked, answered, known, timedOut, untimed>>

-----------------------------------------------------------------------------
Init ==
  /\ registered = Clients \cup Devices /\ leaving = {}
  /\ flags = {DeviceAf[h] : h \in Devices} /\ torn = {}
  /\ searches = {} /\ searchTimers = {} /\ sending = {} /\ expiring = {}
  /\ asks = {} /\ replyTimers = {} /\ sent = {} /\ jobs = {}
  /\ lastId = 0 /\ asked = 0
  /\ answered = {} /\ timedOut = {} /\ late = {} /\ untimed = {}
  /\ announced = [h \in Devices |-> {}] /\ raced = {}

\* Devices come and go, and other hosts search for them.
DeviceNext ==
  \/ \E h \in Devices : Advertise(h) \/ Shutdown(h) \/ FreeHandle(h) \/ RegisterRootDevice(h)
  \/ \E t \in Targets, mx \in ForeignMxs, af \in AddressFamilies : ForeignSearch(t, mx, af)

\* What is searched for is answered.
AnswerNext ==
  \/ \E a \in asks : AskNext(a) \/ AskGivenUp(a)
  \/ \E r \in replyTimers : ReplyDue(r) \/ ReplyLost(r)

\* Control points search.
SearchNext ==
  \/ \E c \in Clients, t \in Targets, mx \in Mxs : UpnpSearchAsync(c, t, mx)
  \/ \E m \in sending : SearchSend(m)
  \/ \E m \in sent : \/ \E af \in AddressFamilies : SearchArrives(m, af)
                     \/ \E c \in Clients : HandleReply(c, m)
  \/ \E e \in searchTimers : SearchExpired(e) \/ SearchExpiryLost(e)
  \/ \E id \in expiring : SearchTimeout(id)
  \/ \E c \in Clients : UpnpUnRegisterClient(c)
  \/ \E j \in jobs : SendSearchResult(j)

Next == DeviceNext \/ AnswerNext \/ SearchNext

Spec == Init /\ [][Next]_vars

\* The timer thread hands over what is due, to the thread pool or to nobody, and the
\* pool runs what it took.
SearchFairness ==
  /\ WF_vars(\E e \in searchTimers : SearchExpired(e) \/ SearchExpiryLost(e))
  /\ WF_vars(\E id \in expiring : SearchTimeout(id))

-----------------------------------------------------------------------------
(* Properties *)

\* Reference: the UDNs of the devices of handle h that a search for t is about.  A
\* device offers its own type and service types in every version up to its own.
Offers(h, t) ==
  LET offers(d, tv) == t.name = tv[1] /\ t.ver <= tv[2] /\ tv[2] < 10 IN
  {Doc[h][i].udn : i \in {i \in DOMAIN Doc[h] :
     LET d == Doc[h][i] IN
     /\ Usable(d)
     /\ \/ t.kind = "all"
        \/ t.kind = "root" /\ i = 1
        \/ t.kind = "udn" /\ d.udn = t.name
        \/ t.kind = "device" /\ offers(d, d.type)
        \/ t.kind = "service" /\ \E s \in d.services : offers(d, s)}}

\* Whoever is looked for is found: when a device answers a search, there is a reply
\* for each of its devices that offers the target, and the control point that made
\* the search recognises it as a result of it.
SearchAnswered ==
  \A a \in answered : \A u \in Offers(a.h, a.target) :
    \E m \in a.replies : m.udn = u /\ Matches(a.target, m.st)

\* "the requested version is lower than the device version must reply with the lower
\* version number and the lower description URL" (AdvertiseAndReply, which takes the
\* last digit of a type for its version).
LowerVersionAnswered ==
  \A a \in answered : \A x \in DevicesIn(a.h) :
    a.target.kind = "device" /\ a.target.name = x[1].type[1] /\ a.target.ver < x[1].type[2]
      => ReplyPacket(a.target, x[1].udn, "lower") \in a.replies

\* A reply is sent before the time the search gave is over, however many devices
\* are registered, and at once when no time was given.
RepliesInTime == \A r \in replyTimers : r.delay >= 0 /\ (r.delay < r.asked \/ r.delay = 0)

\* Nobody is passed over: the devices of the family that were there when a search
\* arrived are found by it, unless one of the family was unregistered, which clears the
\* flag for all of them.
NobodyMissed == \A a \in asks : a.due \subseteq NextDevices(a.start, a.af)

\* What was made known of a device, by an advertisement or in a reply, is taken back
\* when it is unregistered.  Only what goes out between the byebye and the end of
\* UpnpUnRegisterRootDevice, which releases the lock between them, stays.
ByebyeCoversAlive ==
  \A h \in Devices : h \in leaving \/ h \notin registered => announced[h] = {} \/ h \in raced

\* A search comes to its end and the application is told, unless the control point
\* was unregistered, the timer did not take the event or the thread pool refused it.
SearchEnds ==
  \A id \in 1 .. MaxSearches :
    (\E s \in searches : s.id = id)
      ~> id \in timedOut \/ id \in untimed \/ Clients \cap registered # Clients

\* "The SDK generates no more callbacks for this search after this event"
\* (UPNP_DISCOVERY_SEARCH_TIMEOUT).
NoResultAfterTimeout == late = {}

\* A search gets its replies: every device it is about is found and replies, in time,
\* with a target that the searching side recognises (ssdp_handle_device_request,
\* AdvertiseAndReply, ssdp_handle_ctrlpt_msg).
RepliesRight == SearchAnswered /\ RepliesInTime /\ NobodyMissed
===============================================================================
