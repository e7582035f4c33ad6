------------------------------ MODULE SsdpProofs ------------------------------
(***************************************************************************)
(* What is true of Ssdp.tla for every value of the constants: whoever is   *)
(* looked for answers, in time and recognisably, and what was announced is *)
(* taken back.  Of the mini server, in which the sockets for all that are  *)
(* (MiniServer.tla): no socket is left open, for any set of interfaces,    *)
(* ports, connections and faults.                                          *)
(***************************************************************************)
EXTENDS Ssdp, MiniServer, WellFoundedInduction, TLAPS

-----------------------------------------------------------------------------
(* Operators *)

\* A set of handles has a least one.
LEMMA LeastHandle ==
  ASSUME NEW S, S \subseteq Nat, S # {}
  PROVE  Min(S) \in S /\ \A y \in S : Min(S) =< y
<1>1. PICK n \in S : TRUE
  OBVIOUS
<1> DEFINE R == {ss \in Nat \X Nat : ss[1] < ss[2]}
<1>2. IsWellFoundedOn(R, Nat)
  BY NatLessThanWellFounded DEF OpToRel
<1> HIDE DEF R
<1>3. PICK x \in S : \A y \in S : ~ (<<y, x>> \in R)
  BY <1>2, WFMin
<1>4. ASSUME NEW y \in S PROVE x =< y
  <2>1. y < x => <<y, x>> \in R
    BY DEF R
  <2> QED BY <1>3, <2>1
<1> QED BY <1>4 DEF Min

\* The time that is left for a reply gets shorter, down to a second.
LEMMA FudgedShorter ==
  ASSUME NEW mx \in Int
  PROVE  Fudged(mx) \in Int /\ Fudged(mx) >= 1 /\ (Fudged(mx) < mx \/ Fudged(mx) = 1)
<1>1. CASE mx < 2
  BY <1>1 DEF Fudged
<1>2. CASE mx >= 2
  <2> DEFINE m == mx \div 10
             g == Max({1, m})
  <2>1. m \in Int /\ m <= mx - 1
    BY <1>2
  <2> HIDE DEF m
  <2>2. \E x \in {1, m} : \A y \in {1, m} : x >= y
    BY <2>1
  <2>3. g \in {1, m} /\ g >= 1
    BY <2>1, <2>2 DEF Max
  <2>4. Fudged(mx) = mx - g
    BY <1>2 DEF Fudged, MxFudgeFactor, m
  <2> HIDE DEF g
  <2> QED BY <1>2, <2>1, <2>3, <2>4
<1> QED BY <1>1, <1>2

\* A type of a device, tv, that offers the target of the search is answered, with the
\* target itself.
LEMMA TypeAnswered ==
  ASSUME NEW t \in Targets, NEW d, NEW tv, tv[2] \in Nat,
         t.name = tv[1], t.ver <= tv[2], tv[2] < 10
  PROVE  \E m \in TypeReply(t, d, tv) : m.udn = d.udn /\ m.st = t
<1>1. t.name \in Seq(STRING) /\ t.ver \in Nat
  BY SsdpConstants DEF TargetsRight
<1>2. SameName(t, tv)
  BY <1>1 DEF SameName, IsPrefix
<1>3. tv[2] % 10 = tv[2]
  OBVIOUS
<1>4. ~(t.ver > tv[2] % 10)
  BY <1>1, <1>3
<1>5. TypeReply(t, d, tv) = SendReply(t, d, IF t.ver < tv[2] % 10 THEN "lower" ELSE "desc")
  BY <1>2, <1>4 DEF TypeReply
<1> QED BY <1>5 DEF SendReply, ReplyPacket

\* A device that offers the target has a reply that is recognised.
LEMMA OfferAnswered ==
  ASSUME NEW h \in Devices, NEW t \in Targets, NEW u \in Offers(h, t)
  PROVE  \E m \in Replies(h, t) : m.udn = u /\ Matches(t, m.st)
<1>0. t.kind \in {"all", "root", "udn", "device", "service"}
  BY SsdpConstants DEF TargetsRight
<1>1. PICK i \in DOMAIN Doc[h] :
        /\ u = Doc[h][i].udn /\ Usable(Doc[h][i])
        /\ \/ t.kind = "all"
           \/ t.kind = "root" /\ i = 1
           \/ t.kind = "udn" /\ Doc[h][i].udn = t.name
           \/ /\ t.kind = "device"
              /\ t.name = Doc[h][i].type[1] /\ t.ver <= Doc[h][i].type[2] /\ Doc[h][i].type[2] < 10
           \/ /\ t.kind = "service"
              /\ \E s \in Doc[h][i].services : t.name = s[1] /\ t.ver <= s[2] /\ s[2] < 10
  BY DEF Offers
<1> DEFINE d == Doc[h][i]
           x == <<d, i = 1>>
<1>2. x \in DevicesIn(h) /\ x[1] = d /\ (x[2] <=> i = 1)
  BY <1>1 DEF DevicesIn
<1>3. d.type[2] \in Nat /\ \A s \in d.services : s[2] \in Nat
  BY SsdpConstants DEF DocRight
<1> DEFINE Of(y) == CASE t.kind = "all"    -> DeviceReply(y[1], y[2])
            [] t.kind = "device" -> TypeReply(t, y[1], y[1].type)
            [] (t.kind = "root" /\ y[2]) \/ (t.kind = "udn" /\ y[1].udn = t.name) ->
                 SendReply(t, y[1], "desc")
            [] OTHER -> {}
           Sv(y) == CASE t.kind = "all"     -> ServiceReply(y[1], y[2])
                [] t.kind = "service" -> TypeReply(t, y[1], y[2])
                [] OTHER -> {}
<1>4. Of(x) \subseteq Replies(h, t)
  BY <1>2 DEF Replies
<1>5. \A y \in ServicesIn(h) : Sv(y) \subseteq Replies(h, t)
  BY DEF Replies
<1>6. t.kind = "all" => Of(x) = DeviceReply(d, x[2])
  BY <1>2
<1>7. t.kind = "device" => Of(x) = TypeReply(t, d, d.type)
  BY <1>2
<1>8. (t.kind = "root" /\ i = 1) \/ (t.kind = "udn" /\ d.udn = t.name) => Of(x) = SendReply(t, d, "desc")
  BY <1>2
<1>9. \A y : t.kind = "service" => Sv(y) = TypeReply(t, y[1], y[2])
  OBVIOUS
<1> HIDE DEF Of, Sv
<1>10. CASE t.kind = "all"
  <2>1. ReplyPacket(Udn(d.udn), d.udn, "desc") \in DeviceReply(d, x[2])
    BY DEF DeviceReply
  <2> QED BY <1>1, <1>4, <1>6, <1>10, <2>1 DEF ReplyPacket, Matches
<1>11. CASE (t.kind = "root" /\ i = 1) \/ (t.kind = "udn" /\ d.udn = t.name)
  <2>1. ReplyPacket(t, d.udn, "desc") \in Replies(h, t)
    BY <1>4, <1>8, <1>11 DEF SendReply
  <2> QED BY <1>1, <1>11, <2>1 DEF ReplyPacket, Matches
<1>12. CASE t.kind = "device" /\ t.name = d.type[1] /\ t.ver <= d.type[2] /\ d.type[2] < 10
  <2>1. \E m \in TypeReply(t, d, d.type) : m.udn = d.udn /\ m.st = t
    BY <1>3, <1>12, TypeAnswered
  <2> QED BY <1>1, <1>4, <1>7, <1>12, <2>1 DEF Matches
<1>13. CASE t.kind = "service" /\ \E s \in d.services : t.name = s[1] /\ t.ver <= s[2] /\ s[2] < 10
  <2>1. PICK s \in d.services : t.name = s[1] /\ t.ver <= s[2] /\ s[2] < 10
    BY <1>13
  <2>2. <<d, s>> \in ServicesIn(h)
    BY <1>2, <2>1 DEF ServicesIn
  <2>3. \E m \in TypeReply(t, d, s) : m.udn = d.udn /\ m.st = t
    BY <1>3, <2>1, TypeAnswered
  <2>4. TypeReply(t, d, s) \subseteq Replies(h, t)
    BY <1>5, <1>9, <1>13, <2>2
  <2> QED BY <1>1, <1>13, <2>3, <2>4 DEF Matches
<1> QED BY <1>1, <1>10, <1>11, <1>12, <1>13

-----------------------------------------------------------------------------
(* Searches and replies *)

\* The time that is left for a request is less than it asked for, but never nothing.
\* A search message carries what an application or another host may search for.
AsksTyped ==
  /\ asks \subseteq [target : Targets, mx : Int, asked : Int, start : Nat, af : AddressFamilies,
                     due : SUBSET Devices]
  /\ \A a \in asks : a.mx <= a.asked \/ a.mx = 1
SearchesTyped ==
  \A m \in sent \cup sending : m.what = "search" => m.st \in Targets /\ m.location \in Int
RepliesTyped ==
  /\ replyTimers \subseteq [h : Devices, target : Targets, asked : Int, delay : Int]
  /\ \A a \in answered : /\ a.h \in Devices /\ a.target \in Targets
                         /\ a.replies = Replies(a.h, a.target)

\* The flag of a family is set while none of its devices was unregistered.
FlagsRight == \A h \in registered \cap Devices : DeviceAf[h] \in flags \cup torn

ReplyInv == /\ AsksTyped /\ SearchesTyped /\ RepliesTyped /\ RepliesInTime
            /\ FlagsRight /\ NobodyMissed

LEMMA ReplyInit == Init => ReplyInv
BY DEF Init, ReplyInv, AsksTyped, SearchesTyped, RepliesTyped, RepliesInTime, FlagsRight, NobodyMissed

\* Handles that stay as they are, or a control point that goes, change nothing for the
\* requests in progress.
LEMMA HandlesKept ==
  ASSUME registered' \cap Devices = registered \cap Devices, UNCHANGED <<flags, torn>>
  PROVE  /\ FlagsRight' <=> FlagsRight
         /\ \A n, af : NextDevices(n, af)' = NextDevices(n, af)
         /\ \A af : OfFamily(af)' = OfFamily(af)
<1>1. \A af : OfFamily(af)' = OfFamily(af)
  BY DEF OfFamily
<1>2. \A n, af : NextDevices(n, af)' = NextDevices(n, af)
  BY <1>1 DEF NextDevices
<1>3. FlagsRight' <=> FlagsRight
  BY DEF FlagsRight
<1> QED BY <1>1, <1>2, <1>3

\* A request of any host arrives.
LEMMA AskKeeps ==
  ASSUME ReplyInv, NEW t \in Targets, NEW mx \in Int, NEW af \in AddressFamilies, Ask(t, mx, af)
  PROVE  ReplyInv'
<1> DEFINE due == IF af \in torn THEN {} ELSE OfFamily(af)
           b == [target |-> t, mx |-> mx, asked |-> mx, start |-> 0, af |-> af, due |-> due]
<1>1. /\ asks' = asks \cup {b}
      /\ UNCHANGED <<sending, sent, replyTimers, answered, registered, flags, torn>>
  BY DEF Ask, side, handles
<1>2. due \subseteq NextDevices(0, af) /\ due \subseteq Devices
  <2>1. Devices \subseteq Nat \ {0}
    BY SsdpConstants DEF HandlesRight
  <2>2. ASSUME NEW h \in OfFamily(af), af \notin torn PROVE h \in NextDevices(0, af) /\ h \in Devices
    <3>1. h \in registered \cap Devices /\ DeviceAf[h] = af
      BY DEF OfFamily
    <3>2. af \in flags
      BY <2>2, <3>1 DEF ReplyInv, FlagsRight
    <3>a. h \in Nat /\ h # 0
      BY <2>1, <3>1, Zenon
    <3>3. h > 0
      BY <3>a
    <3> QED BY <3>1, <3>2, <3>3 DEF NextDevices
  <2> QED BY <2>2
<1>3. /\ b \in [target : Targets, mx : Int, asked : Int, start : Nat, af : AddressFamilies,
                due : SUBSET Devices]
      /\ b.mx = b.asked /\ b.mx \in Int /\ b.due = due /\ b.start = 0 /\ b.af = af
  <2> HIDE DEF due
  <2> QED BY <1>2
<1> HIDE DEF b, due
<1>4. AsksTyped'
  BY <1>1, <1>3 DEF ReplyInv, AsksTyped
<1>5. FlagsRight' /\ \A n, f : NextDevices(n, f)' = NextDevices(n, f)
  BY <1>1, HandlesKept DEF ReplyInv
<1>6. NobodyMissed'
  BY <1>1, <1>2, <1>3, <1>5 DEF ReplyInv, NobodyMissed
<1> QED BY <1>1, <1>4, <1>5, <1>6 DEF ReplyInv, SearchesTyped, RepliesTyped, RepliesInTime

LEMMA AskNextKeeps ==
  ASSUME ReplyInv, NEW a \in asks, AskNext(a) \/ AskGivenUp(a)
  PROVE  ReplyInv'
<1>1. UNCHANGED <<sending, sent, answered, registered, flags, torn>>
  BY DEF AskNext, AskGivenUp, side, handles
<1>2. /\ a \in [target : Targets, mx : Int, asked : Int, start : Nat, af : AddressFamilies,
                due : SUBSET Devices]
      /\ a.mx <= a.asked \/ a.mx = 1
  BY DEF ReplyInv, AsksTyped
<1>a. FlagsRight' /\ \A n, f : NextDevices(n, f)' = NextDevices(n, f)
  BY <1>1, HandlesKept DEF ReplyInv
<1>3. CASE asks' = asks \ {a} /\ UNCHANGED replyTimers
  BY <1>1, <1>3, <1>a DEF ReplyInv, AsksTyped, SearchesTyped, RepliesTyped, RepliesInTime,
     NobodyMissed
<1>4. CASE NextDevices(a.start, a.af) # {} /\ AskNext(a)
  <2> DEFINE S  == NextDevices(a.start, a.af)
             h  == Min(S)
             mx == Fudged(a.mx)
             b  == [a EXCEPT !.mx = mx, !.start = h, !.due = @ \ {h}]
  <2>1. h \in Devices /\ h \in Nat /\ \A g \in S : h =< g
    <3>1. S \subseteq Devices /\ Devices \subseteq Nat
      BY SsdpConstants DEF NextDevices, OfFamily, HandlesRight
    <3> QED BY <1>4, <3>1, LeastHandle
  <2>2. mx \in Int /\ mx >= 1 /\ (mx < a.mx \/ mx = 1)
    BY <1>2, FudgedShorter
  <2>3. asks' = (asks \ {a}) \cup {b}
    BY <1>4 DEF AskNext
  <2>4. \/ UNCHANGED replyTimers
        \/ \E delay \in {0, mx - 1} :
             replyTimers' = replyTimers \cup
               {[h |-> h, target |-> a.target, asked |-> a.asked, delay |-> delay]}
    BY <1>4 DEF AskNext
  <2>s. S = NextDevices(a.start, a.af)
    OBVIOUS
  <2> HIDE DEF h, mx, S
  <2>5. /\ b \in [target : Targets, mx : Int, asked : Int, start : Nat, af : AddressFamilies,
                  due : SUBSET Devices]
        /\ b.mx = mx /\ b.asked = a.asked /\ b.start = h /\ b.af = a.af /\ b.due = a.due \ {h}
    BY <1>2, <2>1, <2>2
  <2> HIDE DEF b
  <2>6. AsksTyped'
    BY <1>2, <2>2, <2>3, <2>5 DEF ReplyInv, AsksTyped
  <2>7. b.due \subseteq NextDevices(b.start, b.af)
    <3>1. a.due \subseteq S
      BY <2>s DEF ReplyInv, NobodyMissed
    <3>2. \A g \in S : g \in Nat /\ (g # h => g \in NextDevices(h, a.af))
      <4>1. Devices \subseteq Nat \ {0}
        BY SsdpConstants DEF HandlesRight
      <4>2. ASSUME NEW g \in S PROVE g \in OfFamily(a.af) /\ g \in Nat /\ a.af \in flags
        BY <2>s, <4>1 DEF NextDevices, OfFamily
      <4> QED BY <2>1, <4>2 DEF NextDevices
    <3> QED BY <2>5, <3>1, <3>2
  <2>8. NobodyMissed'
    BY <1>a, <2>3, <2>7 DEF ReplyInv, NobodyMissed
  <2>9. RepliesTyped' /\ RepliesInTime'
    <3>1. CASE UNCHANGED replyTimers
      BY <1>1, <3>1 DEF ReplyInv, RepliesTyped, RepliesInTime
    <3>2. ASSUME NEW delay \in {0, mx - 1},
                 replyTimers' = replyTimers \cup
                   {[h |-> h, target |-> a.target, asked |-> a.asked, delay |-> delay]}
          PROVE  RepliesTyped' /\ RepliesInTime'
      <4>1. /\ delay \in Int /\ delay >= 0
            /\ delay < a.asked \/ delay = 0
        BY <1>2, <2>2
      <4>2. RepliesTyped'
        BY <1>1, <1>2, <2>1, <3>2, <4>1 DEF ReplyInv, RepliesTyped
      <4>3. RepliesInTime'
        BY <3>2, <4>1 DEF ReplyInv, RepliesInTime
      <4> QED BY <4>2, <4>3
    <3> QED BY <2>4, <3>1, <3>2
  <2> QED BY <1>1, <1>a, <2>6, <2>8, <2>9 DEF ReplyInv, SearchesTyped
<1> QED BY <1>3, <1>4 DEF AskNext, AskGivenUp

LEMMA ReplyDueKeeps ==
  ASSUME ReplyInv, NEW r \in replyTimers, ReplyDue(r) \/ ReplyLost(r)
  PROVE  ReplyInv'
<1>1. /\ UNCHANGED <<asks, sending, registered, flags, torn>> /\ replyTimers' \subseteq replyTimers
      /\ r.h \in Devices /\ r.target \in Targets
  BY DEF ReplyDue, ReplyLost, ReplyInv, RepliesTyped, handles
<1>2. \A m \in sent' : m \in sent \/ m.what # "search"
  <2>1. \A m \in Replies(r.h, r.target) : m.what = "reply"
    BY DEF Replies, DeviceReply, TypeReply, SendReply, ServiceReply, ReplyPacket
  <2> QED BY <2>1 DEF ReplyDue, ReplyLost
<1>3. \A a \in answered' : a \in answered \/ a = [h |-> r.h, target |-> r.target,
                                                  replies |-> Replies(r.h, r.target)]
  BY DEF ReplyDue, ReplyLost, side
<1>4. AsksTyped' /\ SearchesTyped' /\ RepliesInTime'
  BY <1>1, <1>2 DEF ReplyInv, AsksTyped, SearchesTyped, RepliesInTime
<1>5. RepliesTyped'
  BY <1>1, <1>3 DEF ReplyInv, RepliesTyped
<1>6. FlagsRight' /\ NobodyMissed'
  BY <1>1, HandlesKept DEF ReplyInv, NobodyMissed
<1> QED BY <1>4, <1>5, <1>6 DEF ReplyInv

\* A device is unregistered: the requests for its family get less.
LEMMA FreeKeeps ==
  ASSUME ReplyInv, NEW h \in Devices, FreeHandle(h)
  PROVE  ReplyInv'
<1> DEFINE Of(a) == [a EXCEPT !.due = IF a.af = DeviceAf[h] THEN {} ELSE @]
<1>1. /\ registered' = registered \ {h} /\ flags' = flags \ {DeviceAf[h]}
      /\ torn' = torn \cup {DeviceAf[h]} /\ asks' = {Of(a) : a \in asks}
      /\ UNCHANGED <<sending, sent, replyTimers, answered>>
  BY DEF FreeHandle, side
<1>2. ASSUME NEW a \in asks
      PROVE  /\ Of(a) \in [target : Targets, mx : Int, asked : Int, start : Nat, af : AddressFamilies,
                           due : SUBSET Devices]
             /\ Of(a).mx = a.mx /\ Of(a).asked = a.asked
             /\ a.mx <= a.asked \/ a.mx = 1
             /\ Of(a).due \subseteq NextDevices(Of(a).start, Of(a).af)'
  <2>1. /\ a \in [target : Targets, mx : Int, asked : Int, start : Nat, af : AddressFamilies,
                  due : SUBSET Devices]
        /\ a.mx <= a.asked \/ a.mx = 1
        /\ a.due \subseteq NextDevices(a.start, a.af)
    BY DEF ReplyInv, AsksTyped, NobodyMissed
  <2>2. /\ Of(a).start = a.start /\ Of(a).af = a.af /\ Of(a).mx = a.mx /\ Of(a).asked = a.asked
        /\ Of(a).due = IF a.af = DeviceAf[h] THEN {} ELSE a.due
    BY <2>1
  <2>3. Of(a) \in [target : Targets, mx : Int, asked : Int, start : Nat, af : AddressFamilies,
                   due : SUBSET Devices]
    BY <2>1
  <2> HIDE DEF Of
  <2>4. a.af # DeviceAf[h] => NextDevices(a.start, a.af)' = NextDevices(a.start, a.af)
    BY <1>1 DEF NextDevices, OfFamily
  <2> QED BY <2>1, <2>2, <2>3, <2>4
<1> HIDE DEF Of
<1>3. AsksTyped'
  BY <1>1, <1>2 DEF AsksTyped
<1>4. NobodyMissed'
  BY <1>1, <1>2 DEF NobodyMissed
<1>5. FlagsRight'
  BY <1>1 DEF ReplyInv, FlagsRight
<1> QED BY <1>1, <1>3, <1>4, <1>5 DEF ReplyInv, SearchesTyped, RepliesTyped, RepliesInTime

LEMMA RegisterKeeps ==
  ASSUME ReplyInv, NEW h \in Devices, RegisterRootDevice(h)
  PROVE  ReplyInv'
<1>1. /\ registered' = registered \cup {h} /\ flags' = flags \cup {DeviceAf[h]}
      /\ torn' = torn \ {DeviceAf[h]}
      /\ UNCHANGED <<asks, sending, sent, replyTimers, answered>>
  BY DEF RegisterRootDevice, side
<1>2. \A n, af : NextDevices(n, af) \subseteq NextDevices(n, af)'
  BY <1>1 DEF NextDevices, OfFamily
<1>3. NobodyMissed' /\ FlagsRight'
  BY <1>1, <1>2 DEF ReplyInv, NobodyMissed, FlagsRight
<1> QED BY <1>1, <1>3 DEF ReplyInv, AsksTyped, SearchesTyped, RepliesTyped, RepliesInTime

\* A control point makes a search; its request carries a time in the range.
LEMMA SearchKeeps ==
  ASSUME ReplyInv, NEW c, NEW t \in Targets, NEW mx \in Mxs, UpnpSearchAsync(c, t, mx)
  PROVE  ReplyInv'
<1> DEFINE time == SearchTime(IF mx < 1 THEN DefaultMx ELSE mx)
<1>1. time \in Int
  BY SsdpConstants DEF SearchTime
<1>2. /\ sending' = sending \cup {SearchMsg(t, time)}
      /\ UNCHANGED <<asks, sent, replyTimers, answered, registered, flags, torn>>
  BY DEF UpnpSearchAsync, SearchByTarget, handles
<1> HIDE DEF time
<1>3. SearchesTyped'
  BY <1>1, <1>2 DEF ReplyInv, SearchesTyped, SearchMsg
<1>4. FlagsRight' /\ NobodyMissed'
  BY <1>2, HandlesKept DEF ReplyInv, NobodyMissed
<1> QED BY <1>2, <1>3, <1>4 DEF ReplyInv, AsksTyped, RepliesTyped, RepliesInTime

LEMMA ReplyStep == ReplyInv /\ [Next]_vars => ReplyInv'
<1> SUFFICES ASSUME ReplyInv, [Next]_vars PROVE ReplyInv'
  OBVIOUS
<1>1. ASSUME UNCHANGED <<asks, replyTimers, answered, flags, torn>>,
             registered' \cap Devices = registered \cap Devices,
             \A m \in sent' \cup sending' : m \in sent \cup sending \/ m.what # "search"
      PROVE  ReplyInv'
  <2>1. FlagsRight' /\ NobodyMissed'
    BY <1>1, HandlesKept DEF ReplyInv, NobodyMissed
  <2> QED BY <1>1, <2>1 DEF ReplyInv, AsksTyped, SearchesTyped, RepliesTyped, RepliesInTime
<1>2. ASSUME NEW h \in Devices, Advertise(h) \/ Shutdown(h) PROVE ReplyInv'
  BY <1>1, <1>2 DEF Advertise, Shutdown, handles
<1>3. ASSUME NEW h \in Devices, FreeHandle(h) \/ RegisterRootDevice(h) PROVE ReplyInv'
  BY <1>3, FreeKeeps, RegisterKeeps
<1>4. ASSUME NEW m \in sent, NEW af \in AddressFamilies, SearchArrives(m, af) PROVE ReplyInv'
  <2>1. m.st \in Targets /\ m.location \in Int
    BY <1>4 DEF SearchArrives, ReplyInv, SearchesTyped
  <2> QED BY <1>4, <2>1, AskKeeps DEF SearchArrives
<1>5. ASSUME NEW t \in Targets, NEW mx \in ForeignMxs, NEW af \in AddressFamilies, ForeignSearch(t, mx, af)
      PROVE  ReplyInv'
  BY <1>5, AskKeeps, SsdpConstants DEF ForeignSearch
<1>6. ASSUME NEW m \in sending, SearchSend(m) PROVE ReplyInv'
  BY <1>1, <1>6 DEF SearchSend, side, handles
<1>7. ASSUME NEW c \in Clients, UpnpUnRegisterClient(c) PROVE ReplyInv'
  <2>1. c \notin Devices
    BY SsdpConstants DEF HandlesRight
  <2> QED BY <1>1, <1>7, <2>1 DEF UpnpUnRegisterClient, side
<1>8. ASSUME \/ \E m \in sent, c \in Clients : HandleReply(c, m)
             \/ \E e \in searchTimers : SearchExpired(e) \/ SearchExpiryLost(e)
             \/ \E id \in expiring : SearchTimeout(id)
             \/ \E j \in jobs : SendSearchResult(j)
             \/ UNCHANGED vars
      PROVE  ReplyInv'
  BY <1>1, <1>8 DEF HandleReply, SearchExpired, SearchExpiryLost, SearchTimeout,
     SendSearchResult, vars, side, handles
<1>9. CASE DeviceNext
  <2>1. ASSUME NEW h \in Devices,
               Advertise(h) \/ Shutdown(h) \/ FreeHandle(h) \/ RegisterRootDevice(h)
        PROVE  ReplyInv'
    BY <1>2, <1>3, <2>1
  <2> QED BY <1>9, <1>5, <2>1 DEF DeviceNext
<1>10. CASE AnswerNext
  BY <1>10, AskNextKeeps, ReplyDueKeeps DEF AnswerNext
<1>11. CASE SearchNext
  BY <1>11, <1>4, <1>6, <1>7, <1>8, SearchKeeps DEF SearchNext
<1> QED BY <1>8, <1>9, <1>10, <1>11 DEF Next

\* A search gets its replies: every device it is about is found and replies, in time,
\* with a target that the searching side recognises (ssdp_handle_device_request,
\* AdvertiseAndReply, ssdp_handle_ctrlpt_msg).
THEOREM SearchesAreAnswered == Spec => []RepliesRight
<1>1. ReplyInv => RepliesRight
  BY OfferAnswered DEF ReplyInv, RepliesTyped, RepliesRight, SearchAnswered
<1> QED BY <1>1, ReplyInit, ReplyStep, PTL DEF Spec

-----------------------------------------------------------------------------
(* Advertisements *)


\* What is in the description of handle h: NT or ST and UDN of its messages.
DevicePairs(x) ==
  {<<y, x[1].udn>> :
     y \in {Udn(x[1].udn), Type("device", x[1].type)} \cup (IF x[2] THEN {RootDev} ELSE {})}
ServicePair(x) == <<Type("service", x[2]), x[1].udn>>
Described(h, p) == \/ \E x \in DevicesIn(h) : p \in DevicePairs(x)
                   \/ \E x \in ServicesIn(h) : p = ServicePair(x)

AdvertInv ==
  /\ ByebyeCoversAlive
  /\ leaving \subseteq registered \cap Devices
  /\ \A h \in Devices : \A p \in announced[h] : Described(h, p)
  /\ announced = [h \in Devices |-> announced[h]]

\* Whatever of its description a registered device makes known, an invariant is kept.
LEMMA KnownKeeps ==
  ASSUME AdvertInv, NEW h \in Devices, h \in registered, NEW what, MadeKnown(h, what),
         \A p \in what : Described(h, p), UNCHANGED <<registered, leaving>>
  PROVE  AdvertInv'
<1>1. announced = [g \in Devices |-> announced[g]]
  BY DEF AdvertInv
<1>2. /\ announced'[h] = announced[h] \cup what
      /\ \A g \in Devices : g # h => announced'[g] = announced[g]
      /\ announced' = [g \in Devices |-> announced'[g]]
  BY <1>1 DEF MadeKnown
<1>3. raced \subseteq raced' /\ (h \in leaving /\ what # {} => h \in raced')
  BY DEF MadeKnown
<1>4. ASSUME NEW g \in Devices, g \in leaving \/ g \notin registered
      PROVE  announced'[g] = {} \/ g \in raced'
  BY <1>2, <1>3, <1>4 DEF AdvertInv, ByebyeCoversAlive
<1>5. \A g \in Devices : \A p \in announced'[g] : Described(g, p)
  BY <1>2 DEF AdvertInv
<1> QED BY <1>2, <1>4, <1>5 DEF AdvertInv, ByebyeCoversAlive

\* What is advertised is described.
LEMMA AdvertisedKeeps ==
  ASSUME AdvertInv, NEW h \in Devices, Advertise(h)
  PROVE  AdvertInv'
<1> DEFINE ads == UNION ({DeviceAdvertisement(x[1], x[2]) : x \in DevicesIn(h)}
                      \cup {ServiceAdvertisement(x[1], x[2]) : x \in ServicesIn(h)})
<1>1. ASSUME NEW m \in ads PROVE Described(h, <<m.st, m.udn>>)
  <2>1. CASE \E x \in DevicesIn(h) : m \in DeviceAdvertisement(x[1], x[2])
    <3>1. PICK x \in DevicesIn(h) : m \in DeviceAdvertisement(x[1], x[2])
      BY <2>1
    <3>2. PICK y \in {Udn(x[1].udn), Type("device", x[1].type)} \cup (IF x[2] THEN {RootDev} ELSE {}) :
            m = NotifyPacket("alive", y, x[1].udn)
      BY <3>1 DEF DeviceAdvertisement
    <3>3. m.st = y /\ m.udn = x[1].udn
      BY <3>2 DEF NotifyPacket
    <3>4. <<m.st, m.udn>> \in DevicePairs(x)
      BY <3>2, <3>3 DEF DevicePairs
    <3> QED BY <3>1, <3>4 DEF Described
  <2>2. CASE \E x \in ServicesIn(h) : m \in ServiceAdvertisement(x[1], x[2])
    <3>1. PICK x \in ServicesIn(h) : m \in ServiceAdvertisement(x[1], x[2])
      BY <2>2
    <3>2. m.st = Type("service", x[2]) /\ m.udn = x[1].udn
      BY <3>1 DEF ServiceAdvertisement, NotifyPacket
    <3> QED BY <3>1, <3>2 DEF Described, ServicePair
  <2> QED BY <1>1, <2>1, <2>2
<1>2. /\ MadeKnown(h, {<<m.st, m.udn>> : m \in ads})
      /\ h \in registered /\ UNCHANGED <<registered, leaving>>
  BY DEF Advertise, handles
<1> HIDE DEF ads
<1>3. \A p \in {<<m.st, m.udn>> : m \in ads} : Described(h, p)
  BY <1>1
<1> QED BY <1>2, <1>3, KnownKeeps

\* A reply is about a device of the description.
LEMMA ReplyDescribed ==
  ASSUME NEW h, NEW t, NEW m \in Replies(h, t)
  PROVE  Described(h, <<Udn(m.udn), m.udn>>)
<1>1. ASSUME NEW d, NEW y, NEW l, m = ReplyPacket(y, d.udn, l) PROVE m.udn = d.udn
  BY <1>1 DEF ReplyPacket
<1>2. \E x \in DevicesIn(h) : m.udn = x[1].udn
  <2>1. ASSUME NEW x \in DevicesIn(h),
               m \in DeviceReply(x[1], x[2]) \/ m \in TypeReply(t, x[1], x[1].type)
                 \/ m \in SendReply(t, x[1], "desc")
        PROVE  m.udn = x[1].udn
    BY <1>1, <2>1 DEF DeviceReply, TypeReply, SendReply
  <2>2. ASSUME NEW x \in ServicesIn(h), m \in ServiceReply(x[1], x[2]) \/ m \in TypeReply(t, x[1], x[2])
        PROVE  m.udn = x[1].udn
    BY <1>1, <2>2 DEF ServiceReply, TypeReply, SendReply
  <2>3. \A x \in ServicesIn(h) : \E y \in DevicesIn(h) : y[1] = x[1]
    BY DEF ServicesIn
  <2>4. \/ \E x \in DevicesIn(h) : \/ m \in DeviceReply(x[1], x[2])
                                   \/ m \in TypeReply(t, x[1], x[1].type)
                                   \/ m \in SendReply(t, x[1], "desc")
        \/ \E x \in ServicesIn(h) : m \in ServiceReply(x[1], x[2]) \/ m \in TypeReply(t, x[1], x[2])
    BY DEF Replies
  <2> QED BY <2>1, <2>2, <2>3, <2>4
<1>3. PICK x \in DevicesIn(h) : m.udn = x[1].udn
  BY <1>2
<1>4. <<Udn(m.udn), m.udn>> \in DevicePairs(x)
  BY <1>3 DEF DevicePairs
<1> QED BY <1>3, <1>4 DEF Described

LEMMA RepliedKeeps ==
  ASSUME AdvertInv, NEW r \in replyTimers, r.h \in Devices, r.h \in registered, ReplyDue(r)
  PROVE  AdvertInv'
<1> DEFINE what == {<<Udn(m.udn), m.udn>> : m \in Replies(r.h, r.target)}
<1>1. MadeKnown(r.h, what) /\ UNCHANGED <<registered, leaving>>
  BY DEF ReplyDue, handles
<1>2. \A p \in what : Described(r.h, p)
  BY ReplyDescribed
<1> HIDE DEF what
<1> QED BY <1>1, <1>2, KnownKeeps

\* What is described is taken back.
LEMMA WithdrawnPairs ==
  ASSUME NEW h \in Devices, AdvertInv, Shutdown(h)
  PROVE  AdvertInv'
<1> DEFINE byes == UNION ({DeviceShutdown(x[1], x[2]) : x \in DevicesIn(h)}
                       \cup {ServiceShutdown(x[1], x[2]) : x \in ServicesIn(h)})
<1>1. ASSUME NEW p, Described(h, p) PROVE p \in {<<m.st, m.udn>> : m \in byes}
  <2>1. CASE \E x \in DevicesIn(h) : p \in DevicePairs(x)
    <3>1. PICK x \in DevicesIn(h) : p \in DevicePairs(x)
      BY <2>1
    <3>2. PICK y \in {Udn(x[1].udn), Type("device", x[1].type)} \cup (IF x[2] THEN {RootDev} ELSE {}) :
            p = <<y, x[1].udn>>
      BY <3>1 DEF DevicePairs
    <3> DEFINE m == NotifyPacket("byebye", y, x[1].udn)
    <3>3. m.st = y /\ m.udn = x[1].udn
      BY DEF NotifyPacket
    <3>4. m \in DeviceShutdown(x[1], x[2])
      BY <3>2 DEF DeviceShutdown
    <3>5. m \in byes
      BY <3>1, <3>4
    <3> HIDE DEF m, byes
    <3> QED BY <3>2, <3>3, <3>5
  <2>2. CASE \E x \in ServicesIn(h) : p = ServicePair(x)
    <3>1. PICK x \in ServicesIn(h) : p = ServicePair(x)
      BY <2>2
    <3> DEFINE m == NotifyPacket("byebye", Type("service", x[2]), x[1].udn)
    <3>2. m.st = Type("service", x[2]) /\ m.udn = x[1].udn
      BY DEF NotifyPacket
    <3>3. m \in byes
      BY <3>1 DEF ServiceShutdown
    <3> HIDE DEF m, byes
    <3> QED BY <3>1, <3>2, <3>3 DEF ServicePair
  <2> QED BY <1>1, <2>1, <2>2 DEF Described
<1>2. /\ announced' = [announced EXCEPT ![h] = @ \ {<<m.st, m.udn>> : m \in byes}]
      /\ leaving' = leaving \cup {h} /\ raced' = raced \ {h} /\ registered' = registered
      /\ h \in registered
  BY DEF Shutdown
<1>3. announced = [g \in Devices |-> announced[g]]
  BY DEF AdvertInv
<1> HIDE DEF byes
<1>4. /\ announced'[h] = {}
      /\ \A g \in Devices : g # h => announced'[g] = announced[g]
      /\ announced' = [g \in Devices |-> announced'[g]]
  BY <1>1, <1>2, <1>3 DEF AdvertInv
<1> QED BY <1>2, <1>4 DEF AdvertInv, ByebyeCoversAlive

LEMMA AdvertStep == AdvertInv /\ ReplyInv /\ [Next]_vars => AdvertInv'
<1> SUFFICES ASSUME AdvertInv, ReplyInv, [Next]_vars PROVE AdvertInv'
  OBVIOUS
<1>1. ASSUME UNCHANGED <<announced, raced>>, leaving' \subseteq leaving,
             leaving' \subseteq registered' \cap Devices,
             \A h \in Devices : h \in registered => h \in registered' \/ h \in leaving
      PROVE  AdvertInv'
  BY <1>1 DEF AdvertInv, ByebyeCoversAlive
<1>2. ASSUME NEW h \in Devices, FreeHandle(h) \/ RegisterRootDevice(h) PROVE AdvertInv'
  BY <1>1, <1>2 DEF FreeHandle, RegisterRootDevice, side, known, AdvertInv
<1>3. ASSUME NEW c \in Clients, UpnpUnRegisterClient(c) PROVE AdvertInv'
  <2>1. c \notin Devices
    BY SsdpConstants DEF HandlesRight
  <2>2. leaving \subseteq Devices
    BY DEF AdvertInv
  <2> QED BY <1>1, <1>3, <2>1, <2>2 DEF UpnpUnRegisterClient, side, known, AdvertInv
<1>4. ASSUME UNCHANGED <<registered, leaving, announced, raced>> PROVE AdvertInv'
  BY <1>1, <1>4 DEF AdvertInv
<1>5. ASSUME NEW m \in sent, \/ \E af \in AddressFamilies : SearchArrives(m, af)
                             \/ \E c \in Clients : HandleReply(c, m)
      PROVE AdvertInv'
  BY <1>4, <1>5 DEF SearchArrives, Ask, HandleReply, side, known, handles
<1>6. ASSUME NEW t \in Targets, \/ \E mx \in ForeignMxs, af \in AddressFamilies : ForeignSearch(t, mx, af)
                               \/ \E c \in Clients, mx \in Mxs : UpnpSearchAsync(c, t, mx)
      PROVE  AdvertInv'
  BY <1>4, <1>6 DEF ForeignSearch, Ask, UpnpSearchAsync, SearchByTarget, side, known, handles
<1>7. ASSUME NEW r \in replyTimers, ReplyDue(r) \/ ReplyLost(r) PROVE AdvertInv'
  <2>1. CASE ReplyDue(r) /\ r.h \in registered
    BY <2>1, RepliedKeeps DEF ReplyInv, RepliesTyped
  <2>2. CASE ~(ReplyDue(r) /\ r.h \in registered)
    BY <1>4, <1>7, <2>2 DEF ReplyDue, ReplyLost, side, known, handles
  <2> QED BY <2>1, <2>2
<1>8. ASSUME \/ \E a \in asks : AskNext(a) \/ AskGivenUp(a)
             \/ \E m \in sending : SearchSend(m)
             \/ \E e \in searchTimers : SearchExpired(e) \/ SearchExpiryLost(e)
             \/ \E id \in expiring : SearchTimeout(id)
             \/ \E j \in jobs : SendSearchResult(j)
             \/ UNCHANGED vars
      PROVE  AdvertInv'
  BY <1>4, <1>8 DEF AskNext, AskGivenUp, SearchSend, SearchExpired, SearchExpiryLost, SearchTimeout,
     SendSearchResult, vars, side, known, handles
<1>9. CASE DeviceNext
  BY <1>9, <1>2, <1>6, AdvertisedKeeps, WithdrawnPairs DEF DeviceNext
<1>10. CASE AnswerNext
  BY <1>10, <1>7, <1>8 DEF AnswerNext
<1>11. CASE SearchNext
  BY <1>11, <1>3, <1>5, <1>6, <1>8 DEF SearchNext
<1> QED BY <1>8, <1>9, <1>10, <1>11 DEF Next

\* What was made known of a device is taken back when it is unregistered, whatever
\* else happens, except for what goes out between its byebye and the moment its handle
\* is freed (AdvertiseAndReply, UpnpUnRegisterRootDeviceLowPower).
THEOREM ByebyesCoverAlives == Spec => []ByebyeCoversAlive
<1>1. Init => AdvertInv
  BY DEF Init, AdvertInv, ByebyeCoversAlive
<1>2. AdvertInv => ByebyeCoversAlive
  BY DEF AdvertInv
<1>3. Spec => []ReplyInv
  BY ReplyInit, ReplyStep, PTL DEF Spec
<1> QED BY <1>1, <1>2, <1>3, AdvertStep, PTL DEF Spec

-----------------------------------------------------------------------------
(* The sockets, with those of the mini server's own (MiniServer).          *)

\* The datagram sockets made before the n-th.
SsdpBefore(n) == {SsdpOrder[i] : i \in {k \in DOMAIN SsdpOrder : k < n}}

StartTyped ==
  start \in [pc : {"none", "next", "bind", "listen", "stop", "ssdp", "add", "wait", "done",
                   "failed"},
             sock : Nat, try : Nat, orig : Nat, from : Nat, bound : BOOLEAN]

\* What is open at each point of StartMiniServer.
OpenAt ==
  /\ start.pc \in {"none", "failed"} => open = {}
  /\ start.pc \in {"next", "bind", "listen", "stop"} => open \subseteq MiniSocks
  /\ start.pc = "ssdp" => /\ start.sock > 0
                          /\ open \subseteq MiniSocks \cup {Stop} \cup SsdpBefore(start.sock)

\* The job exists once it was added, and the state follows it.
ServerAt ==
  /\ server \in {"none", "queued", "loop"}
  /\ start.pc \in {"none", "next", "bind", "listen", "stop", "ssdp", "add"} =>
       server = "none" /\ gMServState = "idle"
  /\ server = "loop" <=> gMServState # "idle"
  /\ server = "queued" => start.pc # "done"
  /\ server = "none" /\ start.pc = "done" => open = {}

SocketInv == StartTyped /\ OpenAt /\ ServerAt

-----------------------------------------------------------------------------
\* get_ssdp_sockets closes, when it cannot make a socket, all it made before.
LEMMA MadeBefore ==
  ASSUME NEW n \in DOMAIN SsdpOrder
  PROVE  SsdpBefore(n) \subseteq SsdpMade(SsdpOrder[n])
<1> DEFINE A == Req("4")
           B == Req("6")
           C == Ssdp("4")
           D == Ssdp("6")
           F == Ssdp("6u")
<1>1. /\ A # B /\ A # C /\ A # D /\ A # F /\ B # C /\ B # D /\ B # F
      /\ C # D /\ C # F /\ D # F
  BY DEF Req, Ssdp
<1>2. /\ SsdpMade(A) = {}
      /\ SsdpMade(B) = {A}
      /\ SsdpMade(C) = {A, B}
      /\ SsdpMade(D) = {A, B, C}
      /\ SsdpMade(F) = {A, B, C, D}
  <2> HIDE DEF A, B, C, D, F
  <2> QED BY <1>1, Zenon DEF SsdpMade, A, B, C, D, F
<1>3. SsdpOrder = <<A, B, C, D, F>>
  BY DEF SsdpOrder
<1> HIDE DEF A, B, C, D, F
<1>4. n \in 1 .. 5
  BY <1>3
<1> QED BY <1>2, <1>3, <1>4 DEF SsdpBefore

\* One socket further.
LEMMA OneMore ==
  ASSUME NEW n \in DOMAIN SsdpOrder
  PROVE  SsdpBefore(n + 1) = SsdpBefore(n) \cup {SsdpOrder[n]}
<1>1. DOMAIN SsdpOrder = 1 .. 5
  BY DEF SsdpOrder
<1> QED BY <1>1 DEF SsdpBefore

LEMMA SocketInit == ServerInit => SocketInv
BY DEF ServerInit, SocketInv, StartTyped, OpenAt, ServerAt, NoStart

\* When StartMiniServer gives up with everything closed, whatever the job does.
LEMMA FailingSocketInv ==
  ASSUME SocketInv, StartFails({}), gMServState' = gMServState, server' = server,
         server = "none" \/ start.pc = "wait"
  PROVE  SocketInv'
BY DEF StartFails, NoStart, SocketInv, StartTyped, OpenAt, ServerAt

LEMMA StartSocketInv ==
  ASSUME SocketInv, StartMiniServer
  PROVE  SocketInv'
<1>1. PICK made \in {Families} \cup (IF "socket" \in Faults THEN SUBSET Families ELSE {}) :
        IF "4" \notin made /\ ("6" \notin made \/ "6u" \notin made)
        THEN StartFails({})
        ELSE /\ open' = {Mini(f) : f \in made}
             /\ start' = [NoStart EXCEPT !.pc = "next", !.sock = 1]
  BY DEF StartMiniServer
<1>2. made \subseteq {"4", "6", "6u"}
  BY MiniServerConstants
<1>3. {Mini(f) : f \in made} \subseteq MiniSocks
  BY <1>2 DEF MiniSocks
<1>4. UNCHANGED <<gMServState, server>> /\ server = "none" /\ gMServState = "idle"
  BY DEF StartMiniServer, SocketInv, ServerAt
<1>5. CASE StartFails({})
  BY <1>4, <1>5, FailingSocketInv
<1>6. CASE /\ open' = {Mini(f) : f \in made}
           /\ start' = [NoStart EXCEPT !.pc = "next", !.sock = 1]
  BY <1>3, <1>4, <1>6 DEF SocketInv, StartTyped, OpenAt, ServerAt, NoStart
<1> QED BY <1>1, <1>5, <1>6

\* The stream sockets are bound: none is opened, and a failure closes them all.
LEMMA BindSocketInv ==
  ASSUME SocketInv, BindNext \/ DoBind \/ DoListen
  PROVE  SocketInv'
<1>0. start.sock + 1 \in Nat /\ StartPort \in Nat
  BY MiniServerConstants DEF SocketInv, StartTyped
<1>1. /\ start.pc \in {"next", "bind", "listen"}
      /\ UNCHANGED <<gMServState, server>>
      /\ server = "none" /\ gMServState = "idle" /\ open \subseteq MiniSocks
  BY DEF BindNext, DoBind, DoListen, SocketInv, ServerAt, OpenAt
<1>2. CASE StartFails(open \ MiniSocks)
  <2>1. open \ MiniSocks = {}
    BY <1>1
  <2> QED BY <1>1, <1>2, <2>1, FailingSocketInv
<1>3. CASE BindNext
  <2>1. StartTyped'
    <3> USE <1>0 DEF SocketInv, StartTyped
    <3>1. CASE start' = [start EXCEPT !.pc = "stop"]
      BY <3>1
    <3>2. CASE start' = [start EXCEPT !.pc = "bind", !.try = StartPort, !.orig = StartPort,
                                      !.from = StartPort, !.bound = FALSE]
      BY <3>2
    <3>3. CASE start' = [start EXCEPT !.sock = @ + 1]
      BY <3>3
    <3> QED BY <1>3, <3>1, <3>2, <3>3 DEF BindNext
  <2>2. start'.pc \in {"next", "bind", "stop"} /\ open' = open
    BY <1>1, <1>3 DEF BindNext, SocketInv, StartTyped
  <2> QED BY <1>1, <2>1, <2>2 DEF SocketInv, OpenAt, ServerAt
<1>4. CASE DoBind
  <2>1. NextPort(start.try) \in Nat
    BY MiniServerConstants DEF SocketInv, StartTyped, NextPort
  <2> QED BY <2>1, <1>1, <1>2, <1>4 DEF DoBind, SocketInv, StartTyped, OpenAt, ServerAt
<1>5. CASE DoListen
  <2> SUFFICES ASSUME ~StartFails(open \ MiniSocks) PROVE SocketInv'
    BY <1>2
  <2>1. StartTyped'
    <3> USE <1>0 DEF SocketInv, StartTyped
    <3>1. CASE start' = [start EXCEPT !.pc = "next", !.sock = @ + 1]
      BY <3>1
    <3>2. CASE start' = [start EXCEPT !.pc = "bind", !.from = start.try]
      BY <3>2
    <3>3. CASE start' = [start EXCEPT !.pc = "bind", !.try = 0, !.from = 0, !.bound = FALSE]
      BY <3>3
    <3>4. CASE start' = [start EXCEPT !.pc = "bind", !.try = 0, !.from = 0, !.bound = TRUE]
      BY <3>4
    <3> QED BY <1>5, <3>1, <3>2, <3>3, <3>4 DEF DoListen
  <2>2. start'.pc \in {"next", "bind"} /\ open' \subseteq open
    BY <1>5 DEF DoListen, SocketInv, StartTyped
  <2> QED BY <1>1, <2>1, <2>2 DEF SocketInv, OpenAt, ServerAt
<1> QED BY <1>3, <1>4, <1>5

LEMMA StopSockSocketInv == SocketInv /\ GetStopSock => SocketInv'
<1> SUFFICES ASSUME SocketInv, GetStopSock PROVE SocketInv'
  OBVIOUS
<1>1. /\ start.pc = "stop" /\ UNCHANGED <<gMServState, server>>
      /\ server = "none" /\ gMServState = "idle" /\ open \subseteq MiniSocks
  BY DEF GetStopSock, SocketInv, ServerAt, OpenAt
<1>2. CASE StartFails(open \ MiniSocks)
  <2>1. open \ MiniSocks = {}
    BY <1>1
  <2> QED BY <1>1, <1>2, <2>1, FailingSocketInv
<1>3. CASE open' = open \cup {Stop} /\ start' = [start EXCEPT !.pc = "ssdp", !.sock = 1]
  <2>1. start'.pc = "ssdp" /\ start'.sock = 1 /\ StartTyped'
    BY <1>3 DEF SocketInv, StartTyped
  <2> QED BY <1>1, <1>3, <2>1 DEF SocketInv, OpenAt, ServerAt
<1> QED BY <1>2, <1>3 DEF GetStopSock

LEMMA SsdpSockSocketInv ==
  ASSUME NEW s, SocketInv, CreateSsdpSock(s)
  PROVE  SocketInv'
<1> DEFINE n == start.sock
<1>1. /\ start.pc = "ssdp" /\ n \in Nat /\ 0 < n /\ n <= 5
      /\ UNCHANGED <<gMServState, server>>
      /\ s = SsdpOrder[n] /\ server = "none" /\ gMServState = "idle"
      /\ open \subseteq MiniSocks \cup {Stop} \cup SsdpBefore(n)
  BY DEF CreateSsdpSock, SocketInv, StartTyped, ServerAt, OpenAt, SsdpOrder
<1>2. DOMAIN SsdpOrder = 1 .. 5
  BY DEF SsdpOrder
<1>3. ASSUME StartFails(open \ (MiniSocks \cup {Stop} \cup SsdpMade(s))), n \in DOMAIN SsdpOrder
      PROVE  SocketInv'
  <2>1. open \ (MiniSocks \cup {Stop} \cup SsdpMade(s)) = {}
    BY <1>1, <1>3, MadeBefore
  <2> QED BY <1>1, <1>3, <2>1, FailingSocketInv
<1>4. ASSUME open' \subseteq open \cup {s}, start' = [start EXCEPT !.sock = @ + 1],
             n \in DOMAIN SsdpOrder
      PROVE  SocketInv'
  <2>1. start'.pc = "ssdp" /\ start'.sock = n + 1 /\ StartTyped'
    BY <1>1, <1>4 DEF SocketInv, StartTyped
  <2>2. SsdpBefore(n + 1) = SsdpBefore(n) \cup {s}
    BY <1>1, <1>4, OneMore
  <2>3. open' \subseteq MiniSocks \cup {Stop} \cup SsdpBefore(start'.sock)
    BY <1>1, <1>4, <2>1, <2>2
  <2> QED BY <1>1, <2>1, <2>3 DEF SocketInv, OpenAt, ServerAt
<1>5. n \in DOMAIN SsdpOrder
  BY <1>1, <1>2
<1> QED BY <1>3, <1>4, <1>5 DEF CreateSsdpSock

LEMMA ServerSocketInv ==
  SocketInv /\ (SsdpSocketsMade \/ AddServerJob \/ WaitForServer \/ ServerStarts \/ ServerStops) => SocketInv'
<1> SUFFICES ASSUME SocketInv PROVE
      SsdpSocketsMade \/ AddServerJob \/ WaitForServer \/ ServerStarts \/ ServerStops => SocketInv'
  OBVIOUS
<1> USE DEF SocketInv, StartTyped, OpenAt, ServerAt
<1>1. CASE SsdpSocketsMade
  BY <1>1 DEF SsdpSocketsMade
<1>2. CASE AddServerJob
  <2>1. server = "none" /\ gMServState' = gMServState
    BY <1>2 DEF AddServerJob
  <2>2. CASE StartFails({}) /\ UNCHANGED server
    BY <2>1, <2>2, FailingSocketInv
  <2>3. CASE server' = "queued" /\ start' = [start EXCEPT !.pc = "wait"] /\ UNCHANGED open
    BY <1>2, <2>1, <2>3 DEF AddServerJob
  <2> QED BY <1>2, <2>2, <2>3 DEF AddServerJob
<1>3. CASE WaitForServer
  <2>1. start.pc = "wait" /\ UNCHANGED <<gMServState, server>>
    BY <1>3 DEF WaitForServer
  <2>2. CASE StartFails({})
    BY <2>1, <2>2, FailingSocketInv
  <2>3. CASE gMServState = "running" /\ start' = [NoStart EXCEPT !.pc = "done"] /\ UNCHANGED open
    BY <2>1, <2>3 DEF NoStart
  <2> QED BY <1>3, <2>2, <2>3 DEF WaitForServer
<1>4. CASE ServerStarts
  BY <1>4 DEF ServerStarts
<1>5. CASE ServerStops
  BY <1>5 DEF ServerStops, Ready
<1> QED BY <1>1, <1>2, <1>3, <1>4, <1>5

\* Stopping, connections and failing reads open nothing.
LEMMA OtherSocketInv ==
  ASSUME SocketInv, start' = start, server' = server, open' \subseteq open,
         \/ gMServState' = gMServState
         \/ gMServState = "running" /\ gMServState' = "stopping"
  PROVE  SocketInv'
BY DEF SocketInv, StartTyped, OpenAt, ServerAt

\* NoSocketLeft holds of every start and every stop of the mini server: whatever
\* StartMiniServer could not open, bind or hand over, and in whatever state
\* StopMiniServer meets it (miniserver.c, get_ssdp_sockets).
THEOREM SocketsClosed == ServerSpec => []NoSocketLeft
<1>1. SocketInv /\ [ServerNext]_serverVars => SocketInv'
  <2> SUFFICES ASSUME SocketInv, [ServerNext]_serverVars PROVE SocketInv'
    OBVIOUS
  <2>1. CASE StartMiniServer
    BY <2>1, StartSocketInv
  <2>2. CASE StartStep
    BY <2>2, BindSocketInv, StopSockSocketInv, SsdpSockSocketInv, ServerSocketInv
    DEF StartStep, CreateSsdpSockReqV4, CreateSsdpSockReqV6, CreateSsdpSockV4,
        CreateSsdpSockV6, CreateSsdpSockV6UlaGua
  <2>3. CASE ServerStarts \/ ServerStops
    BY <2>3, ServerSocketInv
  <2>4. CASE StopMiniServer \/ StopFails \/ StopSend \/ StopLost
    BY <2>4, OtherSocketInv DEF StopMiniServer, StopFails, StopSend, StopLost
  <2>5. CASE \E s \in open : SsdpReadFails(s)
    BY <2>5, OtherSocketInv DEF SsdpReadFails
  <2>6. CASE \E c \in Conns : \/ Accept(c) \/ Connect(c) \/ RequestStep(c)
                                \/ SendBlocks(c) \/ PeerReads(c)
    BY <2>6, OtherSocketInv DEF Accept, Connect, RequestStep, HandleRequest, DispatchRequest, Answer,
                           EndRequest, DropRequest, SendBlocks, PeerReads
  <2>7. CASE UNCHANGED serverVars
    BY <2>7, OtherSocketInv DEF serverVars
  <2> QED BY <2>1, <2>2, <2>3, <2>4, <2>5, <2>6, <2>7 DEF ServerNext
<1>2. SocketInv => NoSocketLeft
  BY DEF SocketInv, OpenAt, ServerAt, StartTyped, NoSocketLeft
<1> QED BY SocketInit, <1>1, <1>2, PTL DEF ServerSpec
=============================================================================
