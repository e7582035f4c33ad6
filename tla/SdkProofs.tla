------------------------------ MODULE SdkProofs ------------------------------
(***************************************************************************)
(* The handle table and what is kept beside it, for any number of threads, *)
(* handles, registrations and requests.                                    *)
(***************************************************************************)
EXTENDS Sdk, FiniteSetTheorems, WellFoundedInduction, TLAPS

InitStages == {"log", "mutexes", "pools", "timer", "ifinfo", "miniserver", "webserver"}
UnregStages == {"devices4", "devices6", "clients"}
EndStages == {"sendpool", "finish_locks", "down"}
LateStages == {"finish_servers", "finish_recv"} \cup EndStages
\* The stages in which no handle is registered.
Quiet == InitStages \cup {"finish_timer"} \cup LateStages
\* Those in which the mini server does not run and no search is being handled.
Deaf == (InitStages \ {"webserver"}) \cup EndStages

CallRecord == [op : {None, "register", "unregister", "unregclient", "advertise", "request",
                     "search", "reply"},
               pc : Nat, h : Nat, gen : Nat, af : Family \cup {None}, job : BOOLEAN]

\* Which thread is in which call.
CallsTyped ==
  /\ call \in [Thread -> CallRecord]
  /\ \A t \in Thread :
       /\ call[t].op = None => call[t] = NoCall
       /\ call[t].op = "register" => t \in Apps /\ call[t].h \in Handle /\ call[t].af \in Family
       /\ call[t].op \in {"unregister", "unregclient"} =>
            t \in Apps \cup {Main} /\ call[t].h \in Handle
       /\ call[t].op = "advertise" => /\ t \in Apps \cup Workers /\ call[t].h \in Handle
                                      /\ call[t].job <=> t \in Workers
       /\ call[t].op = "request" => t \in Workers /\ call[t].h \in Request
       /\ call[t].op = "reply" => t \in Workers /\ call[t].h \in Handle
       /\ call[t].op = "search" => /\ t \in Receivers /\ call[t].af \in Family
                                   /\ call[t].pc = 2 => call[t].h \in Handle

\* The lock is held over the download of a registration and over sending.
LocksHeld ==
  /\ writer # None => call[writer].op = "register"
  /\ \A t \in Thread : call[t].op = "register" => writer = t
  /\ \A t \in Thread :
       t \in reading <=> At(t, "unregister", 4) \/ At(t, "advertise", 2) \/ At(t, "reply", 2)

\* A handle that is being registered or unregistered stays what it is, and is so
\* by one thread only.
Holding == {"register", "unregister", "unregclient"}
HandlesHeld ==
  \A t \in Thread : LET h == call[t].h IN
    /\ call[t].op = "register" => /\ HandleTable[h].HType = "device"
                                  /\ HandleTable[h].DeviceAf = call[t].af
                                  /\ ~registered[call[t].af]
    /\ call[t].op = "unregister" => /\ HandleTable[h].HType = "device"
                                    /\ HandleTable[h].gen = call[t].gen
                                    /\ registered[HandleTable[h].DeviceAf]
    /\ call[t].op = "unregclient" => HandleTable[h].HType = "client"
    /\ \A x \in Thread : x # t /\ call[t].op \in Holding /\ call[x].op \in Holding => call[x].h # h

\* The flag of a family is set when its device is there and its registration is over;
\* there is one device of a family.
Flags ==
  /\ \A h \in Handle : HandleTable[h].HType = "device" =>
       /\ HandleTable[h].DeviceAf \in Family
       /\ \/ registered[HandleTable[h].DeviceAf]
          \/ \E t \in Thread : call[t].op = "register" /\ call[t].h = h
  /\ \A h \in Handle : HandleTable[h].HType = "invalid" => HandleTable[h] = Empty
  /\ \A af \in Family : registered[af] => DevicesOf(af) # {}
  /\ \A af \in Family : \A h, k \in DevicesOf(af) : h = k

\* What is still there at each stage.
Stages ==
  /\ stage \in Quiet \cup UnregStages \cup {"up"}
  /\ UpnpSdkInit <=> stage # "down"
  /\ stage # "up" => \A t \in Apps : call[t] = NoCall
  /\ stage \notin UnregStages => call[Main] = NoCall
  /\ stage \in InitStages \cup {"finish_locks", "down"} => \A w \in Workers : call[w] = NoCall
  /\ stage \in Deaf => \A r \in Receivers : call[r] = NoCall
  /\ stage \in InitStages => \A r \in Receivers : ~At(r, "search", 2)
  /\ stage \in {"devices6", "clients"} => DevicesOf("AF_INET") = {}
  /\ stage = "clients" => DevicesOf("AF_INET6") = {}
  /\ stage \in Quiet => \A h \in Handle : HandleTable[h] = Empty
  /\ stage \in InitStages \cup LateStages => \A h \in Handle : timers[h] = 0 /\ replies[h] = 0
  /\ stage \in InitStages \cup EndStages => /\ \A h \in Handle : adJobs[h] = 0 /\ replyJobs[h] = 0
                                            /\ \A r \in Request : req[r] # "queued"

\* A Param belongs to a request that waits, or that one worker is at.
Requests ==
  /\ \A r \in Request : r \in params <=> req[r] \in {"queued", "running"}
  /\ \A w \in Workers : call[w].op = "request" => req[call[w].h] = "running"
  /\ \A r \in Request : req[r] = "running" =>
       \E w \in Workers : call[w].op = "request" /\ call[w].h = r
  /\ \A v, w \in Workers :
       call[v].op = "request" /\ call[w].op = "request" /\ call[v].h = call[w].h => v = w

\* The subsystems that may be there at each stage, and what is left of an UpnpInit2
\* that could not make its pools.
MayBeUp ==
  LET all == {"locks", "send", "recv", "mini", "timer", "miniserver", "webserver"} IN
  [s \in Quiet \cup UnregStages \cup {"up"} |->
     CASE s \in {"log", "mutexes", "down"} -> {}
       [] s = "pools" -> {"locks"}
       [] s \in {"timer", "ifinfo", "miniserver"} -> all \ {"miniserver", "webserver"}
       [] s = "finish_servers" -> all \ {"timer"}
       [] s = "finish_recv" -> {"locks", "send", "recv"}
       [] s = "sendpool" -> {"locks", "send"}
       [] s = "finish_locks" -> {"locks"}
       [] OTHER -> all]
LeftOver == IF "pools" \in failed THEN {"locks", "send", "recv"} ELSE {}
UpAtMost == up \subseteq MayBeUp[stage] \cup LeftOver

\* Advertisements of handle h that threads of S are making.
Advertising(S, h) == {t \in S : call[t].op = "advertise" /\ call[t].h = h}
AdsCounted ==
  /\ ads <= MaxAds
  /\ regs <= MaxRegs
  /\ \A h \in Handle : HandleTable[h].chains + Cardinality(Advertising(Apps, h)) <= ads

Counters == regs \in Nat /\ ads \in Nat /\ inits \in Nat

IInv == /\ TypeOK /\ Counters /\ CallsTyped /\ LocksHeld /\ HandlesHeld /\ Flags /\ ClientsCounted
        /\ Stages /\ Requests /\ UpAtMost /\ AdsCounted

-----------------------------------------------------------------------------
(* Calls *)

LEMMA ThreadParts ==
  /\ Apps \subseteq Thread /\ Workers \subseteq Thread /\ Receivers \subseteq Thread /\ Main \in Thread
  /\ Main \notin Apps /\ Main \notin Workers /\ Main \notin Receivers
  /\ Apps \cap Workers = {} /\ Receivers \cap Apps = {} /\ Receivers \cap Workers = {}
BY SdkConstants DEF Thread

HandleRecord == [HType : {"invalid", "client", "device"}, DeviceAf : Family \cup {None},
                 gen : 0 .. MaxRegs, chains : 0 .. MaxAds]

LEMMA EmptyTyped ==
  /\ Empty \in HandleRecord /\ Empty.HType = "invalid" /\ Empty.gen = 0 /\ Empty.chains = 0
BY SdkConstants DEF Empty, HandleRecord

LEMMA NoCallTyped == NoCall \in CallRecord
BY DEF NoCall, CallRecord, None

\* The call of one thread becomes c.
LEMMA CallBecomes ==
  ASSUME call \in [Thread -> CallRecord], NEW t \in Thread, NEW c \in CallRecord,
         call' = [call EXCEPT ![t] = c]
  PROVE  /\ call' \in [Thread -> CallRecord]
         /\ call'[t] = c
         /\ \A x \in Thread : x # t => call'[x] = call[x]
OBVIOUS

LEMMA CallReturns ==
  ASSUME CallsTyped, NEW t \in Thread, Return(t)
  PROVE  /\ CallsTyped'
         /\ call'[t] = NoCall
         /\ \A x \in Thread : x # t => call'[x] = call[x]
<1>1. /\ call' \in [Thread -> CallRecord] /\ call'[t] = NoCall
      /\ \A x \in Thread : x # t => call'[x] = call[x]
  BY NoCallTyped, CallBecomes DEF CallsTyped, Return
<1>2. NoCall.op = None /\ None \notin {"register", "unregister", "unregclient", "advertise", "request", "search", "reply"}
  BY DEF NoCall, None
<1> QED BY <1>1, <1>2 DEF CallsTyped

LEMMA CallGoesOn ==
  ASSUME CallsTyped, NEW t \in Thread, call[t].op \notin {None, "search"}, NEW n \in Nat, Goto(t, n)
  PROVE  /\ CallsTyped'
         /\ call'[t].pc = n
         /\ \A x \in Thread : /\ x # t => call'[x] = call[x]
                              /\ call'[x].op = call[x].op /\ call'[x].h = call[x].h
                              /\ call'[x].gen = call[x].gen /\ call'[x].af = call[x].af
                              /\ call'[x].job = call[x].job
<1>1. /\ call' \in [Thread -> CallRecord] /\ call'[t].pc = n
      /\ \A x \in Thread : x # t => call'[x] = call[x]
      /\ call'[t].op = call[t].op /\ call'[t].h = call[t].h
      /\ call'[t].gen = call[t].gen /\ call'[t].af = call[t].af
      /\ call'[t].job = call[t].job
  BY DEF CallsTyped, Goto, CallRecord
<1> QED BY <1>1 DEF CallsTyped

LEMMA AdvertisingFinite ==
  ASSUME NEW h
  PROVE  /\ IsFiniteSet(Advertising(Apps, h)) /\ IsFiniteSet(Advertising(Workers, h))
         /\ Cardinality(Advertising(Apps, h)) \in Nat
         /\ Cardinality(Advertising(Workers, h)) \in Nat
<1>1. IsFiniteSet(Advertising(Apps, h)) /\ IsFiniteSet(Advertising(Workers, h))
  BY SdkConstants, FS_Subset DEF Advertising
<1> QED BY <1>1, FS_CardinalityType

-----------------------------------------------------------------------------
(* Steps that leave the handle table alone *)

\* What IInv says of threads that keep their calls, when the table and the jobs
\* stay as they are.
LEMMA GoesOnIInv ==
  ASSUME IInv, NEW t \in Thread, NEW n \in Nat, call[t].op \notin {None, "search"}, Goto(t, n),
         UNCHANGED <<life, table, writer, jobs, failed, regs, ads>>,
         reading' \subseteq Thread,
         \A x \in Thread : x # t => (x \in reading' <=> x \in reading),
         t \in reading' <=> At(t, "unregister", 4)' \/ At(t, "advertise", 2)' \/ At(t, "reply", 2)'
  PROVE  IInv'
<1> USE DEF life, table, jobs, answers
<1>1. /\ CallsTyped'
      /\ call'[t].pc = n
      /\ \A x \in Thread : /\ x # t => call'[x] = call[x]
                           /\ call'[x].op = call[x].op /\ call'[x].h = call[x].h
                           /\ call'[x].gen = call[x].gen /\ call'[x].af = call[x].af
                           /\ call'[x].job = call[x].job
  BY CallGoesOn DEF IInv
<1>2. TypeOK' /\ Counters'
  BY DEF IInv, TypeOK, Counters
<1>3. LocksHeld'
  BY <1>1 DEF IInv, LocksHeld, At, TypeOK
<1>4. HandlesHeld'
  BY <1>1 DEF IInv, HandlesHeld
<1>5. Flags' /\ ClientsCounted'
  BY <1>1 DEF IInv, Flags, ClientsCounted, DevicesOf, ClientHandles, GetHandleInfo
<1>6. Stages'
  <2>1. \A x \in Thread : call[x] = NoCall => call'[x] = NoCall
    BY <1>1 DEF NoCall
  <2>2. /\ Apps \subseteq Thread /\ Workers \subseteq Thread /\ Receivers \subseteq Thread
        /\ Main \in Thread /\ \A x \in Thread : At(x, "search", 2)' => At(x, "search", 2)
    BY <1>1, ThreadParts DEF At, NoCall
  <2>3. \A af : DevicesOf(af)' = DevicesOf(af)
    BY DEF DevicesOf, GetHandleInfo
  <2> QED BY <2>1, <2>2, <2>3 DEF IInv, Stages
<1>7. Requests' /\ UpAtMost'
  BY <1>1 DEF IInv, Requests, UpAtMost, LeftOver, Thread
<1>8. AdsCounted'
  <2>1. \A h \in Handle : Advertising(Apps, h)' = Advertising(Apps, h)
    BY <1>1 DEF Advertising, Thread
  <2> QED BY <2>1 DEF IInv, AdsCounted
<1> QED BY <1>1, <1>2, <1>3, <1>4, <1>5, <1>6, <1>7, <1>8 DEF IInv

\* A call that registers nothing returns.
LEMMA ReturnsIInv ==
  ASSUME IInv, NEW t \in Thread, call[t].op \notin {"register", "request"}, Return(t),
         UNCHANGED <<life, table, writer, jobs, regs, ads>>,
         failed \subseteq failed', failed' \subseteq {"pools", "schedule", "full"},
         reading' = reading \ {t}
  PROVE  IInv'
<1> USE DEF life, table, jobs, answers
<1>1. /\ CallsTyped' /\ call'[t] = NoCall
      /\ \A x \in Thread : x # t => call'[x] = call[x]
  BY CallReturns DEF IInv
<1>2. call'[t].op = None /\ call'[t] = NoCall
  BY <1>1 DEF NoCall
<1> USE DEF None
<1>3. TypeOK' /\ Counters'
  BY DEF IInv, TypeOK, Counters
<1>4. LocksHeld'
  BY <1>1, <1>2 DEF IInv, LocksHeld, At, TypeOK
<1>5. HandlesHeld'
  BY <1>1, <1>2 DEF IInv, HandlesHeld, Holding
<1>6. Flags' /\ ClientsCounted'
  <2>1. \A x \in Thread : call[x].op = "register" => call'[x] = call[x]
    BY <1>1
  <2> QED BY <2>1 DEF IInv, Flags, ClientsCounted, DevicesOf, ClientHandles, GetHandleInfo
<1>7. Stages'
  <2>1. \A x \in Thread : call[x] = NoCall => call'[x] = NoCall
    BY <1>1
  <2>2. /\ Apps \subseteq Thread /\ Workers \subseteq Thread /\ Receivers \subseteq Thread
        /\ Main \in Thread /\ \A x \in Thread : At(x, "search", 2)' => At(x, "search", 2)
    BY <1>1, ThreadParts DEF At, NoCall
  <2>3. \A af : DevicesOf(af)' = DevicesOf(af)
    BY DEF DevicesOf, GetHandleInfo
  <2> QED BY <2>1, <2>2, <2>3 DEF IInv, Stages
<1>8. Requests' /\ UpAtMost'
  <2>1. \A x \in Thread : /\ call[x].op = "request" => call'[x] = call[x]
                          /\ call'[x].op = "request" => call'[x] = call[x]
    BY <1>1, <1>2
  <2> QED BY <2>1 DEF IInv, Requests, UpAtMost, LeftOver, Thread
<1>9. AdsCounted'
  <2> SUFFICES ASSUME NEW h \in Handle
               PROVE  HandleTable[h].chains + Cardinality(Advertising(Apps, h)') <= ads
    BY DEF IInv, AdsCounted
  <2>1. Advertising(Apps, h)' \subseteq Advertising(Apps, h)
    BY <1>1, <1>2 DEF Advertising, Thread
  <2>2. /\ Cardinality(Advertising(Apps, h)') \in Nat
        /\ Cardinality(Advertising(Apps, h)') <= Cardinality(Advertising(Apps, h))
    BY <2>1, AdvertisingFinite, FS_Subset, FS_CardinalityType
  <2>3. HandleTable[h].chains + Cardinality(Advertising(Apps, h)) <= ads
        /\ HandleTable[h].chains \in Nat /\ ads \in Nat
    BY DEF IInv, AdsCounted, TypeOK, Counters
  <2> QED BY <2>2, <2>3, AdvertisingFinite
<1> QED BY <1>1, <1>3, <1>4, <1>5, <1>6, <1>7, <1>8, <1>9 DEF IInv

\* A thread without a call begins call c, which is not a registration: it may do so
\* at this stage, and the handle is what the call is for.
MayBegin(t, c) ==
  /\ call[t] = NoCall /\ c \in CallRecord
  /\ c.op \in {"unregister", "unregclient", "advertise", "reply"} /\ c.pc = 1 /\ c.h \in Handle
  /\ t \in Apps => stage = "up"
  /\ t = Main => stage \in UnregStages
  /\ t \in Workers => stage \notin InitStages \cup {"finish_locks", "down"}
MayHold(t, c) ==
  /\ t \notin Receivers
  /\ c.op \in {"unregister", "unregclient"} => t \in Apps \cup {Main} /\ ~Unregistering(c.h)
  /\ c.op = "unregister" => /\ HandleTable[c.h].HType = "device"
                            /\ HandleTable[c.h].gen = c.gen
                            /\ registered[HandleTable[c.h].DeviceAf]
  /\ c.op = "unregclient" => HandleTable[c.h].HType = "client"
  /\ c.op = "advertise" => t \in Apps \cup Workers /\ (c.job <=> t \in Workers)
  /\ c.op = "reply" => t \in Workers
MayCount(t, c) ==
  /\ adJobs' \in [Handle -> Nat] /\ \A h \in Handle : adJobs[h] = 0 => adJobs'[h] = 0
  /\ replyJobs' \in [Handle -> Nat] /\ \A h \in Handle : replyJobs[h] = 0 => replyJobs'[h] = 0
  /\ ads' \in Nat /\ ads' <= MaxAds /\ ads <= ads'
  /\ c.op = "advertise" /\ t \in Apps => ads' = ads + 1

LEMMA BeginsIInv ==
  ASSUME IInv, NEW t \in Thread, NEW c, MayBegin(t, c), MayHold(t, c), MayCount(t, c),
         call' = [call EXCEPT ![t] = c],
         UNCHANGED <<life, table, writer, reading, timers, replies, req, params, failed, regs>>
  PROVE  IInv'
<1> USE DEF life, table, jobs, answers
<1>1. /\ call' \in [Thread -> CallRecord] /\ call'[t] = c
      /\ \A x \in Thread : x # t => call'[x] = call[x]
  BY CallBecomes DEF IInv, CallsTyped, MayBegin
<1>2. call[t].op = None /\ None \notin {"register", "unregister", "unregclient", "advertise", "request", "search", "reply"}
  <2>1. call[t] = NoCall
    BY DEF MayBegin
  <2> QED BY <2>1 DEF NoCall, None
<1>3. CallsTyped'
  BY <1>1, <1>2 DEF IInv, CallsTyped, MayBegin, MayHold
<1>4. TypeOK' /\ Counters'
  BY DEF IInv, TypeOK, Counters, MayCount
<1>5. LocksHeld'
  <2>1. c.op # "register"
    BY DEF MayBegin
  <2>2. c.pc = 1
    BY DEF MayBegin
  <2> QED BY <1>1, <1>2, <2>1, <2>2 DEF IInv, LocksHeld, At, TypeOK
<1>6. HandlesHeld'
  <2>1. \A x \in Thread : call[x].op \in Holding => call[x].h # c.h \/ c.op \in {"advertise", "reply"}
    BY DEF IInv, HandlesHeld, Holding, Unregistering, CallsTyped, MayBegin, MayHold
  <2>2. ASSUME NEW x \in Thread, NEW y \in Thread, x # y, call'[x].op \in Holding,
               call'[y].op \in Holding
        PROVE  call'[x].h # call'[y].h
    BY <1>1, <2>1, <2>2 DEF IInv, HandlesHeld, Holding
  <2> QED BY <1>1, <2>2 DEF IInv, HandlesHeld, MayBegin, MayHold
<1>7. Flags' /\ ClientsCounted'
  <2>1. \A x \in Thread : call[x].op = "register" => call'[x] = call[x]
    BY <1>1, <1>2
  <2> QED BY <2>1 DEF IInv, Flags, ClientsCounted, DevicesOf, ClientHandles, GetHandleInfo
<1>8. Stages'
  <2>1. \A x \in Thread : x # t /\ call[x] = NoCall => call'[x] = NoCall
    BY <1>1
  <2>2. /\ Apps \subseteq Thread /\ Workers \subseteq Thread /\ Main \in Thread
        /\ Main \notin Apps /\ Main \notin Workers /\ Apps \cap Workers = {}
    BY SdkConstants DEF Thread
  <2>3. \A af : DevicesOf(af)' = DevicesOf(af)
    BY DEF DevicesOf, GetHandleInfo
  <2>4. \A h \in Handle : /\ adJobs[h] = 0 => adJobs'[h] = 0
                          /\ replyJobs[h] = 0 => replyJobs'[h] = 0
    BY DEF MayCount
  <2>5. "up" \notin Quiet /\ "up" \notin UnregStages /\ UnregStages \cap Quiet = {}
    BY DEF Quiet, InitStages, UnregStages, LateStages, EndStages
  <2>6. stage # "up" => \A x \in Apps : call'[x] = NoCall
    BY <2>1, <2>2 DEF IInv, Stages, MayBegin
  <2>7. stage \notin UnregStages => call'[Main] = NoCall
    BY <2>1, <2>2 DEF IInv, Stages, MayBegin
  <2>8. stage \in InitStages \cup {"finish_locks", "down"} => \A w \in Workers : call'[w] = NoCall
    BY <2>1, <2>2 DEF IInv, Stages, MayBegin
  <2>9. \A x \in Receivers : call'[x] = call[x]
    BY <1>1, ThreadParts DEF MayHold
  <2>10. \A x \in Receivers : At(x, "search", 2)' => At(x, "search", 2)
    BY <2>9 DEF At
  <2> QED BY <2>3, <2>4, <2>6, <2>7, <2>8, <2>9, <2>10 DEF IInv, Stages
<1>9. Requests' /\ UpAtMost'
  <2>1. \A x \in Thread : /\ call[x].op = "request" => call'[x] = call[x]
                          /\ call'[x].op = "request" => call'[x] = call[x]
    BY <1>1, <1>2 DEF MayBegin
  <2> QED BY <2>1 DEF IInv, Requests, UpAtMost, LeftOver, Thread
<1>10. AdsCounted'
  <2> SUFFICES ASSUME NEW h \in Handle
               PROVE  HandleTable[h].chains + Cardinality(Advertising(Apps, h)') <= ads'
    BY DEF IInv, AdsCounted, MayCount
  <2>1. HandleTable[h].chains + Cardinality(Advertising(Apps, h)) <= ads
        /\ HandleTable[h].chains \in Nat /\ ads \in Nat
    BY DEF IInv, AdsCounted, TypeOK, Counters
  <2>2. CASE c.op = "advertise" /\ t \in Apps
    <3>1. Advertising(Apps, h)' \subseteq Advertising(Apps, h) \cup {t}
      BY <1>1 DEF Advertising, Thread
    <3>2. /\ IsFiniteSet(Advertising(Apps, h) \cup {t})
          /\ Cardinality(Advertising(Apps, h) \cup {t}) <= Cardinality(Advertising(Apps, h)) + 1
      <4>1. IsFiniteSet(Advertising(Apps, h)) /\ Cardinality(Advertising(Apps, h)) \in Nat
        BY AdvertisingFinite
      <4>2. /\ IsFiniteSet(Advertising(Apps, h) \cup {t})
            /\ \/ Cardinality(Advertising(Apps, h) \cup {t}) = Cardinality(Advertising(Apps, h))
               \/ Cardinality(Advertising(Apps, h) \cup {t}) = Cardinality(Advertising(Apps, h)) + 1
        BY <4>1, FS_AddElement, Zenon
      <4> QED BY <4>1, <4>2
    <3>3. /\ Cardinality(Advertising(Apps, h)') \in Nat
          /\ Cardinality(Advertising(Apps, h)') <= Cardinality(Advertising(Apps, h) \cup {t})
      BY <3>1, <3>2, FS_Subset, FS_CardinalityType
    <3>4. Cardinality(Advertising(Apps, h) \cup {t}) \in Nat
      BY <3>2, FS_CardinalityType
    <3> QED BY <2>1, <2>2, <3>2, <3>3, <3>4, AdvertisingFinite DEF MayCount
  <2>3. CASE ~(c.op = "advertise" /\ t \in Apps)
    <3>1. Advertising(Apps, h)' \subseteq Advertising(Apps, h)
      BY <1>1, <2>3 DEF Advertising, Thread
    <3>2. /\ Cardinality(Advertising(Apps, h)') \in Nat
          /\ Cardinality(Advertising(Apps, h)') <= Cardinality(Advertising(Apps, h))
      BY <3>1, AdvertisingFinite, FS_Subset, FS_CardinalityType
    <3> QED BY <2>1, <3>2, AdvertisingFinite DEF MayCount
  <2> QED BY <2>2, <2>3
<1> QED BY <1>3, <1>4, <1>5, <1>6, <1>7, <1>8, <1>9, <1>10 DEF IInv

-----------------------------------------------------------------------------
(* The actions that go on with a call *)

\* Thread t holds the read lock at pc n of its call, and only there.
Reads(t, n) == \/ call[t].op = "unregister" /\ n = 4
               \/ call[t].op \in {"advertise", "reply"} /\ n = 2

LEMMA GotoIInv ==
  ASSUME IInv, NEW t \in Thread, NEW n \in Nat, call[t].op \notin {None, "search"}, Goto(t, n),
         UNCHANGED <<life, table, writer, jobs, failed, regs, ads>>,
         reading' = IF Reads(t, n) THEN reading \cup {t} ELSE reading \ {t}
  PROVE  IInv'
<1>1. call'[t].pc = n /\ call'[t].op = call[t].op
  BY CallGoesOn DEF IInv
<1>2. t \in reading' <=> At(t, "unregister", 4)' \/ At(t, "advertise", 2)' \/ At(t, "reply", 2)'
  BY <1>1 DEF Reads, At
<1>3. reading' \subseteq Thread /\ \A x \in Thread : x # t => (x \in reading' <=> x \in reading)
  BY DEF IInv, TypeOK
<1> QED BY <1>2, <1>3, GoesOnIInv

\* A thread that is not sending does not hold the read lock.
LEMMA NotReading ==
  ASSUME IInv, NEW t \in Thread, ~At(t, "unregister", 4), ~At(t, "advertise", 2), ~At(t, "reply", 2)
  PROVE  reading \ {t} = reading
BY DEF IInv, LocksHeld

LEMMA UnRegisterSectionIInv ==
  ASSUME IInv, NEW t \in Thread, UnRegisterSection(t)
  PROVE  IInv'
<1>1. /\ call[t].op = "unregister" /\ call[t].pc \in {1, 2}
      /\ UNCHANGED <<life, table, writer, reading, jobs, failed, regs, ads>>
      /\ Return(t) \/ Goto(t, call[t].pc + 1)
  BY DEF UnRegisterSection, At
<1>2. reading' = reading \ {t}
  BY <1>1, NotReading DEF At
<1>3. CASE Return(t)
  <2>1. failed' \subseteq {"pools", "schedule", "full"} /\ failed \subseteq failed'
    BY <1>1 DEF IInv, TypeOK
  <2> QED BY <1>1, <1>2, <1>3, <2>1, ReturnsIInv
<1>4. CASE Goto(t, call[t].pc + 1)
  <2>1. call[t].pc + 1 \in Nat /\ ~Reads(t, call[t].pc + 1)
    BY <1>1 DEF Reads
  <2>2. call[t].op \notin {None, "search"}
    BY <1>1 DEF None
  <2> QED BY <1>1, <1>2, <1>4, <2>1, <2>2, GotoIInv
<1> QED BY <1>1, <1>3, <1>4

LEMMA UnRegisterByebyeIInv ==
  ASSUME IInv, NEW t \in Thread, UnRegisterByebye(t)
  PROVE  IInv'
<1>1. /\ call[t].op = "unregister" /\ call[t].pc = 3
      /\ UNCHANGED <<life, table, writer, jobs, failed, regs, ads>>
      /\ \/ reading' = reading \cup {t} /\ Goto(t, 4)
         \/ reading' = reading /\ Goto(t, 5)
  BY DEF UnRegisterByebye, At
<1>2. reading = reading \ {t} /\ call[t].op \notin {None, "search"}
  BY <1>1, NotReading DEF At, None
<1>3. CASE reading' = reading \cup {t} /\ Goto(t, 4)
  <2>1. Reads(t, 4)
    BY <1>1 DEF Reads
  <2> QED BY <1>1, <1>2, <1>3, <2>1, GotoIInv
<1>4. CASE reading' = reading /\ Goto(t, 5)
  <2>1. ~Reads(t, 5)
    BY <1>1 DEF Reads
  <2> QED BY <1>1, <1>2, <1>4, <2>1, GotoIInv
<1> QED BY <1>1, <1>3, <1>4

LEMMA UnRegisterByebyeEndIInv ==
  ASSUME IInv, NEW t \in Thread, UnRegisterByebyeEnd(t)
  PROVE  IInv'
<1>1. /\ call[t].op = "unregister" /\ call[t].op \notin {None, "search"}
      /\ UNCHANGED <<life, table, writer, jobs, failed, regs, ads>>
      /\ reading' = reading \ {t} /\ Goto(t, 5)
  BY DEF UnRegisterByebyeEnd, AdvertiseEnd, ReadUnlock, At, None
<1>2. ~Reads(t, 5)
  BY <1>1 DEF Reads
<1> QED BY <1>1, <1>2, GotoIInv

LEMMA UnRegisterClientCheckIInv ==
  ASSUME IInv, NEW t \in Thread, UnRegisterClientCheck(t)
  PROVE  IInv'
<1>1. /\ call[t].op = "unregclient" /\ call[t].op \notin {None, "search"}
      /\ UNCHANGED <<life, table, writer, reading, jobs, failed, regs, ads>>
      /\ Return(t) \/ Goto(t, 2)
  BY DEF UnRegisterClientCheck, At, None
<1>2. reading' = reading \ {t} /\ ~Reads(t, 2)
  BY <1>1, NotReading DEF At, Reads
<1>3. failed' \subseteq {"pools", "schedule", "full"} /\ failed \subseteq failed'
  BY <1>1 DEF IInv, TypeOK
<1> QED BY <1>1, <1>2, <1>3, ReturnsIInv, GotoIInv

\* AdvertiseBegin at pc 1 of an advertisement or a reply
LEMMA AdvertiseBeginIInv ==
  ASSUME IInv, NEW t \in Thread, call[t].op \in {"advertise", "reply"}, call[t].pc = 1,
         AdvertiseBegin(t, 1)
  PROVE  IInv'
<1>1. /\ UNCHANGED <<life, table, writer, jobs, failed, regs, ads>>
      /\ \/ reading' = reading \cup {t} /\ Goto(t, 2)
         \/ reading' = reading /\ Return(t)
  BY DEF AdvertiseBegin
<1>2. reading = reading \ {t} /\ call[t].op \notin {None, "search", "register", "request"}
  BY <1>1, NotReading DEF At, None
<1>3. Reads(t, 2)
  BY <1>1 DEF Reads
<1>4. failed' \subseteq {"pools", "schedule", "full"} /\ failed \subseteq failed'
  BY <1>1 DEF IInv, TypeOK
<1> QED BY <1>1, <1>2, <1>3, <1>4, GotoIInv, ReturnsIInv

LEMMA SendAdvertisementAliveIInv ==
  ASSUME IInv, NEW t \in Thread, SendAdvertisementAlive(t)
  PROVE  IInv'
BY AdvertiseBeginIInv DEF SendAdvertisementAlive, At

LEMMA SendAdvertisementSentIInv ==
  ASSUME IInv, NEW t \in Thread, SendAdvertisementSent(t)
  PROVE  IInv'
<1>1. /\ call[t].op = "advertise" /\ call[t].op \notin {None, "search"}
      /\ UNCHANGED <<life, table, writer, jobs, failed, regs, ads>>
      /\ reading' = reading \ {t} /\ Goto(t, 3)
  BY DEF SendAdvertisementSent, AdvertiseEnd, ReadUnlock, At, None
<1>2. ~Reads(t, 3)
  BY <1>1 DEF Reads
<1> QED BY <1>1, <1>2, GotoIInv

LEMMA ReplyIInv ==
  ASSUME IInv, NEW t \in Thread, Reply(t)
  PROVE  IInv'
<1>1. CASE ReplySends(t)
  BY <1>1, AdvertiseBeginIInv DEF ReplySends, At
<1>2. CASE ReplySent(t)
  <2>1. /\ call[t].op \notin {"register", "request"} /\ Return(t) /\ reading' = reading \ {t}
        /\ UNCHANGED <<life, table, writer, jobs, failed, regs, ads>>
    BY <1>2 DEF ReplySent, ReadUnlock, At
  <2>2. failed' \subseteq {"pools", "schedule", "full"} /\ failed \subseteq failed'
    BY <2>1 DEF IInv, TypeOK
  <2> QED BY <2>1, <2>2, ReturnsIInv
<1> QED BY <1>1, <1>2 DEF Reply

-----------------------------------------------------------------------------
(* The actions that begin a call *)

LEMMA HandleNat == Handle \subseteq Nat
BY SdkConstants DEF Handle

LEMMA CallForms ==
  ASSUME NEW h, NEW g, NEW c
  PROVE  /\ c = [NoCall EXCEPT !.op = "unregister", !.pc = 1, !.h = h, !.gen = g] =>
              c = [op |-> "unregister", pc |-> 1, h |-> h, gen |-> g, af |-> None, job |-> FALSE]
         /\ c = [NoCall EXCEPT !.op = "unregclient", !.pc = 1, !.h = h] =>
              c = [op |-> "unregclient", pc |-> 1, h |-> h, gen |-> 0, af |-> None, job |-> FALSE]
         /\ c = [NoCall EXCEPT !.op = "advertise", !.pc = 1, !.h = h] =>
              c = [op |-> "advertise", pc |-> 1, h |-> h, gen |-> 0, af |-> None, job |-> FALSE]
         /\ c = [NoCall EXCEPT !.op = "advertise", !.pc = 1, !.h = h, !.job = TRUE] =>
              c = [op |-> "advertise", pc |-> 1, h |-> h, gen |-> 0, af |-> None, job |-> TRUE]
         /\ c = [NoCall EXCEPT !.op = "reply", !.pc = 1, !.h = h] =>
              c = [op |-> "reply", pc |-> 1, h |-> h, gen |-> 0, af |-> None, job |-> FALSE]
         /\ c = [NoCall EXCEPT !.op = "search", !.pc = 1, !.af = g] =>
              c = [op |-> "search", pc |-> 1, h |-> 0, gen |-> 0, af |-> g, job |-> FALSE]
         /\ c = [NoCall EXCEPT !.op = "request", !.h = h] =>
              c = [op |-> "request", pc |-> 0, h |-> h, gen |-> 0, af |-> None, job |-> FALSE]
BY DEF NoCall

LEMMA RegisterForm ==
  ASSUME NEW h, NEW af, NEW c, c = [NoCall EXCEPT !.op = "register", !.h = h, !.af = af]
  PROVE  c = [op |-> "register", pc |-> 0, h |-> h, gen |-> 0, af |-> af, job |-> FALSE]
BY DEF NoCall

\* Outside "up" only Main unregisters, and it begins to when it is in no call.
LEMMA NotUnregistering ==
  ASSUME IInv, stage # "up", call[Main] = NoCall
  PROVE  /\ \A h : ~Unregistering(h)
         /\ \A x \in Thread : call[x].op # "register"
<1>1. NoCall.op \notin {"register", "unregister", "unregclient"}
  BY DEF NoCall, None
<1>2. \A x \in Thread : call[x].op \in {"register", "unregister", "unregclient"} => x \in Apps \cup {Main}
  BY DEF IInv, CallsTyped
<1> QED BY <1>1, <1>2 DEF IInv, Stages, Unregistering

LEMMA UnRegisterCallIInv ==
  ASSUME IInv, NEW t \in Apps \cup {Main}, NEW h \in Handle, UnRegisterCall(t, h),
         call[t] = NoCall, t \in Apps => stage = "up", t = Main => stage \in UnregStages,
         GetHandleInfo(h) = "device", ~Unregistering(h), registered[HandleTable[h].DeviceAf],
         UNCHANGED <<life, table, writer, reading, jobs, failed, regs, ads>>
  PROVE  IInv'
<1> DEFINE c == [NoCall EXCEPT !.op = "unregister", !.pc = 1, !.h = h, !.gen = HandleTable[h].gen]
<1>1. call' = [call EXCEPT ![t] = c]
  BY DEF UnRegisterCall
<1>2. HandleTable[h].gen \in Nat
  BY DEF IInv, TypeOK
<1>3. c \in CallRecord /\ c.op = "unregister" /\ c.pc = 1 /\ c.h = h /\ c.gen = HandleTable[h].gen
  <2>1. c = [NoCall EXCEPT !.op = "unregister", !.pc = 1, !.h = h, !.gen = HandleTable[h].gen]
    OBVIOUS
  <2> HIDE DEF c
  <2>2. c = [op |-> "unregister", pc |-> 1, h |-> h, gen |-> HandleTable[h].gen, af |-> None, job |-> FALSE]
    BY <2>1, CallForms
  <2> QED BY <1>2, <2>2, HandleNat DEF CallRecord
<1>4. t \in Thread /\ t \notin Workers /\ t \notin Receivers
  BY ThreadParts
<1> HIDE DEF c
<1>5. MayBegin(t, c)
  BY <1>3, <1>4 DEF MayBegin
<1>6. MayHold(t, c)
  BY <1>3, <1>4 DEF MayHold, GetHandleInfo
<1>7. MayCount(t, c)
  <2>1. adJobs' = adJobs /\ replyJobs' = replyJobs /\ ads' = ads /\ c.op # "advertise"
    BY <1>3 DEF jobs, answers
  <2> QED BY <2>1 DEF MayCount, IInv, TypeOK, AdsCounted, Counters
<1> QED BY <1>1, <1>4, <1>5, <1>6, <1>7, BeginsIInv DEF jobs, answers

LEMMA UnRegisterClientCallIInv ==
  ASSUME IInv, NEW t \in Apps \cup {Main}, NEW h \in Handle, UnRegisterClientCall(t, h),
         call[t] = NoCall, t \in Apps => stage = "up", t = Main => stage \in UnregStages,
         GetHandleInfo(h) = "client", ~Unregistering(h),
         UNCHANGED <<life, table, writer, reading, jobs, failed, regs, ads>>
  PROVE  IInv'
<1> DEFINE c == [NoCall EXCEPT !.op = "unregclient", !.pc = 1, !.h = h]
<1>1. call' = [call EXCEPT ![t] = c]
  BY DEF UnRegisterClientCall
<1>2. c \in CallRecord /\ c.op = "unregclient" /\ c.pc = 1 /\ c.h = h
  <2>1. c = [NoCall EXCEPT !.op = "unregclient", !.pc = 1, !.h = h]
    OBVIOUS
  <2> HIDE DEF c
  <2>2. c = [op |-> "unregclient", pc |-> 1, h |-> h, gen |-> 0, af |-> None, job |-> FALSE]
    BY <2>1, CallForms
  <2> QED BY <2>2, HandleNat DEF CallRecord
<1>3. t \in Thread /\ t \notin Workers /\ t \notin Receivers
  BY ThreadParts
<1> HIDE DEF c
<1>4. MayBegin(t, c)
  BY <1>2, <1>3 DEF MayBegin
<1>5. MayHold(t, c)
  BY <1>2, <1>3 DEF MayHold, GetHandleInfo
<1>6. MayCount(t, c)
  <2>1. adJobs' = adJobs /\ replyJobs' = replyJobs /\ ads' = ads /\ c.op # "advertise"
    BY <1>2 DEF jobs, answers
  <2> QED BY <2>1 DEF MayCount, IInv, TypeOK, AdsCounted, Counters
<1> QED BY <1>1, <1>3, <1>4, <1>5, <1>6, BeginsIInv DEF jobs, answers

LEMMA UpnpUnRegisterRootDeviceIInv ==
  ASSUME IInv, NEW t \in Apps, NEW h \in Handle, UpnpUnRegisterRootDevice(t, h)
  PROVE  IInv'
<1>1. registered[HandleTable[h].DeviceAf]
  BY DEF UpnpUnRegisterRootDevice, IInv, Flags, GetHandleInfo
<1>2. t # Main
  BY ThreadParts
<1> QED BY <1>1, <1>2, UnRegisterCallIInv DEF UpnpUnRegisterRootDevice, Open

LEMMA UpnpUnRegisterClientIInv ==
  ASSUME IInv, NEW t \in Apps, NEW h \in Handle, UpnpUnRegisterClient(t, h)
  PROVE  IInv'
<1>2. t # Main
  BY ThreadParts
<1> QED BY <1>2, UnRegisterClientCallIInv DEF UpnpUnRegisterClient, Open

LEMMA UpnpSendAdvertisementIInv ==
  ASSUME IInv, NEW t \in Apps, NEW h \in Handle, UpnpSendAdvertisement(t, h)
  PROVE  IInv'
<1> DEFINE c == [NoCall EXCEPT !.op = "advertise", !.pc = 1, !.h = h]
<1>1. /\ call' = [call EXCEPT ![t] = c] /\ call[t] = NoCall /\ stage = "up"
      /\ ads < MaxAds /\ ads' = ads + 1
      /\ UNCHANGED <<life, table, writer, reading, jobs, failed, regs>>
  BY DEF UpnpSendAdvertisement, Open
<1>2. c \in CallRecord /\ c.op = "advertise" /\ c.pc = 1 /\ c.h = h /\ c.job = FALSE
  <2>1. c = [NoCall EXCEPT !.op = "advertise", !.pc = 1, !.h = h]
    OBVIOUS
  <2> HIDE DEF c
  <2>2. c = [op |-> "advertise", pc |-> 1, h |-> h, gen |-> 0, af |-> None, job |-> FALSE]
    BY <2>1, CallForms
  <2> QED BY <2>2, HandleNat DEF CallRecord
<1>3. t \in Thread /\ t \notin Workers /\ t \notin Receivers /\ t # Main
  BY ThreadParts
<1> HIDE DEF c
<1>4. MayBegin(t, c)
  BY <1>1, <1>2, <1>3 DEF MayBegin
<1>5. MayHold(t, c)
  BY <1>2, <1>3 DEF MayHold
<1>6. MayCount(t, c)
  <2>1. /\ adJobs' = adJobs /\ replyJobs' = replyJobs
        /\ ads \in Nat /\ ads' \in Nat /\ ads' <= MaxAds /\ ads <= ads'
    BY <1>1, SdkConstants DEF jobs, answers, IInv, Counters
  <2> QED BY <1>1, <2>1 DEF MayCount, IInv, TypeOK
<1> QED BY <1>1, <1>3, <1>4, <1>5, <1>6, BeginsIInv DEF jobs, answers

-----------------------------------------------------------------------------
(* The jobs of the pool *)

\* A step that changes nothing but the jobs, and the threads that are at requests and searches.
LEMMA JobsIInv ==
  ASSUME IInv, UNCHANGED <<life, table, writer, reading, regs, ads>>,
         CallsTyped', TypeOK', Stages', Requests', failed \subseteq failed',
         \A x \in Thread : \/ call'[x] = call[x]
                           \/ /\ call[x].op \in {None, "request", "search"}
                              /\ call'[x].op \in {None, "request", "search"}
  PROVE  IInv'
<1> USE DEF life, table, None
<1>1. Counters' /\ UpAtMost'
  BY DEF IInv, Counters, UpAtMost, LeftOver
<1>2. LocksHeld'
  BY DEF IInv, LocksHeld, At, TypeOK
<1>3. HandlesHeld'
  BY DEF IInv, HandlesHeld, Holding
<1>4. Flags' /\ ClientsCounted'
  <2>1. \A x \in Thread : call[x].op = "register" => call'[x] = call[x]
    OBVIOUS
  <2> QED BY <2>1 DEF IInv, Flags, ClientsCounted, DevicesOf, ClientHandles, GetHandleInfo
<1>5. AdsCounted'
  <2>1. \A h \in Handle : Advertising(Apps, h)' = Advertising(Apps, h)
    BY ThreadParts DEF Advertising
  <2> QED BY <2>1 DEF IInv, AdsCounted
<1> QED BY <1>1, <1>2, <1>3, <1>4, <1>5 DEF IInv

LEMMA AutoAdvertiseIInv ==
  ASSUME IInv, NEW w \in Workers, NEW h \in Handle, AutoAdvertise(w, h)
  PROVE  IInv'
<1>1. /\ call[w] = NoCall /\ adJobs[h] > 0
      /\ adJobs' = [adJobs EXCEPT ![h] = @ - 1]
      /\ UNCHANGED <<life, table, writer, reading, timers, req, params, answers, failed, regs, ads>>
  BY DEF AutoAdvertise
<1>2. adJobs' \in [Handle -> Nat] /\ \A k \in Handle : adJobs[k] = 0 => adJobs'[k] = 0
  BY <1>1 DEF IInv, TypeOK
<1>3. stage \notin InitStages \cup {"finish_locks", "down"}
  <2>1. adJobs[h] # 0
    BY <1>1
  <2> QED BY <2>1 DEF IInv, Stages, EndStages
<1>4. CASE call' = call
  <2>1. CallsTyped' /\ TypeOK' /\ Requests'
    BY <1>1, <1>2, <1>4 DEF IInv, CallsTyped, TypeOK, Requests, life, table, answers
  <2>2. Stages'
    BY <1>1, <1>2, <1>4 DEF IInv, Stages, life, table, answers, DevicesOf, GetHandleInfo, At
  <2> QED BY <1>1, <1>4, <2>1, <2>2, JobsIInv
<1>5. CASE call' # call
  <2> DEFINE c == [NoCall EXCEPT !.op = "advertise", !.pc = 1, !.h = h, !.job = TRUE]
  <2>1. call' = [call EXCEPT ![w] = c]
    BY <1>5 DEF AutoAdvertise
  <2>2. c = [NoCall EXCEPT !.op = "advertise", !.pc = 1, !.h = h, !.job = TRUE]
    OBVIOUS
  <2> HIDE DEF c
  <2>3. c = [op |-> "advertise", pc |-> 1, h |-> h, gen |-> 0, af |-> None, job |-> TRUE]
    BY <2>2, CallForms
  <2>4. c \in CallRecord /\ c.op = "advertise" /\ c.pc = 1 /\ c.h = h /\ c.job = TRUE
    BY <2>3, HandleNat DEF CallRecord
  <2>5. w \in Thread /\ w \notin Apps /\ w \notin Receivers /\ w # Main
    BY ThreadParts
  <2>6. MayBegin(w, c)
    BY <1>1, <1>3, <2>4, <2>5 DEF MayBegin
  <2>7. MayHold(w, c)
    BY <2>4, <2>5 DEF MayHold
  <2>8. MayCount(w, c)
    BY <1>1, <1>2, <2>5 DEF MayCount, IInv, TypeOK, AdsCounted, Counters, answers
  <2> QED BY <1>1, <2>1, <2>5, <2>6, <2>7, <2>8, BeginsIInv DEF answers
<1> QED BY <1>4, <1>5

LEMMA AdvertisementDueIInv ==
  ASSUME IInv, NEW h \in Handle, AdvertisementDue(h)
  PROVE  IInv'
<1>1. /\ timers[h] > 0 /\ timers' = [timers EXCEPT ![h] = @ - 1]
      /\ UNCHANGED <<life, table, writer, reading, call, req, params, answers, regs, ads>>
      /\ \/ adJobs' = [adJobs EXCEPT ![h] = @ + 1] /\ failed' = failed
         \/ failed' = failed \cup {"full"} /\ adJobs' = adJobs
  BY DEF AdvertisementDue
<1>2. timers' \in [Handle -> Nat] /\ \A k \in Handle : timers[k] = 0 => timers'[k] = 0
  BY <1>1 DEF IInv, TypeOK
<1>3. adJobs' \in [Handle -> Nat]
  BY <1>1 DEF IInv, TypeOK
<1>4. stage \notin InitStages \cup LateStages
  <2>1. timers[h] # 0
    BY <1>1
  <2> QED BY <2>1 DEF IInv, Stages
<1>5. CallsTyped' /\ Requests' /\ failed \subseteq failed'
  BY <1>1 DEF IInv, CallsTyped, Requests
<1>6. TypeOK'
  BY <1>1, <1>2, <1>3 DEF IInv, TypeOK, life, table, answers
<1>7. Stages'
  BY <1>1, <1>2, <1>4 DEF IInv, Stages, life, table, answers, DevicesOf, GetHandleInfo, At, Deaf, LateStages
<1> QED BY <1>1, <1>5, <1>6, <1>7, JobsIInv

LEMMA AsyncCallIInv ==
  ASSUME IInv, NEW t \in Apps, NEW h \in Handle, AsyncCall(t, h)
  PROVE  IInv'
<1>1. stage = "up" /\ UNCHANGED <<life, table, writer, reading, call, timers, adJobs, answers, failed, regs, ads>>
  BY DEF AsyncCall, Open
<1>2. PICK r \in Request : /\ req[r] = None
                           /\ \/ req' = [req EXCEPT ![r] = "queued"] /\ params' = params \cup {r}
                              \/ req' = [req EXCEPT ![r] = "refused"] /\ params' = params
  BY DEF AsyncCall
<1>3. CallsTyped'
  BY <1>1 DEF IInv, CallsTyped
<1>4. TypeOK'
  BY <1>1, <1>2 DEF IInv, TypeOK, life, table, answers
<1>5. Requests'
  <2>1. /\ req'[r] \in {"queued", "refused"} /\ r \notin params
        /\ \A q \in Request : q # r => req'[q] = req[q]
        /\ r \in params' <=> req'[r] = "queued"
        /\ \A q \in Request : q # r => (q \in params' <=> q \in params)
    BY <1>2 DEF IInv, TypeOK, Requests, None
  <2>2. \A w \in Workers : call[w].op = "request" => call[w].h # r /\ call[w].h \in Request
    BY <1>2, ThreadParts DEF IInv, Requests, CallsTyped, None
  <2> QED BY <1>1, <2>1, <2>2 DEF IInv, Requests
<1>6. Stages'
  <2>1. "up" \notin InitStages \cup EndStages
    BY DEF InitStages, EndStages
  <2> QED BY <1>1, <2>1 DEF IInv, Stages, life, table, answers, DevicesOf, GetHandleInfo, At, Deaf
<1> QED BY <1>1, <1>3, <1>4, <1>5, <1>6, JobsIInv

LEMMA UpnpThreadDistributionIInv ==
  ASSUME IInv, NEW w \in Workers, NEW r \in Request, UpnpThreadDistribution(w, r)
  PROVE  IInv'
<1> DEFINE c == [NoCall EXCEPT !.op = "request", !.h = r]
<1>1. /\ call[w] = NoCall /\ req[r] = "queued" /\ req' = [req EXCEPT ![r] = "running"]
      /\ call' = [call EXCEPT ![w] = c]
      /\ UNCHANGED <<life, table, writer, reading, timers, adJobs, params, answers, failed, regs, ads>>
  BY DEF UpnpThreadDistribution
<1>2. c = [NoCall EXCEPT !.op = "request", !.h = r]
  OBVIOUS
<1> HIDE DEF c
<1>3. c = [op |-> "request", pc |-> 0, h |-> r, gen |-> 0, af |-> None, job |-> FALSE]
  BY <1>2, CallForms
<1>4. c \in CallRecord /\ c.op = "request" /\ c.h = r
  BY <1>3, SdkConstants DEF CallRecord, Request
<1>5. w \in Thread /\ w \notin Apps /\ w \notin Receivers /\ w # Main
  BY ThreadParts
<1>6. /\ call' \in [Thread -> CallRecord] /\ call'[w] = c
      /\ \A x \in Thread : x # w => call'[x] = call[x]
  BY <1>1, <1>4, <1>5, CallBecomes DEF IInv, CallsTyped
<1>7. call[w].op = None
  BY <1>1 DEF NoCall
<1>8. CallsTyped'
  BY <1>4, <1>5, <1>6 DEF IInv, CallsTyped, None
<1>9. TypeOK'
  BY <1>1 DEF IInv, TypeOK, life, table, answers
<1>10. stage \notin InitStages \cup EndStages
  BY <1>1 DEF IInv, Stages
<1>11. Stages'
  <2>1. /\ \A x \in Apps : call'[x] = call[x]
        /\ \A x \in Receivers : call'[x] = call[x]
        /\ call'[Main] = call[Main]
    BY <1>5, <1>6, ThreadParts
  <2> QED BY <1>1, <1>10, <2>1 DEF IInv, Stages, life, table, answers, DevicesOf, GetHandleInfo, At, Deaf, EndStages
<1>12. Requests'
  <2>1. /\ req'[r] = "running" /\ \A q \in Request : q # r => req'[q] = req[q]
    BY <1>1 DEF IInv, TypeOK
  <2>2. \A v \in Workers : call[v].op = "request" => call[v].h # r /\ call[v].h \in Request /\ v # w
    BY <1>1, <1>7, ThreadParts DEF IInv, Requests, CallsTyped, None
  <2>3. \A v \in Workers : v # w => call'[v] = call[v]
    BY <1>6, ThreadParts
  <2> QED BY <1>1, <1>4, <1>6, <2>1, <2>2, <2>3 DEF IInv, Requests
<1> QED BY <1>1, <1>4, <1>6, <1>7, <1>8, <1>9, <1>11, <1>12, JobsIInv

LEMMA DistributionDoneIInv ==
  ASSUME IInv, NEW w \in Workers, DistributionDone(w)
  PROVE  IInv'
<1> DEFINE r == call[w].h
<1>1. /\ call[w].op = "request" /\ req' = [req EXCEPT ![r] = "answered"]
      /\ params' = params \ {r} /\ Return(w)
      /\ UNCHANGED <<life, table, writer, reading, timers, adJobs, answers, failed, regs, ads>>
  BY DEF DistributionDone, CalledBack
<1>2. w \in Thread /\ w \notin Apps /\ w \notin Receivers /\ w # Main
  BY ThreadParts
<1>3. r \in Request /\ req[r] = "running"
  BY <1>1, <1>2 DEF IInv, CallsTyped, Requests
<1>4. /\ CallsTyped' /\ call'[w] = NoCall
      /\ \A x \in Thread : x # w => call'[x] = call[x]
  BY <1>1, <1>2, CallReturns DEF IInv
<1>5. call'[w].op = None
  BY <1>4 DEF NoCall
<1>6. TypeOK'
  BY <1>1, <1>3 DEF IInv, TypeOK, life, table, answers
<1>7. req'[r] = "answered" /\ \A q \in Request : q # r => req'[q] = req[q]
  BY <1>1, <1>3 DEF IInv, TypeOK
<1>8. Stages'
  <2>1. \A x \in Thread : call[x] = NoCall => call'[x] = NoCall
    BY <1>4
  <2>2. \A q \in Request : req[q] # "queued" => req'[q] # "queued"
    BY <1>7
  <2>3. \A x \in Receivers : call'[x] = call[x]
    BY <1>2, <1>4, ThreadParts
  <2> QED BY <1>1, <2>1, <2>2, <2>3, ThreadParts DEF IInv, Stages, life, table, answers, DevicesOf, GetHandleInfo, At, Deaf
<1>9. Requests'
  <2>1. \A v \in Workers : /\ v # w => call'[v] = call[v]
                           /\ v # w /\ call[v].op = "request" => call[v].h # r /\ call[v].h \in Request
    BY <1>1, <1>4, ThreadParts DEF IInv, Requests, CallsTyped
  <2>2. None # "request"
    BY DEF None
  <2> HIDE DEF r
  <2>3. r \notin params' /\ \A q \in Request : q # r => (q \in params' <=> q \in params)
    BY <1>1
  <2>4. \A q \in Request : q # r /\ req[q] = "running" =>
          \E v \in Workers : v # w /\ call[v].op = "request" /\ call[v].h = q
    BY DEF IInv, Requests, r
  <2>5. \A v \in Workers : call'[v].op = "request" => v # w
    BY <1>5, <2>2
  <2> QED BY <1>3, <1>7, <2>1, <2>3, <2>4, <2>5 DEF IInv, Requests
<1> QED BY <1>1, <1>4, <1>5, <1>6, <1>8, <1>9, JobsIInv

LEMMA ReplyDueIInv ==
  ASSUME IInv, NEW h \in Handle, ReplyDue(h)
  PROVE  IInv'
<1>1. /\ replies[h] > 0 /\ replies' = [replies EXCEPT ![h] = @ - 1]
      /\ UNCHANGED <<life, table, writer, reading, call, timers, adJobs, req, params, failed, regs, ads>>
      /\ replyJobs' = [replyJobs EXCEPT ![h] = @ + 1] \/ replyJobs' = replyJobs
  BY DEF ReplyDue
<1>2. replies' \in [Handle -> Nat] /\ \A k \in Handle : replies[k] = 0 => replies'[k] = 0
  BY <1>1 DEF IInv, TypeOK
<1>3. replyJobs' \in [Handle -> Nat]
  BY <1>1 DEF IInv, TypeOK
<1>4. stage \notin InitStages \cup LateStages
  <2>1. replies[h] # 0
    BY <1>1
  <2> QED BY <2>1 DEF IInv, Stages
<1>5. CallsTyped' /\ Requests' /\ failed \subseteq failed'
  BY <1>1 DEF IInv, CallsTyped, Requests
<1>6. TypeOK'
  BY <1>1, <1>2, <1>3 DEF IInv, TypeOK, life, table
<1>7. Stages'
  BY <1>1, <1>2, <1>4 DEF IInv, Stages, life, table, DevicesOf, GetHandleInfo, LateStages, At
<1> QED BY <1>1, <1>5, <1>6, <1>7, JobsIInv

LEMMA ReplyStartIInv ==
  ASSUME IInv, NEW w \in Workers, NEW h \in Handle, ReplyStart(w, h)
  PROVE  IInv'
<1> DEFINE c == [NoCall EXCEPT !.op = "reply", !.pc = 1, !.h = h]
<1>1. /\ call[w] = NoCall /\ replyJobs[h] > 0 /\ call' = [call EXCEPT ![w] = c]
      /\ replyJobs' = [replyJobs EXCEPT ![h] = @ - 1]
      /\ UNCHANGED <<life, table, writer, reading, timers, adJobs, replies, req, params, failed, regs, ads>>
  BY DEF ReplyStart
<1>2. replyJobs' \in [Handle -> Nat] /\ \A k \in Handle : replyJobs[k] = 0 => replyJobs'[k] = 0
  BY <1>1 DEF IInv, TypeOK
<1>3. stage \notin InitStages \cup {"finish_locks", "down"}
  <2>1. replyJobs[h] # 0
    BY <1>1
  <2> QED BY <2>1 DEF IInv, Stages, EndStages
<1>4. c = [NoCall EXCEPT !.op = "reply", !.pc = 1, !.h = h]
  OBVIOUS
<1> HIDE DEF c
<1>5. c = [op |-> "reply", pc |-> 1, h |-> h, gen |-> 0, af |-> None, job |-> FALSE]
  BY <1>4, CallForms
<1>6. c \in CallRecord /\ c.op = "reply" /\ c.pc = 1 /\ c.h = h
  BY <1>5, HandleNat DEF CallRecord
<1>7. w \in Thread /\ w \notin Apps /\ w \notin Receivers /\ w # Main
  BY ThreadParts
<1>8. MayBegin(w, c)
  BY <1>1, <1>3, <1>6, <1>7 DEF MayBegin
<1>9. MayHold(w, c)
  BY <1>6, <1>7 DEF MayHold
<1>10. MayCount(w, c)
  BY <1>1, <1>2, <1>6 DEF MayCount, IInv, TypeOK, AdsCounted, Counters
<1> QED BY <1>1, <1>7, <1>8, <1>9, <1>10, BeginsIInv

-----------------------------------------------------------------------------
(* The stages of UpnpInit2 and UpnpFinish *)

LEMMA InitOrderAt ==
  /\ DOMAIN InitOrder = 1 .. 7 /\ Len(InitOrder) = 7
  /\ InitOrder[1] = "log" /\ InitOrder[2] = "mutexes" /\ InitOrder[3] = "pools"
  /\ InitOrder[4] = "timer" /\ InitOrder[5] = "ifinfo" /\ InitOrder[6] = "miniserver"
  /\ InitOrder[7] = "webserver"
BY DEF InitOrder

LEMMA InitStagesAre == {InitOrder[i] : i \in DOMAIN InitOrder} = InitStages
BY InitOrderAt DEF InitStages

LEMMA StageAfterAt ==
  ASSUME NEW k \in 1 .. 7
  PROVE  StageAfter(InitOrder[k]) = IF k = 7 THEN "up" ELSE InitOrder[k + 1]
<1> DEFINE i == CHOOSE n \in DOMAIN InitOrder : InitOrder[n] = InitOrder[k]
<1>1. i \in 1 .. 7 /\ InitOrder[i] = InitOrder[k]
  BY InitOrderAt, Zenon
<1> HIDE DEF i
<1>2. i = k
  BY <1>1, InitOrderAt
<1> QED BY <1>2, InitOrderAt DEF StageAfter, i

LEMMA StageAfterIs ==
  /\ StageAfter("log") = "mutexes" /\ StageAfter("mutexes") = "pools"
  /\ StageAfter("pools") = "timer" /\ StageAfter("timer") = "ifinfo"
  /\ StageAfter("ifinfo") = "miniserver" /\ StageAfter("miniserver") = "webserver"
  /\ StageAfter("webserver") = "up"
<1>1. StageAfter(InitOrder[1]) = InitOrder[2] /\ StageAfter(InitOrder[2]) = InitOrder[3]
  BY StageAfterAt
<1>2. StageAfter(InitOrder[3]) = InitOrder[4] /\ StageAfter(InitOrder[4]) = InitOrder[5]
  BY StageAfterAt
<1>3. StageAfter(InitOrder[5]) = InitOrder[6] /\ StageAfter(InitOrder[6]) = InitOrder[7]
  BY StageAfterAt
<1>4. StageAfter(InitOrder[7]) = "up"
  BY StageAfterAt
<1> QED BY <1>1, <1>2, <1>3, <1>4, InitOrderAt

LEMMA BringsIs ==
  /\ Brings("log") = {} /\ Brings("mutexes") = {"locks"} /\ Brings("pools") = {"send", "recv", "mini"}
  /\ Brings("timer") = {"timer"} /\ Brings("ifinfo") = {}
  /\ Brings("miniserver") = {"miniserver"} /\ Brings("webserver") = {"webserver"}
BY DEF Brings

LEMMA FinishStagesAt ==
  /\ DOMAIN FinishStages = 1 .. 6
  /\ FinishStages[1] = "finish_timer" /\ FinishStages[2] = "finish_servers"
  /\ FinishStages[3] = "finish_recv" /\ FinishStages[4] = "sendpool"
  /\ FinishStages[5] = "finish_locks" /\ FinishStages[6] = "down"
BY DEF FinishStages

LEMMA NextStageAt ==
  ASSUME NEW k \in 1 .. 5
  PROVE  NextStage(FinishStages[k]) = FinishStages[k + 1]
<1> DEFINE i == CHOOSE n \in DOMAIN FinishStages : FinishStages[n] = FinishStages[k]
<1>1. i \in 1 .. 6 /\ FinishStages[i] = FinishStages[k]
  <2>1. k \in DOMAIN FinishStages
    BY FinishStagesAt
  <2> QED BY <2>1, FinishStagesAt, Zenon
<1> HIDE DEF i
<1>2. i = k
  BY <1>1, FinishStagesAt
<1>3. NextStage(FinishStages[k]) = FinishStages[1 + i]
  BY DEF NextStage, i
<1>4. 1 + i = k + 1
  BY <1>2
<1> QED BY <1>3, <1>4

LEMMA NextStageIs ==
  /\ NextStage("finish_timer") = "finish_servers" /\ NextStage("finish_servers") = "finish_recv"
  /\ NextStage("finish_recv") = "sendpool" /\ NextStage("sendpool") = "finish_locks"
  /\ NextStage("finish_locks") = "down"
<1>1. NextStage(FinishStages[1]) = FinishStages[2] /\ NextStage(FinishStages[2]) = FinishStages[3]
  BY NextStageAt
<1>2. NextStage(FinishStages[3]) = FinishStages[4] /\ NextStage(FinishStages[4]) = FinishStages[5]
  BY NextStageAt
<1>3. NextStage(FinishStages[5]) = FinishStages[6]
  BY NextStageAt
<1> QED BY <1>1, <1>2, <1>3, FinishStagesAt

LEMMA ShutsDownIs ==
  /\ ShutsDown("finish_timer") = {"timer"}
  /\ ShutsDown("finish_servers") = {"miniserver", "webserver", "mini"}
  /\ ShutsDown("finish_recv") = {"recv"} /\ ShutsDown("sendpool") = {"send"}
  /\ ShutsDown("finish_locks") = {"locks"}
BY DEF ShutsDown

Subsystems == {"locks", "send", "recv", "mini", "timer", "miniserver", "webserver"}

LEMMA MayBeUpIs ==
  /\ MayBeUp["log"] = {} /\ MayBeUp["mutexes"] = {} /\ MayBeUp["down"] = {}
  /\ MayBeUp["pools"] = {"locks"} /\ MayBeUp["finish_servers"] = Subsystems \ {"timer"}
  /\ MayBeUp["finish_recv"] = {"locks", "send", "recv"} /\ MayBeUp["sendpool"] = {"locks", "send"}
  /\ MayBeUp["finish_locks"] = {"locks"}
  /\ \A s \in {"timer", "ifinfo", "miniserver"} : MayBeUp[s] = Subsystems \ {"miniserver", "webserver"}
  /\ \A s \in {"webserver", "up", "finish_timer"} \cup UnregStages : MayBeUp[s] = Subsystems
<1> USE DEF MayBeUp, Quiet, InitStages, UnregStages, LateStages, EndStages, Subsystems
<1>1. MayBeUp["log"] = {} /\ MayBeUp["mutexes"] = {} /\ MayBeUp["down"] = {} /\ MayBeUp["pools"] = {"locks"}
  OBVIOUS
<1>2. MayBeUp["finish_servers"] = Subsystems \ {"timer"} /\ MayBeUp["finish_recv"] = {"locks", "send", "recv"}
  OBVIOUS
<1>3. MayBeUp["sendpool"] = {"locks", "send"} /\ MayBeUp["finish_locks"] = {"locks"}
  OBVIOUS
<1>4. \A s \in {"webserver", "up", "finish_timer"} \cup UnregStages : MayBeUp[s] = Subsystems
  OBVIOUS
<1>5. \A s \in {"timer", "ifinfo", "miniserver"} : MayBeUp[s] = Subsystems \ {"miniserver", "webserver"}
  OBVIOUS
<1> QED BY <1>1, <1>2, <1>3, <1>4, <1>5

\* A thread that is in no call is in no search.
LEMMA NoSearch ==
  \A x \in Thread : call[x] = NoCall => ~At(x, "search", 2)
BY DEF At, NoCall, None

\* A step of Main that leaves the table and the calls alone.
LEMMA StageIInv ==
  ASSUME IInv, UNCHANGED <<table, writer, reading, call, regs, ads>>, inits' \in Nat,
         TypeOK', Stages', UpAtMost', Requests'
  PROVE  IInv'
<1> USE DEF table
<1>1. Counters' /\ CallsTyped' /\ LocksHeld' /\ HandlesHeld'
  BY DEF IInv, Counters, CallsTyped, LocksHeld, HandlesHeld, At
<1>2. Flags' /\ ClientsCounted'
  BY DEF IInv, Flags, ClientsCounted, DevicesOf, ClientHandles, GetHandleInfo
<1>3. AdsCounted'
  BY DEF IInv, AdsCounted, Advertising
<1> QED BY <1>1, <1>2, <1>3 DEF IInv

LEMMA UpnpInit2IInv ==
  ASSUME IInv, UpnpInit2
  PROVE  IInv'
<1>1. /\ stage = "down" /\ UpnpSdkInit' = TRUE /\ stage' = "log" /\ inits' = inits + 1
      /\ UNCHANGED <<up, table, writer, reading, call, jobs, failed, regs, ads>>
  BY InitOrderAt DEF UpnpInit2
<1>2. TypeOK' /\ Requests' /\ inits' \in Nat
  BY <1>1 DEF IInv, TypeOK, Requests, Counters, table, jobs, answers
<1>3. UpAtMost'
  BY <1>1, MayBeUpIs DEF IInv, UpAtMost, LeftOver
<1>4. Stages'
  <2>1. /\ stage \in Quiet /\ stage \in Deaf /\ stage \in LateStages /\ stage \in EndStages
        /\ stage' \in Quiet /\ stage' \notin UnregStages
    BY <1>1 DEF Quiet, Deaf, InitStages, LateStages, EndStages, UnregStages
  <2>2. \A r \in Receivers : call[r] = NoCall /\ ~At(r, "search", 2)
    BY <2>1, NoSearch, ThreadParts DEF IInv, Stages
  <2>3. \A r \in Receivers : call'[r] = NoCall /\ ~At(r, "search", 2)'
    BY <1>1, <2>2 DEF At
  <2>4. /\ \A t \in Apps : call'[t] = NoCall
        /\ call'[Main] = NoCall /\ \A w \in Workers : call'[w] = NoCall
    BY <1>1, <2>1 DEF IInv, Stages, UnregStages
  <2>5. \A h \in Handle : /\ HandleTable'[h] = Empty /\ timers'[h] = 0 /\ replies'[h] = 0
                          /\ adJobs'[h] = 0 /\ replyJobs'[h] = 0
    BY <1>1, <2>1 DEF IInv, Stages, table, jobs, answers
  <2>6. \A q \in Request : req'[q] # "queued"
    BY <1>1, <2>1 DEF IInv, Stages, jobs
  <2> QED BY <1>1, <2>1, <2>3, <2>4, <2>5, <2>6 DEF Stages
<1> QED BY <1>1, <1>2, <1>3, <1>4, StageIInv

LEMMA UpnpInitStageIInv ==
  ASSUME IInv, UpnpInitStage
  PROVE  IInv'
<1>1. /\ stage \in InitStages /\ stage' = StageAfter(stage) /\ up' = up \cup Brings(stage)
      /\ HandleTable' = IF stage = "mutexes" THEN [h \in Handle |-> Empty] ELSE HandleTable
      /\ UNCHANGED <<UpnpSdkInit, inits, registered, clients, writer, reading, call,
                     jobs, failed, regs, ads>>
  BY InitStagesAre DEF UpnpInitStage
<1>2. HandleTable' = HandleTable
  <2>1. \A h \in Handle : HandleTable[h] = Empty
    BY <1>1 DEF IInv, Stages, Quiet
  <2>2. HandleTable = [h \in Handle |-> HandleTable[h]]
    BY DEF IInv, TypeOK
  <2> QED BY <1>1, <2>1, <2>2
<1>3. stage' \in InitStages \cup {"up"} /\ stage' # "log"
  BY <1>1, StageAfterIs DEF InitStages
<1>4. Brings(stage) \subseteq Subsystems
  BY <1>1, BringsIs DEF InitStages, Subsystems
<1>5. TypeOK' /\ Requests' /\ inits' \in Nat
  <2>1. up' \subseteq {"locks", "send", "recv", "mini", "timer", "miniserver", "webserver"}
    BY <1>1, <1>4 DEF IInv, TypeOK, Subsystems
  <2>2. Requests' /\ inits' \in Nat
    BY <1>1 DEF IInv, Requests, Counters, jobs
  <2>3. UNCHANGED <<UpnpSdkInit, HandleTable, registered, clients, writer, reading, timers, adJobs,
                    replies, replyJobs, req, params, failed>>
    BY <1>1, <1>2 DEF jobs, answers
  <2>4. TypeOK'
    BY <2>1, <2>3 DEF IInv, TypeOK
  <2> QED BY <2>2, <2>4
<1>6. UpAtMost'
  <2>1. MayBeUp[stage] \cup Brings(stage) \subseteq MayBeUp[stage']
    BY <1>1, StageAfterIs, BringsIs, MayBeUpIs DEF InitStages, Subsystems
  <2> QED BY <1>1, <2>1 DEF IInv, UpAtMost, LeftOver
<1>7. Stages'
  <2>1. "up" \notin Quiet \cup UnregStages \cup EndStages \cup LateStages /\ "down" \notin InitStages
    BY DEF Quiet, InitStages, LateStages, EndStages, UnregStages
  <2>2. InitStages \cap (UnregStages \cup {"up"}) = {} /\ InitStages \subseteq Quiet
    BY DEF Quiet, InitStages, UnregStages
  <2>3. UNCHANGED <<UpnpSdkInit, call, timers, adJobs, replies, replyJobs, req, HandleTable>>
    BY <1>1, <1>2 DEF jobs, answers
  <2>6. stage' \in Deaf => stage \in Deaf
    BY <1>1, StageAfterIs DEF Deaf, InitStages, EndStages
  <2>7. stage' \in InitStages => stage \in InitStages /\ \A x \in Receivers : At(x, "search", 2)' = At(x, "search", 2)
    BY <1>1 DEF At
  <2>4. {"devices6", "clients"} \subseteq UnregStages /\ stage \in InitStages
    BY <1>1 DEF UnregStages
  <2> QED BY <1>3, <2>1, <2>2, <2>3, <2>4, <2>6, <2>7 DEF IInv, Stages
<1> QED BY <1>1, <1>2, <1>5, <1>6, <1>7, StageIInv DEF table

LEMMA UpnpInitThreadPoolsFailsIInv ==
  ASSUME IInv, UpnpInitThreadPoolsFails
  PROVE  IInv'
<1>1. /\ stage = "pools" /\ UpnpSdkInit' = FALSE /\ stage' = "down" /\ failed' = failed \cup {"pools"}
      /\ UNCHANGED <<inits, table, writer, reading, call, jobs, regs, ads>>
      /\ \E made \in {{}, {"send"}, {"send", "recv"}} : up' = up \cup made
  BY DEF UpnpInitThreadPoolsFails
<1>2. TypeOK' /\ Requests' /\ inits' \in Nat
  BY <1>1 DEF IInv, TypeOK, Requests, Counters, table, jobs, answers
<1>3. UpAtMost'
  BY <1>1, MayBeUpIs DEF IInv, UpAtMost, LeftOver
<1>4. Stages'
  BY <1>1, NoSearch DEF IInv, Stages, Quiet, Deaf, InitStages, LateStages, EndStages, UnregStages,
                       table, jobs, answers, At
<1> QED BY <1>1, <1>2, <1>3, <1>4, StageIInv

LEMMA FinishBeginsIInv ==
  ASSUME IInv, UpnpInitFails \/ UpnpFinish
  PROVE  IInv'
<1>1. /\ stage \in InitStages \cup {"up"} /\ stage' = "devices4"
      /\ \A t \in Apps : call[t] = NoCall
      /\ UNCHANGED <<UpnpSdkInit, up, inits, table, writer, reading, call, jobs, failed, regs, ads>>
  BY InitStagesAre, InitFaultsAssumption DEF UpnpInitFails, UpnpFinish, IInv, Stages, InitStages
<1>2. TypeOK' /\ Requests' /\ inits' \in Nat
  BY <1>1 DEF IInv, TypeOK, Requests, Counters, table, jobs, answers
<1>3. UpAtMost'
  <2>1. up \subseteq Subsystems
    BY DEF IInv, TypeOK, Subsystems
  <2> QED BY <1>1, <2>1, MayBeUpIs DEF UpAtMost, LeftOver, UnregStages
<1>4. Stages'
  BY <1>1, NoSearch DEF IInv, Stages, Quiet, Deaf, InitStages, LateStages, EndStages, UnregStages,
                       table, jobs, answers, At
<1> QED BY <1>1, <1>2, <1>3, <1>4, StageIInv

LEMMA FirstEmpty ==
  ASSUME NEW S, S \subseteq Nat, First(S) = {}
  PROVE  S = {}
<1> SUFFICES ASSUME S # {} PROVE FALSE
  OBVIOUS
<1>1. PICK x \in S : \A y \in S : ~(<<y, x>> \in OpToRel(<, Nat))
  BY NatLessThanWellFounded, WFMin
<1>2. \A y \in S : ~(y < x)
  BY <1>1 DEF OpToRel
<1>3. x \in First(S)
  BY <1>2 DEF First
<1> QED BY <1>3

LEMMA FinishHandlesIInv ==
  ASSUME IInv, NEW af \in Family, NEW s \in UnregStages, NEW found, NEW next, FinishHandles(s, found, next),
         \/ s = "devices4" /\ af = "AF_INET" /\ found = GetDeviceHandleInfo(0, af) /\ next = "devices6"
         \/ s = "devices6" /\ af = "AF_INET6" /\ found = GetDeviceHandleInfo(0, af) /\ next = "clients"
         \/ s = "clients" /\ found = GetClientHandleInfo /\ next = "finish_timer"
  PROVE  IInv'
<1>1. /\ stage = s /\ call[Main] = NoCall
      /\ UNCHANGED <<UpnpSdkInit, up, inits, table, writer, reading, jobs, failed, regs, ads>>
  BY DEF FinishHandles
<1>2. stage # "up" /\ stage \in UnregStages
  BY <1>1 DEF UnregStages
<1>3. (\A h : ~Unregistering(h)) /\ \A x \in Thread : call[x].op # "register"
  BY <1>1, <1>2, NotUnregistering
<1>4. CASE found # {}
  <2>1. /\ stage' = stage
        /\ \E h \in found : IF s = "clients" THEN UnRegisterClientCall(Main, h)
                                             ELSE UnRegisterCall(Main, h)
    BY <1>4 DEF FinishHandles
  <2>2. PICK h \in found : IF s = "clients" THEN UnRegisterClientCall(Main, h)
                                            ELSE UnRegisterCall(Main, h)
    BY <2>1
  <2>3. UNCHANGED <<life, table, writer, reading, jobs, failed, regs, ads>>
    BY <1>1, <2>1 DEF life
  <2>4. Main \notin Apps /\ Main \in Apps \cup {Main} /\ stage \in UnregStages
    BY <1>2, ThreadParts
  <2>5. CASE s = "clients"
    <3>1. h \in Handle /\ GetHandleInfo(h) = "client"
      BY <2>2, <2>5 DEF GetClientHandleInfo, First, ClientHandles
    <3>2. UnRegisterClientCall(Main, h)
      BY <2>2, <2>5
    <3> QED BY <1>1, <1>3, <2>3, <2>4, <3>1, <3>2, UnRegisterClientCallIInv
  <2>6. CASE s # "clients"
    <3>1. registered[af] /\ h \in DevicesOf(af)
      BY <2>2, <2>6 DEF GetDeviceHandleInfo, First
    <3>2. h \in Handle /\ GetHandleInfo(h) = "device" /\ registered[HandleTable[h].DeviceAf]
      BY <3>1 DEF DevicesOf
    <3>3. UnRegisterCall(Main, h)
      BY <2>2, <2>6
    <3> QED BY <1>1, <1>3, <2>3, <2>4, <3>2, <3>3, UnRegisterCallIInv
  <2> QED BY <2>5, <2>6
<1>5. CASE found = {}
  <2>1. stage' = next /\ call' = call
    BY <1>5 DEF FinishHandles
  <2>2. s # "clients" => DevicesOf(af) = {}
    <3> SUFFICES ASSUME s # "clients" PROVE DevicesOf(af) = {}
      OBVIOUS
    <3>1. CASE registered[af]
      <4>1. First({h \in DevicesOf(af) : h > 0}) = {}
        BY <1>5, <3>1 DEF GetDeviceHandleInfo
      <4>2. {h \in DevicesOf(af) : h > 0} = {}
        BY <4>1, FirstEmpty, HandleNat DEF DevicesOf
      <4>3. \A h \in DevicesOf(af) : h > 0
        BY SdkConstants DEF DevicesOf, Handle
      <4> QED BY <4>2, <4>3
    <3>2. CASE ~registered[af]
      BY <1>3, <3>2 DEF IInv, Flags, DevicesOf, GetHandleInfo
    <3> QED BY <3>1, <3>2
  <2>3. s = "clients" => ClientHandles = {}
    <3> SUFFICES ASSUME s = "clients" PROVE ClientHandles = {}
      OBVIOUS
    <3>1. First(ClientHandles) = {}
      BY <1>5 DEF GetClientHandleInfo
    <3> QED BY <3>1, FirstEmpty, HandleNat DEF ClientHandles
  <2>4. s = "clients" => \A h \in Handle : HandleTable[h] = Empty
    <3> SUFFICES ASSUME s = "clients", NEW h \in Handle PROVE HandleTable[h] = Empty
      OBVIOUS
    <3>1. HandleTable[h].HType # "client"
      BY <2>3 DEF ClientHandles, GetHandleInfo
    <3>2. DevicesOf("AF_INET") = {} /\ DevicesOf("AF_INET6") = {}
      BY <1>1 DEF IInv, Stages
    <3>3. HandleTable[h].HType # "device"
      BY <3>2 DEF IInv, Flags, DevicesOf, GetHandleInfo, Family
    <3> QED BY <3>1, <3>3 DEF IInv, Flags, TypeOK
  <2>5. TypeOK' /\ Requests' /\ inits' \in Nat
    BY <1>1 , <2>1 DEF IInv, TypeOK, Requests, Counters, table, jobs, answers
  <2>6. next \in {"devices6", "clients", "finish_timer"}
    OBVIOUS
  <2>7. UpAtMost'
    <3>1. up \subseteq Subsystems
      BY DEF IInv, TypeOK, Subsystems
    <3> QED BY <1>1, <2>1, <2>6, <3>1, MayBeUpIs DEF UpAtMost, LeftOver, UnregStages
  <2>8. Stages'
    <3>1. \A f : DevicesOf(f)' = DevicesOf(f)
      BY <1>1 DEF DevicesOf, GetHandleInfo, table
    <3>2. UNCHANGED <<UpnpSdkInit, call, timers, adJobs, replies, replyJobs, req, HandleTable>>
      BY <1>1, <2>1 DEF jobs, answers, table
    <3>3. /\ stage \notin Quiet /\ next \notin InitStages \cup LateStages /\ EndStages \subseteq LateStages
          /\ next \notin Deaf
      BY <1>2, <2>6 DEF Quiet, Deaf, InitStages, LateStages, EndStages, UnregStages
    <3>4. next \in Quiet \cup UnregStages /\ next # "up" /\ next # "down" /\ stage # "down"
      BY <1>2, <2>6 DEF Quiet, UnregStages
    <3>5. next \in {"devices6", "clients"} => DevicesOf("AF_INET") = {}
      BY <1>1, <2>2 DEF IInv, Stages
    <3>6. next = "clients" => DevicesOf("AF_INET6") = {}
      BY <2>2
    <3>7. next \in Quiet => \A h \in Handle : HandleTable[h] = Empty
      BY <2>4 DEF Quiet, InitStages, LateStages, EndStages
    <3>8. next \notin {"finish_locks", "down"}
      BY <2>6
    <3> QED BY <1>1, <1>2, <2>1, <3>1, <3>2, <3>3, <3>4, <3>5, <3>6, <3>7, <3>8 DEF IInv, Stages
  <2> QED BY <1>1, <2>1, <2>5, <2>7, <2>8, StageIInv
<1> QED BY <1>4, <1>5

LEMMA FinishUnregisterIInv ==
  ASSUME IInv, FinishUnregister
  PROVE  IInv'
<1>1. CASE FinishHandles("devices4", GetDeviceHandleInfo(0, "AF_INET"), "devices6")
  BY <1>1, FinishHandlesIInv DEF UnregStages, Family
<1>2. CASE FinishHandles("devices6", GetDeviceHandleInfo(0, "AF_INET6"), "clients")
  BY <1>2, FinishHandlesIInv DEF UnregStages, Family
<1>3. CASE FinishHandles("clients", GetClientHandleInfo, "finish_timer")
  BY <1>3, FinishHandlesIInv DEF UnregStages, Family
<1> QED BY <1>1, <1>2, <1>3 DEF FinishUnregister

LEMMA FinishStepIInv ==
  ASSUME IInv, FinishStep
  PROVE  IInv'
<1> DEFINE dropped == IF stage = "finish_recv" THEN {r \in Request : req[r] = "queued"} ELSE {}
<1>1. /\ stage \in {FinishStages[i] : i \in 1 .. 5}
      /\ stage = "sendpool" => SendPoolIdle
      /\ stage = "finish_recv" => RecvPoolIdle
  BY DEF FinishStep
<1>2. /\ stage' = NextStage(stage) /\ up' = up \ ShutsDown(stage)
      /\ UpnpSdkInit' = (stage # "finish_locks")
      /\ UNCHANGED <<inits, table, writer, reading, call, failed, regs, ads>>
  BY DEF FinishStep
<1>3. /\ timers' = IF stage = "finish_timer" THEN [h \in Handle |-> 0] ELSE timers
      /\ replies' = IF stage = "finish_timer" THEN [h \in Handle |-> 0] ELSE replies
      /\ adJobs' = IF stage = "finish_recv" THEN [h \in Handle |-> 0] ELSE adJobs
      /\ replyJobs' = IF stage = "finish_recv" THEN [h \in Handle |-> 0] ELSE replyJobs
  BY DEF FinishStep
<1>4. /\ req' = [r \in Request |-> IF r \in dropped THEN "dropped" ELSE req[r]]
      /\ params' = params \ dropped
  BY DEF FinishStep
<1>5. stage \in {"finish_timer", "finish_servers", "finish_recv", "sendpool", "finish_locks"}
  BY <1>1, FinishStagesAt
<1>6. \A r \in Request : /\ r \in dropped => req[r] = "queued" /\ req'[r] = "dropped"
                         /\ r \notin dropped => req'[r] = req[r]
                         /\ stage = "finish_recv" => req'[r] # "queued"
                         /\ req[r] # "queued" => req'[r] # "queued"
  BY <1>4
<1> HIDE DEF dropped
<1>7. TypeOK' /\ inits' \in Nat
  <2>1. /\ timers' \in [Handle -> Nat] /\ adJobs' \in [Handle -> Nat]
        /\ replies' \in [Handle -> Nat] /\ replyJobs' \in [Handle -> Nat]
    BY <1>3 DEF IInv, TypeOK
  <2>2. /\ req' \in [Request -> {None, "queued", "running", "answered", "dropped", "refused"}]
        /\ params' \subseteq Request
    BY <1>4 DEF IInv, TypeOK
  <2>3. UpnpSdkInit' \in BOOLEAN /\ inits' \in Nat
    BY <1>2 DEF IInv, Counters
  <2> QED BY <1>2, <2>1, <2>2, <2>3 DEF IInv, TypeOK, table
<1>8. Requests'
  <2>1. \A r \in Request : (r \in params' <=> r \in params /\ r \notin dropped)
    BY <1>4
  <2>2. \A r \in Request : req[r] = "running" <=> req'[r] = "running"
    BY <1>6
  <2>3. \A r \in Request : req'[r] \in {"queued", "running"} <=> req[r] \in {"queued", "running"} /\ r \notin dropped
    BY <1>6
  <2>4. \A w \in Workers : call[w].op = "request" => call[w].h \in Request
    BY ThreadParts DEF IInv, CallsTyped
  <2>5. call' = call
    BY <1>2
  <2> QED BY <2>1, <2>2, <2>3, <2>4, <2>5 DEF IInv, Requests
<1>9. UpAtMost'
  <2>1. MayBeUp[stage] \ ShutsDown(stage) \subseteq MayBeUp[stage']
    BY <1>2, <1>5, NextStageIs, ShutsDownIs, MayBeUpIs DEF Subsystems
  <2> QED BY <1>2, <2>1 DEF IInv, UpAtMost, LeftOver
<1>10. Stages'
  <2>1. \A f : DevicesOf(f)' = DevicesOf(f)
    BY <1>2 DEF DevicesOf, GetHandleInfo, table
  <2>2. HandleTable' = HandleTable /\ call' = call
    BY <1>2 DEF table
  <2>3. stage \in Quiet /\ stage' \in LateStages /\ stage \notin InitStages /\ stage \notin UnregStages
        /\ stage # "up"
    BY <1>2, <1>5, NextStageIs DEF Quiet, InitStages, LateStages, EndStages, UnregStages
  <2>4. stage' \notin InitStages /\ stage' \in Quiet /\ stage' \notin UnregStages /\ stage' # "up"
        /\ stage' \notin {"devices6", "clients"}
    BY <2>3 DEF Quiet, InitStages, LateStages, EndStages, UnregStages
  <2>5. \A h \in Handle : timers'[h] = 0 /\ replies'[h] = 0
    <3>1. CASE stage = "finish_timer"
      BY <1>3, <3>1
    <3>2. CASE stage # "finish_timer"
      <4>1. stage \in LateStages
        BY <1>5, <3>2 DEF LateStages, EndStages
      <4> QED BY <1>3, <3>2, <4>1 DEF IInv, Stages
    <3> QED BY <3>1, <3>2
  <2>6. stage' \in EndStages =>
          /\ \A h \in Handle : adJobs'[h] = 0 /\ replyJobs'[h] = 0
          /\ \A r \in Request : req'[r] # "queued"
    <3>1. CASE stage = "finish_recv"
      BY <1>3, <1>6, <3>1
    <3>2. CASE stage \in {"sendpool", "finish_locks"}
      <4>1. stage \in EndStages /\ stage # "finish_recv"
        BY <3>2 DEF EndStages
      <4> QED BY <1>3, <1>6, <4>1 DEF IInv, Stages
    <3>3. CASE stage \in {"finish_timer", "finish_servers"}
      BY <1>2, <3>3, NextStageIs DEF EndStages
    <3> QED BY <1>5, <3>1, <3>2, <3>3
  <2>7. stage' \in {"finish_locks", "down"} => \A w \in Workers : call[w] = NoCall
    <3>1. stage' \in {"finish_locks", "down"} => stage \in {"sendpool", "finish_locks"}
      BY <1>2, <1>5, NextStageIs
    <3> QED BY <1>1, <3>1 DEF IInv, Stages, SendPoolIdle
  <2>8. UpnpSdkInit' <=> stage' # "down"
    BY <1>2, <1>5, NextStageIs
  <2>10. stage' \in Deaf => \A r \in Receivers : call[r] = NoCall
    <3>1. stage' \in Deaf => stage \in {"finish_recv", "sendpool", "finish_locks"}
      BY <1>2, <1>5, NextStageIs DEF Deaf, InitStages, EndStages
    <3>2. stage \in {"sendpool", "finish_locks"} => stage \in Deaf
      BY DEF Deaf, EndStages
    <3> QED BY <1>1, <3>1, <3>2 DEF IInv, Stages, RecvPoolIdle
  <2>9. /\ \A t \in Apps : call[t] = NoCall
        /\ call[Main] = NoCall
        /\ \A h \in Handle : HandleTable[h] = Empty
    BY <2>3 DEF IInv, Stages
  <2> QED BY <2>2, <2>4, <2>5, <2>6, <2>7, <2>8, <2>9, <2>10 DEF Stages
<1> QED BY <1>2, <1>7, <1>8, <1>9, <1>10, StageIInv

-----------------------------------------------------------------------------
(* Searches *)

\* A step of receiver r with its search, or that begins one: its call becomes c.
LEMMA SearchingIInv ==
  ASSUME IInv, NEW r \in Receivers, NEW c \in CallRecord, call[r].op \in {None, "search"},
         call' = [call EXCEPT ![r] = c],
         c = NoCall \/ (c.op = "search" /\ c.af \in Family /\ stage \notin Deaf
                       /\ (c.pc = 2 => c.h \in Handle /\ stage \notin InitStages)),
         UNCHANGED <<life, table, writer, reading, timers, adJobs, replyJobs, req, params, failed, regs, ads>>,
         replies' \in [Handle -> Nat],
         stage \in InitStages \cup LateStages => replies' = replies
  PROVE  IInv'
<1>1. /\ call' \in [Thread -> CallRecord] /\ call'[r] = c
      /\ \A x \in Thread : x # r => call'[x] = call[x]
  BY ThreadParts, CallBecomes DEF IInv, CallsTyped
<1>2. NoCall.op = None /\ None \notin {"register", "unregister", "unregclient", "advertise", "request", "search", "reply"}
  BY DEF NoCall, None
<1>3. CallsTyped'
  BY <1>1, <1>2 DEF IInv, CallsTyped
<1>4. TypeOK'
  BY DEF IInv, TypeOK, life, table
<1>5. \A x \in Apps \cup Workers \cup {Main} : call'[x] = call[x]
  BY <1>1, ThreadParts
<1>6. Requests'
  BY <1>5 DEF IInv, Requests
<1>7. Stages'
  <2>1. \A x \in Receivers : x # r => call'[x] = call[x]
    BY <1>1, ThreadParts
  <2>2. stage \in Deaf => \A x \in Receivers : call'[x] = NoCall
    BY <1>1, <1>2, <2>1 DEF IInv, Stages
  <2>3. stage \in InitStages => \A x \in Receivers : ~At(x, "search", 2)'
    BY <1>1, <1>2, <2>1 DEF IInv, Stages, At
  <2>4. \A f : DevicesOf(f)' = DevicesOf(f)
    BY DEF DevicesOf, GetHandleInfo, table
  <2> QED BY <1>5, <2>2, <2>3, <2>4 DEF IInv, Stages, life, table
<1>8. \A x \in Thread : \/ call'[x] = call[x]
                         \/ /\ call[x].op \in {None, "request", "search"}
                            /\ call'[x].op \in {None, "request", "search"}
  BY <1>1, <1>2
<1> QED BY <1>3, <1>4, <1>6, <1>7, <1>8, JobsIInv

\* A receiver handles a search in no stage in which the mini server is not there.
LEMMA SearchStage ==
  ASSUME IInv, NEW r \in Receivers, call[r].op = "search"
  PROVE  /\ stage \notin Deaf
         /\ call[r].af \in Family /\ call[r].pc \in Nat /\ call[r].h \in Nat
         /\ call[r].pc = 2 => call[r].h \in Handle /\ stage \notin InitStages
         /\ call[r] = [op |-> "search", pc |-> call[r].pc, h |-> call[r].h, gen |-> call[r].gen,
                       af |-> call[r].af, job |-> call[r].job]
<1>1. call[r] # NoCall /\ r \in Thread
  BY ThreadParts DEF NoCall, None
<1>2. call[r] \in CallRecord
  BY <1>1 DEF IInv, CallsTyped
<1> QED BY <1>1, <1>2 DEF IInv, CallsTyped, Stages, At, CallRecord

LEMMA SearchArrivesIInv ==
  ASSUME IInv, NEW r \in Receivers, NEW af \in Family, SearchArrives(r, af)
  PROVE  IInv'
<1> DEFINE c == [NoCall EXCEPT !.op = "search", !.pc = 1, !.af = af]
<1>1. /\ call[r] = NoCall /\ "miniserver" \in up /\ call' = [call EXCEPT ![r] = c]
      /\ UNCHANGED <<life, table, writer, reading, timers, adJobs, replies, replyJobs, req, params,
                     failed, regs, ads>>
  BY DEF SearchArrives
<1>2. c = [NoCall EXCEPT !.op = "search", !.pc = 1, !.af = af]
  OBVIOUS
<1> HIDE DEF c
<1>3. c = [op |-> "search", pc |-> 1, h |-> 0, gen |-> 0, af |-> af, job |-> FALSE]
  BY <1>2, CallForms
<1>4. c \in CallRecord /\ c.op = "search" /\ c.af = af /\ c.pc # 2
  BY <1>3 DEF CallRecord
<1>5. stage \notin Deaf
  <2>1. "miniserver" \in MayBeUp[stage]
    BY <1>1 DEF IInv, UpAtMost, LeftOver
  <2>2. stage \in Quiet \cup UnregStages \cup {"up"}
    BY DEF IInv, Stages
  <2> QED BY <2>1, <2>2, MayBeUpIs DEF Deaf, InitStages, EndStages
<1>6. call[r].op = None
  BY <1>1 DEF NoCall
<1>7. replies' \in [Handle -> Nat] /\ replies' = replies
  BY <1>1 DEF IInv, TypeOK
<1> QED BY <1>1, <1>4, <1>5, <1>6, <1>7, SearchingIInv

LEMMA SearchDeviceIInv ==
  ASSUME IInv, NEW r \in Receivers, SearchDevice(r)
  PROVE  IInv'
<1>1. /\ call[r].op = "search"
      /\ UNCHANGED <<life, table, writer, reading, jobs, failed, regs, ads>>
  BY DEF SearchDevice, At
<1>2. replies' \in [Handle -> Nat] /\ replies' = replies
      /\ UNCHANGED <<timers, adJobs, replyJobs, req, params>>
  BY <1>1 DEF IInv, TypeOK, jobs, answers
<1>3. CASE Return(r)
  BY <1>1, <1>2, <1>3, NoCallTyped, SearchingIInv DEF Return
<1>4. CASE ~Return(r)
  <2>1. PICK h \in GetDeviceHandleInfo(call[r].h, call[r].af) :
          call' = [call EXCEPT ![r].h = h, ![r].pc = 2]
    BY <1>4 DEF SearchDevice
  <2>2. h \in Handle /\ HandleTable[h].HType = "device"
    BY <2>1 DEF GetDeviceHandleInfo, First, DevicesOf, GetHandleInfo
  <2>3. stage \notin Quiet
    BY <2>2, EmptyTyped DEF IInv, Stages
  <2>4. stage \notin Deaf
    BY <1>1, SearchStage
  <2> DEFINE c == [call[r] EXCEPT !.h = h, !.pc = 2]
  <2>5. c \in CallRecord /\ c.op = "search" /\ c.af \in Family /\ c.h = h
    <3>1. call[r] \in CallRecord /\ call[r].af \in Family
      BY <1>1, ThreadParts DEF IInv, CallsTyped
    <3> QED BY <1>1, <2>2, <3>1, HandleNat DEF CallRecord
  <2>6. call' = [call EXCEPT ![r] = c]
    BY <2>1, ThreadParts DEF IInv, CallsTyped, CallRecord
  <2> HIDE DEF c
  <2> QED BY <1>1, <1>2, <2>2, <2>3, <2>4, <2>5, <2>6, SearchingIInv DEF Quiet
<1> QED BY <1>3, <1>4

LEMMA SearchReplyIInv ==
  ASSUME IInv, NEW r \in Receivers, SearchReply(r)
  PROVE  IInv'
<1>1. /\ call[r].op = "search" /\ call[r].pc = 2 /\ Goto(r, 1)
      /\ UNCHANGED <<life, table, writer, reading, timers, adJobs, replyJobs, req, params,
                     failed, regs, ads>>
      /\ \/ "timer" \in up /\ replies' = [replies EXCEPT ![call[r].h] = @ + 1]
         \/ replies' = replies
  BY DEF SearchReply, At
<1>2. stage \notin Deaf /\ stage \notin InitStages
  BY <1>1, SearchStage
<1> DEFINE c == [call[r] EXCEPT !.pc = 1]
<1>3. c \in CallRecord /\ c.op = "search" /\ c.af \in Family /\ c.pc = 1
  <2>1. call[r] \in CallRecord /\ call[r].af \in Family
    BY <1>1, ThreadParts DEF IInv, CallsTyped
  <2> QED BY <1>1, <2>1 DEF CallRecord
<1>4. call' = [call EXCEPT ![r] = c]
  BY <1>1, ThreadParts DEF IInv, CallsTyped, CallRecord, Goto
<1> HIDE DEF c
<1>5. replies' \in [Handle -> Nat]
  BY <1>1 DEF IInv, TypeOK
<1>6. stage \in LateStages => replies' = replies
  <2>1. stage \in LateStages => "timer" \notin up
    BY MayBeUpIs DEF IInv, UpAtMost, LeftOver, LateStages, EndStages
  <2> QED BY <1>1, <2>1
<1>7. \/ c = NoCall
      \/ /\ c.op = "search" /\ c.af \in Family /\ stage \notin Deaf
         /\ c.pc = 2 => c.h \in Handle /\ stage \notin InitStages
  BY <1>2, <1>3
<1>8. stage \in InitStages \cup LateStages => replies' = replies
  BY <1>2, <1>6
<1>9. call[r].op \in {None, "search"}
  BY <1>1
<1>10. UNCHANGED <<life, table, writer, reading, timers, adJobs, replyJobs, req, params, failed, regs, ads>>
  BY <1>1
<1>11. c \in CallRecord
  BY <1>3
<1> QED BY <1>4, <1>5, <1>7, <1>8, <1>9, <1>10, <1>11, SearchingIInv

LEMMA SearchIInv ==
  ASSUME IInv, NEW t \in Thread, Search(t)
  PROVE  IInv'
<1>1. call[t].op = "search"
  BY DEF Search, SearchDevice, SearchReply, At
<1>2. t \in Receivers
  BY <1>1 DEF IInv, CallsTyped
<1> QED BY <1>2, SearchDeviceIInv, SearchReplyIInv DEF Search

-----------------------------------------------------------------------------
(* The steps that change the handle table *)

LEMMA NoDeviceYet ==
  ASSUME NEW af, Cardinality(DevicesOf(af)) < DevicesPerFamily, DevicesPerFamily <= 1
  PROVE  DevicesOf(af) = {}
<1>1. IsFiniteSet(Handle)
  BY SdkConstants, FS_Interval DEF Handle
<1>2. IsFiniteSet(DevicesOf(af)) /\ Cardinality(DevicesOf(af)) \in Nat
  BY <1>1, FS_Subset, FS_CardinalityType DEF DevicesOf
<1>3. Cardinality(DevicesOf(af)) = 0
  BY <1>2, SdkConstants
<1> QED BY <1>2, <1>3, FS_EmptySet

\* The record of a handle that is taken.
LEMMA TakenForms ==
  ASSUME NEW af, NEW g, NEW e
  PROVE  /\ e = [Empty EXCEPT !.HType = "device", !.DeviceAf = af, !.gen = g] =>
              e = [HType |-> "device", DeviceAf |-> af, gen |-> g, chains |-> 0]
         /\ e = [Empty EXCEPT !.HType = "client", !.gen = g] =>
              e = [HType |-> "client", DeviceAf |-> None, gen |-> g, chains |-> 0]
BY DEF Empty

LEMMA EntryBecomes ==
  ASSUME HandleTable \in [Handle -> HandleRecord], NEW h \in Handle, NEW e \in HandleRecord,
         HandleTable' = [HandleTable EXCEPT ![h] = e]
  PROVE  /\ HandleTable' \in [Handle -> HandleRecord]
         /\ HandleTable'[h] = e
         /\ \A k \in Handle : k # h => HandleTable'[k] = HandleTable[k]
OBVIOUS

LEMMA RegisterBeginIInv ==
  ASSUME IInv, DevicesPerFamily <= 1, NEW t \in Apps, NEW af \in Family, RegisterBegin(t, af)
  PROVE  IInv'
<1>1. /\ stage = "up" /\ call[t] = NoCall /\ writer = None /\ reading = {} /\ regs < MaxRegs
      /\ writer' = t /\ regs' = regs + 1
      /\ UNCHANGED <<life, registered, clients, reading, jobs, failed, ads>>
      /\ DevicesOf(af) = {}
  BY NoDeviceYet DEF RegisterBegin, Open, WriteLock
<1>2. PICK h \in GetFreeHandle :
        /\ HandleTable' = [HandleTable EXCEPT ![h] =
                            [Empty EXCEPT !.HType = "device", !.DeviceAf = af, !.gen = regs + 1]]
        /\ call' = [call EXCEPT ![t] = [NoCall EXCEPT !.op = "register", !.h = h, !.af = af]]
  BY DEF RegisterBegin
<1> DEFINE e == [Empty EXCEPT !.HType = "device", !.DeviceAf = af, !.gen = regs + 1]
           c == [NoCall EXCEPT !.op = "register", !.h = h, !.af = af]
<1>3. /\ e = [Empty EXCEPT !.HType = "device", !.DeviceAf = af, !.gen = regs + 1]
      /\ c = [NoCall EXCEPT !.op = "register", !.h = h, !.af = af]
      /\ HandleTable' = [HandleTable EXCEPT ![h] = e] /\ call' = [call EXCEPT ![t] = c]
  BY <1>2
<1> HIDE DEF e, c
<1>4. h \in Handle /\ HandleTable[h].HType = "invalid" /\ h \in Nat
  BY HandleNat DEF GetFreeHandle, GetHandleInfo
<1>5. e = [HType |-> "device", DeviceAf |-> af, gen |-> regs + 1, chains |-> 0]
      /\ c = [op |-> "register", pc |-> 0, h |-> h, gen |-> 0, af |-> af, job |-> FALSE]
  <2>1. e = [HType |-> "device", DeviceAf |-> af, gen |-> regs + 1, chains |-> 0]
    BY <1>3, TakenForms
  <2>2. c = [op |-> "register", pc |-> 0, h |-> h, gen |-> 0, af |-> af, job |-> FALSE]
    <3>1. c = [NoCall EXCEPT !.op = "register", !.h = h, !.af = af]
      BY <1>3
    <3> QED BY <3>1, RegisterForm
  <2> QED BY <2>1, <2>2
<1>6. regs + 1 \in 0 .. MaxRegs /\ regs + 1 \in Nat /\ 0 \in 0 .. MaxAds
  BY <1>1, SdkConstants DEF IInv, Counters
<1>7. e \in HandleRecord /\ e.HType = "device" /\ e.DeviceAf = af /\ e.chains = 0
  BY <1>5, <1>6 DEF HandleRecord
<1>8. c \in CallRecord /\ c.op = "register" /\ c.h = h /\ c.af = af
  BY <1>4, <1>5 DEF CallRecord
<1>9. t \in Thread /\ t \notin Workers /\ t # Main /\ t # None
  BY ThreadParts, SdkConstants
<1>10. /\ call' \in [Thread -> CallRecord] /\ call'[t] = c
       /\ \A x \in Thread : x # t => call'[x] = call[x]
  BY <1>3, <1>8, <1>9, CallBecomes DEF IInv, CallsTyped
<1>11. /\ HandleTable' \in [Handle -> HandleRecord] /\ HandleTable'[h] = e
       /\ \A k \in Handle : k # h => HandleTable'[k] = HandleTable[k]
  BY <1>3, <1>4, <1>7, EntryBecomes DEF IInv, TypeOK, HandleRecord
<1>12. call[t].op = None /\ None \notin {"register", "unregister", "unregclient", "advertise", "request", "search", "reply"}
  BY <1>1 DEF NoCall, None
<1>13. \A x \in Thread : call[x].op # "register"
  BY <1>1, SdkConstants DEF IInv, LocksHeld
<1>14. CallsTyped'
  BY <1>4, <1>8, <1>9, <1>10, <1>12 DEF IInv, CallsTyped
<1>15. TypeOK' /\ Counters'
  BY <1>1, <1>6, <1>9, <1>11 DEF IInv, TypeOK, Counters, life, jobs, answers, HandleRecord
<1>16. LocksHeld'
  <2>1. \A x \in Thread : call'[x].op = "register" <=> x = t
    BY <1>8, <1>10, <1>13
  <2>2. \A x \in Thread : ~At(x, "unregister", 4) /\ ~At(x, "advertise", 2) /\ ~At(x, "reply", 2)
    BY <1>1 DEF IInv, LocksHeld
  <2>3. \A x \in Thread : ~At(x, "unregister", 4)' /\ ~At(x, "advertise", 2)' /\ ~At(x, "reply", 2)'
    BY <1>8, <1>10, <2>2 DEF At
  <2> QED BY <1>1, <1>9, <2>1, <2>3 DEF LocksHeld
<1>17. ~registered[af]
  BY <1>1 DEF IInv, Flags
<1>18. HandlesHeld'
  <2>1. \A x \in Thread : call[x].op \in Holding => call[x].h # h
    BY <1>4 DEF IInv, HandlesHeld, Holding
  <2>2. \A x \in Thread : call[x].op \in Holding => call[x].h \in Handle
    BY DEF IInv, CallsTyped, Holding
  <2>3. ASSUME NEW x \in Thread, NEW y \in Thread, x # y, call'[x].op \in Holding,
               call'[y].op \in Holding
        PROVE  call'[x].h # call'[y].h
    BY <1>8, <1>10, <2>1, <2>3 DEF IInv, HandlesHeld
  <2>4. \A x \in Thread : x # t /\ call'[x].op \in Holding =>
          HandleTable'[call'[x].h] = HandleTable[call[x].h] /\ call'[x] = call[x]
    BY <1>10, <1>11, <2>1, <2>2
  <2>5. registered' = registered
    BY <1>1
  <2> QED BY <1>7, <1>8, <1>10, <1>11, <1>13, <1>17, <2>3, <2>4, <2>5 DEF IInv, HandlesHeld, Holding
<1>19. Flags'
  <2>1. DevicesOf(af)' = {h}
    BY <1>1, <1>4, <1>7, <1>11 DEF DevicesOf, GetHandleInfo
  <2>2. \A f \in Family : f # af => DevicesOf(f)' = DevicesOf(f)
    BY <1>4, <1>7, <1>11 DEF DevicesOf, GetHandleInfo
  <2>3. registered' = registered
    BY <1>1
  <2>4. \A f \in Family : registered'[f] => DevicesOf(f)' # {}
    BY <2>1, <2>2, <2>3 DEF IInv, Flags
  <2>5. \A f \in Family : \A k, l \in DevicesOf(f)' : k = l
    BY <2>1, <2>2 DEF IInv, Flags
  <2>6. \A k \in Handle : HandleTable'[k].HType = "invalid" => HandleTable'[k] = Empty
    BY <1>7, <1>11 DEF IInv, Flags
  <2>7. ASSUME NEW k \in Handle, HandleTable'[k].HType = "device"
        PROVE  /\ HandleTable'[k].DeviceAf \in Family
               /\ \/ registered'[HandleTable'[k].DeviceAf]
                  \/ \E x \in Thread : call'[x].op = "register" /\ call'[x].h = k
    <3>1. CASE k = h
      BY <1>7, <1>8, <1>9, <1>10, <1>11, <3>1
    <3>2. CASE k # h
      BY <1>11, <1>13, <2>3, <2>7, <3>2 DEF IInv, Flags
    <3> QED BY <3>1, <3>2
  <2> QED BY <2>4, <2>5, <2>6, <2>7 DEF Flags
<1>20. ClientsCounted'
  <2>1. ClientHandles' = ClientHandles
    BY <1>4, <1>7, <1>11 DEF ClientHandles, GetHandleInfo
  <2> QED BY <1>1, <2>1 DEF IInv, ClientsCounted
<1>21. Stages'
  <2>1. "up" \notin Quiet \cup UnregStages \cup InitStages \cup LateStages \cup EndStages \cup Deaf
    BY DEF Quiet, Deaf, InitStages, LateStages, EndStages, UnregStages
  <2>2. stage' = "up" /\ UpnpSdkInit' = UpnpSdkInit /\ call'[Main] = call[Main]
    BY <1>1, <1>9, <1>10, ThreadParts DEF life
  <2> QED BY <1>1, <2>1, <2>2 DEF IInv, Stages
<1>22. Requests' /\ UpAtMost'
  <2>1. \A w \in Workers : call'[w] = call[w]
    BY <1>9, <1>10, ThreadParts
  <2> QED BY <1>1, <2>1 DEF IInv, Requests, UpAtMost, LeftOver, life, jobs
<1>23. AdsCounted'
  <2>1. \A k \in Handle : Advertising(Apps, k)' = Advertising(Apps, k)
    BY <1>8, <1>9, <1>10, <1>12, ThreadParts DEF Advertising
  <2>2. \A k \in Handle : HandleTable'[k].chains <= HandleTable[k].chains
                          /\ HandleTable'[k].chains \in Nat /\ HandleTable[k].chains \in Nat
    BY <1>7, <1>11 DEF IInv, TypeOK, HandleRecord
  <2>3. ads \in Nat /\ ads' = ads /\ regs' <= MaxRegs
    BY <1>1, SdkConstants DEF IInv, Counters
  <2>4. \A k \in Handle : HandleTable'[k].chains + Cardinality(Advertising(Apps, k)) <= ads
    BY <2>2, <2>3, AdvertisingFinite DEF IInv, AdsCounted
  <2> QED BY <2>1, <2>3, <2>4 DEF IInv, AdsCounted
<1> QED BY <1>14, <1>15, <1>16, <1>18, <1>19, <1>20, <1>21, <1>22, <1>23 DEF IInv

LEMMA RegisterEndIInv ==
  ASSUME IInv, NEW t \in Thread, NEW ok \in BOOLEAN, RegisterEnd(t, ok)
  PROVE  IInv'
<1> DEFINE h == call[t].h
           af == call[t].af
<1>1. /\ call[t].op = "register" /\ writer' = None /\ Return(t)
      /\ UNCHANGED <<life, clients, reading, jobs, failed, regs, ads>>
      /\ \/ registered' = [registered EXCEPT ![af] = TRUE] /\ HandleTable' = HandleTable
         \/ HandleTable' = [HandleTable EXCEPT ![h] = Empty] /\ registered' = registered
  BY DEF RegisterEnd, FreeHandle
<1>2. h \in Handle /\ af \in Family /\ t \in Apps
  BY <1>1 DEF IInv, CallsTyped
<1>3. HandleTable[h].HType = "device" /\ HandleTable[h].DeviceAf = af /\ ~registered[af]
  BY <1>1 DEF IInv, HandlesHeld
<1>4. /\ CallsTyped' /\ call'[t] = NoCall
      /\ \A x \in Thread : x # t => call'[x] = call[x]
  BY <1>1, CallReturns DEF IInv
<1>5. call'[t].op = None /\ None \notin {"register", "unregister", "unregclient", "advertise", "request", "search", "reply"}
  BY <1>4 DEF NoCall, None
<1>6. /\ HandleTable \in [Handle -> HandleRecord]
      /\ HandleTable' \in [Handle -> HandleRecord]
      /\ \A k \in Handle : k # h => HandleTable'[k] = HandleTable[k]
      /\ HandleTable'[h] \in {HandleTable[h], Empty}
  <2>1. HandleTable \in [Handle -> HandleRecord]
    BY DEF IInv, TypeOK, HandleRecord
  <2> HIDE DEF h, af
  <2> QED BY <1>1, <1>2, <2>1, EntryBecomes, EmptyTyped
<1>7. /\ registered' \in [Family -> BOOLEAN]
      /\ \A f \in Family : f # af => registered'[f] = registered[f]
      /\ registered'[af] <=> HandleTable'[h] = HandleTable[h]
  <2>1. registered \in [Family -> BOOLEAN]
    BY DEF IInv, TypeOK
  <2>2. HandleTable[h] # Empty
    BY <1>3, EmptyTyped
  <2>3. HandleTable'[h] = IF registered' = registered THEN Empty ELSE HandleTable[h]
    <3>1. registered' = [registered EXCEPT ![af] = TRUE] => registered' # registered
      BY <1>2, <1>3, <2>1
    <3> QED BY <1>1, <1>2, <1>6, <3>1
  <2> HIDE DEF h, af
  <2> QED BY <1>1, <1>2, <1>3, <2>1, <2>2, <2>3
<1>8. \A x \in Thread : x # t => call[x].op # "register"
  BY <1>1 DEF IInv, LocksHeld
<1>9. \A x \in Thread : x # t /\ call[x].op \in Holding => call[x].h # h /\ call[x].h \in Handle
  BY <1>1 DEF IInv, HandlesHeld, CallsTyped, Holding
<1> HIDE DEF h, af
<1>10. TypeOK' /\ Counters'
  BY <1>1, <1>6, <1>7 DEF IInv, TypeOK, Counters, HandleRecord, life, jobs, answers
<1>11. LocksHeld'
  <2>1. \A x \in Thread : call'[x].op # "register"
    BY <1>4, <1>5, <1>8
  <2>2. t \notin reading
    BY <1>1 DEF IInv, LocksHeld, At
  <2>3. \A x \in Thread : x \in reading' <=> At(x, "unregister", 4)' \/ At(x, "advertise", 2)' \/ At(x, "reply", 2)'
    BY <1>1, <1>4, <1>5, <2>2 DEF IInv, LocksHeld, At
  <2> QED BY <1>1, <2>1, <2>3 DEF LocksHeld
<1>12. HandlesHeld'
  <2>1. \A x \in Thread : call'[x].op \in Holding => x # t
    BY <1>5 DEF Holding
  <2>2. \A x \in Thread : call'[x].op \in Holding =>
          call'[x] = call[x] /\ HandleTable'[call[x].h] = HandleTable[call[x].h]
    BY <1>4, <1>6, <1>9, <2>1
  <2>3. \A f \in Family : registered[f] => registered'[f]
    BY <1>3, <1>7
  <2>4. \A k \in Handle : HandleTable[k].HType = "device" => HandleTable[k].DeviceAf \in Family
    BY DEF IInv, Flags
  <2>5. \A x \in Thread : call'[x].op # "register"
    BY <1>4, <1>5, <1>8
  <2> QED BY <1>9, <2>1, <2>2, <2>3, <2>4, <2>5 DEF IInv, HandlesHeld, Holding
<1>13. Flags'
  <2>1. \A f \in Family : DevicesOf(f)' \subseteq DevicesOf(f)
    BY <1>6, EmptyTyped DEF DevicesOf, GetHandleInfo
  <2>2. \A f \in Family : f # af => DevicesOf(f)' = DevicesOf(f)
    BY <1>3, <1>6, EmptyTyped DEF DevicesOf, GetHandleInfo
  <2>3. \A f \in Family : f = af /\ registered'[f] => h \in DevicesOf(f)'
    BY <1>2, <1>3, <1>7 DEF DevicesOf, GetHandleInfo
  <2>4. \A f \in Family : registered'[f] => DevicesOf(f)' # {}
    BY <1>7, <2>2, <2>3 DEF IInv, Flags
  <2>5. \A f \in Family : \A k, l \in DevicesOf(f)' : k = l
    BY <2>1 DEF IInv, Flags
  <2>6. \A k \in Handle : HandleTable'[k].HType = "invalid" => HandleTable'[k] = Empty
    BY <1>6 DEF IInv, Flags
  <2>7. ASSUME NEW k \in Handle, HandleTable'[k].HType = "device"
        PROVE  HandleTable'[k].DeviceAf \in Family /\ registered'[HandleTable'[k].DeviceAf]
    <3>1. CASE k = h
      BY <1>2, <1>3, <1>6, <1>7, <2>7, <3>1, EmptyTyped
    <3>2. CASE k # h
      <4>1. HandleTable'[k] = HandleTable[k]
        BY <1>6, <3>2
      <4>2. ~\E x \in Thread : call[x].op = "register" /\ call[x].h = k
        BY <1>8, <3>2 DEF h
      <4>3. HandleTable[k].DeviceAf \in Family /\ registered[HandleTable[k].DeviceAf]
        BY <2>7, <4>1, <4>2 DEF IInv, Flags
      <4> QED BY <1>3, <1>7, <4>1, <4>3
    <3> QED BY <3>1, <3>2
  <2> QED BY <2>4, <2>5, <2>6, <2>7 DEF Flags
<1>14. ClientsCounted'
  <2>1. ClientHandles' = ClientHandles
    BY <1>2, <1>3, <1>6, EmptyTyped DEF ClientHandles, GetHandleInfo
  <2> QED BY <1>1, <2>1 DEF IInv, ClientsCounted
<1>15. Stages'
  <2>1. "up" \notin Quiet \cup UnregStages \cup InitStages \cup LateStages \cup EndStages \cup Deaf
    BY DEF Quiet, Deaf, InitStages, LateStages, EndStages, UnregStages
  <2>2. stage = "up"
    BY <1>1, <1>2, <1>5 DEF IInv, Stages, NoCall
  <2>3. stage' = "up" /\ UpnpSdkInit' = UpnpSdkInit /\ (call[Main] = NoCall => call'[Main] = NoCall)
    BY <1>1, <1>4, <2>2, ThreadParts DEF life
  <2> QED BY <1>1, <2>1, <2>2, <2>3 DEF IInv, Stages
<1>16. Requests' /\ UpAtMost'
  <2>1. \A w \in Workers : call'[w] = call[w]
    BY <1>2, <1>4, ThreadParts
  <2> QED BY <1>1, <2>1 DEF IInv, Requests, UpAtMost, LeftOver, life, jobs
<1>17. AdsCounted'
  <2>1. \A k \in Handle : Advertising(Apps, k)' = Advertising(Apps, k)
    BY <1>1, <1>4, <1>5, ThreadParts DEF Advertising
  <2>2. \A k \in Handle : HandleTable'[k].chains <= HandleTable[k].chains
                          /\ HandleTable'[k].chains \in Nat /\ HandleTable[k].chains \in Nat
    BY <1>6, EmptyTyped DEF HandleRecord
  <2>3. ads \in Nat /\ ads' = ads /\ regs' = regs
    BY <1>1 DEF IInv, Counters
  <2>4. \A k \in Handle : HandleTable'[k].chains + Cardinality(Advertising(Apps, k)) <= ads
    BY <2>2, <2>3, AdvertisingFinite DEF IInv, AdsCounted
  <2> QED BY <2>1, <2>3, <2>4 DEF IInv, AdsCounted
<1> QED BY <1>4, <1>10, <1>11, <1>12, <1>13, <1>14, <1>15, <1>16, <1>17 DEF IInv

\* An unregistration frees its handle and returns.  The flag of the family of a
\* device is cleared.
FlagCleared(h) ==
  /\ registered' \in [Family -> BOOLEAN]
  /\ \A f \in Family : registered'[f] <=> /\ registered[f]
                                          /\ ~(HandleTable[h].HType = "device" /\ HandleTable[h].DeviceAf = f)

LEMMA FreesIInv ==
  ASSUME IInv, NEW t \in Thread, NEW h, h = call[t].h, call[t].op \in {"unregister", "unregclient"},
         writer = None, reading = {}, Return(t), FreeHandle(h), FlagCleared(h),
         clients' \in Nat, ClientsCounted',
         UNCHANGED <<life, writer, reading, jobs, failed, regs, ads>>
  PROVE  IInv'
<1>1. h \in Handle /\ t \notin Workers
  BY ThreadParts DEF IInv, CallsTyped
<1>2. /\ CallsTyped' /\ call'[t] = NoCall
      /\ \A x \in Thread : x # t => call'[x] = call[x]
  BY CallReturns DEF IInv
<1>3. call'[t].op = None /\ None \notin {"register", "unregister", "unregclient", "advertise", "request", "search", "reply"}
  BY <1>2 DEF NoCall, None
<1>4. /\ HandleTable \in [Handle -> HandleRecord]
      /\ HandleTable' \in [Handle -> HandleRecord]
      /\ \A k \in Handle : k # h => HandleTable'[k] = HandleTable[k]
      /\ HandleTable'[h] = Empty
  <2>1. HandleTable \in [Handle -> HandleRecord]
    BY DEF IInv, TypeOK, HandleRecord
  <2>2. HandleTable' = [HandleTable EXCEPT ![h] = Empty]
    BY DEF FreeHandle
  <2> QED BY <1>1, <2>1, <2>2, EntryBecomes, EmptyTyped
<1>5. \A x \in Thread : call[x].op # "register"
  BY SdkConstants DEF IInv, LocksHeld
<1>6. \A x \in Thread : x # t /\ call[x].op \in Holding => call[x].h # h /\ call[x].h \in Handle
  BY DEF IInv, HandlesHeld, CallsTyped, Holding
<1>7. TypeOK' /\ Counters'
  BY <1>4 DEF IInv, TypeOK, Counters, HandleRecord, life, jobs, answers, FlagCleared
<1>8. LocksHeld'
  <2>1. \A x \in Thread : call'[x].op # "register"
    BY <1>2, <1>3, <1>5
  <2>2. \A x \in Thread : x \in reading' <=> At(x, "unregister", 4)' \/ At(x, "advertise", 2)' \/ At(x, "reply", 2)'
    BY <1>2, <1>3 DEF IInv, LocksHeld, At
  <2> QED BY <2>1, <2>2 DEF LocksHeld
<1>9. \A k \in Handle : k # h /\ HandleTable[k].HType = "device" =>
        HandleTable[k].DeviceAf \in Family /\ registered'[HandleTable[k].DeviceAf]
  <2> SUFFICES ASSUME NEW k \in Handle, k # h, HandleTable[k].HType = "device"
               PROVE  HandleTable[k].DeviceAf \in Family /\ registered'[HandleTable[k].DeviceAf]
    OBVIOUS
  <2>1. HandleTable[k].DeviceAf \in Family /\ registered[HandleTable[k].DeviceAf]
    BY <1>5 DEF IInv, Flags
  <2>2. ~(HandleTable[h].HType = "device" /\ HandleTable[h].DeviceAf = HandleTable[k].DeviceAf)
    BY <1>1, <2>1 DEF IInv, Flags, DevicesOf, GetHandleInfo
  <2> QED BY <2>1, <2>2 DEF FlagCleared
<1>10. HandlesHeld'
  <2>1. \A x \in Thread : call'[x].op \in Holding => x # t
    BY <1>3 DEF Holding
  <2>2. \A x \in Thread : call'[x].op \in Holding =>
          call'[x] = call[x] /\ HandleTable'[call[x].h] = HandleTable[call[x].h]
    BY <1>2, <1>4, <1>6, <2>1
  <2>3. \A x \in Thread : call'[x].op # "register"
    BY <1>2, <1>3, <1>5
  <2> QED BY <1>6, <1>9, <2>1, <2>2, <2>3 DEF IInv, HandlesHeld, Holding
<1>11. Flags'
  <2>1. \A f : DevicesOf(f)' \subseteq DevicesOf(f)
    BY <1>4, EmptyTyped DEF DevicesOf, GetHandleInfo
  <2>2. \A f \in Family : registered'[f] => DevicesOf(f)' = DevicesOf(f) /\ registered[f]
    BY <1>4, EmptyTyped DEF DevicesOf, GetHandleInfo, FlagCleared
  <2>3. \A f \in Family : registered'[f] => DevicesOf(f)' # {}
    BY <2>2 DEF IInv, Flags
  <2>4. \A f \in Family : \A k, l \in DevicesOf(f)' : k = l
    BY <2>1 DEF IInv, Flags
  <2>5. \A k \in Handle : HandleTable'[k].HType = "invalid" => HandleTable'[k] = Empty
    BY <1>4 DEF IInv, Flags
  <2>6. \A k \in Handle : HandleTable'[k].HType = "device" =>
          HandleTable'[k].DeviceAf \in Family /\ registered'[HandleTable'[k].DeviceAf]
    BY <1>4, <1>9, EmptyTyped
  <2> QED BY <2>3, <2>4, <2>5, <2>6 DEF Flags
<1>12. Stages'
  <2>1. \A x \in Thread : call[x] = NoCall => call'[x] = NoCall
    BY <1>2
  <2>2. \A f : DevicesOf(f)' \subseteq DevicesOf(f)
    BY <1>4, EmptyTyped DEF DevicesOf, GetHandleInfo
  <2>3. \A k \in Handle : HandleTable[k] = Empty => HandleTable'[k] = Empty
    BY <1>4
  <2>4. UNCHANGED <<stage, UpnpSdkInit, timers, adJobs, replies, replyJobs, req>>
    BY DEF life, jobs, answers
  <2>5. \A x \in Receivers : At(x, "search", 2)' => At(x, "search", 2)
    BY <1>2, <1>3, ThreadParts DEF At
  <2> QED BY <2>1, <2>2, <2>3, <2>4, <2>5, ThreadParts DEF IInv, Stages
<1>13. Requests' /\ UpAtMost'
  <2>1. \A w \in Workers : call'[w] = call[w]
    BY <1>1, <1>2, ThreadParts
  <2> QED BY <2>1 DEF IInv, Requests, UpAtMost, LeftOver, life, jobs
<1>14. AdsCounted'
  <2>1. \A k \in Handle : Advertising(Apps, k)' = Advertising(Apps, k)
    BY <1>2, <1>3, ThreadParts DEF Advertising
  <2>2. \A k \in Handle : HandleTable'[k].chains <= HandleTable[k].chains
                          /\ HandleTable'[k].chains \in Nat /\ HandleTable[k].chains \in Nat
    BY <1>4, EmptyTyped DEF HandleRecord
  <2>3. ads \in Nat /\ ads' = ads /\ regs' = regs
    BY DEF IInv, Counters
  <2>4. \A k \in Handle : HandleTable'[k].chains + Cardinality(Advertising(Apps, k)) <= ads
    BY <2>2, <2>3, AdvertisingFinite DEF IInv, AdsCounted
  <2> QED BY <2>1, <2>3, <2>4 DEF IInv, AdsCounted
<1> QED BY <1>2, <1>7, <1>8, <1>10, <1>11, <1>12, <1>13, <1>14 DEF IInv

LEMMA UnRegisterFreeIInv ==
  ASSUME IInv, NEW t \in Thread, UnRegisterFree(t)
  PROVE  IInv'
<1> SUFFICES ASSUME NEW h, h = call[t].h PROVE IInv'
  OBVIOUS
<1>1. /\ call[t].op = "unregister" /\ writer = None /\ reading = {} /\ Return(t)
      /\ UNCHANGED <<life, clients, writer, reading, jobs, failed, regs, ads>>
  BY DEF UnRegisterFree, At, WriteLock
<1>2. h \in Handle /\ HandleTable[h].HType = "device"
  BY <1>1 DEF IInv, CallsTyped, HandlesHeld
<1>3. FreeHandle(h) /\ registered' = Unflagged(HandleTable[h].DeviceAf)
  BY <1>2 DEF UnRegisterFree, GetHandleInfo
<1>4. FlagCleared(h)
  BY <1>2, <1>3 DEF FlagCleared, Unflagged, IInv, TypeOK
<1>5. ClientsCounted' /\ clients' \in Nat
  <2>1. HandleTable' = [HandleTable EXCEPT ![h] = Empty]
    BY <1>3 DEF FreeHandle
  <2>2. ClientHandles' = ClientHandles
    BY <1>2, <2>1, EmptyTyped DEF ClientHandles, GetHandleInfo, IInv, TypeOK
  <2> QED BY <1>1, <2>2 DEF IInv, ClientsCounted, TypeOK
<1> QED BY <1>1, <1>3, <1>4, <1>5, FreesIInv

LEMMA ClientsFinite == IsFiniteSet(ClientHandles) /\ Cardinality(ClientHandles) \in Nat
<1>1. IsFiniteSet(Handle)
  BY SdkConstants, FS_Interval DEF Handle
<1> QED BY <1>1, FS_Subset, FS_CardinalityType DEF ClientHandles

LEMMA UnRegisterClientFreeIInv ==
  ASSUME IInv, NEW t \in Thread, UnRegisterClientFree(t)
  PROVE  IInv'
<1> SUFFICES ASSUME NEW h, h = call[t].h PROVE IInv'
  OBVIOUS
<1>1. /\ call[t].op = "unregclient" /\ writer = None /\ reading = {} /\ Return(t)
      /\ UNCHANGED <<life, registered, writer, reading, jobs, failed, regs, ads>>
  BY DEF UnRegisterClientFree, At, WriteLock
<1>2. h \in Handle /\ HandleTable[h].HType = "client"
  BY <1>1 DEF IInv, CallsTyped, HandlesHeld
<1>3. FreeHandle(h) /\ clients' = clients - 1
  BY <1>2 DEF UnRegisterClientFree, GetHandleInfo, Uncounted
<1>4. FlagCleared(h)
  BY <1>1, <1>2 DEF FlagCleared, IInv, TypeOK
<1>5. ClientsCounted' /\ clients' \in Nat
  <2>1. HandleTable' = [HandleTable EXCEPT ![h] = Empty]
    BY <1>3 DEF FreeHandle
  <2>2. ClientHandles' = ClientHandles \ {h} /\ h \in ClientHandles
    BY <1>2, <2>1, EmptyTyped DEF ClientHandles, GetHandleInfo, IInv, TypeOK
  <2>3. Cardinality(ClientHandles \ {h}) = Cardinality(ClientHandles) - 1
    BY <2>2, ClientsFinite, FS_RemoveElement
  <2>4. Cardinality(ClientHandles \ {h}) \in Nat
    BY ClientsFinite, FS_RemoveElement, FS_CardinalityType
  <2> QED BY <1>3, <2>2, <2>3, <2>4 DEF IInv, ClientsCounted
<1> QED BY <1>1, <1>3, <1>4, <1>5, FreesIInv

LEMMA UpnpRegisterClientIInv ==
  ASSUME IInv, NEW t \in Apps, UpnpRegisterClient(t)
  PROVE  IInv'
<1>1. /\ stage = "up" /\ writer = None /\ regs < MaxRegs
      /\ clients' = clients + 1 /\ regs' = regs + 1
      /\ UNCHANGED <<life, registered, writer, reading, call, jobs, failed, ads>>
  BY DEF UpnpRegisterClient, Open, WriteLock
<1>2. PICK h \in GetFreeHandle :
        HandleTable' = [HandleTable EXCEPT ![h] = [Empty EXCEPT !.HType = "client", !.gen = regs + 1]]
  BY DEF UpnpRegisterClient
<1> DEFINE e == [Empty EXCEPT !.HType = "client", !.gen = regs + 1]
<1>3. /\ e = [Empty EXCEPT !.HType = "client", !.gen = regs + 1]
      /\ HandleTable' = [HandleTable EXCEPT ![h] = e]
  BY <1>2
<1> HIDE DEF e
<1>4. h \in Handle /\ HandleTable[h].HType = "invalid"
  BY DEF GetFreeHandle, GetHandleInfo
<1>5. e = [HType |-> "client", DeviceAf |-> None, gen |-> regs + 1, chains |-> 0]
  BY <1>3, TakenForms
<1>6. regs + 1 \in 0 .. MaxRegs /\ regs + 1 \in Nat /\ 0 \in 0 .. MaxAds /\ regs + 1 <= MaxRegs
  BY <1>1, SdkConstants DEF IInv, Counters
<1>7. e \in HandleRecord /\ e.HType = "client" /\ e.chains = 0
  BY <1>5, <1>6 DEF HandleRecord
<1>8. /\ HandleTable' \in [Handle -> HandleRecord] /\ HandleTable'[h] = e
      /\ \A k \in Handle : k # h => HandleTable'[k] = HandleTable[k]
  BY <1>3, <1>4, <1>7, EntryBecomes DEF IInv, TypeOK, HandleRecord
<1>9. CallsTyped' /\ LocksHeld'
  BY <1>1 DEF IInv, CallsTyped, LocksHeld, At
<1>10. TypeOK' /\ Counters'
  BY <1>1, <1>6, <1>8 DEF IInv, TypeOK, Counters, life, jobs, answers, HandleRecord
<1>11. HandlesHeld'
  <2>1. \A x \in Thread : call[x].op \in Holding => call[x].h # h /\ call[x].h \in Handle
    BY <1>4 DEF IInv, HandlesHeld, CallsTyped, Holding
  <2>2. \A x \in Thread : call[x].op \in Holding => HandleTable'[call[x].h] = HandleTable[call[x].h]
    BY <1>8, <2>1
  <2> QED BY <1>1, <2>2 DEF IInv, HandlesHeld, Holding
<1>12. \A f : DevicesOf(f)' = DevicesOf(f)
  BY <1>4, <1>7, <1>8 DEF DevicesOf, GetHandleInfo
<1>13. Flags'
  BY <1>1, <1>7, <1>8, <1>12 DEF IInv, Flags
<1>14. ClientsCounted'
  <2>1. ClientHandles' = ClientHandles \cup {h} /\ h \notin ClientHandles
    BY <1>4, <1>7, <1>8 DEF ClientHandles, GetHandleInfo
  <2>2. Cardinality(ClientHandles \cup {h}) = Cardinality(ClientHandles) + 1
    BY <2>1, ClientsFinite, FS_AddElement
  <2> QED BY <1>1, <2>1, <2>2 DEF IInv, ClientsCounted
<1>15. Stages'
  <2>1. "up" \notin Quiet \cup UnregStages \cup InitStages \cup LateStages \cup EndStages \cup Deaf
    BY DEF Quiet, Deaf, InitStages, LateStages, EndStages, UnregStages
  <2>2. stage' = "up" /\ UpnpSdkInit' = UpnpSdkInit /\ call' = call
    BY <1>1 DEF life
  <2> QED BY <1>1, <2>1, <2>2 DEF IInv, Stages
<1>16. Requests' /\ UpAtMost'
  BY <1>1 DEF IInv, Requests, UpAtMost, LeftOver, life, jobs
<1>17. AdsCounted'
  <2>1. \A k \in Handle : Advertising(Apps, k)' = Advertising(Apps, k)
    BY <1>1 DEF Advertising
  <2>2. \A k \in Handle : HandleTable'[k].chains <= HandleTable[k].chains
                          /\ HandleTable'[k].chains \in Nat /\ HandleTable[k].chains \in Nat
    BY <1>7, <1>8 DEF IInv, TypeOK, HandleRecord
  <2>3. ads \in Nat /\ ads' = ads /\ regs' <= MaxRegs
    BY <1>1, <1>6 DEF IInv, Counters
  <2>4. \A k \in Handle : HandleTable'[k].chains + Cardinality(Advertising(Apps, k)) <= ads
    BY <2>2, <2>3, AdvertisingFinite DEF IInv, AdsCounted
  <2> QED BY <2>1, <2>3, <2>4 DEF IInv, AdsCounted
<1> QED BY <1>9, <1>10, <1>11, <1>13, <1>14, <1>15, <1>16, <1>17 DEF IInv

LEMMA ScheduleAdvertisementIInv ==
  ASSUME IInv, NEW t \in Thread, ScheduleAdvertisement(t)
  PROVE  IInv'
<1> SUFFICES ASSUME NEW h, h = call[t].h PROVE IInv'
  OBVIOUS
<1>1. /\ call[t].op = "advertise" /\ call[t].pc = 3 /\ writer = None /\ reading = {} /\ Return(t)
      /\ UNCHANGED <<life, registered, clients, writer, reading, adJobs, req, params, answers, regs, ads>>
      /\ failed' = failed \/ failed' = failed \cup {"schedule"}
  BY DEF ScheduleAdvertisement, At, WriteLock
<1>2. /\ h \in Handle /\ t \in Apps \cup Workers
      /\ (call[t].job <=> t \in Workers) /\ call[t].job \in BOOLEAN
  BY <1>1 DEF IInv, CallsTyped, CallRecord
<1>3. CASE timers' = timers /\ HandleTable' = HandleTable
  <2>1. failed \subseteq failed' /\ failed' \subseteq {"pools", "schedule", "full"}
        /\ reading' = reading \ {t}
    BY <1>1 DEF IInv, TypeOK
  <2>2. call[t].op \notin {"register", "request"}
    BY <1>1
  <2> QED BY <1>1, <1>3, <2>1, <2>2, ReturnsIInv DEF table, jobs
<1>4. CASE ~(timers' = timers /\ HandleTable' = HandleTable)
  <2>0. HandleTable[h].HType = "device" /\ failed' = failed
    BY <1>4 DEF ScheduleAdvertisement, StillDevice, GetHandleInfo
  <2> DEFINE n == IF call[t].job THEN HandleTable[h].chains ELSE HandleTable[h].chains + 1
  <2>1. /\ timers' = [timers EXCEPT ![h] = @ + 1]
        /\ HandleTable' = [HandleTable EXCEPT ![h].chains = IF call[t].job THEN @ ELSE @ + 1]
    BY <1>4 DEF ScheduleAdvertisement, Scheduled
  <2>2. /\ CallsTyped' /\ call'[t] = NoCall
        /\ \A x \in Thread : x # t => call'[x] = call[x]
    BY <1>1, CallReturns DEF IInv
  <2>3. call'[t].op = None /\ None \notin {"register", "unregister", "unregclient", "advertise", "request", "search", "reply"}
    BY <2>2 DEF NoCall, None
  <2>4. timers' \in [Handle -> Nat]
    BY <1>2, <2>1 DEF IInv, TypeOK
  <2>5. HandleTable \in [Handle -> HandleRecord]
    BY DEF IInv, TypeOK, HandleRecord
  <2>6. /\ \A k \in Handle : /\ k # h => HandleTable'[k] = HandleTable[k]
                             /\ HandleTable'[k].HType = HandleTable[k].HType
                             /\ HandleTable'[k].DeviceAf = HandleTable[k].DeviceAf
                             /\ HandleTable'[k].gen = HandleTable[k].gen
        /\ HandleTable'[h].chains = n
    BY <1>2, <2>1, <2>5 DEF HandleRecord
  <2>7. \A k \in Handle : HandleTable'[k].chains + Cardinality(Advertising(Apps, k)') <= ads
    <3> SUFFICES ASSUME NEW k \in Handle
                 PROVE  HandleTable'[k].chains + Cardinality(Advertising(Apps, k)') <= ads
      OBVIOUS
    <3>1. HandleTable[k].chains + Cardinality(Advertising(Apps, k)) <= ads
          /\ HandleTable[k].chains \in Nat /\ ads \in Nat
      BY DEF IInv, AdsCounted, TypeOK, Counters
    <3>2. CASE k = h /\ t \in Apps
      <4>1. Advertising(Apps, k)' = Advertising(Apps, k) \ {t} /\ t \in Advertising(Apps, k)
        BY <1>1, <2>2, <2>3, <3>2, ThreadParts DEF Advertising
      <4>2. Cardinality(Advertising(Apps, k) \ {t}) = Cardinality(Advertising(Apps, k)) - 1
        BY <4>1, AdvertisingFinite, FS_RemoveElement
      <4>3. HandleTable'[k].chains = HandleTable[k].chains + 1
        BY <1>2, <2>6, <3>2, ThreadParts
      <4> QED BY <3>1, <4>1, <4>2, <4>3, AdvertisingFinite
    <3>3. CASE ~(k = h /\ t \in Apps)
      <4>1. Advertising(Apps, k)' = Advertising(Apps, k)
        BY <1>1, <2>2, <2>3, <3>3, ThreadParts DEF Advertising
      <4>2. HandleTable'[k].chains = HandleTable[k].chains
        BY <1>2, <2>6, <3>3
      <4> QED BY <3>1, <4>1, <4>2
    <3> QED BY <3>2, <3>3
  <2>8. n \in 0 .. MaxAds
    <3>1. n \in Nat /\ ads <= MaxAds /\ ads \in Nat /\ MaxAds \in Nat
      BY <1>2, <2>5, SdkConstants DEF HandleRecord, IInv, AdsCounted, Counters
    <3>2. /\ IsFiniteSet(Advertising(Apps, h)')
          /\ Cardinality(Advertising(Apps, h)') \in Nat
      <4>1. Advertising(Apps, h)' \subseteq Apps
        BY DEF Advertising
      <4> QED BY <4>1, SdkConstants, FS_Subset, FS_CardinalityType
    <3>3. n + Cardinality(Advertising(Apps, h)') <= ads
      BY <1>2, <2>6, <2>7
    <3> HIDE DEF n
    <3> QED BY <3>1, <3>2, <3>3
  <2>9. HandleTable' \in [Handle -> HandleRecord]
    <3>1. HandleTable' = [HandleTable EXCEPT ![h] = [HandleTable[h] EXCEPT !.chains = n]]
      BY <2>1
    <3> HIDE DEF n
    <3>2. [HandleTable[h] EXCEPT !.chains = n] \in HandleRecord
      BY <1>2, <2>5, <2>8 DEF HandleRecord
    <3> QED BY <1>2, <2>5, <3>1, <3>2
  <2> HIDE DEF n
  <2>10. TypeOK' /\ Counters'
    BY <1>1, <2>0, <2>4, <2>9 DEF IInv, TypeOK, Counters, life, answers, HandleRecord
  <2>11. LocksHeld'
    BY <1>1, <2>2, <2>3 DEF IInv, LocksHeld, At
  <2>12. HandlesHeld'
    <3>1. \A x \in Thread : call'[x].op \in Holding => x # t /\ call'[x] = call[x]
      BY <2>2, <2>3 DEF Holding
    <3>2. \A x \in Thread : call[x].op \in Holding => call[x].h \in Handle
      BY DEF IInv, CallsTyped, Holding
    <3>3. registered' = registered
      BY <1>1
    <3> QED BY <2>6, <3>1, <3>2, <3>3 DEF IInv, HandlesHeld, Holding
  <2>13. \A f : DevicesOf(f)' = DevicesOf(f)
    BY <2>6 DEF DevicesOf, GetHandleInfo
  <2>14. Flags'
    <3>1. \A x \in Thread : call[x].op # "register"
      BY <1>1, SdkConstants DEF IInv, LocksHeld
    <3>2. \A k \in Handle : HandleTable'[k].HType = "invalid" => HandleTable'[k] = Empty
      BY <2>0, <2>6 DEF IInv, Flags
    <3> QED BY <1>1, <2>6, <2>13, <3>1, <3>2 DEF IInv, Flags
  <2>15. ClientsCounted'
    <3>1. ClientHandles' = ClientHandles
      BY <2>6 DEF ClientHandles, GetHandleInfo
    <3> QED BY <1>1, <3>1 DEF IInv, ClientsCounted
  <2>16. Stages'
    <3>1. stage \notin Quiet /\ InitStages \cup LateStages \subseteq Quiet
      BY <1>2, <2>0, EmptyTyped DEF IInv, Stages, Quiet
    <3>2. \A x \in Thread : call[x] = NoCall => call'[x] = NoCall
      BY <2>2
    <3>3. UNCHANGED <<stage, UpnpSdkInit, adJobs, replies, replyJobs, req>>
      BY <1>1 DEF life, answers
    <3>4. stage \in Deaf => \A x \in Receivers : call'[x] = NoCall
      BY <3>2, ThreadParts DEF IInv, Stages
    <3> QED BY <2>13, <3>1, <3>2, <3>3, <3>4, ThreadParts DEF IInv, Stages
  <2>17. Requests' /\ UpAtMost'
    <3>1. \A x \in Thread : /\ call[x].op = "request" => call'[x] = call[x]
                            /\ call'[x].op = "request" => call'[x] = call[x]
      BY <1>1, <2>2, <2>3
    <3> QED BY <1>1, <2>0, <3>1, ThreadParts DEF IInv, Requests, UpAtMost, LeftOver, life
  <2>18. AdsCounted'
    BY <1>1, <2>7 DEF IInv, AdsCounted
  <2> QED BY <2>2, <2>10, <2>11, <2>12, <2>14, <2>15, <2>16, <2>17, <2>18 DEF IInv
<1> QED BY <1>3, <1>4

-----------------------------------------------------------------------------
(* The invariant *)

LEMMA InitIInv ==
  ASSUME Init
  PROVE  IInv
<1> USE DEF Init
<1>1. NoCall.op = None /\ None \notin {"register", "unregister", "unregclient", "advertise", "request", "search", "reply"}
  BY DEF NoCall, None
<1>2. call \in [Thread -> CallRecord] /\ \A t \in Thread : call[t] = NoCall
  BY NoCallTyped
<1>3. HandleTable \in [Handle -> HandleRecord] /\ \A h \in Handle : HandleTable[h] = Empty
  BY EmptyTyped
<1>4. TypeOK /\ Counters
  BY <1>3, SdkConstants DEF TypeOK, Counters, HandleRecord, Family
<1>5. CallsTyped /\ LocksHeld /\ HandlesHeld
  <2>1. \A t \in Thread : call[t].op = None
    BY <1>1, <1>2
  <2> QED BY <1>1, <1>2, <2>1 DEF CallsTyped, LocksHeld, HandlesHeld, Holding, At
<1>6. \A af : DevicesOf(af) = {}
  BY <1>3, EmptyTyped DEF DevicesOf, GetHandleInfo
<1>7. Flags
  BY <1>3, <1>6, EmptyTyped DEF Flags
<1>8. ClientsCounted
  <2>1. ClientHandles = {}
    BY <1>3, EmptyTyped DEF ClientHandles, GetHandleInfo
  <2> QED BY <2>1, FS_EmptySet DEF ClientsCounted
<1>9. Stages
  BY <1>2, <1>3, <1>6, ThreadParts DEF Stages, Quiet, Deaf, InitStages, LateStages, EndStages, UnregStages, None, At
<1>10. Requests /\ UpAtMost
  BY <1>1, <1>2, ThreadParts DEF Requests, UpAtMost, LeftOver, None
<1>11. AdsCounted
  <2>1. \A h \in Handle : Advertising(Apps, h) = {}
    BY <1>1, <1>2, ThreadParts DEF Advertising
  <2>2. MaxAds \in Nat /\ MaxRegs \in Nat /\ ads = 0 /\ regs = 0
    BY SdkConstants
  <2>3. \A h \in Handle : HandleTable[h].chains = 0 /\ Cardinality(Advertising(Apps, h)) = 0
    BY <1>3, <2>1, EmptyTyped, FS_EmptySet
  <2> QED BY <2>2, <2>3 DEF AdsCounted
<1> QED BY <1>4, <1>5, <1>7, <1>8, <1>9, <1>10, <1>11 DEF IInv

\* Whatever thread goes on with its call.
LEMMA UnregisterIInv ==
  ASSUME IInv, NEW t \in Thread, Unregister(t)
  PROVE  IInv'
BY UnRegisterSectionIInv, UnRegisterByebyeIInv, UnRegisterByebyeEndIInv, UnRegisterFreeIInv,
   UnRegisterClientCheckIInv, UnRegisterClientFreeIInv DEF Unregister

LEMMA AdvertiseIInv ==
  ASSUME IInv, NEW t \in Thread, Advertise(t)
  PROVE  IInv'
BY SendAdvertisementAliveIInv, SendAdvertisementSentIInv, ScheduleAdvertisementIInv DEF Advertise

LEMMA RegisterIInv ==
  ASSUME IInv, DevicesPerFamily <= 1, NEW t \in Apps, Register(t)
  PROVE  IInv'
BY RegisterBeginIInv, UpnpRegisterClientIInv
   DEF Register, UpnpRegisterRootDevice, UpnpRegisterRootDevice2, UpnpRegisterRootDevice3,
       UpnpRegisterRootDevice4, Family

LEMMA NextIInv ==
  ASSUME IInv, DevicesPerFamily <= 1, [Next]_vars
  PROVE  IInv'
<1>1. CASE UpnpInit2 \/ UpnpInitStage \/ UpnpInitThreadPoolsFails \/ UpnpInitFails
  BY <1>1, UpnpInit2IInv, UpnpInitStageIInv, UpnpInitThreadPoolsFailsIInv, FinishBeginsIInv
<1>2. ASSUME NEW t \in Apps, Register(t) \/ CallStep(t)
      PROVE  IInv'
  BY <1>2, RegisterIInv, RegisterEndIInv, UnregisterIInv, AdvertiseIInv, ReplyIInv, SearchIInv,
     ThreadParts DEF CallStep
<1>3. ASSUME NEW t \in Apps, NEW h \in Handle,
             \/ UpnpUnRegisterRootDevice(t, h) \/ UpnpUnRegisterClient(t, h)
             \/ UpnpSendAdvertisement(t, h) \/ Async(t, h)
      PROVE  IInv'
  <2>1. Async(t, h) => AsyncCall(t, h)
    BY DEF Async, UpnpSubscribeAsync, UpnpUnSubscribeAsync, UpnpRenewSubscriptionAsync,
           UpnpSendActionAsync, UpnpSendActionExAsync, UpnpGetServiceVarStatusAsync
  <2> QED BY <1>3, <2>1, UpnpUnRegisterRootDeviceIInv, UpnpUnRegisterClientIInv,
             UpnpSendAdvertisementIInv, AsyncCallIInv
<1>4. ASSUME NEW h \in Handle, AdvertisementDue(h) \/ ReplyDue(h)
      PROVE  IInv'
  BY <1>4, AdvertisementDueIInv, ReplyDueIInv
<1>5. ASSUME NEW w \in Workers, WorkerStep(w)
      PROVE  IInv'
  BY <1>5, AutoAdvertiseIInv, AdvertiseIInv, ReplyStartIInv, ReplyIInv, UpnpThreadDistributionIInv,
     DistributionDoneIInv, ThreadParts DEF WorkerStep
<1>8. ASSUME NEW r \in Receivers, Search(r) \/ \E af \in Family : SearchArrives(r, af)
      PROVE  IInv'
  BY <1>8, SearchIInv, SearchArrivesIInv, ThreadParts
<1>6. CASE UpnpFinish \/ MainStep
  BY <1>6, FinishBeginsIInv, FinishUnregisterIInv, FinishStepIInv, UnregisterIInv, ThreadParts
     DEF MainStep
<1>7. CASE UNCHANGED vars
  <2>1. UNCHANGED <<life, table, writer, reading, call, timers, adJobs, replies, replyJobs, req, params,
                    failed, regs, ads>>
    BY <1>7 DEF vars, jobs, answers
  <2>2. CallsTyped' /\ TypeOK' /\ Requests' /\ Stages'
    BY <2>1 DEF IInv, CallsTyped, TypeOK, Requests, Stages, life, table, DevicesOf, GetHandleInfo, At
  <2> QED BY <2>1, <2>2, JobsIInv
<1> QED BY <1>1, <1>2, <1>3, <1>4, <1>5, <1>6, <1>7, <1>8 DEF Next

LEMMA Invariant ==
  ASSUME DevicesPerFamily <= 1
  PROVE  Spec => []IInv
<1>1. IInv /\ [Next]_vars => IInv'
  BY NextIInv
<1> QED BY <1>1, InitIInv, PTL DEF Spec

-----------------------------------------------------------------------------
(* The theorems *)

\* The flag by which GetDeviceHandleInfo looks a family's device up is set exactly
\* when the table has one, and UpnpSdkClientRegistered is the number of control
\* points in it, whatever calls of whatever threads, jobs of the pool, failures and
\* restarts there were: for an application that has one root device of a family at
\* a time, which is what one flag per family allows.
THEOREM TableKept ==
  ASSUME DevicesPerFamily <= 1
  PROVE  Spec => []TableRight
<1>1. ASSUME IInv PROVE TableRight
  <2>1. FlagsMatchTable
    <3> SUFFICES ASSUME writer = None, NEW af \in Family
                 PROVE  registered[af] <=> DevicesOf(af) # {}
      BY DEF FlagsMatchTable
    <3>1. \A x \in Thread : call[x].op # "register"
      BY <1>1, SdkConstants DEF IInv, LocksHeld
    <3>2. ASSUME NEW h \in DevicesOf(af) PROVE registered[af]
      BY <1>1, <3>1 DEF IInv, Flags, DevicesOf, GetHandleInfo
    <3>3. registered[af] => DevicesOf(af) # {}
      BY <1>1 DEF IInv, Flags
    <3> QED BY <3>2, <3>3
  <2> QED BY <1>1, <2>1 DEF IInv, TableRight
<1>2. IInv => TableRight
  BY <1>1
<1> QED BY <1>2, Invariant, PTL

\* However the SDK came down, by UpnpFinish, by a stage of UpnpInit2 that failed and
\* in which order the jobs ended, nothing of it is left: no handle, no event, no
\* job, no Param, no subsystem, no thread in a call.
THEOREM FinishLeavesNothing ==
  ASSUME DevicesPerFamily <= 1
  PROVE  Spec => []NothingLeft
<1>1. ASSUME IInv, stage = "down", "pools" \notin failed
      PROVE  /\ up = {} /\ params = {} /\ reading = {} /\ writer = None
             /\ \A h \in Handle : /\ HandleTable[h] = Empty /\ timers[h] = 0 /\ adJobs[h] = 0
                                   /\ replies[h] = 0 /\ replyJobs[h] = 0
             /\ \A t \in Thread : call[t] = NoCall
             /\ clients = 0
  <2>1. /\ "down" \in EndStages /\ "down" \in LateStages /\ "down" \in Quiet /\ "down" \in Deaf
        /\ "down" \notin UnregStages
    BY DEF EndStages, LateStages, Quiet, Deaf, UnregStages
  <2>2. \A t \in Thread : call[t] = NoCall
    BY <1>1, <2>1 DEF IInv, Stages, Thread
  <2>3. \A h \in Handle : /\ HandleTable[h] = Empty /\ timers[h] = 0 /\ adJobs[h] = 0
                          /\ replies[h] = 0 /\ replyJobs[h] = 0
    BY <1>1, <2>1 DEF IInv, Stages
  <2>4. up = {}
    BY <1>1, MayBeUpIs DEF IInv, UpAtMost, LeftOver
  <2>5. \A t \in Thread : call[t].op = None
    BY <2>2 DEF NoCall
  <2>6. params = {}
    <3>1. \A r \in Request : req[r] # "queued"
      BY <1>1, <2>1 DEF IInv, Stages
    <3>2. \A r \in Request : req[r] # "running"
      BY <1>1, <2>5, ThreadParts DEF IInv, Requests, None
    <3> QED BY <1>1, <3>1, <3>2 DEF IInv, Requests, TypeOK
  <2>7. reading = {} /\ writer = None
    BY <1>1, <2>5 DEF IInv, LocksHeld, TypeOK, At, None
  <2>8. clients = 0
    <3>1. ClientHandles = {}
      BY <2>3, EmptyTyped DEF ClientHandles, GetHandleInfo
    <3> QED BY <1>1, <3>1, FS_EmptySet DEF IInv, ClientsCounted
  <2> QED BY <2>2, <2>3, <2>4, <2>6, <2>7, <2>8
<1>2. IInv => NothingLeft
  BY <1>1 DEF NothingLeft
<1> QED BY <1>2, Invariant, PTL

-----------------------------------------------------------------------------
(* Advertisements repeat themselves *)

\* Handle h is a device's, and nothing has ended its advertisements.
Alive(h) == HandleTable[h].HType = "device" /\ "timer" \in up /\ failed \cap {"schedule", "full"} = {}

\* A step that takes nothing from what is pending.
NothingTaken ==
  \A h \in Handle : /\ timers'[h] >= timers[h] /\ adJobs'[h] >= adJobs[h]
                    /\ Advertising(Workers, h) \subseteq Advertising(Workers, h)'
NothingAdded ==
  \A h \in Handle : Alive(h)' => \/ Alive(h) /\ HandleTable'[h].chains = HandleTable[h].chains
                                 \/ HandleTable'[h].chains = 0

LEMMA PendingNat ==
  ASSUME TypeOK, NEW h \in Handle
  PROVE  /\ timers[h] \in Nat /\ adJobs[h] \in Nat /\ Cardinality(Advertising(Workers, h)) \in Nat
         /\ HandleTable[h].chains \in Nat
<1>1. timers[h] \in Nat /\ adJobs[h] \in Nat /\ HandleTable[h].chains \in Nat
  BY DEF TypeOK
<1> QED BY <1>1, AdvertisingFinite

LEMMA PendingNatNext ==
  ASSUME TypeOK', NEW h \in Handle
  PROVE  /\ timers'[h] \in Nat /\ adJobs'[h] \in Nat
         /\ IsFiniteSet(Advertising(Workers, h)') /\ Cardinality(Advertising(Workers, h)') \in Nat
         /\ HandleTable'[h].chains \in Nat
<1>1. timers'[h] \in Nat /\ adJobs'[h] \in Nat /\ HandleTable'[h].chains \in Nat
  BY DEF TypeOK
<1>2. Advertising(Workers, h)' \subseteq Workers
  BY DEF Advertising
<1> QED BY <1>1, <1>2, SdkConstants, FS_Subset, FS_CardinalityType

\* KeepsAdvertising, handle by handle.
LEMMA KeptEach ==
  ASSUME KeepsAdvertising, NEW h \in Handle, Alive(h)
  PROVE  timers[h] + adJobs[h] + Cardinality(Advertising(Workers, h)) >= HandleTable[h].chains
BY DEF KeepsAdvertising, Alive, Advertising

LEMMA KeptEachNext ==
  ASSUME \A h \in Handle : Alive(h)' =>
           timers'[h] + adJobs'[h] + Cardinality(Advertising(Workers, h)') >= HandleTable'[h].chains
  PROVE  KeepsAdvertising'
BY DEF KeepsAdvertising, Alive, Advertising

LEMMA PendingKept ==
  ASSUME IInv, IInv', KeepsAdvertising, NothingTaken, NothingAdded
  PROVE  KeepsAdvertising'
<1> SUFFICES ASSUME NEW h \in Handle, Alive(h)'
             PROVE  timers'[h] + adJobs'[h] + Cardinality(Advertising(Workers, h)') >= HandleTable'[h].chains
  BY KeptEachNext
<1> DEFINE n == Cardinality(Advertising(Workers, h))
           m == Cardinality(Advertising(Workers, h)')
<1>1. timers[h] \in Nat /\ adJobs[h] \in Nat /\ n \in Nat /\ HandleTable[h].chains \in Nat
  BY PendingNat DEF IInv
<1>2. timers'[h] \in Nat /\ adJobs'[h] \in Nat /\ m \in Nat /\ HandleTable'[h].chains \in Nat
  BY PendingNatNext DEF IInv
<1>3. n <= m
  <2>1. Advertising(Workers, h) \subseteq Advertising(Workers, h)' /\ IsFiniteSet(Advertising(Workers, h)')
    BY PendingNatNext DEF IInv, NothingTaken
  <2> QED BY <2>1, FS_Subset
<1>4. timers'[h] >= timers[h] /\ adJobs'[h] >= adJobs[h]
  BY DEF NothingTaken
<1>5. CASE HandleTable'[h].chains = 0
  <2> HIDE DEF n, m
  <2>1. timers'[h] + adJobs'[h] + m >= HandleTable'[h].chains
    BY <1>2, <1>5
  <2> QED BY <2>1 DEF m
<1>6. CASE Alive(h) /\ HandleTable'[h].chains = HandleTable[h].chains
  <2>1. timers[h] + adJobs[h] + n >= HandleTable[h].chains
    BY <1>6, KeptEach
  <2> HIDE DEF n, m
  <2>2. timers'[h] + adJobs'[h] + m >= HandleTable'[h].chains
    BY <1>1, <1>2, <1>3, <1>4, <1>6, <2>1
  <2> QED BY <2>2 DEF m
<1> QED BY <1>5, <1>6 DEF NothingAdded

\* The workers that advertise go on with it.
WorkersKeep ==
  \A w \in Workers : call[w].op = "advertise" => call'[w].op = "advertise" /\ call'[w].h = call[w].h

LEMMA QuietStep ==
  ASSUME IInv, IInv', KeepsAdvertising, UNCHANGED <<timers, adJobs, up>>, failed \subseteq failed',
         \A h \in Handle : HandleTable'[h] = HandleTable[h] \/ HandleTable'[h].chains = 0, WorkersKeep
  PROVE  KeepsAdvertising'
<1>1. NothingTaken
  <2>1. \A h \in Handle : Advertising(Workers, h) \subseteq Advertising(Workers, h)'
    BY DEF WorkersKeep, Advertising
  <2>2. \A h \in Handle : timers'[h] >= timers[h] /\ adJobs'[h] >= adJobs[h]
    BY PendingNat DEF IInv
  <2> QED BY <2>1, <2>2 DEF NothingTaken
<1>2. NothingAdded
  BY DEF NothingAdded, Alive
<1> QED BY <1>1, <1>2, PendingKept

LEMMA OthersCallsKept ==
  ASSUME CallsTyped, NEW t \in Thread, t \notin Workers \/ call[t].op # "advertise", NEW c,
         call' = [call EXCEPT ![t] = c]
  PROVE  WorkersKeep
<1>1. \A x \in Thread : x # t => call'[x] = call[x]
  BY DEF CallsTyped
<1> QED BY <1>1, ThreadParts DEF WorkersKeep

LEMMA GotoKept ==
  ASSUME CallsTyped, NEW t \in Thread, NEW n, Goto(t, n)
  PROVE  WorkersKeep
BY ThreadParts DEF CallsTyped, CallRecord, Goto, WorkersKeep

LEMMA NoDeviceKept ==
  ASSUME \A h \in Handle : HandleTable'[h] = Empty
  PROVE  KeepsAdvertising'
BY EmptyTyped DEF KeepsAdvertising

LEMMA StageKept ==
  ASSUME IInv, IInv', KeepsAdvertising,
         \/ UpnpInit2 \/ UpnpInitStage \/ UpnpInitThreadPoolsFails \/ UpnpInitFails
         \/ UpnpFinish \/ FinishUnregister \/ FinishStep
  PROVE  KeepsAdvertising'
<1>1. CASE UpnpInit2 \/ UpnpInitFails \/ UpnpFinish
  <2>1. UNCHANGED <<up, failed, timers, adJobs, HandleTable, call>>
    BY <1>1 DEF UpnpInit2, UpnpInitFails, UpnpFinish, table, jobs
  <2> QED BY <2>1, QuietStep DEF WorkersKeep
<1>2. CASE FinishUnregister
  <2>1. UNCHANGED <<up, failed, timers, adJobs, HandleTable>>
    BY <1>2 DEF FinishUnregister, FinishHandles, table, jobs
  <2>2. call' = call \/ \E c : call' = [call EXCEPT ![Main] = c]
    BY <1>2 DEF FinishUnregister, FinishHandles, UnRegisterCall, UnRegisterClientCall
  <2>3. WorkersKeep
    <3>1. CASE call' = call
      BY <3>1 DEF WorkersKeep
    <3>2. ASSUME NEW c, call' = [call EXCEPT ![Main] = c] PROVE WorkersKeep
      BY <3>2, OthersCallsKept, ThreadParts DEF IInv
    <3> QED BY <2>2, <3>1, <3>2
  <2> QED BY <2>1, <2>3, QuietStep
<1>3. CASE UpnpInitStage \/ UpnpInitThreadPoolsFails \/ FinishStep
  <2>1. stage \in Quiet
    BY <1>3, InitStagesAre, FinishStagesAt
       DEF UpnpInitStage, UpnpInitThreadPoolsFails, FinishStep, Quiet, InitStages, LateStages, EndStages
  <2>2. \A h \in Handle : HandleTable[h] = Empty
    BY <2>1 DEF IInv, Stages
  <2>3. HandleTable' = HandleTable \/ HandleTable' = [h \in Handle |-> Empty]
    BY <1>3 DEF UpnpInitStage, UpnpInitThreadPoolsFails, FinishStep, table
  <2> QED BY <2>2, <2>3, NoDeviceKept
<1> QED BY <1>1, <1>2, <1>3

LEMMA RegisterKept ==
  ASSUME IInv, IInv', KeepsAdvertising, NEW t \in Apps,
         \/ \E af \in Family : RegisterBegin(t, af)
         \/ \E ok \in BOOLEAN : RegisterEnd(t, ok)
         \/ UpnpRegisterClient(t)
  PROVE  KeepsAdvertising'
<1>1. HandleTable \in [Handle -> HandleRecord] /\ t \in Thread /\ t \notin Workers
  BY ThreadParts DEF IInv, TypeOK, HandleRecord
<1>2. UNCHANGED <<timers, adJobs, up, failed>>
  BY DEF RegisterBegin, RegisterEnd, UpnpRegisterClient, life, jobs
<1>3. CASE \E af \in Family : RegisterBegin(t, af)
  <2>1. PICK af \in Family, h \in GetFreeHandle :
          /\ HandleTable' = [HandleTable EXCEPT ![h] =
                              [Empty EXCEPT !.HType = "device", !.DeviceAf = af, !.gen = regs + 1]]
          /\ call' = [call EXCEPT ![t] = [NoCall EXCEPT !.op = "register", !.h = h, !.af = af]]
    BY <1>3 DEF RegisterBegin
  <2>2. h \in Handle
    BY DEF GetFreeHandle
  <2>3. \A k \in Handle : HandleTable'[k] = HandleTable[k] \/ HandleTable'[k].chains = 0
    BY <1>1, <2>1, <2>2, TakenForms DEF Empty
  <2> QED BY <1>1, <1>2, <2>1, <2>3, QuietStep, OthersCallsKept DEF IInv
<1>4. CASE \E ok \in BOOLEAN : RegisterEnd(t, ok)
  <2>1. Return(t) /\ call[t].op = "register"
        /\ (HandleTable' = HandleTable \/ HandleTable' = [HandleTable EXCEPT ![call[t].h] = Empty])
    BY <1>4 DEF RegisterEnd, FreeHandle
  <2>2. \A k \in Handle : HandleTable'[k] = HandleTable[k] \/ HandleTable'[k].chains = 0
    BY <1>1, <2>1, EmptyTyped
  <2> QED BY <1>1, <1>2, <2>1, <2>2, QuietStep, OthersCallsKept DEF IInv, Return
<1>5. CASE UpnpRegisterClient(t)
  <2>1. PICK h \in GetFreeHandle :
          HandleTable' = [HandleTable EXCEPT ![h] = [Empty EXCEPT !.HType = "client", !.gen = regs + 1]]
    BY <1>5 DEF UpnpRegisterClient
  <2>2. h \in Handle /\ call' = call
    BY <1>5 DEF GetFreeHandle, UpnpRegisterClient
  <2>3. \A k \in Handle : HandleTable'[k] = HandleTable[k] \/ HandleTable'[k].chains = 0
    BY <1>1, <2>1, <2>2 DEF Empty
  <2> QED BY <1>2, <2>2, <2>3, QuietStep DEF WorkersKeep
<1> QED BY <1>3, <1>4, <1>5

LEMMA UnregisterKept ==
  ASSUME IInv, IInv', KeepsAdvertising, NEW t \in Thread, Unregister(t)
  PROVE  KeepsAdvertising'
<1>1. HandleTable \in [Handle -> HandleRecord]
  BY DEF IInv, TypeOK, HandleRecord
<1>2. UNCHANGED <<timers, adJobs, up, failed>>
  BY DEF Unregister, UnRegisterSection, UnRegisterByebye, UnRegisterByebyeEnd, AdvertiseEnd,
         UnRegisterFree, UnRegisterClientCheck, UnRegisterClientFree, life, jobs
<1>3. call[t].op # "advertise"
  BY DEF Unregister, UnRegisterSection, UnRegisterByebye, UnRegisterByebyeEnd,
         UnRegisterFree, UnRegisterClientCheck, UnRegisterClientFree, At
<1>4. Return(t) \/ \E n : Goto(t, n)
  BY DEF Unregister, UnRegisterSection, UnRegisterByebye, UnRegisterByebyeEnd, AdvertiseEnd,
         UnRegisterFree, UnRegisterClientCheck, UnRegisterClientFree
<1>5. HandleTable' = HandleTable \/ HandleTable' = [HandleTable EXCEPT ![call[t].h] = Empty]
  BY DEF Unregister, UnRegisterSection, UnRegisterByebye, UnRegisterByebyeEnd, AdvertiseEnd,
         UnRegisterFree, UnRegisterClientCheck, UnRegisterClientFree, FreeHandle, table
<1>6. WorkersKeep
  <2>1. CASE Return(t)
    BY <1>3, <2>1, OthersCallsKept DEF IInv, Return
  <2>2. ASSUME NEW n, Goto(t, n) PROVE WorkersKeep
    BY <2>2, GotoKept DEF IInv
  <2> QED BY <1>4, <2>1, <2>2
<1>7. \A k \in Handle : HandleTable'[k] = HandleTable[k] \/ HandleTable'[k].chains = 0
  BY <1>1, <1>5, EmptyTyped
<1> QED BY <1>2, <1>6, <1>7, QuietStep

LEMMA CallKept ==
  ASSUME IInv, IInv', KeepsAdvertising, NEW t \in Apps, NEW h \in Handle,
         \/ UpnpUnRegisterRootDevice(t, h) \/ UpnpUnRegisterClient(t, h)
         \/ UpnpSendAdvertisement(t, h) \/ AsyncCall(t, h)
  PROVE  KeepsAdvertising'
<1>1. UNCHANGED <<timers, adJobs, up, failed, HandleTable>>
  BY DEF UpnpUnRegisterRootDevice, UpnpUnRegisterClient, UpnpSendAdvertisement, AsyncCall, life, jobs, table
<1>2. call' = call \/ \E c : call' = [call EXCEPT ![t] = c]
  BY DEF UpnpUnRegisterRootDevice, UpnpUnRegisterClient, UpnpSendAdvertisement, AsyncCall,
         UnRegisterCall, UnRegisterClientCall
<1>3. WorkersKeep
  <2>1. CASE call' = call
    BY <2>1 DEF WorkersKeep
  <2>2. ASSUME NEW c, call' = [call EXCEPT ![t] = c] PROVE WorkersKeep
    BY <2>2, OthersCallsKept, ThreadParts DEF IInv
  <2> QED BY <1>2, <2>1, <2>2
<1> QED BY <1>1, <1>3, QuietStep

LEMMA RequestKept ==
  ASSUME IInv, IInv', KeepsAdvertising, NEW w \in Workers,
         (\E r \in Request : UpnpThreadDistribution(w, r)) \/ DistributionDone(w)
  PROVE  KeepsAdvertising'
<1>1. UNCHANGED <<timers, adJobs, up, failed, HandleTable>>
  BY DEF UpnpThreadDistribution, DistributionDone, life, table
<1>2. call[w].op # "advertise" /\ \E c : call' = [call EXCEPT ![w] = c]
  <2>1. ASSUME NEW r \in Request, UpnpThreadDistribution(w, r)
        PROVE  call[w].op # "advertise" /\ \E c : call' = [call EXCEPT ![w] = c]
    <3>1. call[w] = NoCall /\ call' = [call EXCEPT ![w] = [NoCall EXCEPT !.op = "request", !.h = r]]
      BY <2>1 DEF UpnpThreadDistribution
    <3>2. call[w].op # "advertise"
      BY <3>1 DEF NoCall, None
    <3> QED BY <3>1, <3>2, Zenon
  <2>2. CASE DistributionDone(w)
    BY <2>2 DEF DistributionDone, Return
  <2> QED BY <2>1, <2>2
<1>3. PICK c : call' = [call EXCEPT ![w] = c]
  BY <1>2
<1>4. WorkersKeep
  BY <1>2, <1>3, OthersCallsKept, ThreadParts DEF IInv
<1> QED BY <1>1, <1>4, QuietStep

LEMMA AdvertisementDueKept ==
  ASSUME IInv, IInv', KeepsAdvertising, NEW h \in Handle, AdvertisementDue(h)
  PROVE  KeepsAdvertising'
<1> SUFFICES ASSUME NEW k \in Handle, Alive(k)'
             PROVE  timers'[k] + adJobs'[k] + Cardinality(Advertising(Workers, k)') >= HandleTable'[k].chains
  BY KeptEachNext
<1> DEFINE n == Cardinality(Advertising(Workers, k))
<1>1. timers[k] \in Nat /\ adJobs[k] \in Nat /\ n \in Nat /\ HandleTable[k].chains \in Nat
  BY PendingNat DEF IInv
<1>2. UNCHANGED <<life, table, call>>
  BY DEF AdvertisementDue
<1>3. failed' = failed /\ adJobs' = [adJobs EXCEPT ![h] = @ + 1] /\ timers' = [timers EXCEPT ![h] = @ - 1]
  BY DEF AdvertisementDue, Alive
<1>4. Alive(k) /\ HandleTable' = HandleTable /\ Advertising(Workers, k)' = Advertising(Workers, k)
  BY <1>2, <1>3 DEF Alive, life, table, Advertising
<1>5. timers[k] + adJobs[k] + n >= HandleTable[k].chains
  BY <1>4, KeptEach
<1>6. timers \in [Handle -> Nat] /\ adJobs \in [Handle -> Nat]
  BY DEF IInv, TypeOK
<1>7. timers'[k] + adJobs'[k] = timers[k] + adJobs[k]
  BY <1>1, <1>3, <1>6
<1>8. Cardinality(Advertising(Workers, k)') = n
  BY <1>4
<1> HIDE DEF n
<1> QED BY <1>4, <1>5, <1>7, <1>8

LEMMA AutoAdvertiseKept ==
  ASSUME IInv, IInv', KeepsAdvertising, NEW w \in Workers, NEW h \in Handle, AutoAdvertise(w, h)
  PROVE  KeepsAdvertising'
<1> SUFFICES ASSUME NEW k \in Handle, Alive(k)'
             PROVE  timers'[k] + adJobs'[k] + Cardinality(Advertising(Workers, k)') >= HandleTable'[k].chains
  BY KeptEachNext
<1> DEFINE n == Cardinality(Advertising(Workers, k))
           m == Cardinality(Advertising(Workers, k)')
<1>1. timers[k] \in Nat /\ adJobs[k] \in Nat /\ n \in Nat /\ HandleTable[k].chains \in Nat
  BY PendingNat DEF IInv
<1>2. /\ call[w] = NoCall /\ timers' = timers /\ adJobs' = [adJobs EXCEPT ![h] = @ - 1]
      /\ UNCHANGED <<life, table, failed>>
  BY DEF AutoAdvertise
<1>3. Alive(k) /\ HandleTable' = HandleTable
  BY <1>2 DEF Alive, life, table
<1>4. timers[k] + adJobs[k] + n >= HandleTable[k].chains
  BY <1>3, KeptEach
<1>5. adJobs \in [Handle -> Nat] /\ w \in Thread /\ call[w].op # "advertise"
  BY <1>2, ThreadParts DEF IInv, TypeOK, NoCall, None
<1>6. IsFiniteSet(Advertising(Workers, k)) /\ IsFiniteSet(Advertising(Workers, k)') /\ m \in Nat
  BY AdvertisingFinite, PendingNatNext DEF IInv
<1>7. CASE k = h
  <2>1. UpnpSdkInit /\ GetHandleInfo(h) = "device"
    <3>1. HandleTable[h].HType = "device"
      BY <1>3, <1>7 DEF Alive
    <3>2. stage # "down"
      BY <3>1, EmptyTyped DEF IInv, Stages, Quiet, LateStages, EndStages
    <3> QED BY <3>1, <3>2 DEF GetHandleInfo, IInv, Stages
  <2> DEFINE c == [NoCall EXCEPT !.op = "advertise", !.pc = 1, !.h = h, !.job = TRUE]
  <2>2. call' = [call EXCEPT ![w] = c] /\ c = [NoCall EXCEPT !.op = "advertise", !.pc = 1, !.h = h, !.job = TRUE]
    BY <2>1 DEF AutoAdvertise
  <2> HIDE DEF c
  <2>3. c.op = "advertise" /\ c.h = h
    BY <2>2 DEF NoCall
  <2>4. call'[w] = c /\ \A x \in Thread : x # w => call'[x] = call[x]
    BY <1>5, <2>2 DEF IInv, CallsTyped
  <2>5. Advertising(Workers, k)' = Advertising(Workers, k) \cup {w} /\ w \notin Advertising(Workers, k)
    BY <1>5, <1>7, <2>3, <2>4, ThreadParts DEF Advertising
  <2>6. m = n + 1
    BY <1>6, <2>5, FS_AddElement
  <2>7. adJobs'[k] = adJobs[k] - 1
    BY <1>2, <1>5, <1>7
  <2> HIDE DEF n, m
  <2>8. timers'[k] + adJobs'[k] + m >= HandleTable'[k].chains
    BY <1>1, <1>2, <1>3, <1>4, <2>6, <2>7
  <2> QED BY <2>8 DEF m
<1>8. CASE k # h
  <2>1. adJobs'[k] = adJobs[k]
    BY <1>2, <1>5, <1>8
  <2>2. \A x \in Thread : x # w => call'[x] = call[x]
    BY DEF AutoAdvertise, IInv, CallsTyped
  <2>3. Advertising(Workers, k) \subseteq Advertising(Workers, k)'
    BY <1>5, <2>2, ThreadParts DEF Advertising
  <2>4. n <= m
    BY <1>6, <2>3, FS_Subset
  <2> HIDE DEF n, m
  <2>5. timers'[k] + adJobs'[k] + m >= HandleTable'[k].chains
    BY <1>1, <1>2, <1>3, <1>4, <1>6, <2>1, <2>4
  <2> QED BY <2>5 DEF m
<1> QED BY <1>7, <1>8

\* An advertisement of a handle that is no device's any more ends.
LEMMA EndsKept ==
  ASSUME IInv, IInv', KeepsAdvertising, NEW t \in Thread, call[t].op = "advertise", Return(t),
         HandleTable[call[t].h].HType # "device", UNCHANGED <<timers, adJobs, up, HandleTable, failed>>
  PROVE  KeepsAdvertising'
<1> SUFFICES ASSUME NEW k \in Handle, Alive(k)'
             PROVE  timers'[k] + adJobs'[k] + Cardinality(Advertising(Workers, k)') >= HandleTable'[k].chains
  BY KeptEachNext
<1>1. Alive(k) /\ k # call[t].h
  BY DEF Alive
<1>2. call'[t] = NoCall /\ \A x \in Thread : x # t => call'[x] = call[x]
  BY CallReturns DEF IInv
<1>3. call'[t].op # "advertise"
  BY <1>2 DEF NoCall, None
<1>4. Advertising(Workers, k)' = Advertising(Workers, k)
  BY <1>1, <1>2, <1>3, ThreadParts DEF Advertising
<1> QED BY <1>1, <1>4, KeptEach

LEMMA AdvertiseKept ==
  ASSUME IInv, IInv', KeepsAdvertising, NEW t \in Thread, Advertise(t)
  PROVE  KeepsAdvertising'
<1>1. CASE SendAdvertisementAlive(t) \/ SendAdvertisementSent(t)
  <2>1. call[t].op = "advertise" /\ UNCHANGED <<timers, adJobs, up, HandleTable, failed>>
    BY <1>1 DEF SendAdvertisementAlive, AdvertiseBegin, SendAdvertisementSent, AdvertiseEnd,
                life, jobs, table, At
  <2>2. \/ Goto(t, 2) \/ Goto(t, 3)
        \/ Return(t) /\ HandleTable[call[t].h].HType # "device"
    BY <1>1 DEF SendAdvertisementAlive, AdvertiseBegin, SendAdvertisementSent, AdvertiseEnd,
                GetHandleInfo
  <2>3. CASE Return(t) /\ HandleTable[call[t].h].HType # "device"
    BY <2>1, <2>3, EndsKept
  <2>4. ASSUME NEW n, Goto(t, n) PROVE KeepsAdvertising'
    BY <2>1, <2>4, GotoKept, QuietStep DEF IInv
  <2> QED BY <2>2, <2>3, <2>4
<1>2. CASE ScheduleAdvertisement(t)
  <2> SUFFICES ASSUME NEW k \in Handle, Alive(k)'
               PROVE  timers'[k] + adJobs'[k] + Cardinality(Advertising(Workers, k)') >= HandleTable'[k].chains
    BY KeptEachNext
  <2> SUFFICES ASSUME NEW h, h = call[t].h
               PROVE  timers'[k] + adJobs'[k] + Cardinality(Advertising(Workers, k)') >= HandleTable'[k].chains
    OBVIOUS
  <2> DEFINE n == Cardinality(Advertising(Workers, k))
             m == Cardinality(Advertising(Workers, k)')
  <2>1. timers[k] \in Nat /\ adJobs[k] \in Nat /\ n \in Nat /\ HandleTable[k].chains \in Nat
    BY PendingNat DEF IInv
  <2>2. call[t].op = "advertise" /\ Return(t) /\ UNCHANGED <<life, adJobs>> /\ failed \subseteq failed'
    BY <1>2 DEF ScheduleAdvertisement, At
  <2>3. h \in Handle /\ (call[t].job <=> t \in Workers) /\ call[t].job \in BOOLEAN
    BY <2>2 DEF IInv, CallsTyped, CallRecord
  <2>4. HandleTable \in [Handle -> HandleRecord] /\ timers \in [Handle -> Nat]
    BY DEF IInv, TypeOK, HandleRecord
  <2>5. call'[t] = NoCall /\ \A x \in Thread : x # t => call'[x] = call[x]
    BY <2>2, CallReturns DEF IInv
  <2>6. call'[t].op # "advertise"
    BY <2>5 DEF NoCall, None
  <2>7. IsFiniteSet(Advertising(Workers, k)) /\ IsFiniteSet(Advertising(Workers, k)') /\ m \in Nat
    BY AdvertisingFinite, PendingNatNext DEF IInv
  <2>8. CASE k # h
    <3>1. timers'[k] = timers[k] /\ HandleTable'[k] = HandleTable[k]
      <4>1. /\ timers' = timers \/ timers' = [timers EXCEPT ![h] = @ + 1]
            /\ \/ HandleTable' = HandleTable
               \/ HandleTable' = [HandleTable EXCEPT ![h].chains = IF call[t].job THEN @ ELSE @ + 1]
        BY <1>2 DEF ScheduleAdvertisement, Scheduled
      <4> QED BY <2>4, <2>8, <4>1
    <3>2. Advertising(Workers, k)' = Advertising(Workers, k)
      BY <2>5, <2>6, <2>8, ThreadParts DEF Advertising
    <3>3. Alive(k)
      BY <2>2, <3>1 DEF Alive, life
    <3> QED BY <2>2, <3>1, <3>2, <3>3, KeptEach
  <2>9. CASE k = h
    <3>1. HandleTable[h].HType = "device"
      <4> SUFFICES ASSUME HandleTable[h].HType # "device" PROVE FALSE
        OBVIOUS
      <4>1. HandleTable' = HandleTable
        BY <1>2 DEF ScheduleAdvertisement, StillDevice, GetHandleInfo
      <4> QED BY <2>9, <4>1 DEF Alive
    <3>2. CASE /\ timers' = [timers EXCEPT ![h] = @ + 1]
               /\ HandleTable' = [HandleTable EXCEPT ![h].chains = IF call[t].job THEN @ ELSE @ + 1]
      <4>1. timers'[k] = timers[k] + 1 /\ Alive(k)
        BY <2>2, <2>3, <2>4, <2>9, <3>1, <3>2 DEF Alive, life
      <4>2. HandleTable'[k].chains = IF call[t].job THEN HandleTable[k].chains ELSE HandleTable[k].chains + 1
        BY <2>3, <2>4, <2>9, <3>2 DEF HandleRecord
      <4>3. timers[k] + adJobs[k] + n >= HandleTable[k].chains
        BY <4>1, KeptEach
      <4>4. m = IF call[t].job THEN n - 1 ELSE n
        <5>1. CASE t \in Workers
          <6>1. Advertising(Workers, k)' = Advertising(Workers, k) \ {t} /\ t \in Advertising(Workers, k)
            BY <2>2, <2>5, <2>6, <2>9, <5>1, ThreadParts DEF Advertising
          <6> QED BY <2>3, <2>7, <5>1, <6>1, FS_RemoveElement
        <5>2. CASE t \notin Workers
          <6>1. Advertising(Workers, k)' = Advertising(Workers, k)
            BY <2>5, <5>2, ThreadParts DEF Advertising
          <6> QED BY <2>3, <5>2, <6>1
        <5> QED BY <5>1, <5>2
      <4> HIDE DEF n, m
      <4>5. timers'[k] + adJobs'[k] + m >= HandleTable'[k].chains
        BY <2>1, <2>2, <2>3, <2>7, <4>1, <4>2, <4>3, <4>4
      <4> QED BY <4>5 DEF m
    <3>3. CASE UNCHANGED <<timers, HandleTable>>
      <4>1. ~call[t].job
        BY <1>2, <3>1, <3>3, <2>3, <2>4, <2>9 DEF ScheduleAdvertisement, StillDevice, GetHandleInfo, Scheduled, Alive
      <4>2. Advertising(Workers, k)' = Advertising(Workers, k)
        BY <2>3, <2>5, <4>1, ThreadParts DEF Advertising
      <4>3. Alive(k)
        BY <2>2, <3>3 DEF Alive, life
      <4> QED BY <2>2, <3>3, <4>2, <4>3, KeptEach
    <3> QED BY <1>2, <3>1, <3>2, <3>3 DEF ScheduleAdvertisement, StillDevice, GetHandleInfo, Scheduled
  <2> QED BY <2>8, <2>9
<1> QED BY <1>1, <1>2 DEF Advertise

\* Searches and replies take nothing from the advertisements.
LEMMA AnswerKept ==
  ASSUME IInv, IInv', KeepsAdvertising, NEW t \in Thread,
         \/ Reply(t) \/ Search(t)
         \/ \E h \in Handle : ReplyStart(t, h)
         \/ \E af \in Family : SearchArrives(t, af)
  PROVE  KeepsAdvertising'
<1> USE DEF Reply, ReplySends, ReplySent, Search, SearchDevice, SearchReply, ReplyStart,
            SearchArrives
<1>1. UNCHANGED <<timers, adJobs, up, failed, HandleTable>>
  BY DEF AdvertiseBegin, life, jobs, table
<1>2. call[t].op # "advertise"
  <2>1. NoCall.op # "advertise"
    BY DEF NoCall, None
  <2>2. call[t].op \in {"reply", "search"} \/ call[t] = NoCall
    BY DEF At
  <2> QED BY <2>1, <2>2
<1>3. \A x \in Thread : x # t => call'[x] = call[x]
  BY DEF AdvertiseBegin, IInv, CallsTyped, Goto, Return
<1>4. WorkersKeep
  BY <1>2, <1>3, ThreadParts DEF WorkersKeep
<1> QED BY <1>1, <1>4, QuietStep

LEMMA ReplyDueKept ==
  ASSUME IInv, IInv', KeepsAdvertising, NEW h \in Handle, ReplyDue(h)
  PROVE  KeepsAdvertising'
<1>1. UNCHANGED <<timers, adJobs, up, failed, HandleTable, call>>
  BY DEF ReplyDue, life, table
<1> QED BY <1>1, QuietStep DEF WorkersKeep

LEMMA NextKept ==
  ASSUME IInv, IInv', KeepsAdvertising, [Next]_vars
  PROVE  KeepsAdvertising'
<1>1. CASE UpnpInit2 \/ UpnpInitStage \/ UpnpInitThreadPoolsFails \/ UpnpInitFails
  BY <1>1, StageKept
<1>2. ASSUME NEW t \in Apps, Register(t) \/ CallStep(t)
      PROVE  KeepsAdvertising'
  <2>1. Register(t) => UpnpRegisterClient(t) \/ \E af \in Family : RegisterBegin(t, af)
    BY DEF Register, UpnpRegisterRootDevice, UpnpRegisterRootDevice2, UpnpRegisterRootDevice3,
           UpnpRegisterRootDevice4, Family
  <2>2. t \in Thread
    BY ThreadParts
  <2> QED BY <1>2, <2>1, <2>2, RegisterKept, UnregisterKept, AdvertiseKept, AnswerKept DEF CallStep
<1>3. ASSUME NEW t \in Apps, NEW h \in Handle,
             \/ UpnpUnRegisterRootDevice(t, h) \/ UpnpUnRegisterClient(t, h)
             \/ UpnpSendAdvertisement(t, h) \/ Async(t, h)
      PROVE  KeepsAdvertising'
  <2>1. Async(t, h) => AsyncCall(t, h)
    BY DEF Async, UpnpSubscribeAsync, UpnpUnSubscribeAsync, UpnpRenewSubscriptionAsync,
           UpnpSendActionAsync, UpnpSendActionExAsync, UpnpGetServiceVarStatusAsync
  <2> QED BY <1>3, <2>1, CallKept
<1>4. ASSUME NEW h \in Handle, AdvertisementDue(h) \/ ReplyDue(h)
      PROVE  KeepsAdvertising'
  BY <1>4, AdvertisementDueKept, ReplyDueKept
<1>5. ASSUME NEW w \in Workers, WorkerStep(w)
      PROVE  KeepsAdvertising'
  <2>1. w \in Thread
    BY ThreadParts
  <2> QED BY <1>5, <2>1, AutoAdvertiseKept, AdvertiseKept, RequestKept, AnswerKept DEF WorkerStep
<1>6. CASE UpnpFinish \/ MainStep
  BY <1>6, StageKept, UnregisterKept, ThreadParts DEF MainStep
<1>7. CASE UNCHANGED vars
  BY <1>7 DEF vars, life, table, jobs, KeepsAdvertising
<1>8. ASSUME NEW r \in Receivers, Search(r) \/ \E af \in Family : SearchArrives(r, af)
      PROVE  KeepsAdvertising'
  BY <1>8, AnswerKept, ThreadParts
<1> QED BY <1>1, <1>2, <1>3, <1>4, <1>5, <1>6, <1>7, <1>8 DEF Next

\* A registered device that was advertised has its next advertisement on the timer,
\* in the pool or with a worker, once for every call that asked for it, whatever
\* other threads register, unregister, advertise or call meanwhile: AutoAdvertise
\* never gets lost between the timer thread, the pool and the timer thread, unless
\* there was no memory for the event of a repetition or the pool refused the job.
THEOREM AdvertisingKept ==
  ASSUME DevicesPerFamily <= 1
  PROVE  Spec => []KeepsAdvertising
<1>1. Init => KeepsAdvertising
  <2> SUFFICES ASSUME Init PROVE KeepsAdvertising
    OBVIOUS
  <2>1. \A h \in Handle : HandleTable[h].HType # "device"
    BY EmptyTyped DEF Init
  <2> QED BY <2>1 DEF KeepsAdvertising
<1>2. IInv /\ IInv' /\ KeepsAdvertising /\ [Next]_vars => KeepsAdvertising'
  BY NextKept
<1> QED BY <1>1, <1>2, Invariant, PTL DEF Spec

-----------------------------------------------------------------------------
(* Nothing is used that is not there *)

\* What is there at each stage, when no stage before the network's fails.
Needed ==
  LET pools == {"locks", "send", "recv", "mini"} IN
  [s \in Quiet \cup UnregStages \cup {"up"} |->
     CASE s \in {"log", "mutexes", "down"} -> {}
       [] s \in {"pools", "finish_locks"} -> {"locks"}
       [] s \in {"timer", "finish_servers"} -> pools
       [] s = "finish_recv" -> {"locks", "send", "recv"}
       [] s = "sendpool" -> {"locks", "send"}
       [] OTHER -> pools \cup {"timer"}]
UpAtLeast == Needed[stage] \subseteq up

LEMMA NeededIs ==
  /\ Needed["log"] = {} /\ Needed["mutexes"] = {} /\ Needed["down"] = {}
  /\ Needed["pools"] = {"locks"} /\ Needed["finish_locks"] = {"locks"}
  /\ Needed["timer"] = {"locks", "send", "recv", "mini"}
  /\ Needed["finish_servers"] = {"locks", "send", "recv", "mini"}
  /\ Needed["finish_recv"] = {"locks", "send", "recv"} /\ Needed["sendpool"] = {"locks", "send"}
  /\ \A s \in {"ifinfo", "miniserver", "webserver", "up", "finish_timer"} \cup UnregStages :
       Needed[s] = {"locks", "send", "recv", "mini", "timer"}
<1> USE DEF Needed, Quiet, InitStages, UnregStages, LateStages, EndStages
<1>1. Needed["log"] = {} /\ Needed["mutexes"] = {} /\ Needed["down"] = {} /\ Needed["pools"] = {"locks"}
  OBVIOUS
<1>2. /\ Needed["finish_locks"] = {"locks"} /\ Needed["timer"] = {"locks", "send", "recv", "mini"}
      /\ Needed["finish_servers"] = {"locks", "send", "recv", "mini"}
  OBVIOUS
<1>3. Needed["sendpool"] = {"locks", "send"} /\ Needed["finish_recv"] = {"locks", "send", "recv"}
  OBVIOUS
<1>4. \A s \in {"ifinfo", "miniserver", "webserver", "up", "finish_timer"} \cup UnregStages :
        Needed[s] = {"locks", "send", "recv", "mini", "timer"}
  OBVIOUS
<1> QED BY <1>1, <1>2, <1>3, <1>4

\* The lock is there from the third stage of UpnpInit2 on, and the timer while there are
\* handles.
LEMMA LockThere ==
  ASSUME IInv, UpAtLeast
  PROVE  /\ stage \notin {"log", "mutexes", "down"} => "locks" \in up
         /\ stage \notin Quiet => "locks" \in up /\ "send" \in up /\ "timer" \in up
<1>1. stage \in Quiet \cup UnregStages \cup {"up"}
  BY DEF IInv, Stages
<1> QED BY <1>1, NeededIs DEF UpAtLeast, Quiet, InitStages, LateStages, EndStages, UnregStages

\* The stages of UpnpInit2 whose failure UpnpFinish can clean up after.
CleanFaults == InitFaults \cap {"log", "mutexes", "timer"} = {}

LEMMA NextUp ==
  ASSUME IInv, CleanFaults, UpAtLeast, [Next]_vars
  PROVE  UpAtLeast'
<1>1. CASE UpnpInit2
  <2>1. stage' = "log"
    BY <1>1, InitOrderAt DEF UpnpInit2
  <2> QED BY <2>1, NeededIs DEF UpAtLeast
<1>2. CASE UpnpInitStage
  <2>1. stage \in InitStages /\ stage' = StageAfter(stage) /\ up' = up \cup Brings(stage)
    BY <1>2, InitStagesAre DEF UpnpInitStage
  <2>2. Needed[stage'] \subseteq Needed[stage] \cup Brings(stage)
    BY <2>1, StageAfterIs, BringsIs, NeededIs DEF InitStages
  <2> QED BY <2>1, <2>2 DEF UpAtLeast
<1>3. CASE UpnpInitThreadPoolsFails
  <2>1. stage' = "down"
    BY <1>3 DEF UpnpInitThreadPoolsFails
  <2> QED BY <2>1, NeededIs DEF UpAtLeast
<1>4. CASE UpnpInitFails \/ UpnpFinish
  <2>1. stage \in {"ifinfo", "miniserver", "webserver", "up"} /\ stage' = "devices4" /\ up' = up
    BY <1>4, InitStagesAre, InitFaultsAssumption DEF UpnpInitFails, UpnpFinish, InitStages, CleanFaults
  <2>2. Needed[stage'] = Needed[stage]
    BY <2>1, NeededIs DEF UnregStages
  <2> QED BY <2>1, <2>2 DEF UpAtLeast
<1>5. CASE FinishUnregister
  <2>1. stage \in UnregStages /\ stage' \in UnregStages \cup {"finish_timer"} /\ up' = up
    BY <1>5 DEF FinishUnregister, FinishHandles, UnregStages
  <2>2. Needed[stage'] = Needed[stage]
    BY <2>1, NeededIs
  <2> QED BY <2>1, <2>2 DEF UpAtLeast
<1>6. CASE FinishStep
  <2>1. stage \in {"finish_timer", "finish_servers", "finish_recv", "sendpool", "finish_locks"}
        /\ stage' = NextStage(stage) /\ up' = up \ ShutsDown(stage)
    BY <1>6, FinishStagesAt DEF FinishStep
  <2>2. Needed[stage'] \subseteq Needed[stage] \ ShutsDown(stage)
    BY <2>1, NextStageIs, ShutsDownIs, NeededIs
  <2> QED BY <2>1, <2>2 DEF UpAtLeast
<1>7. ASSUME UNCHANGED <<stage, up>> PROVE UpAtLeast'
  BY <1>7 DEF UpAtLeast
<1>8. ASSUME NEW t \in Thread,
             \/ Unregister(t) \/ Advertise(t) \/ Reply(t) \/ Search(t)
             \/ \E ok \in BOOLEAN : RegisterEnd(t, ok)
      PROVE  UNCHANGED <<stage, up>>
  BY <1>8 DEF Unregister, Advertise, UnRegisterSection, UnRegisterByebye, UnRegisterByebyeEnd, AdvertiseEnd,
     UnRegisterFree, UnRegisterClientCheck, UnRegisterClientFree, SendAdvertisementAlive,
     AdvertiseBegin, SendAdvertisementSent, ScheduleAdvertisement, RegisterEnd, Reply, ReplySends,
     ReplySent, Search, SearchDevice, SearchReply, life
<1>9. ASSUME NEW t \in Apps, Register(t) \/ CallStep(t)
      PROVE  UpAtLeast'
  <2>1. Register(t) => UNCHANGED <<stage, up>>
    BY DEF Register, UpnpRegisterClient, UpnpRegisterRootDevice, UpnpRegisterRootDevice2,
           UpnpRegisterRootDevice3, UpnpRegisterRootDevice4, RegisterBegin, life
  <2> QED BY <1>7, <1>8, <1>9, <2>1, ThreadParts DEF CallStep
<1>10. ASSUME NEW t \in Apps, NEW h \in Handle,
              \/ UpnpUnRegisterRootDevice(t, h) \/ UpnpUnRegisterClient(t, h)
              \/ UpnpSendAdvertisement(t, h) \/ Async(t, h)
       PROVE  UNCHANGED <<stage, up>>
  BY <1>10 DEF UpnpUnRegisterRootDevice, UpnpUnRegisterClient, UpnpSendAdvertisement, Async, AsyncCall,
     UpnpSubscribeAsync, UpnpUnSubscribeAsync, UpnpRenewSubscriptionAsync,
     UpnpSendActionAsync, UpnpSendActionExAsync, UpnpGetServiceVarStatusAsync, life
<1>11. ASSUME NEW h \in Handle, AdvertisementDue(h) \/ ReplyDue(h) PROVE UNCHANGED <<stage, up>>
  BY <1>11 DEF AdvertisementDue, ReplyDue, life
<1>12. ASSUME NEW w \in Workers, WorkerStep(w)
       PROVE  UNCHANGED <<stage, up>>
  <2>1. (\E h \in Handle : AutoAdvertise(w, h) \/ ReplyStart(w, h)) => UNCHANGED <<stage, up>>
    BY DEF AutoAdvertise, ReplyStart, life
  <2>2. (\E r \in Request : UpnpThreadDistribution(w, r)) \/ DistributionDone(w) => UNCHANGED <<stage, up>>
    BY DEF UpnpThreadDistribution, DistributionDone, life
  <2> QED BY <1>8, <1>12, <2>1, <2>2, ThreadParts DEF WorkerStep
<1>13. CASE UNCHANGED vars
  BY <1>7, <1>13 DEF vars, life
<1>14. CASE MainStep
  BY <1>5, <1>6, <1>7, <1>8, <1>14, ThreadParts DEF MainStep
<1>15. ASSUME NEW r \in Receivers, Search(r) \/ \E af \in Family : SearchArrives(r, af)
       PROVE  UNCHANGED <<stage, up>>
  BY <1>8, <1>15, ThreadParts DEF SearchArrives, life
<1> QED BY <1>1, <1>2, <1>3, <1>4, <1>7, <1>9, <1>10, <1>11, <1>12, <1>13, <1>14, <1>15 DEF Next

LEMMA UsesThere ==
  ASSUME NoUseAfterShutdown, NEW R, R \subseteq up, Uses(R)
  PROVE  NoUseAfterShutdown'
BY DEF Uses, NoUseAfterShutdown

LEMMA MisuseKept ==
  ASSUME NoUseAfterShutdown, misuse' = misuse
  PROVE  NoUseAfterShutdown'
BY DEF NoUseAfterShutdown

\* A thread in a call of the application, of UpnpFinish, of an advertisement or of a
\* search has the lock.
LEMMA CallerHasLock ==
  ASSUME IInv, UpAtLeast, NEW t \in Thread, call[t].op # None
  PROVE  "locks" \in up
<1>1. call[t] # NoCall
  BY DEF NoCall
<1>2. stage \notin {"log", "mutexes", "down"}
  <2>1. \A s \in {"log", "mutexes", "down"} :
          /\ s # "up" /\ s \notin UnregStages /\ s \in Deaf
          /\ s \in InitStages \cup {"finish_locks", "down"}
    BY DEF InitStages, UnregStages, Deaf, EndStages
  <2> QED BY <1>1, <2>1 DEF IInv, Stages, Thread
<1> QED BY <1>2, LockThere

LEMMA UnregisterClean ==
  ASSUME IInv, UpAtLeast, NoUseAfterShutdown, NEW t \in Thread, Unregister(t)
  PROVE  NoUseAfterShutdown'
<1>1. call[t].op \in {"unregister", "unregclient"}
  BY DEF Unregister, UnRegisterSection, UnRegisterByebye, UnRegisterByebyeEnd,
         UnRegisterFree, UnRegisterClientCheck, UnRegisterClientFree, At
<1>2. {"locks"} \subseteq up
  BY <1>1, CallerHasLock DEF None
<1>3. CASE UnRegisterByebye(t)
  <2>1. call[t].op = "unregister"
    BY <1>3 DEF UnRegisterByebye, At
  <2>2. HandleTable[call[t].h].gen = call[t].gen
    BY <2>1 DEF IInv, HandlesHeld
  <2> QED BY <1>2, <1>3, <2>2, MisuseKept DEF UnRegisterByebye
<1>4. CASE UnRegisterByebyeEnd(t)
  BY <1>4, MisuseKept DEF UnRegisterByebyeEnd, AdvertiseEnd
<1>5. CASE UnRegisterSection(t) \/ UnRegisterFree(t) \/ UnRegisterClientCheck(t) \/ UnRegisterClientFree(t)
  <2>1. Uses({"locks"})
    BY <1>5 DEF UnRegisterSection, UnRegisterFree, UnRegisterClientCheck, UnRegisterClientFree
  <2> QED BY <1>2, <2>1, UsesThere
<1> QED BY <1>3, <1>4, <1>5 DEF Unregister

LEMMA AdvertiseClean ==
  ASSUME IInv, UpAtLeast, NoUseAfterShutdown, NEW t \in Thread, Advertise(t)
  PROVE  NoUseAfterShutdown'
<1>1. call[t].op = "advertise"
  BY DEF Advertise, SendAdvertisementAlive, SendAdvertisementSent, ScheduleAdvertisement, At
<1>2. {"locks"} \subseteq up /\ call[t].h \in Handle
  BY <1>1, CallerHasLock DEF None, IInv, CallsTyped
<1>3. CASE SendAdvertisementAlive(t)
  BY <1>2, <1>3, UsesThere DEF SendAdvertisementAlive, AdvertiseBegin
<1>4. CASE SendAdvertisementSent(t)
  BY <1>4, MisuseKept DEF SendAdvertisementSent, AdvertiseEnd
<1>5. CASE ScheduleAdvertisement(t)
  <2>1. CASE StillDevice(call[t].h)
    <3>1. stage \notin Quiet
      BY <1>2, <2>1, EmptyTyped DEF StillDevice, GetHandleInfo, IInv, Stages
    <3>2. {"locks", "timer"} \subseteq up
      BY <3>1, LockThere
    <3>3. Uses({"locks", "timer"})
      BY <1>5, <2>1 DEF ScheduleAdvertisement
    <3> QED BY <3>2, <3>3, UsesThere
  <2>2. CASE ~StillDevice(call[t].h)
    BY <1>2, <1>5, <2>2, UsesThere DEF ScheduleAdvertisement
  <2> QED BY <2>1, <2>2
<1> QED BY <1>3, <1>4, <1>5 DEF Advertise

\* The worker with a reply looks the handle up under the lock.
LEMMA ReplyClean ==
  ASSUME IInv, UpAtLeast, NoUseAfterShutdown, NEW t \in Thread, Reply(t)
  PROVE  NoUseAfterShutdown'
<1>1. call[t].op = "reply"
  BY DEF Reply, ReplySends, ReplySent, At
<1>2. {"locks"} \subseteq up
  BY <1>1, CallerHasLock DEF None
<1>3. Uses({"locks"}) \/ misuse' = misuse
  BY DEF Reply, ReplySends, ReplySent, AdvertiseBegin
<1> QED BY <1>2, <1>3, UsesThere, MisuseKept

\* So does the receiver with a search; its late replies are the exception.
LEMMA SearchClean ==
  ASSUME IInv, UpAtLeast, NoUseAfterShutdown, NEW t \in Thread, Search(t)
  PROVE  NoUseAfterShutdown'
<1>1. call[t].op = "search"
  BY DEF Search, SearchDevice, SearchReply, At
<1>2. {"locks"} \subseteq up
  BY <1>1, CallerHasLock DEF None
<1>3. CASE SearchDevice(t)
  BY <1>2, <1>3, UsesThere DEF SearchDevice
<1>4. CASE SearchReply(t)
  BY <1>4 DEF SearchReply, NoUseAfterShutdown
<1> QED BY <1>3, <1>4 DEF Search

\* What a thread of the application calls, with the SDK up.
LEMMA OpenClean ==
  ASSUME IInv, UpAtLeast, NoUseAfterShutdown, NEW t \in Apps,
         \/ Register(t) \/ \E h \in Handle : UpnpSendAdvertisement(t, h) \/ AsyncCall(t, h)
  PROVE  NoUseAfterShutdown'
<1>1. stage = "up"
  BY DEF Register, UpnpRegisterClient, UpnpRegisterRootDevice, UpnpRegisterRootDevice2,
         UpnpRegisterRootDevice3, UpnpRegisterRootDevice4, RegisterBegin, UpnpSendAdvertisement,
         AsyncCall, Open
<1>2. {"locks"} \subseteq up /\ {"locks", "send"} \subseteq up
  <2>1. stage \notin Quiet
    BY <1>1 DEF Quiet, InitStages, LateStages, EndStages
  <2> QED BY <2>1, LockThere
<1>3. Uses({"locks"}) \/ Uses({"locks", "send"})
  BY DEF Register, UpnpRegisterClient, UpnpRegisterRootDevice, UpnpRegisterRootDevice2,
         UpnpRegisterRootDevice3, UpnpRegisterRootDevice4, RegisterBegin, UpnpSendAdvertisement,
         AsyncCall
<1> QED BY <1>2, <1>3, UsesThere

LEMMA NextClean ==
  ASSUME IInv, UpAtLeast, NoUseAfterShutdown, [Next]_vars
  PROVE  NoUseAfterShutdown'
<1>1. CASE \/ UpnpInit2 \/ UpnpInitStage \/ UpnpInitThreadPoolsFails \/ UpnpInitFails
           \/ UpnpFinish \/ FinishUnregister
  <2>1. misuse' = misuse
    BY <1>1 DEF UpnpInit2, UpnpInitStage, UpnpInitThreadPoolsFails, UpnpInitFails, UpnpFinish,
                FinishUnregister, FinishHandles
  <2> QED BY <2>1, MisuseKept
<1>2. CASE FinishStep
  <2>1. stage \in {"finish_timer", "finish_servers", "finish_recv", "sendpool", "finish_locks"}
        /\ Uses(ShutsDown(stage) \ Tolerant)
    BY <1>2, FinishStagesAt DEF FinishStep
  <2>2. ShutsDown(stage) \ Tolerant \subseteq Needed[stage]
    BY <2>1, ShutsDownIs, NeededIs DEF Tolerant
  <2>3. ShutsDown(stage) \ Tolerant \subseteq up
    BY <2>2 DEF UpAtLeast
  <2> QED BY <2>1, <2>3, UsesThere
<1>3. ASSUME NEW t \in Apps, Register(t) \/ CallStep(t)
      PROVE  NoUseAfterShutdown'
  <2>1. (\E ok \in BOOLEAN : RegisterEnd(t, ok)) => NoUseAfterShutdown'
    BY MisuseKept DEF RegisterEnd
  <2>2. t \in Thread
    BY ThreadParts
  <2> QED BY <1>3, <2>1, <2>2, OpenClean, UnregisterClean, AdvertiseClean, ReplyClean, SearchClean
          DEF CallStep
<1>4. ASSUME NEW t \in Apps, NEW h \in Handle,
             \/ UpnpUnRegisterRootDevice(t, h) \/ UpnpUnRegisterClient(t, h)
             \/ UpnpSendAdvertisement(t, h) \/ Async(t, h)
      PROVE  NoUseAfterShutdown'
  <2>1. Async(t, h) => AsyncCall(t, h)
    BY DEF Async, UpnpSubscribeAsync, UpnpUnSubscribeAsync, UpnpRenewSubscriptionAsync,
           UpnpSendActionAsync, UpnpSendActionExAsync, UpnpGetServiceVarStatusAsync
  <2>2. UpnpUnRegisterRootDevice(t, h) \/ UpnpUnRegisterClient(t, h) => NoUseAfterShutdown'
    BY MisuseKept DEF UpnpUnRegisterRootDevice, UpnpUnRegisterClient
  <2> QED BY <1>4, <2>1, <2>2, OpenClean
<1>5. ASSUME NEW h \in Handle, AdvertisementDue(h) \/ ReplyDue(h) PROVE NoUseAfterShutdown'
  BY <1>5, MisuseKept DEF AdvertisementDue, ReplyDue
<1>6. ASSUME NEW w \in Workers, WorkerStep(w)
      PROVE  NoUseAfterShutdown'
  <2>1. ASSUME NEW h \in Handle, AutoAdvertise(w, h) PROVE NoUseAfterShutdown'
    <3>1. adJobs[h] # 0 /\ Uses({"locks"})
      BY <2>1 DEF AutoAdvertise
    <3>2. stage \notin {"log", "mutexes", "down"}
      BY <3>1 DEF IInv, Stages, InitStages, EndStages
    <3>3. {"locks"} \subseteq up
      BY <3>2, LockThere
    <3> QED BY <3>1, <3>3, UsesThere
  <2>2. (\E r \in Request : UpnpThreadDistribution(w, r)) \/ DistributionDone(w) => NoUseAfterShutdown'
    BY MisuseKept DEF UpnpThreadDistribution, DistributionDone
  <2>3. ASSUME NEW h \in Handle, ReplyStart(w, h) PROVE NoUseAfterShutdown'
    BY <2>3, MisuseKept DEF ReplyStart
  <2> QED BY <1>6, <2>1, <2>2, <2>3, AdvertiseClean, ReplyClean, ThreadParts DEF WorkerStep
<1>7. CASE UNCHANGED vars
  BY <1>7, MisuseKept DEF vars
<1>8. CASE MainStep
  BY <1>1, <1>2, <1>8, UnregisterClean, ThreadParts DEF MainStep
<1>9. ASSUME NEW r \in Receivers, Search(r) \/ \E af \in Family : SearchArrives(r, af)
      PROVE  NoUseAfterShutdown'
  BY <1>9, SearchClean, MisuseKept, ThreadParts DEF SearchArrives
<1> QED BY <1>1, <1>2, <1>3, <1>4, <1>5, <1>6, <1>7, <1>8, <1>9 DEF Next

\* No lock, timer or pool is used before UpnpInit2 has made it or after UpnpFinish
\* has shut it down, not by the calls of the application, not by UpnpFinish and not
\* by the jobs that still run while it works, and the byebyes of a device are sent
\* from the record of that device: for any number of threads and restarts.  The one
\* exception is the reply that a receiver puts on the timer of a device it found
\* before UpnpFinish unregistered it: it may come after TimerThreadShutdown.  The
\* stages of UpnpInit2 that may fail are those of the network and the thread pools;
\* after an earlier failure UpnpFinish does shut down what was never made.
THEOREM NothingUsedAfterShutdown ==
  ASSUME DevicesPerFamily <= 1, CleanFaults
  PROVE  Spec => []NoUseAfterShutdown
<1>1. Init => UpAtLeast /\ NoUseAfterShutdown
  BY NeededIs DEF Init, UpAtLeast, NoUseAfterShutdown
<1>2. IInv /\ UpAtLeast /\ NoUseAfterShutdown /\ [Next]_vars => UpAtLeast' /\ NoUseAfterShutdown'
  BY NextUp, NextClean
<1> QED BY <1>1, <1>2, Invariant, PTL DEF Spec
==============================================================================
